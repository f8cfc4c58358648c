SPECIFICATION StructsSpec
CONSTANTS
  PeerFields <- MCPeerFields
  Originals <- MCOriginals
  MaxFields = 4
INVARIANTS
  StructsTypeOK
  InSync
  ReadsWhatWasSent
  Verdict
  RoundTrip

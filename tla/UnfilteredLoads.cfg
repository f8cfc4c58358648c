SPECIFICATION PointsSpec
CONSTANTS
  c1 = c1
  c2 = c2
  x0 = x0
  x1 = x1
  x2 = x2
  x3 = x3
  fh = fh
  one = one
  two = two
  both = both
  Tags <- AllTags
  Times = {1, 2, 3}
  None = None
  Unit = 2
  Desc <- Descriptions
  Inputs <- ExcludedLimit
INVARIANT LoadsMeetCondtions

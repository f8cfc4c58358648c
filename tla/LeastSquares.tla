------------------------------ MODULE LeastSquares ------------------------------
(***************************************************************************)
(* The two fits (LeastSquaresCurve.cpp, LeastSquareSurface.cpp) up to the  *)
(* system of linear equations that each builds from its points and gives   *)
(* to OpenCV: matrix * coefficients = right.  inv() is not looked at.      *)
(***************************************************************************)
EXTENDS Integers, Sequences, SequencesExt

SumOf(values) == FoldLeft(LAMBDA sum, v : sum + v, 0, values)
SumOver(f(_), points) == SumOf([i \in DOMAIN points |-> f(points[i])])

\* pow(v, n), and the products v * ... * v that are written out, n <= 4.
Power(v, n) == <<1, v, v * v, v * v * v, v * v * v * v>>[n + 1]

\* polyfit with the n = 2 ReturnPoint is called with: of a row of U the column j
\* is the power x^j; the coefficients are (U'U)^-1 U'Y.
Columns == 1..3
polyfit(points) ==
  LET U(p, j) == Power(p.x, j - 1)
  IN [matrix |-> [i \in Columns |-> [j \in Columns |->
                    SumOver(LAMBDA p : U(p, i) * U(p, j), points)]],
      right  |-> [i \in Columns |-> SumOver(LAMBDA p : U(p, i) * p.y, points)]]

\* A faulty variant: in the last row sigma_x_y and sigma_y are swapped.
CalculationSwapped(points) ==
  LET S(i, j) == SumOver(LAMBDA p : Power(p.x, i) * Power(p.y, j), points)
      Z(i, j) == SumOver(LAMBDA p : p.z * Power(p.x, i) * Power(p.y, j), points)
  IN [matrix |->
        << <<S(4,0), S(2,2), S(3,1), S(3,0), S(2,1), S(2,0)>>,
           <<S(2,2), S(0,4), S(1,3), S(1,2), S(0,3), S(0,2)>>,
           <<S(3,1), S(1,3), S(2,2), S(2,1), S(1,2), S(1,1)>>,
           <<S(3,0), S(1,2), S(2,1), S(2,0), S(1,1), S(1,0)>>,
           <<S(2,1), S(0,3), S(1,2), S(1,1), S(0,2), S(0,1)>>,
           <<S(2,0), S(0,2), S(0,1), S(1,0), S(1,1), Len(points)>> >>,
      right |-> <<Z(2,0), Z(0,2), Z(1,1), Z(1,0), Z(0,1), Z(0,0)>>]

\* Calculation: S(i, j) is sigma_xi_yj, Z(i, j) is sigma_z_xi_yj; Edata and Ndata.
Calculation(points) ==
  LET S(i, j) == SumOver(LAMBDA p : Power(p.x, i) * Power(p.y, j), points)
      Z(i, j) == SumOver(LAMBDA p : p.z * Power(p.x, i) * Power(p.y, j), points)
  IN [matrix |->
        << <<S(4,0), S(2,2), S(3,1), S(3,0), S(2,1), S(2,0)>>,
           <<S(2,2), S(0,4), S(1,3), S(1,2), S(0,3), S(0,2)>>,
           <<S(3,1), S(1,3), S(2,2), S(2,1), S(1,2), S(1,1)>>,
           <<S(3,0), S(1,2), S(2,1), S(2,0), S(1,1), S(1,0)>>,
           <<S(2,1), S(0,3), S(1,2), S(1,1), S(0,2), S(0,1)>>,
           <<S(2,0), S(0,2), S(1,1), S(1,0), S(0,1), Len(points)>> >>,
      right |-> <<Z(2,0), Z(0,2), Z(1,1), Z(1,0), Z(0,1), Z(0,0)>>]

-----------------------------------------------------------------------------
(***************************************************************************)
(* What a least squares fit is: the coefficients c for which the error     *)
(* value(p) - (c[1] * term(1, p) + ... + c[n] * term(n, p)) of the points   *)
(* is orthogonal to every term.                                            *)
(***************************************************************************)
Normal(terms, value(_), points) ==
  [matrix |-> [i \in DOMAIN terms |-> [j \in DOMAIN terms |->
                 SumOver(LAMBDA p : terms[i][p] * terms[j][p], points)]],
   right  |-> [i \in DOMAIN terms |-> SumOver(LAMBDA p : terms[i][p] * value(p), points)]]

\* 1, x, x^2 and x^2, y^2, xy, x, y, 1: the terms of the published coefficients.
CurveTerms(points) ==
  LET on == ToSet(points) IN
  <<[p \in on |-> 1], [p \in on |-> p.x], [p \in on |-> p.x * p.x]>>
SurfaceTerms(points) ==
  LET on == ToSet(points) IN
  <<[p \in on |-> p.x * p.x], [p \in on |-> p.y * p.y], [p \in on |-> p.x * p.y],
    [p \in on |-> p.x], [p \in on |-> p.y], [p \in on |-> 1]>>

CurveEquations(points) == Normal(CurveTerms(points), LAMBDA p : p.y, points)
SurfaceEquations(points) == Normal(SurfaceTerms(points), LAMBDA p : p.z, points)
=================================================================================

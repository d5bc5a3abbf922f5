----------------------------- MODULE ProbArith -----------------------------
(***************************************************************************)
(* Exact arithmetic on probabilities.  The engines compute with float4 /  *)
(* float8 values; the model computes with reduced fractions <<n, d>>,     *)
(* d > 0, so that "p == 1.0" tests and the division / re-multiplication   *)
(* of clause probabilities are exact.  Rounding is not modelled.          *)
(***************************************************************************)
EXTENDS Integers, Sequences

RECURSIVE GCD(_, _)
GCD(a, b) == IF b = 0 THEN a ELSE GCD(b, a % b)

Abs(a) == IF a < 0 THEN -a ELSE a

\* the reduced fraction n/d for d # 0
Frac(n, d) ==
  LET g == GCD(Abs(n), Abs(d))
      s == IF d < 0 THEN -1 ELSE 1
  IN IF n = 0 THEN <<0, 1>> ELSE <<s * (n \div g), s * (d \div g)>>

Zero == <<0, 1>>
One  == <<1, 1>>

QAdd(a, b) == Frac(a[1] * b[2] + b[1] * a[2], a[2] * b[2])

\* a sum over the least common denominator, so that long sums of fractions
\* with many factors stay within TLC's 32-bit integers
QAddLcm(a, b) ==
  LET g == GCD(a[2], b[2])
  IN Frac(a[1] * (b[2] \div g) + b[1] * (a[2] \div g), (a[2] \div g) * b[2])
QSub(a, b) == QAdd(a, <<-b[1], b[2]>>)
QMul(a, b) == Frac(a[1] * b[1], a[2] * b[2])
QDiv(a, b) == Frac(a[1] * b[2], a[2] * b[1])
QLt(a, b)  == a[1] * b[2] < b[1] * a[2]
QLeq(a, b) == a[1] * b[2] <= b[1] * a[2]

\* mutant: the two sides added without "- p_left * p_right"
QOrNoProduct(a, b) == QAdd(a, b)

\* indeEventConjunc / "p_left + p_right - p_left * p_right":
\* the probability of the disjunction of two independent events
QOr(a, b) == QSub(QAdd(a, b), QMul(a, b))

\* sum and product of a sequence of fractions
RECURSIVE QSumSeq(_)
QSumSeq(s) == IF s = <<>> THEN Zero ELSE QAdd(Head(s), QSumSeq(Tail(s)))
=============================================================================

----------------------------- MODULE MCSumCheck -----------------------------
(* Two multilinears in three variables over the field of 7 elements, with  *)
(* g(a, b) = a * b^2 + a of degree 3, and the inputs prove_rounds rejects: *)
(* no multilinears, zero variables and different arities.                  *)
EXTENDS SumCheck

MCG(v) == v[1] * v[2] * v[2] + v[1]

Table(s) == [i \in 0..(Len(s) - 1) |-> s[i + 1]]

MCInputs ==
  { << Table(<<1, 0, 3, 6, 2, 5, 0, 4>>), Table(<<0, 1, 1, 5, 6, 2, 3, 0>>) >>,
    << Table(<<4, 4, 0, 1, 2, 6, 5, 3>>), Table(<<2, 0, 6, 6, 1, 3, 0, 5>>) >>,
    << Table(<<3, 1>>), Table(<<5, 2>>) >>,
    << Table(<<1, 2, 3, 4>>), Table(<<6, 5>>) >>,
    << Table(<<6>>), Table(<<2>>) >>,
    << >> }
=============================================================================

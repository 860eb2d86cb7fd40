------------------------------ MODULE Rounding ------------------------------
(* The two roundings of the code's languages, on the ratio of an integer    *)
(* and a positive one.                                                      *)
EXTENDS Integers

\* Python's round: a half goes to the even neighbour.
RoundEven(a, b) ==
  LET q == a \div b
      twice == 2 * (a % b)
  IN IF twice > b \/ (twice = b /\ q % 2 = 1) THEN q + 1 ELSE q

\* JavaScript's Math.round: a half goes up.
RoundUp(a, b) == (2 * a + b) \div (2 * b)
=============================================================================

-------------------------------- MODULE Totals --------------------------------
(***************************************************************************)
(* The total of a sequence or another function of numbers, counted: one    *)
(* unit for each of what a number counts, such as the bytes of a line or   *)
(* of a block, or the pennies in a purse.                                  *)
(***************************************************************************)
EXTENDS Integers, Sequences, FiniteSets

Units(s) == UNION {{i} \X (1 .. s[i]) : i \in DOMAIN s}

Total(s) == Cardinality(Units(s))

(* The sum of the values of a function, some of which may be negative.     *)
Sum(f) == Total(f) - Total([x \in DOMAIN f |-> -f[x]])
=============================================================================

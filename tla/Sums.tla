-------------------------------- MODULE Sums --------------------------------
(***************************************************************************)
(* The loops over transactions that add up amounts: dues.go goes through   *)
(* the list, and adds what it is looking for to what it has.               *)
(***************************************************************************)
EXTENDS Integers, Sequences

\* A loop that adds up the numbers it finds.
Total(found) ==
    LET sum[n \in 0 .. Len(found)] == IF n = 0 THEN 0 ELSE sum[n - 1] + found[n]
    IN  sum[Len(found)]
=============================================================================

---------------------------- MODULE MCDuesLedger ----------------------------
(***************************************************************************)
(* A small instance of DuesLedger for TLC: two tax rates, neither of which *)
(* is told from the other, and amounts of which the larger is covered in   *)
(* part by the smaller.                                                    *)
(***************************************************************************)
EXTENDS DuesLedger, TLC

MCCents == {-2, 0, 1, 3}

Symmetry == Permutations(VATs)
=============================================================================

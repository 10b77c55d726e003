--------------------------- MODULE MCRegistration ---------------------------
(***************************************************************************)
(* Small instances of Registration for TLC.  The choices are packages as   *)
(* in docs/config-template.yaml: one that everybody gets and only an admin *)
(* may take away, and one that needs it.                                   *)
(***************************************************************************)
EXTENDS Registration, TLC

MCSymmetry == Permutations(Workers) \cup Permutations(Keys) \cup Permutations(UserComments)

MCDefault == {"attendance"}

\* Two packages, of which one needs the other.
MCTwo == {"attendance", "sponsor"}
MCTwoRequires == [c \in MCTwo |-> IF c = "sponsor" THEN {"attendance"} ELSE {}]
MCTwoExcludes == [c \in MCTwo |-> {}]

\* Two packages for an admin to give, and one to pick with the first.
MCGiven == {"attendance", "guest"}
MCThree == MCGiven \cup {"sponsor"}
MCThreeRequires == [c \in MCThree |-> IF c = "sponsor" THEN {"attendance"} ELSE {}]
MCThreeExcludes == [c \in MCThree |-> {}]
=============================================================================

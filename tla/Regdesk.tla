------------------------------ MODULE Regdesk -------------------------------
(***************************************************************************)
(* StatusDues, together with who held the permission "regdesk" while a     *)
(* request was handled.  The handler of a check-in reads the admin infos   *)
(* of the user's registrations one at a time and goes on with what it has  *)
(* read, while admins grant the permission and withdraw it.                *)
(***************************************************************************)
EXTENDS StatusDues

VARIABLE held   \* history: worker -> attendees who have held the permission since
                \* its request arrived

heldVars == <<vars, held>>

HeldInit == Init /\ held = [w \in Workers |-> {}]

HeldNext ==
    /\ SerialNext
    /\ held' = [w \in Workers |-> IF req'[w].pc = "idle" THEN {} ELSE held[w] \cup regdesk']

HeldSpec == HeldInit /\ [][HeldNext]_heldVars

-----------------------------------------------------------------------------
\* Whoever is checked in is checked in by an admin, or by a user one of whose own
\* registrations held the permission "regdesk" at some moment since that user's request
\* arrived: not by one whose permission was withdrawn before, nor on the strength of
\* the permission of somebody else ("check that any of the registrations owned by
\* subject have the regdesk permission", status.go 112).
CheckedInAtRegdesk ==
    [][\A a \in Attendees :
         Change(a, Statuses, {"checked in"})
            => \E w \in Workers :
                 /\ req[w].pc = "record" /\ req'[w].pc = "mail" /\ req[w].att = a
                 /\ \/ req[w].by = Admin
                    \/ \E oa \in held[w] : Owner[oa] = req[w].by]_heldVars
=============================================================================

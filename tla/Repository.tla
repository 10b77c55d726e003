----------------------------- MODULE Repository -----------------------------
(***************************************************************************)
(* What the services expect of a database (dbrepo.Repository): tables that *)
(* change by four operations and by nothing else, and drafts that belong   *)
(* to the handler that loaded them.  Badge numbers grow; an attendee that  *)
(* was just added has no admin info and no status changes; the owner of an *)
(* attendee stays; a status change is added to those before it, which      *)
(* stay, and is the latest from then on; a save writes what the handler    *)
(* has in hand, and until then nobody sees it.                             *)
(***************************************************************************)
EXTENDS Integers

CONSTANTS Rows, Infos, Statuses, NoInfo, Workers

VARIABLES
    attendees,      \* badge number -> row
    adminInfo,      \* badge number -> admin info
    statusChanges,  \* badge number -> the statuses it had after "new", each under a key
    latestStatus,   \* badge number -> the status it was given last
    draft           \* worker -> what it has loaded, and perhaps changed since

tables == <<attendees, adminInfo, statusChanges, latestStatus>>

NoStatusChanges == [key \in {} |-> "new"]

NoDraft == [entity |-> "none"]
Draft(entity, id, object) == [entity |-> entity, id |-> id, object |-> object]

Init ==
    /\ attendees = [id \in {} |-> NoInfo]
    /\ adminInfo = [id \in {} |-> NoInfo]
    /\ statusChanges = [id \in {} |-> NoStatusChanges]
    /\ latestStatus = [id \in {} |-> "new"]
    /\ draft = [w \in Workers |-> NoDraft]

Extended(f, x, v) == [y \in DOMAIN f \cup {x} |-> IF y = x THEN v ELSE f[y]]

AddAttendee ==
    \E id \in DOMAIN attendees', row \in Rows :
        /\ \A other \in DOMAIN attendees : other < id
        /\ attendees' = Extended(attendees, id, row)
        /\ adminInfo' = Extended(adminInfo, id, NoInfo)
        /\ statusChanges' = Extended(statusChanges, id, NoStatusChanges)
        /\ latestStatus' = Extended(latestStatus, id, "new")
        /\ UNCHANGED draft

AddStatusChange ==
    \E id \in DOMAIN attendees, status \in Statuses :
        /\ \E key \in DOMAIN statusChanges'[id] \ DOMAIN statusChanges[id] :
             statusChanges' = [statusChanges EXCEPT ![id] = Extended(@, key, status)]
        /\ latestStatus' = [latestStatus EXCEPT ![id] = status]
        /\ UNCHANGED <<attendees, adminInfo, draft>>

Load(w) ==
    /\ draft[w] = NoDraft
    /\ \E id \in DOMAIN attendees :
         draft' = [draft EXCEPT ![w] = Draft("Attendee", id, attendees[id])]
           \/ draft' = [draft EXCEPT ![w] = Draft("AdminInfo", id, adminInfo[id])]
    /\ UNCHANGED tables

\* The owner of an attendee cannot be edited.
Edit(w) ==
    LET d == draft[w] IN
    /\ \/ /\ d.entity = "Attendee"
          /\ \E row \in Rows : /\ row.identity = d.object.identity
                               /\ draft' = [draft EXCEPT ![w].object = row]
       \/ /\ d.entity = "AdminInfo"
          /\ \E info \in Infos : draft' = [draft EXCEPT ![w].object = info]
    /\ UNCHANGED tables

UpdateAttendee(w) ==
    /\ draft[w].entity = "Attendee"
    /\ attendees' = [attendees EXCEPT ![draft[w].id] = draft[w].object]
    /\ draft' = [draft EXCEPT ![w] = NoDraft]
    /\ UNCHANGED <<adminInfo, statusChanges, latestStatus>>

WriteAdminInfo(w) ==
    /\ draft[w].entity = "AdminInfo"
    /\ adminInfo' = [adminInfo EXCEPT ![draft[w].id] = draft[w].object]
    /\ draft' = [draft EXCEPT ![w] = NoDraft]
    /\ UNCHANGED <<attendees, statusChanges, latestStatus>>

\* A request is turned down, or ends with an error.
Discard(w) ==
    /\ draft' = [draft EXCEPT ![w] = NoDraft]
    /\ UNCHANGED tables

\* All of them end.
Restart ==
    /\ draft' = [w \in Workers |-> NoDraft]
    /\ UNCHANGED tables

Next ==
    \/ AddAttendee \/ AddStatusChange \/ Restart
    \/ \E w \in Workers :
         Load(w) \/ Edit(w) \/ UpdateAttendee(w) \/ WriteAdminInfo(w) \/ Discard(w)

Spec == Init /\ [][Next]_<<tables, draft>>
=============================================================================

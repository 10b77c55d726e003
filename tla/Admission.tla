----------------------------- MODULE Admission -----------------------------
(***************************************************************************)
(* Who is let in, when, and with which choices, from the configuration the *)
(* service starts with to the requests it answers:                         *)
(*                                                                         *)
(*   POST /attendees, PUT /attendees/{id}, PUT /attendees/{id}/admin and   *)
(*   GET /countdown                                                        *)
(*                                                                         *)
(* Requests are one step here: Registration and StatusDues look into them. *)
(***************************************************************************)
EXTENDS Callers

CONSTANTS
    Configurations,     \* what the configuration file may hold (bound)
    Credentials,        \* what a request may carry (bound)
    MaxAttendees        \* attendees registered (bound)

\* A start that is not given or malformed is a number, too.
ASSUME ConfigurationAssumption ==
    \A c \in Configurations : c # [running |-> FALSE] /\ c.start \in Int /\ c.early \in Int
ASSUME CredentialAssumption ==
    \A cred \in Credentials : cred.header \in Token \cup {NoToken} /\ cred.cookie \in Token \cup {NoToken}
ASSUME BoundAssumption == MaxAttendees \in Nat

VARIABLES
    config,     \* the configuration in force, or NoConfig before startup and when it failed
    clock,      \* the time
    rows,       \* badge number -> identity of the owner and choices, by section
    adminFlags, \* badge number -> the flags in the admin info
    last        \* history: the last request handled: what it did and who asked for it

vars == <<config, clock, rows, adminFlags, last>>

NoConfig == [running |-> FALSE]
Running == config # NoConfig

None == [op |-> "none"]

\* The flags of an attendee are split between the row and the admin info.
TypeOK ==
    /\ config \in Configurations \cup {NoConfig}
    /\ clock \in Nat
    /\ Len(rows) <= MaxAttendees /\ Len(adminFlags) = Len(rows)
    /\ \A id \in DOMAIN rows :
         LET flags == config.choices["flags"] IN
         /\ rows[id].choices["flags"] \subseteq {k \in DOMAIN flags : ~flags[k].adminOnly}
         /\ adminFlags[id] \subseteq {k \in DOMAIN flags : flags[k].adminOnly}
    /\ last.op \in {"none", "register", "update", "admin", "countdown"}

Init ==
    /\ config = NoConfig
    /\ clock = 0
    /\ rows = << >>
    /\ adminFlags = << >>
    /\ last = None

\* The service starts, unless the configuration is not accepted: then it ends.
Startup(c) ==
    /\ ~Running
    /\ Accepted(c)
    /\ config' = c
    /\ UNCHANGED <<clock, rows, adminFlags, last>>

\* Time is followed until a second after the public start (bound).
Tick ==
    /\ Running
    /\ clock < config.start + 4
    /\ clock' = clock + 1
    /\ UNCHANGED <<config, rows, adminFlags, last>>

-----------------------------------------------------------------------------
IsAdmin(ctx) == HasRoleOrApiToken(config, ctx, config.adminRole)

\* When registrations of a caller are accepted from (CanRegisterAtThisTime): staff
\* and those with the admin role, but not the api token, may be early.
StartFor(ctx) ==
    IF /\ config.earlyRole # ""
       /\ IsAuthorizedAsRole(ctx, config.earlyRole) \/ IsAuthorizedAsRole(ctx, config.adminRole)
    THEN EarlyRegistrationStartTime(config)
    ELSE RegistrationStartTime(config)

CanRegisterAtThisTime(ctx) == StartFor(ctx) <= clock

\* CanChangeChoiceTo for the choices of one section.
CanChangeChoiceTo(ctx, section, original, new) ==
    \A k \in DOMAIN section :
        /\ (section[k].adminOnly \/ section[k].readOnly) /\ (k \in original <=> k \notin new)
              => IsAdmin(ctx)
        /\ k \in new => \A cn \in section[k].constraint : cn.key \in new <=> ~cn.not

\* The part of validate that looks at choices and at the time.
Valid(ctx, original, new) ==
    /\ \A s \in Sections :
         /\ new[s] \subseteq DOMAIN ConfigNoAdmin(config, s)
         /\ CanChangeChoiceTo(ctx, ConfigNoAdmin(config, s), original[s], new[s])
    /\ CanRegisterAtThisTime(ctx)

\* What can be picked; everything else is turned down by validate.
Picks == {[s \in Sections |-> IF s = "flags" THEN f ELSE IF s = "packages" THEN p ELSE o] :
             f \in SUBSET DOMAIN config.choices["flags"],
             p \in SUBSET DOMAIN config.choices["packages"],
             o \in SUBSET DOMAIN config.choices["options"]}

\* A request is let through to the handler.
Admitted(cred) == Running /\ LetThrough(config, cred)

\* POST of an attendee; a login is asked for only if configured.
Register(cred, choices) ==
    LET ctx == Context(config, cred) IN
    /\ Admitted(cred)
    /\ config.requireLogin => LoggedInOrApiToken(config, ctx)
    /\ Len(rows) < MaxAttendees
    /\ Valid(ctx, [s \in Sections |-> DefaultChoices(config.choices[s])], choices)
    /\ rows' = Append(rows, [owner |-> ctx.sub, choices |-> choices])
    /\ adminFlags' = Append(adminFlags, {})
    /\ last' = [op |-> "register", cred |-> cred, id |-> Len(rows) + 1]
    /\ UNCHANGED <<config, clock>>

\* PUT of an attendee, by its owner or an admin.
Update(cred, id, choices) ==
    LET ctx == Context(config, cred) IN
    /\ Admitted(cred)
    /\ LoggedInOrApiToken(config, ctx)
    /\ IsSubjectOrRoleOrApiToken(config, ctx, rows[id].owner, config.adminRole)
    /\ Valid(ctx, rows[id].choices, choices)
    /\ rows' = [rows EXCEPT ![id] = [owner |-> rows[id].owner, choices |-> choices]]
    /\ last' = [op |-> "update", cred |-> cred, id |-> id]
    /\ UNCHANGED <<config, clock, adminFlags>>

\* PUT of the admin info; its flags are checked apart from those of the attendee.
WriteAdminInfo(cred, id, flags) ==
    LET ctx == Context(config, cred)
        section == FlagsConfigAdminOnly(config) IN
    /\ Admitted(cred)
    /\ HasRoleOrApiToken(config, ctx, config.adminRole)
    /\ flags \subseteq DOMAIN section
    /\ CanChangeChoiceTo(ctx, section, adminFlags[id], flags)
    /\ adminFlags' = [adminFlags EXCEPT ![id] = flags]
    /\ last' = [op |-> "admin", cred |-> cred, id |-> id]
    /\ UNCHANGED <<config, clock, rows>>

\* math.Round of a time span that is not negative, in quarters of a second.
Seconds(q) == (q + 2) \div 4

\* Mutant: everybody is shown the early start.
CountdownTarget_EarlyForAll(ctx) ==
    IF config.earlyRole # "" THEN EarlyRegistrationStartTime(config)
    ELSE RegistrationStartTime(config)

\* The start that the countdown counts to.
CountdownTarget(ctx) ==
    IF config.earlyRole # "" /\ IsAuthorizedAsRole(ctx, config.earlyRole)
    THEN EarlyRegistrationStartTime(config)
    ELSE RegistrationStartTime(config)

\* GET of the countdown, in seconds.
Countdown(cred) ==
    LET ctx == Context(config, cred)
        togo == CountdownTarget(ctx) - clock IN
    /\ Admitted(cred)
    /\ config.requireLogin => LoggedInOrApiToken(config, ctx)
    /\ last' = [op |-> "countdown", cred |-> cred, shownAt |-> clock,
                seconds |-> Seconds(IF togo < 0 THEN 0 ELSE togo)]
    /\ UNCHANGED <<config, clock, rows, adminFlags>>

Next ==
    \/ \E c \in Configurations : Startup(c)
    \/ Tick
    \/ \E cred \in Credentials :
         \/ Admitted(cred) /\ \E choices \in Picks :
              \/ Register(cred, choices)
              \/ \E id \in DOMAIN rows : Update(cred, id, choices)
         \/ Admitted(cred) /\ \E id \in DOMAIN rows :
              \E flags \in SUBSET DOMAIN config.choices["flags"] : WriteAdminInfo(cred, id, flags)
         \/ Countdown(cred)

Spec == Init /\ [][Next]_vars

-----------------------------------------------------------------------------
(***************************************************************************)
(* Properties                                                              *)
(***************************************************************************)
\* The token a request presents, be it in the header or in a cookie that is read.
Presented(cred) ==
    IF cred.header.present THEN cred.header
    ELSE IF config.cookieName # "" THEN cred.cookie
    ELSE NoToken

\* A token that the identity provider signed for this user, with this role.
IssuedTo(token, sub) == token.present /\ token.good /\ token.key \in config.keys /\ token.sub = sub
IssuedFor(token, role) == token.present /\ token.good /\ token.key \in config.keys /\ role \in token.roles

\* The api token is a secret of its own; an admin has the role on a token.
ByAdmin(cred) ==
    \/ cred.apiKey # "" /\ cred.apiKey = config.api
    \/ cred.apiKey = "" /\ IssuedFor(Presented(cred), config.adminRole)

\* Whatever configuration the service was started with: who gets at the admin info
\* holds the api token or a signed token with the admin role, though filters and
\* context values take a missing token or role for "".
AdminDoors == last.op = "admin" => ByAdmin(last.cred)

\* The row of an attendee is changed only by its owner or an admin; attendees who were
\* registered without a login have no owner ("allows the service to store the subject
\* of the token and use it for authorization", config-template.yaml 45).
OthersRowsUntouched ==
    last.op = "update" =>
        \/ ByAdmin(last.cred)
        \/ /\ rows[last.id].owner # ""
           /\ last.cred.apiKey = "" /\ IssuedTo(Presented(last.cred), rows[last.id].owner)

\* The countdown tells, to half a second, when the caller can register: from then on
\* the time is no reason to refuse (CanRegisterAtThisTime), and before it is, save for
\* admins, who are shown the public start but may be early.
CountdownTellsWhen ==
    last.op = "countdown" =>
        LET ctx == Context(config, last.cred)
            zero == last.shownAt + 4 * last.seconds IN
        /\ clock >= zero + 2 => CanRegisterAtThisTime(ctx)
        /\ clock < zero - 2 /\ config.adminRole \notin ctx.roles => ~CanRegisterAtThisTime(ctx)

\* A role more never makes anybody wait longer: staff is not refused at a time at which
\* the public can register ("must be earlier than go_live.start_iso_datetime").
MoreRolesNeverLater ==
    Running => \A one, other \in {Context(config, cred) : cred \in Credentials} :
        one.roles \subseteq other.roles /\ CanRegisterAtThisTime(one)
            => CanRegisterAtThisTime(other)

\* The choices an attendee has, those in the admin info included, satisfy all
\* constraints together, though each side is checked without the other.
ChoicesConsistent ==
    \A id \in DOMAIN rows, s \in Sections :
        LET has == rows[id].choices[s] \cup (IF s = "flags" THEN adminFlags[id] ELSE {}) IN
        \A k \in has : \A cn \in config.choices[s][k].constraint : cn.key \in has <=> ~cn.not
=============================================================================

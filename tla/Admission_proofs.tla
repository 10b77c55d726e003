-------------------------- MODULE Admission_proofs --------------------------
(***************************************************************************)
(* What holds of admission for every configuration that is accepted and    *)
(* whatever requests carry: the doors of the admin, the rows of others,    *)
(* the times, and the choices.                                             *)
(***************************************************************************)
EXTENDS Admission, TLAPS

\* A service that runs does so with a configuration that was accepted; nothing has
\* happened before it started.
Started ==
    /\ Running => config \in Configurations /\ Accepted(config)
    /\ ~Running => last = None /\ rows = << >>

LEMMA LongerIsOther ==
    ASSUME NEW min \in Nat \ {0}, NEW max, NEW text, NEW other, Length(other) = 0,
           CheckLength(min, max, text)
    PROVE  text # other
BY DEF CheckLength

\* An accepted configuration names an api token and a role for admins, so a context
\* without either reads as no admin's.
LEMMA SecretsNamed ==
    ASSUME NEW c, Accepted(c)
    PROVE  c.api # "" /\ c.adminRole # ""
<1>1. CheckLength(16, 256, c.api) /\ CheckLength(1, 256, c.adminRole)
  BY DEF Accepted, validateSecurityConfiguration
<1>2. 16 \in Nat \ {0} /\ 1 \in Nat \ {0}
  OBVIOUS
<1> QED BY <1>1, <1>2, LongerIsOther, LengthAssumption, Zenon

\* The early start is never later than the public one.
LEMMA EarlyIsNotLate ==
    ASSUME NEW c \in Configurations, Accepted(c)
    PROVE  /\ RegistrationStartTime(c) \in Int /\ EarlyRegistrationStartTime(c) \in Int
           /\ EarlyRegistrationStartTime(c) <= RegistrationStartTime(c)
<1>1. c.start \in Int /\ c.early \in Int
  BY ConfigurationAssumption
<1>2. c.early # NotGiven => ~(c.start < c.early)
  BY DEF Accepted, validateRegistrationStartTime
<1> QED BY <1>1, <1>2 DEF RegistrationStartTime, EarlyRegistrationStartTime

\* A user or a role in the context of a request comes from a token that is signed.
LEMMA ContextFromToken ==
    ASSUME NEW cred \in Credentials, LetThrough(config, cred)
    PROVE  LET ctx == Context(config, cred) IN
           /\ \A role : role \in ctx.roles => cred.apiKey = "" /\ IssuedFor(Presented(cred), role)
           /\ ctx.sub # "" => cred.apiKey = "" /\ IssuedTo(Presented(cred), ctx.sub)
<1> DEFINE token == fromAuthHeaderOrCookie(config, cred)
           ctx == Context(config, cred)
<1>1. cred.header \in Token \cup {NoToken} /\ cred.cookie \in Token \cup {NoToken}
  BY CredentialAssumption
<1>2. token.present = Presented(cred).present
  BY <1>1 DEF fromAuthHeaderOrCookie, fromCookie, Presented, Token, NoToken
<1>3. ASSUME token.present
      PROVE  /\ token.good = Presented(cred).good /\ token.key = Presented(cred).key
             /\ token.sub = Presented(cred).sub /\ token.roles = Presented(cred).roles
  BY <1>1, <1>3 DEF fromAuthHeaderOrCookie, fromCookie, Presented, Token, NoToken
<1>4. CASE cred.apiKey # ""
  <2>1. ctx.sub = "" /\ ctx.roles = {}
    BY <1>4 DEF Context, Anonymous
  <2> QED BY <2>1
<1>5. CASE cred.apiKey = "" /\ token.present
  <2>1. ctx.sub = token.sub /\ ctx.roles = token.roles
    BY <1>5 DEF Context, Anonymous
  <2>2. token.good /\ token.key \in config.keys
    BY <1>5 DEF LetThrough, Verified, OidcKeySet
  <2>3. Presented(cred).present /\ Presented(cred).good /\ Presented(cred).key \in config.keys
    BY <1>2, <1>3, <1>5, <2>2
  <2>4. ctx.sub = Presented(cred).sub /\ ctx.roles = Presented(cred).roles
    BY <1>3, <1>5, <2>1
  <2> QED BY <1>5, <2>3, <2>4 DEF IssuedFor, IssuedTo
<1>6. CASE cred.apiKey = "" /\ ~token.present
  <2>1. ctx.sub = "" /\ ctx.roles = {}
    BY <1>6 DEF Context, Anonymous
  <2> QED BY <2>1
<1> QED BY <1>4, <1>5, <1>6

\* Who passes the filter for admins is one.
LEMMA FilterFindsAdmins ==
    ASSUME NEW cred \in Credentials, Running, Started, LetThrough(config, cred),
           HasRoleOrApiToken(config, Context(config, cred), config.adminRole)
    PROVE  ByAdmin(cred)
<1>1. config.api # "" /\ config.adminRole # ""
  BY SecretsNamed DEF Started
<1>2. CASE HasApiToken(config, Context(config, cred))
  <2>1. cred.apiKey # ""
    BY <1>1, <1>2 DEF HasApiToken, Context, Anonymous
  <2> QED BY <2>1 DEF LetThrough, ByAdmin
<1>3. CASE IsAuthorizedAsRole(Context(config, cred), config.adminRole)
  <2>1. config.adminRole \in Context(config, cred).roles
    BY <1>1, <1>3 DEF IsAuthorizedAsRole
  <2> QED BY <2>1, ContextFromToken DEF ByAdmin
<1> QED BY <1>2, <1>3 DEF HasRoleOrApiToken

LEMMA StartedInvariant ==
    /\ Init => Started
    /\ Started /\ [Next]_vars => Started'
    /\ Started /\ [Next]_vars /\ Running => Running' /\ config' = config
<1>1. Init => Started
  BY DEF Init, Started, Running
<1>2. ASSUME Started, [Next]_vars
      PROVE  Started' /\ (Running => Running' /\ config' = config)
  <2> USE <1>2 DEF Started, Running
  <2>1. ASSUME NEW c \in Configurations, Startup(c) PROVE Started' /\ (Running => Running' /\ config' = config)
    BY <2>1, ConfigurationAssumption DEF Startup, NoConfig
  <2>2. CASE Tick
    BY <2>2 DEF Tick
  <2>3. ASSUME NEW cred \in Credentials, NEW choices, Register(cred, choices)
        PROVE  Started' /\ (Running => Running' /\ config' = config)
    BY <2>3 DEF Register, Admitted
  <2>4. ASSUME NEW cred \in Credentials, NEW id, NEW choices, Update(cred, id, choices)
        PROVE  Started' /\ (Running => Running' /\ config' = config)
    BY <2>4 DEF Update, Admitted
  <2>5. ASSUME NEW cred \in Credentials, NEW id, NEW flags, WriteAdminInfo(cred, id, flags)
        PROVE  Started' /\ (Running => Running' /\ config' = config)
    BY <2>5 DEF WriteAdminInfo, Admitted
  <2>6. ASSUME NEW cred \in Credentials, Countdown(cred)
        PROVE  Started' /\ (Running => Running' /\ config' = config)
    BY <2>6 DEF Countdown, Admitted
  <2>7. CASE UNCHANGED vars
    BY <2>7 DEF vars
  <2> QED BY <2>1, <2>2, <2>3, <2>4, <2>5, <2>6, <2>7 DEF Next
<1> QED BY <1>1, <1>2

-----------------------------------------------------------------------------
\* Who gets at a row passed the filters as an admin or as its owner.
LEMMA FilterFindsOwners ==
    ASSUME NEW cred \in Credentials, NEW owner, Running, Started, LetThrough(config, cred),
           LoggedInOrApiToken(config, Context(config, cred)),
           IsSubjectOrRoleOrApiToken(config, Context(config, cred), owner, config.adminRole)
    PROVE  \/ ByAdmin(cred)
           \/ owner # "" /\ cred.apiKey = "" /\ IssuedTo(Presented(cred), owner)
<1>1. CASE HasRoleOrApiToken(config, Context(config, cred), config.adminRole)
  BY <1>1, FilterFindsAdmins
<1>2. CASE ~HasRoleOrApiToken(config, Context(config, cred), config.adminRole)
  <2>1. Context(config, cred).sub = owner /\ owner # ""
    BY <1>2 DEF IsSubjectOrRoleOrApiToken, HasRoleOrApiToken, LoggedInOrApiToken
  <2> QED BY <2>1, ContextFromToken
<1> QED BY <1>1, <1>2

Doors == AdminDoors /\ OthersRowsUntouched

LEMMA DoorsStep ==
    ASSUME Started, Doors, [Next]_vars
    PROVE  Doors'
<1>0. Running => config' = config
  BY StartedInvariant
<1>1. ASSUME NEW cred, Running PROVE ByAdmin(cred)' <=> ByAdmin(cred)
  BY <1>0, <1>1 DEF ByAdmin, IssuedFor, Presented
<1>2. ASSUME NEW c \in Configurations, Startup(c) PROVE Doors'
  <2>1. last'.op = "none"
    BY <1>2 DEF Startup, Started, None
  <2> QED BY <2>1 DEF Doors, AdminDoors, OthersRowsUntouched
<1>3. CASE Tick \/ UNCHANGED vars
  BY <1>3 DEF Tick, vars, Doors, AdminDoors, OthersRowsUntouched, ByAdmin, IssuedFor, IssuedTo, Presented
<1>4. ASSUME NEW cred \in Credentials, NEW choices, Register(cred, choices) PROVE Doors'
  BY <1>4 DEF Register, Doors, AdminDoors, OthersRowsUntouched
<1>5. ASSUME NEW cred \in Credentials, NEW id \in DOMAIN rows, NEW choices,
             Update(cred, id, choices)
      PROVE  Doors'
  <2>1. Running /\ LetThrough(config, cred) /\ config' = config
    BY <1>5 DEF Update, Admitted
  <2>2. \/ ByAdmin(cred)
        \/ /\ rows[id].owner # "" /\ cred.apiKey = ""
           /\ IssuedTo(Presented(cred), rows[id].owner)
    BY <1>5, <2>1, FilterFindsOwners DEF Update
  <2>3. rows'[id].owner = rows[id].owner
    BY <1>5 DEF Update
  <2>4. last'.op = "update" /\ last'.cred = cred /\ last'.id = id
    BY <1>5 DEF Update
  <2>5. Presented(cred)' = Presented(cred)
    BY <2>1 DEF Presented
  <2>6. AdminDoors'
    BY <2>4 DEF AdminDoors
  <2>7. OthersRowsUntouched'
    BY <1>1, <2>1, <2>2, <2>3, <2>4, <2>5 DEF OthersRowsUntouched, IssuedTo
  <2> QED BY <2>6, <2>7 DEF Doors
<1>6. ASSUME NEW cred \in Credentials, NEW id, NEW flags, WriteAdminInfo(cred, id, flags)
      PROVE  Doors'
  <2>1. Running /\ LetThrough(config, cred)
    BY <1>6 DEF WriteAdminInfo, Admitted
  <2>2. ByAdmin(cred)
    BY <1>6, <2>1, FilterFindsAdmins DEF WriteAdminInfo
  <2>3. last'.op = "admin" /\ last'.cred = cred
    BY <1>6 DEF WriteAdminInfo
  <2> QED BY <1>1, <2>1, <2>2, <2>3 DEF Doors, AdminDoors, OthersRowsUntouched
<1>7. ASSUME NEW cred \in Credentials, Countdown(cred) PROVE Doors'
  BY <1>7 DEF Countdown, Doors, AdminDoors, OthersRowsUntouched
<1> QED BY <1>2, <1>3, <1>4, <1>5, <1>6, <1>7 DEF Next

LEMMA DoorsInvariant == Spec => []Doors
<1>1. Init => Started /\ Doors
  <2>1. Init => Doors
    BY DEF Init, Doors, AdminDoors, OthersRowsUntouched, None
  <2> QED BY <2>1, StartedInvariant
<1>2. Started /\ Doors /\ [Next]_vars => (Started /\ Doors)'
  BY StartedInvariant, DoorsStep
<1> QED BY <1>1, <1>2, PTL DEF Spec

\* Nobody but an admin gets at the admin info, whatever configuration the service was
\* started with: it is the lengths asked of api token and admin role that keep a
\* missing one from counting (validateSecurityConfiguration).
THEOREM DoorsHold == Spec => []AdminDoors
<1>1. Doors => AdminDoors
  BY DEF Doors
<1> QED BY <1>1, DoorsInvariant, PTL

\* Nobody but the owner or an admin changes the row of an attendee, and a row nobody
\* owns only an admin: no subject on either side is not the same subject
\* (IsSubjectOrRoleOrApiToken).
THEOREM RowsOfOthersStay == Spec => []OthersRowsUntouched
<1>1. Doors => OthersRowsUntouched
  BY DEF Doors
<1> QED BY <1>1, DoorsInvariant, PTL

-----------------------------------------------------------------------------
\* In a state with an accepted configuration, roles only help.
LEMMA RolesOnlyHelp ==
    ASSUME Started, clock \in Nat
    PROVE  MoreRolesNeverLater
<1> SUFFICES ASSUME Running, NEW one, NEW other, one.roles \subseteq other.roles,
                    CanRegisterAtThisTime(one)
             PROVE  CanRegisterAtThisTime(other)
  BY DEF MoreRolesNeverLater
<1>1. /\ RegistrationStartTime(config) \in Int /\ EarlyRegistrationStartTime(config) \in Int
      /\ EarlyRegistrationStartTime(config) <= RegistrationStartTime(config)
  BY EarlyIsNotLate DEF Started
<1>2. \A role : IsAuthorizedAsRole(one, role) => IsAuthorizedAsRole(other, role)
  BY DEF IsAuthorizedAsRole
<1>3. \/ StartFor(other) = StartFor(one)
      \/ /\ StartFor(other) = EarlyRegistrationStartTime(config)
         /\ StartFor(one) = RegistrationStartTime(config)
  BY <1>2 DEF StartFor
<1> QED BY <1>1, <1>3 DEF CanRegisterAtThisTime

\* The countdown that was shown last.
CountdownShown ==
    /\ clock \in Nat
    /\ last.op = "countdown" =>
         LET togo == CountdownTarget(Context(config, last.cred)) - last.shownAt IN
         /\ last.shownAt \in Nat /\ last.shownAt <= clock
         /\ last.seconds = Seconds(IF togo < 0 THEN 0 ELSE togo)

LEMMA CountdownStep ==
    ASSUME Started, CountdownShown, [Next]_vars
    PROVE  CountdownShown'
<1>0. Running => config' = config
  BY StartedInvariant
<1>1. ASSUME NEW c \in Configurations, Startup(c) PROVE CountdownShown'
  BY <1>1 DEF Startup, Started, CountdownShown, None
<1>2. CASE Tick
  <2>1. clock' \in Nat /\ clock <= clock' /\ config' = config /\ last' = last
    BY <1>2 DEF Tick, CountdownShown
  <2>2. CountdownTarget(Context(config, last.cred))' = CountdownTarget(Context(config, last.cred))
    BY <2>1 DEF CountdownTarget
  <2> QED BY <2>1, <2>2 DEF CountdownShown
<1>3. CASE UNCHANGED vars
  BY <1>3 DEF vars, CountdownShown, CountdownTarget
<1>4. ASSUME NEW cred \in Credentials, NEW choices, Register(cred, choices) PROVE CountdownShown'
  BY <1>4 DEF Register, CountdownShown
<1>5. ASSUME NEW cred, NEW id, NEW choices, Update(cred, id, choices) PROVE CountdownShown'
  BY <1>5 DEF Update, CountdownShown
<1>6. ASSUME NEW cred, NEW id, NEW flags, WriteAdminInfo(cred, id, flags) PROVE CountdownShown'
  BY <1>6 DEF WriteAdminInfo, CountdownShown
<1>7. ASSUME NEW cred \in Credentials, Countdown(cred) PROVE CountdownShown'
  <2>1. /\ clock' = clock /\ config' = config /\ last'.op = "countdown" /\ last'.cred = cred
        /\ last'.shownAt = clock
        /\ last'.seconds = Seconds(IF CountdownTarget(Context(config, cred)) - clock < 0 THEN 0
                                   ELSE CountdownTarget(Context(config, cred)) - clock)
    BY <1>7 DEF Countdown
  <2>2. CountdownTarget(Context(config, cred))' = CountdownTarget(Context(config, cred))
    BY <2>1 DEF CountdownTarget
  <2> QED BY <2>1, <2>2 DEF CountdownShown
<1> QED BY <1>1, <1>2, <1>3, <1>4, <1>5, <1>6, <1>7 DEF Next

LEMMA SecondsRound ==
    ASSUME NEW q \in Nat
    PROVE  Seconds(q) \in Nat /\ 4 * Seconds(q) <= q + 2 /\ q <= 4 * Seconds(q) + 1
BY DEF Seconds

\* What the countdown showed is right of an accepted configuration.
LEMMA ShownIsRight ==
    ASSUME Started, CountdownShown
    PROVE  CountdownTellsWhen
<1> SUFFICES ASSUME last.op = "countdown"
             PROVE  LET ctx == Context(config, last.cred)
                        zero == last.shownAt + 4 * last.seconds IN
                    /\ clock >= zero + 2 => CanRegisterAtThisTime(ctx)
                    /\ clock < zero - 2 /\ config.adminRole \notin ctx.roles
                         => ~CanRegisterAtThisTime(ctx)
  BY DEF CountdownTellsWhen
<1> DEFINE ctx == Context(config, last.cred)
           zero == last.shownAt + 4 * last.seconds
           togo == CountdownTarget(ctx) - last.shownAt
<1>1. Running
  BY DEF Started, None
<1>2. /\ RegistrationStartTime(config) \in Int /\ EarlyRegistrationStartTime(config) \in Int
      /\ EarlyRegistrationStartTime(config) <= RegistrationStartTime(config)
  BY <1>1, EarlyIsNotLate DEF Started
<1>3. CountdownTarget(ctx) \in Int /\ StartFor(ctx) \in Int /\ StartFor(ctx) <= CountdownTarget(ctx)
  <2>1. \/ /\ CountdownTarget(ctx) = EarlyRegistrationStartTime(config)
           /\ StartFor(ctx) = EarlyRegistrationStartTime(config)
        \/ /\ CountdownTarget(ctx) = RegistrationStartTime(config)
           /\ \/ StartFor(ctx) = EarlyRegistrationStartTime(config)
              \/ StartFor(ctx) = RegistrationStartTime(config)
    BY Zenon DEF CountdownTarget, StartFor
  <2> QED BY <1>2, <2>1
<1>4. config.adminRole \notin ctx.roles => StartFor(ctx) = CountdownTarget(ctx)
  <2>1. config.adminRole # ""
    BY <1>1, SecretsNamed DEF Started
  <2> QED BY <2>1 DEF CountdownTarget, StartFor, IsAuthorizedAsRole
<1>5. /\ clock \in Nat /\ last.shownAt \in Nat /\ last.shownAt <= clock
      /\ last.seconds = Seconds(IF togo < 0 THEN 0 ELSE togo)
  BY DEF CountdownShown
<1> HIDE DEF ctx
<1>6. CASE togo < 0
  <2>1. last.seconds = Seconds(0)
    BY <1>5, <1>6
  <2>2. last.seconds = 0
    BY <2>1 DEF Seconds
  <2>3. StartFor(ctx) <= clock /\ ~(clock < zero - 2)
    BY <1>3, <1>5, <1>6, <2>2
  <2> QED BY <2>3 DEF CanRegisterAtThisTime, ctx
<1>7. CASE ~(togo < 0)
  <2>1. togo \in Nat /\ last.seconds = Seconds(togo)
    BY <1>3, <1>5, <1>7
  <2>2. last.seconds \in Nat /\ 4 * last.seconds <= togo + 2 /\ togo <= 4 * last.seconds + 1
    BY <2>1, SecondsRound
  <2>3. clock >= zero + 2 => StartFor(ctx) <= clock
    BY <1>3, <1>5, <2>2
  <2>4. clock < zero - 2 => ~(CountdownTarget(ctx) <= clock)
    BY <1>3, <1>5, <2>2
  <2> QED BY <1>4, <2>3, <2>4 DEF CanRegisterAtThisTime, ctx
<1> QED BY <1>6, <1>7

LEMMA CountdownInvariant == Spec => [](Started /\ CountdownShown)
<1>1. Init => Started /\ CountdownShown
  <2>1. Init => CountdownShown
    BY DEF Init, CountdownShown, None
  <2> QED BY <2>1, StartedInvariant
<1>2. Started /\ CountdownShown /\ [Next]_vars => (Started /\ CountdownShown)'
  BY StartedInvariant, CountdownStep
<1> QED BY <1>1, <1>2, PTL DEF Spec

\* Whatever the times configured, nobody waits longer for having a role more: an early
\* start after the public one is not accepted.
THEOREM TimesHold == Spec => []MoreRolesNeverLater
<1>1. Started /\ CountdownShown => MoreRolesNeverLater
  BY RolesOnlyHelp DEF CountdownShown
<1> QED BY <1>1, CountdownInvariant, PTL

\* Whatever the times configured and however long ago it was shown, the countdown tells
\* to half a second from when the time is no reason to refuse (the rounding of
\* countdownctl's response against the comparison in attendeesrv).
THEOREM CountdownHolds == Spec => []CountdownTellsWhen
<1>1. Started /\ CountdownShown => CountdownTellsWhen
  BY ShownIsRight
<1> QED BY <1>1, CountdownInvariant, PTL

-----------------------------------------------------------------------------
\* The constraints of a section hold among the choices that were picked from it.
Satisfied(section, chosen) ==
    /\ chosen \subseteq DOMAIN section
    /\ \A k \in chosen : \A cn \in section[k].constraint : cn.key \in chosen <=> ~cn.not

Owners == {Context(c, cred).sub : c \in Configurations, cred \in Credentials}
Keys == UNION {DOMAIN c.choices[s] : c \in Configurations, s \in Sections}
Entry == [owner : Owners, choices : [Sections -> SUBSET Keys]]

\* Each side of the choices of an attendee is in order by itself.
ChoicesFit ==
    /\ rows \in Seq(Entry) /\ adminFlags \in Seq(SUBSET Keys)
    /\ Len(adminFlags) = Len(rows) /\ Len(rows) <= MaxAttendees
    /\ \A id \in DOMAIN rows :
         /\ \A s \in Sections : Satisfied(ConfigNoAdmin(config, s), rows[id].choices[s])
         /\ Satisfied(FlagsConfigAdminOnly(config), adminFlags[id])

\* A section whose constraints stay on one side of the divide between flags for all and
\* flags for admins is satisfied if both sides are.
LEMMA SidesAreApart ==
    ASSUME NEW flags, \A k \in DOMAIN flags : checkConstraints(flags, k),
           NEW normal, NEW admin,
           Satisfied(Restrict(flags, {k \in DOMAIN flags : ~flags[k].adminOnly}), normal),
           Satisfied(Restrict(flags, {k \in DOMAIN flags : flags[k].adminOnly}), admin)
    PROVE  \A k \in normal \cup admin : \A cn \in flags[k].constraint :
               cn.key \in normal \cup admin <=> ~cn.not
<1>1. \A k \in normal : k \in DOMAIN flags /\ ~flags[k].adminOnly
  BY DEF Satisfied, Restrict
<1>2. \A k \in admin : k \in DOMAIN flags /\ flags[k].adminOnly
  BY DEF Satisfied, Restrict
<1>3. \A k \in normal : \A cn \in flags[k].constraint : cn.key \in normal <=> ~cn.not
  BY <1>1 DEF Satisfied, Restrict
<1>4. \A k \in admin : \A cn \in flags[k].constraint : cn.key \in admin <=> ~cn.not
  BY <1>2 DEF Satisfied, Restrict
<1>5. ASSUME NEW k \in DOMAIN flags, NEW cn \in flags[k].constraint
      PROVE  flags[cn.key].adminOnly = flags[k].adminOnly
  BY <1>5 DEF checkConstraints
<1> QED BY <1>1, <1>2, <1>3, <1>4, <1>5

LEMMA FitIsConsistent ==
    ASSUME Started, ChoicesFit
    PROVE  ChoicesConsistent
<1> SUFFICES ASSUME NEW id \in DOMAIN rows, NEW s \in Sections
             PROVE  LET has == rows[id].choices[s] \cup (IF s = "flags" THEN adminFlags[id] ELSE {}) IN
                    \A k \in has : \A cn \in config.choices[s][k].constraint :
                        cn.key \in has <=> ~cn.not
  BY DEF ChoicesConsistent
<1>1. Running
  BY DEF Started
<1>2. /\ Satisfied(ConfigNoAdmin(config, s), rows[id].choices[s])
      /\ Satisfied(FlagsConfigAdminOnly(config), adminFlags[id])
  BY DEF ChoicesFit
<1>3. CASE s = "flags"
  <2>1. \A k \in DOMAIN config.choices["flags"] : checkConstraints(config.choices["flags"], k)
    BY <1>1 DEF Started, Accepted, validateFlagsConfiguration
  <2>2. /\ Satisfied(Restrict(config.choices["flags"],
                       {k \in DOMAIN config.choices["flags"] : ~config.choices["flags"][k].adminOnly}),
                     rows[id].choices["flags"])
        /\ Satisfied(Restrict(config.choices["flags"],
                       {k \in DOMAIN config.choices["flags"] : config.choices["flags"][k].adminOnly}),
                     adminFlags[id])
    BY <1>2, <1>3 DEF ConfigNoAdmin, FlagsConfigAdminOnly
  <2> QED BY <1>3, <2>1, <2>2, SidesAreApart
<1>4. CASE s # "flags"
  BY <1>2, <1>4 DEF ConfigNoAdmin, Satisfied
<1> QED BY <1>3, <1>4

\* The checks of a request satisfy the section they are made for.
LEMMA CheckedIsSatisfied ==
    ASSUME NEW ctx, NEW section, NEW original, NEW new, new \subseteq DOMAIN section,
           CanChangeChoiceTo(ctx, section, original, new)
    PROVE  Satisfied(section, new)
BY DEF CanChangeChoiceTo, Satisfied

LEMMA ValidIsSatisfied ==
    ASSUME NEW ctx, NEW original, NEW new, Valid(ctx, original, new), NEW s \in Sections
    PROVE  Satisfied(ConfigNoAdmin(config, s), new[s])
BY CheckedIsSatisfied DEF Valid

LEMMA PicksAreKeys ==
    ASSUME Running, Started, NEW choices \in Picks
    PROVE  choices \in [Sections -> SUBSET Keys]
<1>1. \A s \in Sections : DOMAIN config.choices[s] \subseteq Keys
  BY DEF Started, Keys
<1>2. PICK f \in SUBSET DOMAIN config.choices["flags"],
           p \in SUBSET DOMAIN config.choices["packages"],
           o \in SUBSET DOMAIN config.choices["options"] :
           choices = [s \in Sections |-> IF s = "flags" THEN f ELSE IF s = "packages" THEN p ELSE o]
  BY Z3 DEF Picks
<1>3. f \subseteq Keys /\ p \subseteq Keys /\ o \subseteq Keys
  BY <1>1 DEF Sections
<1> DEFINE Pick(s) == IF s = "flags" THEN f ELSE IF s = "packages" THEN p ELSE o
<1>4. ASSUME NEW s \in Sections PROVE Pick(s) \in SUBSET Keys
  BY <1>3
<1>5. choices = [s \in Sections |-> Pick(s)]
  BY <1>2
<1> HIDE DEF Pick
<1> QED BY ONLY <1>4, <1>5

LEMMA ChoicesStep ==
    ASSUME Started, ChoicesFit, [Next]_vars
    PROVE  ChoicesFit'
<1> USE BoundAssumption
<1>1. ASSUME NEW c \in Configurations, Startup(c) PROVE ChoicesFit'
  <2>1. rows = << >> /\ rows' = rows /\ adminFlags' = adminFlags
    BY <1>1 DEF Startup, Started
  <2> QED BY <2>1 DEF ChoicesFit
<1>2. CASE Tick \/ UNCHANGED vars
  <2>1. rows' = rows /\ adminFlags' = adminFlags /\ config' = config
    BY <1>2 DEF Tick, vars
  <2>2. \A s : ConfigNoAdmin(config, s)' = ConfigNoAdmin(config, s)
    BY <2>1
  <2> QED BY <2>1 DEF ChoicesFit
<1>3. ASSUME NEW cred \in Credentials, NEW choices \in Picks, Register(cred, choices)
      PROVE  ChoicesFit'
  <2> DEFINE entry == [owner |-> Context(config, cred).sub, choices |-> choices]
  <2>1. /\ Running /\ Len(rows) < MaxAttendees /\ config' = config
        /\ rows' = Append(rows, entry) /\ adminFlags' = Append(adminFlags, {})
    BY <1>3 DEF Register, Admitted
  <2>2. entry \in Entry
    <3>1. choices \in [Sections -> SUBSET Keys]
      BY <2>1, PicksAreKeys
    <3>2. Context(config, cred).sub \in Owners
      BY <2>1 DEF Started, Owners
    <3> QED BY <3>1, <3>2 DEF Entry
  <2>3. \A s \in Sections : Satisfied(ConfigNoAdmin(config, s), choices[s])
    BY <1>3, ValidIsSatisfied DEF Register
  <2>4. Satisfied(FlagsConfigAdminOnly(config), {})
    BY DEF Satisfied
  <2> HIDE DEF entry
  <2>5. /\ rows' \in Seq(Entry) /\ adminFlags' \in Seq(SUBSET Keys)
        /\ Len(rows') = Len(rows) + 1 /\ Len(adminFlags') = Len(rows')
        /\ Len(rows') <= MaxAttendees
    BY <2>1, <2>2 DEF ChoicesFit
  <2>6. ASSUME NEW id \in DOMAIN rows'
        PROVE  \/ id \in DOMAIN rows /\ rows'[id] = rows[id] /\ adminFlags'[id] = adminFlags[id]
               \/ rows'[id] = entry /\ adminFlags'[id] = {}
    BY <2>1, <2>2 DEF ChoicesFit
  <2>7. ASSUME NEW id \in DOMAIN rows'
        PROVE  /\ \A s \in Sections : Satisfied(ConfigNoAdmin(config, s), rows'[id].choices[s])
               /\ Satisfied(FlagsConfigAdminOnly(config), adminFlags'[id])
    <3>1. CASE id \in DOMAIN rows /\ rows'[id] = rows[id] /\ adminFlags'[id] = adminFlags[id]
      BY <3>1 DEF ChoicesFit
    <3>2. CASE rows'[id] = entry /\ adminFlags'[id] = {}
      <4>1. rows'[id].choices = choices
        BY <3>2 DEF entry
      <4> QED BY <2>3, <2>4, <3>2, <4>1
    <3> QED BY <2>6, <3>1, <3>2
  <2> QED BY <2>1, <2>5, <2>7 DEF ChoicesFit
<1>4. ASSUME NEW cred \in Credentials, NEW choices \in Picks, NEW n \in DOMAIN rows,
             Update(cred, n, choices)
      PROVE  ChoicesFit'
  <2> DEFINE entry == [owner |-> rows[n].owner, choices |-> choices]
  <2>1. /\ Running /\ config' = config /\ adminFlags' = adminFlags
        /\ rows' = [rows EXCEPT ![n] = entry]
    BY <1>4 DEF Update, Admitted
  <2>2. entry \in Entry
    <3>1. choices \in [Sections -> SUBSET Keys]
      BY <2>1, PicksAreKeys
    <3>2. rows[n] \in Entry
      BY DEF ChoicesFit
    <3> QED BY <3>1, <3>2 DEF Entry
  <2>3. \A s \in Sections : Satisfied(ConfigNoAdmin(config, s), choices[s])
    BY <1>4, ValidIsSatisfied DEF Update
  <2>4. entry.choices = choices
    OBVIOUS
  <2> HIDE DEF entry
  <2>5. rows' \in Seq(Entry) /\ Len(rows') = Len(rows) /\ DOMAIN rows' = DOMAIN rows
    BY <2>1, <2>2 DEF ChoicesFit
  <2>6. ASSUME NEW id \in DOMAIN rows'
        PROVE  /\ \A s \in Sections : Satisfied(ConfigNoAdmin(config, s), rows'[id].choices[s])
               /\ Satisfied(FlagsConfigAdminOnly(config), adminFlags'[id])
    <3>1. CASE id = n
      BY <2>1, <2>3, <2>4, <2>5, <3>1 DEF ChoicesFit
    <3>2. CASE id # n
      BY <2>1, <2>5, <3>2 DEF ChoicesFit
    <3> QED BY <3>1, <3>2
  <2> QED BY <2>1, <2>5, <2>6 DEF ChoicesFit
<1>5. ASSUME NEW cred \in Credentials, NEW n \in DOMAIN rows,
             NEW flags \in SUBSET DOMAIN config.choices["flags"], WriteAdminInfo(cred, n, flags)
      PROVE  ChoicesFit'
  <2>1. /\ Running /\ config' = config /\ rows' = rows
        /\ adminFlags' = [adminFlags EXCEPT ![n] = flags]
    BY <1>5 DEF WriteAdminInfo, Admitted
  <2>2. Satisfied(FlagsConfigAdminOnly(config), flags)
    BY <1>5, CheckedIsSatisfied DEF WriteAdminInfo
  <2>3. flags \in SUBSET Keys
    BY <2>1 DEF Started, Keys, Sections
  <2>4. adminFlags' \in Seq(SUBSET Keys) /\ Len(adminFlags') = Len(rows)
    BY <2>1, <2>3 DEF ChoicesFit
  <2>5. ASSUME NEW id \in DOMAIN rows
        PROVE  Satisfied(FlagsConfigAdminOnly(config), adminFlags'[id])
    <3>1. id \in DOMAIN adminFlags /\ n \in DOMAIN adminFlags
      BY DEF ChoicesFit
    <3>2. CASE id = n
      BY <2>1, <2>2, <3>1, <3>2
    <3>3. CASE id # n
      BY <2>1, <3>1, <3>3 DEF ChoicesFit
    <3> QED BY <3>2, <3>3
  <2> QED BY <2>1, <2>4, <2>5 DEF ChoicesFit
<1>6. ASSUME NEW cred \in Credentials, Countdown(cred) PROVE ChoicesFit'
  <2>1. rows' = rows /\ adminFlags' = adminFlags /\ config' = config
    BY <1>6 DEF Countdown
  <2> QED BY <2>1 DEF ChoicesFit
<1> QED BY <1>1, <1>2, <1>3, <1>4, <1>5, <1>6 DEF Next

LEMMA FitStarts == Init => ChoicesFit
BY BoundAssumption DEF Init, ChoicesFit

\* The choices of an attendee satisfy all constraints, whoever made them and in whatever
\* order, though those of the attendee and those of the admin are never checked
\* together: no accepted constraint reaches across.
THEOREM ChoicesHold == Spec => []ChoicesConsistent
<1>1. Init => Started /\ ChoicesFit
  BY StartedInvariant, FitStarts
<1>2. Started /\ ChoicesFit /\ [Next]_vars => (Started /\ ChoicesFit)'
  BY StartedInvariant, ChoicesStep
<1>3. Started /\ ChoicesFit => ChoicesConsistent
  BY FitIsConsistent
<1> QED BY <1>1, <1>2, <1>3, PTL DEF Spec

-----------------------------------------------------------------------------
OpFits == last.op \in {"none", "register", "update", "admin", "countdown"}

LEMMA OpStep == OpFits /\ [Next]_vars => OpFits'
<1> SUFFICES ASSUME OpFits, [Next]_vars PROVE OpFits'
  OBVIOUS
<1>1. CASE last' = last
  BY <1>1 DEF OpFits
<1>2. ASSUME NEW cred, NEW choices, Register(cred, choices) PROVE OpFits'
  BY <1>2 DEF Register, OpFits
<1>3. ASSUME NEW cred, NEW id, NEW choices, Update(cred, id, choices) PROVE OpFits'
  BY <1>3 DEF Update, OpFits
<1>4. ASSUME NEW cred, NEW id, NEW flags, WriteAdminInfo(cred, id, flags) PROVE OpFits'
  BY <1>4 DEF WriteAdminInfo, OpFits
<1>5. ASSUME NEW cred, Countdown(cred) PROVE OpFits'
  BY <1>5 DEF Countdown, OpFits
<1> QED BY <1>1, <1>2, <1>3, <1>4, <1>5 DEF Next, Startup, Tick, vars

LEMMA FitIsTyped ==
    ASSUME Started, ChoicesFit, CountdownShown, OpFits
    PROVE  TypeOK
<1>1. config \in Configurations \cup {NoConfig}
  BY DEF Started, Running
<1>2. ASSUME NEW id \in DOMAIN rows
      PROVE  LET flags == config.choices["flags"] IN
             /\ rows[id].choices["flags"] \subseteq {k \in DOMAIN flags : ~flags[k].adminOnly}
             /\ adminFlags[id] \subseteq {k \in DOMAIN flags : flags[k].adminOnly}
  <2>1. /\ Satisfied(ConfigNoAdmin(config, "flags"), rows[id].choices["flags"])
        /\ Satisfied(FlagsConfigAdminOnly(config), adminFlags[id])
    BY DEF ChoicesFit, Sections
  <2> QED BY <2>1 DEF Satisfied, ConfigNoAdmin, FlagsConfigAdminOnly, Restrict
<1> QED BY <1>1, <1>2 DEF TypeOK, ChoicesFit, CountdownShown, OpFits

\* The type invariant: the flags of an attendee stay split between the row and the admin
\* info as the configuration splits them.
THEOREM TypesHold == Spec => []TypeOK
<1>1. Init => Started /\ ChoicesFit /\ CountdownShown /\ OpFits
  BY StartedInvariant, FitStarts DEF Init, CountdownShown, OpFits, None
<1>2. Started /\ ChoicesFit /\ CountdownShown /\ OpFits /\ [Next]_vars
          => (Started /\ ChoicesFit /\ CountdownShown /\ OpFits)'
  BY StartedInvariant, ChoicesStep, CountdownStep, OpStep
<1>3. Started /\ ChoicesFit /\ CountdownShown /\ OpFits => TypeOK
  BY FitIsTyped
<1> QED BY <1>1, <1>2, <1>3, PTL DEF Spec
=============================================================================

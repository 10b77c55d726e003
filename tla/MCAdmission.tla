---------------------------- MODULE MCAdmission ----------------------------
(***************************************************************************)
(* Instances of Admission for TLC: three families of configurations, each  *)
(* of which varies one concern and keeps the others at what is usual.      *)
(***************************************************************************)
EXTENDS Admission

Secret == "0123456789abcdef"

MCPublicKeys == {"idp"}
MCLength(text) == Len(text)

Header(key, good, sub, roles) ==
    [present |-> TRUE, bearer |-> TRUE, key |-> key, good |-> good, sub |-> sub, roles |-> roles]

User == Header("idp", TRUE, "u1", {})
OtherUser == Header("idp", TRUE, "u2", {})
Staff == Header("idp", TRUE, "u2", {"staff"})
AdminUser == Header("idp", TRUE, "u3", {"admin"})

Carry(apiKey, header, cookie) == [apiKey |-> apiKey, header |-> header, cookie |-> cookie]

MCCredentials ==
    {Carry(apiKey, NoToken, NoToken) : apiKey \in {"", Secret, "guess"}}
    \cup {Carry("guess", AdminUser, NoToken), Carry(Secret, User, NoToken)}
    \cup {Carry("", header, NoToken) :
            header \in {User, OtherUser, Staff, AdminUser,
                        Header("other", TRUE, "u3", {"admin"}),
                        Header("idp", FALSE, "u3", {"admin"}),
                        Header("idp", TRUE, "", {"staff"}),
                        [AdminUser EXCEPT !.bearer = FALSE]}}
    \cup {Carry("", NoToken, cookie) : cookie \in {User, AdminUser}}
    \cup {Carry("", User, AdminUser)}

Choice(adminOnly, readOnly, default, constraint) ==
    [adminOnly |-> adminOnly, readOnly |-> readOnly, default |-> default, constraint |-> constraint]

Needs(k) == [key |-> k, not |-> FALSE]
Not(k) == [key |-> k, not |-> TRUE]

NoChoice == [k \in {} |-> Choice(FALSE, FALSE, FALSE, {})]

\* The public start was long ago.
Usual ==
    [api |-> Secret, adminRole |-> "admin", earlyRole |-> "staff", cookieName |-> "JWT",
     keys |-> {"idp"}, requireLogin |-> FALSE, start |-> -8, early |-> NotGiven,
     otherwise |-> TRUE,
     choices |-> [s \in Sections |-> NoChoice]]

SecurityVaried ==
    {[Usual EXCEPT !.api = a, !.adminRole = r, !.cookieName = n, !.keys = k, !.requireLogin = l] :
        a \in {"", "short", Secret}, r \in {"", "admin"}, n \in {"", "JWT"},
        k \in {{}, {"idp"}, {"idp", "garbled"}}, l \in BOOLEAN}

TimesVaried ==
    {[Usual EXCEPT !.start = s, !.early = e, !.earlyRole = r] :
        s \in {Malformed, 3, 6}, e \in {NotGiven, Malformed, 1, 4, 7}, r \in {"", "staff"}}

\* Two flags of any kind, with constraints that may name anything.
Flags ==
    [{"hc", "guest"} -> [adminOnly : BOOLEAN, readOnly : BOOLEAN, default : BOOLEAN,
                         constraint : {{}, {Not("hc")}, {Needs("guest")}, {Not("guest")}}]]

\* The packages of docs/config-template.yaml in small, and options that cannot be.
Packages ==
    [k \in {"attendance", "day"} |->
        IF k = "day" THEN Choice(FALSE, TRUE, FALSE, {Not("attendance")})
        ELSE Choice(FALSE, TRUE, TRUE, {})]

ChoicesVaried ==
    {[Usual EXCEPT !.choices["flags"] = f] : f \in Flags}
    \cup {[Usual EXCEPT !.choices["packages"] = Packages],
          [Usual EXCEPT !.choices["packages"] = [k \in {"day"} |-> Packages["day"]]],
          [Usual EXCEPT !.choices["options"] = Packages],
          [Usual EXCEPT !.otherwise = FALSE]}

MCConfigurations == SecurityVaried \cup TimesVaried \cup ChoicesVaried
=============================================================================

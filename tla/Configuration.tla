--------------------------- MODULE Configuration ---------------------------
(***************************************************************************)
(* The configuration: what is in it that decides who may do what and when, *)
(* which configurations the service starts with, and what the rest of the  *)
(* code asks it.  The file is read once, at startup; a configuration with  *)
(* a validation error ends the program.                                    *)
(*                                                                         *)
(* Times are in quarters of a second.  The sections on the server, the     *)
(* log, the database, birthdays and other services, and the texts that go  *)
(* with choices, are checked field by field without regard to the rest:    *)
(* "otherwise" says whether they are in order.                             *)
(***************************************************************************)
EXTENDS Integers, Sequences, FiniteSets, Functions

CONSTANTS
    PublicKeys,     \* the key texts that parse as an RSA public key
    Length(_)       \* the length of a text

ASSUME LengthAssumption == Length("") = 0

\* A time that is not given, and one that time.Parse does not understand.
NotGiven == -1
Malformed == -2

Sections == {"flags", "packages", "options"}

\* A constraint "k" or "!k" of a choice.
Constraint == [key : STRING, not : BOOLEAN]

CheckLength(min, max, value) == min <= Length(value) /\ Length(value) <= max

\* Mutant: the lengths of api token and admin role are not looked at.
validateSecurityConfiguration_AnyLength(c) == c.keys \subseteq PublicKeys

validateSecurityConfiguration(c) ==
    /\ CheckLength(16, 256, c.api)
    /\ CheckLength(1, 256, c.adminRole)
    /\ c.keys \subseteq PublicKeys

\* Mutant: constraints between normal choices and those only admins see pass.
checkConstraints_Across(section, key) ==
    \A cn \in section[key].constraint : cn.key \in DOMAIN section /\ cn.key # key

checkConstraints(section, key) ==
    \A cn \in section[key].constraint :
        /\ cn.key \in DOMAIN section
        /\ section[cn.key].adminOnly = section[key].adminOnly
        /\ cn.key # key

validateFlagsConfiguration(flags) ==
    \A k \in DOMAIN flags :
        /\ checkConstraints(flags, k)
        /\ ~(flags[k].adminOnly /\ flags[k].readOnly)
        /\ ~(flags[k].adminOnly /\ flags[k].default)

validatePackagesConfiguration(packages) ==
    \A k \in DOMAIN packages : checkConstraints(packages, k) /\ ~packages[k].adminOnly

validateOptionsConfiguration(options) ==
    \A k \in DOMAIN options :
        checkConstraints(options, k) /\ ~options[k].adminOnly /\ ~options[k].readOnly

\* Mutant: the early start is not compared with the normal one.
validateRegistrationStartTime_AnyOrder(c) ==
    /\ c.start # Malformed
    /\ c.early # NotGiven => c.early # Malformed /\ c.earlyRole # ""

validateRegistrationStartTime(c) ==
    /\ c.start # Malformed
    /\ c.early # NotGiven => c.early # Malformed /\ ~(c.start < c.early) /\ c.earlyRole # ""

\* No validation has an error to add.
Accepted(c) ==
    /\ c.otherwise
    /\ validateSecurityConfiguration(c)
    /\ validateFlagsConfiguration(c.choices["flags"])
    /\ validatePackagesConfiguration(c.choices["packages"])
    /\ validateOptionsConfiguration(c.choices["options"])
    /\ validateRegistrationStartTime(c)

-----------------------------------------------------------------------------
\* The keys that were parsed during validation.
OidcKeySet(c) == c.keys \cap PublicKeys

\* What users may pick from: all packages and options, and the flags that are not for
\* admins only (AllowedFlagsNoAdmin, FlagsConfigNoAdmin).
ConfigNoAdmin(c, s) ==
    LET section == c.choices[s] IN
    IF s = "flags" THEN Restrict(section, {k \in DOMAIN section : ~section[k].adminOnly})
    ELSE section

\* Mutant: all flags can be kept with the admin info.
FlagsConfigAdminOnly_All(c) == c.choices["flags"]

\* The flags that are kept with the admin info.
FlagsConfigAdminOnly(c) ==
    LET flags == c.choices["flags"] IN
    Restrict(flags, {k \in DOMAIN flags : flags[k].adminOnly})

DefaultChoices(section) == {k \in DOMAIN section : section[k].default}

RegistrationStartTime(c) == c.start

EarlyRegistrationStartTime(c) == IF c.early # NotGiven THEN c.early ELSE c.start
=============================================================================

---------------------------- MODULE MCDatabases -----------------------------
EXTENDS Databases, TLC

MCSymmetry == Permutations(Workers)

\* Two spellings of a user's subject that the collation takes for the same.
MCFold(text) == IF text = "U1" THEN "u1" ELSE text

Attendee(nickname, identity, comments) ==
    [nickname |-> nickname, userComments |-> comments, identity |-> identity]
MCRows ==
    {Attendee("nick", "u1", ""), Attendee("NICK", "u1", "hi"), Attendee("fox", "", "")}

NoAdminInfo == [flags |-> << >>, permissions |-> "", adminComments |-> ""]
MCInfos == {NoAdminInfo, [NoAdminInfo EXCEPT !.permissions = "regdesk"]}
=============================================================================

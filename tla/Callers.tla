------------------------------ MODULE Callers ------------------------------
(***************************************************************************)
(* Who is asking: the token validator that every request passes first, the *)
(* context values it sets, and the filters that look at these.             *)
(*                                                                         *)
(* Credentials are what a request carries: the X-Api-Key header ("" when   *)
(* missing), the Authorization header and the cookie of the configured     *)
(* name, each with a token or NoToken.  Of a token all that matters is the *)
(* key that signed it, whether the jwt library takes it if that key is     *)
(* right (algorithm, expiry), its subject and its roles.                   *)
(***************************************************************************)
EXTENDS Configuration

NoToken == [present |-> FALSE]

Token == [present : {TRUE}, bearer : BOOLEAN, key : STRING, good : BOOLEAN, sub : STRING,
          roles : SUBSET STRING]

\* The context before the token validator has set anything.
Anonymous == [api |-> "", sub |-> "", roles |-> {}]

\* Only if a cookie is configured; the code puts the "Bearer " in front itself.
fromCookie(c, cred) ==
    IF c.cookieName = "" \/ ~cred.cookie.present
    THEN NoToken
    ELSE [cred.cookie EXCEPT !.bearer = TRUE]

fromAuthHeaderOrCookie(c, cred) ==
    IF cred.header.present THEN cred.header ELSE fromCookie(c, cred)

\* Signed with one of the keys that were configured.
Verified(c, token) == token.bearer /\ token.good /\ token.key \in OidcKeySet(c)

\* TokenValidator lets a request through; an api token decides alone.
LetThrough(c, cred) ==
    LET token == fromAuthHeaderOrCookie(c, cred) IN
    IF cred.apiKey # "" THEN cred.apiKey = c.api
    ELSE token.present => Verified(c, token)

\* The context values TokenValidator sets for a request it lets through.
Context(c, cred) ==
    LET token == fromAuthHeaderOrCookie(c, cred) IN
    IF cred.apiKey # "" THEN [Anonymous EXCEPT !.api = cred.apiKey]
    ELSE IF token.present THEN [Anonymous EXCEPT !.sub = token.sub, !.roles = token.roles]
    ELSE Anonymous

-----------------------------------------------------------------------------
\* Missing context values read as "".
HasApiToken(c, ctx) == ctx.api = c.api
IsAuthorizedAsRole(ctx, role) == role \in ctx.roles \cup {""}

HasRoleOrApiToken(c, ctx, role) == HasApiToken(c, ctx) \/ IsAuthorizedAsRole(ctx, role)

\* Mutant: whoever passed the token validator counts as logged in.
LoggedInOrApiToken_Anybody(c, ctx) == TRUE

LoggedInOrApiToken(c, ctx) == HasApiToken(c, ctx) \/ ctx.sub # ""

IsSubjectOrRoleOrApiToken(c, ctx, subject, role) ==
    HasRoleOrApiToken(c, ctx, role) \/ ctx.sub = subject
=============================================================================

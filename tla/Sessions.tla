------------------------------- MODULE Sessions -------------------------------
(***************************************************************************)
(* Sign-in from the mini app, the bot's /start and refreshing a token      *)
(* (AuthService, UserService.create, TelegramService), one action per call *)
(* of the database, the cache or the signer.  A refresh token is rotated   *)
(* over two cache entries: the one of the token, which names its user, and *)
(* the one of the user, which names the current token.  The token that is  *)
(* replaced is given 60 more seconds.                                      *)
(*                                                                         *)
(* A token takes its name from the request that generates it.  Time is     *)
(* abstract: an entry with either life may expire at any moment, a user's  *)
(* entry only after its token, which was written earlier with the same     *)
(* life, and so may an id token.  adminSignIn is one action up to the      *)
(* signing of a token, for it only reads.                                  *)
(***************************************************************************)
EXTENDS JwtKeys, Access

CONSTANTS
    Requests,
    Users,                  \* the ids of Telegram accounts, and bound: those that
                            \* a row is given and the script is called with
    MaxFaults,              \* bound: calls that reject and restarts, together
    MaxExpired              \* bound: tokens whose entry runs out

ASSUME NoneIsNoRequest == None \notin Requests \cup Users
ASSUME BoundsAreNat == MaxFaults \in Nat /\ MaxExpired \in Nat

VARIABLES
    users,          \* the ids of the rows of the user table
    missing,        \* history: ids that lost their row, or that the script was
                    \* given when they had none
    token,          \* per token: its cache entry, by the life it was given
    current,        \* per user: the cache entry refresh_token:user:<id>
    kind, pc,       \* per request: what it is and where it is
    actor,          \* per request: the user it is for
    given,          \* per request: the refresh or id token presented
    old,            \* per request: the token deleteRefreshToken read
    signedWith,     \* per request: the key of the id token it made
    faults,         \* how many calls rejected and servers restarted
    overlapped,     \* history: requests whose rotation overlapped another's
    expired,        \* history: tokens whose entry ran out
    disturbed       \* history: users of whom a rotation was interrupted

table == <<users, missing>>
cache == <<token, current>>
request == <<kind, pc, actor, given, old, signedWith>>
history == <<overlapped, expired, disturbed>>
vars == <<keyVars, table, cache, request, faults, history>>

Rotating == {"getCurrent", "setOld", "setCurrent"}
InFlight == {"getToken", "findUser", "recheck", "insert", "sign", "setToken"} \cup Rotating
\* A token in the answer, an empty string for one, 401, 403, 500, 401 for an id
\* token that has expired, a handler was reached, or /start is over.
Ended == {"answered", "empty", "rejected", "forbidden", "failed", "lapsed", "served", "done"}

TypeOK ==
    /\ KeysTypeOK
    /\ users \subseteq Users
    /\ missing \subseteq Users
    /\ token \in [Requests -> {"none", "long", "short"}]
    /\ current \in [Users -> Requests \cup {None}]
    /\ kind \in [Requests -> {None, "LOGIN", "SCRIPT", "START", "REFRESH", "ADMIN"} \cup HandlerRoutes]
    /\ pc \in [Requests -> {"idle"} \cup InFlight \cup Ended]
    /\ actor \in [Requests -> Users \cup {None}]
    /\ given \in [Requests -> Requests \cup {None}]
    /\ old \in [Requests -> Requests \cup {None}]
    /\ signedWith \in [Requests -> Instances \cup {None}]
    /\ faults \in 0 .. MaxFaults
    /\ overlapped \subseteq Requests
    /\ expired \subseteq Requests
    /\ disturbed \subseteq Users

Init ==
    /\ KeysInit
    /\ users = {}
    /\ missing = {}
    /\ token = [r \in Requests |-> "none"]
    /\ current = [u \in Users |-> None]
    /\ kind = [r \in Requests |-> None]
    /\ pc = [r \in Requests |-> "idle"]
    /\ actor = [r \in Requests |-> None]
    /\ given = [r \in Requests |-> None]
    /\ old = [r \in Requests |-> None]
    /\ signedWith = [r \in Requests |-> None]
    /\ faults = 0
    /\ overlapped = {}
    /\ expired = {}
    /\ disturbed = {}

Goto(r, label) == pc' = [pc EXCEPT ![r] = label]

-------------------------------------------------------------------------------
\* signInMiniApp, with init data whose hash is right or wrong, or whose user does
\* not parse, which is a 500.
SignInMiniApp(r, u) ==
    /\ Serving
    /\ Admitted("auth/login", NoClaims)
    /\ pc[r] = "idle"
    /\ kind' = [kind EXCEPT ![r] = "LOGIN"]
    /\ \/ Goto(r, "findUser") /\ actor' = [actor EXCEPT ![r] = u]
       \/ (Goto(r, "rejected") \/ Goto(r, "failed")) /\ UNCHANGED actor
    /\ UNCHANGED <<keyVars, table, cache, given, old, signedWith, faults, history>>

\* The bot's handler of /start.
StartBot(r, u) ==
    /\ Serving
    /\ pc[r] = "idle"
    /\ kind' = [kind EXCEPT ![r] = "START"]
    /\ actor' = [actor EXCEPT ![r] = u]
    /\ Goto(r, "findUser")
    /\ UNCHANGED <<keyVars, table, cache, given, old, signedWith, faults, history>>

\* The script generate-user-token, which signs for the id it is called with and
\* looks nobody up.
GenerateUserToken(r, u) ==
    /\ Cardinality({s \in Requests : kind[s] = "SCRIPT"}) < ScriptsStarted
    /\ pc[r] = "idle"
    /\ kind' = [kind EXCEPT ![r] = "SCRIPT"]
    /\ actor' = [actor EXCEPT ![r] = u]
    /\ missing' = missing \cup ({u} \ users)
    /\ Goto(r, "sign")
    /\ UNCHANGED <<keyVars, users, cache, given, old, signedWith, faults, history>>

\* adminSignIn of any user, for findOne ignores the e-mail it is given: there is
\* none, or none with a password, which is a 500; it is wrong, or its owner is not
\* ACTIVATED; or the entity is looked at for isAdmin.
AdminSignIn(r) ==
    /\ Serving
    /\ Admitted("admin/auth/login", NoClaims)
    /\ pc[r] = "idle"
    /\ kind' = [kind EXCEPT ![r] = "ADMIN"]
    /\ \/ (Goto(r, "failed") \/ Goto(r, "rejected")) /\ UNCHANGED actor
       \/ \E u \in users :
            /\ actor' = [actor EXCEPT ![r] = IF IsAdministrator THEN u ELSE None]
            /\ Goto(r, IF IsAdministrator THEN "sign" ELSE "rejected")
    /\ UNCHANGED <<keyVars, table, cache, given, old, signedWith, faults, history>>

\* The two controllers with a refresh-token, which is the same for both.
RefreshRoutes == {"auth/refresh-token", "admin/auth/refresh-token"}

\* refreshToken, with a token that a client was answered, or the empty string.
RefreshToken(r, t) ==
    /\ Serving
    /\ \E route \in RefreshRoutes : Admitted(route, NoClaims)
    /\ pc[r] = "idle"
    /\ pc[t] \in {"answered", "empty"}
    /\ kind' = [kind EXCEPT ![r] = "REFRESH"]
    /\ given' = [given EXCEPT ![r] = IF pc[t] = "answered" THEN t ELSE None]
    /\ Goto(r, "getToken")
    /\ UNCHANGED <<keyVars, table, cache, actor, old, signedWith, faults, history>>

\* What decode makes of an id token: it verifies with the key in the file.
ClaimsOf(t) ==
    IF t = None \/ signedWith[t] # file THEN NoClaims
    ELSE CASE kind[t] \in {"LOGIN", "SCRIPT"} -> LoginClaims
           [] kind[t] = "REFRESH" -> RefreshClaims
           [] kind[t] = "ADMIN" -> AdminClaims

\* PUT users/:id with an id in the body, which goes to the database as it is: the
\* row gets another primary key, unless there is a row with it.
RenameUser(u, id) ==
    /\ u \in users
    /\ id \in Users \ users
    /\ users' = (users \ {u}) \cup {id}
    /\ missing' = missing \cup {u}

\* A request on another route, with no id token or with one that a client was
\* answered and that may have expired.  Nobody looks up the user it names.
Call(r, t, route) ==
    /\ Serving
    /\ pc[r] = "idle"
    /\ t # None => pc[t] \in {"answered", "empty"}
    /\ kind' = [kind EXCEPT ![r] = route]
    /\ given' = [given EXCEPT ![r] = t]
    /\ \/ /\ t # None /\ Unauthorized(route, NoClaims) /\ Goto(r, "lapsed")
          /\ UNCHANGED table
       \/ Goto(r, Answer(route, ClaimsOf(t))) /\ UNCHANGED table
       \/ /\ route = "users" /\ Admitted(route, ClaimsOf(t)) /\ Goto(r, "served")
          /\ \E u, id \in Users : RenameUser(u, id)
    /\ UNCHANGED <<keyVars, cache, actor, old, signedWith, faults, history>>

-------------------------------------------------------------------------------
\* getUserIdFromRefreshToken: a missing entry becomes the string 'undefined',
\* which passes the check and is nobody's id.
GetToken(r) ==
    /\ pc[r] = "getToken"
    /\ actor' = [actor EXCEPT ![r] =
                    IF given[r] # None /\ token[given[r]] # "none"
                    THEN actor[given[r]] ELSE None]
    /\ Goto(r, "findUser")
    /\ UNCHANGED <<keyVars, table, cache, kind, given, old, signedWith, faults, history>>

AfterUser(r) == IF kind[r] = "START" THEN "done" ELSE "sign"

\* UserRepository.findById, to which an id that is missing is nobody's.
FindById(id) == id # None /\ id \in users

\* findById, or findUserById.
FindUser(r) ==
    /\ pc[r] = "findUser"
    /\ Goto(r, IF FindById(actor[r]) THEN AfterUser(r)
               ELSE IF kind[r] = "REFRESH" THEN "rejected" ELSE "recheck")
    /\ UNCHANGED <<keyVars, table, cache, kind, actor, given, old, signedWith, faults, history>>

\* UserService.create looks again, and inserts; the id is the primary key, and
\* the identifier is unique, which a PUT may have given to another row.
RecheckUser(r) ==
    /\ pc[r] = "recheck"
    /\ Goto(r, IF FindById(actor[r]) THEN AfterUser(r) ELSE "insert")
    /\ UNCHANGED <<keyVars, table, cache, kind, actor, given, old, signedWith, faults, history>>

InsertUser(r) ==
    /\ pc[r] = "insert"
    /\ \/ /\ actor[r] \notin users
          /\ users' = users \cup {actor[r]}
          /\ Goto(r, AfterUser(r))
       \/ /\ actor[r] \in users \/ \E s \in Requests : kind[s] = "users" /\ pc[s] = "served"
          /\ Goto(r, "failed") /\ UNCHANGED users
    /\ UNCHANGED <<keyVars, missing, cache, kind, actor, given, old, signedWith, faults, history>>

\* signJwt reads the key file, and throws when there is none.
Sign(r) ==
    /\ pc[r] = "sign"
    /\ signedWith' = [signedWith EXCEPT ![r] = file]
    /\ Goto(r, IF file = None THEN "failed" ELSE "setToken")
    /\ UNCHANGED <<keyVars, table, cache, kind, actor, given, old, faults, history>>

-------------------------------------------------------------------------------
\* generateNewRefreshToken: the entry of the new token comes first.
SetToken(r) ==
    LET others == {s \in Requests \ {r} : pc[s] \in Rotating /\ actor[s] = actor[r]}
    IN  /\ pc[r] = "setToken"
        /\ token' = [token EXCEPT ![r] = "long"]
        /\ overlapped' = IF others = {} THEN overlapped ELSE overlapped \cup others \cup {r}
        /\ Goto(r, "getCurrent")
        /\ UNCHANGED <<keyVars, table, current, kind, actor, given, old, signedWith,
                       faults, expired, disturbed>>

\* A faulty variant: the token in use is not looked up.
GetCurrentNever(r) ==
    /\ pc[r] = "getCurrent"
    /\ Goto(r, "setCurrent")
    /\ UNCHANGED <<keyVars, table, cache, kind, actor, given, old, signedWith, faults, history>>

\* deleteRefreshToken: the current token of the user, if there is one, ...
GetCurrent(r) ==
    /\ pc[r] = "getCurrent"
    /\ old' = [old EXCEPT ![r] = current[actor[r]]]
    /\ Goto(r, IF current[actor[r]] = None THEN "setCurrent" ELSE "setOld")
    /\ UNCHANGED <<keyVars, table, cache, kind, actor, given, signedWith, faults, history>>

\* Faulty variants: the replaced token is deleted, or gets no life of its own;
\* the new token gets the short life.
Replacing(r, t, life) ==
    /\ pc[r] = "setOld"
    /\ token' = [token EXCEPT ![t] = life]
    /\ Goto(r, "setCurrent")
    /\ UNCHANGED <<keyVars, table, current, kind, actor, given, old, signedWith, faults, history>>
SetOldNone(r) == Replacing(r, old[r], "none")
SetOldDefault(r) == Replacing(r, old[r], "default")
SetOldNew(r) == Replacing(r, r, "short")

\* ... gets 60 seconds, even if it has expired since it was read.
SetOld(r) ==
    /\ pc[r] = "setOld"
    /\ token' = [token EXCEPT ![old[r]] = "short"]
    /\ Goto(r, "setCurrent")
    /\ UNCHANGED <<keyVars, table, current, kind, actor, given, old, signedWith, faults, history>>

\* The new token becomes the user's, and is answered.
SetCurrent(r) ==
    /\ pc[r] = "setCurrent"
    /\ current' = [current EXCEPT ![actor[r]] = r]
    /\ Goto(r, "answered")
    /\ UNCHANGED <<keyVars, table, token, kind, actor, given, old, signedWith, faults, history>>

-------------------------------------------------------------------------------
\* Redis drops an entry.
ExpireToken(t) ==
    /\ token[t] # "none"
    /\ Cardinality(expired \cup {t}) <= MaxExpired
    /\ token' = [token EXCEPT ![t] = "none"]
    /\ expired' = expired \cup {t}
    /\ UNCHANGED <<keyVars, table, current, request, faults, overlapped, disturbed>>

ExpireCurrent(u) ==
    /\ current[u] # None
    /\ token[current[u]] = "none"
    /\ current' = [current EXCEPT ![u] = None]
    /\ UNCHANGED <<keyVars, table, token, request, faults, history>>

\* The users of whom these requests were rotating a token.
Interrupted(rs) ==
    disturbed \cup {actor[r] : r \in {s \in rs : pc[s] \in Rotating}}

\* A call rejects.  deleteRefreshToken swallows it; generateNewRefreshToken
\* answers an empty string, whatever it has written; else it is a 500.
CallFault(r) ==
    /\ faults < MaxFaults
    /\ faults' = faults + 1
    /\ \/ pc[r] \in {"getToken", "findUser", "recheck", "insert"} /\ Goto(r, "failed")
       \/ pc[r] \in {"setToken", "setCurrent"} /\ Goto(r, "empty")
       \/ pc[r] \in {"getCurrent", "setOld"} /\ Goto(r, "setCurrent")
    /\ disturbed' = Interrupted({r})
    /\ UNCHANGED <<keyVars, table, cache, kind, actor, given, old, signedWith,
                   overlapped, expired>>

\* The server stops in the middle of its requests, and starts again.
Stopped == {r \in Requests : kind[r] # "SCRIPT" /\ pc[r] \in InFlight}

Restart ==
    /\ faults < MaxFaults
    /\ faults' = faults + 1
    /\ StopInstances
    /\ pc' = [r \in Requests |-> IF r \in Stopped THEN "failed" ELSE pc[r]]
    /\ disturbed' = Interrupted(Stopped)
    /\ UNCHANGED <<table, cache, kind, actor, given, old, signedWith, overlapped, expired>>

-------------------------------------------------------------------------------
Begin(r) ==
    \/ \E u \in Users : SignInMiniApp(r, u) \/ StartBot(r, u) \/ GenerateUserToken(r, u)
    \/ AdminSignIn(r)
    \/ \E t \in Requests : RefreshToken(r, t)
    \/ \E t \in Requests \cup {None}, route \in HandlerRoutes : Call(r, t, route)

Step(r) ==
    \/ GetToken(r)
    \/ FindUser(r)
    \/ RecheckUser(r)
    \/ InsertUser(r)
    \/ Sign(r)
    \/ SetToken(r)
    \/ GetCurrent(r)
    \/ SetOld(r)
    \/ SetCurrent(r)

KeysNext ==
    /\ \E i \in Instances : Boot(i) \/ WriteKey(i)
    /\ UNCHANGED <<table, cache, request, faults, history>>

Next ==
    \/ KeysNext
    \/ \E r \in Requests : Begin(r) \/ Step(r) \/ CallFault(r)
    \/ \E t \in Requests : ExpireToken(t)
    \/ \E u \in Users : ExpireCurrent(u)
    \/ Restart

Spec == Init /\ [][Next]_vars

-------------------------------------------------------------------------------
\* Whatever rotations overlap, the token that a user's entry names is not on
\* its way out, unless the request that replaces it is about to: the client of
\* the last rotation can refresh for the whole life of its token.
CurrentTokenLives ==
    \A u \in Users \ disturbed :
        current[u] # None /\ token[current[u]] = "short"
        => \E r \in Requests : pc[r] = "setCurrent" /\ actor[r] = u /\ old[r] = current[u]

\* A token with the long life that is not its user's current one comes from a
\* rotation that overlapped another one's, or that was interrupted: rotation
\* (generateNewRefreshToken, deleteRefreshToken) leaves no other behind.
ReplacedTokensRunOut ==
    \A t \in Requests :
        pc[t] = "answered" /\ token[t] = "long" /\ current[actor[t]] # t
        => t \in overlapped \/ actor[t] \in disturbed

\* A client is sent away with a token it was given only when that token had run
\* out, or when a row of its user was gone or was never there: two refreshes with
\* one token are both served, a retry after a lost answer too.
RefusedOnlyWhenExpired ==
    \A r \in Requests :
        kind[r] = "REFRESH" /\ pc[r] = "rejected" /\ given[r] # None
        => given[r] \in expired \/ actor[given[r]] \in missing

\* A client with an id token that has not expired is let in to the routes of
\* users, whatever restarts and refreshes came between, unless the key was
\* replaced since (VerifiedUser decodes with the key in the file).
IdTokenAccepted ==
    \A r \in Requests :
        kind[r] \in {"users", "wallet"} /\ pc[r] \in {"rejected", "forbidden"} /\ given[r] # None
        => signedWith[given[r]] # file

\* Somebody signed in with this id, or the script was called with it.
SignedInAs(u) ==
    \E s \in Requests :
        kind[s] \in {"LOGIN", "SCRIPT"} /\ actor[s] = u /\ signedWith[s] # None

\* The handlers behind a middleware read request.user, and nobody is there
\* without it, or as somebody for whom no sign-in and no script ever made a token,
\* however many refreshes lie between (VerifiedUser, getUserIdFromRefreshToken).
\* Whether the table still has a row with this id nobody looks.
HandlersHaveTheirUser ==
    \A r \in Requests :
        pc[r] = "served" => given[r] # None /\ SignedInAs(actor[given[r]])

\* A restart does not replace the key: no instance that starts while there is
\* a file generates one (onModuleInit), and tokens signed before still verify.  Only
\* a script that started before there was a file may still write its own.
KeySurvivesRestart == kept # None => file = kept \/ file \in Scripts

\* Every token that was signed verifies: `expect(decode).toEqual(payload)`
\* after sign and decode (jwt.service.spec.ts:39-48).
SignedTokensVerify ==
    \A r \in Requests : signedWith[r] # None => signedWith[r] = file
===============================================================================

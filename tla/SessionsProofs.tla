---------------------------- MODULE SessionsProofs ----------------------------
(***************************************************************************)
(* For any number of users, requests, scripts, faults and restarts: no     *)
(* client is refused before its token runs out, unless its row is gone;    *)
(* the token a rotation leaves behind runs out; and handlers are reached   *)
(* by nobody but those who signed in.                                      *)
(*                                                                         *)
(* A request that has got to some point has passed what comes before it,   *)
(* and what it has passed stays true of the sign-ins, the keys and the     *)
(* tokens; that the table had a row does not, but then the row is missing. *)
(* Of rotations, the last one to begin sees the others that are under way. *)
(***************************************************************************)
EXTENDS Sessions, TLAPS

\* A key that was there when the server last stopped stays, for none of its
\* instances makes another; a script that started without one may.
Kept ==
    kept # None =>
        /\ file # None /\ (file = kept \/ file \in Scripts)
        /\ \A i \in Instances \ Scripts : stage[i] # "generating"

\* No key that was in the file, or was signed with, is written to it again.
Signed ==
    /\ file # None => stage[file] # "generating"
    /\ \A r \in Requests :
          signedWith[r] # None => file # None /\ stage[signedWith[r]] # "generating"

\* What a request that has signed an id token may be at.
Holding == {"setToken", "answered", "empty"} \cup Rotating

\* The ids that the table has, or had, or was looked up for in vain.
Ever == users \cup missing

\* What is known of the user a request is for, and of the token it was given.
KnownUser(r) ==
    /\ pc[r] = "getToken" => kind[r] = "REFRESH"
    /\ pc[r] = "findUser" /\ kind[r] # "REFRESH" =>
          kind[r] \in {"LOGIN", "START"} /\ actor[r] \in Users
    /\ pc[r] \in {"recheck", "insert"} => kind[r] \in {"LOGIN", "START"} /\ actor[r] \in Users
    /\ pc[r] \in {"sign"} \cup Holding =>
          kind[r] \in {"LOGIN", "SCRIPT", "REFRESH"} /\ actor[r] \in Ever
    /\ pc[r] \in Holding => signedWith[r] # None
    /\ pc[r] \in Rotating \cup {"answered"} => token[r] # "none" \/ r \in expired

KnownGiven(r) ==
    /\ kind[r] = "REFRESH" /\ given[r] # None => pc[given[r]] = "answered"
    /\ kind[r] \in HandlerRoutes /\ given[r] # None => pc[given[r]] \in {"answered", "empty"}
    /\ kind[r] = "REFRESH" /\ pc[r] = "findUser" /\ given[r] # None =>
          given[r] \in expired \/ actor[r] = actor[given[r]]
    /\ kind[r] = "REFRESH" /\ pc[r] = "rejected" /\ given[r] # None =>
          given[r] \in expired \/ actor[given[r]] \in missing
    /\ kind[r] \in {"users", "wallet"} /\ pc[r] \in {"rejected", "forbidden"} /\ given[r] # None =>
          signedWith[given[r]] # file
    /\ pc[r] = "served" => /\ kind[r] \in HandlerRoutes \ {"admin/users"}
                           /\ given[r] # None

\* Whose tokens were signed: behind each is a sign-in or a script's call, and a
\* refresh is for the user that it found behind the token it was given.
Signer(r) ==
    /\ signedWith[r] # None => pc[r] \in Holding \cup {"failed"}
    /\ pc[r] \in Holding => SignedInAs(actor[r])
    /\ kind[r] = "REFRESH" /\ pc[r] \in {"findUser", "sign"} /\ actor[r] # None =>
          SignedInAs(actor[r])

\* Whose the tokens are that the cache and the rotations name.
Owned ==
    /\ \A u \in Users : current[u] # None => pc[current[u]] = "answered" /\ actor[current[u]] = u
    /\ \A r \in Requests :
          /\ pc[r] = "setOld" => /\ old[r] # None
                                 /\ pc[old[r]] = "answered"
                                 /\ actor[old[r]] = actor[r]
          /\ pc[r] \in Rotating => token[r] # "short"

\* Two rotations of one user that are under way know of each other.
Noticed ==
    \A r, s \in Requests :
        pc[r] \in Rotating /\ pc[s] \in Rotating /\ actor[r] = actor[s] /\ r # s
        => r \in overlapped

\* The current token of a user, if it is in nobody's way and there to stay.
Lasting(u) ==
    u \notin disturbed /\ current[u] # None /\ current[u] \notin overlapped
    /\ token[current[u]] = "long"

\* A rotation is about to replace the token it found, or there was none.
Replaces ==
    \A r \in Requests :
        /\ pc[r] = "setOld" /\ Lasting(actor[r]) => old[r] = current[actor[r]]
        /\ pc[r] = "setCurrent" => ~Lasting(actor[r])

Inv ==
    /\ TypeOK
    /\ Kept
    /\ Signed
    /\ \A r \in Requests : KnownUser(r) /\ KnownGiven(r)
    /\ \A r \in Requests : Signer(r)
    /\ Owned
    /\ Noticed
    /\ Replaces
    /\ CurrentTokenLives
    /\ ReplacedTokensRunOut

-------------------------------------------------------------------------------
\* An answer of the middleware, the guard or the handler.
LEMMA Answers ==
    ASSUME NEW route, NEW claims
    PROVE  /\ Answer(route, claims) \in {"rejected", "forbidden", "served"}
           /\ Answer(route, claims) = "served" => Admitted(route, claims)
<1>1. CASE Unauthorized(route, claims)
    BY <1>1 DEF Answer, Admitted
<1>2. CASE ~Unauthorized(route, claims) /\ Forbidden(route, claims)
    BY <1>2 DEF Answer, Admitted
<1>3. CASE ~Unauthorized(route, claims) /\ ~Forbidden(route, claims)
    BY <1>3 DEF Answer, Admitted
<1> QED BY <1>1, <1>2, <1>3

\* An id token that verifies opens the routes of users, and no token those of the
\* administrators.
LEMMA Doors ==
    ASSUME NEW claims \in {NoClaims, LoginClaims, RefreshClaims, AdminClaims}
    PROVE  /\ ~Admitted("admin/users", claims)
           /\ \A route \in {"users", "wallet"} :
                 /\ claims.verified => Answer(route, claims) = "served"
                 /\ ~claims.verified => Answer(route, claims) = "rejected"
<1>1. ~IsAdministrator
    BY DEF IsAdministrator, FromUserEntity, FromModel
<1>2. RoleOf = {}
    BY DEF RoleOf, FromUserEntity, FromModel
<1>3. claims.role = {}
    BY <1>1, <1>2 DEF NoClaims, LoginClaims, RefreshClaims, AdminClaims
<1>4. ~Admitted("admin/users", claims)
    BY <1>3 DEF Admitted, Forbidden, RequiredRoles
<1>5. ASSUME NEW route \in {"users", "wallet"}
      PROVE  VerifiesUser(route) /\ ~VerifiesAdmin(route) /\ RequiredRoles(route) = {}
    BY DEF VerifiesUser, VerifiesAdmin, RequiredRoles, SignInRoutes, AdminSignInRoutes
<1>6. ASSUME NEW route \in {"users", "wallet"}, claims.verified
      PROVE  Answer(route, claims) = "served"
  <2>1. Admitted(route, claims)
    BY <1>5, <1>6 DEF Admitted, Unauthorized, NotVerified, NotAdmin, Forbidden
  <2> QED BY <2>1 DEF Answer, Admitted
<1>7. ASSUME NEW route \in {"users", "wallet"}, ~claims.verified
      PROVE  Answer(route, claims) = "rejected"
  <2>1. Unauthorized(route, claims)
    BY <1>5, <1>7 DEF Unauthorized, NotVerified
  <2> QED BY <2>1 DEF Answer, Admitted
<1> QED BY <1>4, <1>6, <1>7

-------------------------------------------------------------------------------
\* Nothing has happened.
LEMMA InitInv == Init => Inv
<1> SUFFICES ASSUME Init PROVE Inv
    OBVIOUS
<1> USE DEF Init, KeysInit
<1>1. TypeOK
    BY BoundsAreNat DEF TypeOK, KeysTypeOK
<1>2. Kept /\ Signed
    BY NoneIsNoInstance DEF Kept, Signed
<1>3. ASSUME NEW r \in Requests PROVE KnownUser(r) /\ KnownGiven(r) /\ Signer(r)
    BY DEF KnownUser, KnownGiven, Signer, Holding, Rotating, HandlerRoutes
<1>4. Owned /\ Noticed /\ Replaces
    BY DEF Owned, Noticed, Replaces, Rotating
<1>5. CurrentTokenLives /\ ReplacedTokensRunOut
    BY DEF CurrentTokenLives, ReplacedTokensRunOut
<1> QED BY <1>1, <1>2, <1>3, <1>4, <1>5 DEF Inv

\* What a request knows stays true while others go on.
LEMMA KnownStays ==
    ASSUME NEW r \in Requests, KnownUser(r), KnownGiven(r), given[r] \in Requests \cup {None},
           /\ pc'[r] = pc[r] /\ kind'[r] = kind[r] /\ actor'[r] = actor[r]
           /\ given'[r] = given[r] /\ signedWith'[r] = signedWith[r],
           file' = file, Ever \subseteq Ever', missing \subseteq missing', expired \subseteq expired',
           token[r] # "none" => token'[r] # "none" \/ r \in expired',
           \A t \in Requests : pc[t] \in {"answered", "empty"} =>
               pc'[t] = pc[t] /\ actor'[t] = actor[t] /\ signedWith'[t] = signedWith[t]
    PROVE  KnownUser(r)' /\ KnownGiven(r)'
<1>1. KnownUser(r)'
    BY DEF KnownUser
<1>2. KnownGiven(r)'
  <2>1. kind[r] = "REFRESH" /\ given[r] # None =>
            pc'[given[r]] = "answered" /\ actor'[given[r]] = actor[given[r]]
    BY DEF KnownGiven
  <2>2. kind[r] \in HandlerRoutes /\ given[r] # None =>
            /\ pc'[given[r]] \in {"answered", "empty"}
            /\ actor'[given[r]] = actor[given[r]]
            /\ signedWith'[given[r]] = signedWith[given[r]]
    BY DEF KnownGiven
  <2> QED BY <2>1, <2>2 DEF KnownGiven, HandlerRoutes
<1> QED BY <1>1, <1>2

\* One request moves, which had not been answered.
LEMMA OneRequestMoves ==
    ASSUME Inv, NEW r \in Requests, pc[r] \notin {"answered", "empty"},
           \A s \in Requests \ {r} :
               /\ pc'[s] = pc[s] /\ kind'[s] = kind[s] /\ actor'[s] = actor[s]
               /\ given'[s] = given[s] /\ signedWith'[s] = signedWith[s],
           file' = file, Ever \subseteq Ever', missing \subseteq missing', expired \subseteq expired',
           \A s \in Requests \ {r} : token[s] # "none" => token'[s] # "none",
           KnownUser(r)', KnownGiven(r)'
    PROVE  \A s \in Requests : KnownUser(s)' /\ KnownGiven(s)'
<1>1. ASSUME NEW s \in Requests \ {r} PROVE KnownUser(s)' /\ KnownGiven(s)'
  <2>1. KnownUser(s) /\ KnownGiven(s) /\ given[s] \in Requests \cup {None}
    BY DEF Inv, TypeOK
  <2>2. \A t \in Requests : pc[t] \in {"answered", "empty"} =>
            pc'[t] = pc[t] /\ actor'[t] = actor[t] /\ signedWith'[t] = signedWith[t]
    OBVIOUS
  <2> QED BY <2>1, <2>2, KnownStays
<1> QED BY <1>1

\* Who has signed in stays so.
LEMMA SignInsStay ==
    ASSUME NEW u, SignedInAs(u),
           \A s \in Requests : signedWith[s] # None =>
               kind'[s] = kind[s] /\ actor'[s] = actor[s] /\ signedWith'[s] = signedWith[s]
    PROVE  SignedInAs(u)'
    BY DEF SignedInAs

\* One request moves, which keeps the token it has signed, if it has.
LEMMA OneSignerMoves ==
    ASSUME Inv, NEW r \in Requests,
           \A s \in Requests \ {r} :
               /\ pc'[s] = pc[s] /\ kind'[s] = kind[s]
               /\ actor'[s] = actor[s] /\ signedWith'[s] = signedWith[s],
           signedWith[r] # None =>
               kind'[r] = kind[r] /\ actor'[r] = actor[r] /\ signedWith'[r] = signedWith[r],
           Signer(r)'
    PROVE  \A s \in Requests : Signer(s)'
<1>1. \A s \in Requests : signedWith[s] # None =>
          kind'[s] = kind[s] /\ actor'[s] = actor[s] /\ signedWith'[s] = signedWith[s]
    OBVIOUS
<1>2. ASSUME NEW s \in Requests \ {r} PROVE Signer(s)'
  <2>1. Signer(s)
    BY DEF Inv
  <2>2. SignedInAs(actor[s]) => SignedInAs(actor[s])'
    BY <1>1, SignInsStay
  <2> QED BY <2>1, <2>2 DEF Signer
<1> QED BY <1>2

\* The cache and the rotations, while nobody enters, leaves or takes a step of one.
LEMMA RotationsStay ==
    ASSUME Inv, UNCHANGED <<cache, old, overlapped, disturbed>>,
           \A s \in Requests :
               pc[s] \in Rotating \cup {"answered"} \/ pc'[s] \in Rotating \cup {"answered"}
               => pc'[s] = pc[s] /\ actor'[s] = actor[s]
    PROVE  Owned' /\ Noticed' /\ Replaces' /\ CurrentTokenLives' /\ ReplacedTokensRunOut'
<1> USE DEF cache
<1>1. /\ current \in [Users -> Requests \cup {None}]
      /\ old \in [Requests -> Requests \cup {None}]
      /\ Owned /\ Noticed /\ Replaces /\ CurrentTokenLives /\ ReplacedTokensRunOut
    BY DEF Inv, TypeOK
<1>2. {"setOld", "setCurrent"} \subseteq Rotating
    BY DEF Rotating
<1>3. Owned'
    BY <1>1, <1>2 DEF Owned
<1>4. Noticed'
    BY <1>1 DEF Noticed
<1>5. Replaces'
    BY <1>1, <1>2 DEF Replaces, Lasting
<1>6. CurrentTokenLives'
    BY <1>1, <1>2 DEF CurrentTokenLives
<1>7. ReplacedTokensRunOut'
    BY <1>1 DEF ReplacedTokensRunOut
<1> QED BY <1>3, <1>4, <1>5, <1>6, <1>7

\* The keys, while they and what was signed with them stay.
LEMMA KeysStay ==
    ASSUME Inv, UNCHANGED <<keyVars, signedWith>>
    PROVE  Kept' /\ Signed'
    BY DEF Inv, Kept, Signed, keyVars

-------------------------------------------------------------------------------
\* A request that rotates no token, before the step or after it.
LEMMA QuietStep ==
    ASSUME Inv, TypeOK', NEW r \in Requests,
           pc[r] \notin Rotating \cup {"answered", "empty"},
           pc'[r] \notin Rotating \cup {"answered"},
           \A s \in Requests \ {r} :
               /\ pc'[s] = pc[s] /\ kind'[s] = kind[s] /\ actor'[s] = actor[s]
               /\ given'[s] = given[s] /\ signedWith'[s] = signedWith[s],
           UNCHANGED <<keyVars, cache, old, history>>,
           Ever \subseteq Ever', missing \subseteq missing',
           signedWith[r] # None =>
               kind'[r] = kind[r] /\ actor'[r] = actor[r] /\ signedWith'[r] = signedWith[r],
           Kept', Signed', KnownUser(r)', KnownGiven(r)', Signer(r)'
    PROVE  Inv'
<1>1. \A s \in Requests : KnownUser(s)' /\ KnownGiven(s)'
  <2>1. file' = file /\ expired \subseteq expired' /\ token' = token
    BY DEF keyVars, cache, history
  <2> QED BY <2>1, OneRequestMoves
<1>2. Owned' /\ Noticed' /\ Replaces' /\ CurrentTokenLives' /\ ReplacedTokensRunOut'
  <2>1. UNCHANGED <<cache, old, overlapped, disturbed>>
    BY DEF history
  <2> QED BY <2>1, RotationsStay
<1>3. \A s \in Requests : Signer(s)'
    BY OneSignerMoves
<1> QED BY <1>1, <1>2, <1>3 DEF Inv

\* A request begins.
LEMMA BeginMovesOne ==
    ASSUME Inv, NEW r \in Requests, pc[r] = "idle",
           /\ kind' = [kind EXCEPT ![r] = kind'[r]]
           /\ pc' = [pc EXCEPT ![r] = pc'[r]]
           /\ actor' = [actor EXCEPT ![r] = actor'[r]]
           /\ given' = [given EXCEPT ![r] = given'[r]],
           UNCHANGED <<keyVars, cache, old, signedWith, faults, history>>,
           users' \subseteq Users, missing' \subseteq Users,
           Ever \subseteq Ever', missing \subseteq missing',
           kind'[r] \in {"LOGIN", "SCRIPT", "START", "REFRESH", "ADMIN"} \cup HandlerRoutes,
           pc'[r] \in {"findUser", "sign", "getToken"} \cup Ended,
           pc'[r] # "answered",
           actor'[r] \in Users \cup {None},
           given'[r] \in Requests \cup {None},
           pc'[r] = "getToken" => kind'[r] = "REFRESH",
           pc'[r] = "findUser" => kind'[r] \in {"LOGIN", "START"} /\ actor'[r] \in Users,
           pc'[r] = "sign" => kind'[r] = "SCRIPT" /\ actor'[r] \in Ever',
           kind'[r] = "REFRESH" =>
               pc'[r] = "getToken" /\ (given'[r] # None => pc[given'[r]] = "answered"),
           kind'[r] \notin HandlerRoutes => pc'[r] \notin {"empty", "served"},
           kind'[r] \in HandlerRoutes =>
               /\ pc'[r] \in {"lapsed", "rejected", "forbidden", "served"}
               /\ given'[r] # None => pc[given'[r]] \in {"answered", "empty"}
               /\ kind'[r] # "admin/users" /\ pc'[r] \in {"rejected", "forbidden"}
                      /\ given'[r] # None => signedWith[given'[r]] # file
               /\ pc'[r] = "served" => kind'[r] # "admin/users" /\ given'[r] # None
    PROVE  Inv'
<1>1. TypeOK /\ (\A s \in Requests : KnownUser(s)) /\ Kept /\ Signed
    BY DEF Inv
<1> DEFINE k == kind'[r]
           l == pc'[r]
           a == actor'[r]
           g == given'[r]
<1>c. /\ kind' = [kind EXCEPT ![r] = k]
      /\ Goto(r, l)
      /\ actor' = [actor EXCEPT ![r] = a]
      /\ given' = [given EXCEPT ![r] = g]
    BY DEF Goto
<1>2. /\ pc'[r] = l /\ kind'[r] = k /\ actor'[r] = a /\ given'[r] = g
      /\ signedWith'[r] = signedWith[r] /\ file' = file
      /\ expired' = expired
    BY DEF keyVars, history
<1>3. \A s \in Requests \ {r} :
          /\ pc'[s] = pc[s] /\ kind'[s] = kind[s] /\ actor'[s] = actor[s]
          /\ given'[s] = given[s] /\ signedWith'[s] = signedWith[s]
    BY <1>1, <1>c DEF TypeOK, Goto
<1> HIDE DEF k, l, a, g
<1>d. /\ k \in {"LOGIN", "SCRIPT", "START", "REFRESH", "ADMIN"} \cup HandlerRoutes
      /\ l \in {"findUser", "sign", "getToken"} \cup Ended /\ l # "answered"
      /\ a \in Users \cup {None} /\ g \in Requests \cup {None}
      /\ l = "getToken" => k = "REFRESH"
      /\ l = "findUser" => k \in {"LOGIN", "START"} /\ a \in Users
      /\ l = "sign" => k = "SCRIPT" /\ a \in Ever'
      /\ k = "REFRESH" => l = "getToken" /\ (g # None => pc[g] = "answered")
      /\ k \notin HandlerRoutes => l \notin {"empty", "served"}
      /\ k \in HandlerRoutes =>
             /\ l \in {"lapsed", "rejected", "forbidden", "served"}
             /\ g # None => pc[g] \in {"answered", "empty"}
             /\ k # "admin/users" /\ l \in {"rejected", "forbidden"} /\ g # None =>
                    signedWith[g] # file
             /\ l = "served" => k # "admin/users" /\ g # None
    BY DEF k, l, a, g
<1>4. l \notin Rotating \cup {"answered"} /\ l \notin {"setToken", "recheck", "insert"}
    BY <1>d DEF Rotating, Ended
<1>5. TypeOK'
  <2>1. pc' \in [Requests -> {"idle"} \cup InFlight \cup Ended]
    BY <1>1, <1>c, <1>d DEF TypeOK, Goto, InFlight
  <2>2. /\ kind' \in [Requests -> {None, "LOGIN", "SCRIPT", "START", "REFRESH", "ADMIN"} \cup HandlerRoutes]
        /\ actor' \in [Requests -> Users \cup {None}]
        /\ given' \in [Requests -> Requests \cup {None}]
    BY <1>1, <1>c, <1>d DEF TypeOK
  <2>3. KeysTypeOK'
    BY <1>1 DEF TypeOK, KeysTypeOK, keyVars
  <2> QED BY <1>1, <2>1, <2>2, <2>3 DEF TypeOK, table, cache, history
<1>6. Kept' /\ Signed'
    BY KeysStay
<1>7. KnownUser(r)'
  <2>1. l \in Holding => l = "empty"
    BY <1>4 DEF Holding
  <2>2. k \in HandlerRoutes => l \notin {"getToken", "findUser", "sign", "empty"}
    BY <1>d
  <2>3. l # "empty"
    BY <1>d, <2>2
  <2>4. l = "sign" => k \in {"LOGIN", "SCRIPT", "REFRESH"} /\ a \in Ever'
    BY <1>d
  <2>5. l = "findUser" => k # "REFRESH"
    BY <1>d
  <2> QED BY <1>2, <1>4, <1>d, <2>1, <2>3, <2>4, <2>5 DEF KnownUser
<1>8. KnownGiven(r)'
  <2>1. g # None => g \in Requests
    BY <1>d
  <2>2. g # None /\ pc[g] \in {"answered", "empty"} =>
            /\ pc'[g] = pc[g] /\ actor'[g] = actor[g] /\ signedWith'[g] = signedWith[g]
    <3>1. g # None /\ pc[g] \in {"answered", "empty"} => g \in Requests \ {r}
      BY <2>1
    <3> QED BY <1>3, <3>1
  <2>3. k = "REFRESH" => k \notin HandlerRoutes /\ l \notin {"rejected", "findUser"}
    BY <1>d DEF HandlerRoutes
  <2>4. k = "REFRESH" /\ g # None => pc'[g] = "answered"
    BY <1>d, <2>2
  <2>5. k \in HandlerRoutes /\ g # None =>
            pc'[g] \in {"answered", "empty"} /\ signedWith'[g] = signedWith[g]
    BY <1>d, <2>2
  <2>6. k \in {"users", "wallet"} => k \in HandlerRoutes /\ k # "admin/users"
    BY DEF HandlerRoutes
  <2>7. l = "served" => /\ k \in HandlerRoutes \ {"admin/users"} /\ g # None
    BY <1>d, <2>2
  <2> QED BY <1>2, <1>d, <2>3, <2>4, <2>5, <2>6, <2>7 DEF KnownGiven
<1>9. signedWith[r] = None
    BY DEF Inv, Signer, Holding, Rotating
<1>10. Signer(r)'
  <2>1. l \notin Holding
    <3>1. k \in HandlerRoutes => l # "empty"
      BY <1>d
    <3> QED BY <1>4, <1>d, <3>1 DEF Holding
  <2>2. k = "REFRESH" => l \notin {"findUser", "sign"}
    BY <1>d
  <2> QED BY <1>2, <1>9, <2>1, <2>2 DEF Signer
<1> QED BY <1>2, <1>3, <1>4, <1>5, <1>6, <1>7, <1>8, <1>9, <1>10, QuietStep DEF Rotating, cache

\* The functions of all requests, where one of them is written.
LEMMA BeginWrites ==
    ASSUME Inv, NEW r \in Requests, NEW k, NEW l, NEW a, NEW g,
           kind' = [kind EXCEPT ![r] = k], pc' = [pc EXCEPT ![r] = l],
           actor' = [actor EXCEPT ![r] = a], given' = [given EXCEPT ![r] = g]
    PROVE  /\ kind'[r] = k /\ pc'[r] = l /\ actor'[r] = a /\ given'[r] = g
           /\ kind' = [kind EXCEPT ![r] = kind'[r]]
           /\ pc' = [pc EXCEPT ![r] = pc'[r]]
           /\ actor' = [actor EXCEPT ![r] = actor'[r]]
           /\ given' = [given EXCEPT ![r] = given'[r]]
    BY DEF Inv, TypeOK

LEMMA SignInKeeps ==
    ASSUME Inv, NEW r \in Requests, NEW u \in Users,
           SignInMiniApp(r, u) \/ StartBot(r, u) \/ GenerateUserToken(r, u)
    PROVE  Inv'
<1>1. /\ pc[r] = "idle"
      /\ UNCHANGED <<keyVars, cache, given, old, signedWith, faults, history>>
      /\ users' = users /\ users \subseteq Users /\ missing \subseteq Users
      /\ missing' = missing \/ missing' = missing \cup ({u} \ users)
      /\ actor = [actor EXCEPT ![r] = actor[r]] /\ actor[r] \in Users \cup {None}
    BY DEF SignInMiniApp, StartBot, GenerateUserToken, table, Inv, TypeOK
<1>2. given' = [given EXCEPT ![r] = given[r]] /\ given[r] \in Requests \cup {None}
    BY <1>1 DEF Inv, TypeOK
<1>3. {"LOGIN", "START", "SCRIPT"} \cap HandlerRoutes = {} /\ {"failed", "rejected"} \subseteq Ended
    BY DEF HandlerRoutes, Ended
<1>4. ASSUME NEW k \in {"LOGIN", "START", "SCRIPT"},
             NEW l \in {"findUser", "rejected", "failed", "sign"}, NEW a \in Users \cup {None},
             kind' = [kind EXCEPT ![r] = k], Goto(r, l), actor' = [actor EXCEPT ![r] = a],
             l = "findUser" => k \in {"LOGIN", "START"} /\ a = u,
             l = "sign" => k = "SCRIPT" /\ a = u /\ missing' = missing \cup ({u} \ users)
      PROVE  Inv'
  <2>1. pc' = [pc EXCEPT ![r] = l]
    BY <1>4 DEF Goto
  <2>2. /\ kind'[r] = k /\ pc'[r] = l /\ actor'[r] = a /\ given'[r] = given[r]
        /\ kind' = [kind EXCEPT ![r] = kind'[r]]
        /\ pc' = [pc EXCEPT ![r] = pc'[r]]
        /\ actor' = [actor EXCEPT ![r] = actor'[r]]
        /\ given' = [given EXCEPT ![r] = given'[r]]
    BY <1>2, <1>4, <2>1, BeginWrites
  <2>3. k \notin HandlerRoutes /\ k # "REFRESH" /\ l \in {"findUser", "sign"} \cup Ended
    BY <1>3
  <2>4. /\ users' \subseteq Users /\ missing' \subseteq Users
        /\ missing \subseteq missing' /\ Ever \subseteq Ever'
        /\ l = "sign" => u \in Ever'
    BY <1>1, <1>4 DEF Ever
  <2>5. /\ k \in {"LOGIN", "SCRIPT", "START", "REFRESH", "ADMIN"} \cup HandlerRoutes
        /\ l \notin {"answered", "getToken", "empty", "served"}
    BY <1>4
  <2>6. l = "sign" => k = "SCRIPT" /\ a \in Ever'
    BY <1>4, <2>4
  <2>7. l = "findUser" => k \in {"LOGIN", "START"} /\ a \in Users
    BY <1>4
  <2>8. UNCHANGED <<keyVars, cache, old, signedWith, faults, history>>
    BY <1>1
  <2> QED BY <1>1, <1>2, <2>2, <2>3, <2>4, <2>5, <2>6, <2>7, <2>8, BeginMovesOne
<1>5. CASE SignInMiniApp(r, u)
    BY <1>1, <1>4, <1>5 DEF SignInMiniApp
<1>6. CASE StartBot(r, u)
    BY <1>4, <1>6 DEF StartBot
<1>7. CASE GenerateUserToken(r, u)
    BY <1>4, <1>7 DEF GenerateUserToken
<1> QED BY <1>5, <1>6, <1>7

LEMMA AdminSignInKeeps == ASSUME Inv, NEW r \in Requests, AdminSignIn(r) PROVE Inv'
<1>1. /\ pc[r] = "idle" /\ kind' = [kind EXCEPT ![r] = "ADMIN"]
      /\ UNCHANGED <<keyVars, table, cache, given, old, signedWith, faults, history>>
    BY DEF AdminSignIn
<1>t. /\ users' \subseteq Users /\ missing' \subseteq Users
      /\ Ever \subseteq Ever' /\ missing \subseteq missing'
    BY <1>1 DEF Inv, TypeOK, table, Ever
<1>2. given' = [given EXCEPT ![r] = given[r]] /\ given[r] \in Requests \cup {None}
    BY <1>1 DEF Inv, TypeOK
<1>3. "ADMIN" \notin HandlerRoutes /\ {"failed", "rejected"} \subseteq Ended
    BY DEF HandlerRoutes, Ended
<1>4. ~IsAdministrator
    BY DEF IsAdministrator, FromUserEntity, FromModel
<1>5. /\ Goto(r, "failed") \/ Goto(r, "rejected")
      /\ \E a \in Users \cup {None} : actor' = [actor EXCEPT ![r] = a]
  <2>1. actor = [actor EXCEPT ![r] = actor[r]] /\ actor[r] \in Users \cup {None}
    BY DEF Inv, TypeOK
  <2>2. CASE (Goto(r, "failed") \/ Goto(r, "rejected")) /\ UNCHANGED actor
    BY <2>1, <2>2
  <2>3. CASE \E u \in users :
                 /\ actor' = [actor EXCEPT ![r] = IF IsAdministrator THEN u ELSE None]
                 /\ Goto(r, IF IsAdministrator THEN "sign" ELSE "rejected")
    BY <1>4, <2>3
  <2> QED BY <2>2, <2>3 DEF AdminSignIn
<1>6. PICK a \in Users \cup {None} : actor' = [actor EXCEPT ![r] = a]
    BY <1>5
<1>7. ASSUME NEW l \in {"failed", "rejected"}, Goto(r, l) PROVE Inv'
  <2>1. pc' = [pc EXCEPT ![r] = l]
    BY <1>7 DEF Goto
  <2>2. /\ kind'[r] = "ADMIN" /\ pc'[r] = l /\ actor'[r] = a /\ given'[r] = given[r]
        /\ kind' = [kind EXCEPT ![r] = kind'[r]]
        /\ pc' = [pc EXCEPT ![r] = pc'[r]]
        /\ actor' = [actor EXCEPT ![r] = actor'[r]]
        /\ given' = [given EXCEPT ![r] = given'[r]]
    BY <1>1, <1>2, <1>6, <2>1 DEF Inv, TypeOK
  <2> QED BY <1>1, <1>t, <1>2, <1>3, <1>7, <2>2, BeginMovesOne
<1> QED BY <1>5, <1>7

LEMMA RefreshTokenKeeps ==
    ASSUME Inv, NEW r \in Requests, NEW t \in Requests, RefreshToken(r, t)
    PROVE  Inv'
<1> DEFINE g == IF pc[t] = "answered" THEN t ELSE None
<1>1. /\ pc[r] = "idle" /\ kind' = [kind EXCEPT ![r] = "REFRESH"]
      /\ given' = [given EXCEPT ![r] = g] /\ Goto(r, "getToken")
      /\ UNCHANGED <<keyVars, table, cache, actor, old, signedWith, faults, history>>
    BY DEF RefreshToken
<1>t. /\ users' \subseteq Users /\ missing' \subseteq Users
      /\ Ever \subseteq Ever' /\ missing \subseteq missing'
    BY <1>1 DEF Inv, TypeOK, table, Ever
<1>2. actor' = [actor EXCEPT ![r] = actor[r]] /\ actor[r] \in Users \cup {None}
    BY <1>1 DEF Inv, TypeOK
<1>3. "REFRESH" \notin HandlerRoutes
    BY DEF HandlerRoutes
<1>4. g \in Requests \cup {None} /\ (g # None => pc[g] = "answered")
    OBVIOUS
<1> HIDE DEF g
<1>5. pc' = [pc EXCEPT ![r] = "getToken"]
    BY <1>1 DEF Goto
<1>6. /\ kind'[r] = "REFRESH" /\ pc'[r] = "getToken" /\ actor'[r] = actor[r] /\ given'[r] = g
      /\ kind' = [kind EXCEPT ![r] = kind'[r]]
      /\ pc' = [pc EXCEPT ![r] = pc'[r]]
      /\ actor' = [actor EXCEPT ![r] = actor'[r]]
      /\ given' = [given EXCEPT ![r] = given'[r]]
    BY <1>1, <1>2, <1>5, BeginWrites
<1> QED BY <1>1, <1>t, <1>2, <1>3, <1>4, <1>6, BeginMovesOne

LEMMA CallKeeps ==
    ASSUME Inv, NEW r \in Requests, NEW t \in Requests \cup {None}, NEW route \in HandlerRoutes,
           Call(r, t, route)
    PROVE  Inv'
<1> DEFINE a == Answer(route, ClaimsOf(t))
<1>1. /\ pc[r] = "idle" /\ kind' = [kind EXCEPT ![r] = route]
      /\ given' = [given EXCEPT ![r] = t]
      /\ t # None => pc[t] \in {"answered", "empty"}
      /\ (t # None /\ Goto(r, "lapsed")) \/ Goto(r, a)
      /\ UNCHANGED <<keyVars, cache, actor, old, signedWith, faults, history>>
      /\ UNCHANGED table \/ \E u, id \in Users : RenameUser(u, id)
  <2>1. Admitted(route, ClaimsOf(t)) => a = "served"
    BY DEF Answer, Admitted
  <2> QED BY <2>1 DEF Call
<1>t. /\ users' \subseteq Users /\ missing' \subseteq Users
      /\ Ever \subseteq Ever' /\ missing \subseteq missing'
    BY <1>1 DEF RenameUser, Inv, TypeOK, table, Ever
<1>2. actor' = [actor EXCEPT ![r] = actor[r]] /\ actor[r] \in Users \cup {None}
    BY <1>1 DEF Inv, TypeOK
<1>3. "REFRESH" \notin HandlerRoutes /\ {"lapsed", "rejected", "forbidden", "served"} \subseteq Ended
    BY DEF HandlerRoutes, Ended
<1>4. /\ ClaimsOf(t) \in {NoClaims, LoginClaims, RefreshClaims, AdminClaims}
      /\ ClaimsOf(t).verified <=> t # None /\ signedWith[t] = file
  <2>1. NoClaims.verified = FALSE /\ LoginClaims.verified = TRUE
        /\ AdminClaims.verified = TRUE /\ RefreshClaims.verified = TRUE
    BY DEF NoClaims, LoginClaims, RefreshClaims, AdminClaims
  <2>2. CASE t = None \/ signedWith[t] # file
    <3>1. ClaimsOf(t) = NoClaims
      BY <2>2 DEF ClaimsOf
    <3> QED BY <2>1, <2>2, <3>1
  <2>3. CASE t # None /\ signedWith[t] = file
    <3>1. kind[t] \in {"LOGIN", "SCRIPT", "REFRESH"}
      BY <1>1, <2>3 DEF Inv, KnownUser, Holding
    <3>2. ClaimsOf(t) \in {LoginClaims, RefreshClaims}
      BY <2>3, <3>1 DEF ClaimsOf
    <3> QED BY <2>1, <2>3, <3>2
  <2> QED BY <2>2, <2>3
<1>5. a \in {"rejected", "forbidden", "served"}
    BY Answers
<1> HIDE DEF a
<1>6. ASSUME NEW l \in {"lapsed", a}, Goto(r, l), l = "lapsed" => t # None PROVE Inv'
  <2>1. a = "served" => route # "admin/users"
    BY <1>4, Answers, Doors DEF a
  <2>2. a = "served" => t # None
    <3>1. route # "admin/users" => route \in {"users", "wallet"}
      BY DEF HandlerRoutes
    <3> QED BY <1>4, <2>1, <3>1, Doors DEF a
  <2>3. route # "admin/users" /\ a \in {"rejected", "forbidden"} /\ t # None => signedWith[t] # file
    BY <1>4, Doors DEF HandlerRoutes, a
  <2>4. pc' = [pc EXCEPT ![r] = l]
    BY <1>6 DEF Goto
  <2>5. /\ kind'[r] = route /\ pc'[r] = l /\ actor'[r] = actor[r] /\ given'[r] = t
        /\ kind' = [kind EXCEPT ![r] = kind'[r]]
        /\ pc' = [pc EXCEPT ![r] = pc'[r]]
        /\ actor' = [actor EXCEPT ![r] = actor'[r]]
        /\ given' = [given EXCEPT ![r] = given'[r]]
    BY <1>1, <1>2, <2>4, BeginWrites
  <2>6. l \in {"lapsed", "rejected", "forbidden", "served"}
    BY <1>5, <1>6
  <2>7. l # "lapsed" => l = a
    BY <1>6
  <2> QED BY <1>1, <1>t, <1>2, <1>3, <2>1, <2>2, <2>3, <2>5, <2>6, <2>7, BeginMovesOne
<1>7. a \in {"lapsed", a} /\ "lapsed" \in {"lapsed", a} /\ a # "lapsed"
    BY <1>5
<1>8. CASE t # None /\ Goto(r, "lapsed")
    BY <1>6, <1>7, <1>8
<1>9. CASE Goto(r, a)
    BY <1>6, <1>7, <1>9
<1> QED BY <1>1, <1>8, <1>9

-------------------------------------------------------------------------------
\* What a request on its way knows of the token it was given.
LEMMA GivenStays ==
    ASSUME Inv, NEW r \in Requests, pc[r] \in InFlight,
           kind'[r] = kind[r], given'[r] = given[r],
           \A s \in Requests \ {r} : pc'[s] = pc[s],
           \A s \in Requests \ {r} : actor'[s] = actor[s],
           pc'[r] # "served",
           kind[r] = "REFRESH" /\ pc'[r] = "findUser" /\ given[r] # None =>
               given[r] \in expired' \/ actor'[r] = actor[given[r]],
           kind[r] = "REFRESH" /\ pc'[r] = "rejected" /\ given[r] # None =>
               given[r] \in expired' \/ actor[given[r]] \in missing'
    PROVE  KnownGiven(r)'
<1>1. KnownUser(r) /\ KnownGiven(r) /\ given[r] \in Requests \cup {None}
    BY DEF Inv, TypeOK
<1>2. pc[r] \notin {"answered", "empty"}
    BY DEF InFlight, Rotating
<1>3. kind[r] \notin HandlerRoutes
    BY <1>1 DEF KnownUser, InFlight, Holding, HandlerRoutes
<1>4. kind[r] = "REFRESH" /\ given[r] # None =>
          pc'[given[r]] = "answered" /\ actor'[given[r]] = actor[given[r]]
  <2>1. kind[r] = "REFRESH" /\ given[r] # None => pc[given[r]] = "answered" /\ given[r] # r
    BY <1>1, <1>2 DEF KnownGiven
  <2> QED BY <1>1, <2>1
<1> QED BY <1>3, <1>4 DEF KnownGiven, HandlerRoutes

\* The steps of a request before it signs.
LEMMA GetTokenKeeps == ASSUME Inv, NEW r \in Requests, GetToken(r) PROVE Inv'
<1>1. /\ TypeOK /\ pc[r] = "getToken" /\ KnownUser(r) /\ KnownGiven(r)
      /\ actor' = [actor EXCEPT ![r] = IF given[r] # None /\ token[given[r]] # "none"
                                       THEN actor[given[r]] ELSE None]
      /\ pc' = [pc EXCEPT ![r] = "findUser"]
      /\ UNCHANGED <<keyVars, table, cache, kind, given, old, signedWith, faults, history>>
    BY DEF GetToken, Inv, Goto
<1>2. pc'[r] = "findUser" /\ kind[r] = "REFRESH"
    BY <1>1 DEF TypeOK, KnownUser
<1>3. actor'[r] \in Users \cup {None}
    BY <1>1 DEF TypeOK
<1>4. TypeOK'
  <2>1. /\ pc' \in [Requests -> {"idle"} \cup InFlight \cup Ended]
        /\ actor' \in [Requests -> Users \cup {None}]
    BY <1>1, <1>3 DEF TypeOK, InFlight
  <2>2. KeysTypeOK'
    BY <1>1 DEF TypeOK, KeysTypeOK, keyVars
  <2> QED BY <1>1, <2>1, <2>2 DEF TypeOK, table, cache, history
<1>5. KnownUser(r)'
    BY <1>1, <1>2 DEF KnownUser, Holding, Rotating, history
<1>6. \A s \in Requests \ {r} :
          /\ pc'[s] = pc[s] /\ kind'[s] = kind[s] /\ actor'[s] = actor[s]
          /\ given'[s] = given[s] /\ signedWith'[s] = signedWith[s]
    BY <1>1 DEF TypeOK
<1>g. given[r] # None => given[r] \in Requests /\ pc[given[r]] = "answered"
    BY <1>1, <1>2 DEF KnownGiven, TypeOK
<1>7. KnownGiven(r)'
  <2>1. given[r] # None => given[r] \in expired' \/ actor'[r] = actor[given[r]]
    <3>1. given[r] # None => token[given[r]] # "none" \/ given[r] \in expired
      BY <1>g DEF Inv, KnownUser
    <3> QED BY <1>1, <3>1 DEF TypeOK, history
  <2> QED BY <1>1, <1>2, <1>6, <2>1, GivenStays DEF InFlight
<1>9. signedWith[r] = None
    BY <1>1 DEF Inv, Signer, Holding, Rotating
<1>10. Signer(r)'
  <2>1. ASSUME actor'[r] # None PROVE SignedInAs(actor[r])'
    <3>1. given[r] # None /\ actor'[r] = actor[given[r]]
      BY <1>1, <2>1 DEF TypeOK
    <3>2. SignedInAs(actor[given[r]])
      BY <1>g, <3>1 DEF Inv, Signer, Holding
    <3> QED BY <1>1, <1>6, <1>9, <3>1, <3>2 DEF SignedInAs
  <2> QED BY <1>1, <1>2, <1>9, <2>1 DEF Signer, Holding, Rotating
<1>11. Ever \subseteq Ever' /\ missing \subseteq missing'
    BY <1>1 DEF table, Ever
<1>8. UNCHANGED <<keyVars, signedWith>>
    BY <1>1
<1> QED BY <1>1, <1>2, <1>4, <1>5, <1>6, <1>7, <1>8, <1>9, <1>10, <1>11, KeysStay, QuietStep
        DEF Rotating

\* A step that looks for the user, or makes it.
LEMMA LookupKeeps ==
    ASSUME Inv, NEW r \in Requests, pc[r] \in {"findUser", "recheck", "insert"},
           NEW l, pc' = [pc EXCEPT ![r] = l],
           l \in {"done", "rejected", "recheck", "insert", "failed", "sign"},
           UNCHANGED <<keyVars, cache, kind, actor, given, old, signedWith, faults, history>>,
           users \subseteq users', users' \subseteq Users, missing' = missing,
           l \in {"recheck", "insert"} => kind[r] \in {"LOGIN", "START"} /\ actor[r] \in Users,
           l = "sign" => kind[r] # "START" /\ actor[r] \in users',
           l = "rejected" => kind[r] = "REFRESH" /\ actor[r] \notin users
    PROVE  Inv'
<1>1. TypeOK /\ KnownUser(r)
    BY DEF Inv
<1>2. pc'[r] = l /\ \A s \in Requests \ {r} : pc'[s] = pc[s]
    BY <1>1 DEF TypeOK
<1>3. TypeOK'
  <2>1. pc' \in [Requests -> {"idle"} \cup InFlight \cup Ended]
    BY <1>1 DEF TypeOK, InFlight, Ended
  <2>2. KeysTypeOK'
    BY <1>1 DEF TypeOK, KeysTypeOK, keyVars
  <2> QED BY <1>1, <2>1, <2>2 DEF TypeOK, table, cache, history
<1>4. kind[r] \in {"LOGIN", "START", "REFRESH"}
    BY <1>1 DEF KnownUser
<1>5. l \notin Holding
    BY DEF Holding, Rotating
<1>6. KnownUser(r)'
    BY <1>2, <1>4, <1>5 DEF KnownUser, Holding, Ever
<1>7. ASSUME l = "rejected", given[r] # None
      PROVE  given[r] \in expired \/ actor[given[r]] \in missing
  <2>1. kind[r] = "REFRESH" /\ KnownGiven(r) /\ given[r] \in Requests
    BY <1>1, <1>7 DEF Inv, TypeOK
  <2>2. pc[r] = "findUser"
    BY <1>1, <2>1 DEF KnownUser
  <2>3. actor[given[r]] \in Ever
    <3>1. pc[given[r]] = "answered"
      BY <1>7, <2>1 DEF KnownGiven
    <3> QED BY <2>1, <3>1 DEF Inv, KnownUser, Holding
  <2> QED BY <1>7, <2>1, <2>2, <2>3 DEF KnownGiven, Ever
<1>8. KnownGiven(r)'
    BY <1>2, <1>7, GivenStays DEF InFlight, history
<1>9. signedWith[r] = None
    BY DEF Inv, Signer, Holding, Rotating
<1>10. Signer(r)'
  <2>1. ASSUME kind[r] = "REFRESH", l = "sign" PROVE SignedInAs(actor[r])
    <3>1. pc[r] = "findUser" /\ actor[r] # None
      BY <1>1, <2>1, NoneIsNoRequest DEF KnownUser
    <3> QED BY <2>1, <3>1 DEF Inv, Signer
  <2> QED BY <1>2, <1>5, <1>9, <2>1 DEF Signer, SignedInAs
<1>11. Ever \subseteq Ever' /\ missing \subseteq missing'
    BY DEF Ever
<1> QED BY <1>2, <1>3, <1>5, <1>6, <1>8, <1>9, <1>10, <1>11, KeysStay, QuietStep
        DEF Holding, Rotating

LEMMA FindUserKeeps == ASSUME Inv, NEW r \in Requests, FindUser(r) PROVE Inv'
<1> DEFINE l == IF FindById(actor[r]) THEN AfterUser(r)
                ELSE IF kind[r] = "REFRESH" THEN "rejected" ELSE "recheck"
<1>1. /\ pc[r] = "findUser" /\ KnownUser(r) /\ users \subseteq Users
      /\ actor[r] \in Users \cup {None}
      /\ pc' = [pc EXCEPT ![r] = l]
      /\ UNCHANGED <<keyVars, table, cache, kind, actor, given, old, signedWith, faults, history>>
    BY DEF FindUser, Inv, TypeOK, Goto
<1>2. /\ l \in {"done", "rejected", "recheck", "sign"}
      /\ l = "recheck" => kind[r] # "REFRESH"
      /\ l = "sign" => kind[r] # "START" /\ actor[r] \in users
      /\ l = "rejected" => kind[r] = "REFRESH" /\ (actor[r] \notin users \/ actor[r] = None)
    BY DEF FindById, AfterUser
<1>3. None \notin users
    BY <1>1, NoneIsNoRequest
<1>4. kind[r] # "REFRESH" => kind[r] \in {"LOGIN", "START"} /\ actor[r] \in Users
    BY <1>1 DEF KnownUser
<1> HIDE DEF l
<1> QED BY <1>1, <1>2, <1>3, <1>4, LookupKeeps DEF table

LEMMA RecheckUserKeeps == ASSUME Inv, NEW r \in Requests, RecheckUser(r) PROVE Inv'
<1> DEFINE l == IF FindById(actor[r]) THEN AfterUser(r) ELSE "insert"
<1>1. /\ pc[r] = "recheck" /\ KnownUser(r) /\ users \subseteq Users
      /\ pc' = [pc EXCEPT ![r] = l]
      /\ UNCHANGED <<keyVars, table, cache, kind, actor, given, old, signedWith, faults, history>>
    BY DEF RecheckUser, Inv, TypeOK, Goto
<1>2. /\ l \in {"done", "insert", "sign"}
      /\ l = "sign" => kind[r] # "START" /\ actor[r] \in users
    BY DEF FindById, AfterUser
<1>3. kind[r] \in {"LOGIN", "START"} /\ actor[r] \in Users
    BY <1>1 DEF KnownUser
<1> HIDE DEF l
<1> QED BY <1>1, <1>2, <1>3, LookupKeeps DEF table

LEMMA InsertUserKeeps == ASSUME Inv, NEW r \in Requests, InsertUser(r) PROVE Inv'
<1>1. /\ pc[r] = "insert" /\ KnownUser(r) /\ users \subseteq Users
      /\ UNCHANGED <<keyVars, missing, cache, kind, actor, given, old, signedWith, faults, history>>
    BY DEF InsertUser, Inv, TypeOK
<1>2. kind[r] \in {"LOGIN", "START"} /\ actor[r] \in Users
    BY <1>1 DEF KnownUser
<1>3. CASE users' = users \cup {actor[r]} /\ Goto(r, AfterUser(r))
  <2> DEFINE l == AfterUser(r)
  <2>1. l \in {"done", "sign"} /\ (l = "sign" => kind[r] # "START")
    BY DEF AfterUser
  <2>2. pc' = [pc EXCEPT ![r] = l]
    BY <1>3 DEF Goto
  <2>3. users \subseteq users' /\ users' \subseteq Users /\ actor[r] \in users'
    BY <1>1, <1>2, <1>3
  <2> HIDE DEF l
  <2> QED BY <1>1, <1>2, <2>1, <2>2, <2>3, LookupKeeps
<1>4. CASE users' = users /\ Goto(r, "failed")
  <2>1. pc' = [pc EXCEPT ![r] = "failed"]
    BY <1>4 DEF Goto
  <2> QED BY <1>1, <1>2, <1>4, <2>1, LookupKeeps
<1> QED BY <1>3, <1>4 DEF InsertUser

LEMMA SignKeeps == ASSUME Inv, NEW r \in Requests, Sign(r) PROVE Inv'
<1> DEFINE l == IF file = None THEN "failed" ELSE "setToken"
<1>1. /\ TypeOK /\ Kept /\ Signed /\ KnownUser(r) /\ pc[r] = "sign"
      /\ signedWith' = [signedWith EXCEPT ![r] = file]
      /\ pc' = [pc EXCEPT ![r] = l]
      /\ UNCHANGED <<keyVars, table, cache, kind, actor, given, old, faults, history>>
    BY DEF Sign, Inv, Goto
<1>2. /\ pc'[r] = l /\ signedWith'[r] = file
      /\ \A s \in Requests \ {r} : pc'[s] = pc[s] /\ signedWith'[s] = signedWith[s]
    BY <1>1 DEF TypeOK
<1>3. TypeOK'
  <2>1. /\ pc' \in [Requests -> {"idle"} \cup InFlight \cup Ended]
        /\ signedWith' \in [Requests -> Instances \cup {None}]
    BY <1>1 DEF TypeOK, KeysTypeOK, InFlight, Ended
  <2>2. KeysTypeOK'
    BY <1>1 DEF TypeOK, KeysTypeOK, keyVars
  <2> QED BY <1>1, <2>1, <2>2 DEF TypeOK, table, cache, history
<1>4. Kept' /\ UNCHANGED <<file, stage>>
    BY <1>1 DEF Kept, keyVars
<1>5. Signed'
    BY <1>1, <1>2, <1>4 DEF Signed
<1>t. Ever' = Ever /\ missing' = missing
    BY <1>1 DEF table, Ever
<1>6. KnownUser(r)'
    BY <1>1, <1>2, <1>t DEF KnownUser, Holding, Rotating
<1>7. KnownGiven(r)'
    BY <1>1, <1>2, GivenStays DEF InFlight
<1>8. signedWith[r] = None
    BY <1>1 DEF Inv, Signer, Holding, Rotating
<1>9. Signer(r)'
  <2>1. l = "failed" => l \notin Holding
    BY DEF Holding, Rotating
  <2>2. ASSUME l = "setToken" PROVE SignedInAs(actor[r])'
    <3>1. signedWith'[r] # None
      BY <1>2, <2>2
    <3>2. CASE kind[r] \in {"LOGIN", "SCRIPT"}
      BY <1>1, <3>1, <3>2 DEF SignedInAs
    <3>3. CASE kind[r] = "REFRESH"
      <4>1. actor[r] # None
        BY <1>1, NoneIsNoRequest DEF KnownUser, Ever, TypeOK
      <4>2. SignedInAs(actor[r])
        BY <1>1, <3>3, <4>1 DEF Inv, Signer
      <4> QED BY <1>1, <1>2, <1>8, <4>2, SignInsStay
    <3> QED BY <1>1, <3>2, <3>3 DEF KnownUser
  <2>3. l = "setToken" \/ (l = "failed" /\ signedWith'[r] = None)
    BY <1>2
  <2> QED BY <1>1, <1>2, <2>1, <2>2, <2>3 DEF Signer, Holding
<1> QED BY <1>1, <1>2, <1>3, <1>4, <1>5, <1>6, <1>7, <1>t, <1>8, <1>9, QuietStep DEF Rotating

-------------------------------------------------------------------------------
\* A rotation begins, and sees the others of its user.
LEMMA SetTokenKeeps == ASSUME Inv, NEW r \in Requests, SetToken(r) PROVE Inv'
<1> DEFINE others == {s \in Requests \ {r} : pc[s] \in Rotating /\ actor[s] = actor[r]}
<1>1. /\ TypeOK /\ pc[r] = "setToken" /\ KnownUser(r)
      /\ token' = [token EXCEPT ![r] = "long"]
      /\ overlapped' = IF others = {} THEN overlapped ELSE overlapped \cup others \cup {r}
      /\ pc' = [pc EXCEPT ![r] = "getCurrent"]
      /\ UNCHANGED <<keyVars, table, current, kind, actor, given, old, signedWith,
                     faults, expired, disturbed>>
    BY DEF SetToken, Inv, Goto
<1>2. /\ pc'[r] = "getCurrent" /\ token'[r] = "long"
      /\ \A s \in Requests \ {r} : pc'[s] = pc[s] /\ token'[s] = token[s]
    BY <1>1 DEF TypeOK
<1>3. overlapped \subseteq overlapped' /\ overlapped' \subseteq Requests
    BY <1>1 DEF TypeOK
<1>4. TypeOK'
  <2>1. /\ pc' \in [Requests -> {"idle"} \cup InFlight \cup Ended]
        /\ token' \in [Requests -> {"none", "long", "short"}]
    BY <1>1 DEF TypeOK, InFlight, Rotating
  <2>2. KeysTypeOK'
    BY <1>1 DEF TypeOK, KeysTypeOK, keyVars
  <2> QED BY <1>1, <1>3, <2>1, <2>2 DEF TypeOK, table
<1>5. pc[r] \notin Rotating \cup {"answered", "empty"}
    BY <1>1 DEF Rotating
<1>t. Ever' = Ever /\ missing' = missing
    BY <1>1 DEF table, Ever
<1>6. \A s \in Requests : KnownUser(s)' /\ KnownGiven(s)'
  <2>1. KnownUser(r)'
    BY <1>1, <1>2, <1>t DEF KnownUser, Holding, Rotating
  <2>2. KnownGiven(r)'
    BY <1>1, <1>2, GivenStays DEF InFlight
  <2> QED BY <1>1, <1>2, <1>5, <1>t, <2>1, <2>2, OneRequestMoves DEF keyVars
<1>s. \A s \in Requests : Signer(s)'
  <2>1. Signer(r)'
    BY <1>1, <1>2 DEF Inv, Signer, SignedInAs, Holding, Rotating
  <2> QED BY <1>1, <1>2, <2>1, OneSignerMoves
<1>7. /\ Owned /\ Noticed /\ Replaces /\ CurrentTokenLives /\ ReplacedTokensRunOut
      /\ current \in [Users -> Requests \cup {None}]
      /\ old \in [Requests -> Requests \cup {None}]
    BY <1>1 DEF Inv, TypeOK
<1>8. \A u \in Users : current[u] # None =>
          /\ current[u] \in Requests \ {r}
          /\ pc'[current[u]] = "answered" /\ token'[current[u]] = token[current[u]]
    BY <1>2, <1>5, <1>7 DEF Owned
<1>9. Owned'
  <2>1. ASSUME NEW s \in Requests, pc'[s] = "setOld"
        PROVE  old[s] # None /\ pc'[old[s]] = "answered" /\ actor[old[s]] = actor[s]
    BY <1>2, <1>5, <1>7, <2>1 DEF Owned
  <2>2. ASSUME NEW s \in Requests, pc'[s] \in Rotating PROVE token'[s] # "short"
    BY <1>2, <1>7, <2>2 DEF Owned
  <2> QED BY <1>1, <1>7, <1>8, <2>1, <2>2 DEF Owned
<1>10. Noticed'
  <2>1. ASSUME NEW s \in Requests, NEW q \in Requests, s # q, actor[s] = actor[q],
               pc'[s] \in Rotating, pc'[q] \in Rotating
        PROVE  s \in overlapped'
    <3>1. CASE s # r /\ q # r
      BY <1>2, <1>3, <1>7, <2>1, <3>1 DEF Noticed
    <3>2. CASE s = r
      <4>1. q \in others
        BY <1>2, <2>1, <3>2
      <4> QED BY <1>1, <3>2, <4>1
    <3>3. CASE q = r
      <4>1. s \in others
        BY <1>2, <2>1, <3>3
      <4> QED BY <1>1, <4>1
    <3> QED BY <3>1, <3>2, <3>3
  <2> QED BY <1>1, <2>1 DEF Noticed
<1>12. Replaces'
  <2>1. ASSUME NEW s \in Requests, pc'[s] \in {"setOld", "setCurrent"}
        PROVE  s # r /\ pc[s] = pc'[s] /\ actor[s] \in Users
    <3>1. s # r /\ pc[s] = pc'[s]
      BY <1>2, <2>1
    <3>2. KnownUser(s)
      BY DEF Inv
    <3> QED BY <1>1, <2>1, <3>1, <3>2 DEF KnownUser, Holding, Rotating, TypeOK, Ever
  <2>2. ASSUME NEW u \in Users PROVE Lasting(u)' => Lasting(u)
    BY <1>1, <1>3, <1>8 DEF Lasting
  <2>3. ASSUME NEW s \in Requests, pc'[s] = "setOld", Lasting(actor[s])'
        PROVE  old[s] = current[actor[s]]
    BY <1>1, <1>7, <2>1, <2>2, <2>3 DEF Replaces
  <2>4. ASSUME NEW s \in Requests, pc'[s] = "setCurrent" PROVE ~Lasting(actor[s])'
    BY <1>1, <1>7, <2>1, <2>2, <2>4 DEF Replaces
  <2> QED BY <1>1, <2>3, <2>4 DEF Replaces
<1>13. CurrentTokenLives'
  <2>1. ASSUME NEW u \in Users \ disturbed, current[u] # None, token'[current[u]] = "short"
        PROVE  \E s \in Requests : pc'[s] = "setCurrent" /\ actor[s] = u /\ old[s] = current[u]
    BY <1>1, <1>2, <1>7, <1>8, <2>1 DEF CurrentTokenLives
  <2> QED BY <1>1, <2>1 DEF CurrentTokenLives
<1>14. ReplacedTokensRunOut'
  <2>1. \A t \in Requests : pc'[t] = "answered" => pc[t] = "answered" /\ token'[t] = token[t]
    BY <1>2
  <2> QED BY <1>1, <1>3, <1>7, <2>1 DEF ReplacedTokensRunOut
<1>15. Kept' /\ Signed'
    BY <1>1, KeysStay
<1> QED BY <1>4, <1>6, <1>s, <1>9, <1>10, <1>12, <1>13, <1>14, <1>15 DEF Inv

\* What the rotations' steps have in common.
LEMMA Rotation ==
    ASSUME Inv
    PROVE  /\ Owned /\ Noticed /\ Replaces /\ CurrentTokenLives /\ ReplacedTokensRunOut
           /\ current \in [Users -> Requests \cup {None}]
           /\ old \in [Requests -> Requests \cup {None}]
           /\ token \in [Requests -> {"none", "long", "short"}]
           /\ \A s \in Requests : pc[s] \in Rotating => actor[s] \in Users
<1>1. \A s \in Requests : pc[s] \in Rotating => actor[s] \in Users
    BY DEF Inv, TypeOK, KnownUser, Holding, Ever
<1> QED BY <1>1 DEF Inv, TypeOK

\* One step of a rotation that goes on, or is answered.
LEMMA RotatingMoves ==
    ASSUME Inv, NEW r \in Requests, pc[r] \in Rotating,
           NEW l \in Rotating \cup {"answered"}, pc' = [pc EXCEPT ![r] = l],
           UNCHANGED <<keyVars, table, kind, actor, given, signedWith, faults, history>>,
           token' \in [Requests -> {"none", "long", "short"}],
           current' \in [Users -> Requests \cup {None}],
           old' \in [Requests -> Requests \cup {None}],
           \A s \in Requests : token[s] # "none" => token'[s] # "none"
    PROVE  /\ TypeOK' /\ Kept' /\ Signed'
           /\ \A s \in Requests : KnownUser(s)' /\ KnownGiven(s)'
           /\ \A s \in Requests : Signer(s)'
           /\ pc'[r] = l /\ \A s \in Requests \ {r} : pc'[s] = pc[s]
<1>1. TypeOK /\ KnownUser(r)
    BY DEF Inv
<1>2. pc'[r] = l /\ \A s \in Requests \ {r} : pc'[s] = pc[s]
    BY <1>1 DEF TypeOK
<1>3. TypeOK'
  <2>1. pc' \in [Requests -> {"idle"} \cup InFlight \cup Ended]
    BY <1>1 DEF TypeOK, InFlight, Ended
  <2>2. KeysTypeOK'
    BY <1>1 DEF TypeOK, KeysTypeOK, keyVars
  <2> QED BY <1>1, <2>1, <2>2 DEF TypeOK, table, history
<1>4. pc[r] \notin {"answered", "empty"} /\ pc[r] \in InFlight
    BY DEF Rotating, InFlight
<1>t. Ever' = Ever /\ missing' = missing
    BY DEF table, Ever
<1>l. {pc[r], l} \subseteq Holding
    BY DEF Holding
<1>5. KnownUser(r)'
  <2>1. l \notin {"getToken", "findUser", "recheck", "insert"}
    BY DEF Rotating
  <2> QED BY <1>1, <1>2, <1>l, <1>t, <2>1 DEF KnownUser, history
<1>6. KnownGiven(r)'
  <2>1. l \notin {"served", "rejected", "findUser"}
    BY DEF Rotating
  <2> QED BY <1>2, <1>4, <2>1, GivenStays
<1>7. \A s \in Requests : KnownUser(s)' /\ KnownGiven(s)'
    BY <1>2, <1>4, <1>5, <1>6, <1>t, OneRequestMoves DEF keyVars, history
<1>8. \A s \in Requests : Signer(s)'
  <2>1. Signer(r)'
    BY <1>2, <1>l DEF Inv, Signer, SignedInAs, Holding, Rotating
  <2> QED BY <1>2, <2>1, OneSignerMoves
<1>9. Kept' /\ Signed'
    BY KeysStay
<1> QED BY <1>2, <1>3, <1>7, <1>8, <1>9

LEMMA GetCurrentKeeps == ASSUME Inv, NEW r \in Requests, GetCurrent(r) PROVE Inv'
<1> DEFINE u == actor[r]
           l == IF current[u] = None THEN "setCurrent" ELSE "setOld"
<1>1. /\ pc[r] = "getCurrent" /\ pc[r] \in Rotating /\ l \in Rotating
      /\ old' = [old EXCEPT ![r] = current[u]]
      /\ pc' = [pc EXCEPT ![r] = l]
      /\ UNCHANGED <<keyVars, table, cache, kind, actor, given, signedWith, faults, history>>
    BY DEF GetCurrent, Goto, Rotating
<1>2. /\ Owned /\ Noticed /\ Replaces /\ CurrentTokenLives /\ ReplacedTokensRunOut
      /\ current \in [Users -> Requests \cup {None}]
      /\ old \in [Requests -> Requests \cup {None}]
      /\ token \in [Requests -> {"none", "long", "short"}]
      /\ u \in Users
    BY <1>1, Rotation
<1>3. /\ old' \in [Requests -> Requests \cup {None}] /\ old'[r] = current[u]
      /\ \A s \in Requests \ {r} : old'[s] = old[s]
    BY <1>1, <1>2
<1>4. UNCHANGED <<token, current, actor, overlapped, disturbed>>
    BY <1>1 DEF cache, history
<1>5. /\ TypeOK' /\ Kept' /\ Signed'
      /\ \A s \in Requests : KnownUser(s)' /\ KnownGiven(s)'
      /\ \A s \in Requests : Signer(s)'
      /\ pc'[r] = l /\ \A s \in Requests \ {r} : pc'[s] = pc[s]
  <2> HIDE DEF l, u
  <2> QED BY <1>1, <1>2, <1>3, <1>4, RotatingMoves
<1>6. \A s \in Requests : pc'[s] \in Rotating => pc[s] \in Rotating
    BY <1>1, <1>5
<1>7. \A s \in Requests : pc[s] = "answered" <=> pc'[s] = "answered"
    BY <1>1, <1>5
<1>8. Owned'
  <2>1. ASSUME NEW v \in Users, current[v] # None
        PROVE  pc'[current[v]] = "answered" /\ actor[current[v]] = v
    BY <1>2, <1>7, <2>1 DEF Owned
  <2>2. ASSUME NEW s \in Requests, pc'[s] = "setOld"
        PROVE  old'[s] # None /\ pc'[old'[s]] = "answered" /\ actor[old'[s]] = actor[s]
    <3>1. CASE s = r
      <4>1. current[u] # None
        BY <1>5, <2>2, <3>1
      <4> QED BY <1>2, <1>3, <2>1, <3>1, <4>1
    <3>2. CASE s # r
      BY <1>2, <1>3, <1>5, <1>7, <2>2, <3>2 DEF Owned
    <3> QED BY <3>1, <3>2
  <2>3. \A s \in Requests : pc'[s] \in Rotating => token[s] # "short"
    BY <1>2, <1>6 DEF Owned
  <2> QED BY <1>4, <2>1, <2>2, <2>3 DEF Owned
<1>9. Noticed'
    BY <1>2, <1>4, <1>6 DEF Noticed
<1>10. Replaces'
  <2>1. ASSUME NEW s \in Requests, pc'[s] = "setOld", Lasting(actor[s])
        PROVE  old'[s] = current[actor[s]]
    BY <1>2, <1>3, <1>5, <2>1 DEF Replaces
  <2>2. ASSUME NEW s \in Requests, pc'[s] = "setCurrent" PROVE ~Lasting(actor[s])
    <3>1. CASE s = r
      <4>1. current[u] = None
        BY <1>5, <2>2, <3>1
      <4> QED BY <3>1, <4>1 DEF Lasting
    <3>2. CASE s # r
      BY <1>2, <1>5, <2>2, <3>2 DEF Replaces
    <3> QED BY <3>1, <3>2
  <2> QED BY <1>4, <2>1, <2>2 DEF Replaces, Lasting
<1>11. CurrentTokenLives'
    BY <1>1, <1>2, <1>3, <1>4, <1>5 DEF CurrentTokenLives
<1>12. ReplacedTokensRunOut'
    BY <1>2, <1>4, <1>7 DEF ReplacedTokensRunOut
<1> QED BY <1>5, <1>8, <1>9, <1>10, <1>11, <1>12 DEF Inv

LEMMA SetOldKeeps == ASSUME Inv, NEW r \in Requests, SetOld(r) PROVE Inv'
<1>1. /\ pc[r] = "setOld" /\ pc[r] \in Rotating /\ "setCurrent" \in Rotating
      /\ token' = [token EXCEPT ![old[r]] = "short"]
      /\ pc' = [pc EXCEPT ![r] = "setCurrent"]
      /\ UNCHANGED <<keyVars, table, current, kind, actor, given, old, signedWith,
                     faults, history>>
    BY DEF SetOld, Goto, Rotating
<1>2. /\ Owned /\ Noticed /\ Replaces /\ CurrentTokenLives /\ ReplacedTokensRunOut
      /\ current \in [Users -> Requests \cup {None}]
      /\ old \in [Requests -> Requests \cup {None}]
      /\ token \in [Requests -> {"none", "long", "short"}]
      /\ \A s \in Requests : pc[s] \in Rotating => actor[s] \in Users
    BY Rotation
<1>3. /\ old[r] \in Requests /\ pc[old[r]] = "answered" /\ actor[old[r]] = actor[r]
      /\ old[r] # r
    BY <1>1, <1>2 DEF Owned
<1>4. /\ token' \in [Requests -> {"none", "long", "short"}] /\ token'[old[r]] = "short"
      /\ \A s \in Requests : s # old[r] => token'[s] = token[s]
    BY <1>1, <1>2, <1>3
<1>5. UNCHANGED <<current, old, actor, overlapped, disturbed>>
    BY <1>1 DEF history
<1>6. /\ TypeOK' /\ Kept' /\ Signed'
      /\ \A s \in Requests : KnownUser(s)' /\ KnownGiven(s)'
      /\ \A s \in Requests : Signer(s)'
      /\ pc'[r] = "setCurrent" /\ \A s \in Requests \ {r} : pc'[s] = pc[s]
    BY <1>1, <1>2, <1>4, RotatingMoves
<1>7. \A s \in Requests : pc'[s] \in Rotating => pc[s] \in Rotating /\ s # old[r]
    BY <1>1, <1>3, <1>6 DEF Rotating
<1>8. \A s \in Requests : pc[s] = "answered" <=> pc'[s] = "answered"
    BY <1>1, <1>6
<1>9. \A v \in Users : Lasting(v)' => Lasting(v) /\ current[v] # old[r]
    BY <1>2, <1>4, <1>5 DEF Lasting
<1>10. Owned'
  <2>1. \A v \in Users : current[v] # None => pc'[current[v]] = "answered"
    BY <1>2, <1>8 DEF Owned
  <2>2. \A s \in Requests : pc'[s] = "setOld" => pc[s] = "setOld" /\ pc'[old[s]] = "answered"
    BY <1>2, <1>6, <1>8 DEF Owned
  <2>3. \A s \in Requests : pc'[s] \in Rotating => token'[s] # "short"
    BY <1>2, <1>4, <1>7 DEF Owned
  <2> QED BY <1>2, <1>5, <2>1, <2>2, <2>3 DEF Owned
<1>11. Noticed'
    BY <1>2, <1>5, <1>7 DEF Noticed
<1>12. Replaces'
  <2>1. ASSUME NEW s \in Requests, pc'[s] = "setOld", Lasting(actor[s])'
        PROVE  old[s] = current[actor[s]]
    <3>1. pc[s] = "setOld" /\ actor[s] \in Users
      BY <1>2, <1>6, <1>7, <2>1 DEF Rotating
    <3> QED BY <1>2, <1>5, <1>9, <2>1, <3>1 DEF Replaces
  <2>2. ASSUME NEW s \in Requests, pc'[s] = "setCurrent" PROVE ~Lasting(actor[s])'
    <3>1. actor[s] \in Users
      BY <1>2, <1>7, <2>2 DEF Rotating
    <3>2. CASE s = r
      BY <1>1, <1>2, <1>5, <1>9, <3>1, <3>2 DEF Replaces
    <3>3. CASE s # r
      BY <1>2, <1>5, <1>6, <1>9, <2>2, <3>1, <3>3 DEF Replaces
    <3> QED BY <3>2, <3>3
  <2> QED BY <1>5, <2>1, <2>2 DEF Replaces
<1>13. CurrentTokenLives'
  <2>1. ASSUME NEW v \in Users \ disturbed, current[v] # None, token'[current[v]] = "short"
        PROVE  \E s \in Requests : pc'[s] = "setCurrent" /\ actor[s] = v /\ old[s] = current[v]
    <3>1. CASE current[v] = old[r]
      <4>1. actor[r] = v
        BY <1>2, <1>3, <2>1, <3>1 DEF Owned
      <4> QED BY <1>6, <3>1, <4>1
    <3>2. CASE current[v] # old[r]
      <4>1. token[current[v]] = "short"
        BY <1>2, <1>4, <2>1, <3>2
      <4>2. PICK s \in Requests : pc[s] = "setCurrent" /\ actor[s] = v /\ old[s] = current[v]
        BY <1>2, <2>1, <4>1 DEF CurrentTokenLives
      <4> QED BY <1>1, <1>6, <4>2
    <3> QED BY <3>1, <3>2
  <2> QED BY <1>5, <2>1 DEF CurrentTokenLives
<1>14. ReplacedTokensRunOut'
  <2>1. \A t \in Requests : token'[t] = "long" => token[t] = "long"
    BY <1>4
  <2> QED BY <1>2, <1>5, <1>8, <2>1 DEF ReplacedTokensRunOut
<1> QED BY <1>6, <1>10, <1>11, <1>12, <1>13, <1>14 DEF Inv

LEMMA SetCurrentKeeps == ASSUME Inv, NEW r \in Requests, SetCurrent(r) PROVE Inv'
<1> DEFINE u == actor[r]
<1>1. /\ pc[r] = "setCurrent" /\ pc[r] \in Rotating /\ "answered" \notin Rotating
      /\ current' = [current EXCEPT ![u] = r]
      /\ pc' = [pc EXCEPT ![r] = "answered"]
      /\ UNCHANGED <<keyVars, table, token, kind, actor, given, old, signedWith,
                     faults, history>>
    BY DEF SetCurrent, Goto, Rotating
<1>2. /\ Owned /\ Noticed /\ Replaces /\ CurrentTokenLives /\ ReplacedTokensRunOut
      /\ current \in [Users -> Requests \cup {None}]
      /\ old \in [Requests -> Requests \cup {None}]
      /\ token \in [Requests -> {"none", "long", "short"}]
      /\ \A s \in Requests : pc[s] \in Rotating => actor[s] \in Users
      /\ u \in Users
    BY <1>1, Rotation
<1>3. /\ current' \in [Users -> Requests \cup {None}] /\ current'[u] = r
      /\ \A v \in Users \ {u} : current'[v] = current[v]
    BY <1>1, <1>2
<1>4. UNCHANGED <<token, old, actor, overlapped, disturbed>>
    BY <1>1 DEF history
<1>5. /\ TypeOK' /\ Kept' /\ Signed'
      /\ \A s \in Requests : KnownUser(s)' /\ KnownGiven(s)'
      /\ \A s \in Requests : Signer(s)'
      /\ pc'[r] = "answered" /\ \A s \in Requests \ {r} : pc'[s] = pc[s]
  <2>1. "answered" \in Rotating \cup {"answered"}
    OBVIOUS
  <2>2. /\ token' \in [Requests -> {"none", "long", "short"}]
        /\ old' \in [Requests -> Requests \cup {None}]
        /\ \A s \in Requests : token[s] # "none" => token'[s] # "none"
    BY <1>2, <1>4
  <2>3. UNCHANGED <<keyVars, table, kind, actor, given, signedWith, faults, history>>
    BY <1>1
  <2> HIDE DEF u
  <2> QED BY <1>1, <1>3, <2>1, <2>2, <2>3, RotatingMoves
<1>6. \A s \in Requests : pc'[s] \in Rotating => pc[s] \in Rotating /\ s # r
    BY <1>1, <1>5
<1>7. \A s \in Requests : pc[s] = "answered" => pc'[s] = "answered" /\ s # r
    BY <1>1, <1>5
<1>8. \A s \in Requests : {"setOld", "setCurrent"} \subseteq Rotating
    BY DEF Rotating
<1>9. Owned'
  <2>1. ASSUME NEW v \in Users, current'[v] # None
        PROVE  pc'[current'[v]] = "answered" /\ actor[current'[v]] = v
    BY <1>2, <1>3, <1>5, <1>7, <2>1 DEF Owned
  <2>2. ASSUME NEW s \in Requests, pc'[s] = "setOld"
        PROVE  old[s] # None /\ pc'[old[s]] = "answered" /\ actor[old[s]] = actor[s]
    BY <1>2, <1>5, <1>7, <2>2 DEF Owned
  <2>3. \A s \in Requests : pc'[s] \in Rotating => token[s] # "short"
    BY <1>2, <1>6 DEF Owned
  <2> QED BY <1>4, <2>1, <2>2, <2>3 DEF Owned
<1>10. Noticed'
    BY <1>2, <1>4, <1>6 DEF Noticed
<1>11. ASSUME NEW s \in Requests, pc'[s] \in Rotating, Lasting(actor[s])'
       PROVE  actor[s] \in Users \ {u} /\ Lasting(actor[s])
  <2>1. actor[s] \in Users /\ pc[s] \in Rotating /\ s # r
    BY <1>2, <1>6, <1>11
  <2>2. CASE actor[s] = u
    <3>1. r \in overlapped
      BY <1>1, <1>2, <2>1, <2>2 DEF Noticed
    <3> QED BY <1>3, <1>4, <1>11, <2>2, <3>1 DEF Lasting
  <2>3. CASE actor[s] # u
    BY <1>3, <1>4, <1>11, <2>1, <2>3 DEF Lasting
  <2> QED BY <2>2, <2>3
<1>12. Replaces'
  <2>1. ASSUME NEW s \in Requests, pc'[s] = "setOld", Lasting(actor[s])'
        PROVE  old[s] = current'[actor[s]]
    <3>1. actor[s] \in Users \ {u} /\ Lasting(actor[s]) /\ pc[s] = "setOld"
      BY <1>5, <1>8, <1>11, <2>1
    <3> QED BY <1>2, <1>3, <3>1 DEF Replaces
  <2>2. ASSUME NEW s \in Requests, pc'[s] = "setCurrent" PROVE ~Lasting(actor[s])'
    <3>1. pc[s] = "setCurrent"
      BY <1>5, <2>2
    <3> QED BY <1>2, <1>8, <1>11, <2>2, <3>1 DEF Replaces
  <2> QED BY <1>4, <2>1, <2>2 DEF Replaces
<1>13. CurrentTokenLives'
  <2>1. ASSUME NEW v \in Users \ disturbed, current'[v] # None, token[current'[v]] = "short"
        PROVE  \E s \in Requests : pc'[s] = "setCurrent" /\ actor[s] = v /\ old[s] = current'[v]
    <3>1. v # u
      BY <1>1, <1>2, <1>3, <2>1 DEF Owned
    <3>2. PICK s \in Requests : pc[s] = "setCurrent" /\ actor[s] = v /\ old[s] = current[v]
      BY <1>2, <1>3, <2>1, <3>1 DEF CurrentTokenLives
    <3> QED BY <1>3, <1>5, <3>1, <3>2
  <2> QED BY <1>4, <2>1 DEF CurrentTokenLives
<1>14. ReplacedTokensRunOut'
  <2>1. ASSUME NEW t \in Requests, pc'[t] = "answered", token[t] = "long", current'[actor[t]] # t
        PROVE  t \in overlapped \/ actor[t] \in disturbed
    <3>1. t # r /\ pc[t] = "answered"
      BY <1>3, <1>5, <2>1
    <3>2. CASE current[actor[t]] # t
      BY <1>2, <2>1, <3>1, <3>2 DEF ReplacedTokensRunOut
    <3>3. CASE current[actor[t]] = t
      <4>1. actor[t] = u
        <5>1. actor[t] \in Users
          BY <3>1 DEF Inv, TypeOK, KnownUser, Holding, Ever
        <5> QED BY <1>3, <2>1, <3>3, <5>1
      <4>2. ~Lasting(u)
        BY <1>1, <1>2 DEF Replaces
      <4>3. t # None
        BY NoneIsNoRequest
      <4> QED BY <2>1, <3>3, <4>1, <4>2, <4>3 DEF Lasting
    <3> QED BY <3>2, <3>3
  <2> QED BY <1>4, <2>1 DEF ReplacedTokensRunOut
<1> QED BY <1>5, <1>9, <1>10, <1>12, <1>13, <1>14 DEF Inv

-------------------------------------------------------------------------------
\* Redis drops an entry.
LEMMA ExpireTokenKeeps == ASSUME Inv, NEW t \in Requests, ExpireToken(t) PROVE Inv'
<1>1. /\ token' = [token EXCEPT ![t] = "none"]
      /\ expired' = expired \cup {t}
      /\ UNCHANGED <<keyVars, table, current, request, faults, overlapped, disturbed>>
    BY DEF ExpireToken
<1>2. /\ Owned /\ Noticed /\ Replaces /\ CurrentTokenLives /\ ReplacedTokensRunOut
      /\ current \in [Users -> Requests \cup {None}]
      /\ token \in [Requests -> {"none", "long", "short"}]
      /\ \A s \in Requests : pc[s] \in Rotating => actor[s] \in Users
    BY Rotation
<1>3. /\ UNCHANGED <<file, users, missing, kind, pc, actor, given, old, signedWith>>
      /\ UNCHANGED <<current, overlapped, disturbed>>
      /\ Ever' = Ever
    BY <1>1 DEF keyVars, table, Ever, request
<1>4. /\ token' \in [Requests -> {"none", "long", "short"}]
      /\ \A s \in Requests : s # t => token'[s] = token[s]
      /\ \A s \in Requests : token'[s] # "none" => token'[s] = token[s]
    BY <1>1, <1>2
<1>5. TypeOK'
  <2>1. TypeOK
    BY DEF Inv
  <2>2. KeysTypeOK'
    BY <1>1, <2>1 DEF TypeOK, KeysTypeOK, keyVars
  <2> QED BY <1>1, <1>4, <2>1, <2>2 DEF TypeOK, table, request
<1>6. \A s \in Requests : KnownUser(s)' /\ KnownGiven(s)'
  <2>1. ASSUME NEW s \in Requests PROVE KnownUser(s)' /\ KnownGiven(s)'
    <3>1. KnownUser(s) /\ KnownGiven(s) /\ given[s] \in Requests \cup {None}
      BY DEF Inv, TypeOK
    <3>2. token[s] # "none" => token'[s] # "none" \/ s \in expired'
      BY <1>1, <1>4
    <3> QED BY <1>1, <1>3, <3>1, <3>2, KnownStays
  <2> QED BY <2>1
<1>7. Kept' /\ Signed'
    BY <1>1, <1>3, KeysStay
<1>8. \A v \in Users : current[v] # None => current[v] \in Requests
    BY <1>2
<1>9. Owned' /\ Noticed'
  <2>1. Owned'
    BY <1>2, <1>3, <1>4 DEF Owned
  <2> QED BY <1>2, <1>3, <2>1 DEF Noticed
<1>10. Replaces'
  <2>1. \A v \in Users : Lasting(v)' => Lasting(v)
    BY <1>3, <1>4, <1>8 DEF Lasting
  <2>2. ASSUME NEW s \in Requests, pc[s] = "setOld", Lasting(actor[s])'
        PROVE  old[s] = current[actor[s]]
    BY <1>2, <1>3, <2>1, <2>2 DEF Replaces, Rotating
  <2>3. ASSUME NEW s \in Requests, pc[s] = "setCurrent" PROVE ~Lasting(actor[s])'
    BY <1>2, <1>3, <2>1, <2>3 DEF Replaces, Rotating
  <2> QED BY <1>3, <2>2, <2>3 DEF Replaces
<1>11. CurrentTokenLives'
    BY <1>2, <1>3, <1>4, <1>8 DEF CurrentTokenLives
<1>12. ReplacedTokensRunOut'
    BY <1>2, <1>3, <1>4 DEF ReplacedTokensRunOut
<1>s. \A s \in Requests : Signer(s)'
    BY <1>3 DEF Inv, Signer, SignedInAs
<1> QED BY <1>5, <1>6, <1>s, <1>7, <1>9, <1>10, <1>11, <1>12 DEF Inv

LEMMA ExpireCurrentKeeps == ASSUME Inv, NEW u \in Users, ExpireCurrent(u) PROVE Inv'
<1>1. /\ current[u] # None /\ token[current[u]] = "none"
      /\ current' = [current EXCEPT ![u] = None]
      /\ UNCHANGED <<keyVars, table, token, request, faults, history>>
    BY DEF ExpireCurrent
<1>2. /\ Owned /\ Noticed /\ Replaces /\ CurrentTokenLives /\ ReplacedTokensRunOut
      /\ current \in [Users -> Requests \cup {None}]
      /\ \A s \in Requests : pc[s] \in Rotating => actor[s] \in Users
    BY Rotation
<1>3. /\ UNCHANGED <<file, users, missing, kind, pc, actor, given, old, signedWith>>
      /\ UNCHANGED <<token, overlapped, expired, disturbed>>
      /\ Ever' = Ever
    BY <1>1 DEF keyVars, table, Ever, request, history
<1>4. /\ current' \in [Users -> Requests \cup {None}] /\ current'[u] = None
      /\ \A v \in Users \ {u} : current'[v] = current[v]
    BY <1>1, <1>2
<1>5. TypeOK'
  <2>1. TypeOK
    BY DEF Inv
  <2>2. KeysTypeOK'
    BY <1>1, <2>1 DEF TypeOK, KeysTypeOK, keyVars
  <2> QED BY <1>1, <1>3, <1>4, <2>1, <2>2 DEF TypeOK
<1>6. \A s \in Requests : KnownUser(s)' /\ KnownGiven(s)'
  <2>1. ASSUME NEW s \in Requests PROVE KnownUser(s)' /\ KnownGiven(s)'
    <3>1. KnownUser(s) /\ KnownGiven(s) /\ given[s] \in Requests \cup {None}
      BY DEF Inv, TypeOK
    <3> QED BY <1>3, <3>1, KnownStays
  <2> QED BY <2>1
<1>7. Kept' /\ Signed'
    BY <1>1, <1>3, KeysStay
<1>8. Owned' /\ Noticed'
  <2>1. Owned'
    BY <1>2, <1>3, <1>4 DEF Owned
  <2> QED BY <1>2, <1>3, <2>1 DEF Noticed
<1>9. Replaces'
  <2>1. \A v \in Users : Lasting(v)' => Lasting(v) /\ current'[v] = current[v]
    BY <1>3, <1>4 DEF Lasting
  <2>2. ASSUME NEW s \in Requests, pc[s] = "setOld", Lasting(actor[s])'
        PROVE  old[s] = current'[actor[s]]
    BY <1>2, <1>3, <2>1, <2>2 DEF Replaces, Rotating
  <2>3. ASSUME NEW s \in Requests, pc[s] = "setCurrent" PROVE ~Lasting(actor[s])'
    BY <1>2, <1>3, <2>1, <2>3 DEF Replaces, Rotating
  <2> QED BY <1>3, <2>2, <2>3 DEF Replaces
<1>10. CurrentTokenLives'
    BY <1>2, <1>3, <1>4 DEF CurrentTokenLives
<1>11. ReplacedTokensRunOut'
  <2>1. ASSUME NEW t \in Requests, pc[t] = "answered", token[t] = "long",
               current'[actor[t]] # t
        PROVE  t \in overlapped \/ actor[t] \in disturbed
    <3>1. actor[t] \in Users
      BY <2>1 DEF Inv, TypeOK, KnownUser, Holding, Ever
    <3>2. current[actor[t]] # t
      BY <1>1, <1>4, <2>1, <3>1
    <3> QED BY <1>2, <2>1, <3>2 DEF ReplacedTokensRunOut
  <2> QED BY <1>3, <2>1 DEF ReplacedTokensRunOut
<1>s. \A s \in Requests : Signer(s)'
    BY <1>3 DEF Inv, Signer, SignedInAs
<1> QED BY <1>5, <1>6, <1>s, <1>7, <1>8, <1>9, <1>10, <1>11 DEF Inv

-------------------------------------------------------------------------------
\* A call rejects before the rotation.
LEMMA QuietFaultKeeps ==
    ASSUME Inv, NEW r \in Requests, CallFault(r), pc[r] \notin Rotating PROVE Inv'
<1>1. PICK l \in {"failed", "empty"} :
          /\ pc' = [pc EXCEPT ![r] = l]
          /\ pc[r] \in {"getToken", "findUser", "recheck", "insert", "setToken"}
          /\ l = "empty" => pc[r] = "setToken"
    BY DEF CallFault, Goto, Rotating
<1>2. /\ TypeOK /\ KnownUser(r) /\ Kept /\ Signed
      /\ UNCHANGED <<keyVars, table, cache, kind, actor, given, old, signedWith, overlapped, expired>>
      /\ faults < MaxFaults /\ faults' = faults + 1
      /\ disturbed' = Interrupted({r})
    BY DEF CallFault, Inv
<1>3. disturbed' = disturbed
    BY <1>2 DEF Interrupted
<1>4. pc'[r] = l /\ \A s \in Requests \ {r} : pc'[s] = pc[s]
    BY <1>1, <1>2 DEF TypeOK
<1>5. TypeOK'
  <2>1. pc' \in [Requests -> {"idle"} \cup InFlight \cup Ended]
    BY <1>1, <1>2 DEF TypeOK, Ended
  <2>2. faults' \in 0 .. MaxFaults
    BY <1>2, BoundsAreNat DEF TypeOK
  <2>3. KeysTypeOK'
    BY <1>2 DEF TypeOK, KeysTypeOK, keyVars
  <2> QED BY <1>2, <1>3, <2>1, <2>2, <2>3 DEF TypeOK, table, cache
<1>6. Kept' /\ Signed'
    BY <1>2, KeysStay
<1>t. Ever' = Ever /\ missing' = missing
    BY <1>2 DEF table, Ever
<1>7. KnownUser(r)'
    BY <1>1, <1>2, <1>4, <1>t DEF KnownUser, Holding, Rotating
<1>8. KnownGiven(r)'
    BY <1>1, <1>2, <1>4, GivenStays DEF InFlight
<1>9. pc[r] \notin Rotating \cup {"answered", "empty"} /\ pc'[r] \notin Rotating \cup {"answered"}
    BY <1>1, <1>4 DEF Rotating
<1>10. UNCHANGED history
    BY <1>2, <1>3 DEF history
<1>11. Signer(r)'
    BY <1>1, <1>2, <1>4 DEF Inv, Signer, SignedInAs, Holding, Rotating
<1> QED BY <1>2, <1>4, <1>5, <1>6, <1>7, <1>8, <1>9, <1>10, <1>11, <1>t, QuietStep

\* A call of a rotation rejects, which goes on or is over.
LEMMA RotationFaultKeeps ==
    ASSUME Inv, NEW r \in Requests, CallFault(r), pc[r] \in Rotating PROVE Inv'
<1> DEFINE u == actor[r]
<1>1. PICK l \in {"setCurrent", "empty"} :
          pc' = [pc EXCEPT ![r] = l] /\ (l = "empty" => pc[r] = "setCurrent")
    BY DEF CallFault, Goto, Rotating
<1>2. /\ TypeOK /\ KnownUser(r)
      /\ UNCHANGED <<keyVars, table, cache, kind, actor, given, old, signedWith, overlapped, expired>>
      /\ faults < MaxFaults /\ faults' = faults + 1
      /\ disturbed' = Interrupted({r})
    BY DEF CallFault, Inv
<1>3. /\ Owned /\ Noticed /\ Replaces /\ CurrentTokenLives /\ ReplacedTokensRunOut
      /\ current \in [Users -> Requests \cup {None}]
      /\ old \in [Requests -> Requests \cup {None}]
      /\ \A s \in Requests : pc[s] \in Rotating => actor[s] \in Users
      /\ u \in Users
    BY Rotation
<1>4. disturbed' = disturbed \cup {u}
    BY <1>2 DEF Interrupted
<1>5. pc'[r] = l /\ \A s \in Requests \ {r} : pc'[s] = pc[s]
    BY <1>1, <1>2 DEF TypeOK
<1>6. TypeOK'
  <2>1. pc' \in [Requests -> {"idle"} \cup InFlight \cup Ended]
    BY <1>1, <1>2 DEF TypeOK, InFlight, Rotating, Ended
  <2>2. faults' \in 0 .. MaxFaults
    BY <1>2, BoundsAreNat DEF TypeOK
  <2>3. KeysTypeOK'
    BY <1>2 DEF TypeOK, KeysTypeOK, keyVars
  <2>4. disturbed' \subseteq Users
    BY <1>2, <1>3, <1>4 DEF TypeOK
  <2> QED BY <1>2, <2>1, <2>2, <2>3, <2>4 DEF TypeOK, table, cache
<1>7. Kept' /\ Signed'
    BY <1>2, KeysStay
<1>8. UNCHANGED <<token, current, file, missing>> /\ Ever' = Ever
    BY <1>2 DEF cache, keyVars, table, Ever
<1>9. pc[r] \notin {"answered", "empty"} /\ pc[r] \in InFlight
    BY DEF Rotating, InFlight
<1>10. \A s \in Requests : KnownUser(s)' /\ KnownGiven(s)'
  <2>1. KnownUser(r)'
    BY <1>1, <1>2, <1>5, <1>8 DEF KnownUser, Holding, Rotating
  <2>2. KnownGiven(r)'
    BY <1>1, <1>2, <1>5, <1>9, GivenStays
  <2> QED BY <1>2, <1>5, <1>8, <1>9, <2>1, <2>2, OneRequestMoves
<1>s. \A s \in Requests : Signer(s)'
  <2>1. Signer(r)'
    BY <1>1, <1>2, <1>5 DEF Inv, Signer, SignedInAs, Holding, Rotating
  <2> QED BY <1>2, <1>5, <2>1, OneSignerMoves
<1>11. \A s \in Requests : pc'[s] \in Rotating => pc[s] \in Rotating
    BY <1>5
<1>12. \A s \in Requests : pc'[s] = "answered" <=> pc[s] = "answered"
    BY <1>1, <1>5, <1>9
<1>13. Owned'
  <2>1. ASSUME NEW v \in Users, current[v] # None
        PROVE  pc'[current[v]] = "answered" /\ actor[current[v]] = v
    BY <1>3, <1>12, <2>1 DEF Owned
  <2>2. ASSUME NEW s \in Requests, pc'[s] = "setOld"
        PROVE  old[s] # None /\ pc'[old[s]] = "answered" /\ actor[old[s]] = actor[s]
    <3>1. pc[s] = "setOld"
      BY <1>1, <1>5, <2>2
    <3> QED BY <1>3, <1>12, <3>1 DEF Owned
  <2>3. \A s \in Requests : pc'[s] \in Rotating => token[s] # "short"
    BY <1>3, <1>11 DEF Owned
  <2> QED BY <1>2, <1>8, <2>1, <2>2, <2>3 DEF Owned
<1>14. Noticed'
    BY <1>2, <1>3, <1>11 DEF Noticed
<1>15. Replaces'
  <2>1. \A v \in Users : Lasting(v)' => Lasting(v) /\ v # u
    BY <1>2, <1>4, <1>8 DEF Lasting
  <2>2. ASSUME NEW s \in Requests, pc'[s] = "setOld", Lasting(actor[s])'
        PROVE  old[s] = current[actor[s]]
    <3>1. pc[s] = "setOld" /\ actor[s] \in Users
      BY <1>1, <1>3, <1>5, <2>2 DEF Rotating
    <3> QED BY <1>2, <1>3, <2>1, <2>2, <3>1 DEF Replaces
  <2>3. ASSUME NEW s \in Requests, pc'[s] = "setCurrent" PROVE ~Lasting(actor[s])'
    <3>1. actor[s] \in Users
      BY <1>3, <1>11, <2>3 DEF Rotating
    <3>2. CASE s = r
      BY <1>2, <2>1, <3>1, <3>2
    <3>3. CASE s # r
      BY <1>2, <1>3, <1>5, <2>1, <2>3, <3>1, <3>3 DEF Replaces
    <3> QED BY <3>2, <3>3
  <2> QED BY <1>2, <1>8, <2>2, <2>3 DEF Replaces
<1>16. CurrentTokenLives'
  <2>1. ASSUME NEW v \in Users \ disturbed', current[v] # None, token[current[v]] = "short"
        PROVE  \E s \in Requests : pc'[s] = "setCurrent" /\ actor[s] = v /\ old[s] = current[v]
    <3>1. v \in Users \ disturbed /\ v # u
      BY <1>4, <2>1
    <3>2. PICK s \in Requests : pc[s] = "setCurrent" /\ actor[s] = v /\ old[s] = current[v]
      BY <1>3, <2>1, <3>1 DEF CurrentTokenLives
    <3> QED BY <1>5, <3>1, <3>2
  <2> QED BY <1>2, <1>8, <2>1 DEF CurrentTokenLives
<1>17. ReplacedTokensRunOut'
  <2>1. disturbed \subseteq disturbed'
    BY <1>4
  <2> QED BY <1>2, <1>3, <1>8, <1>12, <2>1 DEF ReplacedTokensRunOut
<1> QED BY <1>6, <1>7, <1>10, <1>s, <1>13, <1>14, <1>15, <1>16, <1>17 DEF Inv

-------------------------------------------------------------------------------
\* The server stops; the key, what was answered and what a script does stay.
LEMMA RestartKeeps == ASSUME Inv, Restart PROVE Inv'
<1>1. /\ TypeOK /\ Signed
      /\ stage' = [i \in Instances |-> IF i \in Scripts THEN stage[i] ELSE "down"]
      /\ kept' = file /\ file' = file
      /\ pc' = [r \in Requests |-> IF r \in Stopped THEN "failed" ELSE pc[r]]
      /\ faults < MaxFaults /\ faults' = faults + 1
      /\ disturbed' = Interrupted(Stopped)
      /\ UNCHANGED <<table, cache, kind, actor, given, old, signedWith, overlapped, expired>>
    BY DEF Restart, StopInstances, Inv
<1>2. /\ Owned /\ Noticed /\ Replaces /\ CurrentTokenLives /\ ReplacedTokensRunOut
      /\ current \in [Users -> Requests \cup {None}]
      /\ \A s \in Requests : pc[s] \in Rotating => actor[s] \in Users
    BY Rotation
<1>3. \A r \in Requests : pc'[r] = pc[r] \/ (pc[r] \in InFlight /\ pc'[r] = "failed")
    BY <1>1 DEF Stopped
<1>4. InFlight \cap {"answered", "empty"} = {} /\ Rotating \subseteq InFlight /\ "failed" \notin InFlight
    BY DEF InFlight, Rotating
<1>5. \A r \in Requests :
          pc'[r] \in InFlight => pc'[r] = pc[r] /\ kind[r] = "SCRIPT"
    BY <1>1, <1>4 DEF Stopped
<1>6. /\ disturbed \subseteq disturbed'
      /\ \A r \in Requests :
            pc[r] \in Rotating => actor[r] \in disturbed' \/ pc'[r] = pc[r]
    BY <1>1, <1>4 DEF Interrupted, Stopped
<1>7. UNCHANGED <<token, current, users, missing>> /\ Ever' = Ever
    BY <1>1 DEF cache, table, Ever
<1>8. TypeOK'
  <2>1. pc' \in [Requests -> {"idle"} \cup InFlight \cup Ended]
    BY <1>1 DEF TypeOK, Ended
  <2>2. faults' \in 0 .. MaxFaults
    BY <1>1, BoundsAreNat DEF TypeOK
  <2>3. KeysTypeOK'
    BY <1>1 DEF TypeOK, KeysTypeOK
  <2>4. disturbed' \subseteq Users
    BY <1>1, <1>2 DEF TypeOK, Interrupted, Stopped
  <2> QED BY <1>1, <1>7, <2>1, <2>2, <2>3, <2>4 DEF TypeOK
<1>9. Kept' /\ Signed'
    BY <1>1 DEF Kept, Signed, TypeOK, KeysTypeOK
<1>10. ASSUME NEW r \in Requests PROVE KnownUser(r)' /\ KnownGiven(r)'
  <2>1. KnownUser(r) /\ KnownGiven(r) /\ given[r] \in Requests \cup {None}
    BY DEF Inv, TypeOK
  <2>2. \A t \in Requests : pc[t] \in {"answered", "empty"} =>
            pc'[t] = pc[t] /\ actor'[t] = actor[t] /\ signedWith'[t] = signedWith[t]
    BY <1>1, <1>3, <1>4
  <2>3. CASE pc'[r] = pc[r]
    BY <1>1, <1>7, <2>1, <2>2, <2>3, KnownStays
  <2>4. CASE pc[r] \in InFlight /\ pc'[r] = "failed"
    <3>1. KnownUser(r)'
      BY <2>4 DEF KnownUser, Holding, Rotating
    <3>2. KnownGiven(r)'
      <4>1. kind[r] = "REFRESH" /\ given[r] # None => pc'[given[r]] = "answered"
        BY <2>1, <2>2 DEF KnownGiven
      <4>2. kind[r] \in HandlerRoutes /\ given[r] # None =>
                pc'[given[r]] \in {"answered", "empty"}
        BY <2>1, <2>2 DEF KnownGiven
      <4> QED BY <1>1, <2>4, <4>1, <4>2 DEF KnownGiven
    <3> QED BY <3>1, <3>2
  <2> QED BY <1>3, <2>3, <2>4
<1>s. \A r \in Requests : Signer(r)'
    BY <1>1, <1>3, <1>4 DEF Inv, Signer, SignedInAs, Holding
<1>11. \A r \in Requests : pc'[r] \in Rotating => pc'[r] = pc[r]
    BY <1>4, <1>5
<1>12. \A r \in Requests : pc'[r] = "answered" <=> pc[r] = "answered"
    BY <1>3, <1>4
<1>r. {"setOld", "setCurrent"} \subseteq Rotating
    BY DEF Rotating
<1>13. Owned'
  <2>1. \A v \in Users : current[v] # None =>
            pc'[current[v]] = "answered" /\ actor[current[v]] = v
    BY <1>2, <1>12 DEF Owned
  <2>2. ASSUME NEW r \in Requests, pc'[r] = "setOld"
        PROVE  old[r] # None /\ pc'[old[r]] = "answered" /\ actor[old[r]] = actor[r]
    <3>1. pc[r] = "setOld" /\ old[r] \in Requests \cup {None}
      BY <1>1, <1>11, <1>r, <2>2 DEF TypeOK
    <3> QED BY <1>2, <1>12, <3>1 DEF Owned
  <2>3. \A r \in Requests : pc'[r] \in Rotating => token[r] # "short"
    BY <1>2, <1>11 DEF Owned
  <2> QED BY <1>1, <1>7, <2>1, <2>2, <2>3 DEF Owned
<1>14. Noticed' /\ Replaces'
  <2>1. Noticed'
    BY <1>1, <1>2, <1>11 DEF Noticed
  <2>2. \A v \in Users : Lasting(v)' => Lasting(v)
    BY <1>1, <1>6, <1>7 DEF Lasting
  <2>3. ASSUME NEW r \in Requests, pc'[r] = "setOld", Lasting(actor[r])'
        PROVE  old[r] = current[actor[r]]
    BY <1>1, <1>2, <1>11, <1>r, <2>2, <2>3 DEF Replaces
  <2>4. ASSUME NEW r \in Requests, pc'[r] = "setCurrent" PROVE ~Lasting(actor[r])'
    BY <1>1, <1>2, <1>11, <1>r, <2>2, <2>4 DEF Replaces
  <2> QED BY <1>1, <1>7, <2>1, <2>3, <2>4 DEF Replaces
<1>15. CurrentTokenLives'
  <2>1. ASSUME NEW v \in Users \ disturbed', current[v] # None, token[current[v]] = "short"
        PROVE  \E s \in Requests : pc'[s] = "setCurrent" /\ actor[s] = v /\ old[s] = current[v]
    <3>1. PICK s \in Requests : pc[s] = "setCurrent" /\ actor[s] = v /\ old[s] = current[v]
      BY <1>2, <1>6, <2>1 DEF CurrentTokenLives
    <3> QED BY <1>6, <1>r, <2>1, <3>1
  <2> QED BY <1>1, <1>7, <2>1 DEF CurrentTokenLives
<1>16. ReplacedTokensRunOut'
    BY <1>1, <1>2, <1>6, <1>7, <1>12 DEF ReplacedTokensRunOut
<1> QED BY <1>8, <1>9, <1>10, <1>s, <1>13, <1>14, <1>15, <1>16 DEF Inv

\* An instance starts, or writes the key that it has generated.
LEMMA KeysNextKeeps == ASSUME Inv, KeysNext PROVE Inv'
<1>1. PICK i \in Instances : Boot(i) \/ WriteKey(i)
    BY DEF KeysNext
<1>2. /\ TypeOK /\ Kept /\ Signed
      /\ UNCHANGED <<users, missing, token, current, kind, pc, actor, given, old,
                     signedWith, faults, overlapped, expired, disturbed>>
    BY DEF KeysNext, Inv, table, cache, request, history
<1>3. /\ file \in Instances \cup {None} /\ kept \in Instances \cup {None}
      /\ stage \in [Instances -> {"down", "generating", "ready"}]
      /\ signedWith \in [Requests -> Instances \cup {None}]
    BY <1>2 DEF TypeOK, KeysTypeOK
<1>4. \/ /\ file' = file /\ kept' = kept
         /\ stage' = [stage EXCEPT ![i] = IF file = None THEN "generating" ELSE "ready"]
      \/ /\ file' = i /\ kept' = kept /\ stage[i] = "generating"
         /\ stage' = [stage EXCEPT ![i] = "ready"]
    BY <1>1 DEF Boot, WriteKey
<1>5. TypeOK'
  <2>1. KeysTypeOK'
    BY <1>3, <1>4 DEF KeysTypeOK
  <2> QED BY <1>2, <2>1 DEF TypeOK
<1>6. Kept'
  <2>1. CASE kept = None
    BY <1>4, <2>1 DEF Kept
  <2>2. CASE kept # None
    <3>1. /\ file # None /\ (file = kept \/ file \in Scripts)
          /\ \A j \in Instances \ Scripts : stage[j] # "generating"
      BY <1>2, <2>2 DEF Kept
    <3>2. CASE file' = file /\ stage' = [stage EXCEPT ![i] = IF file = None THEN "generating" ELSE "ready"]
      BY <1>3, <1>4, <2>2, <3>1, <3>2 DEF Kept
    <3>3. CASE file' = i /\ stage[i] = "generating" /\ stage' = [stage EXCEPT ![i] = "ready"]
      <4>1. i \in Scripts /\ i # None
        BY <1>3, <3>1, <3>3, NoneIsNoInstance
      <4> QED BY <1>3, <1>4, <3>1, <3>3, <4>1 DEF Kept
    <3> QED BY <1>4, <3>2, <3>3
  <2> QED BY <2>1, <2>2
<1>7. Signed'
  <2>1. ASSUME file # None PROVE \A j \in Instances : stage'[j] = "generating" => stage[j] = "generating"
    BY <1>3, <1>4, <2>1
  <2>2. CASE file' = file
    <3>1. file # None => stage'[file] # "generating"
      BY <1>2, <1>3, <2>1 DEF Signed
    <3>2. ASSUME NEW r \in Requests, signedWith[r] # None
          PROVE  file # None /\ stage'[signedWith[r]] # "generating"
      BY <1>2, <1>3, <2>1, <3>2 DEF Signed
    <3> QED BY <1>2, <2>2, <3>1, <3>2 DEF Signed
  <2>3. CASE file' = i /\ stage' = [stage EXCEPT ![i] = "ready"]
    <3>1. i # None /\ stage'[i] # "generating"
      BY <1>3, <2>3, NoneIsNoInstance
    <3>2. ASSUME NEW r \in Requests, signedWith[r] # None
          PROVE  stage'[signedWith[r]] # "generating"
      BY <1>2, <1>3, <2>3, <3>2 DEF Signed
    <3> QED BY <1>2, <2>3, <3>1, <3>2 DEF Signed
  <2> QED BY <1>4, <2>2, <2>3
<1>8. ASSUME NEW r \in Requests PROVE KnownUser(r)' /\ KnownGiven(r)'
  <2>1. KnownUser(r) /\ KnownGiven(r) /\ given[r] \in Requests \cup {None}
    BY DEF Inv, TypeOK
  <2>2. KnownUser(r)'
    BY <1>2, <2>1 DEF KnownUser, Ever
  <2>3. ASSUME NEW g \in Requests, signedWith[g] # file PROVE signedWith[g] # file'
    <3>1. signedWith[g] # None => stage[signedWith[g]] # "generating"
      BY <1>2 DEF Signed
    <3> QED BY <1>4, <2>3, <3>1, NoneIsNoInstance
  <2>4. KnownGiven(r)'
    BY <1>2, <2>1, <2>3 DEF KnownGiven
  <2> QED BY <2>2, <2>4
<1>9. Owned' /\ Noticed' /\ Replaces' /\ CurrentTokenLives' /\ ReplacedTokensRunOut'
    BY <1>2, RotationsStay DEF cache
<1>10. \A r \in Requests : Signer(r)'
    BY <1>2 DEF Inv, Signer, SignedInAs
<1> QED BY <1>5, <1>6, <1>7, <1>8, <1>9, <1>10 DEF Inv

LEMMA StutterKeeps == ASSUME Inv, UNCHANGED vars PROVE Inv'
<1>1. /\ UNCHANGED <<keyVars, table, cache, request, faults, history>>
      /\ UNCHANGED <<file, stage, kept>>
      /\ UNCHANGED <<users, missing, token, current, kind, pc, actor, given, old,
                     signedWith, faults, overlapped, expired, disturbed>>
    BY DEF vars, keyVars, table, cache, request, history
<1>2. TypeOK'
    BY <1>1 DEF Inv, TypeOK, KeysTypeOK
<1>3. Kept' /\ Signed'
    BY <1>1, KeysStay
<1>4. \A r \in Requests : KnownUser(r)' /\ KnownGiven(r)' /\ Signer(r)'
    BY <1>1 DEF Inv, KnownUser, KnownGiven, Ever, Signer, SignedInAs
<1>5. Owned' /\ Noticed' /\ Replaces' /\ CurrentTokenLives' /\ ReplacedTokensRunOut'
    BY <1>1, RotationsStay
<1> QED BY <1>2, <1>3, <1>4, <1>5 DEF Inv

-------------------------------------------------------------------------------
LEMMA BeginKeeps == ASSUME Inv, NEW r \in Requests, Begin(r) PROVE Inv'
    BY SignInKeeps, AdminSignInKeeps, RefreshTokenKeeps, CallKeeps DEF Begin

LEMMA StepKeeps == ASSUME Inv, NEW r \in Requests, Step(r) PROVE Inv'
    BY GetTokenKeeps, FindUserKeeps, RecheckUserKeeps, InsertUserKeeps, SignKeeps,
       SetTokenKeeps, GetCurrentKeeps, SetOldKeeps, SetCurrentKeeps DEF Step

LEMMA NextKeeps == Inv /\ [Next]_vars => Inv'
<1> SUFFICES ASSUME Inv, [Next]_vars PROVE Inv'
    OBVIOUS
<1>1. ASSUME NEW r \in Requests, Begin(r) \/ Step(r) \/ CallFault(r) PROVE Inv'
    BY <1>1, BeginKeeps, StepKeeps, QuietFaultKeeps, RotationFaultKeeps
<1>2. CASE UNCHANGED vars
    BY <1>2, StutterKeeps
<1>3. CASE Next
    BY <1>1, <1>3, KeysNextKeeps, ExpireTokenKeeps, ExpireCurrentKeeps, RestartKeeps DEF Next
<1> QED BY <1>2, <1>3

LEMMA InvHolds == Spec => []Inv
    BY InitInv, NextKeeps, PTL DEF Spec

-------------------------------------------------------------------------------
\* The variables keep their types, the key file and the instances among them.
THEOREM TypesHold == Spec => []TypeOK
<1>1. Inv => TypeOK
    BY DEF Inv
<1> QED BY <1>1, InvHolds, PTL

\* generateNewRefreshToken and deleteRefreshToken, in any number and order of
\* requests of a user: the token that the user's entry names has its whole life,
\* unless the request that replaces it is about to write its own there.
THEOREM CurrentLives == Spec => []CurrentTokenLives
<1>1. Inv => CurrentTokenLives
    BY DEF Inv
<1> QED BY <1>1, InvHolds, PTL

\* A rotation that neither overlapped another nor was interrupted leaves no token
\* with the whole life behind.
THEOREM ReplacedRunOut == Spec => []ReplacedTokensRunOut
<1>1. Inv => ReplacedTokensRunOut
    BY DEF Inv
<1> QED BY <1>1, InvHolds, PTL

\* getUserIdFromRefreshToken and findUserById send nobody away with a token that
\* has not run out, unless the row that the table had for its user is gone, or it
\* is a script's token for an id that had none.
THEOREM RefusedExpired == Spec => []RefusedOnlyWhenExpired
<1>1. Inv => RefusedOnlyWhenExpired
    BY DEF Inv, KnownGiven, RefusedOnlyWhenExpired
<1> QED BY <1>1, InvHolds, PTL

\* verifyUser lets a client in with every id token of a sign-in or a refresh that
\* was signed with the key in the file.
THEOREM IdTokensAccepted == Spec => []IdTokenAccepted
<1>1. Inv => IdTokenAccepted
    BY DEF Inv, KnownGiven, IdTokenAccepted
<1> QED BY <1>1, InvHolds, PTL

\* request.user is there in every handler that reads it, and it is somebody who
\* has signed in or for whom the script was called, after any number of refreshes
\* and whatever became of the row since: nobody is named that no sign-in named.
THEOREM HandlersKnowTheirUser == Spec => []HandlersHaveTheirUser
<1>1. Inv => HandlersHaveTheirUser
  <2> SUFFICES ASSUME Inv, NEW r \in Requests, pc[r] = "served"
               PROVE  given[r] # None /\ SignedInAs(actor[given[r]])
    BY DEF HandlersHaveTheirUser
  <2>1. /\ given[r] \in Requests /\ given[r] # None
        /\ pc[given[r]] \in {"answered", "empty"}
    BY DEF Inv, TypeOK, KnownGiven
  <2> QED BY <2>1 DEF Inv, Signer, Holding
<1> QED BY <1>1, InvHolds, PTL

\* onModuleInit generates no key where there was one when the server stopped,
\* whatever the instances of JsonWebTokenService and the order they start in: a
\* key that is not the one from before is that of a script, which had begun to
\* generate it when there was none.
THEOREM KeySurvives == Spec => []KeySurvivesRestart
<1>1. Inv => KeySurvivesRestart
    BY DEF Inv, Kept, KeySurvivesRestart
<1> QED BY <1>1, InvHolds, PTL
===============================================================================

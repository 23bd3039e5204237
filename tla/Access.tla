-------------------------------- MODULE Access --------------------------------
(***************************************************************************)
(* Which requests reach a handler: the middleware that AppModule applies   *)
(* to routes (VerifiedUser, VerifiedAdminUser), the RolesGuard behind it,  *)
(* and what an id token says of its owner.                                 *)
(***************************************************************************)
\* The routes of a controller, or those that the middleware tells apart.
SignInRoutes == {"auth/login", "auth/refresh-token"}
AdminSignInRoutes == {"admin/auth/login", "admin/auth/refresh-token"}
HandlerRoutes == {"users", "wallet", "admin/users"}
Routes == SignInRoutes \cup AdminSignInRoutes \cup HandlerRoutes

\* Faulty variants: the wallets are forgotten; the pattern of the admin routes
\* is * and not *admin*.
VerifiesUserNotWallet(route) == route = "users"
VerifiesAdminEverywhere(route) == route \notin AdminSignInRoutes \cup SignInRoutes

\* AppModule.configure: the controllers, less the excluded paths.
VerifiesUser(route) == route \in (SignInRoutes \cup {"users", "wallet"}) \ SignInRoutes
VerifiesAdmin(route) == route \in (AdminSignInRoutes \cup {"admin/users"}) \ AdminSignInRoutes

\* @Roles of UserAdminController.
RequiredRoles(route) == IF route = "admin/users" THEN {"STAFF"} ELSE {}

-------------------------------------------------------------------------------
\* The fields an entity has, of those that matter here.  UserEntity.fromModel: the
\* table has no columns for what makes an administrator.
FromModel == {"id", "status", "password"}

\* AuthUserEntity.fromUserEntity copies no password, and would copy no more.
FromUserEntity == FromModel \ {"password"}

IsAdministrator == "isAdmin" \in FromUserEntity
RoleOf == IF "role" \in FromUserEntity THEN {"STAFF"} ELSE {}

\* What request.user is made of: nothing without a token that verifies.
NoClaims == [verified |-> FALSE, isAdmin |-> FALSE, role |-> {}]

\* The payload of generateJWTToken, adminSignIn and refreshToken.
LoginClaims == [verified |-> TRUE, isAdmin |-> FALSE, role |-> {}]
AdminClaims == [verified |-> TRUE, isAdmin |-> TRUE, role |-> RoleOf]
RefreshClaims ==
    [verified |-> TRUE, isAdmin |-> IsAdministrator,
     role |-> IF IsAdministrator THEN RoleOf ELSE {}]

\* VerifiedUser throws an UnauthorizedException without a token that verifies, and
\* VerifiedAdminUser without one of an administrator.
NotVerified(route, claims) == VerifiesUser(route) /\ ~claims.verified
NotAdmin(route, claims) == VerifiesAdmin(route) /\ ~(claims.verified /\ claims.isAdmin)
Unauthorized(route, claims) == NotVerified(route, claims) \/ NotAdmin(route, claims)

\* RolesGuard, which sees request.user only behind a middleware.
Forbidden(route, claims) ==
    /\ RequiredRoles(route) # {}
    /\ \/ ~(VerifiesUser(route) \/ VerifiesAdmin(route))
       \/ claims.role \cap (RequiredRoles(route) \cup {"ADMIN"}) = {}

Admitted(route, claims) == ~Unauthorized(route, claims) /\ ~Forbidden(route, claims)

\* How a request ends before its handler, or that it gets there.
Answer(route, claims) ==
    CASE Unauthorized(route, claims) -> "rejected"
      [] ~Unauthorized(route, claims) /\ Forbidden(route, claims) -> "forbidden"
      [] Admitted(route, claims) -> "served"
===============================================================================

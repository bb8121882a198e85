------------------------------ MODULE Accounts ------------------------------
(***************************************************************************)
(* Accounts, profiles, sessions and roles.                                 *)
(*                                                                         *)
(* An account has one role, a profile per role it ever took, and a session *)
(* cookie in every browser it signed in from.  The cookie is a signed      *)
(* token that carries the role of the moment it was issued; the API's role *)
(* gate reads the token, never the account (middleware/auth.ts).  A        *)
(* handler is split at each database round trip: what it read is kept in   *)
(* req[b].seen until the step that uses it.                                *)
(***************************************************************************)
CONSTANTS Users,        \* people, each with one e-mail address
          Browsers,     \* each holds one cookie and one request in flight
          Uses(_),      \* the people who sign in from a browser
          SeedRoles(_)  \* the roles the seed may have given a person's account,
                        \* "none" standing for no account yet

ASSUME UsesAreUsers   == \A b \in Browsers : Uses(b) \subseteq Users

VARIABLES account,      \* the User row of each e-mail address, or NoAccount
          profiles,     \* the profile rows of each user, by role
          cookie,       \* the session cookie of each browser, or NoCookie
          req,          \* the request each browser waits for, or Idle
          adminEmails   \* config.adminEmails, read when the server starts

accountVars == <<account, profiles, cookie, req, adminEmails>>

SelfSelectable == {"ATHLETE", "SPONSOR"}
ProfileRoles   == SelfSelectable \union {"SUPPLIER"}
Roles          == ProfileRoles \union {"COORDINATOR", "ADMIN"}
MaybeRole      == Roles \union {"none"}

NoAccount == [role |-> "none", password |-> FALSE, google |-> FALSE,
              active |-> FALSE, exists |-> FALSE]
Accounts  == [role: MaybeRole, password: BOOLEAN, google: BOOLEAN,
              active: BOOLEAN, exists: BOOLEAN]
Claims    == [user: Users, role: MaybeRole]
NoCookie  == [user |-> "nobody", role |-> "none"]
Idle      == [op |-> "idle", user |-> "nobody", role |-> "none", seen |-> "none"]
Ops       == {"register", "login", "google-found", "google-new", "google-row",
              "role", "supplier", "appoint"}
Requests  == [op: Ops, user: Users, role: MaybeRole, seen: MaybeRole]

TypeOK ==
  /\ account \in [Users -> Accounts]
  /\ profiles \in [Users -> SUBSET Roles]
  /\ cookie \in [Browsers -> Claims \union {NoCookie}]
  /\ req \in [Browsers -> Requests \union {Idle}]
  /\ adminEmails \subseteq Users

(***************************************************************************)
(* Accounts the seed creates before anyone signs in.  Nothing in the       *)
(* program writes isActive, so a disabled account starts disabled.         *)
(***************************************************************************)
Seeded == [role: Roles \ {"SUPPLIER"}, password: {FALSE}, google: {FALSE},
           active: BOOLEAN, exists: {TRUE}]

Init ==
  /\ account \in [Users -> Seeded \union {NoAccount}]
  /\ \A u \in Users : account[u].role \in SeedRoles(u)
  /\ profiles = [u \in Users |-> {account[u].role} \ {"ADMIN", "none"}]
  /\ cookie = [b \in Browsers |-> NoCookie]
  /\ req = [b \in Browsers |-> Idle]
  /\ adminEmails \in SUBSET Users

-----------------------------------------------------------------------------
(* The request in flight, and the session.                                 *)

Wait(b, op, u, r, seen) ==
  req' = [req EXCEPT ![b] = [op |-> op, user |-> u, role |-> r, seen |-> seen]]

Begin(b, op, u, r, seen) == req[b] = Idle /\ Wait(b, op, u, r, seen)

Pending(b, op) == req[b].op = op

Done(b) == req' = [req EXCEPT ![b] = Idle]

SignUser(u, r) == [user |-> u]       \* seeded bug: the token leaves the role out
SignSession(u, r) == [user |-> u, role |-> r]

SetSessionCookie(b, u, r) == cookie' = [cookie EXCEPT ![b] = SignSession(u, r)]

RequireAuth(b) == cookie[b] # NoCookie

RequireRole(b, roles) == RequireAuth(b) /\ cookie[b].role \in roles

FirstRole(u) == IF u \in adminEmails THEN "ADMIN" ELSE "none"

NewAccount(r, password, google) ==
  [role |-> r, password |-> password, google |-> google,
   active |-> TRUE, exists |-> TRUE]

-----------------------------------------------------------------------------
(* E-mail and password.                                                    *)

RegisterCheck(b, u) ==
  /\ ~account[u].exists
  /\ Begin(b, "register", u, "none", "none")
  /\ UNCHANGED <<account, profiles, cookie>>

\* The password is hashed between the check and the insert; the e-mail
\* address is unique, so the insert fails when the account has appeared.
RegisterCreate(b) ==
  LET u == req[b].user IN
  /\ Pending(b, "register")
  /\ IF account[u].exists
     THEN UNCHANGED <<account, cookie>>
     ELSE /\ account' = [account EXCEPT ![u] = NewAccount(FirstRole(u), TRUE, FALSE)]
          /\ SetSessionCookie(b, u, FirstRole(u))
  /\ Done(b)
  /\ UNCHANGED profiles

LoginRead(b, u) ==
  /\ account[u].exists /\ account[u].password /\ account[u].active
  /\ Begin(b, "login", u, "none", account[u].role)
  /\ UNCHANGED <<account, profiles, cookie>>

\* The cookie carries the role read before scrypt ran.
LoginSign(b) ==
  /\ Pending(b, "login")
  /\ SetSessionCookie(b, req[b].user, req[b].seen)
  /\ Done(b)
  /\ UNCHANGED <<account, profiles>>

(* Google: find by subject, else by e-mail; link or create; promote an     *)
(* administrator's address; refuse a disabled account; sign.               *)

GoogleFind(b, u) ==
  /\ LET op == IF ~account[u].exists THEN "google-new"
               ELSE IF account[u].google THEN "google-row" ELSE "google-found"
     IN  Begin(b, op, u, "none", account[u].role)
  /\ UNCHANGED <<account, profiles, cookie>>

GoogleLink(b) ==
  LET u == req[b].user IN
  /\ Pending(b, "google-found")
  /\ account' = [account EXCEPT ![u].google = TRUE]
  /\ Wait(b, "google-row", u, "none", account[u].role)
  /\ UNCHANGED <<profiles, cookie>>

GoogleCreate(b) ==
  LET u == req[b].user IN
  /\ Pending(b, "google-new")
  /\ IF account[u].exists
     THEN Done(b) /\ UNCHANGED account
     ELSE /\ account' = [account EXCEPT ![u] = NewAccount(FirstRole(u), FALSE, TRUE)]
          /\ Wait(b, "google-row", u, "none", FirstRole(u))
  /\ UNCHANGED <<profiles, cookie>>

GooglePromote(b) ==
  LET u == req[b].user IN
  /\ Pending(b, "google-row")
  /\ u \in adminEmails /\ req[b].seen # "ADMIN"
  /\ account' = [account EXCEPT ![u].role = "ADMIN"]
  /\ Wait(b, "google-row", u, "none", "ADMIN")
  /\ UNCHANGED <<profiles, cookie>>

GoogleSign(b) ==
  LET u == req[b].user IN
  /\ Pending(b, "google-row")
  /\ u \in adminEmails => req[b].seen = "ADMIN"
  /\ IF account[u].active
     THEN SetSessionCookie(b, u, req[b].seen)
     ELSE UNCHANGED cookie
  /\ Done(b)
  /\ UNCHANGED <<account, profiles>>

-----------------------------------------------------------------------------
(* Taking a role.                                                          *)

RoleRead(b, r) ==
  LET u == cookie[b].user IN
  /\ RequireAuth(b)
  /\ account[u].role = "none"
  /\ Begin(b, "role", u, r, account[u].role)
  /\ UNCHANGED <<account, profiles, cookie>>

\* Seeded bug: the profile is left for later.
RoleWithoutProfile(b) ==
  LET u == req[b].user IN
  /\ Pending(b, "role")
  /\ account' = [account EXCEPT ![u].role = req[b].role]
  /\ SetSessionCookie(b, u, req[b].role)
  /\ Done(b)
  /\ UNCHANGED profiles

\* One transaction writes the role and creates the profile; the profile is
\* unique per user, so a second choice of the same role rolls back.
RoleCommit(b) ==
  LET u == req[b].user
      r == req[b].role
  IN
  /\ Pending(b, "role")
  /\ IF r \in profiles[u]
     THEN UNCHANGED <<account, profiles, cookie>>
     ELSE /\ account' = [account EXCEPT ![u].role = r]
          /\ profiles' = [profiles EXCEPT ![u] = @ \union {r}]
          /\ SetSessionCookie(b, u, r)
  /\ Done(b)

SupplierRead(b) ==
  LET u == cookie[b].user IN
  /\ RequireAuth(b)
  /\ "SUPPLIER" \notin profiles[u]
  /\ account[u].role \in {"none", "SUPPLIER"}
  /\ Begin(b, "supplier", u, "none", account[u].role)
  /\ UNCHANGED <<account, profiles, cookie>>

SupplierCommit(b) ==
  LET u == req[b].user IN
  /\ Pending(b, "supplier")
  /\ IF "SUPPLIER" \in profiles[u]
     THEN UNCHANGED <<account, profiles, cookie>>
     ELSE /\ IF req[b].seen = "none"
             THEN account' = [account EXCEPT ![u].role = "SUPPLIER"]
             ELSE UNCHANGED account
          /\ profiles' = [profiles EXCEPT ![u] = @ \union {"SUPPLIER"}]
          /\ SetSessionCookie(b, u, "SUPPLIER")
  /\ Done(b)

\* POST /admin/coordinators: the upsert overwrites whatever role the account
\* has before the handler looks for a coordinator profile.
AppointPromote(b, u) ==
  /\ RequireRole(b, {"ADMIN"})
  /\ Begin(b, "appoint", u, "COORDINATOR", "none")
  /\ account' = [account EXCEPT ![u] =
       IF account[u].exists THEN [account[u] EXCEPT !.role = "COORDINATOR"]
                            ELSE NewAccount("COORDINATOR", FALSE, FALSE)]
  /\ UNCHANGED <<profiles, cookie>>

\* An existing profile is answered ALREADY_COORDINATOR; the role stays written.
AppointProfile(b) ==
  /\ Pending(b, "appoint")
  /\ profiles' = [profiles EXCEPT ![req[b].user] = @ \union {"COORDINATOR"}]
  /\ Done(b)
  /\ UNCHANGED <<account, cookie>>

-----------------------------------------------------------------------------
(* The end of a session, and a handler that dies between two steps.        *)

Logout(b) ==
  /\ req[b] = Idle
  /\ RequireAuth(b)
  /\ cookie' = [cookie EXCEPT ![b] = NoCookie]
  /\ UNCHANGED <<account, profiles, req>>

\* Seven days after it was signed the token no longer verifies.
Expire(b) ==
  /\ RequireAuth(b)
  /\ cookie' = [cookie EXCEPT ![b] = NoCookie]
  /\ UNCHANGED <<account, profiles, req>>

Crash(b) ==
  /\ req[b] # Idle
  /\ Done(b)
  /\ UNCHANGED <<account, profiles, cookie>>

Sign(b) ==
  \/ \E u \in Uses(b) : RegisterCheck(b, u) \/ LoginRead(b, u) \/ GoogleFind(b, u)
  \/ RegisterCreate(b) \/ LoginSign(b)
  \/ GoogleLink(b) \/ GoogleCreate(b) \/ GooglePromote(b) \/ GoogleSign(b)

\* The chooser of /onboarding, the form of a supplier, the form of an admin.
RoleChooser(b)  == (\E r \in SelfSelectable : RoleRead(b, r)) \/ RoleCommit(b)
RegisterForm(b) == SupplierRead(b) \/ SupplierCommit(b)
AppointForm(b)  == (\E u \in Users : AppointPromote(b, u)) \/ AppointProfile(b)

TakeRole(b) == RoleChooser(b) \/ RegisterForm(b) \/ AppointForm(b)

AccountsNext ==
  /\ UNCHANGED adminEmails
  /\ \E b \in Browsers : Sign(b) \/ TakeRole(b) \/ Logout(b) \/ Expire(b) \/ Crash(b)

AccountsSpec == Init /\ [][AccountsNext]_accountVars

-----------------------------------------------------------------------------
(* Whoever holds a role as an athlete, a sponsor or a supplier has its     *)
(* profile: the account, and every session the role gate admits.  The      *)
(* handlers behind the gate load the profile with findUniqueOrThrow, while *)
(* role, profile and cookie are written by different requests, from what   *)
(* they read earlier, and any of them may die (auth.ts:256-275,            *)
(* suppliers.ts:77, middleware/auth.ts:27).                                *)
ProfileBehindRole ==
  /\ \A u \in Users : account[u].role \in ProfileRoles => account[u].role \in profiles[u]
  /\ \A b \in Browsers : cookie[b].role \in ProfileRoles
                           => cookie[b].role \in profiles[cookie[b].user]
=============================================================================

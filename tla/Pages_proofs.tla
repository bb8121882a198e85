----------------------------- MODULE Pages_proofs -----------------------------
(***************************************************************************)
(* What is proved of Accounts and Pages for any people and browsers: their *)
(* types, that whoever holds a role has the profile behind it, and that a  *)
(* dashboard is rendered for its role only.  Profiles only grow, so it is  *)
(* enough for the second that every copy of a role, in the account, in a   *)
(* cookie and in a handler that read it earlier, had its profile once.     *)
(***************************************************************************)
EXTENDS Pages, TLAPS

Backed(u, r) == r \in ProfileRoles => r \in profiles[u]
Chosen(q)    == q.op = "role" => q.role \in SelfSelectable

IInv ==
  /\ TypeOK
  /\ \A u \in Users : Backed(u, account[u].role)
  /\ \A b \in Browsers : Backed(cookie[b].user, cookie[b].role)
  /\ \A b \in Browsers : Backed(req[b].user, req[b].seen) /\ Chosen(req[b])

\* The invariant for one step, from what the step does to each variable.
Grows ==
  /\ profiles' \in [Users -> SUBSET Roles]
  /\ \A u \in Users : profiles[u] \subseteq profiles'[u]

AccountOK(u, a) == a \in Accounts /\ (a.role \in ProfileRoles => a.role \in profiles'[u])
CookieOK(c)     == c \in Claims /\ (c.role \in ProfileRoles => c.role \in profiles'[c.user])
RequestOK(q)    ==
  q \in Requests /\ Chosen(q) /\ (q.seen \in ProfileRoles => q.seen \in profiles'[q.user])

AccountStep ==
  \/ UNCHANGED account
  \/ \E u \in Users, a \in Accounts :
       AccountOK(u, a) /\ account' = [account EXCEPT ![u] = a]

CookieStep ==
  \/ UNCHANGED cookie
  \/ \E b \in Browsers : cookie' = [cookie EXCEPT ![b] = NoCookie]
  \/ \E b \in Browsers, c \in Claims : CookieOK(c) /\ cookie' = [cookie EXCEPT ![b] = c]

RequestStep ==
  \/ UNCHANGED req
  \/ \E b \in Browsers : Done(b)
  \/ \E b \in Browsers, q \in Requests : RequestOK(q) /\ req' = [req EXCEPT ![b] = q]

\* What is true of the parts of a step is true of the step.
LEMMA PartsHold ==
    ASSUME IInv, UNCHANGED adminEmails, Grows, AccountStep, CookieStep, RequestStep
    PROVE  IInv'
<1> USE DEF ProfileRoles, SelfSelectable
<1>1. /\ account' \in [Users -> Accounts]
      /\ \A u \in Users : Backed(u, account[u].role)'
  BY DEF IInv, TypeOK, Grows, AccountStep, AccountOK, Backed
<1>2. /\ cookie' \in [Browsers -> Claims \union {NoCookie}]
      /\ \A b \in Browsers : Backed(cookie[b].user, cookie[b].role)'
  <2>1. \A b \in Browsers : cookie'[b] = NoCookie \/ cookie'[b] = cookie[b] \/ CookieOK(cookie'[b])
    BY DEF IInv, TypeOK, CookieStep
  <2>2. cookie' \in [Browsers -> Claims \union {NoCookie}]
    BY DEF IInv, TypeOK, CookieStep
  <2>3. ASSUME NEW b \in Browsers PROVE Backed(cookie[b].user, cookie[b].role)'
    <3>1. CASE cookie'[b] = NoCookie
      BY <3>1 DEF Backed, NoCookie
    <3>2. CASE cookie'[b] = cookie[b] /\ cookie[b] \in Claims
      BY <3>2 DEF IInv, Grows, Backed, Claims
    <3>3. CASE CookieOK(cookie'[b])
      BY <3>3 DEF CookieOK, Backed
    <3> QED BY <2>1, <3>1, <3>2, <3>3 DEF IInv, TypeOK
  <2> QED BY <2>2, <2>3
<1>3. /\ req' \in [Browsers -> Requests \union {Idle}]
      /\ \A b \in Browsers : Backed(req[b].user, req[b].seen)' /\ Chosen(req[b])'
  <2>1. \A b \in Browsers : req'[b] = Idle \/ req'[b] = req[b] \/ RequestOK(req'[b])
    BY DEF IInv, TypeOK, RequestStep, Done
  <2>2. req' \in [Browsers -> Requests \union {Idle}]
    BY DEF IInv, TypeOK, RequestStep, Done
  <2>3. ASSUME NEW b \in Browsers PROVE Backed(req[b].user, req[b].seen)' /\ Chosen(req[b])'
    <3>1. CASE req'[b] = Idle
      BY <3>1 DEF Backed, Idle, Chosen
    <3>2. CASE req'[b] = req[b] /\ req[b] \in Requests
      BY <3>2 DEF IInv, Grows, Backed, Requests, Chosen
    <3>3. CASE RequestOK(req'[b])
      BY <3>3 DEF RequestOK, Backed, Chosen
    <3> QED BY <2>1, <3>1, <3>2, <3>3 DEF IInv, TypeOK
  <2> QED BY <2>2, <2>3
<1> QED BY <1>1, <1>2, <1>3 DEF IInv, TypeOK, Grows

\* A copy of a role that is read or made anew.
LEMMA NewRoles ==
    ASSUME IInv, NEW u \in Users
    PROVE  /\ FirstRole(u) \in {"ADMIN", "none"}
           /\ account[u] \in Accounts /\ Backed(u, account[u].role)
BY DEF FirstRole, IInv, TypeOK

LEMMA NewAccounts ==
    ASSUME NEW u \in Users, NEW r \in MaybeRole, NEW p \in BOOLEAN, NEW g \in BOOLEAN,
           r \in ProfileRoles => r \in profiles'[u]
    PROVE  AccountOK(u, NewAccount(r, p, g))
BY DEF AccountOK, NewAccount, Accounts

LEMMA NewRequests ==
    ASSUME NEW b \in Browsers, NEW op \in Ops, NEW u \in Users, NEW r \in MaybeRole,
           NEW seen \in MaybeRole, seen \in ProfileRoles => seen \in profiles'[u],
           op = "role" => r \in SelfSelectable, Wait(b, op, u, r, seen)
    PROVE  RequestStep
<1> DEFINE q == [op |-> op, user |-> u, role |-> r, seen |-> seen]
<1>1. RequestOK(q) /\ q \in Requests
  BY DEF RequestOK, Requests, Chosen
<1> QED BY <1>1 DEF Wait, RequestStep

LEMMA NewCookies ==
    ASSUME NEW b \in Browsers, NEW u \in Users, NEW r \in MaybeRole,
           r \in ProfileRoles => r \in profiles'[u], SetSessionCookie(b, u, r)
    PROVE  CookieStep
<1>1. CookieOK(SignSession(u, r)) /\ SignSession(u, r) \in Claims
  BY DEF CookieOK, SignSession, Claims
<1> QED BY <1>1 DEF SetSessionCookie, CookieStep

\* What a browser's request in flight holds.
LEMMA InFlight ==
    ASSUME IInv, NEW b \in Browsers, req[b].op \in Ops
    PROVE  /\ req[b].user \in Users /\ req[b].role \in MaybeRole /\ req[b].seen \in MaybeRole
           /\ Backed(req[b].user, req[b].seen) /\ Chosen(req[b])
BY DEF IInv, TypeOK, Idle, Ops, Requests

LEMMA SignedIn ==
    ASSUME IInv, NEW b \in Browsers, RequireAuth(b)
    PROVE  cookie[b].user \in Users
BY DEF IInv, TypeOK, RequireAuth, Claims

LEMMA SignHolds == ASSUME IInv, UNCHANGED adminEmails, NEW b \in Browsers, Sign(b) PROVE IInv'
<1> USE DEF Pending
<1>0. UNCHANGED profiles /\ Grows
  BY DEF Sign, RegisterCheck, LoginRead, GoogleFind, RegisterCreate, LoginSign, GoogleLink,
     GoogleCreate, GooglePromote, GoogleSign, Grows, IInv, TypeOK
<1> USE DEF Backed, MaybeRole, Roles, ProfileRoles, SelfSelectable
<1>1. ASSUME NEW u \in Uses(b), RegisterCheck(b, u) \/ LoginRead(b, u) \/ GoogleFind(b, u)
      PROVE  IInv'
  <2>1. u \in Users
    BY UsesAreUsers
  <2>2. UNCHANGED <<account, cookie>>
    BY <1>1 DEF RegisterCheck, LoginRead, GoogleFind
  <2>3. RequestStep
    <3>1. \E op \in Ops \ {"role"}, seen \in {"none", account[u].role} : Wait(b, op, u, "none", seen)
      BY <1>1 DEF RegisterCheck, LoginRead, GoogleFind, Begin, Ops
    <3>2. account[u].role \in MaybeRole /\ Backed(u, account[u].role)
      BY <2>1, NewRoles DEF Accounts
    <3> QED BY <1>0, <2>1, <3>1, <3>2, NewRequests
  <2> QED BY <1>0, <2>2, <2>3, PartsHold DEF AccountStep, CookieStep
<1>2. CASE RegisterCreate(b)
  <2>1. req[b].user \in Users /\ RequestStep
    BY <1>2, InFlight DEF RegisterCreate, Ops, RequestStep
  <2>2. AccountStep /\ CookieStep
    <3>1. CASE UNCHANGED <<account, cookie>>
      BY <3>1 DEF AccountStep, CookieStep
    <3>2. CASE ~account[req[b].user].exists
      <4> DEFINE u == req[b].user
      <4>1. FirstRole(u) \in MaybeRole /\ FirstRole(u) \notin ProfileRoles
        BY <2>1, NewRoles
      <4>2. AccountOK(u, NewAccount(FirstRole(u), TRUE, FALSE))
        BY <2>1, <4>1, NewAccounts
      <4>3. AccountStep
        BY <1>2, <2>1, <3>2, <4>2 DEF RegisterCreate, AccountStep, AccountOK
      <4> QED BY <1>2, <2>1, <3>2, <4>1, <4>3, NewCookies DEF RegisterCreate
    <3> QED BY <1>2, <3>1, <3>2 DEF RegisterCreate
  <2> QED BY <1>0, <2>1, <2>2, PartsHold
<1>3. CASE LoginSign(b)
  <2>1. CookieStep /\ RequestStep /\ AccountStep
    BY <1>0, <1>3, InFlight, NewCookies DEF LoginSign, Ops, RequestStep, AccountStep
  <2> QED BY <1>0, <2>1, PartsHold
<1>4. CASE GoogleLink(b)
  <2> DEFINE u == req[b].user
  <2>1. u \in Users
    BY <1>4, InFlight DEF GoogleLink, Ops
  <2>2. /\ account[u] \in Accounts /\ Backed(u, account[u].role)
        /\ account[u].role \in MaybeRole
    BY <2>1, NewRoles DEF Accounts
  <2>3. AccountOK(u, [account[u] EXCEPT !.google = TRUE])
    BY <1>0, <2>2 DEF AccountOK, Accounts
  <2>4. account' = [account EXCEPT ![u] = [account[u] EXCEPT !.google = TRUE]]
    BY <1>4 DEF GoogleLink
  <2>5. AccountStep /\ CookieStep
    BY <1>4, <2>1, <2>3, <2>4 DEF GoogleLink, AccountStep, AccountOK, CookieStep
  <2>6. RequestStep
    BY <1>0, <1>4, <2>1, <2>2, NewRequests DEF GoogleLink, Ops
  <2> QED BY <1>0, <2>5, <2>6, PartsHold
<1>5. CASE GoogleCreate(b)
  <2> DEFINE u == req[b].user
  <2>1. u \in Users
    BY <1>5, InFlight DEF GoogleCreate, Ops
  <2>2. FirstRole(u) \in MaybeRole /\ FirstRole(u) \notin ProfileRoles
    BY <2>1, NewRoles
  <2>3. AccountOK(u, NewAccount(FirstRole(u), FALSE, TRUE))
    BY <2>1, <2>2, NewAccounts
  <2>4. AccountStep /\ CookieStep
    BY <1>5, <2>1, <2>3 DEF GoogleCreate, AccountStep, AccountOK, CookieStep
  <2>5. RequestStep
    BY <1>5, <2>1, <2>2, NewRequests DEF GoogleCreate, Ops, RequestStep
  <2> QED BY <1>0, <2>4, <2>5, PartsHold
<1>6. CASE GooglePromote(b)
  <2> DEFINE u == req[b].user
  <2>1. u \in Users /\ account[u] \in Accounts
    BY <1>6, InFlight, NewRoles DEF GooglePromote, Ops
  <2>2. AccountOK(u, [account[u] EXCEPT !.role = "ADMIN"])
    BY <2>1 DEF AccountOK, Accounts
  <2>3. account' = [account EXCEPT ![u] = [account[u] EXCEPT !.role = "ADMIN"]]
    BY <1>6 DEF GooglePromote
  <2>4. AccountStep /\ CookieStep
    BY <1>6, <2>1, <2>2, <2>3 DEF GooglePromote, AccountStep, AccountOK, CookieStep
  <2>5. RequestStep
    BY <1>6, <2>1, NewRequests DEF GooglePromote, Ops
  <2> QED BY <1>0, <2>4, <2>5, PartsHold
<1>7. CASE GoogleSign(b)
  <2>1. CookieStep /\ RequestStep /\ AccountStep
    BY <1>0, <1>7, InFlight, NewCookies
        DEF GoogleSign, Ops, RequestStep, AccountStep, CookieStep
  <2> QED BY <1>0, <2>1, PartsHold
<1> QED BY <1>1, <1>2, <1>3, <1>4, <1>5, <1>6, <1>7 DEF Sign

LEMMA TakeRoleHolds == ASSUME IInv, UNCHANGED adminEmails, NEW b \in Browsers, TakeRole(b)
                       PROVE  IInv'
<1> USE DEF Pending, Backed, MaybeRole, Roles, ProfileRoles, SelfSelectable
<1>1. ASSUME NEW u \in Users, NEW op \in Ops, NEW r \in MaybeRole, Wait(b, op, u, r, account[u].role),
             UNCHANGED <<account, profiles, cookie>>, op = "role" => r \in SelfSelectable
      PROVE  IInv'
  <2>1. account[u].role \in MaybeRole /\ Backed(u, account[u].role) /\ Grows
    BY <1>1, NewRoles DEF Accounts, Grows, IInv, TypeOK
  <2>2. RequestStep
    BY <1>1, <2>1, NewRequests
  <2> QED BY <1>1, <2>1, <2>2, PartsHold DEF AccountStep, CookieStep
<1>2. ASSUME NEW r \in SelfSelectable, RoleRead(b, r) PROVE IInv'
  BY <1>1, <1>2, SignedIn DEF RoleRead, Begin, Ops
<1>3. CASE SupplierRead(b)
  BY <1>1, <1>3, SignedIn DEF SupplierRead, Begin, Ops
<1> DEFINE u == req[b].user
<1>4. CASE RoleCommit(b)
  <2> DEFINE r == req[b].role
  <2>1. u \in Users /\ r \in MaybeRole /\ RequestStep
    BY <1>4, InFlight DEF RoleCommit, Ops, RequestStep
  <2>2. CASE UNCHANGED <<account, profiles, cookie>>
    BY <2>1, <2>2, PartsHold DEF Grows, IInv, TypeOK, AccountStep, CookieStep
  <2>3. CASE /\ account' = [account EXCEPT ![u].role = r]
             /\ profiles' = [profiles EXCEPT ![u] = @ \union {r}]
             /\ SetSessionCookie(b, u, r)
    <3>1. r \in ProfileRoles /\ account[u] \in Accounts
      BY <1>4, <2>1, InFlight, NewRoles DEF RoleCommit, Ops, Chosen
    <3>2. Grows /\ r \in profiles'[u]
      BY <2>1, <2>3, <3>1 DEF Grows, IInv, TypeOK
    <3>3. AccountOK(u, [account[u] EXCEPT !.role = r])
      BY <3>1, <3>2 DEF AccountOK, Accounts
    <3>4. AccountStep
      BY <2>1, <2>3, <3>3 DEF AccountStep, AccountOK
    <3>5. CookieStep
      BY <2>1, <2>3, <3>2, NewCookies
    <3> QED BY <2>1, <3>2, <3>4, <3>5, PartsHold
  <2> QED BY <1>4, <2>2, <2>3 DEF RoleCommit
<1>5. CASE SupplierCommit(b)
  <2>1. u \in Users /\ RequestStep
    BY <1>5, InFlight DEF SupplierCommit, Ops, RequestStep
  <2>2. CASE UNCHANGED <<account, profiles, cookie>>
    BY <2>1, <2>2, PartsHold DEF Grows, IInv, TypeOK, AccountStep, CookieStep
  <2>3. CASE /\ UNCHANGED account \/ account' = [account EXCEPT ![u].role = "SUPPLIER"]
             /\ profiles' = [profiles EXCEPT ![u] = @ \union {"SUPPLIER"}]
             /\ SetSessionCookie(b, u, "SUPPLIER")
    <3>1. account[u] \in Accounts
      BY <2>1, NewRoles
    <3>2. Grows /\ "SUPPLIER" \in profiles'[u]
      BY <2>1, <2>3 DEF Grows, IInv, TypeOK
    <3>3. AccountOK(u, [account[u] EXCEPT !.role = "SUPPLIER"])
      BY <3>1, <3>2 DEF AccountOK, Accounts
    <3>4. AccountStep
      BY <2>1, <2>3, <3>3 DEF AccountStep, AccountOK
    <3>5. CookieStep
      BY <2>1, <2>3, <3>2, NewCookies
    <3> QED BY <2>1, <3>2, <3>4, <3>5, PartsHold
  <2> QED BY <1>5, <2>2, <2>3 DEF SupplierCommit
<1>6. ASSUME NEW w \in Users, AppointPromote(b, w) PROVE IInv'
  <2>1. Grows /\ UNCHANGED <<profiles, cookie>>
    BY <1>6 DEF AppointPromote, Grows, IInv, TypeOK
  <2>2. RequestStep
    BY <1>6, <2>1, NewRequests DEF AppointPromote, Begin, Ops
  <2>3. \E a \in Accounts : AccountOK(w, a) /\ account' = [account EXCEPT ![w] = a]
    <3>1. AccountOK(w, NewAccount("COORDINATOR", FALSE, FALSE))
      BY NewAccounts
    <3>2. AccountOK(w, [account[w] EXCEPT !.role = "COORDINATOR"])
      BY NewRoles DEF AccountOK, Accounts
    <3> QED BY <1>6, <3>1, <3>2 DEF AppointPromote, AccountOK
  <2> QED BY <2>1, <2>2, <2>3, PartsHold DEF AccountStep, CookieStep
<1>7. CASE AppointProfile(b)
  <2>1. u \in Users /\ RequestStep
    BY <1>7, InFlight DEF AppointProfile, Ops, RequestStep
  <2>2. Grows
    BY <1>7, <2>1 DEF AppointProfile, Grows, IInv, TypeOK
  <2> QED BY <1>7, <2>1, <2>2, PartsHold DEF AppointProfile, AccountStep, CookieStep
<1> QED BY <1>2, <1>3, <1>4, <1>5, <1>6, <1>7
    DEF TakeRole, RoleChooser, RegisterForm, AppointForm

-----------------------------------------------------------------------------
LEMMA InitHolds == Init => IInv
<1> SUFFICES ASSUME Init PROVE IInv
  OBVIOUS
<1> USE DEF ProfileRoles, SelfSelectable, Roles, MaybeRole
<1>1. account \in [Users -> Accounts]
  <2>1. Seeded \subseteq Accounts
    BY DEF Seeded, Accounts
  <2>2. NoAccount \in Accounts
    BY DEF NoAccount, Accounts
  <2> QED BY <2>1, <2>2 DEF Init
<1>2. \A u \in Users : account[u].role \in MaybeRole
  BY <1>1 DEF Accounts
<1>3. TypeOK
  BY <1>1, <1>2 DEF Init, TypeOK
<1>4. \A b \in Browsers : cookie[b].role = "none" /\ req[b].seen = "none" /\ req[b].op = "idle"
  BY DEF Init, NoCookie, Idle
<1>5. \A u \in Users : Backed(u, account[u].role)
  BY <1>2 DEF Init, Backed
<1> QED BY <1>3, <1>4, <1>5 DEF IInv, Backed, Chosen

LEMMA StepHolds == IInv /\ [AccountsNext]_accountVars => IInv'
<1> SUFFICES ASSUME IInv, [AccountsNext]_accountVars PROVE IInv'
  OBVIOUS
<1>1. ASSUME NEW b \in Browsers, UNCHANGED adminEmails, Logout(b) \/ Expire(b) \/ Crash(b)
      PROVE  IInv'
  <2>1. UNCHANGED <<account, profiles>> /\ CookieStep /\ RequestStep
    BY <1>1 DEF Logout, Expire, Crash, CookieStep, RequestStep
  <2> QED BY <1>1, <2>1, PartsHold DEF Grows, AccountStep, IInv, TypeOK
<1>2. CASE UNCHANGED accountVars
  BY <1>2, PartsHold DEF accountVars, Grows, AccountStep, CookieStep, RequestStep, IInv, TypeOK
<1> QED BY <1>1, <1>2, SignHolds, TakeRoleHolds DEF AccountsNext

WebTypeOK == at \in [Visitors -> PageSet] /\ shown \in [Visitors -> BOOLEAN]

LEMMA LayoutIsAPage == ASSUME NEW page \in PageSet, NEW me PROVE Layout(page, me) \in PageSet
BY DEF Layout, Gate, LoginGate, OnboardingGate, AdminGate, SharedGate, SupplierGate, OwnGate,
    SponsorGate, DashboardPath, PageSet, Guarded, Dashboards

\* The web application writes nothing of the accounts.
LEMMA WebStepHolds == IInv /\ WebTypeOK /\ [Next]_vars => IInv' /\ WebTypeOK'
<1> SUFFICES ASSUME IInv, WebTypeOK, [Next]_vars PROVE IInv' /\ WebTypeOK'
  OBVIOUS
<1>1. CASE AccountsNext /\ UNCHANGED webVars
  BY <1>1, StepHolds DEF WebTypeOK, webVars
<1>2. ASSUME NEW b \in Visitors, NEW me, Resolve(b, me) PROVE IInv' /\ WebTypeOK'
  <2>1. (IF Middleware(b) THEN Layout(at[b], me) ELSE "/login") \in PageSet
    BY LayoutIsAPage DEF WebTypeOK, PageSet
  <2>2. WebTypeOK'
    BY <1>2, <2>1 DEF Resolve, WebTypeOK
  <2> QED BY <1>2, <2>2, StepHolds DEF Resolve
<1>3. ASSUME NEW b \in Visitors, NEW page \in PageSet, Visit(b, page) PROVE IInv' /\ WebTypeOK'
  BY <1>3, StepHolds DEF Visit, WebTypeOK
<1>4. CASE UNCHANGED vars
  BY <1>4, StepHolds DEF vars, webVars, WebTypeOK
<1> QED BY <1>1, <1>2, <1>3, <1>4 DEF Next, Answered, Unreachable

LEMMA Invariance == Spec => [](IInv /\ WebTypeOK)
<1>1. WebInit => IInv /\ WebTypeOK
  BY InitHolds DEF WebInit, WebTypeOK, PageSet
<1> QED BY <1>1, WebStepHolds, PTL DEF Spec

-----------------------------------------------------------------------------
(* The theorems.                                                           *)

\* Accounts, profiles, cookies and requests keep their shape.
THEOREM TypeCorrect == Spec => []TypeOK
<1>1. IInv => TypeOK
  BY DEF IInv
<1> QED BY <1>1, Invariance, PTL

\* No order of sign-ins, choices of a role and appointments, and no crash in
\* one, leaves an athlete, sponsor or supplier without the profile.
THEOREM ProfilesBehindRoles == Spec => []ProfileBehindRole
<1>1. IInv => ProfileBehindRole
  BY DEF IInv, Backed, ProfileBehindRole
<1> QED BY <1>1, Invariance, PTL

\* A dashboard is rendered for the role the account has at that moment.
THEOREM DashboardsForTheirRole == Spec => ShownToItsRole
<1> DEFINE A == \A b \in Visitors : shown'[b] /\ ~shown[b] /\ at'[b] \in Dashboards =>
                  /\ RequireAuth(b)
                  /\ \/ DashboardPath(account[cookie[b].user].role) = at'[b]
                     \/ /\ account[cookie[b].user].role = "ADMIN"
                        /\ at'[b] \in {"/dashboard/coordinator", "/dashboard/supplier"}
<1>1. WebTypeOK /\ [Next]_vars => [A]_vars
  <2> SUFFICES ASSUME WebTypeOK, [Next]_vars, NEW b \in Visitors,
                      shown'[b] /\ ~shown[b] /\ at'[b] \in Dashboards
               PROVE  /\ RequireAuth(b)
                      /\ \/ DashboardPath(account[cookie[b].user].role) = at'[b]
                         \/ /\ account[cookie[b].user].role = "ADMIN"
                            /\ at'[b] \in {"/dashboard/coordinator", "/dashboard/supplier"}
    OBVIOUS
  <2>1. PICK me : Resolve(b, me) /\ me \in {Me(b), "nobody"}
    BY DEF Next, vars, webVars, Answered, Unreachable, Visit, Resolve, WebTypeOK
  <2>2. /\ at'[b] = IF Middleware(b) THEN Layout(at[b], me) ELSE "/login"
        /\ at'[b] = at[b]
    <3> DEFINE to == IF Middleware(b) THEN Layout(at[b], me) ELSE "/login"
    <3>1. at' = [at EXCEPT ![b] = to] /\ shown' = [shown EXCEPT ![b] = (to = at[b])]
      BY <2>1 DEF Resolve
    <3> HIDE DEF to
    <3>2. at'[b] = to
      BY <3>1 DEF WebTypeOK
    <3>3. shown'[b] = (to = at[b])
      BY <3>1, Zenon DEF WebTypeOK
    <3>4. to = at[b]
      BY <3>3
    <3> QED BY <3>2, <3>4 DEF to
  <2>3. Layout(at[b], me) = at[b] /\ at[b] \in Dashboards /\ RequireAuth(b)
    BY <2>2 DEF Middleware, Dashboards, Guarded
  <2>4. me # "nobody"
    BY <2>3 DEF Layout, Dashboards, Guarded
  <2>5. me = account[cookie[b].user].role
    BY <2>1, <2>4 DEF Me
  <2>6. \/ DashboardPath(me) = at[b]
        \/ me = "ADMIN" /\ at[b] \in {"/dashboard/coordinator", "/dashboard/supplier"}
    BY <2>3, <2>4 DEF Layout, Gate, Dashboards, Guarded, AdminGate, SharedGate, SupplierGate,
        OwnGate, SponsorGate, DashboardPath
  <2> QED BY <2>2, <2>3, <2>5, <2>6
<1>2. Spec => [][A]_vars
  BY <1>1, Invariance, PTL DEF Spec
<1> QED BY <1>2 DEF ShownToItsRole
=============================================================================

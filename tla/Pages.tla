------------------------------- MODULE Pages -------------------------------
(***************************************************************************)
(* The web application's gates in front of its pages: middleware.ts looks  *)
(* only for a cookie, each protected layout asks the API who the caller is *)
(* and redirects.  The API answers from the account, not from the cookie,  *)
(* and any failure of the call reads as "nobody".                          *)
(***************************************************************************)
EXTENDS Accounts

CONSTANT Visitors   \* the browsers whose pages are followed

ASSUME VisitorsAreBrowsers == Visitors \subseteq Browsers

VARIABLES at,     \* the page each browser is asking for
          shown   \* whether that page was rendered

webVars == <<at, shown>>
vars == <<accountVars, webVars>>

Dashboards == {"/admin", "/dashboard/athlete", "/dashboard/sponsor",
               "/dashboard/coordinator", "/dashboard/supplier"}
Guarded == Dashboards \union {"/onboarding"}
PageSet == Guarded \union {"/", "/login"}

DashboardPath(role) ==
  CASE role = "ATHLETE"     -> "/dashboard/athlete"
    [] role = "SPONSOR"     -> "/dashboard/sponsor"
    [] role = "COORDINATOR" -> "/dashboard/coordinator"
    [] role = "SUPPLIER"    -> "/dashboard/supplier"
    [] role = "ADMIN"       -> "/admin"
    [] OTHER                -> "/onboarding"

-----------------------------------------------------------------------------
(* GET /auth/me as getMe sees it: the role in the account, or "nobody".    *)
Me(b) ==
  IF RequireAuth(b) /\ account[cookie[b].user].exists /\ account[cookie[b].user].active
  THEN account[cookie[b].user].role ELSE "nobody"

(* Where each gate sends a caller; the page itself when it renders.        *)
OnboardingGate(me) == IF me = "none" THEN "/onboarding" ELSE DashboardPath(me)

LoginGate(me) == IF me = "nobody" THEN "/login" ELSE "/"

AdminGate(me) == IF me = "ADMIN" THEN "/admin" ELSE "/"

SharedGate(page, role, me) ==    \* as the coordinator's layout has it
  IF me = "none" THEN "/onboarding"
  ELSE IF me \in {role, "ADMIN"} THEN page ELSE "/"

SupplierGate(me) == SharedGate("/dashboard/supplier", "SUPPLIER", me)

\* Seeded bugs: whoever has a role may look; only the role itself is let in.
OpenGate(page, role, other, me) == IF me = "none" THEN "/onboarding" ELSE page
StrictGate(page, role, other, me) == IF me = role THEN page ELSE other

OwnGate(page, role, other, me) ==   \* as the athlete's layout has it
  IF me = "none" THEN "/onboarding"
  ELSE IF me = role THEN page
  ELSE IF me = "ADMIN" THEN "/admin" ELSE other

SponsorGate(me) == OwnGate("/dashboard/sponsor", "SPONSOR", "/dashboard/athlete", me)

Gate(page, me) ==
  CASE page = "/onboarding" -> OnboardingGate(me)
    [] page = "/admin"      -> AdminGate(me)
    [] page = "/dashboard/coordinator" -> SharedGate(page, "COORDINATOR", me)
    [] page = "/dashboard/supplier"    -> SupplierGate(me)
    [] page = "/dashboard/athlete" -> OwnGate(page, "ATHLETE", "/dashboard/sponsor", me)
    [] page = "/dashboard/sponsor" -> SponsorGate(me)

Layout(page, me) ==
  CASE page = "/login"     -> LoginGate(me)
    [] page = "/"          -> "/"
    [] page \in Guarded    -> IF me = "nobody" THEN "/login" ELSE Gate(page, me)

Middleware(b) == at[b] \in Guarded => RequireAuth(b)

-----------------------------------------------------------------------------
(* One request of the browser: middleware, then the layout with what the   *)
(* API answered, or with nobody when the API could not be reached.         *)
Resolve(b, me) ==
  LET to == IF Middleware(b) THEN Layout(at[b], me) ELSE "/login" IN
  /\ ~shown[b]
  /\ at' = [at EXCEPT ![b] = to]
  /\ shown' = [shown EXCEPT ![b] = (to = at[b])]
  /\ UNCHANGED accountVars

Answered(b)    == Resolve(b, Me(b))
Unreachable(b) == Me(b) # "nobody" /\ Resolve(b, "nobody")

\* A link, a typed address or a router.refresh() of the page on screen.
Visit(b, page) ==
  /\ shown[b]
  /\ at' = [at EXCEPT ![b] = page]
  /\ shown' = [shown EXCEPT ![b] = FALSE]
  /\ UNCHANGED accountVars

WebInit == Init /\ at = [b \in Visitors |-> "/"] /\ shown = [b \in Visitors |-> TRUE]

Next ==
  \/ AccountsNext /\ UNCHANGED webVars
  \/ \E b \in Visitors : \/ Answered(b) \/ Unreachable(b)
                         \/ \E page \in PageSet : Visit(b, page)

(* A browser follows a redirect, and a token expires.  Nobody is obliged   *)
(* to sign in, choose a role or be appointed.                              *)
Fairness ==
  /\ \A b \in Visitors : WF_vars(Answered(b))
  /\ \A b \in Browsers : WF_vars(Expire(b) /\ UNCHANGED <<adminEmails, webVars>>)

Spec == WebInit /\ [][Next]_vars /\ Fairness

-----------------------------------------------------------------------------
(* What the layouts promise at the moment a dashboard is rendered: the     *)
(* account, whatever an old cookie says, has that dashboard's role, or is  *)
(* an administrator's where the layout lets one look (layouts' getMe).     *)
ShownToItsRole ==
  [][\A b \in Visitors : shown'[b] /\ ~shown[b] /\ at'[b] \in Dashboards =>
       /\ RequireAuth(b)
       /\ \/ DashboardPath(account[cookie[b].user].role) = at'[b]
          \/ /\ account[cookie[b].user].role = "ADMIN"
             /\ at'[b] \in {"/dashboard/coordinator", "/dashboard/supplier"}]_vars

(* Every chain of redirects ends on a page, for the roles a person chooses,*)
(* for an administrator and for someone without a role or a session, even  *)
(* when the role changes or the API fails on the way.                      *)
ChoosersSettle ==
  \A b \in Visitors :
    ~shown[b] ~> (shown[b] \/ Me(b) \in {"COORDINATOR", "SUPPLIER"})

(* "Every non-null role must resolve to a real page"                       *)
(* (onboarding/page.tsx:7).                                                *)
EveryRoleSettles == \A b \in Visitors : ~shown[b] ~> shown[b]
=============================================================================

-------------------------------- MODULE Browser --------------------------------
(***************************************************************************)
(* One browser: its two cookies, its tabs, and whom each tab shows.        *)
(*                                                                         *)
(* VaultGuardContext lives as long as the document of a tab: a full load   *)
(* (window.location, the address bar) starts it anew and restores the      *)
(* session by a chain of requests, a link or router.push keeps it.  All    *)
(* tabs share the cookies.  Whom the server takes a request to come from   *)
(* is settled when it is sent, by the cookies it carries; the cookies of   *)
(* the answer are set when it arrives.  A document that ends takes its     *)
(* requests with it.                                                       *)
(***************************************************************************)
EXTENDS Naturals, FiniteSets

CONSTANTS
  Tabs,
  Users,
  MfaUsers,   \* those with mfaEnabled
  MaxCalls,   \* bound: requests in flight at one time
  None,
  Stale       \* a cookie whose token no longer verifies

\* "dashboard" stands for every page of PROTECTED_ROUTES, the one to edit the
\* profile among them.
Pages == {"login", "mfa", "dashboard"}

ASSUME BrowserAssumption ==
  /\ MfaUsers \subseteq Users /\ MaxCalls \in Nat
  /\ None \notin Users \cup Pages /\ Stale \notin Users /\ Stale # None

\* The requests of restoreSession, in order, and those of the handlers.
Restoring == {"me", "profile", "history"}
SigningIn == {"login", "verify"}
Renewing  == SigningIn \cup {"update"}     \* whose answer sets a session
Kinds     == Restoring \cup Renewing \cup {"accounts", "logout"}

VARIABLES
  session,   \* vaultguard_session: whose token it holds
  pending,   \* vaultguard_mfa_pending
  page,      \* what each tab displays
  to,        \* the page a handler has sent the tab to, until it is there
  user,      \* VaultGuardContext: who a tab shows as its user
  items,     \* and whose transactions it lists
  calls,     \* the requests in flight
  out,       \* history: signed out for sure, and no sign-in has begun since
  moved      \* history: tabs under which the signed-in customer may have changed

cookies == <<session, pending>>
shown   == <<user, items>>
vars    == <<cookies, page, to, shown, calls, out, moved>>

\* as: whom the server takes it to come from; seen: the user its handler saw.
Call == [kind : Kinds, tab : Tabs, as : Users \cup {None}, seen : Users \cup {None}]

Init ==
  /\ session = None /\ pending = None
  /\ page = [t \in Tabs |-> None] /\ to = [t \in Tabs |-> "login"]
  /\ user = [t \in Tabs |-> None]
  /\ items = [t \in Tabs |-> None]
  /\ calls = {}
  /\ out = FALSE /\ moved = {}

-----------------------------------------------------------------------------
(* The server: who is asking, and what it lets him see.                    *)

\* verifySessionToken.
Verified(s) == IF s \in Users THEN s ELSE None

\* getAuthContext: a session cookie is used even if it is stale, and a login
\* that waits for its code counts where there is none.
Context(s, p) == IF s # None THEN Verified(s) ELSE p

\* middleware: where a request for a page ends.
Route(p, s, q) ==
  CASE p = "dashboard" /\ s \notin Users       -> "login"
    [] p \in {"login", "mfa"} /\ s \in Users  -> "dashboard"
    [] p = "mfa" /\ s \notin Users /\ q = None -> "login"
    [] OTHER                                  -> p

\* ... and it deletes a stale cookie when it turns a guarded page away.
Kept(p) == IF p = "dashboard" /\ session = Stale THEN None ELSE session

-----------------------------------------------------------------------------
(* Cookies.                                                                *)

Runs(t, kinds) == \E c \in calls : c.tab = t /\ c.kind \in kinds

\* An answer to tab t sets the cookies: for the other tabs, and for its own
\* restoreSession if that still runs, the customer may have changed.
SetCookies(t, s, p) ==
  /\ session' = s /\ pending' = p
  /\ moved' = IF <<s, p>> = cookies THEN moved
              ELSE moved \cup {u \in Tabs : u # t \/ Runs(t, Restoring)}

\* The clock ends a token, then its cookie; that may uncover a waiting login.
ExpireSession == /\ session # None
                 /\ session' = IF session = Stale THEN None ELSE Stale
                 /\ moved' = IF pending = None THEN moved ELSE Tabs
                 /\ UNCHANGED <<pending, page, to, shown, calls, out>>
ExpirePending == /\ pending # None
                 /\ pending' = None
                 /\ UNCHANGED <<session, page, to, shown, calls, out, moved>>

-----------------------------------------------------------------------------
(* Going from page to page.                                                *)

Request(k, t, as) == [kind |-> k, tab |-> t, as |-> as,
                      seen |-> IF k = "update" THEN user[t] ELSE None]

\* The new document is there, in place of the old one and of its requests; it
\* begins to restore the session.
Load(t, p) ==
  /\ LET left == {c \in calls : c.tab # t}
     IN  /\ Cardinality(left) < MaxCalls
         /\ calls' = left \cup {Request("me", t, Verified(session))}
  /\ page' = [page EXCEPT ![t] = Route(p, session, pending)]
  /\ session' = Kept(p)
  /\ to' = [to EXCEPT ![t] = None]
  /\ user' = [user EXCEPT ![t] = None]
  /\ items' = [items EXCEPT ![t] = None]
  /\ moved' = moved \ {t}
  /\ UNCHANGED <<pending, out>>

\* window.location, after a handler; a reload, or the address bar.
Leave(t)    == to[t] # None /\ Load(t, to[t])
Navigate(t) == to[t] = None /\ Load(t, "dashboard")

\* A link of the Navbar: the context stays.
FollowLink(t, p) ==
  /\ page[t] # None /\ to[t] = None
  /\ p = "login" => user[t] = None
  /\ page' = [page EXCEPT ![t] = Route(p, session, pending)]
  /\ session' = Kept(p)
  /\ UNCHANGED <<pending, to, shown, calls, out, moved>>

-----------------------------------------------------------------------------
(* The handlers up to their request.                                       *)

Send(k, t, as) ==
  /\ to[t] = None /\ ~Runs(t, {k})
  /\ Cardinality(calls) < MaxCalls
  /\ calls' = calls \cup {Request(k, t, as)}
  /\ UNCHANGED <<cookies, page, to, shown, moved>>

SubmitLogin(t, u) == /\ page[t] = "login" /\ ~Runs(t, {"accounts"})
                     /\ out' = FALSE
                     /\ Send("login", t, u)
SubmitCode(t)     == /\ page[t] = "mfa"
                     /\ out' = FALSE
                     /\ Send("verify", t, Context(session, pending))
SaveProfile(t)    == /\ page[t] = "dashboard"
                     /\ Send("update", t, Context(session, pending))
                     /\ UNCHANGED out
Logout(t)         == /\ user[t] # None
                     /\ Send("logout", t, None)
                     /\ UNCHANGED out

-----------------------------------------------------------------------------
(* Answers.  Without "ok" the request is refused, fails, or is lost.       *)

\* The handler goes on to its next request, with the cookies of now.
Then(c, k, s) == calls' = (calls \ {c}) \cup {[c EXCEPT !.kind = k, !.as = Context(s, pending)]}
End(c)        == calls' = calls \ {c}

\* restoreSession: /api/auth/me accepts the session cookie only.
RestoreUser(c, ok) ==
  /\ c.kind = "me"
  /\ IF ok THEN /\ user' = [user EXCEPT ![c.tab] = c.as]
                /\ Then(c, "profile", session)
           ELSE /\ End(c)
                /\ UNCHANGED user
  /\ UNCHANGED <<cookies, page, to, items, out, moved>>

\* The profile is merged into the user: its id and its name replace his.
RestoreProfile(c, ok) ==
  /\ c.kind = "profile"
  /\ user' = IF ok THEN [user EXCEPT ![c.tab] = c.as] ELSE user
  /\ Then(c, "history", session)
  /\ UNCHANGED <<cookies, page, to, items, out, moved>>

RestoreHistory(c, ok) ==
  /\ c.kind = "history"
  /\ items' = IF ok THEN [items EXCEPT ![c.tab] = c.as] ELSE items
  /\ End(c)
  /\ UNCHANGED <<cookies, page, to, user, out, moved>>

\* login: a customer with a second factor gets the pending cookie and is pushed
\* to the page that asks for the code.
LoginPending(c) ==
  /\ c.kind = "login" /\ c.as \in MfaUsers
  /\ SetCookies(c.tab, session, c.as)
  /\ page' = [page EXCEPT ![c.tab] = Route("mfa", session, c.as)]
  /\ End(c)
  /\ UNCHANGED <<to, shown, out>>

\* Any other gets a session, and his accounts are fetched with it.
LoginDone(c) ==
  /\ c.kind = "login" /\ c.as \notin MfaUsers
  /\ SetCookies(c.tab, c.as, pending)
  /\ user' = [user EXCEPT ![c.tab] = c.as]
  /\ Then(c, "accounts", c.as)
  /\ UNCHANGED <<page, to, items, out>>

\* Mutant of EnterDashboard: it goes there by router.push.
EnterDashboardPushed(t) == page' = [page EXCEPT ![t] = "dashboard"] /\ UNCHANGED to
\* handleSubmit then loads the dashboard, whether the accounts arrived or not.
EnterDashboard(t) == to' = [to EXCEPT ![t] = "dashboard"] /\ UNCHANGED page

LoginAccounts(c) ==
  /\ c.kind = "accounts"
  /\ EnterDashboard(c.tab)
  /\ End(c)
  /\ UNCHANGED <<cookies, shown, out, moved>>

\* handleVerify of the page for the code.
VerifyDone(c) ==
  /\ c.kind = "verify" /\ c.as # None
  /\ SetCookies(c.tab, c.as, None)
  /\ EnterDashboard(c.tab)
  /\ End(c)
  /\ UNCHANGED <<shown, out>>

\* PATCH /api/user/profile issues the session anew; handleUpdateProfile sets the
\* user it was rendered with.
UpdateDone(c) ==
  /\ c.kind = "update" /\ c.as # None
  /\ SetCookies(c.tab, c.as, pending)
  /\ user' = IF c.seen = None THEN user ELSE [user EXCEPT ![c.tab] = c.seen]
  /\ End(c)
  /\ UNCHANGED <<page, to, items, out>>

\* These handlers only show the error.
HandlerFails(c) ==
  /\ c.kind \in Renewing
  /\ End(c)
  /\ UNCHANGED <<cookies, page, to, shown, out, moved>>

\* Mutant of Cleared: the path does not match, so the cookie stays.
ClearedElsewhere(s) == s
\* The logout route deletes the session cookie and no other.
Cleared(s) == None

\* logout says "Session token invalidated and cleared" in any case.
LogoutDone(c, ok) ==
  /\ c.kind = "logout"
  /\ IF ok THEN SetCookies(c.tab, Cleared(session), pending)
           ELSE UNCHANGED <<cookies, moved>>
  /\ out' = (ok /\ pending = None /\ \A d \in calls : d.kind \notin Renewing)
  /\ user' = [user EXCEPT ![c.tab] = None]
  /\ items' = [items EXCEPT ![c.tab] = None]
  /\ to' = [to EXCEPT ![c.tab] = "login"]
  /\ End(c)
  /\ UNCHANGED page

Arrive(c) ==
  \/ \E ok \in {o \in BOOLEAN : o => c.as # None} :
       RestoreUser(c, ok) \/ RestoreProfile(c, ok) \/ RestoreHistory(c, ok)
  \/ LoginPending(c) \/ LoginDone(c) \/ LoginAccounts(c) \/ VerifyDone(c) \/ UpdateDone(c)
  \/ HandlerFails(c)
  \/ \E ok \in BOOLEAN : LogoutDone(c, ok)

Next ==
  \/ ExpireSession \/ ExpirePending
  \/ \E t \in Tabs :
       \/ Navigate(t) \/ \E p \in {"login", "dashboard"} : FollowLink(t, p)
       \/ Leave(t)
       \/ \E u \in Users : SubmitLogin(t, u)
       \/ SubmitCode(t) \/ SaveProfile(t) \/ Logout(t)
  \/ \E c \in calls : Arrive(c)

Spec == Init /\ [][Next]_vars

-----------------------------------------------------------------------------
(* Properties.                                                             *)

TypeOK ==
  /\ session \in Users \cup {None, Stale} /\ pending \in MfaUsers \cup {None}
  /\ page \in [Tabs -> Pages \cup {None}] /\ to \in [Tabs -> Pages \cup {None}]
  /\ {user, items} \subseteq [Tabs -> Users \cup {None}]
  /\ calls \subseteq Call
  /\ out \in BOOLEAN /\ moved \subseteq Tabs

AtRest(t) == to[t] = None /\ ~Runs(t, Kinds)

\* A tab at rest lists the transactions of the user it shows, unless the cookies
\* have been changed by another tab since it loaded, or under its restoreSession:
\* login and logout leave the document they have changed.
OneOwner ==
  \A t \in Tabs :
    AtRest(t) /\ t \notin moved =>
      Cardinality({user[t], items[t]} \ {None}) <= 1

\* What a tab at rest does is done for the user it shows (the cookie is his), with
\* the same exception: the customer that signs in replaces the one that was shown.
ShownIsSignedIn ==
  \A t \in Tabs :
    AtRest(t) /\ t \notin moved /\ user[t] # None /\ session \in Users => user[t] = session

\* After a sign-out nobody is signed in before the next login begins, unless its
\* request failed, a login waited for its code, or an answer that sets a session
\* was still under way.
SignedOutStays == out => session = None
=============================================================================

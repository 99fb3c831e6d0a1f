------------------------------ MODULE Sessions ------------------------------
(***************************************************************************)
(* auth-service for one customer: login, MFA enrolment and verification,   *)
(* trusted devices, and the refresh tokens that keep a browser signed in.  *)
(* A handler is one request; it is cut at every await on the database, and *)
(* no statement but the one of Confirm is in a transaction, so every       *)
(* statement commits by itself.  The browsers are part of the model: a     *)
(* request carries the cookie at the time it is sent, and the cookie       *)
(* changes when an answer arrives.                                         *)
(***************************************************************************)
EXTENDS Integers, FiniteSets

CONSTANTS
  Browsers,     \* browsers of the customer, each with its own fingerprint
  Handlers,     \* requests; also the ids of the rows they insert
  Kinds,        \* the requests that may be sent
  BackupCodes,  \* how many backup codes a setup generates
  Seed,         \* the factor of a customer who enrolled earlier
  None

ASSUME SessionsAssumption ==
  /\ Kinds \subseteq {"login", "verify", "refresh", "logout", "setup", "trust", "revoke"}
  /\ BackupCodes \in Nat
  /\ Browsers \cap Handlers = {}
  /\ None \notin Browsers \cup Handlers
  /\ Seed \notin Handlers

\* A browser that is signed in initially has a token with its own name; other
\* tokens, secrets and rows have the name of the handler that creates them.
Tokens  == Browsers \cup Handlers
Secrets == {Seed} \cup Handlers

TokenState == {"none", "live", "expired", "revoked"}

\* What a customer may type: the TOTP code of a secret (0) or a backup code.
Code == [secret : Secrets, index : 0 .. BackupCodes]
CodesOf(s) == [secret : {s}, index : 1 .. BackupCodes]

Factor == [id : Secrets, secret : Secrets, codes : SUBSET Code, verified : BOOLEAN]
Device == [id : Tokens, browser : Browsers]

NoCode    == [secret |-> Seed, index |-> 0]
NewFactor(s) == [id |-> s, secret |-> s, codes |-> CodesOf(s), verified |-> FALSE]
NoRequest == [kind |-> "none", browser |-> None, token |-> None, code |-> NoCode,
              device |-> None]
NoRead    == [enabled |-> FALSE, factor |-> NewFactor(Seed), device |-> None]

VARIABLES
  token,    \* refresh_tokens: token[t]
  enabled,  \* users.mfa_enabled
  factors,  \* mfa_factors of the customer; user_id is not unique
  devices,  \* trusted_devices of the customer
  cookie,   \* cookie[b]: the refreshToken cookie of b
  req, pc, seen, answer,   \* the handlers
  \* history, for the properties
  parent,   \* parent[t]: the token t was issued for
  spent,    \* backup codes accepted so far
  reused,   \* backup codes accepted more than once
  proved,   \* secrets of which a code was accepted
  raced     \* a code was accepted for a factor that had changed since it was read

dbVars   == <<token, enabled, factors, devices>>
procVars == <<req, pc, seen, answer>>
history  == <<parent, spent, reused, proved, raced>>
vars     == <<dbVars, cookie, procVars, history>>

Init ==
  /\ cookie \in [Browsers -> Browsers \cup {None}]
  /\ \A b \in Browsers : cookie[b] \in {b, None}
  /\ token = [t \in Tokens |-> IF \E b \in Browsers : cookie[b] = t THEN "live" ELSE "none"]
  /\ enabled \in BOOLEAN
  /\ factors = IF enabled THEN {[NewFactor(Seed) EXCEPT !.verified = TRUE]} ELSE {}
  /\ devices \in SUBSET {[id |-> b, browser |-> b] : b \in Browsers}
  /\ req = [h \in Handlers |-> NoRequest]
  /\ pc = [h \in Handlers |-> "arrive"]
  /\ seen = [h \in Handlers |-> NoRead]
  /\ answer = [h \in Handlers |-> "NONE"]
  /\ parent = [t \in Tokens |-> None]
  /\ spent = {} /\ reused = {}
  /\ proved = {Seed}
  /\ raced = FALSE

Goto(h, l) == pc' = [pc EXCEPT ![h] = l]

\* h goes on and changes nothing.
Proceed(h, l) == /\ Goto(h, l)
                 /\ UNCHANGED <<dbVars, cookie, req, seen, answer, history>>

\* h ends with an error; the browser's cookie stays.
End(h, code) == /\ Goto(h, "done")
                /\ answer' = [answer EXCEPT ![h] = code]
                /\ seen' = [seen EXCEPT ![h] = NoRead]
                /\ UNCHANGED <<dbVars, cookie, req, history>>

-----------------------------------------------------------------------------
(* The browser sends a request.                                            *)

First(k) == CASE k = "login"   -> "user"
              [] k = "verify"  -> "factor"
              [] k = "refresh" -> "lookup"
              [] k = "logout"  -> "logout"
              [] k = "setup"   -> "setup"
              [] k = "trust"   -> "device"
              [] k = "revoke"  -> "listed"

\* The secrets the customer has been shown.
Known == {Seed} \cup {h \in Handlers : req[h].kind = "setup" /\ answer[h] = "OK"}

Send(h) ==
  /\ pc[h] = "arrive"
  /\ \E k \in Kinds, b \in Browsers, c \in Code, d \in Tokens \cup {None} :
       /\ k = "verify" => c.secret \in Known
       /\ k # "verify" => c = NoCode
       /\ IF k = "revoke" THEN \E r \in devices : r.id = d ELSE d = None
       /\ req' = [req EXCEPT ![h] = [kind |-> k, browser |-> b, token |-> cookie[b],
                                     code |-> c, device |-> d]]
       /\ Goto(h, First(k))
  /\ UNCHANGED <<dbVars, cookie, seen, answer, history>>

-----------------------------------------------------------------------------
(* login.                                                                  *)

\* findUnique and bcrypt.
ReadUser(h) ==
  /\ pc[h] = "user"
  /\ \/ End(h, "AUTH_INVALID_CREDENTIALS")
     \/ /\ seen' = [seen EXCEPT ![h].enabled = enabled]
        /\ Goto(h, "trusted")
        /\ UNCHANGED <<dbVars, cookie, req, answer, history>>

Trusted(b) == \E d \in devices : d.browser = b

\* isTrustedDevice, and the decision on what was read of the user before.
CheckTrust(h) ==
  /\ pc[h] = "trusted"
  /\ IF seen[h].enabled \/ ~Trusted(req[h].browser)
       THEN End(h, "REQUIRES_MFA")
       ELSE Proceed(h, "create")

-----------------------------------------------------------------------------
(* verifyMfa.                                                              *)

Matches(c, f) == \/ c.index = 0 /\ c.secret = f.secret
                 \/ c \in f.codes

\* findFirst has no order: any factor of the customer.  The mfaToken or the
\* code may also have expired.
FindFactor(h) ==
  /\ pc[h] = "factor"
  /\ \/ End(h, "AUTH_MFA_SESSION_EXPIRED")
     \/ factors = {} /\ End(h, "AUTH_MFA_NOT_CONFIGURED")
     \/ factors # {} /\ End(h, "AUTH_MFA_INVALID")
     \/ \E f \in factors :
          /\ Matches(req[h].code, f)
          /\ seen' = [seen EXCEPT ![h].factor = f]
          /\ Goto(h, IF req[h].code.index = 0 THEN "confirm" ELSE "codes")
          /\ UNCHANGED <<dbVars, cookie, req, answer, history>>

\* For the history: the factor has another secret, or another list, than h read.
NewSecret(h) == \A f \in factors : f.id = seen[h].factor.id => f.secret # seen[h].factor.secret
NewCodes(h)  == \A f \in factors : f.id = seen[h].factor.id => f.codes # seen[h].factor.codes

\* Mutant of Remaining: no code is taken out of the list.
RemainingAll(h) == seen[h].factor.codes

\* The list that was read, without the code.
Remaining(h) == seen[h].factor.codes \ {req[h].code}

\* mfaFactor.update: the list is written whole.
WriteCodes(h) ==
  /\ pc[h] = "codes"
  /\ factors' = {IF f.id = seen[h].factor.id THEN [f EXCEPT !.codes = Remaining(h)] ELSE f :
                   f \in factors}
  /\ seen' = [seen EXCEPT ![h].factor.codes = Remaining(h)]
  /\ spent' = spent \cup {req[h].code}
  /\ reused' = reused \cup ({req[h].code} \cap spent)
  /\ raced' = (raced \/ NewSecret(h) \/ NewCodes(h))
  /\ Goto(h, "confirm")
  /\ UNCHANGED <<token, enabled, devices, cookie, req, answer, parent, proved>>

\* The one transaction: verifiedAt and mfaEnabled.
Confirm(h) ==
  /\ pc[h] = "confirm"
  /\ factors' = {IF f.id = seen[h].factor.id THEN [f EXCEPT !.verified = TRUE] ELSE f :
                   f \in factors}
  /\ enabled' = TRUE
  /\ proved' = proved \cup {seen[h].factor.secret}
  /\ raced' = (raced \/ NewSecret(h))
  /\ Goto(h, "device")
  /\ UNCHANGED <<token, devices, cookie, req, seen, answer, parent, spent, reused>>

\* registerDevice: look the fingerprint up, then update the row or create one.
FindDevice(h) ==
  /\ pc[h] = "device"
  /\ \/ /\ ~Trusted(req[h].browser)
        /\ Proceed(h, "bind")
     \/ \E d \in devices :
          /\ d.browser = req[h].browser
          /\ seen' = [seen EXCEPT ![h].device = d.id]
          /\ Goto(h, "touch")
          /\ UNCHANGED <<dbVars, cookie, req, answer, history>>

AfterDevice(h) == IF req[h].kind = "verify" THEN "create" ELSE "respond"

\* The row may have been deleted meanwhile (P2025).
TouchDevice(h) ==
  /\ pc[h] = "touch"
  /\ IF \E d \in devices : d.id = seen[h].device
       THEN Proceed(h, AfterDevice(h))
       ELSE End(h, "INTERNAL_ERROR")

BindDevice(h) ==
  /\ pc[h] = "bind"
  /\ devices' = devices \cup {[id |-> h, browser |-> req[h].browser]}
  /\ Goto(h, AfterDevice(h))
  /\ UNCHANGED <<token, enabled, factors, cookie, req, seen, answer, history>>

-----------------------------------------------------------------------------
(* setupMfa.                                                               *)

FindEnrolled(h) ==
  /\ pc[h] = "setup"
  /\ \/ factors = {} /\ Proceed(h, "enrol")
     \/ \E f \in factors :
          /\ seen' = [seen EXCEPT ![h].factor = f]
          /\ Goto(h, "replace")
          /\ UNCHANGED <<dbVars, cookie, req, answer, history>>

Enrol(h) ==
  /\ pc[h] = "enrol"
  /\ factors' = factors \cup {NewFactor(h)}
  /\ Goto(h, "respond")
  /\ UNCHANGED <<token, enabled, devices, cookie, req, seen, answer, history>>

\* Mutant of Renewed: verifiedAt is not reset.
RenewedVerified(f, h) == [f EXCEPT !.secret = h, !.codes = CodesOf(h)]

Renewed(f, h) == [NewFactor(h) EXCEPT !.id = f.id]

Replace(h) ==
  /\ pc[h] = "replace"
  /\ factors' = {IF f.id = seen[h].factor.id THEN Renewed(f, h) ELSE f : f \in factors}
  /\ Goto(h, "respond")
  /\ UNCHANGED <<token, enabled, devices, cookie, req, seen, answer, history>>

-----------------------------------------------------------------------------
(* revokeDevice.                                                           *)

FindListed(h) ==
  /\ pc[h] = "listed"
  /\ IF \E d \in devices : d.id = req[h].device
       THEN Proceed(h, "delete")
       ELSE End(h, "DEVICE_NOT_FOUND")

DeleteDevice(h) ==
  /\ pc[h] = "delete"
  /\ \/ /\ \A d \in devices : d.id # req[h].device
        /\ End(h, "INTERNAL_ERROR")
     \/ \E d \in devices :
          /\ d.id = req[h].device
          /\ devices' = devices \ {d}
          /\ Goto(h, "respond")
          /\ UNCHANGED <<token, enabled, factors, cookie, req, seen, answer, history>>

-----------------------------------------------------------------------------
(* refresh, logout, and the end of a request.                              *)

FindToken(h) ==
  /\ pc[h] = "lookup"
  /\ IF req[h].token # None /\ token[req[h].token] = "live"
       THEN Proceed(h, "rotate")
       ELSE End(h, "AUTH_REFRESH_EXPIRED")

\* Mutant of RevokeOld: the update is forgotten.
RevokeOldForgotten(h) ==
  /\ pc[h] = "rotate"
  /\ Proceed(h, "create")

\* Mutant of RevokeOld: every token of the customer is revoked.
RevokeOldAll(h) ==
  /\ pc[h] = "rotate"
  /\ token' = [t \in Tokens |-> IF token[t] = "live" THEN "revoked" ELSE token[t]]
  /\ Goto(h, "create")
  /\ UNCHANGED <<enabled, factors, devices, cookie, req, seen, answer, history>>

\* refreshToken.update: by id, whatever has happened to the row.
RevokeOld(h) ==
  /\ pc[h] = "rotate"
  /\ token' = [token EXCEPT ![req[h].token] = "revoked"]
  /\ Goto(h, "create")
  /\ UNCHANGED <<enabled, factors, devices, cookie, req, seen, answer, history>>

\* createRefreshToken, at the end of login, verifyMfa and refresh.
CreateToken(h) ==
  /\ pc[h] = "create"
  /\ token' = [token EXCEPT ![h] = "live"]
  /\ parent' = [parent EXCEPT ![h] = IF req[h].kind = "refresh" THEN req[h].token ELSE None]
  /\ Goto(h, "respond")
  /\ UNCHANGED <<enabled, factors, devices, cookie, req, seen, answer, spent, reused,
                 proved, raced>>

\* revokeRefreshToken: a missing cookie is no error, and neither is an error of
\* the database, which is caught.  Rows are never deleted, so that the lookup
\* and the update by id are one step.
Logout(h) ==
  /\ pc[h] = "logout"
  /\ \/ Proceed(h, "respond")
     \/ /\ req[h].token # None
        /\ token' = [token EXCEPT ![req[h].token] = "revoked"]
        /\ Goto(h, "respond")
        /\ UNCHANGED <<enabled, factors, devices, cookie, req, seen, answer, history>>

\* What an answer does to the cookie of the browser.
CookieAfter(h) == CASE req[h].kind \in {"login", "verify", "refresh"} -> h
                    [] req[h].kind = "logout" -> None
                    [] OTHER -> cookie[req[h].browser]

Respond(h) ==
  /\ pc[h] = "respond"
  /\ Goto(h, "done")
  /\ answer' = [answer EXCEPT ![h] = "OK"]
  /\ cookie' = [cookie EXCEPT ![req[h].browser] = CookieAfter(h)]
  /\ seen' = [seen EXCEPT ![h] = NoRead]
  /\ UNCHANGED <<dbVars, req, history>>

\* The process or the database fails, or the answer is lost.
Interrupt(h) == pc[h] \notin {"arrive", "done"} /\ End(h, "LOST")

\* Seven days pass.
Expire(t) ==
  /\ token[t] = "live"
  /\ token' = [token EXCEPT ![t] = "expired"]
  /\ UNCHANGED <<enabled, factors, devices, cookie, procVars, history>>

-----------------------------------------------------------------------------

Step(h) ==
  \/ Send(h) \/ ReadUser(h) \/ CheckTrust(h)
  \/ FindFactor(h) \/ WriteCodes(h) \/ Confirm(h)
  \/ FindDevice(h) \/ TouchDevice(h) \/ BindDevice(h)
  \/ FindEnrolled(h) \/ Enrol(h) \/ Replace(h)
  \/ FindListed(h) \/ DeleteDevice(h)
  \/ FindToken(h) \/ RevokeOld(h) \/ CreateToken(h) \/ Logout(h)
  \/ Respond(h) \/ Interrupt(h)

Next == \/ \E h \in Handlers : Step(h)
        \/ \E t \in Tokens : Expire(t)

Spec == Init /\ [][Next]_vars

-----------------------------------------------------------------------------
(* Properties.                                                             *)

Pcs == {"arrive", "user", "trusted", "factor", "codes", "confirm", "device", "touch",
        "bind", "setup", "enrol", "replace", "listed", "delete", "lookup", "rotate",
        "create", "logout", "respond", "done"}

Answers == {"NONE", "OK", "LOST", "AUTH_INVALID_CREDENTIALS", "REQUIRES_MFA",
            "AUTH_MFA_SESSION_EXPIRED", "AUTH_MFA_NOT_CONFIGURED", "AUTH_MFA_INVALID",
            "AUTH_REFRESH_EXPIRED", "DEVICE_NOT_FOUND", "INTERNAL_ERROR"}

Request == [kind : Kinds \cup {"none"}, browser : Browsers \cup {None},
            token : Tokens \cup {None}, code : Code, device : Tokens \cup {None}]

Read == [enabled : BOOLEAN, factor : Factor, device : Tokens \cup {None}]

\* Every variable has its type: the rows, the cookies, what a handler holds.
TypeOK ==
  /\ token \in [Tokens -> TokenState]
  /\ enabled \in BOOLEAN
  /\ factors \subseteq Factor
  /\ devices \subseteq Device
  /\ cookie \in [Browsers -> Tokens \cup {None}]
  /\ req \in [Handlers -> Request]
  /\ pc \in [Handlers -> Pcs]
  /\ seen \in [Handlers -> Read]
  /\ answer \in [Handlers -> Answers]
  /\ parent \in [Tokens -> Tokens \cup {None}]
  /\ spent \subseteq Code
  /\ reused \subseteq Code
  /\ proved \subseteq Secrets
  /\ raced \in BOOLEAN

\* rotateRefreshToken revokes before it issues: while a token can still be used
\* no token has been issued in its place.
OnlyLeavesLive == \A s, t \in Tokens : parent[s] = t => token[t] # "live"

\* A refresh or a logout that carries t and has not delivered its answer.
Consuming(t) ==
  \E h \in Handlers : /\ req[h].kind \in {"refresh", "logout"}
                      /\ req[h].token = t
                      /\ (pc[h] # "done" \/ answer[h] = "LOST")

\* A browser keeps a token that has been revoked under it only until the answer
\* of the refresh or logout that revoked it arrives, or for good when that
\* request was interrupted: no other request ends its session, however the
\* requests of the customer's browsers overlap.
BrowserKeepsItsSession ==
  \A b \in Browsers, t \in Tokens :
    (cookie[b] = t /\ token[t] = "revoked") => Consuming(t)

\* verifyMfa accepts a backup code a second time only when its requests raced
\* with each other or with a setup: the list is written whole from what was read.
CodeReusedOnlyByRace == reused # {} => raced

\* A factor counts as verified only if a code of the secret it holds now has
\* been accepted, unless a setup replaced the secret under a verification.
VerifiedWasProved == \A f \in factors : f.verified => (f.secret \in proved \/ raced)
=============================================================================

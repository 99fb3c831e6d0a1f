---------------------------- MODULE Credentials ----------------------------
(***************************************************************************)
(* The credentials of one customer in the Next.js application: password,   *)
(* MFA factors, and the tokens of "forgot password" and of the account     *)
(* recovery that an operator starts.  A handler is one request; it is cut  *)
(* at every await on the database, and a $transaction takes effect in one  *)
(* step.  Cookies and pages are the subject of Browser.                    *)
(***************************************************************************)
EXTENDS Integers, FiniteSets, Sequences, SequencesExt

CONSTANTS
  Handlers,  \* requests; also the passwords, secrets and tokens they create
  Kinds,     \* the requests that may be sent
  Initial,   \* the first password, and the factor of an earlier enrolment
  Unknown,   \* a token no row has; for forgot-password, an unknown address
  Demo,      \* the code that is accepted whatever the factor is
  None

ASSUME CredentialsAssumption ==
  /\ Kinds \subseteq {"setup", "verify", "forgot", "reset", "recover", "operator", "profile"}
  /\ Cardinality({Initial, Unknown, Demo, None}) = 4
  /\ {Initial, Unknown, Demo, None} \cap Handlers = {}

Passwords == Handlers \cup {Initial}
Secrets   == Handlers \cup {Initial}

\* used: usedAt is set; expired: it is not, and expiresAt has passed.
TokenState == {"none", "live", "expired", "used"}
Unused     == {"live", "expired"}

NoRequest == [kind |-> "none", code |-> None, secret |-> None, token |-> None, current |-> None]
NoRead    == [factor |-> None, unused |-> {}]

VARIABLES
  password,       \* User.passwordHash
  mfaEnabled,     \* User.mfaEnabled
  factors,        \* MfaFactor: the secrets in the order of createdAt
  verified,       \* the factors with a verifiedAt
  resetToken,     \* PasswordResetToken, by the request that creates the row
  recoveryToken,  \* AccountRecoveryToken, likewise
  audit,          \* AuditEvent: the requests that have an entry
  req, pc, seen, answer,   \* the handlers
  \* history, for the properties
  met,      \* pairs of requests that were under way at one time
  wrote,    \* requests that changed a credential
  proved,   \* codes accepted so far
  bare      \* a verification read no factor and enabled MFA

dbVars   == <<password, mfaEnabled, factors, verified, resetToken, recoveryToken, audit>>
procVars == <<req, pc, seen, answer>>
history  == <<met, wrote, proved, bare>>
vars     == <<dbVars, procVars, history>>

Init ==
  /\ password = Initial
  /\ mfaEnabled \in BOOLEAN
  /\ factors = IF mfaEnabled THEN <<Initial>> ELSE <<>>
  /\ verified = ToSet(factors)
  /\ resetToken = [h \in Handlers |-> "none"]
  /\ recoveryToken = [h \in Handlers |-> "none"]
  /\ audit = {}
  /\ req = [h \in Handlers |-> NoRequest]
  /\ pc = [h \in Handlers |-> "arrive"]
  /\ seen = [h \in Handlers |-> NoRead]
  /\ answer = [h \in Handlers |-> "NONE"]
  /\ met = {} /\ wrote = {} /\ proved = {Initial} /\ bare = FALSE

Goto(h, l) == pc' = [pc EXCEPT ![h] = l]

\* h goes on and changes nothing.
Proceed(h, l) == /\ Goto(h, l)
                 /\ UNCHANGED <<dbVars, req, seen, answer, history>>

\* h ends; seen is of no more use.
End(h, a) == /\ Goto(h, "done")
             /\ answer' = [answer EXCEPT ![h] = a]
             /\ seen' = [seen EXCEPT ![h] = NoRead]
             /\ UNCHANGED <<dbVars, req, history>>

Refuse(h) == End(h, "REFUSED")

InFlight == {h \in Handlers : pc[h] \notin {"arrive", "done"}}

-----------------------------------------------------------------------------
(* The customer, or an operator, sends a request.                          *)

First(k) == CASE k = "setup"    -> "owner"
              [] k = "verify"   -> "factors"
              [] k = "forgot"   -> "address"
              [] k = "reset"    -> "reset token"
              [] k = "recover"  -> "recovery token"
              [] k = "operator" -> "match"
              [] k = "profile"  -> "profile"

\* Secrets, tokens and passwords somebody can have: a setup shows its secret in
\* its answer, an operator reads the recovery token in it, a reset token is in
\* the mail, which may have been sent although the request failed.
Shown    == {h \in Handlers : req[h].kind = "setup" /\ answer[h] = "OK"} \cup {Initial}
Handed   == {h \in Handlers : recoveryToken[h] # "none" /\ answer[h] = "OK"}
Mailed   == {h \in Handlers : resetToken[h] # "none" /\ pc[h] \in {"reply", "done"}}
Chosen   == {h \in Handlers : req[h].kind \in {"reset", "recover", "profile"}} \cup {Initial}

\* The page that has just shown a secret sends it with the code.
Requests ==
  {r \in [kind : Kinds, code : Shown \cup {Demo, None}, secret : Shown \cup {None},
          token : Handed \cup Mailed \cup {Unknown, None}, current : Chosen \cup {None}] :
     /\ (r.kind = "verify") <=> (r.code # None)
     /\ r.secret \in {r.code, None}
     /\ r.kind \in {"reset", "recover"} => r.token # None
     /\ r.kind = "forgot" => r.token \in {Unknown, None}
     /\ r.kind \notin {"reset", "recover", "forgot"} => r.token = None
     /\ r.kind # "profile" => r.current = None}

Send(h) ==
  /\ pc[h] = "arrive"
  /\ \E r \in Requests : /\ req' = [req EXCEPT ![h] = r]
                         /\ Goto(h, First(r.kind))
  /\ met' = met \cup {{g, h} : g \in InFlight}
  /\ UNCHANGED <<dbVars, seen, answer, wrote, proved, bare>>

-----------------------------------------------------------------------------
(* mfa/setup: every call adds a factor.                                    *)

\* requireAuth, and the lookup of the customer.
FindOwner(h) ==
  /\ pc[h] = "owner"
  /\ Refuse(h) \/ Proceed(h, "enrol")

CreateFactor(h) ==
  /\ pc[h] = "enrol"
  /\ factors' = Append(factors, h)
  /\ wrote' = wrote \cup {h}
  /\ Goto(h, "reply")
  /\ UNCHANGED <<password, mfaEnabled, verified, resetToken, recoveryToken, audit,
                 req, seen, answer, met, proved, bare>>

-----------------------------------------------------------------------------
(* mfa/verify.                                                             *)

Latest == IF factors = <<>> THEN None ELSE Last(factors)

\* Mutant of Accepts: any factor of the customer will do.
AcceptsAny(r) == r.code \in {r.secret, Demo} \cup ToSet(factors)

\* The code is good for the secret that came with it, for the latest factor, or
\* for the demonstration.
Accepts(r) == r.code \in {r.secret, Latest, Demo}

FindFactors(h) ==
  /\ pc[h] = "factors"
  /\ \/ Refuse(h)
     \/ /\ Accepts(req[h])
        /\ seen' = [seen EXCEPT ![h].factor = Latest]
        /\ Goto(h, "activate")
        /\ UNCHANGED <<dbVars, req, answer, history>>

\* Mutant of FactorGone: the factor is updated by updateMany, which may find none.
FactorGoneIgnored(h) == FALSE

\* mfaFactor.update fails when a recovery has deleted the factor (P2025), and
\* takes the update of the user with it.
FactorGone(h) == seen[h].factor # None /\ seen[h].factor \notin ToSet(factors)

Activate(h) ==
  /\ pc[h] = "activate"
  /\ ~FactorGone(h)
  /\ mfaEnabled' = TRUE
  /\ verified' = verified \cup ({seen[h].factor} \cap ToSet(factors))
  /\ wrote' = wrote \cup {h}
  /\ proved' = proved \cup {req[h].code}
  /\ bare' = (bare \/ seen[h].factor = None)
  /\ Goto(h, "reply")
  /\ UNCHANGED <<password, factors, resetToken, recoveryToken, audit, req, seen, answer, met>>

ActivateAborts(h) == pc[h] = "activate" /\ FactorGone(h) /\ Refuse(h)

-----------------------------------------------------------------------------
(* forgot-password.                                                        *)

\* An unknown address is answered, and sent a token, like any other.
FindAddress(h) ==
  /\ pc[h] = "address"
  /\ Proceed(h, IF req[h].token = Unknown THEN "mail" ELSE "invalidate")

\* Mutant of Invalidate: the earlier tokens stay.
InvalidateNone(h) == pc[h] = "invalidate" /\ Proceed(h, "create")

\* updateMany where usedAt is null.
Invalidate(h) ==
  /\ pc[h] = "invalidate"
  /\ resetToken' = [t \in Handlers |-> IF resetToken[t] \in Unused THEN "used"
                                                                   ELSE resetToken[t]]
  /\ Goto(h, "create")
  /\ UNCHANGED <<password, mfaEnabled, factors, verified, recoveryToken, audit,
                 req, seen, answer, history>>

CreateResetToken(h) ==
  /\ pc[h] = "create"
  /\ resetToken' = [resetToken EXCEPT ![h] = "live"]
  /\ wrote' = wrote \cup {h}
  /\ Goto(h, "mail")
  /\ UNCHANGED <<password, mfaEnabled, factors, verified, recoveryToken, audit,
                 req, seen, answer, met, proved, bare>>

SendMail(h) == pc[h] = "mail" /\ Proceed(h, "reply")

-----------------------------------------------------------------------------
(* reset-password, and recover with a reset token.                         *)

Row(tokens, t) == IF t = Unknown THEN "none" ELSE tokens[t]

\* Mutant of FindResetToken: usedAt is not looked at.
FindResetTokenUsed(h) ==
  /\ pc[h] = "reset token"
  /\ CASE Row(resetToken, req[h].token) \in {"live", "used"} -> Proceed(h, "reset")
       [] Row(resetToken, req[h].token) = "none" -> Refuse(h) \/ Proceed(h, "reply")
       [] OTHER                                  -> Refuse(h)

\* A token no row has, if it is long enough, is answered like a good one; a row
\* is judged by usedAt and expiresAt.
FindResetToken(h) ==
  /\ pc[h] = "reset token"
  /\ CASE Row(resetToken, req[h].token) = "live" -> Proceed(h, "reset")
       [] Row(resetToken, req[h].token) = "none" -> Refuse(h) \/ Proceed(h, "reply")
       [] OTHER                                  -> Refuse(h)

\* What a recovery does besides: MFA is off and no factor is left.
Clears(h) == req[h].kind = "recover"

\* The transaction; nothing is asked about the token again.
ResetPassword(h) ==
  /\ pc[h] = "reset"
  /\ password' = h
  /\ mfaEnabled' = (mfaEnabled /\ ~Clears(h))
  /\ factors' = IF Clears(h) THEN <<>> ELSE factors
  /\ verified' = IF Clears(h) THEN {} ELSE verified
  /\ resetToken' = [resetToken EXCEPT ![req[h].token] = "used"]
  /\ wrote' = wrote \cup {h}
  /\ Goto(h, "reply")
  /\ UNCHANGED <<recoveryToken, audit, req, seen, answer, met, proved, bare>>

-----------------------------------------------------------------------------
(* recover, with the token of an operator.                                 *)

FindRecoveryToken(h) ==
  /\ pc[h] = "recovery token"
  /\ CASE Row(recoveryToken, req[h].token) = "live" -> Proceed(h, "recover")
       [] Row(recoveryToken, req[h].token) = "none" -> Proceed(h, "reset token")
       [] OTHER                                     -> Refuse(h)

RecoverAccount(h) ==
  /\ pc[h] = "recover"
  /\ password' = h
  /\ mfaEnabled' = FALSE
  /\ factors' = <<>>
  /\ verified' = {}
  /\ recoveryToken' = [recoveryToken EXCEPT ![req[h].token] = "used"]
  /\ wrote' = wrote \cup {h}
  /\ Goto(h, "audit")
  /\ UNCHANGED <<resetToken, audit, req, seen, answer, met, proved, bare>>

-----------------------------------------------------------------------------
(* admin/recover: an operator issues a token.                              *)

\* requireRole, and the three details the customer must match.
MatchCustomer(h) ==
  /\ pc[h] = "match"
  /\ Refuse(h) \/ Proceed(h, "snapshot")

\* updateMany, the first statement of the transaction: it finds the rows that
\* are committed when it starts.
FindUnused(h) ==
  /\ pc[h] = "snapshot"
  /\ seen' = [seen EXCEPT ![h].unused = {t \in Handlers : recoveryToken[t] \in Unused}]
  /\ Goto(h, "issue")
  /\ UNCHANGED <<dbVars, req, answer, history>>

\* The second statement and the commit.
IssueRecoveryToken(h) ==
  /\ pc[h] = "issue"
  /\ recoveryToken' = [t \in Handlers |-> IF t = h THEN "live"
                                          ELSE IF t \in seen[h].unused THEN "used"
                                          ELSE recoveryToken[t]]
  /\ wrote' = wrote \cup {h}
  /\ Goto(h, "audit")
  /\ UNCHANGED <<password, mfaEnabled, factors, verified, resetToken, audit,
                 req, seen, answer, met, proved, bare>>

\* Mutant of RecordAuditEvent: an error is logged and swallowed.
RecordAuditEventSwallowed(h) == pc[h] = "audit" /\ Proceed(h, "reply")

\* recordAuditEvent, after the commit of a recovery or of its start.
RecordAuditEvent(h) ==
  /\ pc[h] = "audit"
  /\ audit' = audit \cup {h}
  /\ Goto(h, "reply")
  /\ UNCHANGED <<password, mfaEnabled, factors, verified, resetToken, recoveryToken,
                 req, seen, answer, history>>

-----------------------------------------------------------------------------
(* PATCH user/profile with a new password.                                 *)

\* The current password is compared only if it was sent.
FindProfile(h) ==
  /\ pc[h] = "profile"
  /\ \/ Refuse(h)
     \/ req[h].current \in {None, password} /\ Proceed(h, "update")

UpdateProfile(h) ==
  /\ pc[h] = "update"
  /\ password' = h
  /\ wrote' = wrote \cup {h}
  /\ Goto(h, "reply")
  /\ UNCHANGED <<mfaEnabled, factors, verified, resetToken, recoveryToken, audit,
                 req, seen, answer, met, proved, bare>>

-----------------------------------------------------------------------------

Reply(h) == pc[h] = "reply" /\ End(h, "OK")

\* The database, the mail gateway or the process fails, or the answer is lost.
Interrupt(h) == h \in InFlight /\ End(h, "ERROR")

\* Thirty minutes pass.
ExpireReset(t) ==
  /\ resetToken[t] = "live"
  /\ resetToken' = [resetToken EXCEPT ![t] = "expired"]
  /\ UNCHANGED <<password, mfaEnabled, factors, verified, recoveryToken, audit,
                 procVars, history>>

ExpireRecovery(t) ==
  /\ recoveryToken[t] = "live"
  /\ recoveryToken' = [recoveryToken EXCEPT ![t] = "expired"]
  /\ UNCHANGED <<password, mfaEnabled, factors, verified, resetToken, audit,
                 procVars, history>>

Step(h) ==
  \/ Send(h) \/ FindOwner(h) \/ CreateFactor(h)
  \/ FindFactors(h) \/ Activate(h) \/ ActivateAborts(h)
  \/ FindAddress(h) \/ Invalidate(h) \/ CreateResetToken(h) \/ SendMail(h)
  \/ FindResetToken(h) \/ ResetPassword(h)
  \/ FindRecoveryToken(h) \/ RecoverAccount(h)
  \/ MatchCustomer(h) \/ FindUnused(h) \/ IssueRecoveryToken(h) \/ RecordAuditEvent(h)
  \/ FindProfile(h) \/ UpdateProfile(h)
  \/ Reply(h) \/ Interrupt(h) \/ ExpireReset(h) \/ ExpireRecovery(h)

Next == \E h \in Handlers : Step(h)

Spec == Init /\ [][Next]_vars

-----------------------------------------------------------------------------
(* Properties.                                                             *)

Pcs == {"arrive", "owner", "enrol", "factors", "activate", "address", "invalidate",
        "create", "mail", "reset token", "reset", "recovery token", "recover", "match",
        "snapshot", "issue", "audit", "profile", "update", "reply", "done"}

Request == [kind : Kinds \cup {"none"}, code : Secrets \cup {Demo, None},
            secret : Secrets \cup {None}, token : Handlers \cup {Unknown, None},
            current : Passwords \cup {None}]

Read == [factor : Secrets \cup {None}, unused : SUBSET Handlers]

\* Every variable has its type: the rows, the tokens, what a handler holds.
TypeOK ==
  /\ password \in Passwords
  /\ mfaEnabled \in BOOLEAN
  /\ factors \in Seq(Secrets)
  /\ verified \subseteq Secrets
  /\ resetToken \in [Handlers -> TokenState]
  /\ recoveryToken \in [Handlers -> TokenState]
  /\ audit \subseteq Handlers
  /\ req \in [Handlers -> Request]
  /\ pc \in [Handlers -> Pcs]
  /\ seen \in [Handlers -> Read]
  /\ answer \in [Handlers -> {"NONE", "OK", "REFUSED", "ERROR"}]
  /\ met \subseteq SUBSET Handlers
  /\ wrote \subseteq Handlers
  /\ proved \subseteq Secrets \cup {Demo}
  /\ bare \in BOOLEAN

\* The requests that spent token t: they changed the password with it.
Spenders(t) == {h \in wrote : req[h].kind \in {"reset", "recover"} /\ req[h].token = t}

\* A reset or recovery token changes the password twice only when the two
\* requests were under way at one time: usedAt is looked at before, and not in,
\* the transaction that sets it.  Links that are opened one after the other
\* work once.
SpentTwiceOnlyByRace ==
  \A t \in Handlers : \A g, h \in Spenders(t) : g # h => {g, h} \in met

\* Two reset tokens, or two recovery tokens, are unused at one time only when
\* the requests that issued them were under way at one time: a request that
\* comes later invalidates what was issued before.
UnusedTwiceOnlyByRace ==
  \A g, h \in Handlers :
    (g # h /\ \E tokens \in {resetToken, recoveryToken} : {tokens[g], tokens[h]} \subseteq Unused)
      => {g, h} \in met

\* MFA is on without a factor only if a verification that found no factor, and
\* accepted the secret the page sent or the demo code, turned it on.  A recovery
\* that deletes the factor under a verification is not undone by it.
EnabledHasFactor == (mfaEnabled /\ factors = <<>>) => bare

\* A factor counts as verified only if one of its own codes was accepted, or if
\* a verification of another secret, sent by the page that showed it, or of the
\* demo code stood in for it.
VerifiedWasProved ==
  \A f \in verified :
    \/ f \in proved
    \/ \E h \in wrote : /\ req[h].kind = "verify"
                        /\ req[h].code # f
                        /\ req[h].code \in {req[h].secret, Demo}

\* The requests whose effect the audit trail must show.
Audited(h) == \/ req[h].kind = "operator"
              \/ req[h].kind = "recover" /\ Row(recoveryToken, req[h].token) # "none"

\* The audit trail shows a recovery, or its start, only if it happened, and
\* shows each one that was answered with success; one that happened is missing
\* only until the handler gets there, or when it failed before.
AuditTellsTheTruth ==
  /\ audit \subseteq {h \in wrote : Audited(h)}
  /\ \A h \in wrote \ audit : Audited(h) => (pc[h] = "audit" \/ answer[h] = "ERROR")
=============================================================================

------------------------- MODULE CredentialsProofs -------------------------
(***************************************************************************)
(* Theorems of Credentials, for every set of requests.                     *)
(***************************************************************************)
EXTENDS Credentials, TLAPS

-----------------------------------------------------------------------------
(* The invariant, in parts.                                                *)

\* The control points that each kind of request goes through, apart from
\* "audit", "reply" and "done".
PathOf(k) == CASE k = "setup"    -> {"owner", "enrol"}
               [] k = "verify"   -> {"factors", "activate"}
               [] k = "forgot"   -> {"address", "invalidate", "create", "mail"}
               [] k = "reset"    -> {"reset token", "reset"}
               [] k = "recover"  -> {"recovery token", "recover", "reset token", "reset", "audit"}
               [] k = "operator" -> {"match", "snapshot", "issue", "audit"}
               [] k = "profile"  -> {"profile", "update"}

\* A handler stands on the path of its request, has written only if it is past
\* its last statement on the credentials, and has answered only if it is done.
PathsOf(h) ==
  /\ pc[h] = "arrive" => req[h] = NoRequest
  /\ pc[h] # "arrive" => req[h].kind \in Kinds
  /\ pc[h] \notin {"arrive", "reply", "done"} => pc[h] \in PathOf(req[h].kind)
  /\ req[h].kind = "verify" => req[h].code # None
  /\ req[h].kind \in {"reset", "recover"} => req[h].token \in Handlers \cup {Unknown}
  /\ h \in wrote => pc[h] \in {"mail", "audit", "reply", "done"}
  /\ pc[h] # "done" => answer[h] = "NONE"

Paths == \A h \in Handlers : PathsOf(h)

\* A token is that of the request that created its row, and a handler that is
\* about to spend one, or to invalidate some, has read their rows.
RowsOf(h) ==
  /\ resetToken[h] # "none" => req[h].kind = "forgot" /\ pc[h] \in {"mail", "reply", "done"}
  /\ recoveryToken[h] # "none" => req[h].kind = "operator" /\ pc[h] \in {"audit", "reply", "done"}
  /\ pc[h] = "reset" => req[h].token \in Handlers /\ resetToken[req[h].token] # "none"
  /\ pc[h] = "recover" => req[h].token \in Handlers /\ recoveryToken[req[h].token] # "none"
  /\ \A t \in seen[h].unused : recoveryToken[t] # "none"

Rows == \A h \in Handlers : RowsOf(h)

\* Requests that are under way at one time have met.
Meetings == \A g, h \in InFlight : g # h => {g, h} \in met

Base == TypeOK /\ Paths /\ Rows /\ Meetings

\* A token that was spent is used, and who still holds it has met who spent it.
Spent ==
  \A t \in Handlers : \A g \in Spenders(t) :
    /\ resetToken[t] = "used" \/ recoveryToken[t] = "used"
    /\ \A h \in Handlers \ {g} :
         pc[h] \in {"reset", "recover"} /\ req[h].token = t => {g, h} \in met

\* Whatever is unused when a request is about to issue a token, and will not be
\* invalidated by it, is of a request it has met.
Issuing ==
  \A g, h \in Handlers : g # h =>
    /\ pc[h] = "create" /\ resetToken[g] \in Unused => {g, h} \in met
    /\ pc[h] = "issue" /\ recoveryToken[g] \in Unused /\ g \notin seen[h].unused
         => {g, h} \in met

\* The code of a verification that goes on was good for the factor it has read,
\* or for the secret that came with it, or is the demo code.
Accepted ==
  \A h \in Handlers : pc[h] = "activate" =>
    req[h].kind = "verify" /\ req[h].code \in {seen[h].factor, req[h].secret, Demo}

\* A handler that is about to audit has done what the entry says.
Auditing == \A h \in Handlers : pc[h] = "audit" => h \in wrote /\ Audited(h)

IInv == /\ Base /\ Spent /\ SpentTwiceOnlyByRace /\ Issuing /\ UnusedTwiceOnlyByRace
        /\ EnabledHasFactor /\ Accepted /\ VerifiedWasProved /\ Auditing /\ AuditTellsTheTruth

-----------------------------------------------------------------------------
(* Types.                                                                  *)

LEMMA ProceedType ==
  ASSUME TypeOK, NEW h \in Handlers, NEW l \in Pcs, Proceed(h, l)
  PROVE  TypeOK'
BY DEF TypeOK, Proceed, Goto, dbVars, history

LEMMA EndType ==
  ASSUME TypeOK, NEW h \in Handlers, NEW a \in {"OK", "REFUSED", "ERROR"}, End(h, a)
  PROVE  TypeOK'
<1>1. NoRead \in Read
  BY DEF NoRead, Read
<1> QED BY <1>1 DEF TypeOK, End, Goto, Pcs, dbVars, history

LEMMA InitType == CredentialsAssumption /\ Init => TypeOK
<1> SUFFICES ASSUME CredentialsAssumption, Init PROVE TypeOK
  OBVIOUS
<1>1. NoRequest \in Request /\ NoRead \in Read
  BY DEF NoRequest, Request, NoRead, Read
<1>2. factors \in Seq(Secrets)
  <2>1. Initial \in Secrets
    BY DEF Secrets
  <2>2. <<Initial>> \in Seq(Secrets) /\ <<>> \in Seq(Secrets)
    BY <2>1
  <2> QED BY <2>2 DEF Init
<1>3. verified \subseteq Secrets
  BY <1>2 DEF Init, Secrets, ToSet
<1> QED BY <1>1, <1>2, <1>3 DEF Init, TypeOK, Pcs, Passwords, Secrets, TokenState

\* The latest factor is one of them.
LEMMA LatestIsFactor ==
  ASSUME factors \in Seq(Secrets)
  PROVE  Latest \in Secrets \cup {None}
BY DEF Latest, Last

LEMMA StepType ==
  ASSUME CredentialsAssumption, TypeOK, Paths, NEW h \in Handlers, Step(h)
  PROVE  TypeOK'
<1>1. CASE Send(h)
  <2>1. PICK r \in Requests : req' = [req EXCEPT ![h] = r] /\ Goto(h, First(r.kind))
    BY <1>1 DEF Send
  <2>2. r \in Request
    BY <2>1 DEF Requests, Request, Shown, Handed, Mailed, Chosen, Secrets, Passwords
  <2>3. First(r.kind) \in Pcs
    BY <2>1 DEF Requests, First, Pcs, CredentialsAssumption
  <2>4. req' \in [Handlers -> Request] /\ pc' \in [Handlers -> Pcs]
    BY <2>1, <2>2, <2>3 DEF TypeOK, Goto
  <2>5. met' \subseteq SUBSET Handlers
    BY <1>1 DEF Send, TypeOK, InFlight
  <2> QED BY <1>1, <2>4, <2>5 DEF Send, TypeOK, dbVars
<1>2. CASE CreateFactor(h)
  <2>1. h \in Secrets
    BY DEF Secrets
  <2>2. factors' \in Seq(Secrets)
    BY <1>2, <2>1 DEF CreateFactor, TypeOK
  <2> QED BY <1>2, <2>2 DEF CreateFactor, TypeOK, Goto, Pcs
<1>3. CASE FindFactors(h)
  <2>1. CASE Refuse(h)
    BY <2>1, EndType DEF Refuse
  <2>2. CASE ~Refuse(h)
    <3>1. seen' = [seen EXCEPT ![h].factor = Latest] /\ Latest \in Secrets \cup {None}
      BY <1>3, <2>2, LatestIsFactor DEF FindFactors, TypeOK
    <3>2. seen' \in [Handlers -> Read]
      BY <3>1 DEF TypeOK, Read
    <3> QED BY <1>3, <2>2, <3>2 DEF FindFactors, TypeOK, Goto, Pcs, dbVars, history
  <2> QED BY <2>1, <2>2
<1>4. CASE Activate(h)
  <2>1. verified' \subseteq Secrets
    BY <1>4 DEF Activate, TypeOK, ToSet
  <2>2. req[h].code \in Secrets \cup {Demo}
    <3>1. req[h].kind = "verify"
      BY <1>4 DEF Activate, Paths, PathsOf, PathOf, CredentialsAssumption
    <3> QED BY <3>1 DEF Paths, PathsOf, TypeOK, Request
  <2> QED BY <1>4, <2>1, <2>2 DEF Activate, TypeOK, Goto, Pcs
<1>5. CASE Invalidate(h)
  BY <1>5 DEF Invalidate, TypeOK, Goto, Pcs, history, TokenState
<1>6. CASE CreateResetToken(h)
  BY <1>6 DEF CreateResetToken, TypeOK, Goto, Pcs, TokenState
<1>7. CASE ResetPassword(h)
  <2>1. factors' \in Seq(Secrets)
    BY <1>7 DEF ResetPassword, TypeOK
  <2>2. /\ password' \in Passwords /\ mfaEnabled' \in BOOLEAN /\ verified' \subseteq Secrets
        /\ wrote' \subseteq Handlers /\ pc' \in [Handlers -> Pcs]
    BY <1>7 DEF ResetPassword, TypeOK, Goto, Pcs, Passwords
  <2>3. /\ resetToken' \in [Handlers -> TokenState]
        /\ recoveryToken' \in [Handlers -> TokenState]
    BY <1>7 DEF ResetPassword, TypeOK, TokenState
  <2> QED BY <1>7, <2>1, <2>2, <2>3 DEF ResetPassword, TypeOK
<1>8. CASE RecoverAccount(h)
  <2>1. factors' \in Seq(Secrets)
    BY <1>8 DEF RecoverAccount, TypeOK
  <2>2. /\ password' \in Passwords /\ mfaEnabled' \in BOOLEAN /\ verified' \subseteq Secrets
        /\ wrote' \subseteq Handlers /\ pc' \in [Handlers -> Pcs]
    BY <1>8 DEF RecoverAccount, TypeOK, Goto, Pcs, Passwords
  <2>3. /\ resetToken' \in [Handlers -> TokenState]
        /\ recoveryToken' \in [Handlers -> TokenState]
    BY <1>8 DEF RecoverAccount, TypeOK, TokenState
  <2> QED BY <1>8, <2>1, <2>2, <2>3 DEF RecoverAccount, TypeOK
<1>9. CASE FindUnused(h)
  <2>1. seen' \in [Handlers -> Read]
    BY <1>9 DEF FindUnused, TypeOK, Read
  <2> QED BY <1>9, <2>1 DEF FindUnused, TypeOK, Goto, Pcs, dbVars, history
<1>10. CASE IssueRecoveryToken(h)
  BY <1>10 DEF IssueRecoveryToken, TypeOK, Goto, Pcs, TokenState
<1>11. CASE RecordAuditEvent(h)
  BY <1>11 DEF RecordAuditEvent, TypeOK, Goto, Pcs, history
<1>12. CASE UpdateProfile(h)
  BY <1>12 DEF UpdateProfile, TypeOK, Goto, Pcs, Passwords
<1>13. CASE ExpireReset(h) \/ ExpireRecovery(h)
  BY <1>13 DEF ExpireReset, ExpireRecovery, TypeOK, procVars, history, TokenState
<1>14. CASE Refuse(h) \/ Reply(h) \/ Interrupt(h) \/ ActivateAborts(h)
  BY <1>14, EndType DEF Refuse, Reply, Interrupt, ActivateAborts
<1>15. CASE \E l \in Pcs : Proceed(h, l)
  BY <1>15, ProceedType
<1>16. FindOwner(h) => Refuse(h) \/ Proceed(h, "enrol")
  BY DEF FindOwner
<1>17. FindAddress(h) \/ SendMail(h) => \E l \in Pcs : Proceed(h, l)
  BY DEF FindAddress, SendMail, Pcs
<1>18. FindResetToken(h) \/ FindRecoveryToken(h) => Refuse(h) \/ \E l \in Pcs : Proceed(h, l)
  BY DEF FindResetToken, FindRecoveryToken, Pcs
<1>19. MatchCustomer(h) \/ FindProfile(h) => Refuse(h) \/ \E l \in Pcs : Proceed(h, l)
  BY DEF MatchCustomer, FindProfile, Pcs
<1> QED BY <1>1, <1>2, <1>3, <1>4, <1>5, <1>6, <1>7, <1>8, <1>9, <1>10, <1>11, <1>12, <1>13,
           <1>14, <1>15, <1>16, <1>17, <1>18, <1>19 DEF Step, Pcs

-----------------------------------------------------------------------------
(* Paths.                                                                  *)

\* A handler that goes on along its path, or ends, keeps the invariant.
LEMMA MovePaths ==
  ASSUME TypeOK, Paths, NEW h \in Handlers, NEW l \in Pcs,
         pc[h] \notin {"arrive", "done"}, req' = req, Goto(h, l),
         l \in {"reply", "done"} \cup PathOf(req[h].kind), l # "arrive",
         \A g \in Handlers : g # h => answer'[g] = answer[g],
         l # "done" => answer'[h] = answer[h],
         wrote' \subseteq wrote \cup {h},
         h \in wrote' => l \in {"mail", "audit", "reply", "done"}
  PROVE  Paths'
<1> SUFFICES ASSUME NEW g \in Handlers PROVE PathsOf(g)'
  BY DEF Paths
<1>1. CASE g = h
  BY <1>1 DEF Paths, PathsOf, TypeOK, Goto
<1>2. CASE g # h
  BY <1>2 DEF Paths, PathsOf, TypeOK, Goto
<1> QED BY <1>1, <1>2

LEMMA EndPaths ==
  ASSUME TypeOK, Paths, NEW h \in Handlers, pc[h] \notin {"arrive", "done"},
         NEW a \in {"OK", "REFUSED", "ERROR"}, End(h, a)
  PROVE  Paths'
BY MovePaths DEF End, TypeOK, Pcs, dbVars, history

LEMMA StepPaths ==
  ASSUME CredentialsAssumption, TypeOK, Paths, NEW h \in Handlers, Step(h)
  PROVE  Paths'
<1> USE DEF PathOf
<1>1. CASE Send(h)
  <2>1. PICK r \in Requests : req' = [req EXCEPT ![h] = r] /\ Goto(h, First(r.kind))
    BY <1>1 DEF Send
  <2>2. /\ r.kind \in Kinds
        /\ r.kind = "verify" => r.code # None
        /\ r.kind \in {"reset", "recover"} => r.token \in Handlers \cup {Unknown}
    BY <2>1 DEF Requests, Handed, Mailed
  <2>3. First(r.kind) \in PathOf(r.kind) /\ First(r.kind) # "arrive"
    BY <2>2 DEF First, CredentialsAssumption
  <2>4. h \notin wrote /\ answer[h] = "NONE"
    BY <1>1 DEF Paths, PathsOf, Send
  <2>5. req'[h] = r /\ pc'[h] = First(r.kind)
    BY <2>1 DEF TypeOK, Goto
  <2>6. answer' = answer /\ wrote' = wrote
    BY <1>1 DEF Send
  <2>7. ASSUME NEW g \in Handlers PROVE PathsOf(g)'
    <3>1. CASE g = h
      BY <3>1, <2>2, <2>3, <2>4, <2>5, <2>6 DEF PathsOf
    <3>2. CASE g # h
      <4>1. req'[g] = req[g] /\ pc'[g] = pc[g]
        BY <3>2, <2>1 DEF TypeOK, Goto
      <4> QED BY <4>1, <2>6 DEF Paths, PathsOf
    <3> QED BY <3>1, <3>2
  <2> QED BY <2>7 DEF Paths
<1> DEFINE Goes(l) == Proceed(h, l) /\ l \in {"reply"} \cup PathOf(req[h].kind)
<1>2. ASSUME NEW l \in Pcs, Goes(l), pc[h] \notin {"arrive", "done"}, l # "arrive",
             h \in wrote => l \in {"mail", "audit", "reply", "done"}
      PROVE  Paths'
  BY <1>2, MovePaths DEF Proceed, dbVars, history
<1>3. ASSUME Refuse(h), pc[h] \notin {"arrive", "done"} PROVE Paths'
  BY <1>3, EndPaths DEF Refuse
<1>4. h \in wrote => pc[h] \in {"mail", "audit", "reply", "done"}
  BY DEF Paths, PathsOf
<1>5. pc[h] \notin {"arrive", "reply", "done"} => pc[h] \in PathOf(req[h].kind) /\ req[h].kind \in Kinds
  BY DEF Paths, PathsOf
<1>6. CASE FindOwner(h)
  BY <1>6, <1>2, <1>3, <1>4, <1>5 DEF FindOwner, Pcs, CredentialsAssumption
<1>7. CASE FindAddress(h)
  BY <1>7, <1>2, <1>3, <1>4, <1>5 DEF FindAddress, Pcs, CredentialsAssumption
<1>8. CASE SendMail(h)
  BY <1>8, <1>2, <1>3, <1>4, <1>5 DEF SendMail, Pcs, CredentialsAssumption
<1>9. CASE FindResetToken(h) \/ FindRecoveryToken(h)
  BY <1>9, <1>2, <1>3, <1>4, <1>5 DEF FindResetToken, FindRecoveryToken, Pcs, CredentialsAssumption
<1>10. CASE MatchCustomer(h)
  BY <1>10, <1>2, <1>3, <1>4, <1>5 DEF MatchCustomer, Pcs, CredentialsAssumption
<1>11. CASE FindProfile(h)
  BY <1>11, <1>2, <1>3, <1>4, <1>5 DEF FindProfile, Pcs, CredentialsAssumption
<1>12. CASE ActivateAborts(h)
  BY <1>12, <1>3 DEF ActivateAborts
<1>13. CASE Reply(h)
  BY <1>13, EndPaths DEF Reply
<1>14. CASE Interrupt(h)
  BY <1>14, EndPaths DEF Interrupt, InFlight
<1>15. CASE CreateFactor(h)
  BY <1>15, <1>4, <1>5, MovePaths DEF CreateFactor, Pcs
<1>16. CASE FindFactors(h)
  BY <1>16, <1>3, <1>4, <1>5, MovePaths DEF FindFactors, Pcs, CredentialsAssumption, history
<1>17. CASE Activate(h)
  BY <1>17, <1>4, <1>5, MovePaths DEF Activate, Pcs
<1>18. CASE Invalidate(h)
  BY <1>18, <1>4, <1>5, MovePaths DEF Invalidate, Pcs, CredentialsAssumption, history
<1>19. CASE CreateResetToken(h)
  BY <1>19, <1>4, <1>5, MovePaths DEF CreateResetToken, Pcs, CredentialsAssumption
<1>20. CASE ResetPassword(h)
  BY <1>20, <1>4, <1>5, MovePaths DEF ResetPassword, Pcs
<1>21. CASE RecoverAccount(h)
  BY <1>21, <1>4, <1>5, MovePaths DEF RecoverAccount, Pcs, CredentialsAssumption
<1>22. CASE FindUnused(h)
  BY <1>22, <1>4, <1>5, MovePaths DEF FindUnused, Pcs, CredentialsAssumption, history
<1>23. CASE IssueRecoveryToken(h)
  BY <1>23, <1>4, <1>5, MovePaths DEF IssueRecoveryToken, Pcs, CredentialsAssumption
<1>24. CASE RecordAuditEvent(h)
  BY <1>24, <1>4, <1>5, MovePaths DEF RecordAuditEvent, Pcs, history
<1>25. CASE UpdateProfile(h)
  BY <1>25, <1>4, <1>5, MovePaths DEF UpdateProfile, Pcs
<1>26. CASE ExpireReset(h) \/ ExpireRecovery(h)
  <2>1. pc' = pc /\ req' = req /\ answer' = answer /\ wrote' = wrote
    BY <1>26 DEF ExpireReset, ExpireRecovery, procVars, history
  <2> QED BY <2>1 DEF Paths, PathsOf
<1> QED BY <1>1, <1>6, <1>7, <1>8, <1>9, <1>10, <1>11, <1>12, <1>13, <1>14, <1>15, <1>16, <1>17,
           <1>18, <1>19, <1>20, <1>21, <1>22, <1>23, <1>24, <1>25, <1>26 DEF Step

-----------------------------------------------------------------------------
(* What one step of a request leaves as it is.                             *)

\* The other requests stay where they are, one that was sent stays what it is,
\* and the history only grows.
LEMMA StepFrame ==
  ASSUME TypeOK, NEW h \in Handlers, Step(h)
  PROVE  /\ \A g \in Handlers \ {h} : /\ pc'[g] = pc[g] /\ req'[g] = req[g] /\ seen'[g] = seen[g]
                                     /\ answer'[g] = answer[g]
         /\ pc[h] # "arrive" => req' = req
         /\ met \subseteq met' /\ wrote \subseteq wrote' /\ wrote' \subseteq wrote \cup {h}
         /\ proved \subseteq proved' /\ audit \subseteq audit'
<1>1. CASE Send(h)
  BY <1>1 DEF Send, Goto, TypeOK, dbVars
<1>2. CASE \E l \in Pcs : Proceed(h, l)
  BY <1>2 DEF Proceed, Goto, TypeOK, dbVars, history
<1>3. CASE \E a \in {"OK", "REFUSED", "ERROR"} : End(h, a)
  BY <1>3 DEF End, Goto, TypeOK, dbVars, history
<1>4. CASE CreateFactor(h)
  BY <1>4 DEF CreateFactor, Goto, TypeOK, dbVars, history
<1>5. CASE FindFactors(h) /\ ~Refuse(h)
  BY <1>5 DEF FindFactors, Goto, TypeOK, dbVars, history
<1>6. CASE Activate(h)
  BY <1>6 DEF Activate, Goto, TypeOK, dbVars, history
<1>7. CASE Invalidate(h)
  BY <1>7 DEF Invalidate, Goto, TypeOK, dbVars, history
<1>8. CASE CreateResetToken(h)
  BY <1>8 DEF CreateResetToken, Goto, TypeOK, dbVars, history
<1>9. CASE ResetPassword(h)
  BY <1>9 DEF ResetPassword, Goto, TypeOK, dbVars, history
<1>10. CASE RecoverAccount(h)
  BY <1>10 DEF RecoverAccount, Goto, TypeOK, dbVars, history
<1>11. CASE FindUnused(h)
  BY <1>11 DEF FindUnused, Goto, TypeOK, dbVars, history
<1>12. CASE IssueRecoveryToken(h)
  BY <1>12 DEF IssueRecoveryToken, Goto, TypeOK, dbVars, history
<1>13. CASE RecordAuditEvent(h)
  BY <1>13 DEF RecordAuditEvent, Goto, TypeOK, dbVars, history
<1>14. CASE UpdateProfile(h)
  BY <1>14 DEF UpdateProfile, Goto, TypeOK, dbVars, history
<1>15. CASE ExpireReset(h) \/ ExpireRecovery(h)
  BY <1>15 DEF ExpireReset, ExpireRecovery, procVars, history, TypeOK
<1>16. \/ FindOwner(h) \/ FindAddress(h) \/ SendMail(h) \/ FindResetToken(h) \/ FindRecoveryToken(h)
      \/ MatchCustomer(h) \/ FindProfile(h)
        => Refuse(h) \/ \E l \in Pcs : Proceed(h, l)
  BY DEF FindOwner, FindAddress, SendMail, FindResetToken, FindRecoveryToken, MatchCustomer,
         FindProfile, Pcs
<1>17. Refuse(h) \/ Reply(h) \/ Interrupt(h) \/ ActivateAborts(h)
        => \E a \in {"OK", "REFUSED", "ERROR"} : End(h, a)
  BY DEF Refuse, Reply, Interrupt, ActivateAborts
<1> QED BY <1>1, <1>2, <1>3, <1>4, <1>5, <1>6, <1>7, <1>8, <1>9, <1>10, <1>11, <1>12, <1>13, <1>14, <1>15, <1>16, <1>17 DEF Step

\* A row stays, a used token stays used, and a new one comes from the one statement
\* that creates it.
TokenStep(old, new, h, from, next) ==
  \A t \in Handlers :
    /\ old[t] # "none" => new[t] # "none"
    /\ old[t] = "used" => new[t] = "used"
    /\ \/ old[t] = "none" /\ t = h /\ pc[h] = from /\ pc'[h] = next
       \/ new[t] # "none" => old[t] # "none"
    /\ \/ old[t] = "none" /\ t = h /\ pc[h] = from /\ pc'[h] = next
       \/ new[t] \in Unused => old[t] \in Unused

LEMMA StepTokens ==
  ASSUME TypeOK, Rows, NEW h \in Handlers, Step(h)
  PROVE  /\ TokenStep(resetToken, resetToken', h, "create", "mail")
         /\ TokenStep(recoveryToken, recoveryToken', h, "issue", "audit")
<1> USE DEF TokenStep, Unused
<1>1. CASE Invalidate(h)
  BY <1>1 DEF Invalidate, TypeOK
<1>2. CASE CreateResetToken(h)
  BY <1>2 DEF CreateResetToken, TypeOK, Rows, RowsOf, Goto
<1>3. CASE ResetPassword(h)
  BY <1>3 DEF ResetPassword, TypeOK, Rows, RowsOf
<1>4. CASE RecoverAccount(h)
  BY <1>4 DEF RecoverAccount, TypeOK, Rows, RowsOf
<1>5. CASE IssueRecoveryToken(h)
  BY <1>5 DEF IssueRecoveryToken, TypeOK, Rows, RowsOf, Goto
<1>6. CASE ExpireReset(h)
  BY <1>6 DEF ExpireReset, TypeOK
<1>7. CASE ExpireRecovery(h)
  BY <1>7 DEF ExpireRecovery, TypeOK
<1>8. CASE UNCHANGED <<resetToken, recoveryToken>>
  BY <1>8
<1>9. CASE Send(h) \/ CreateFactor(h) \/ FindFactors(h) \/ Activate(h)
  BY <1>9, <1>8 DEF Send, CreateFactor, FindFactors, Activate, Refuse, End, dbVars
<1>10. CASE FindUnused(h) \/ RecordAuditEvent(h) \/ UpdateProfile(h)
  BY <1>10, <1>8 DEF FindUnused, RecordAuditEvent, UpdateProfile, dbVars
<1>11. CASE Reply(h) \/ Interrupt(h) \/ ActivateAborts(h)
  BY <1>11, <1>8 DEF Reply, Interrupt, ActivateAborts, Refuse, End, dbVars
<1>12. CASE FindOwner(h) \/ FindAddress(h) \/ SendMail(h) \/ MatchCustomer(h) \/ FindProfile(h)
  BY <1>12, <1>8 DEF FindOwner, FindAddress, SendMail, MatchCustomer, FindProfile, Refuse, End,
                     Proceed, dbVars
<1>13. CASE FindResetToken(h) \/ FindRecoveryToken(h)
  BY <1>13, <1>8 DEF FindResetToken, FindRecoveryToken, Refuse, End, Proceed, dbVars
<1> QED BY <1>1, <1>2, <1>3, <1>4, <1>5, <1>6, <1>7, <1>9, <1>10, <1>11, <1>12, <1>13 DEF Step

LEMMA StepMeetings ==
  ASSUME TypeOK, Meetings, NEW h \in Handlers, Step(h)
  PROVE  Meetings'
<1>1. CASE Send(h)
  <2>1. met' = met \cup {{g, h} : g \in InFlight}
    BY <1>1 DEF Send
  <2>2. \A g \in InFlight' : g = h \/ g \in InFlight
    BY StepFrame DEF InFlight
  <2> QED BY <2>1, <2>2 DEF Meetings
<1>2. CASE ~Send(h)
  <2>1. pc[h] \notin {"arrive", "done"} \/ pc' = pc
    BY <1>2 DEF Step, InFlight, FindOwner, CreateFactor, FindFactors, Activate, ActivateAborts,
       FindAddress, Invalidate, CreateResetToken, SendMail, FindResetToken, ResetPassword,
       FindRecoveryToken, RecoverAccount, MatchCustomer, FindUnused, IssueRecoveryToken,
       RecordAuditEvent, FindProfile, UpdateProfile, Reply, Interrupt, ExpireReset,
       ExpireRecovery, procVars
  <2>2. \A g \in InFlight' : g \in InFlight
    BY <2>1, StepFrame DEF InFlight
  <2> QED BY <2>2, StepFrame DEF Meetings
<1> QED BY <1>1, <1>2

\* Where a request is after it has gone on, or has ended.
LEMMA ProceedFacts ==
  ASSUME TypeOK, NEW h \in Handlers, NEW l \in Pcs, Proceed(h, l)
  PROVE  pc'[h] = l /\ seen' = seen /\ req' = req
BY DEF Proceed, Goto, TypeOK

LEMMA EndFacts ==
  ASSUME TypeOK, NEW h \in Handlers, NEW a \in {"OK", "REFUSED", "ERROR"}, End(h, a)
  PROVE  pc'[h] = "done" /\ seen'[h].unused = {} /\ answer'[h] = a
BY DEF End, Goto, TypeOK, NoRead

\* A token leads to its transaction only if its row is live.
LEMMA TokenOutcomes ==
  ASSUME NEW h \in Handlers
  PROVE  /\ FindResetToken(h) =>
              /\ pc[h] = "reset token"
              /\ \/ Refuse(h) \/ Proceed(h, "reply")
                 \/ Proceed(h, "reset") /\ Row(resetToken, req[h].token) = "live"
         /\ FindRecoveryToken(h) =>
              /\ pc[h] = "recovery token"
              /\ \/ Refuse(h) \/ Proceed(h, "reset token")
                 \/ Proceed(h, "recover") /\ Row(recoveryToken, req[h].token) = "live"
BY DEF FindResetToken, FindRecoveryToken

\* A finished request never moves again, and one that has written a row or a
\* credential only goes on to its end.
LEMMA StepForward ==
  ASSUME CredentialsAssumption, TypeOK, NEW h \in Handlers, Step(h)
  PROVE  /\ pc[h] \in {"mail", "audit", "reply", "done"}
              => pc'[h] \in {pc[h], "reply", "done"}
         /\ pc'[h] = "reset" => pc[h] \in {"reset", "reset token"}
         /\ pc'[h] = "recover" => pc[h] \in {"recover", "recovery token"}
<1>1. CASE Send(h)
  <2>1. PICK k \in Kinds : pc' = [pc EXCEPT ![h] = First(k)]
    BY <1>1 DEF Send, Requests, Goto
  <2>2. First(k) \notin {"reset", "recover"}
    BY DEF First, CredentialsAssumption
  <2> QED BY <2>1, <2>2, <1>1 DEF Send, TypeOK
<1>2. CASE Refuse(h)
  BY <1>2, EndFacts DEF Refuse
<1>3. ASSUME NEW l \in Pcs \ {"reset", "recover"}, Proceed(h, l),
             pc[h] \notin {"audit", "reply", "done"}, pc[h] = "mail" => l = "reply"
      PROVE  /\ pc[h] \in {"mail", "audit", "reply", "done"} => pc'[h] = "reply"
             /\ pc'[h] \notin {"reset", "recover"}
  BY <1>3, ProceedFacts
<1>4. CASE FindOwner(h) \/ MatchCustomer(h) \/ FindProfile(h)
  <2>1. Refuse(h) \/ Proceed(h, "enrol") \/ Proceed(h, "snapshot") \/ Proceed(h, "update")
    BY <1>4 DEF FindOwner, MatchCustomer, FindProfile
  <2>2. pc[h] \notin {"mail", "audit", "reply", "done"}
    BY <1>4 DEF FindOwner, MatchCustomer, FindProfile
  <2> QED BY <2>1, <2>2, <1>2, <1>3 DEF Pcs
<1>11. CASE FindAddress(h) \/ SendMail(h)
  <2>1. /\ Proceed(h, "mail") \/ Proceed(h, "invalidate") \/ Proceed(h, "reply")
        /\ pc[h] \notin {"audit", "reply", "done"}
        /\ pc[h] = "mail" => Proceed(h, "reply")
    BY <1>11 DEF FindAddress, SendMail
  <2> QED BY <2>1, <1>3 DEF Pcs
<1>12. CASE FindResetToken(h)
  <2>1. CASE Proceed(h, "reset")
    BY <2>1, <1>12, ProceedFacts DEF FindResetToken, Pcs
  <2>2. pc[h] = "reset token" /\ (Refuse(h) \/ Proceed(h, "reply") \/ Proceed(h, "reset"))
    BY <1>12, TokenOutcomes
  <2> QED BY <2>1, <2>2, <1>2, <1>3 DEF Pcs
<1>13. CASE FindRecoveryToken(h)
  <2>1. CASE Proceed(h, "recover")
    BY <2>1, <1>13, ProceedFacts DEF FindRecoveryToken, Pcs
  <2>2. pc[h] = "recovery token" /\ (Refuse(h) \/ Proceed(h, "reset token") \/ Proceed(h, "recover"))
    BY <1>13, TokenOutcomes
  <2> QED BY <2>1, <2>2, <1>2, <1>3 DEF Pcs
<1>5. CASE FindFactors(h) \/ CreateFactor(h) \/ Activate(h) \/ Invalidate(h)
  BY <1>5, <1>2 DEF FindFactors, CreateFactor, Activate, Invalidate, Goto, TypeOK
<1>6. CASE CreateResetToken(h) \/ ResetPassword(h) \/ RecoverAccount(h) \/ FindUnused(h)
  BY <1>6 DEF CreateResetToken, ResetPassword, RecoverAccount, FindUnused, Goto, TypeOK
<1>7. CASE IssueRecoveryToken(h) \/ RecordAuditEvent(h) \/ UpdateProfile(h)
  BY <1>7 DEF IssueRecoveryToken, RecordAuditEvent, UpdateProfile, Goto, TypeOK
<1>8. CASE Reply(h) \/ Interrupt(h)
  BY <1>8, EndFacts DEF Reply, Interrupt
<1>9. CASE ActivateAborts(h)
  BY <1>9, <1>2 DEF ActivateAborts
<1>10. CASE ExpireReset(h) \/ ExpireRecovery(h)
  BY <1>10 DEF ExpireReset, ExpireRecovery, procVars
<1> QED BY <1>1, <1>4, <1>5, <1>6, <1>7, <1>8, <1>9, <1>10, <1>11, <1>12, <1>13 DEF Step

\* The statements that read the row of a token, and those that read the tokens to
\* invalidate.
LEMMA StepReads ==
  ASSUME CredentialsAssumption, TypeOK, NEW h \in Handlers, Step(h)
  PROVE  /\ pc[h] = "reset token" /\ pc'[h] = "reset" => FindResetToken(h)
         /\ pc[h] = "recovery token" /\ pc'[h] = "recover" => FindRecoveryToken(h)
         /\ \/ seen'[h].unused \subseteq seen[h].unused
            \/ FindUnused(h)
<1>1. CASE Refuse(h)
  BY <1>1, EndFacts DEF Refuse
<1>2. CASE Send(h) \/ CreateFactor(h) \/ Activate(h) \/ Invalidate(h) \/ CreateResetToken(h)
  BY <1>2 DEF Send, CreateFactor, Activate, Invalidate, CreateResetToken
<1>3. CASE FindFactors(h)
  BY <1>3, <1>1 DEF FindFactors, TypeOK, Read
<1>4. CASE ResetPassword(h) \/ RecoverAccount(h) \/ IssueRecoveryToken(h)
  BY <1>4 DEF ResetPassword, RecoverAccount, IssueRecoveryToken
<1>5. CASE FindUnused(h) \/ RecordAuditEvent(h) \/ UpdateProfile(h)
  BY <1>5 DEF FindUnused, RecordAuditEvent, UpdateProfile
<1>6. CASE FindOwner(h) \/ FindAddress(h) \/ SendMail(h) \/ MatchCustomer(h) \/ FindProfile(h)
  BY <1>6, <1>1, ProceedFacts DEF FindOwner, FindAddress, SendMail, MatchCustomer, FindProfile, Pcs
<1>7. CASE FindResetToken(h)
  BY <1>7, <1>1, ProceedFacts DEF FindResetToken, Pcs
<1>8. CASE FindRecoveryToken(h)
  BY <1>8, <1>1, ProceedFacts DEF FindRecoveryToken, Pcs
<1>9. CASE Reply(h) \/ Interrupt(h)
  BY <1>9, EndFacts DEF Reply, Interrupt
<1>10. CASE ActivateAborts(h)
  BY <1>10, <1>1 DEF ActivateAborts
<1>11. CASE ExpireReset(h) \/ ExpireRecovery(h)
  BY <1>11 DEF ExpireReset, ExpireRecovery, procVars
<1> QED BY <1>2, <1>3, <1>4, <1>5, <1>6, <1>7, <1>8, <1>9, <1>10, <1>11 DEF Step

LEMMA StepRows ==
  ASSUME CredentialsAssumption, TypeOK, Paths, Rows, NEW h \in Handlers, Step(h)
  PROVE  Rows'
<1>1. /\ TokenStep(resetToken, resetToken', h, "create", "mail")
      /\ TokenStep(recoveryToken, recoveryToken', h, "issue", "audit")
  BY StepTokens
<1> SUFFICES ASSUME NEW g \in Handlers PROVE RowsOf(g)'
  BY DEF Rows
<1>2. CASE g # h
  <2>1. pc'[g] = pc[g] /\ req'[g] = req[g] /\ seen'[g] = seen[g]
    BY <1>2, StepFrame
  <2>2. seen[g].unused \subseteq Handlers
    BY DEF TypeOK, Read
  <2> QED BY <1>1, <1>2, <2>1, <2>2 DEF TokenStep, Rows, RowsOf
<1>3. CASE g = h
  <2>1. resetToken'[h] # "none" => req'[h].kind = "forgot" /\ pc'[h] \in {"mail", "reply", "done"}
    <3>1. CASE resetToken[h] # "none"
      <4>1. RowsOf(h)
        BY DEF Rows
      <4>2. req' = req
        BY <3>1, <4>1, StepFrame DEF RowsOf
      <4> QED BY <3>1, <4>1, <4>2, StepForward DEF RowsOf
    <3>2. CASE resetToken[h] = "none" /\ resetToken'[h] # "none"
      <4>1. pc[h] = "create" /\ pc'[h] = "mail" /\ req' = req
        BY <1>1, <3>2, StepFrame DEF TokenStep
      <4>2. req[h].kind = "forgot"
        BY <4>1 DEF Paths, PathsOf, PathOf, CredentialsAssumption
      <4> QED BY <4>1, <4>2
    <3> QED BY <3>1, <3>2
  <2>2. recoveryToken'[h] # "none"
          => req'[h].kind = "operator" /\ pc'[h] \in {"audit", "reply", "done"}
    <3>1. CASE recoveryToken[h] # "none"
      <4>1. RowsOf(h)
        BY DEF Rows
      <4>2. req' = req
        BY <3>1, <4>1, StepFrame DEF RowsOf
      <4> QED BY <3>1, <4>1, <4>2, StepForward DEF RowsOf
    <3>2. CASE recoveryToken[h] = "none" /\ recoveryToken'[h] # "none"
      <4>1. pc[h] = "issue" /\ pc'[h] = "audit" /\ req' = req
        BY <1>1, <3>2, StepFrame DEF TokenStep
      <4>2. req[h].kind = "operator"
        BY <4>1 DEF Paths, PathsOf, PathOf, CredentialsAssumption
      <4> QED BY <4>1, <4>2
    <3> QED BY <3>1, <3>2
  <2>3. pc'[h] = "reset" => req'[h].token \in Handlers /\ resetToken'[req'[h].token] # "none"
    <3>1. CASE pc[h] = "reset" /\ pc'[h] = "reset"
      BY <3>1, <1>1, StepFrame DEF TokenStep, Rows, RowsOf
    <3>2. CASE pc[h] = "reset token" /\ pc'[h] = "reset"
      <4>1. FindResetToken(h) /\ req' = req
        BY <3>2, StepReads, StepFrame
      <4>2. req[h].token \in Handlers \cup {Unknown}
        BY <3>2 DEF Paths, PathsOf, PathOf, CredentialsAssumption
      <4>3. ~Refuse(h) /\ ~Proceed(h, "reply")
        BY <3>2, EndFacts, ProceedFacts DEF Refuse, Pcs
      <4>4. Row(resetToken, req[h].token) = "live"
        BY <4>1, <4>3, TokenOutcomes
      <4> QED BY <4>1, <4>2, <4>4, <1>1 DEF Row, TokenStep
    <3> QED BY <3>1, <3>2, StepForward
  <2>4. pc'[h] = "recover" => req'[h].token \in Handlers /\ recoveryToken'[req'[h].token] # "none"
    <3>1. CASE pc[h] = "recover" /\ pc'[h] = "recover"
      BY <3>1, <1>1, StepFrame DEF TokenStep, Rows, RowsOf
    <3>2. CASE pc[h] = "recovery token" /\ pc'[h] = "recover"
      <4>1. FindRecoveryToken(h) /\ req' = req
        BY <3>2, StepReads, StepFrame
      <4>2. req[h].token \in Handlers \cup {Unknown}
        BY <3>2 DEF Paths, PathsOf, PathOf, CredentialsAssumption
      <4>3. ~Refuse(h) /\ ~Proceed(h, "reset token")
        BY <3>2, EndFacts, ProceedFacts DEF Refuse, Pcs
      <4>4. Row(recoveryToken, req[h].token) = "live"
        BY <4>1, <4>3, TokenOutcomes
      <4> QED BY <4>1, <4>2, <4>4, <1>1 DEF Row, TokenStep
    <3> QED BY <3>1, <3>2, StepForward
  <2>5. \A t \in seen'[h].unused : recoveryToken'[t] # "none"
    <3>1. CASE FindUnused(h)
      BY <3>1 DEF FindUnused, TypeOK, Read, Unused, dbVars
    <3>2. CASE seen'[h].unused \subseteq seen[h].unused
      <4>1. seen[h].unused \subseteq Handlers
        BY DEF TypeOK, Read
      <4> QED BY <3>2, <4>1, <1>1 DEF Rows, RowsOf, TokenStep
    <3> QED BY <3>1, <3>2, StepReads
  <2> QED BY <1>3, <2>1, <2>2, <2>3, <2>4, <2>5 DEF RowsOf
<1> QED BY <1>2, <1>3

\* The statements that change a credential.
LEMMA StepWrites ==
  ASSUME TypeOK, NEW h \in Handlers, Step(h), h \in wrote', h \notin wrote
  PROVE  \/ CreateFactor(h) \/ Activate(h) \/ CreateResetToken(h) \/ ResetPassword(h)
         \/ RecoverAccount(h) \/ IssueRecoveryToken(h) \/ UpdateProfile(h)
<1>1. Refuse(h) \/ (\E l \in Pcs : Proceed(h, l)) => wrote' = wrote
  BY DEF Refuse, End, Proceed, history
<1>2. FindOwner(h) \/ FindAddress(h) \/ SendMail(h) => wrote' = wrote
  BY <1>1 DEF FindOwner, FindAddress, SendMail, Pcs
<1>3. FindResetToken(h) \/ FindRecoveryToken(h) => wrote' = wrote
  BY <1>1, TokenOutcomes DEF Pcs
<1>4. MatchCustomer(h) \/ FindProfile(h) \/ ActivateAborts(h) => wrote' = wrote
  BY <1>1 DEF MatchCustomer, FindProfile, ActivateAborts, Pcs
<1>5. Send(h) \/ Invalidate(h) \/ FindFactors(h) => wrote' = wrote
  BY <1>1 DEF Send, Invalidate, FindFactors, history
<1>6. FindUnused(h) \/ RecordAuditEvent(h) \/ Reply(h) \/ Interrupt(h) => wrote' = wrote
  BY DEF FindUnused, RecordAuditEvent, Reply, Interrupt, End, history
<1>7. ExpireReset(h) \/ ExpireRecovery(h) => wrote' = wrote
  BY DEF ExpireReset, ExpireRecovery, history
<1> QED BY <1>2, <1>3, <1>4, <1>5, <1>6, <1>7 DEF Step

-----------------------------------------------------------------------------
(* Tokens are spent once, but for races.                                   *)

\* A request spends its token by one of the two transactions.
LEMMA StepSpends ==
  ASSUME CredentialsAssumption, Base, NEW h \in Handlers, Step(h), NEW t \in Handlers,
         h \in Spenders(t)', h \notin Spenders(t)
  PROVE  /\ pc[h] \in {"reset", "recover"} /\ req[h].token = t /\ req' = req
         /\ resetToken'[t] = "used" \/ recoveryToken'[t] = "used"
<1> USE DEF Base
<1>1. h \in wrote' /\ req'[h].kind \in {"reset", "recover"} /\ req'[h].token = t
  BY DEF Spenders
<1>2. h \notin wrote
  <2>1. CASE h \in wrote
    <3>1. req' = req
      BY <2>1, StepFrame DEF Paths, PathsOf
    <3> QED BY <1>1, <2>1, <3>1 DEF Spenders
  <2> QED BY <2>1
<1>3. CASE ResetPassword(h)
  BY <1>1, <1>3 DEF ResetPassword, TypeOK
<1>4. CASE RecoverAccount(h)
  BY <1>1, <1>4 DEF RecoverAccount, TypeOK
<1>5. ASSUME CreateFactor(h) \/ Activate(h) \/ CreateResetToken(h) \/ IssueRecoveryToken(h) \/ UpdateProfile(h)
      PROVE  FALSE
  <2>1. req' = req /\ pc[h] \in {"enrol", "activate", "create", "issue", "update"}
    BY <1>5 DEF CreateFactor, Activate, CreateResetToken, IssueRecoveryToken, UpdateProfile
  <2>2. pc[h] \in PathOf(req[h].kind)
    BY <2>1 DEF Paths, PathsOf
  <2> QED BY <1>1, <2>1, <2>2 DEF PathOf
<1> QED BY <1>1, <1>2, <1>3, <1>4, <1>5, StepWrites

LEMMA StepSpent ==
  ASSUME CredentialsAssumption, Base, Spent, SpentTwiceOnlyByRace, NEW h \in Handlers, Step(h)
  PROVE  Spent' /\ SpentTwiceOnlyByRace'
<1> USE DEF Base
<1>1. \A t \in Handlers : Spenders(t)' \subseteq Spenders(t) \cup {h}
  <2> SUFFICES ASSUME NEW t \in Handlers, NEW g \in Spenders(t)', g # h PROVE g \in Spenders(t)
    OBVIOUS
  <2>1. g \in Handlers /\ g \in wrote'
    BY StepFrame DEF Spenders, TypeOK
  <2>2. g \in wrote /\ req'[g] = req[g]
    BY <2>1, StepFrame
  <2> QED BY <2>2 DEF Spenders
<1>2. met \subseteq met'
  BY StepFrame
<1>3. Spent'
  <2> SUFFICES ASSUME NEW t \in Handlers, NEW g \in Spenders(t)'
               PROVE  /\ resetToken'[t] = "used" \/ recoveryToken'[t] = "used"
                      /\ \A k \in Handlers \ {g} :
                           pc'[k] \in {"reset", "recover"} /\ req'[k].token = t => {g, k} \in met'
    BY DEF Spent
  <2>1. resetToken'[t] = "used" \/ recoveryToken'[t] = "used"
    BY <1>1, StepSpends, StepTokens DEF Spent, TokenStep
  <2>2. ASSUME NEW k \in Handlers \ {g}, pc'[k] \in {"reset", "recover"}, req'[k].token = t
        PROVE  {g, k} \in met'
    <3>1. CASE k # h
      <4>1. pc[k] \in {"reset", "recover"} /\ req[k].token = t
        BY <2>2, <3>1, StepFrame
      <4>2. CASE g \in Spenders(t)
        BY <4>1, <4>2, <1>2 DEF Spent
      <4>3. CASE g \notin Spenders(t)
        <5>1. g = h /\ pc[h] \in {"reset", "recover"}
          BY <4>3, <1>1, StepSpends
        <5> QED BY <5>1, <4>1, <3>1, <1>2 DEF Meetings, InFlight
      <4> QED BY <4>2, <4>3
    <3>2. CASE k = h
      <4>1. g \in Spenders(t)
        BY <3>2, <1>1
      <4>2. CASE pc[h] \in {"reset", "recover"}
        BY <4>1, <4>2, <3>2, <2>2, <1>2, StepFrame DEF Spent
      <4>3. CASE pc[h] \notin {"reset", "recover"}
        <5>1. req' = req /\ (FindResetToken(h) \/ FindRecoveryToken(h))
          BY <4>3, <3>2, <2>2, StepForward, StepReads, StepFrame
        <5>2. Row(resetToken, t) = "live" \/ Row(recoveryToken, t) = "live"
          <6>1. ~Refuse(h) /\ ~Proceed(h, "reply") /\ ~Proceed(h, "reset token")
            BY <3>2, <2>2, EndFacts, ProceedFacts DEF Refuse, Pcs
          <6> QED BY <5>1, <6>1, <3>2, <2>2, TokenOutcomes
        <5>3. resetToken[t] = "none" \/ recoveryToken[t] = "none"
          BY DEF Rows, RowsOf
        <5> QED BY <4>1, <5>2, <5>3 DEF Row, Spent, CredentialsAssumption
      <4> QED BY <4>2, <4>3
    <3> QED BY <3>1, <3>2
  <2> QED BY <2>1, <2>2
<1>4. SpentTwiceOnlyByRace'
  <2> SUFFICES ASSUME NEW t \in Handlers, NEW g \in Spenders(t)', NEW k \in Spenders(t)', g # k
               PROVE  {g, k} \in met'
    BY DEF SpentTwiceOnlyByRace
  <2>1. CASE g \in Spenders(t) /\ k \in Spenders(t)
    BY <2>1, <1>2 DEF SpentTwiceOnlyByRace
  <2>2. CASE g \notin Spenders(t)
    BY <2>2, <1>1, <1>2, StepSpends DEF Spent
  <2>3. CASE k \notin Spenders(t)
    BY <2>3, <1>1, <1>2, StepSpends DEF Spent
  <2> QED BY <2>1, <2>2, <2>3
<1> QED BY <1>3, <1>4

-----------------------------------------------------------------------------
(* One unused token at a time, but for races.                              *)

\* How a request comes to the statements that the properties are about.
LEMMA StepArrives ==
  ASSUME CredentialsAssumption, TypeOK, NEW h \in Handlers, Step(h)
  PROVE  /\ pc'[h] = "create" /\ pc[h] # "create" => Invalidate(h)
         /\ pc'[h] = "issue" /\ pc[h] # "issue" => FindUnused(h)
         /\ pc'[h] = "issue" /\ pc[h] = "issue" => seen' = seen
         /\ pc'[h] = "activate" /\ pc[h] # "activate" => FindFactors(h) /\ ~Refuse(h)
         /\ pc'[h] = "activate" /\ pc[h] = "activate" => seen' = seen
         /\ pc'[h] = "audit" /\ pc[h] # "audit" => h \in wrote'
<1>1. CASE Refuse(h)
  BY <1>1, EndFacts DEF Refuse
<1>2. ASSUME NEW l \in Pcs \ {"create", "issue", "activate", "audit"}, Proceed(h, l)
      PROVE  pc'[h] \notin {"create", "issue", "activate", "audit"}
  BY <1>2, ProceedFacts
<1>3. CASE Send(h)
  <2>1. PICK k \in Kinds : pc' = [pc EXCEPT ![h] = First(k)]
    BY <1>3 DEF Send, Requests, Goto
  <2>2. First(k) \notin {"create", "issue", "activate", "audit"}
    BY DEF First, CredentialsAssumption
  <2> QED BY <2>1, <2>2, <1>3 DEF Send, TypeOK
<1>4. CASE FindOwner(h) \/ MatchCustomer(h) \/ FindProfile(h)
  <2>1. Refuse(h) \/ Proceed(h, "enrol") \/ Proceed(h, "snapshot") \/ Proceed(h, "update")
    BY <1>4 DEF FindOwner, MatchCustomer, FindProfile
  <2> QED BY <2>1, <1>1, <1>2 DEF Pcs
<1>5. CASE FindAddress(h) \/ SendMail(h)
  <2>1. Proceed(h, "mail") \/ Proceed(h, "invalidate") \/ Proceed(h, "reply")
    BY <1>5 DEF FindAddress, SendMail
  <2> QED BY <2>1, <1>2 DEF Pcs
<1>6. CASE FindResetToken(h)
  <2>1. Refuse(h) \/ Proceed(h, "reply") \/ Proceed(h, "reset")
    BY <1>6, TokenOutcomes
  <2> QED BY <2>1, <1>1, <1>2 DEF Pcs
<1>7. CASE FindRecoveryToken(h)
  <2>1. Refuse(h) \/ Proceed(h, "reset token") \/ Proceed(h, "recover")
    BY <1>7, TokenOutcomes
  <2> QED BY <2>1, <1>1, <1>2 DEF Pcs
<1>8. CASE FindFactors(h) \/ CreateFactor(h) \/ Activate(h) \/ CreateResetToken(h)
  BY <1>8, <1>1 DEF FindFactors, CreateFactor, Activate, CreateResetToken, Goto, TypeOK
<1>9. CASE ResetPassword(h) \/ RecoverAccount(h) \/ IssueRecoveryToken(h)
  BY <1>9 DEF ResetPassword, RecoverAccount, IssueRecoveryToken, Goto, TypeOK
<1>10. CASE RecordAuditEvent(h) \/ UpdateProfile(h)
  BY <1>10 DEF RecordAuditEvent, UpdateProfile, Goto, TypeOK
<1>11. CASE Reply(h) \/ Interrupt(h)
  BY <1>11, EndFacts DEF Reply, Interrupt
<1>12. CASE ActivateAborts(h)
  BY <1>12, <1>1 DEF ActivateAborts
<1>13. CASE ExpireReset(h) \/ ExpireRecovery(h)
  BY <1>13 DEF ExpireReset, ExpireRecovery, procVars
<1>14. CASE Invalidate(h)
  BY <1>14 DEF Invalidate, Goto, TypeOK
<1>15. CASE FindUnused(h)
  BY <1>15 DEF FindUnused, Goto, TypeOK
<1> QED BY <1>3, <1>4, <1>5, <1>6, <1>7, <1>8, <1>9, <1>10, <1>11, <1>12, <1>13, <1>14, <1>15 DEF Step

LEMMA StepIssuing ==
  ASSUME CredentialsAssumption, Base, Issuing, NEW h \in Handlers, Step(h)
  PROVE  Issuing'
<1> USE DEF Base
<1> SUFFICES ASSUME NEW g \in Handlers, NEW k \in Handlers, g # k
             PROVE  /\ pc'[k] = "create" /\ resetToken'[g] \in Unused => {g, k} \in met'
                    /\ pc'[k] = "issue" /\ recoveryToken'[g] \in Unused /\ g \notin seen'[k].unused
                         => {g, k} \in met'
  BY DEF Issuing
<1>1. met \subseteq met'
  BY StepFrame
<1>2. ASSUME pc'[k] = "create", resetToken'[g] \in Unused
      PROVE  {g, k} \in met'
  <2>1. CASE pc[k] = "create" /\ resetToken[g] \in Unused
    BY <2>1, <1>1 DEF Issuing
  <2>2. CASE pc[k] # "create"
    <3>1. k = h /\ Invalidate(h)
      BY <2>2, <1>2, StepFrame, StepArrives
    <3> QED BY <3>1, <1>2 DEF Invalidate, TypeOK, Unused
  <2>3. CASE pc[k] = "create" /\ resetToken[g] \notin Unused
    <3>1. g = h /\ pc[g] = "create"
      BY <2>3, <1>2, StepTokens DEF TokenStep
    <3> QED BY <3>1, <2>3, <1>1 DEF Meetings, InFlight
  <2> QED BY <2>1, <2>2, <2>3
<1>3. ASSUME pc'[k] = "issue", recoveryToken'[g] \in Unused, g \notin seen'[k].unused
      PROVE  {g, k} \in met'
  <2>1. CASE pc[k] # "issue"
    <3>1. k = h /\ FindUnused(h)
      BY <2>1, <1>3, StepFrame, StepArrives
    <3>2. recoveryToken' = recoveryToken /\ seen'[h].unused = {t \in Handlers : recoveryToken[t] \in Unused}
      BY <3>1 DEF FindUnused, dbVars, TypeOK, Read
    <3> QED BY <3>1, <3>2, <1>3
  <2>2. CASE pc[k] = "issue"
    <3>1. g \notin seen[k].unused
      BY <2>2, <1>3, StepArrives, StepFrame
    <3>2. CASE recoveryToken[g] \in Unused
      BY <3>1, <3>2, <2>2, <1>1 DEF Issuing
    <3>3. CASE recoveryToken[g] \notin Unused
      <4>1. g = h /\ pc[g] = "issue"
        BY <3>3, <1>3, StepTokens DEF TokenStep
      <4> QED BY <4>1, <2>2, <1>1 DEF Meetings, InFlight
    <3> QED BY <3>2, <3>3
  <2> QED BY <2>1, <2>2
<1> QED BY <1>2, <1>3

LEMMA StepUnused ==
  ASSUME CredentialsAssumption, Base, Issuing, UnusedTwiceOnlyByRace, NEW h \in Handlers, Step(h)
  PROVE  UnusedTwiceOnlyByRace'
<1> USE DEF Base
<1>1. met \subseteq met'
  BY StepFrame
<1>2. ASSUME NEW g \in Handlers, NEW k \in Handlers, g # k,
             resetToken'[g] \in Unused, resetToken'[k] \in Unused
      PROVE  {g, k} \in met'
  <2>1. CASE resetToken[g] \in Unused /\ resetToken[k] \in Unused
    BY <2>1, <1>1, <1>2 DEF UnusedTwiceOnlyByRace
  <2>2. CASE resetToken[g] \notin Unused
    <3>1. g = h /\ pc[h] = "create" /\ resetToken[k] \in Unused
      BY <2>2, <1>2, StepTokens DEF TokenStep
    <3> QED BY <3>1, <1>1, <1>2 DEF Issuing
  <2>3. CASE resetToken[k] \notin Unused
    <3>1. k = h /\ pc[h] = "create" /\ resetToken[g] \in Unused
      BY <2>3, <1>2, StepTokens DEF TokenStep
    <3> QED BY <3>1, <1>1, <1>2 DEF Issuing
  <2> QED BY <2>1, <2>2, <2>3
<1>3. ASSUME NEW g \in Handlers, g # h, recoveryToken[h] \notin Unused,
             recoveryToken'[g] \in Unused, recoveryToken'[h] \in Unused
      PROVE  {g, h} \in met'
  <2>1. pc[h] = "issue" /\ pc'[h] = "audit" /\ recoveryToken[g] \in Unused /\ recoveryToken[h] = "none"
    BY <1>3, StepTokens DEF TokenStep
  <2>2. IssueRecoveryToken(h)
    <3>1. ~Interrupt(h)
      BY <2>1, EndFacts DEF Interrupt
    <3>2. ~ExpireReset(h) /\ ~ExpireRecovery(h)
      BY <2>1 DEF ExpireReset, ExpireRecovery, procVars
    <3> QED BY <2>1, <3>1, <3>2 DEF Step, Send, FindOwner, CreateFactor, FindFactors, Activate,
         ActivateAborts, FindAddress, Invalidate, CreateResetToken, SendMail, FindResetToken,
         ResetPassword, FindRecoveryToken, RecoverAccount, MatchCustomer, FindUnused,
         RecordAuditEvent, FindProfile, UpdateProfile, Reply
  <2>3. g \notin seen[h].unused
    BY <2>2, <1>3 DEF IssueRecoveryToken, Unused
  <2> QED BY <2>1, <2>3, <1>1, <1>3 DEF Issuing
<1>4. ASSUME NEW g \in Handlers, NEW k \in Handlers, g # k,
             recoveryToken'[g] \in Unused, recoveryToken'[k] \in Unused
      PROVE  {g, k} \in met'
  <2>1. CASE recoveryToken[g] \in Unused /\ recoveryToken[k] \in Unused
    BY <2>1, <1>1, <1>4 DEF UnusedTwiceOnlyByRace
  <2>2. CASE recoveryToken[g] \notin Unused
    <3>1. g = h
      BY <2>2, <1>4, StepTokens DEF TokenStep
    <3> QED BY <3>1, <2>2, <1>3, <1>4
  <2>3. CASE recoveryToken[k] \notin Unused
    <3>1. k = h
      BY <2>3, <1>4, StepTokens DEF TokenStep
    <3> QED BY <3>1, <2>3, <1>3, <1>4
  <2> QED BY <2>1, <2>2, <2>3
<1> QED BY <1>2, <1>4 DEF UnusedTwiceOnlyByRace

-----------------------------------------------------------------------------
(* The second factor.                                                      *)

\* Only these statements change what the last two properties are about.
LEMMA StepFactors ==
  ASSUME TypeOK, NEW h \in Handlers, Step(h)
  PROVE  \/ CreateFactor(h) \/ Activate(h) \/ ResetPassword(h) \/ RecoverAccount(h)
         \/ UNCHANGED <<mfaEnabled, factors, verified, bare>>
<1>1. Refuse(h) \/ (\E l \in Pcs : Proceed(h, l)) => UNCHANGED <<mfaEnabled, factors, verified, bare>>
  BY DEF Refuse, End, Proceed, dbVars, history
<1>2. CASE FindOwner(h) \/ FindAddress(h) \/ SendMail(h) \/ MatchCustomer(h) \/ FindProfile(h)
  BY <1>1, <1>2 DEF FindOwner, FindAddress, SendMail, MatchCustomer, FindProfile, Pcs
<1>3. CASE FindResetToken(h) \/ FindRecoveryToken(h) \/ ActivateAborts(h)
  BY <1>1, <1>3, TokenOutcomes DEF Pcs, ActivateAborts
<1>4. CASE Send(h) \/ Invalidate(h) \/ FindFactors(h) \/ CreateResetToken(h)
  BY <1>1, <1>4 DEF Send, Invalidate, FindFactors, CreateResetToken, dbVars, history
<1>5. CASE FindUnused(h) \/ IssueRecoveryToken(h) \/ RecordAuditEvent(h) \/ UpdateProfile(h)
  BY <1>5 DEF FindUnused, IssueRecoveryToken, RecordAuditEvent, UpdateProfile, dbVars, history
<1>6. CASE Reply(h) \/ Interrupt(h)
  BY <1>6 DEF Reply, Interrupt, End, dbVars, history
<1>7. CASE ExpireReset(h) \/ ExpireRecovery(h)
  BY <1>7 DEF ExpireReset, ExpireRecovery, history
<1> QED BY <1>2, <1>3, <1>4, <1>5, <1>6, <1>7 DEF Step

LEMMA StepEnabled ==
  ASSUME TypeOK, EnabledHasFactor, NEW h \in Handlers, Step(h)
  PROVE  EnabledHasFactor'
<1>1. CASE CreateFactor(h)
  <2>1. factors' # <<>>
    BY <1>1 DEF CreateFactor, TypeOK
  <2> QED BY <2>1 DEF EnabledHasFactor
<1>2. CASE Activate(h)
  <2>1. CASE seen[h].factor = None
    BY <1>2, <2>1 DEF Activate, EnabledHasFactor
  <2>2. CASE seen[h].factor # None
    <3>1. factors # <<>>
      BY <1>2, <2>2 DEF Activate, FactorGone, ToSet
    <3> QED BY <3>1, <1>2 DEF Activate, EnabledHasFactor
  <2> QED BY <2>1, <2>2
<1>3. CASE ResetPassword(h)
  BY <1>3 DEF ResetPassword, EnabledHasFactor
<1>4. CASE RecoverAccount(h)
  BY <1>4 DEF RecoverAccount, EnabledHasFactor
<1>5. CASE UNCHANGED <<mfaEnabled, factors, verified, bare>>
  BY <1>5 DEF EnabledHasFactor
<1> QED BY <1>1, <1>2, <1>3, <1>4, <1>5, StepFactors

LEMMA StepAccepted ==
  ASSUME CredentialsAssumption, Base, Accepted, NEW h \in Handlers, Step(h)
  PROVE  Accepted'
<1> USE DEF Base
<1> SUFFICES ASSUME NEW g \in Handlers, pc'[g] = "activate"
             PROVE  req'[g].kind = "verify" /\ req'[g].code \in {seen'[g].factor, req'[g].secret, Demo}
  BY DEF Accepted
<1>1. CASE g # h
  BY <1>1, StepFrame DEF Accepted
<1>2. CASE g = h
  <2>1. CASE pc[h] = "activate"
    BY <1>2, <2>1, StepArrives, StepFrame DEF Accepted
  <2>2. CASE pc[h] # "activate"
    <3>1. Accepts(req[h]) /\ pc[h] = "factors" /\ req' = req /\ seen' = [seen EXCEPT ![h].factor = Latest]
      BY <1>2, <2>2, StepArrives DEF FindFactors
    <3>2. seen'[h].factor = Latest
      BY <3>1 DEF TypeOK, Read
    <3>3. req[h].kind = "verify"
      BY <3>1 DEF Paths, PathsOf, PathOf, CredentialsAssumption
    <3> QED BY <1>2, <3>1, <3>2, <3>3 DEF Accepts
  <2> QED BY <2>1, <2>2
<1> QED BY <1>1, <1>2

LEMMA StepVerified ==
  ASSUME CredentialsAssumption, Base, Accepted, VerifiedWasProved, NEW h \in Handlers, Step(h)
  PROVE  VerifiedWasProved'
<1> USE DEF Base
<1> SUFFICES ASSUME NEW f \in verified'
             PROVE  \/ f \in proved'
                    \/ \E g \in wrote' : /\ req'[g].kind = "verify"
                                         /\ req'[g].code # f
                                         /\ req'[g].code \in {req'[g].secret, Demo}
  BY DEF VerifiedWasProved
<1>1. CASE f \in verified
  <2>1. CASE f \in proved
    BY <2>1, StepFrame
  <2>2. CASE f \notin proved
    <3>1. PICK g \in wrote : /\ req[g].kind = "verify"
                              /\ req[g].code # f
                              /\ req[g].code \in {req[g].secret, Demo}
      BY <1>1, <2>2 DEF VerifiedWasProved
    <3>2. g \in wrote' /\ req'[g] = req[g]
      BY StepFrame DEF TypeOK, Paths, PathsOf
    <3> QED BY <3>1, <3>2
  <2> QED BY <2>1, <2>2
<1>2. CASE f \notin verified
  <2>1. Activate(h)
    BY <1>2, StepFactors DEF CreateFactor, ResetPassword, RecoverAccount
  <2>2. f = seen[h].factor /\ h \in wrote' /\ req[h].code \in proved' /\ req' = req /\ pc[h] = "activate"
    BY <2>1, <1>2 DEF Activate
  <2>3. req[h].kind = "verify" /\ req[h].code \in {f, req[h].secret, Demo}
    BY <2>2 DEF Accepted
  <2>4. CASE req[h].code = f
    BY <2>2, <2>4
  <2>5. CASE req[h].code # f
    BY <2>2, <2>3, <2>5
  <2> QED BY <2>4, <2>5
<1> QED BY <1>1, <1>2

-----------------------------------------------------------------------------
(* The audit trail.                                                        *)

\* Whether a request must be audited does not change once it has written.
LEMMA AuditedStays ==
  ASSUME CredentialsAssumption, Base, Spent, NEW h \in Handlers, Step(h), NEW g \in wrote
  PROVE  /\ Audited(g)' <=> Audited(g)
         /\ req'[g] = req[g]
<1> USE DEF Base
<1>1. g \in Handlers /\ req'[g] = req[g]
  BY StepFrame DEF TypeOK, Paths, PathsOf
<1>2. CASE req[g].kind = "recover"
  <2>1. req[g].token \in Handlers \cup {Unknown}
    BY <1>1, <1>2 DEF Paths, PathsOf
  <2>2. CASE req[g].token = Unknown
    BY <1>1, <1>2, <2>2 DEF Audited, Row
  <2>3. CASE req[g].token \in Handlers
    <3> DEFINE t == req[g].token
    <3>1. g \in Spenders(t)
      BY <1>1, <1>2 DEF Spenders
    <3>2. resetToken[t] = "used" \/ recoveryToken[t] = "used"
      BY <2>3, <3>1 DEF Spent
    <3>3. pc[t] \notin {"create", "issue"}
      BY <2>3, <3>2 DEF Rows, RowsOf
    <3>4. recoveryToken'[t] = "none" <=> recoveryToken[t] = "none"
      BY <2>3, <3>3, StepTokens DEF TokenStep
    <3> QED BY <1>1, <1>2, <2>3, <3>4 DEF Audited, Row, CredentialsAssumption
  <2> QED BY <2>1, <2>2, <2>3
<1>3. CASE req[g].kind # "recover"
  BY <1>1, <1>3 DEF Audited
<1> QED BY <1>1, <1>2, <1>3

\* What a request that writes owes to the audit trail.
LEMMA WritesAudited ==
  ASSUME CredentialsAssumption, Base, NEW h \in Handlers, Step(h), h \in wrote', h \notin wrote
  PROVE  Audited(h)' <=> pc'[h] = "audit"
<1> USE DEF Base
<1>1. CASE ResetPassword(h)
  <2>1. pc'[h] = "reply" /\ req' = req /\ recoveryToken' = recoveryToken
    BY <1>1 DEF ResetPassword, Goto, TypeOK
  <2>2. /\ req[h].token \in Handlers /\ resetToken[req[h].token] # "none"
        /\ req[h].kind \in {"reset", "recover"}
    BY <1>1 DEF ResetPassword, Rows, RowsOf, Paths, PathsOf, PathOf, CredentialsAssumption
  <2>3. recoveryToken[req[h].token] = "none"
    BY <2>2 DEF Rows, RowsOf
  <2> QED BY <2>1, <2>2, <2>3 DEF Audited, Row
<1>2. CASE RecoverAccount(h)
  <2>1. pc'[h] = "audit" /\ req' = req /\ recoveryToken'[req[h].token] = "used"
    BY <1>2 DEF RecoverAccount, Goto, TypeOK, Rows, RowsOf
  <2>2. req[h].token \in Handlers /\ req[h].kind = "recover"
    BY <1>2 DEF RecoverAccount, Rows, RowsOf, Paths, PathsOf, PathOf, CredentialsAssumption
  <2> QED BY <2>1, <2>2 DEF Audited, Row, CredentialsAssumption
<1>3. CASE IssueRecoveryToken(h)
  <2>1. pc'[h] = "audit" /\ req' = req
    BY <1>3 DEF IssueRecoveryToken, Goto, TypeOK
  <2>2. req[h].kind = "operator"
    BY <1>3 DEF IssueRecoveryToken, Paths, PathsOf, PathOf, CredentialsAssumption
  <2> QED BY <2>1, <2>2 DEF Audited
<1>4. CASE CreateFactor(h) \/ Activate(h) \/ CreateResetToken(h) \/ UpdateProfile(h)
  <2>1. /\ pc[h] \in {"enrol", "activate", "create", "update"} /\ req' = req
        /\ pc'[h] \in {"reply", "mail"}
    BY <1>4 DEF CreateFactor, Activate, CreateResetToken, UpdateProfile, Goto, TypeOK
  <2>2. req[h].kind \in {"setup", "verify", "forgot", "profile"}
    BY <2>1 DEF Paths, PathsOf, PathOf, CredentialsAssumption
  <2> QED BY <2>1, <2>2 DEF Audited
<1> QED BY <1>1, <1>2, <1>3, <1>4, StepWrites

\* An entry is written by the handler that stands there.
LEMMA StepRecords ==
  ASSUME TypeOK, NEW h \in Handlers, Step(h), NEW g \in audit', g \notin audit
  PROVE  g = h /\ pc[h] = "audit"
<1>1. Refuse(h) \/ (\E l \in Pcs : Proceed(h, l)) => audit' = audit
  BY DEF Refuse, End, Proceed, dbVars
<1>2. FindOwner(h) \/ FindAddress(h) \/ SendMail(h) \/ MatchCustomer(h) \/ FindProfile(h)
        => audit' = audit
  BY <1>1 DEF FindOwner, FindAddress, SendMail, MatchCustomer, FindProfile, Pcs
<1>3. FindResetToken(h) \/ FindRecoveryToken(h) \/ ActivateAborts(h) => audit' = audit
  BY <1>1, TokenOutcomes DEF Pcs, ActivateAborts
<1>4. Send(h) \/ Invalidate(h) \/ FindFactors(h) \/ CreateResetToken(h) => audit' = audit
  BY <1>1 DEF Send, Invalidate, FindFactors, CreateResetToken, dbVars
<1>5. FindUnused(h) \/ IssueRecoveryToken(h) \/ UpdateProfile(h) => audit' = audit
  BY DEF FindUnused, IssueRecoveryToken, UpdateProfile, dbVars
<1>6. CreateFactor(h) \/ Activate(h) \/ ResetPassword(h) \/ RecoverAccount(h) => audit' = audit
  BY DEF CreateFactor, Activate, ResetPassword, RecoverAccount
<1>7. Reply(h) \/ Interrupt(h) \/ ExpireReset(h) \/ ExpireRecovery(h) => audit' = audit
  BY DEF Reply, Interrupt, End, ExpireReset, ExpireRecovery, dbVars
<1>8. RecordAuditEvent(h) => audit' = audit \cup {h} /\ pc[h] = "audit"
  BY DEF RecordAuditEvent
<1> QED BY <1>2, <1>3, <1>4, <1>5, <1>6, <1>7, <1>8 DEF Step

\* How a request that audits, or is done, goes on.
LEMMA StepEnds ==
  ASSUME TypeOK, NEW h \in Handlers, Step(h)
  PROVE  /\ pc[h] = "audit" => RecordAuditEvent(h) \/ Interrupt(h) \/ pc' = pc
         /\ pc[h] = "done" => answer' = answer
<1>1. CASE ExpireReset(h) \/ ExpireRecovery(h)
  BY <1>1 DEF ExpireReset, ExpireRecovery, procVars
<1>2. CASE ~ExpireReset(h) /\ ~ExpireRecovery(h)
  BY <1>2 DEF Step, Send, FindOwner, CreateFactor, FindFactors, Activate, ActivateAborts,
     FindAddress, Invalidate, CreateResetToken, SendMail, FindResetToken, ResetPassword,
     FindRecoveryToken, RecoverAccount, MatchCustomer, FindUnused, IssueRecoveryToken,
     RecordAuditEvent, FindProfile, UpdateProfile, Reply, Interrupt, InFlight
<1> QED BY <1>1, <1>2

LEMMA StepAuditing ==
  ASSUME CredentialsAssumption, Base, Spent, Auditing, NEW h \in Handlers, Step(h)
  PROVE  Auditing'
<1> USE DEF Base
<1> SUFFICES ASSUME NEW g \in Handlers, pc'[g] = "audit" PROVE g \in wrote' /\ Audited(g)'
  BY DEF Auditing
<1>1. CASE g \in wrote
  <2>1. pc[g] = "audit"
    <3>1. CASE g # h
      BY <3>1, StepFrame
    <3>2. CASE g = h
      BY <1>1, <3>2, StepForward DEF Paths, PathsOf
    <3> QED BY <3>1, <3>2
  <2> QED BY <1>1, <2>1, StepFrame, AuditedStays DEF Auditing
<1>2. CASE g \notin wrote
  <2>1. g = h /\ pc[h] # "audit"
    BY <1>2, StepFrame DEF Auditing
  <2>2. h \in wrote'
    BY <2>1, StepArrives
  <2> QED BY <1>2, <2>1, <2>2, WritesAudited
<1> QED BY <1>1, <1>2

LEMMA StepAudit ==
  ASSUME CredentialsAssumption, Base, Spent, Auditing, AuditTellsTheTruth, NEW h \in Handlers, Step(h)
  PROVE  AuditTellsTheTruth'
<1> USE DEF Base
<1>1. ASSUME NEW g \in audit' PROVE g \in wrote' /\ Audited(g)'
  <2>1. g \in wrote /\ Audited(g)
    <3>1. CASE g \in audit
      BY <3>1 DEF AuditTellsTheTruth
    <3>2. CASE g \notin audit
      BY <1>1, <3>2, StepRecords DEF Auditing
    <3> QED BY <3>1, <3>2
  <2> QED BY <2>1, AuditedStays, StepFrame
<1>2. ASSUME NEW g \in wrote' \ audit', Audited(g)'
      PROVE  pc'[g] = "audit" \/ answer'[g] = "ERROR"
  <2>1. CASE g \notin wrote
    BY <1>2, <2>1, StepFrame, WritesAudited
  <2>2. CASE g \in wrote
    <3>1. g \in Handlers /\ (pc[g] = "audit" \/ answer[g] = "ERROR")
      BY <1>2, <2>2, StepFrame, AuditedStays DEF AuditTellsTheTruth, TypeOK
    <3>2. CASE g # h
      BY <3>1, <3>2, StepFrame
    <3>3. CASE g = h /\ answer[h] = "ERROR"
      BY <3>3, StepEnds DEF Paths, PathsOf
    <3>4. CASE g = h /\ pc[h] = "audit"
      <4>1. CASE RecordAuditEvent(h)
        BY <4>1, <3>4, <1>2 DEF RecordAuditEvent
      <4>2. CASE Interrupt(h)
        BY <4>2, <3>4, EndFacts DEF Interrupt
      <4> QED BY <3>4, <4>1, <4>2, StepEnds
    <3> QED BY <3>1, <3>2, <3>3, <3>4
  <2> QED BY <2>1, <2>2
<1> QED BY <1>1, <1>2, StepFrame DEF AuditTellsTheTruth, Base, TypeOK

-----------------------------------------------------------------------------
(* The theorems.                                                           *)

LEMMA InitInv == CredentialsAssumption /\ Init => IInv
<1> SUFFICES ASSUME CredentialsAssumption, Init PROVE IInv
  OBVIOUS
<1>1. TypeOK
  BY InitType
<1>2. /\ pc = [h \in Handlers |-> "arrive"] /\ wrote = {} /\ audit = {} /\ met = {}
      /\ req = [h \in Handlers |-> NoRequest] /\ seen = [h \in Handlers |-> NoRead]
      /\ answer = [h \in Handlers |-> "NONE"]
      /\ resetToken = [h \in Handlers |-> "none"] /\ recoveryToken = [h \in Handlers |-> "none"]
  BY DEF Init
<1>3. Paths /\ Rows /\ Meetings
  BY <1>2 DEF Paths, PathsOf, PathOf, Rows, RowsOf, Meetings, InFlight, NoRequest, NoRead
<1>4. Spent /\ SpentTwiceOnlyByRace
  BY <1>2 DEF Spent, SpentTwiceOnlyByRace, Spenders
<1>5. Issuing /\ UnusedTwiceOnlyByRace
  BY <1>2 DEF Issuing, UnusedTwiceOnlyByRace, Unused
<1>6. Accepted /\ Auditing /\ AuditTellsTheTruth
  BY <1>2 DEF Accepted, Auditing, AuditTellsTheTruth
<1>7. EnabledHasFactor
  BY DEF Init, EnabledHasFactor
<1>8. VerifiedWasProved
  <2>1. verified \subseteq {Initial} /\ proved = {Initial}
    BY DEF Init, ToSet
  <2> QED BY <2>1 DEF VerifiedWasProved
<1> QED BY <1>1, <1>3, <1>4, <1>5, <1>6, <1>7, <1>8 DEF IInv, Base

LEMMA NextInv == CredentialsAssumption /\ IInv /\ [Next]_vars => IInv'
<1> SUFFICES ASSUME CredentialsAssumption, IInv, [Next]_vars PROVE IInv'
  OBVIOUS
<1>1. ASSUME NEW h \in Handlers, Step(h) PROVE IInv'
  <2>1. Base'
    BY <1>1, StepType, StepPaths, StepRows, StepMeetings DEF IInv, Base
  <2>2. Spent' /\ SpentTwiceOnlyByRace'
    BY <1>1, StepSpent DEF IInv
  <2>3. Issuing' /\ UnusedTwiceOnlyByRace'
    BY <1>1, StepIssuing, StepUnused DEF IInv
  <2>4. EnabledHasFactor' /\ Accepted' /\ VerifiedWasProved'
    BY <1>1, StepEnabled, StepAccepted, StepVerified DEF IInv, Base
  <2>5. Auditing' /\ AuditTellsTheTruth'
    BY <1>1, StepAuditing, StepAudit DEF IInv
  <2> QED BY <2>1, <2>2, <2>3, <2>4, <2>5 DEF IInv
<1>2. CASE UNCHANGED vars
  <2> USE <1>2 DEF vars, dbVars, procVars, history
  <2>1. Base'
    BY DEF IInv, Base, TypeOK, Paths, PathsOf, Rows, RowsOf, Meetings, InFlight
  <2>2. Spent' /\ SpentTwiceOnlyByRace'
    BY DEF IInv, Spent, SpentTwiceOnlyByRace, Spenders
  <2>3. Issuing' /\ UnusedTwiceOnlyByRace'
    BY DEF IInv, Issuing, UnusedTwiceOnlyByRace
  <2>4. EnabledHasFactor' /\ Accepted' /\ VerifiedWasProved'
    BY DEF IInv, EnabledHasFactor, Accepted, VerifiedWasProved
  <2>5. Auditing' /\ AuditTellsTheTruth'
    BY DEF IInv, Auditing, AuditTellsTheTruth, Audited, Row
  <2> QED BY <2>1, <2>2, <2>3, <2>4, <2>5 DEF IInv
<1> QED BY <1>1, <1>2 DEF Next

\* Rows, tokens and what a handler holds always have their shape, and the parts
\* of the invariant hold together.
THEOREM InductiveInvariant == Spec => []IInv
BY CredentialsAssumption, InitInv, NextInv, PTL DEF Spec

\* Links that are opened one after the other work once: a reset or recovery token
\* changes the password twice only if the two requests were under way at one time.
THEOREM SpentOnce == Spec => []SpentTwiceOnlyByRace
<1>1. IInv => SpentTwiceOnlyByRace
  BY DEF IInv
<1> QED BY <1>1, InductiveInvariant, PTL

\* A request for a token invalidates what was issued before it began.
THEOREM OneUnused == Spec => []UnusedTwiceOnlyByRace
<1>1. IInv => UnusedTwiceOnlyByRace
  BY DEF IInv
<1> QED BY <1>1, InductiveInvariant, PTL

\* However setups, verifications and recoveries overlap, MFA is on without a factor
\* only if a verification turned it on that had found none.
THEOREM FactorBehindMfa == Spec => []EnabledHasFactor
<1>1. IInv => EnabledHasFactor
  BY DEF IInv
<1> QED BY <1>1, InductiveInvariant, PTL

\* A factor is verified by one of its codes, unless the secret that the page sent
\* or the demo code stood in for it.
THEOREM FactorProved == Spec => []VerifiedWasProved
<1>1. IInv => VerifiedWasProved
  BY DEF IInv
<1> QED BY <1>1, InductiveInvariant, PTL

\* The audit trail names only what happened, and misses a recovery only after an
\* error.
THEOREM AuditTrue == Spec => []AuditTellsTheTruth
<1>1. IInv => AuditTellsTheTruth
  BY DEF IInv
<1> QED BY <1>1, InductiveInvariant, PTL
=============================================================================

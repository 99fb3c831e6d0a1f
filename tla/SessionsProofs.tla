--------------------------- MODULE SessionsProofs ---------------------------
(***************************************************************************)
(* Theorems of Sessions, for every set of browsers and of requests and     *)
(* every number of backup codes.                                           *)
(***************************************************************************)
EXTENDS Sessions, TLAPS

-----------------------------------------------------------------------------
(* Types.                                                                  *)

\* A request that has been sent comes from a browser.
Asked == \A h \in Handlers : pc[h] # "arrive" => req[h].browser \in Browsers

\* What a setup writes is a factor.
LEMMA NewFactorType ==
  ASSUME NEW s \in Secrets
  PROVE  NewFactor(s) \in Factor
BY DEF NewFactor, Factor, CodesOf, Code

\* A handler that goes on, or ends, keeps the types.
LEMMA ProceedType ==
  ASSUME TypeOK, NEW h \in Handlers, NEW l \in Pcs, Proceed(h, l)
  PROVE  TypeOK'
BY DEF TypeOK, Proceed, Goto, dbVars, history

LEMMA EndType ==
  ASSUME TypeOK, NEW h \in Handlers, NEW c \in Answers, End(h, c)
  PROVE  TypeOK'
<1>1. NoRead \in Read
  BY NewFactorType DEF NoRead, Read, Secrets
<1>2. /\ pc' \in [Handlers -> Pcs]
      /\ answer' \in [Handlers -> Answers]
      /\ seen' \in [Handlers -> Read]
  BY <1>1 DEF TypeOK, End, Goto, Pcs
<1> QED BY <1>2 DEF TypeOK, End, dbVars, history

LEMMA InitType == SessionsAssumption /\ Init => TypeOK
<1> SUFFICES ASSUME SessionsAssumption, Init PROVE TypeOK
  OBVIOUS
<1>1. NewFactor(Seed) \in Factor
  BY NewFactorType DEF Secrets
<1>2. factors \subseteq Factor
  <2>1. [NewFactor(Seed) EXCEPT !.verified = TRUE] \in Factor
    BY <1>1 DEF Factor
  <2> QED BY <2>1 DEF Init
<1>3. NoRequest \in Request
  BY DEF NoRequest, Request, NoCode, Code, Secrets, SessionsAssumption
<1>4. NoRead \in Read
  BY <1>1 DEF NoRead, Read
<1>5. /\ token \in [Tokens -> TokenState]
      /\ devices \subseteq Device
      /\ cookie \in [Browsers -> Tokens \cup {None}]
  BY DEF Init, TokenState, Device, Tokens
<1>6. proved \subseteq Secrets
  BY DEF Init, Secrets
<1> QED BY <1>2, <1>3, <1>4, <1>5, <1>6 DEF Init, TypeOK, Pcs, Answers

LEMMA StepType ==
  ASSUME SessionsAssumption, TypeOK, Asked, NEW h \in Handlers, Step(h)
  PROVE  TypeOK'
<1>1. CASE Send(h)
  <2>1. PICK k \in Kinds, b \in Browsers, c \in Code, d \in Tokens \cup {None} :
          /\ req' = [req EXCEPT ![h] = [kind |-> k, browser |-> b, token |-> cookie[b],
                                        code |-> c, device |-> d]]
          /\ Goto(h, First(k))
    BY <1>1 DEF Send
  <2>2. First(k) \in Pcs
    BY DEF First, Pcs, SessionsAssumption
  <2>3. [kind |-> k, browser |-> b, token |-> cookie[b], code |-> c, device |-> d] \in Request
    BY DEF Request, TypeOK
  <2>4. req' \in [Handlers -> Request] /\ pc' \in [Handlers -> Pcs]
    BY <2>1, <2>2, <2>3 DEF TypeOK, Goto
  <2> QED BY <1>1, <2>4 DEF Send, TypeOK, dbVars, history
<1>2. CASE ReadUser(h)
  <2>1. CASE End(h, "AUTH_INVALID_CREDENTIALS")
    BY <2>1, EndType DEF Answers
  <2>2. CASE ~End(h, "AUTH_INVALID_CREDENTIALS")
    <3>2. [seen[h] EXCEPT !.enabled = enabled] \in Read
      BY DEF TypeOK, Read
    <3>3. seen' = [seen EXCEPT ![h] = [seen[h] EXCEPT !.enabled = enabled]]
      BY <1>2, <2>2 DEF ReadUser
    <3>1. /\ seen' \in [Handlers -> Read]
          /\ pc' \in [Handlers -> Pcs]
      BY <1>2, <2>2, <3>2, <3>3 DEF ReadUser, TypeOK, Goto, Pcs
    <3> QED BY <1>2, <2>2, <3>1 DEF ReadUser, TypeOK, dbVars, history
  <2> QED BY <2>1, <2>2
<1>3. CASE CheckTrust(h)
  BY <1>3, EndType, ProceedType DEF CheckTrust, Answers, Pcs
<1>4. CASE FindFactor(h)
  <2>1. CASE \E c \in Answers : End(h, c)
    BY <2>1, EndType
  <2>2. CASE \E f \in factors :
               /\ seen' = [seen EXCEPT ![h].factor = f]
               /\ Goto(h, IF req[h].code.index = 0 THEN "confirm" ELSE "codes")
               /\ UNCHANGED <<dbVars, cookie, req, answer, history>>
    <3>1. /\ seen' \in [Handlers -> Read]
          /\ pc' \in [Handlers -> Pcs]
      BY <2>2 DEF TypeOK, Read, Goto, Pcs
    <3> QED BY <2>2, <3>1 DEF TypeOK, dbVars, history
  <2> QED BY <1>4, <2>1, <2>2 DEF FindFactor, Answers
<1>5. CASE WriteCodes(h)
  <2>1. /\ seen[h].factor \in Factor
        /\ req[h].code \in Code
    BY DEF TypeOK, Read, Request
  <2>2. Remaining(h) \subseteq Code
    BY <2>1 DEF Remaining, Factor
  <2>3. factors' \subseteq Factor
    BY <1>5, <2>2 DEF WriteCodes, TypeOK, Factor
  <2>7. [seen[h].factor EXCEPT !.codes = Remaining(h)] \in Factor
    BY <2>1, <2>2 DEF Factor
  <2>8. [seen[h] EXCEPT !.factor = [seen[h].factor EXCEPT !.codes = Remaining(h)]] \in Read
    BY <2>7 DEF TypeOK, Read
  <2>4. seen' \in [Handlers -> Read]
    BY <1>5, <2>8 DEF WriteCodes, TypeOK
  <2>5. pc' \in [Handlers -> Pcs]
    BY <1>5 DEF WriteCodes, TypeOK, Goto, Pcs
  <2>6. raced' \in BOOLEAN
    BY <1>5 DEF WriteCodes, TypeOK
  <2> QED BY <1>5, <2>1, <2>3, <2>4, <2>5, <2>6 DEF WriteCodes, TypeOK
<1>6. CASE Confirm(h)
  <2>1. seen[h].factor.secret \in Secrets
    BY DEF TypeOK, Read, Factor
  <2>4. ASSUME NEW f \in factors
        PROVE  f \in Factor /\ [f EXCEPT !.verified = TRUE] \in Factor
    <3>1. f \in Factor
      BY DEF TypeOK
    <3> QED BY <3>1 DEF Factor
  <2>2. factors' \subseteq Factor
    BY <1>6, <2>4 DEF Confirm
  <2>3. pc' \in [Handlers -> Pcs] /\ raced' \in BOOLEAN /\ enabled' \in BOOLEAN
    BY <1>6 DEF Confirm, TypeOK, Goto, Pcs
  <2> QED BY <1>6, <2>1, <2>2, <2>3 DEF Confirm, TypeOK
<1>7. CASE FindDevice(h)
  <2>1. CASE Proceed(h, "bind")
    BY <2>1, ProceedType DEF Pcs
  <2>2. CASE \E d \in devices :
               /\ seen' = [seen EXCEPT ![h].device = d.id]
               /\ Goto(h, "touch")
               /\ UNCHANGED <<dbVars, cookie, req, answer, history>>
    <3>1. /\ seen' \in [Handlers -> Read]
          /\ pc' \in [Handlers -> Pcs]
      BY <2>2 DEF TypeOK, Read, Goto, Pcs, Device
    <3> QED BY <2>2, <3>1 DEF TypeOK, dbVars, history
  <2> QED BY <1>7, <2>1, <2>2 DEF FindDevice
<1>8. CASE TouchDevice(h)
  BY <1>8, EndType, ProceedType DEF TouchDevice, AfterDevice, Answers, Pcs
<1>9. CASE BindDevice(h)
  <2>1. [id |-> h, browser |-> req[h].browser] \in Device
    BY <1>9 DEF BindDevice, Asked, Device, Tokens
  <2> QED BY <1>9, <2>1 DEF BindDevice, TypeOK, Goto, AfterDevice, Pcs, history
<1>10. CASE FindEnrolled(h)
  <2>1. CASE Proceed(h, "enrol")
    BY <2>1, ProceedType DEF Pcs
  <2>2. CASE \E f \in factors :
               /\ seen' = [seen EXCEPT ![h].factor = f]
               /\ Goto(h, "replace")
               /\ UNCHANGED <<dbVars, cookie, req, answer, history>>
    <3>1. /\ seen' \in [Handlers -> Read]
          /\ pc' \in [Handlers -> Pcs]
      BY <2>2 DEF TypeOK, Read, Goto, Pcs
    <3> QED BY <2>2, <3>1 DEF TypeOK, dbVars, history
  <2> QED BY <1>10, <2>1, <2>2 DEF FindEnrolled
<1>11. CASE Enrol(h)
  <2>1. NewFactor(h) \in Factor
    BY NewFactorType DEF Secrets
  <2> QED BY <1>11, <2>1 DEF Enrol, TypeOK, Goto, Pcs, history
<1>12. CASE Replace(h)
  <2>1. NewFactor(h) \in Factor
    BY NewFactorType DEF Secrets
  <2>2. \A f \in factors : Renewed(f, h) \in Factor
    BY <2>1 DEF Renewed, TypeOK, Factor
  <2> QED BY <1>12, <2>2 DEF Replace, TypeOK, Goto, Pcs, history
<1>13. CASE FindListed(h)
  BY <1>13, EndType, ProceedType DEF FindListed, Answers, Pcs
<1>14. CASE DeleteDevice(h)
  <2>1. CASE End(h, "INTERNAL_ERROR")
    BY <2>1, EndType DEF Answers
  <2>2. CASE ~End(h, "INTERNAL_ERROR")
    BY <1>14, <2>2 DEF DeleteDevice, TypeOK, Goto, Pcs, history
  <2> QED BY <2>1, <2>2
<1>15. CASE FindToken(h)
  BY <1>15, EndType, ProceedType DEF FindToken, Answers, Pcs
<1>16. CASE RevokeOld(h)
  BY <1>16 DEF RevokeOld, TypeOK, TokenState, Goto, Pcs, history
<1>17. CASE CreateToken(h)
  <2>1. parent' \in [Tokens -> Tokens \cup {None}]
    BY <1>17 DEF CreateToken, TypeOK, Request
  <2> QED BY <1>17, <2>1 DEF CreateToken, TypeOK, TokenState, Goto, Pcs
<1>18. CASE Logout(h)
  <2>1. CASE Proceed(h, "respond")
    BY <2>1, ProceedType DEF Pcs
  <2>2. CASE ~Proceed(h, "respond")
    BY <1>18, <2>2 DEF Logout, TypeOK, TokenState, Goto, Pcs, history
  <2> QED BY <2>1, <2>2
<1>19. CASE Respond(h)
  <2>1. NoRead \in Read
    BY NewFactorType DEF NoRead, Read, Secrets
  <2>2. cookie' \in [Browsers -> Tokens \cup {None}]
    BY <1>19 DEF Respond, CookieAfter, TypeOK, Request, Tokens
  <2> QED BY <1>19, <2>1, <2>2 DEF Respond, TypeOK, Goto, Pcs, Answers, dbVars, history
<1>20. CASE Interrupt(h)
  BY <1>20, EndType DEF Interrupt, Answers
<1> QED
  BY <1>1, <1>2, <1>3, <1>4, <1>5, <1>6, <1>7, <1>8, <1>9, <1>10, <1>11, <1>12, <1>13,
     <1>14, <1>15, <1>16, <1>17, <1>18, <1>19, <1>20 DEF Step

\* Seven days pass, or nothing happens.
LEMMA ExpireType ==
  ASSUME TypeOK, NEW t \in Tokens, Expire(t)
  PROVE  TypeOK'
BY DEF TypeOK, Expire, TokenState, procVars, history

LEMMA StepAsked ==
  ASSUME TypeOK, Asked, NEW h \in Handlers, Step(h)
  PROVE  Asked'
<1>1. CASE Send(h)
  BY <1>1 DEF Send, Asked, TypeOK, Goto
<1>2. CASE ~Send(h)
  <2>1. UNCHANGED req /\ pc[h] # "arrive" /\ \E l : pc' = [pc EXCEPT ![h] = l]
    BY <1>2 DEF Step, ReadUser, CheckTrust, FindFactor, WriteCodes, Confirm, FindDevice,
       TouchDevice, BindDevice, FindEnrolled, Enrol, Replace, FindListed, DeleteDevice,
       FindToken, RevokeOld, CreateToken, Logout, Respond, Interrupt, Proceed, End, Goto
  <2> QED BY <2>1 DEF Asked, TypeOK
<1> QED BY <1>1, <1>2

\* Every row, cookie and request keeps its type, for every instance.
THEOREM TypeCorrect == Spec => []TypeOK
<1>1. TypeOK /\ Asked /\ UNCHANGED vars => (TypeOK /\ Asked)'
  BY DEF TypeOK, Asked, vars, dbVars, procVars, history
<1>2. ASSUME TypeOK, Asked, NEW t \in Tokens, Expire(t) PROVE (TypeOK /\ Asked)'
  BY <1>2, ExpireType DEF Expire, Asked, procVars
<1>3. TypeOK /\ Asked /\ [Next]_vars => (TypeOK /\ Asked)'
  BY <1>1, <1>2, StepType, StepAsked, SessionsAssumption DEF Next
<1>4. Init => TypeOK /\ Asked
  BY InitType, SessionsAssumption DEF Init, Asked
<1> QED BY <1>3, <1>4, PTL DEF Spec

-----------------------------------------------------------------------------
(* Refresh tokens and cookies.                                             *)

\* The labels a request of kind k with token t can be at.
Fits(k, t, l) ==
  /\ l = "arrive" => k = "none" /\ t = None
  /\ l \in {"user", "trusted"} => k = "login"
  /\ l \in {"factor", "codes", "confirm"} => k = "verify"
  /\ l \in {"device", "touch", "bind"} => k \in {"verify", "trust"}
  /\ l \in {"setup", "enrol", "replace"} => k = "setup"
  /\ l \in {"listed", "delete"} => k = "revoke"
  /\ l = "lookup" => k = "refresh"
  /\ l = "rotate" => k = "refresh" /\ t # None
  /\ l = "logout" => k = "logout"
  /\ l = "create" => k \in {"login", "verify"} \/ (k = "refresh" /\ t # None)

Stages == \A h \in Handlers : Fits(req[h].kind, req[h].token, pc[h])

\* A request has no token of its own before it has created it.
Unborn == \A h \in Handlers : pc[h] \notin {"respond", "done"} => token[h] = "none"

\* A token that was exchanged, or is about to be, is revoked.
Exchanged == /\ \A s \in Tokens : parent[s] # None => token[parent[s]] = "revoked"
             /\ \A h \in Handlers :
                  pc[h] = "create" /\ req[h].kind = "refresh" =>
                    token[req[h].token] = "revoked"

Consumes(h, t) == req[h].kind \in {"refresh", "logout"} /\ req[h].token = t

\* Behind every revoked token there is a refresh or a logout that has passed
\* the update, and was not refused.
Revoked(h, t) == /\ Consumes(h, t)
                 /\ pc[h] \in {"create", "respond", "done"}
                 /\ pc[h] = "done" => answer[h] \in {"OK", "LOST"}

Revokers == \A t \in Tokens : token[t] = "revoked" => \E h \in Handlers : Revoked(h, t)

\* A refresh or logout that was answered has taken its token out of the browsers.
Delivered == \A h \in Handlers, b \in Browsers, t \in Tokens :
               pc[h] = "done" /\ answer[h] = "OK" /\ Consumes(h, t) => cookie[b] # t

\* Nobody holds the token of a request that has not been answered.
Undelivered == \A h \in Handlers :
                 pc[h] # "done" => /\ \A b \in Browsers : cookie[b] # h
                                   /\ \A g \in Handlers : req[g].token # h

\* A token is in one browser, and requests that carry it come from there.
OneBrowser == /\ \A b, d \in Browsers : cookie[b] = cookie[d] /\ cookie[b] # None => b = d
              /\ \A h \in Handlers, b \in Browsers :
                   req[h].token = cookie[b] /\ cookie[b] # None => req[h].browser = b

TokenInv == /\ TypeOK /\ Asked /\ Stages /\ Unborn /\ Exchanged
            /\ Revokers /\ Delivered /\ Undelivered /\ OneBrowser

\* h goes on to l, or ends without an answer that counts; no token, cookie or
\* request changes.
Quiet(h, l) ==
  /\ UNCHANGED <<token, cookie, req, parent>>
  /\ pc' = [pc EXCEPT ![h] = l]
  /\ pc[h] # "arrive" /\ l # "arrive"
  /\ Fits(req[h].kind, req[h].token, l)
  /\ \/ /\ l # "done"
        /\ UNCHANGED answer
        /\ pc[h] \notin {"create", "respond", "done"}
        /\ l = "create" => req[h].kind # "refresh"
     \/ /\ l = "done"
        /\ pc[h] # "done"
        /\ \E c \in Answers \ {"OK"} :
             /\ answer' = [answer EXCEPT ![h] = c]
             /\ pc[h] \in {"create", "respond"} => c = "LOST"

LEMMA ProceedQuiet ==
  ASSUME NEW h \in Handlers, NEW l, Proceed(h, l), Fits(req[h].kind, req[h].token, l),
         pc[h] \notin {"arrive", "create", "respond", "done"}, l \notin {"arrive", "done"},
         l = "create" => req[h].kind # "refresh"
  PROVE  Quiet(h, l)
BY DEF Proceed, Goto, Quiet, dbVars, history

LEMMA EndQuiet ==
  ASSUME NEW h \in Handlers, NEW c \in Answers \ {"OK"}, End(h, c),
         pc[h] \notin {"arrive", "done"}, pc[h] \in {"create", "respond"} => c = "LOST"
  PROVE  Quiet(h, "done")
BY DEF End, Goto, Quiet, Fits, dbVars, history

\* What leaves the types aside and is quiet keeps the invariant.
LEMMA QuietInv ==
  ASSUME SessionsAssumption, TokenInv, TypeOK', NEW h \in Handlers, NEW l, Quiet(h, l)
  PROVE  TokenInv'
<1>1. /\ pc'[h] = l
      /\ \A g \in Handlers : g # h => pc'[g] = pc[g] /\ answer'[g] = answer[g]
  BY DEF Quiet, TokenInv, TypeOK
<1>2. Asked' /\ Stages'
  BY <1>1 DEF Quiet, TokenInv, Asked, Stages
<1>3. Unborn'
  BY <1>1 DEF Quiet, TokenInv, Unborn
<1>4. Exchanged'
  BY <1>1 DEF Quiet, TokenInv, Exchanged
<1>5. Revokers'
  <2> SUFFICES ASSUME NEW t \in Tokens, token[t] = "revoked"
               PROVE  \E g \in Handlers : Revoked(g, t)'
    BY DEF Quiet, Revokers
  <2>1. PICK g \in Handlers : Revoked(g, t)
    BY DEF TokenInv, Revokers
  <2>2. CASE g # h
    BY <1>1, <2>1, <2>2 DEF Quiet, Revoked, Consumes
  <2>3. CASE g = h
    <3>1. l = "done" /\ answer'[h] = "LOST"
      BY <2>1, <2>3 DEF Quiet, Revoked, TokenInv, TypeOK
    <3> QED BY <1>1, <2>1, <2>3, <3>1 DEF Quiet, Revoked, Consumes
  <2> QED BY <2>2, <2>3
<1>6. Delivered'
  <2>1. pc'[h] = "done" => answer'[h] # "OK"
    BY <1>1 DEF Quiet, TokenInv, TypeOK
  <2> QED BY <1>1, <2>1 DEF Quiet, TokenInv, Delivered, Consumes
<1>7. Undelivered'
  BY <1>1 DEF Quiet, TokenInv, Undelivered
<1>8. OneBrowser'
  BY DEF Quiet, TokenInv, OneBrowser
<1> QED BY <1>2, <1>3, <1>4, <1>5, <1>6, <1>7, <1>8 DEF TokenInv

LEMMA SendInv ==
  ASSUME SessionsAssumption, TokenInv, TypeOK', NEW h \in Handlers, Send(h)
  PROVE  TokenInv'
<1>1. PICK k \in Kinds, b \in Browsers :
        /\ req'[h].kind = k /\ req'[h].browser = b /\ req'[h].token = cookie[b]
        /\ pc' = [pc EXCEPT ![h] = First(k)]
        /\ \A g \in Handlers : g # h => req'[g] = req[g]
  <2>1. PICK k \in Kinds, b \in Browsers, c \in Code, d \in Tokens \cup {None} :
          /\ req' = [req EXCEPT ![h] = [kind |-> k, browser |-> b, token |-> cookie[b],
                                        code |-> c, device |-> d]]
          /\ pc' = [pc EXCEPT ![h] = First(k)]
    BY DEF Send, Goto
  <2> QED BY <2>1 DEF TokenInv, TypeOK
<1>2. /\ UNCHANGED <<token, cookie, parent, answer>>
      /\ pc[h] = "arrive"
      /\ pc'[h] = First(k)
      /\ \A g \in Handlers : g # h => pc'[g] = pc[g]
      /\ First(k) \notin {"arrive", "create", "respond", "done"}
      /\ Fits(k, cookie[b], First(k))
  BY <1>1 DEF Send, TokenInv, TypeOK, dbVars, history, First, Fits, SessionsAssumption
<1>3. Asked' /\ Stages'
  BY <1>1, <1>2 DEF TokenInv, Asked, Stages
<1>4. Unborn' /\ Exchanged'
  BY <1>1, <1>2 DEF TokenInv, Unborn, Exchanged
<1>5. Revokers'
  BY <1>1, <1>2 DEF TokenInv, Revokers, Revoked, Consumes
<1>6. Delivered'
  BY <1>1, <1>2 DEF TokenInv, Delivered, Consumes
<1>7. Undelivered'
  BY <1>1, <1>2 DEF TokenInv, Undelivered
<1>8. OneBrowser'
  BY <1>1, <1>2 DEF TokenInv, OneBrowser
<1> QED BY <1>3, <1>4, <1>5, <1>6, <1>7, <1>8 DEF TokenInv

\* The update of a refresh or a logout: h revokes its own token.
Revokes(h, l) == \/ RevokeOld(h) /\ l = "create"
                 \/ Logout(h) /\ ~Proceed(h, "respond") /\ l = "respond"

LEMMA RevokeInv ==
  ASSUME SessionsAssumption, TokenInv, TypeOK', NEW h \in Handlers,
         NEW l \in {"create", "respond"}, Revokes(h, l)
  PROVE  TokenInv'
<1> DEFINE t == req[h].token
<1>1. /\ t \in Tokens /\ Consumes(h, t)
      /\ token' = [token EXCEPT ![t] = "revoked"]
      /\ pc' = [pc EXCEPT ![h] = l]
      /\ UNCHANGED <<cookie, req, answer, parent>>
      /\ pc[h] \in {"rotate", "logout"}
      /\ Fits(req[h].kind, t, l)
  BY DEF Revokes, RevokeOld, Logout, Goto, TokenInv, TypeOK, Stages, Fits, Request, Consumes, history
<1>2. /\ pc'[h] = l
      /\ \A g \in Handlers : g # h => pc'[g] = pc[g]
      /\ token'[t] = "revoked"
      /\ \A s \in Tokens : s # t => token'[s] = token[s]
  BY <1>1 DEF TokenInv, TypeOK
<1>3. Asked' /\ Stages'
  BY <1>1, <1>2 DEF TokenInv, Asked, Stages
<1>4. Unborn'
  <2>1. \A g \in Handlers : pc[g] # "done" => g # t
    BY DEF TokenInv, Undelivered
  <2> QED BY <1>1, <1>2, <2>1 DEF TokenInv, Unborn, Tokens
<1>5. Exchanged'
  BY <1>1, <1>2 DEF TokenInv, Exchanged, TypeOK, Request
<1>6. Revokers'
  <2>1. Revoked(h, t)'
    BY <1>1, <1>2 DEF Revoked, Consumes
  <2>2. ASSUME NEW s \in Tokens, NEW g \in Handlers, g # h, Revoked(g, s)
        PROVE  Revoked(g, s)'
    BY <1>1, <1>2, <2>2 DEF Revoked, Consumes
  <2>3. \A s \in Tokens : ~Revoked(h, s)
    BY <1>1 DEF Revoked
  <2>4. \A s \in Tokens : token[s] = "revoked" => \E g \in Handlers : g # h /\ Revoked(g, s)
    BY <2>3 DEF TokenInv, Revokers
  <2>5. ASSUME NEW s \in Tokens, token'[s] = "revoked"
        PROVE  \E g \in Handlers : Revoked(g, s)'
    <3>1. CASE s = t
      BY <1>1, <2>1, <3>1
    <3>2. CASE s # t
      BY <1>2, <2>2, <2>4, <2>5, <3>2
    <3> QED BY <3>1, <3>2
  <2> QED BY <2>5 DEF Revokers
<1>7. Delivered'
  BY <1>1, <1>2 DEF TokenInv, Delivered, Consumes
<1>8. Undelivered'
  BY <1>1, <1>2 DEF TokenInv, Undelivered
<1>9. OneBrowser'
  BY <1>1 DEF TokenInv, OneBrowser
<1> QED BY <1>3, <1>4, <1>5, <1>6, <1>7, <1>8, <1>9 DEF TokenInv

LEMMA CreateInv ==
  ASSUME SessionsAssumption, TokenInv, TypeOK', NEW h \in Handlers, CreateToken(h)
  PROVE  TokenInv'
<1>1. /\ pc[h] = "create" /\ pc'[h] = "respond"
      /\ \A g \in Handlers : g # h => pc'[g] = pc[g]
      /\ UNCHANGED <<cookie, req, answer>>
      /\ token[h] = "none" /\ token'[h] = "live"
      /\ \A s \in Tokens : s # h => token'[s] = token[s] /\ parent'[s] = parent[s]
      /\ parent'[h] = IF req[h].kind = "refresh" THEN req[h].token ELSE None
  BY DEF CreateToken, Goto, TokenInv, TypeOK, Unborn, Tokens
<1>2. Asked' /\ Stages'
  BY <1>1 DEF TokenInv, Asked, Stages, Fits
<1>3. Unborn'
  BY <1>1 DEF TokenInv, Unborn, Tokens
<1>4. Exchanged'
  <2>1. \A s \in Tokens : token[s] = "revoked" => token'[s] = "revoked"
    BY <1>1
  <2>2. \A s \in Tokens : parent[s] \in Tokens \cup {None}
    BY DEF TokenInv, TypeOK
  <2>3. \A g \in Handlers : req[g].token \in Tokens \cup {None}
    BY DEF TokenInv, TypeOK, Request
  <2>4. \A g \in Handlers : pc[g] = "create" /\ req[g].kind = "refresh" =>
                              req[g].token # None
    BY DEF TokenInv, Stages, Fits
  <2> QED BY <1>1, <2>1, <2>2, <2>3, <2>4 DEF TokenInv, Exchanged
<1>5. Revokers'
  BY <1>1 DEF TokenInv, Revokers, Revoked, Consumes
<1>6. Delivered' /\ Undelivered'
  BY <1>1 DEF TokenInv, Delivered, Undelivered, Consumes
<1>7. OneBrowser'
  BY <1>1 DEF TokenInv, OneBrowser
<1> QED BY <1>2, <1>3, <1>4, <1>5, <1>6, <1>7 DEF TokenInv

LEMMA RespondInv ==
  ASSUME SessionsAssumption, TokenInv, TypeOK', NEW h \in Handlers, Respond(h)
  PROVE  TokenInv'
<1> DEFINE b == req[h].browser
<1>1. /\ pc[h] = "respond" /\ pc'[h] = "done" /\ answer'[h] = "OK"
      /\ \A g \in Handlers : g # h => pc'[g] = pc[g] /\ answer'[g] = answer[g]
      /\ UNCHANGED <<token, req, parent>>
      /\ b \in Browsers
      /\ cookie'[b] = CookieAfter(h)
      /\ \A d \in Browsers : d # b => cookie'[d] = cookie[d]
  BY DEF Respond, Goto, TokenInv, TypeOK, Asked, dbVars, history
<1>2. /\ CookieAfter(h) \in {h, None, cookie[b]}
      /\ req[h].kind \in {"refresh", "logout"} => CookieAfter(h) \in {h, None}
  BY DEF CookieAfter
<1>3. /\ \A d \in Browsers : cookie[d] # h
      /\ \A g \in Handlers : req[g].token # h
      /\ h # None /\ h \in Tokens
  BY <1>1 DEF TokenInv, Undelivered, Tokens, SessionsAssumption
<1>4. Asked' /\ Stages'
  BY <1>1 DEF TokenInv, Asked, Stages, Fits
<1>5. Unborn' /\ Exchanged'
  BY <1>1 DEF TokenInv, Unborn, Exchanged
<1>6. Revokers'
  BY <1>1 DEF TokenInv, Revokers, Revoked, Consumes
<1>7. Delivered'
  <2> SUFFICES ASSUME NEW g \in Handlers, NEW d \in Browsers, NEW t \in Tokens,
                      pc'[g] = "done", answer'[g] = "OK", Consumes(g, t), cookie'[d] = t
               PROVE  FALSE
    BY <1>1 DEF Delivered, Consumes
  <2>1. t # h /\ t # None
    BY <1>3 DEF Consumes, Tokens, SessionsAssumption
  <2>2. cookie[d] = t
    BY <1>1, <1>2, <2>1
  <2>3. g = h
    BY <1>1, <2>2 DEF TokenInv, Delivered
  <2>4. d = b
    BY <2>1, <2>2, <2>3 DEF TokenInv, OneBrowser, Consumes
  <2> QED BY <1>1, <1>2, <2>1, <2>3, <2>4 DEF Consumes
<1>8. Undelivered'
  <2>1. \A g \in Handlers : g # None
    BY DEF SessionsAssumption
  <2> QED BY <1>1, <1>2, <2>1 DEF TokenInv, Undelivered
<1>9. OneBrowser'
  BY <1>1, <1>2, <1>3 DEF TokenInv, OneBrowser
<1> QED BY <1>4, <1>5, <1>6, <1>7, <1>8, <1>9 DEF TokenInv

LEMMA ExpireInv ==
  ASSUME SessionsAssumption, TokenInv, TypeOK', NEW t \in Tokens, Expire(t)
  PROVE  TokenInv'
<1>1. /\ UNCHANGED <<cookie, req, pc, answer, parent>>
      /\ token[t] = "live" /\ token'[t] = "expired"
      /\ \A s \in Tokens : s # t => token'[s] = token[s]
  BY DEF Expire, TokenInv, TypeOK, procVars, history
<1>2. Asked' /\ Stages' /\ Delivered' /\ Undelivered' /\ OneBrowser'
  BY <1>1 DEF TokenInv, Asked, Stages, Delivered, Undelivered, OneBrowser, Consumes
<1>3. Unborn'
  BY <1>1 DEF TokenInv, Unborn, Tokens
<1>4. Exchanged'
  <2>1. \A s \in Tokens : token[s] = "revoked" => token'[s] = "revoked"
    BY <1>1
  <2>2. \A s \in Tokens : parent[s] \in Tokens \cup {None}
    BY DEF TokenInv, TypeOK
  <2>3. \A g \in Handlers : req[g].token \in Tokens \cup {None}
    BY DEF TokenInv, TypeOK, Request
  <2>4. \A g \in Handlers : pc[g] = "create" /\ req[g].kind = "refresh" =>
                              req[g].token # None
    BY DEF TokenInv, Stages, Fits
  <2> QED BY <1>1, <2>1, <2>2, <2>3, <2>4 DEF TokenInv, Exchanged
<1>5. Revokers'
  BY <1>1 DEF TokenInv, Revokers, Revoked, Consumes
<1> QED BY <1>2, <1>3, <1>4, <1>5 DEF TokenInv

\* Every other action is quiet.
LEMMA StepInv ==
  ASSUME SessionsAssumption, TokenInv, NEW h \in Handlers, Step(h)
  PROVE  TokenInv'
<1>1. TypeOK'
  BY StepType DEF TokenInv
<1>2. CASE Send(h)
  BY <1>1, <1>2, SendInv
<1>3. CASE RevokeOld(h)
  <2>1. Revokes(h, "create")
    BY <1>3 DEF Revokes
  <2> QED BY <1>1, <2>1, RevokeInv
<1>4. CASE Logout(h) /\ ~Proceed(h, "respond")
  <2>1. Revokes(h, "respond")
    BY <1>4 DEF Revokes
  <2> QED BY <1>1, <2>1, RevokeInv
<1>5. CASE CreateToken(h)
  BY <1>1, <1>5, CreateInv
<1>6. CASE Respond(h)
  BY <1>1, <1>6, RespondInv
<1>7. CASE \E l : Quiet(h, l)
  BY <1>1, <1>7, QuietInv
<1>8. Fits(req[h].kind, req[h].token, pc[h])
  BY DEF TokenInv, Stages
<1>9. ASSUME ReadUser(h) \/ CheckTrust(h) PROVE \E l : Quiet(h, l)
  <2>1. CASE \E c \in Answers \ {"OK"} : End(h, c)
    BY <1>9, <2>1, EndQuiet DEF ReadUser, CheckTrust
  <2>2. CASE CheckTrust(h) /\ Proceed(h, "create")
    BY <1>8, <2>2, ProceedQuiet DEF CheckTrust, Fits
  <2>3. CASE ReadUser(h) /\ Goto(h, "trusted") /\ UNCHANGED <<dbVars, cookie, req, answer, history>>
    <3>1. /\ pc[h] = "user"
          /\ Goto(h, "trusted")
          /\ UNCHANGED <<token, cookie, req, answer, parent>>
      BY <2>3 DEF ReadUser, dbVars, history
    <3>2. Quiet(h, "trusted")
      BY <1>8, <3>1 DEF Goto, Quiet, Fits
    <3> QED BY <3>2
  <2> QED BY <1>9, <2>1, <2>2, <2>3 DEF ReadUser, CheckTrust, Answers
<1>10. ASSUME FindFactor(h) \/ WriteCodes(h) \/ Confirm(h) PROVE \E l : Quiet(h, l)
  <2>1. CASE \E c \in Answers \ {"OK"} : End(h, c)
    BY <1>10, <2>1, EndQuiet DEF FindFactor, WriteCodes, Confirm
  <2>2. CASE ~\E c \in Answers \ {"OK"} : End(h, c)
    <3>1. PICK l \in {"codes", "confirm", "device"} :
            /\ pc[h] \in {"factor", "codes", "confirm"}
            /\ Goto(h, l)
            /\ UNCHANGED <<token, cookie, req, answer, parent>>
      BY <1>10, <2>2 DEF FindFactor, WriteCodes, Confirm, Answers, dbVars, history
    <3> QED BY <1>8, <3>1 DEF Goto, Quiet, Fits
  <2> QED BY <2>1, <2>2
<1>11. ASSUME FindDevice(h) \/ TouchDevice(h) \/ BindDevice(h) PROVE \E l : Quiet(h, l)
  <2>1. CASE \E c \in Answers \ {"OK"} : End(h, c)
    BY <1>11, <2>1, EndQuiet DEF FindDevice, TouchDevice, BindDevice
  <2>2. CASE ~\E c \in Answers \ {"OK"} : End(h, c)
    <3>1. PICK l \in {"bind", "touch", AfterDevice(h)} :
            /\ pc[h] \in {"device", "touch", "bind"}
            /\ Goto(h, l)
            /\ UNCHANGED <<token, cookie, req, answer, parent>>
      BY <1>11, <2>2 DEF FindDevice, TouchDevice, BindDevice, Proceed, Answers, dbVars, history
    <3> QED BY <1>8, <3>1 DEF Goto, Quiet, Fits, AfterDevice
  <2> QED BY <2>1, <2>2
<1>12. ASSUME FindEnrolled(h) \/ Enrol(h) \/ Replace(h) PROVE \E l : Quiet(h, l)
  <2>1. PICK l \in {"enrol", "replace", "respond"} :
          /\ pc[h] \in {"setup", "enrol", "replace"}
          /\ Goto(h, l)
          /\ UNCHANGED <<token, cookie, req, answer, parent>>
    BY <1>12 DEF FindEnrolled, Enrol, Replace, Proceed, dbVars, history
  <2> QED BY <1>8, <2>1 DEF Goto, Quiet, Fits
<1>13. ASSUME FindListed(h) \/ DeleteDevice(h) PROVE \E l : Quiet(h, l)
  <2>1. CASE \E c \in Answers \ {"OK"} : End(h, c)
    BY <1>13, <2>1, EndQuiet DEF FindListed, DeleteDevice
  <2>2. CASE ~\E c \in Answers \ {"OK"} : End(h, c)
    <3>1. PICK l \in {"delete", "respond"} :
            /\ pc[h] \in {"listed", "delete"}
            /\ Goto(h, l)
            /\ UNCHANGED <<token, cookie, req, answer, parent>>
      BY <1>13, <2>2 DEF FindListed, DeleteDevice, Proceed, Answers, dbVars, history
    <3> QED BY <1>8, <3>1 DEF Goto, Quiet, Fits
  <2> QED BY <2>1, <2>2
<1>14. ASSUME FindToken(h) PROVE \E l : Quiet(h, l)
  <2>1. CASE End(h, "AUTH_REFRESH_EXPIRED")
    BY <1>14, <2>1, EndQuiet DEF FindToken, Answers
  <2>2. CASE ~End(h, "AUTH_REFRESH_EXPIRED")
    BY <1>8, <1>14, <2>2, ProceedQuiet DEF FindToken, Fits
  <2> QED BY <2>1, <2>2
<1>15. ASSUME Logout(h), Proceed(h, "respond") PROVE \E l : Quiet(h, l)
  BY <1>8, <1>15, ProceedQuiet DEF Logout, Fits
<1>16. ASSUME Interrupt(h) PROVE \E l : Quiet(h, l)
  BY <1>16, EndQuiet DEF Interrupt, Answers
<1> QED
  BY <1>2, <1>3, <1>4, <1>5, <1>6, <1>7, <1>9, <1>10, <1>11, <1>12, <1>13, <1>14, <1>15,
     <1>16 DEF Step

LEMMA InitInv == SessionsAssumption /\ Init => TokenInv
<1> SUFFICES ASSUME SessionsAssumption, Init PROVE TokenInv
  OBVIOUS
<1>1. TypeOK
  BY InitType
<1>2. \A b \in Browsers, h \in Handlers : cookie[b] # h /\ b # None /\ b # h /\ h # None
  BY DEF Init, SessionsAssumption
<1>3. /\ \A h \in Handlers : token[h] = "none"
      /\ \A t \in Tokens : token[t] # "revoked"
      /\ \A h \in Handlers : pc[h] = "arrive" /\ req[h].kind = "none" /\ req[h].token = None
      /\ \A s \in Tokens : parent[s] = None
  BY <1>2 DEF Init, Tokens, NoRequest
<1> QED
  BY <1>1, <1>2, <1>3 DEF Init, TokenInv, Asked, Stages, Fits, Unborn, Exchanged, Revokers,
     Delivered, Undelivered, OneBrowser

LEMMA TokenInvariant == Spec => []TokenInv
<1>1. TokenInv /\ UNCHANGED vars => TokenInv'
  BY DEF TokenInv, TypeOK, Asked, Stages, Unborn, Exchanged, Revokers, Revoked, Consumes,
     Delivered, Undelivered, OneBrowser, vars, dbVars, procVars, history
<1>2. ASSUME TokenInv, NEW t \in Tokens, Expire(t) PROVE TokenInv'
  BY <1>2, ExpireType, ExpireInv, SessionsAssumption DEF TokenInv
<1>3. TokenInv /\ [Next]_vars => TokenInv'
  BY <1>1, <1>2, StepInv, SessionsAssumption DEF Next
<1> QED BY InitInv, <1>3, SessionsAssumption, PTL DEF Spec

\* However refreshes race, a token that was exchanged can no longer be used.
THEOREM ExchangedIsDead == Spec => []OnlyLeavesLive
<1>1. TokenInv /\ SessionsAssumption => OnlyLeavesLive
  BY DEF TokenInv, Exchanged, OnlyLeavesLive, Tokens, SessionsAssumption
<1> QED BY <1>1, TokenInvariant, SessionsAssumption, PTL

\* Only the requests that consume its token end the session of a browser, for
\* any number of browsers and requests.
THEOREM SessionIsKept == Spec => []BrowserKeepsItsSession
<1>1. TokenInv => BrowserKeepsItsSession
  <2> SUFFICES ASSUME TokenInv, NEW b \in Browsers, NEW t \in Tokens,
                      cookie[b] = t, token[t] = "revoked"
               PROVE  Consuming(t)
    BY DEF BrowserKeepsItsSession
  <2>1. PICK h \in Handlers : Revoked(h, t)
    BY DEF TokenInv, Revokers
  <2>2. ~(pc[h] = "done" /\ answer[h] = "OK")
    BY <2>1 DEF TokenInv, Delivered, Revoked
  <2> QED BY <2>1, <2>2 DEF Consuming, Revoked, Consumes
<1> QED BY <1>1, TokenInvariant, PTL

-----------------------------------------------------------------------------
(* MFA factors and backup codes.                                           *)

\* The secrets that some setup has written, or that were there before.
Written(s) == s = Seed \/ (s \in Handlers /\ pc[s] \in {"respond", "done"})

\* Factors differ in id and in secret, and everything in them was written.
Distinct == /\ \A f \in factors : Written(f.id) /\ Written(f.secret)
            /\ \A f, g \in factors : f.id = g.id \/ f.secret = g.secret => f = g

\* The codes in the table, in the hands of a verification, and accepted ones.
CodesWritten == /\ \A f \in factors : \A c \in f.codes : Written(c.secret)
                /\ \A h \in Handlers : pc[h] = "codes" =>
                     /\ req[h].code \in seen[h].factor.codes
                     /\ \A c \in seen[h].factor.codes : Written(c.secret)
                /\ \A c \in spent : Written(c.secret)

\* Without a race a factor lists codes of its own secret, none of them accepted.
CodesUnspent == ~raced => \A f \in factors :
                            \A c \in f.codes : c.secret = f.secret /\ c \notin spent

FactorInv == /\ TypeOK /\ Distinct /\ CodesWritten /\ CodesUnspent
             /\ CodeReusedOnlyByRace /\ VerifiedWasProved

\* h goes on to l and leaves factors and codes alone.
Aside(h, l) ==
  /\ UNCHANGED <<factors, spent, reused, proved, raced>>
  /\ pc' = [pc EXCEPT ![h] = l]
  /\ l # "codes"
  /\ pc[h] \in {"respond", "done"} => l = "done"
  /\ \A g \in Handlers : g # h => seen'[g] = seen[g] /\ req'[g] = req[g]

LEMMA AsideInv ==
  ASSUME FactorInv, TypeOK', NEW h \in Handlers, NEW l, Aside(h, l)
  PROVE  FactorInv'
<1>1. \A s : Written(s) => Written(s)'
  BY DEF Aside, Written, FactorInv, TypeOK
<1>2. Distinct'
  BY <1>1 DEF Aside, FactorInv, Distinct
<1>3. CodesWritten'
  <2>1. \A g \in Handlers : pc'[g] = "codes" =>
          pc[g] = "codes" /\ seen'[g] = seen[g] /\ req'[g] = req[g]
    BY DEF Aside, FactorInv, TypeOK
  <2> QED BY <1>1, <2>1 DEF Aside, FactorInv, CodesWritten
<1>4. CodesUnspent' /\ CodeReusedOnlyByRace' /\ VerifiedWasProved'
  BY DEF Aside, FactorInv, CodesUnspent, CodeReusedOnlyByRace, VerifiedWasProved
<1> QED BY <1>2, <1>3, <1>4 DEF FactorInv

LEMMA FindFactorInv ==
  ASSUME FactorInv, TypeOK', NEW h \in Handlers, FindFactor(h)
  PROVE  FactorInv'
<1>1. CASE \E c \in Answers : End(h, c)
  <2>1. Aside(h, "done")
    BY <1>1 DEF End, Goto, Aside, FactorInv, TypeOK, dbVars, history
  <2> QED BY <2>1, AsideInv
<1>2. CASE ~\E c \in Answers : End(h, c)
  <2>1. PICK f \in factors :
          /\ Matches(req[h].code, f)
          /\ seen' = [seen EXCEPT ![h].factor = f]
          /\ Goto(h, IF req[h].code.index = 0 THEN "confirm" ELSE "codes")
          /\ UNCHANGED <<dbVars, cookie, req, answer, history>>
          /\ pc[h] = "factor"
    BY <1>2 DEF FindFactor, Answers
  <2>2. CASE req[h].code.index = 0
    <3>1. Aside(h, "confirm")
      BY <2>1, <2>2 DEF Goto, Aside, FactorInv, TypeOK, dbVars, history
    <3> QED BY <3>1, AsideInv
  <2>3. CASE req[h].code.index # 0
    <3>1. /\ UNCHANGED <<factors, spent, reused, proved, raced, req>>
          /\ pc'[h] = "codes" /\ seen'[h].factor = f /\ req[h].code \in f.codes
          /\ \A g \in Handlers : g # h => pc'[g] = pc[g] /\ seen'[g] = seen[g]
      BY <2>1, <2>3 DEF Goto, Matches, FactorInv, TypeOK, Read, dbVars, history
    <3>2. \A s : Written(s) => Written(s)'
      BY <2>1, <3>1 DEF Written
    <3>3. Distinct' /\ CodesWritten'
      BY <3>1, <3>2 DEF FactorInv, Distinct, CodesWritten
    <3>4. CodesUnspent' /\ CodeReusedOnlyByRace' /\ VerifiedWasProved'
      BY <3>1 DEF FactorInv, CodesUnspent, CodeReusedOnlyByRace, VerifiedWasProved
    <3> QED BY <3>3, <3>4 DEF FactorInv
  <2> QED BY <2>2, <2>3
<1> QED BY <1>1, <1>2

\* The lists that were read and written back.
LEMMA WriteCodesInv ==
  ASSUME FactorInv, TypeOK', NEW h \in Handlers, WriteCodes(h)
  PROVE  FactorInv'
<1> DEFINE i == seen[h].factor.id
           c == req[h].code
           W(f) == IF f.id = i THEN [f EXCEPT !.codes = Remaining(h)] ELSE f
<1>1. /\ pc[h] = "codes" /\ pc'[h] = "confirm"
      /\ \A g \in Handlers : g # h => pc'[g] = pc[g] /\ seen'[g] = seen[g]
      /\ factors' = {W(f) : f \in factors}
      /\ spent' = spent \cup {c}
      /\ reused' = reused \cup ({c} \cap spent)
      /\ raced' = (raced \/ NewSecret(h) \/ NewCodes(h))
      /\ UNCHANGED <<req, proved>>
  BY DEF WriteCodes, Goto, FactorInv, TypeOK
<1>2. /\ c \in seen[h].factor.codes
      /\ \A d \in seen[h].factor.codes : Written(d.secret)
  BY <1>1 DEF FactorInv, CodesWritten
<1>3. ASSUME NEW f \in factors
      PROVE  /\ W(f).id = f.id /\ W(f).secret = f.secret /\ W(f).verified = f.verified
             /\ f.id = i => W(f).codes = seen[h].factor.codes \ {c}
             /\ f.id # i => W(f) = f
  BY DEF FactorInv, TypeOK, Factor, Remaining
<1> HIDE DEF W
<1>4. \A s : Written(s) => Written(s)'
  BY <1>1 DEF Written
<1>5. Distinct'
  <2>1. ASSUME NEW f \in factors, NEW s, s = W(f).id \/ s = W(f).secret PROVE Written(s)'
    BY <1>3, <1>4, <2>1 DEF FactorInv, Distinct
  <2>2. ASSUME NEW f \in factors, NEW g \in factors,
               W(f).id = W(g).id \/ W(f).secret = W(g).secret
        PROVE  f = g
    BY <1>3, <2>2 DEF FactorInv, Distinct
  <2> QED BY <1>1, <2>1, <2>2 DEF Distinct
<1>6. CodesWritten'
  <2>1. ASSUME NEW f \in factors, NEW d \in W(f).codes PROVE Written(d.secret)
    BY <1>2, <1>3, <2>1 DEF FactorInv, CodesWritten
  <2> QED BY <1>1, <1>2, <1>4, <2>1 DEF FactorInv, CodesWritten
<1>7. ASSUME ~raced'
      PROVE  \A f \in factors : f.id = i => f.codes = seen[h].factor.codes
  BY <1>1, <1>7 DEF NewCodes, FactorInv, Distinct
<1>8. ASSUME ~raced'
      PROVE  \E f \in factors : f.id = i /\ c \in f.codes
  BY <1>1, <1>2, <1>7, <1>8 DEF NewCodes
<1>9. CodesUnspent'
  <2> SUFFICES ASSUME ~raced', NEW f \in factors, NEW d \in W(f).codes
               PROVE  d.secret = W(f).secret /\ d \notin spent'
    BY <1>1 DEF CodesUnspent
  <2>1. d \in f.codes
    BY <1>3, <1>7
  <2>2. d.secret = f.secret /\ d \notin spent
    BY <1>1, <2>1 DEF FactorInv, CodesUnspent
  <2>3. d # c
    <3>1. PICK g \in factors : g.id = i /\ c \in g.codes
      BY <1>8
    <3>2. c.secret = g.secret
      BY <1>1, <3>1 DEF FactorInv, CodesUnspent
    <3>3. d = c => f = g
      BY <2>2, <3>1, <3>2 DEF FactorInv, Distinct
    <3> QED BY <1>3, <3>1, <3>3
  <2> QED BY <1>1, <1>3, <2>2, <2>3
<1>10. CodeReusedOnlyByRace'
  BY <1>1, <1>8 DEF FactorInv, CodesUnspent, CodeReusedOnlyByRace
<1>11. VerifiedWasProved'
  BY <1>1, <1>3 DEF FactorInv, VerifiedWasProved
<1> QED BY <1>5, <1>6, <1>9, <1>10, <1>11 DEF FactorInv

LEMMA ConfirmInv ==
  ASSUME FactorInv, TypeOK', NEW h \in Handlers, Confirm(h)
  PROVE  FactorInv'
<1> DEFINE i == seen[h].factor.id
           W(f) == IF f.id = i THEN [f EXCEPT !.verified = TRUE] ELSE f
<1>1. /\ pc[h] = "confirm" /\ pc'[h] = "device"
      /\ \A g \in Handlers : g # h => pc'[g] = pc[g]
      /\ factors' = {W(f) : f \in factors}
      /\ proved' = proved \cup {seen[h].factor.secret}
      /\ raced' = (raced \/ NewSecret(h))
      /\ UNCHANGED <<req, seen, spent, reused>>
  BY DEF Confirm, Goto, FactorInv, TypeOK
<1>2. ASSUME NEW f \in factors
      PROVE  /\ W(f).id = f.id /\ W(f).secret = f.secret /\ W(f).codes = f.codes
             /\ f.id # i => W(f).verified = f.verified
  BY DEF FactorInv, TypeOK, Factor
<1> HIDE DEF W
<1>3. \A s : Written(s) => Written(s)'
  BY <1>1 DEF Written
<1>4. Distinct'
  <2>1. ASSUME NEW f \in factors, NEW s, s = W(f).id \/ s = W(f).secret PROVE Written(s)'
    BY <1>2, <1>3, <2>1 DEF FactorInv, Distinct
  <2>2. ASSUME NEW f \in factors, NEW g \in factors,
               W(f).id = W(g).id \/ W(f).secret = W(g).secret
        PROVE  f = g
    BY <1>2, <2>2 DEF FactorInv, Distinct
  <2> QED BY <1>1, <2>1, <2>2 DEF Distinct
<1>5. CodesWritten'
  BY <1>1, <1>2, <1>3 DEF FactorInv, CodesWritten
<1>6. CodesUnspent' /\ CodeReusedOnlyByRace'
  <2>1. ~raced' => ~raced
    BY <1>1
  <2>2. CodeReusedOnlyByRace'
    BY <1>1, <2>1 DEF FactorInv, CodeReusedOnlyByRace
  <2>3. CodesUnspent'
    BY <1>1, <1>2, <2>1 DEF FactorInv, CodesUnspent
  <2> QED BY <2>2, <2>3
<1>7. VerifiedWasProved'
  <2> SUFFICES ASSUME ~raced', NEW f \in factors, W(f).verified
               PROVE  f.secret \in proved'
    BY <1>1, <1>2 DEF VerifiedWasProved
  <2>1. CASE f.id # i
    BY <1>1, <1>2, <2>1 DEF FactorInv, VerifiedWasProved
  <2>2. CASE f.id = i
    BY <1>1, <2>2 DEF NewSecret, FactorInv, Distinct
  <2> QED BY <2>1, <2>2
<1> QED BY <1>4, <1>5, <1>6, <1>7 DEF FactorInv

\* A secret that a setup has generated is nowhere yet.
LEMMA EnrolInv ==
  ASSUME SessionsAssumption, FactorInv, TypeOK', NEW h \in Handlers, Enrol(h)
  PROVE  FactorInv'
<1>1. /\ pc[h] = "enrol" /\ pc'[h] = "respond"
      /\ \A g \in Handlers : g # h => pc'[g] = pc[g]
      /\ factors' = factors \cup {NewFactor(h)}
      /\ UNCHANGED <<req, seen, spent, reused, proved, raced>>
  BY DEF Enrol, Goto, FactorInv, TypeOK, history
<1>2. /\ NewFactor(h).id = h /\ NewFactor(h).secret = h /\ ~NewFactor(h).verified
      /\ \A c \in NewFactor(h).codes : c.secret = h
  BY DEF NewFactor, CodesOf
<1>3. /\ ~Written(h) /\ Written(h)'
      /\ \A s : Written(s) => Written(s)'
  BY <1>1 DEF Written, SessionsAssumption
<1>4. Distinct'
  BY <1>1, <1>2, <1>3 DEF FactorInv, Distinct
<1>5. CodesWritten'
  BY <1>1, <1>2, <1>3 DEF FactorInv, CodesWritten
<1>6. CodesUnspent'
  BY <1>1, <1>2, <1>3 DEF FactorInv, CodesUnspent, CodesWritten
<1>7. CodeReusedOnlyByRace' /\ VerifiedWasProved'
  BY <1>1, <1>2 DEF FactorInv, CodeReusedOnlyByRace, VerifiedWasProved
<1> QED BY <1>4, <1>5, <1>6, <1>7 DEF FactorInv

LEMMA ReplaceInv ==
  ASSUME SessionsAssumption, FactorInv, TypeOK', NEW h \in Handlers, Replace(h)
  PROVE  FactorInv'
<1> DEFINE i == seen[h].factor.id
           W(f) == IF f.id = i THEN Renewed(f, h) ELSE f
<1>1. /\ pc[h] = "replace" /\ pc'[h] = "respond"
      /\ \A g \in Handlers : g # h => pc'[g] = pc[g]
      /\ factors' = {W(f) : f \in factors}
      /\ UNCHANGED <<req, seen, spent, reused, proved, raced>>
  BY DEF Replace, Goto, FactorInv, TypeOK, history
<1>2. ASSUME NEW f \in factors
      PROVE  /\ W(f).id = f.id
             /\ f.id = i => /\ W(f).secret = h /\ ~W(f).verified
                            /\ \A c \in W(f).codes : c.secret = h
             /\ f.id # i => W(f) = f
  BY DEF Renewed, NewFactor, CodesOf
<1> HIDE DEF W
<1>3. /\ ~Written(h) /\ Written(h)'
      /\ \A s : Written(s) => Written(s)'
  BY <1>1 DEF Written, SessionsAssumption
<1>4. Distinct'
  <2>1. ASSUME NEW f \in factors, NEW s, s = W(f).id \/ s = W(f).secret PROVE Written(s)'
    BY <1>2, <1>3, <2>1 DEF FactorInv, Distinct
  <2>2. ASSUME NEW f \in factors, NEW g \in factors,
               W(f).id = W(g).id \/ W(f).secret = W(g).secret
        PROVE  f = g
    BY <1>2, <1>3, <2>2 DEF FactorInv, Distinct
  <2> QED BY <1>1, <2>1, <2>2 DEF Distinct
<1>5. CodesWritten'
  <2>1. ASSUME NEW f \in factors, NEW c \in W(f).codes PROVE Written(c.secret)'
    BY <1>2, <1>3 DEF FactorInv, CodesWritten
  <2> QED BY <1>1, <1>3, <2>1 DEF FactorInv, CodesWritten
<1>6. CodesUnspent'
  <2> SUFFICES ASSUME ~raced, NEW f \in factors, NEW c \in W(f).codes
               PROVE  c.secret = W(f).secret /\ c \notin spent
    BY <1>1 DEF CodesUnspent
  <2> QED BY <1>2, <1>3 DEF FactorInv, CodesUnspent, CodesWritten
<1>7. CodeReusedOnlyByRace' /\ VerifiedWasProved'
  BY <1>1, <1>2 DEF FactorInv, CodeReusedOnlyByRace, VerifiedWasProved
<1> QED BY <1>4, <1>5, <1>6, <1>7 DEF FactorInv

LEMMA StepFactorInv ==
  ASSUME SessionsAssumption, FactorInv, Asked, NEW h \in Handlers, Step(h)
  PROVE  FactorInv'
<1>1. TypeOK'
  BY StepType DEF FactorInv
<1>2. CASE FindFactor(h)
  BY <1>1, <1>2, FindFactorInv
<1>3. CASE WriteCodes(h)
  BY <1>1, <1>3, WriteCodesInv
<1>4. CASE Confirm(h)
  BY <1>1, <1>4, ConfirmInv
<1>5. CASE Enrol(h)
  BY <1>1, <1>5, EnrolInv
<1>6. CASE Replace(h)
  BY <1>1, <1>6, ReplaceInv
<1>7. CASE \E l : Aside(h, l)
  BY <1>1, <1>7, AsideInv
<1>8. \A l : Proceed(h, l) /\ l # "codes" /\ pc[h] \notin {"respond", "done"} => Aside(h, l)
  BY DEF Proceed, Goto, Aside, dbVars, history
<1>9. \A c : End(h, c) => Aside(h, "done")
  BY DEF End, Goto, Aside, FactorInv, TypeOK, dbVars, history
<1>10. ASSUME Send(h) \/ Respond(h) \/ Interrupt(h) PROVE \E l : Aside(h, l)
  <2>1. CASE Send(h)
    <3>1. PICK k \in Kinds : Goto(h, First(k))
      BY <2>1 DEF Send
    <3>2. First(k) # "codes"
      BY DEF First, SessionsAssumption
    <3>3. \A g \in Handlers : g # h => req'[g] = req[g]
      BY <2>1 DEF Send, FactorInv, TypeOK
    <3>4. Aside(h, First(k))
      BY <2>1, <3>1, <3>2, <3>3 DEF Send, Goto, Aside, dbVars, history
    <3> QED BY <3>4
  <2>2. CASE Respond(h)
    <3>1. Aside(h, "done")
      BY <2>2 DEF Respond, Goto, Aside, FactorInv, TypeOK, dbVars, history
    <3> QED BY <3>1
  <2>3. CASE Interrupt(h)
    BY <1>9, <2>3 DEF Interrupt
  <2> QED BY <1>10, <2>1, <2>2, <2>3
<1>11. ASSUME ReadUser(h) \/ CheckTrust(h) \/ FindDevice(h) \/ TouchDevice(h) \/ FindEnrolled(h)
              \/ BindDevice(h) \/ FindListed(h) \/ DeleteDevice(h) \/ FindToken(h)
              \/ RevokeOld(h) \/ CreateToken(h) \/ Logout(h)
       PROVE  \E l : Aside(h, l)
  <2>1. CASE \E c : End(h, c)
    BY <1>9, <2>1
  <2>2. CASE ~\E c : End(h, c)
    <3>1. PICK l \in {"trusted", "create", "bind", "touch", AfterDevice(h), "enrol", "replace",
                      "delete", "respond", "rotate"} : Goto(h, l)
      BY <1>11, <2>2 DEF ReadUser, CheckTrust, FindDevice, TouchDevice, BindDevice,
         FindEnrolled, FindListed, DeleteDevice, FindToken, RevokeOld, CreateToken, Logout,
         Proceed
    <3>2. l # "codes"
      BY DEF AfterDevice
    <3>3. pc[h] \notin {"respond", "done"}
      BY <1>11 DEF ReadUser, CheckTrust, FindDevice, TouchDevice, BindDevice,
         FindEnrolled, FindListed, DeleteDevice, FindToken, RevokeOld, CreateToken, Logout
    <3>4. /\ UNCHANGED <<factors, spent, reused, proved, raced, req>>
          /\ \A g \in Handlers : g # h => seen'[g] = seen[g]
      BY <1>11, <2>2 DEF ReadUser, CheckTrust, FindDevice, TouchDevice, BindDevice,
         FindEnrolled, FindListed, DeleteDevice, FindToken, RevokeOld, CreateToken, Logout,
         Proceed, FactorInv, TypeOK, dbVars, history
    <3>5. Aside(h, l)
      BY <3>1, <3>2, <3>3, <3>4 DEF Goto, Aside
    <3> QED BY <3>5
  <2> QED BY <2>1, <2>2
<1> QED
  BY <1>2, <1>3, <1>4, <1>5, <1>6, <1>7, <1>10, <1>11 DEF Step

LEMMA InitFactorInv == SessionsAssumption /\ Init => FactorInv
<1> SUFFICES ASSUME SessionsAssumption, Init PROVE FactorInv
  OBVIOUS
<1>1. TypeOK
  BY InitType
<1>2. ASSUME NEW f \in factors
      PROVE  /\ f.id = Seed /\ f.secret = Seed
             /\ \A c \in f.codes : c.secret = Seed
             /\ factors = {f}
  <2>1. f = [id |-> Seed, secret |-> Seed, codes |-> CodesOf(Seed), verified |-> TRUE]
    BY DEF Init, NewFactor
  <2>2. factors = {f}
    BY DEF Init
  <2> QED BY <2>1, <2>2 DEF CodesOf
<1>3. spent = {} /\ reused = {} /\ Seed \in proved /\ \A h \in Handlers : pc[h] = "arrive"
  BY DEF Init
<1> QED
  BY <1>1, <1>2, <1>3 DEF FactorInv, Distinct, Written, CodesWritten, CodesUnspent,
     CodeReusedOnlyByRace, VerifiedWasProved

LEMMA FactorInvariant == Spec => []FactorInv
<1>1. FactorInv /\ UNCHANGED vars => FactorInv'
  BY DEF FactorInv, TypeOK, Distinct, Written, CodesWritten, CodesUnspent,
     CodeReusedOnlyByRace, VerifiedWasProved, vars, dbVars, procVars, history
<1>2. ASSUME FactorInv, NEW t \in Tokens, Expire(t) PROVE FactorInv'
  <2>1. TypeOK'
    BY <1>2, ExpireType DEF FactorInv
  <2> QED BY <1>2, <2>1 DEF Expire, FactorInv, Distinct, Written, CodesWritten, CodesUnspent,
          CodeReusedOnlyByRace, VerifiedWasProved, procVars, history
<1>3. FactorInv /\ Asked /\ [Next]_vars => FactorInv'
  BY <1>1, <1>2, StepFactorInv, SessionsAssumption DEF Next
<1>4. TokenInv => Asked
  BY DEF TokenInv
<1> QED BY InitFactorInv, <1>3, <1>4, TokenInvariant, SessionsAssumption, PTL DEF Spec

\* A backup code is accepted twice only if verifications raced, whatever else
\* the customer does and however many requests overlap.
THEOREM ReuseNeedsRace == Spec => []CodeReusedOnlyByRace
<1>1. FactorInv => CodeReusedOnlyByRace
  BY DEF FactorInv
<1> QED BY <1>1, FactorInvariant, PTL

\* A secret counts as verified only after one of its codes was accepted, unless
\* a setup raced with the verification.
THEOREM VerifiedNeedsProof == Spec => []VerifiedWasProved
<1>1. FactorInv => VerifiedWasProved
  BY DEF FactorInv
<1> QED BY <1>1, FactorInvariant, PTL
=============================================================================

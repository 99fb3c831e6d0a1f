---------------------------- MODULE SignInProofs ----------------------------
(***************************************************************************)
(* Theorems about the two ways into the application, for any numbers of    *)
(* customers, requests and tabs: Registration (who is without an account,  *)
(* and who runs into a unique index), and Browser (a tab at rest shows one *)
(* customer, the one that is signed in, and a sign-out lasts).             *)
(***************************************************************************)
EXTENDS Registration, Browser, FiniteSetTheorems, TLAPS

-----------------------------------------------------------------------------
(* Registration.  Its properties look back: a user without an account had  *)
(* a call that failed many steps before, and a clash had a check that was  *)
(* right when it was made.  The invariant carries along what the check     *)
(* found (Searched), that two attempts under way have met (Meetings), and  *)
(* where the call is (Called).                                             *)

Searching == {"identity", "find", "create"}   \* no user yet

\* Attempts under way at one time have met.
Meetings ==
  \A a, b \in Attempts :
    (a # b /\ {pc[a], pc[b]} \cap {"arrive", "done"} = {}) => {a, b} \in met

\* Where an attempt is agrees with its site, and with whether it made a user.
Paths ==
  \A a \in Attempts :
    /\ pc[a] \in {"identity", "emit", "call"} => site[a] = "service"
    /\ pc[a] \in {"login", "finalize"} => site[a] = "app"
    /\ a \in users => site[a] \in Sites /\ pc[a] \notin {"arrive"} \cup Searching
    /\ pc[a] \in {"emit", "call"} => a \in users
    /\ pc[a] = "finalize" => holder[a] \in users

\* Whatever stands against an attempt that has looked came while it was under way.
Searched ==
  \A a \in Attempts, b \in users :
    pc[a] = "create" => /\ SameEmail(a, b) => {a, b} \in met
                        /\ site[a] = "app" /\ SamePerson(a, b) => {a, b} \in met

\* An attempt that is under way has a site, one that clashed is over.
Placed == \A a \in Attempts : /\ pc[a] # "arrive" => site[a] \in Sites
                              /\ a \in clashed => pc[a] = "done"

SavingsOnly(a) == \E n \in Numbers : AccountsOf(a) = {New(a, "SAVINGS", n)}
BothTypes(a)   == \E n \in Numbers : AccountsOf(a) = {New(a, t, n) : t \in Types}

\* The accounts of an attempt agree with its site and its call.
Supplied(a) ==
  /\ a \notin users \/ (site[a] = "service" /\ a \notin handled) => AccountsOf(a) = {}
  /\ a \in users /\ site[a] = "app" => SavingsOnly(a)
  /\ a \in handled => BothTypes(a) \/ (AccountsOf(a) = {} /\ a \in unmade)

\* Where the call of an attempt is, and what has come of it.
Called ==
  /\ wire \cap handled = {}
  /\ \A a \in wire \cup handled :
       a \in users /\ site[a] = "service" /\ pc[a] \in {"call", "done"}
  /\ \A a \in Attempts :
       /\ pc[a] = "call" => a \in wire \cup handled
       /\ a \in users /\ site[a] = "service" /\ pc[a] = "done"
            => a \in handled \/ a \in unmade


Stocked == \A a \in Attempts : Supplied(a)

EnrolInv == /\ EnrolTypeOK /\ Meetings /\ Placed /\ Paths /\ Searched
        /\ Called /\ Stocked /\ ClashOnlyByRace

-----------------------------------------------------------------------------
(* What stays as it is.                                                    *)

\* Accounts count for users who have some, or whose call has not been answered.
LEMMA SuppliedFrame ==
  ASSUME NEW a \in Attempts, Supplied(a), AccountsOf(a)' = AccountsOf(a),
         site'[a] = site[a], a \in handled' <=> a \in handled, unmade \subseteq unmade',
         \/ a \in users' <=> a \in users
         \/ a \in users' /\ site[a] = "service" /\ a \notin handled
  PROVE  Supplied(a)'
<1>1. SavingsOnly(a)' <=> SavingsOnly(a)
  BY DEF SavingsOnly, New
<1>2. BothTypes(a)' <=> BothTypes(a)
  BY DEF BothTypes, New
<1> QED BY <1>1, <1>2 DEF Supplied

LEMMA StockedFrame ==
  ASSUME Stocked, UNCHANGED <<accounts, site, handled>>, unmade \subseteq unmade',
         \A a \in Attempts : \/ a \in users' <=> a \in users
                             \/ a \in users' /\ site[a] = "service" /\ a \notin handled
  PROVE  Stocked'
<1> SUFFICES ASSUME NEW a \in Attempts PROVE Supplied(a)'
  BY DEF Stocked
<1>1. Supplied(a) /\ AccountsOf(a)' = AccountsOf(a)
  BY DEF Stocked, AccountsOf
<1> QED BY <1>1, SuppliedFrame

LEMMA SameFrame ==
  ASSUME UNCHANGED request
  PROVE  \A a, b \in Attempts : /\ SameEmail(a, b)' <=> SameEmail(a, b)
                                /\ SamePerson(a, b)' <=> SamePerson(a, b)
  BY DEF SameEmail, SamePerson, Same, request

\* What a clash was due to stays.
LEMMA ClashFrame ==
  ASSUME ClashOnlyByRace, EnrolTypeOK, users \subseteq users', met \subseteq met',
         UNCHANGED <<request, clashed>>
  PROVE  ClashOnlyByRace'
<1> SUFFICES ASSUME NEW a \in clashed
             PROVE  (\/ \E b \in users : {a, b} \in met /\ (SameEmail(a, b) \/ SamePerson(a, b))
                     \/ site[a] = "service" /\ \E b \in users : SamePerson(a, b)
                                                               /\ ~SameEmail(a, b))'
  BY DEF ClashOnlyByRace
<1>1. a \in Attempts /\ users \subseteq Attempts /\ site' = site
  BY DEF EnrolTypeOK, request
<1>2. \A b \in users : /\ SameEmail(a, b)' <=> SameEmail(a, b)
                       /\ SamePerson(a, b)' <=> SamePerson(a, b)
  BY <1>1, SameFrame
<1>3. CASE \E b \in users : {a, b} \in met /\ (SameEmail(a, b) \/ SamePerson(a, b))
  <2>1. PICK b \in users : {a, b} \in met /\ (SameEmail(a, b) \/ SamePerson(a, b))
    BY <1>3
  <2>2. b \in users' /\ {a, b} \in met' /\ (SameEmail(a, b)' \/ SamePerson(a, b)')
    BY <1>2, <2>1
  <2> QED BY <2>2
<1>4. CASE site[a] = "service" /\ \E b \in users : SamePerson(a, b) /\ ~SameEmail(a, b)
  <2>1. PICK b \in users : SamePerson(a, b) /\ ~SameEmail(a, b)
    BY <1>4
  <2>2. b \in users' /\ SamePerson(a, b)' /\ ~SameEmail(a, b)'
    BY <1>2, <2>1
  <2> QED BY <1>1, <1>4, <2>2
<1> QED BY <1>3, <1>4 DEF ClashOnlyByRace

-----------------------------------------------------------------------------
(* Steps that make nothing.                                                *)

\* a goes on or ends, and rows and calls stay.
LEMMA Move ==
  ASSUME EnrolInv, EnrolTypeOK', NEW a \in Attempts,
         NEW p \in {"find", "create", "login", "finalize", "done"}, Goto(a, p),
         pc[a] \in Searching \cup {"login", "finalize"},
         UNCHANGED <<users, accounts, network, request, history>>,
         \A b \in Attempts \ {a} : holder'[b] = holder[b],
         p = "find" => site[a] = "service" /\ pc[a] = "identity",
         p = "login" => site[a] = "app" /\ pc[a] = "find",
         p = "finalize" => pc[a] = "login" /\ holder'[a] \in users,
         p = "create" => /\ pc[a] = "find"
                         /\ \A b \in users : /\ ~SameEmail(a, b)
                                             /\ site[a] = "app" => ~SamePerson(a, b)
  PROVE  EnrolInv'
<1> USE DEF EnrolInv, Goto, network, request, history
<1>1. \A b \in Attempts : pc'[b] = IF b = a THEN p ELSE pc[b]
  BY DEF EnrolTypeOK
<1>2. Meetings'
  BY <1>1 DEF Meetings, Searching
<1>3. Placed'
  BY <1>1 DEF Placed, Searching
<1>4. Paths'
  BY <1>1 DEF Paths, Searching
<1>5. Searched'
  BY <1>1 DEF Searched, SameEmail, SamePerson, Same
<1>6. Called'
  <2>1. pc[a] \notin {"call", "done"}
    BY DEF Searching
  <2>2. a \in users => site[a] = "app"
    BY DEF Paths, Searching
  <2> QED BY <1>1, <2>1, <2>2 DEF Called
<1>7. ClashOnlyByRace' /\ Stocked'
  BY ClashFrame, StockedFrame
<1> QED BY <1>2, <1>3, <1>4, <1>5, <1>6, <1>7

LEMMA FailsInv ==
  ASSUME EnrolInv, NEW a \in Attempts, Fails(a)
  PROVE  EnrolInv'
<1>1. EnrolTypeOK'
  BY DEF Fails, Answer, Goto, Tell, EnrolInv, EnrolTypeOK, database, network, request, history
<1> QED BY <1>1, Move DEF Fails, Answer, Searching, database

LEMMA VerifyIdentityInv ==
  ASSUME EnrolInv, NEW a \in Attempts, VerifyIdentity(a)
  PROVE  EnrolInv'
<1>1. EnrolTypeOK'
  BY DEF VerifyIdentity, Answer, Goto, Tell, EnrolInv, EnrolTypeOK, database, network, request,
         history
<1>2. site[a] = "service" /\ pc[a] = "identity"
  BY DEF VerifyIdentity, At, EnrolInv, Paths
<1>3. Goto(a, "find") \/ Goto(a, "done")
  BY DEF VerifyIdentity, Answer
<1> QED BY <1>1, <1>2, <1>3, Move DEF VerifyIdentity, Searching, database

LEMMA FindByEmailInv ==
  ASSUME EnrolInv, NEW a \in Attempts, FindByEmail(a)
  PROVE  EnrolInv'
<1>1. EnrolTypeOK'
  BY DEF FindByEmail, Answer, Goto, Tell, EnrolInv, EnrolTypeOK, database, network, request, history
<1>2. site[a] = "service" /\ pc[a] = "find"
  BY DEF FindByEmail, At
<1>3. CASE \E b \in users : SameEmail(a, b)
  BY <1>1, <1>2, <1>3, Move DEF FindByEmail, Answer, Searching, database
<1>4. CASE ~\E b \in users : SameEmail(a, b)
  BY <1>1, <1>2, <1>4, Move DEF FindByEmail, Searching, database
<1> QED BY <1>3, <1>4

LEMMA FindExistingInv ==
  ASSUME EnrolInv, NEW a \in Attempts, FindExisting(a)
  PROVE  EnrolInv'
<1>1. EnrolTypeOK'
  BY DEF FindExisting, Goto, EnrolInv, EnrolTypeOK, database, network, request, history
<1>2. site[a] = "app" /\ pc[a] = "find"
  BY DEF FindExisting, At
<1>3. CASE Taken(a)
  BY <1>1, <1>2, <1>3, Move DEF FindExisting, Searching, database
<1>4. CASE ~Taken(a)
  BY <1>1, <1>2, <1>4, Move DEF FindExisting, Searching, database, Taken
<1> QED BY <1>3, <1>4

LEMMA LoginInv ==
  ASSUME EnrolInv, NEW a \in Attempts, Login(a)
  PROVE  EnrolInv'
<1>1. EnrolTypeOK'
  BY DEF Login, Answer, Goto, Tell, EnrolInv, EnrolTypeOK, database, network, request, history
<1>2. pc[a] = "login"
  BY DEF Login, At
<1>3. CASE \E b \in users : /\ holder' = [holder EXCEPT ![a] = b]
                            /\ Goto(a, "finalize")
  <2>1. holder'[a] \in users /\ \A b \in Attempts \ {a} : holder'[b] = holder[b]
    BY <1>3 DEF EnrolInv, EnrolTypeOK
  <2> QED BY <1>1, <1>2, <1>3, <2>1, Move DEF Login, Searching, database
<1>4. CASE Answer(a, "CONFLICT") /\ UNCHANGED holder
  BY <1>1, <1>2, <1>4, Move DEF Login, Answer, Searching, database
<1> QED BY <1>3, <1>4 DEF Login

LEMMA EndsInv ==
  ASSUME EnrolInv, NEW a \in Attempts, Lost(a) \/ Finalize(a)
  PROVE  EnrolInv'
<1>1. At(a, "finalize") => holder[a] \in users
  BY DEF At, EnrolInv, Paths
<1>2. EnrolTypeOK'
  BY <1>1 DEF Lost, Finalize, Enrolls, Answer, Goto, Tell, EnrolInv, EnrolTypeOK, network, request,
              history
<1>3. pc[a] \in Searching \cup {"login", "finalize"}
  BY DEF Lost, Finalize, At
<1>4. \A b \in Attempts \ {a} : holder'[b] = holder[b]
  BY DEF Lost, Finalize, EnrolInv, EnrolTypeOK
<1> QED BY <1>2, <1>3, <1>4, Move DEF Lost, Finalize, Answer

\* A unique index refuses a: what stands against it has met it, or was not
\* looked up.
LEMMA RefusedInv ==
  ASSUME EnrolInv, NEW a \in Attempts, pc[a] = "create", Taken(a), Refused(a)
  PROVE  EnrolInv'
<1> USE DEF EnrolInv, Refused, Answer, Goto, Tell, database, network, request
<1>0. a \notin users /\ site[a] \in Sites
  BY DEF Paths, Placed, Searching
<1>1. \A b \in Attempts : pc'[b] = IF b = a THEN "done" ELSE pc[b]
  BY DEF EnrolTypeOK
<1>2. EnrolTypeOK'
  BY DEF EnrolTypeOK
<1>3. Meetings' /\ Placed'
  BY <1>1 DEF Meetings, Placed
<1>4. Paths'
  BY <1>0, <1>1 DEF Paths, Searching
<1>5. Searched'
  BY <1>1 DEF Searched, SameEmail, SamePerson, Same
<1>6. Called' /\ Stocked'
  <2>1. Called'
    BY <1>0, <1>1 DEF Called
  <2> QED BY <2>1, StockedFrame DEF history
<1>7. ClashOnlyByRace'
  <2>1. PICK b \in users : SameEmail(a, b) \/ SamePerson(a, b)
    BY DEF Taken
  <2>2. \/ {a, b} \in met
        \/ site[a] = "service" /\ SamePerson(a, b) /\ ~SameEmail(a, b)
    BY <1>0, <2>1 DEF Searched, Sites
  <2>3. /\ users' = users /\ site' = site /\ clashed' = clashed \cup {a} /\ met' = met
        /\ UNCHANGED request
    OBVIOUS
  <2>4. b \in Attempts /\ clashed \subseteq Attempts /\ users \subseteq Attempts
    BY DEF EnrolTypeOK
  <2>5. SUFFICES ASSUME NEW c \in clashed \cup {a}
                 PROVE  \E d \in users :
                          \/ {c, d} \in met /\ (SameEmail(c, d)' \/ SamePerson(c, d)')
                          \/ site[c] = "service" /\ SamePerson(c, d)' /\ ~SameEmail(c, d)'
    BY <2>3 DEF ClashOnlyByRace
  <2>6. CASE c = a
    BY <2>1, <2>2, <2>3, <2>4, <2>6, SameFrame
  <2>7. CASE c \in clashed
    <3>1. PICK d \in users :
            \/ {c, d} \in met /\ (SameEmail(c, d) \/ SamePerson(c, d))
            \/ site[c] = "service" /\ SamePerson(c, d) /\ ~SameEmail(c, d)
      BY <2>7 DEF ClashOnlyByRace
    <3> QED BY <2>3, <2>4, <2>7, <3>1, SameFrame
  <2> QED BY <2>6, <2>7
<1> QED BY <1>2, <1>3, <1>4, <1>5, <1>6, <1>7

LEMMA RegisterInv ==
  ASSUME EnrolInv, NEW a \in Attempts, Register(a)
  PROVE  EnrolInv'
<1> USE DEF EnrolInv, Register, Goto, database, network
<1>1. PICK s \in Sites, p \in Persons, e \in Emails :
        /\ site' = [site EXCEPT ![a] = s]
        /\ person' = [person EXCEPT ![a] = p]
        /\ email' = [email EXCEPT ![a] = e]
        /\ Goto(a, IF s = "service" THEN "identity" ELSE "find")
  OBVIOUS
<1>2. /\ \A b \in Attempts : pc'[b] = IF b # a THEN pc[b]
                                      ELSE IF s = "service" THEN "identity" ELSE "find"
      /\ \A b \in Attempts : b # a => /\ site'[b] = site[b]
                                      /\ person'[b] = person[b]
                                      /\ email'[b] = email[b]
      /\ site'[a] = s
  BY <1>1 DEF EnrolTypeOK
<1>3. pc[a] = "arrive" /\ a \notin users /\ a \notin wire \cup handled
  BY DEF At, Paths, Called
<1>4. met' = met \cup {{a, b} : b \in UnderWay}
  OBVIOUS
<1>5. EnrolTypeOK'
  BY <1>1, <1>4 DEF EnrolTypeOK, UnderWay
<1>6. Meetings'
  <2> SUFFICES ASSUME NEW b \in Attempts, NEW c \in Attempts, b # c,
                      pc'[b] \notin {"arrive", "done"}, pc'[c] \notin {"arrive", "done"}
               PROVE  {b, c} \in met'
    BY DEF Meetings
  <2>1. CASE b = a
    BY <1>2, <1>4, <2>1 DEF UnderWay
  <2>2. CASE c = a
    <3>1. {c, b} \in met'
      BY <1>2, <1>4, <2>2 DEF UnderWay
    <3>2. {c, b} = {b, c}
      OBVIOUS
    <3> QED BY <3>1, <3>2
  <2>3. CASE b # a /\ c # a
    BY <1>2, <1>4, <2>3 DEF Meetings
  <2> QED BY <2>1, <2>2, <2>3
<1>7. Placed' /\ Paths'
  BY <1>2, <1>3 DEF Placed, Paths, Searching, Sites
<1>8. Searched'
  BY <1>2, <1>3, <1>4 DEF Searched, SameEmail, SamePerson, Same, EnrolTypeOK
<1>9. Called' /\ Stocked'
  <2>1. Called'
    BY <1>2, <1>3 DEF Called
  <2>2. \A b \in Attempts \ {a} : Supplied(b)'
    <3> SUFFICES ASSUME NEW b \in Attempts \ {a} PROVE Supplied(b)'
      OBVIOUS
    <3> QED BY <1>2, SuppliedFrame DEF Stocked, AccountsOf
  <2>3. Supplied(a)'
    BY <1>3 DEF Stocked, Supplied, AccountsOf
  <2> QED BY <2>1, <2>2, <2>3 DEF Stocked
<1>10. ClashOnlyByRace'
  <2>1. a \notin clashed /\ clashed' = clashed /\ users' = users /\ met \subseteq met'
    BY <1>3, <1>4 DEF Placed
  <2>2. \A c \in clashed, b \in users :
          /\ site'[c] = site[c]
          /\ SameEmail(c, b)' <=> SameEmail(c, b)
          /\ SamePerson(c, b)' <=> SamePerson(c, b)
    BY <1>2, <1>3, <2>1 DEF SameEmail, SamePerson, Same, EnrolTypeOK
  <2> QED BY <2>1, <2>2 DEF ClashOnlyByRace
<1> QED BY <1>5, <1>6, <1>7, <1>8, <1>9, <1>10

-----------------------------------------------------------------------------
(* Steps that make users and accounts.                                     *)

\* What counts of a new user: nobody who has looked misses it unmet.
LEMMA NewUser ==
  ASSUME EnrolInv, NEW a \in Attempts, pc[a] = "create",
         users' = users \cup {a}, UNCHANGED <<request, met, clashed>>,
         NEW p \in {"emit", "finalize"}, Goto(a, p)
  PROVE  Meetings' /\ Placed' /\ Searched' /\ ClashOnlyByRace'
<1> USE DEF EnrolInv, Goto, request
<1>1. \A b \in Attempts : pc'[b] = IF b = a THEN p ELSE pc[b]
  BY DEF EnrolTypeOK
<1>2. Meetings' /\ Placed'
  BY <1>1 DEF Meetings, Placed
<1>3. Searched'
  <2> SUFFICES ASSUME NEW b \in Attempts, NEW c \in users', pc'[b] = "create"
               PROVE  /\ SameEmail(b, c) => {b, c} \in met
                      /\ site[b] = "app" /\ SamePerson(b, c) => {b, c} \in met
    BY DEF Searched, SameEmail, SamePerson, Same
  <2>1. CASE c \in users
    BY <1>1, <2>1 DEF Searched
  <2>2. CASE c = a
    BY <1>1, <2>2 DEF Meetings
  <2> QED BY <2>1, <2>2
<1>4. ClashOnlyByRace'
  BY ClashFrame
<1> QED BY <1>2, <1>3, <1>4

LEMMA CreateUserInv ==
  ASSUME EnrolInv, NEW a \in Attempts, CreateUser(a)
  PROVE  EnrolInv'
<1>1. pc[a] = "create" /\ site[a] = "service"
  BY DEF CreateUser, At
<1>2. CASE Taken(a)
  BY <1>1, <1>2, RefusedInv DEF CreateUser
<1>3. CASE ~Taken(a)
  <2>1. /\ users' = users \cup {a} /\ Goto(a, "emit")
        /\ UNCHANGED <<accounts, enrolled, network, request, told, holder, history>>
    BY <1>3 DEF CreateUser
  <2>2. \A b \in Attempts : pc'[b] = IF b = a THEN "emit" ELSE pc[b]
    BY <2>1 DEF Goto, EnrolInv, EnrolTypeOK
  <2>3. EnrolTypeOK'
    BY <2>1 DEF Goto, EnrolInv, EnrolTypeOK, network, request, history
  <2>4. Meetings' /\ Placed' /\ Searched' /\ ClashOnlyByRace'
    BY <1>1, <2>1, NewUser DEF history
  <2>5. Paths'
    BY <1>1, <2>1, <2>2 DEF EnrolInv, Paths, Searching, Sites, request
  <2>6. Called' /\ Stocked'
    <3>1. a \notin users /\ a \notin handled
      BY <1>1 DEF EnrolInv, Paths, Searching, Called
    <3>2. Called'
      BY <1>1, <2>1, <2>2, <3>1 DEF EnrolInv, EnrolTypeOK, Called, network, request, history
    <3> QED BY <1>1, <2>1, <3>1, <3>2, StockedFrame DEF EnrolInv, network, request, history
  <2> QED BY <2>3, <2>4, <2>5, <2>6 DEF EnrolInv
<1> QED BY <1>2, <1>3

LEMMA CreateUserAndAccountInv ==
  ASSUME EnrolInv, NEW a \in Attempts, CreateUserAndAccount(a)
  PROVE  EnrolInv'
<1>1. pc[a] = "create" /\ site[a] = "app"
  BY DEF CreateUserAndAccount, At
<1>2. CASE Taken(a)
  BY <1>1, <1>2, RefusedInv DEF CreateUserAndAccount
<1>3. CASE Answer(a, "ERROR") /\ UNCHANGED <<database, network, request, holder, history>>
  <2>1. EnrolTypeOK'
    BY <1>3 DEF Answer, Goto, Tell, EnrolInv, EnrolTypeOK, database, network, request, history
  <2> QED BY <1>1, <1>3, <2>1, Move DEF Answer, Searching, database
<1>4. ASSUME NEW n \in Numbers,
             users' = users \cup {a},
             accounts' = accounts \cup {New(a, "SAVINGS", n)},
             holder' = Begin(a),
             Goto(a, "finalize"),
             UNCHANGED <<enrolled, network, request, told, history>>
      PROVE  EnrolInv'
  <2>1. \A b \in Attempts : /\ pc'[b] = IF b = a THEN "finalize" ELSE pc[b]
                            /\ holder'[b] = IF b = a THEN a ELSE holder[b]
    BY <1>4 DEF Goto, Begin, EnrolInv, EnrolTypeOK
  <2>2. New(a, "SAVINGS", n) \in [user : Attempts, type : Types, number : Numbers]
    BY DEF New, Types
  <2>3. EnrolTypeOK'
    BY <1>4, <2>2 DEF Goto, Begin, EnrolInv, EnrolTypeOK, network, request, history
  <2>4. Meetings' /\ Placed' /\ Searched' /\ ClashOnlyByRace'
    BY <1>1, <1>4, NewUser DEF history
  <2>5. Paths'
    BY <1>1, <1>4, <2>1 DEF EnrolInv, Paths, Searching, Sites, request
  <2>6. a \notin users
    BY <1>1 DEF EnrolInv, Paths, Searching
  <2>7. a \notin wire \cup handled /\ AccountsOf(a) = {}
    BY <2>6 DEF EnrolInv, Called, Stocked, Supplied
  <2>8. Called'
    BY <1>1, <1>4, <2>1, <2>7 DEF EnrolInv, EnrolTypeOK, Called, network, request, history
  <2>9. \A b \in Attempts : AccountsOf(b)' = IF b = a THEN {New(a, "SAVINGS", n)}
                                                      ELSE AccountsOf(b)
    BY <1>4, <2>7 DEF AccountsOf, New
  <2>10. Stocked'
    <3> SUFFICES ASSUME NEW b \in Attempts PROVE Supplied(b)'
      BY DEF Stocked
    <3>1. CASE b = a
      <4>1. SavingsOnly(a)'
        BY <2>9 DEF SavingsOnly, New
      <4> QED BY <1>1, <1>4, <2>7, <3>1, <4>1 DEF Supplied, network, request
    <3>2. CASE b # a
      BY <1>4, <2>9, <3>2, SuppliedFrame DEF EnrolInv, Stocked, network, request, history
    <3> QED BY <3>1, <3>2
  <2> QED BY <2>3, <2>4, <2>5, <2>8, <2>10 DEF EnrolInv
<1> QED BY <1>2, <1>3, <1>4 DEF CreateUserAndAccount

-----------------------------------------------------------------------------
(* The call.                                                               *)

\* Users and attempts stay as they are, but for a caller that ends or waits.
LEMMA Calling ==
  ASSUME EnrolInv, NEW a \in Attempts, NEW p \in {"call", "done"}, Goto(a, p),
         pc[a] \in {"emit", "call"},
         UNCHANGED <<users, holder, request, met, clashed>>
  PROVE  /\ \A b \in Attempts : pc'[b] = IF b = a THEN p ELSE pc[b]
         /\ Meetings' /\ Placed' /\ Paths' /\ Searched' /\ ClashOnlyByRace'
<1> USE DEF EnrolInv, Goto, request
<1>1. \A b \in Attempts : pc'[b] = IF b = a THEN p ELSE pc[b]
  BY DEF EnrolTypeOK
<1>2. Meetings' /\ Placed'
  BY <1>1 DEF Meetings, Placed
<1>3. Paths'
  BY <1>1 DEF Paths, Searching
<1>4. Searched'
  BY <1>1 DEF Searched, SameEmail, SamePerson, Same
<1>5. ClashOnlyByRace'
  BY ClashFrame
<1> QED BY <1>1, <1>2, <1>3, <1>4, <1>5

LEMMA CallAccountsInv ==
  ASSUME EnrolInv, NEW a \in Attempts, CallAccounts(a)
  PROVE  EnrolInv'
<1>1. pc[a] = "emit" /\ site[a] = "service" /\ a \in users /\ a \notin wire \cup handled
  BY DEF CallAccounts, At, EnrolInv, Paths, Called
<1>2. EnrolTypeOK'
  BY DEF CallAccounts, Goto, EnrolInv, EnrolTypeOK, database, request, history
<1>3. /\ \A b \in Attempts : pc'[b] = IF b = a THEN "call" ELSE pc[b]
      /\ Meetings' /\ Placed' /\ Paths' /\ Searched' /\ ClashOnlyByRace'
  BY <1>1, Calling DEF CallAccounts, database, history
<1>4. Called' /\ Stocked'
  <2>1. Called'
    BY <1>1, <1>3 DEF CallAccounts, EnrolInv, EnrolTypeOK, Called, database, request, history
  <2> QED BY <2>1, StockedFrame DEF CallAccounts, EnrolInv, database, request, history
<1> QED BY <1>2, <1>3, <1>4 DEF EnrolInv

LEMMA CrashInv ==
  ASSUME EnrolInv, NEW a \in Attempts, Crash(a)
  PROVE  EnrolInv'
<1>1. pc[a] = "emit" /\ site[a] = "service" /\ a \in users /\ a \notin wire \cup handled
  BY DEF Crash, At, EnrolInv, Paths, Called
<1>2. EnrolTypeOK'
  BY DEF Crash, Answer, Goto, Tell, EnrolInv, EnrolTypeOK, database, network, request
<1>3. /\ \A b \in Attempts : pc'[b] = IF b = a THEN "done" ELSE pc[b]
      /\ Meetings' /\ Placed' /\ Paths' /\ Searched' /\ ClashOnlyByRace'
  BY <1>1, Calling DEF Crash, Answer, database
<1>4. Called' /\ Stocked'
  <2>1. Called'
    BY <1>1, <1>3 DEF Crash, EnrolInv, EnrolTypeOK, Called, database, network, request
  <2> QED BY <2>1, StockedFrame DEF Crash, EnrolInv, database, network, request
<1> QED BY <1>2, <1>3, <1>4 DEF EnrolInv

LEMMA CallReturnsInv ==
  ASSUME EnrolInv, NEW a \in Attempts, CallReturns(a)
  PROVE  EnrolInv'
<1>1. pc[a] = "call" /\ site[a] = "service" /\ a \in users
  BY DEF CallReturns, At, EnrolInv, Paths
<1>2. EnrolTypeOK'
  BY DEF CallReturns, Answer, Goto, Tell, EnrolInv, EnrolTypeOK, database, network, request
<1>3. /\ \A b \in Attempts : pc'[b] = IF b = a THEN "done" ELSE pc[b]
      /\ Meetings' /\ Placed' /\ Paths' /\ Searched' /\ ClashOnlyByRace'
  BY <1>1, Calling DEF CallReturns, Answer, database
<1>4. unmade \subseteq unmade' /\ (a \in handled \/ a \in unmade')
  BY DEF CallReturns
<1>5. Called' /\ Stocked'
  <2>1. Called'
    BY <1>1, <1>3, <1>4 DEF CallReturns, EnrolInv, EnrolTypeOK, Called, database, network, request
  <2> QED BY <1>4, <2>1, StockedFrame DEF CallReturns, EnrolInv, database, network, request
<1> QED BY <1>2, <1>3, <1>5 DEF EnrolInv

LEMMA CreateDefaultAccountsInv ==
  ASSUME EnrolInv, NEW a \in Attempts, CreateDefaultAccounts(a)
  PROVE  EnrolInv'
<1> USE DEF EnrolInv
<1>1. /\ a \in wire /\ a \notin handled /\ a \in users /\ site[a] = "service"
      /\ AccountsOf(a) = {}
  BY DEF CreateDefaultAccounts, Called, Stocked, Supplied
<1>2. PICK n \in Numbers :
        IF \E t \in Types : Used("service", t, n)
          THEN unmade' = unmade \cup {a} /\ UNCHANGED accounts
          ELSE accounts' = accounts \cup {New(a, t, n) : t \in Types} /\ UNCHANGED unmade
  BY DEF CreateDefaultAccounts
<1>3. {New(a, t, n) : t \in Types} \subseteq [user : Attempts, type : Types, number : Numbers]
  BY DEF New
<1>4. EnrolTypeOK'
  BY <1>1, <1>2, <1>3 DEF CreateDefaultAccounts, EnrolTypeOK, request
<1>5. Meetings' /\ Placed' /\ Paths' /\ Searched' /\ ClashOnlyByRace'
  <2>1. ClashOnlyByRace'
    BY ClashFrame DEF CreateDefaultAccounts
  <2> QED BY <2>1 DEF CreateDefaultAccounts, Meetings, Placed, Paths, Searching, Searched,
                     SameEmail, SamePerson, Same, request
<1>6. \A b \in Attempts : b # a => AccountsOf(b)' = AccountsOf(b)
  BY <1>2 DEF AccountsOf, New
<1>7. BothTypes(a)' \/ (AccountsOf(a)' = {} /\ a \in unmade')
  <2>1. CASE \E t \in Types : Used("service", t, n)
    BY <1>1, <1>2, <2>1 DEF AccountsOf
  <2>2. CASE ~\E t \in Types : Used("service", t, n)
    <3>1. AccountsOf(a)' = {New(a, t, n) : t \in Types}
      BY <1>1, <1>2, <2>2 DEF AccountsOf, New
    <3> QED BY <3>1 DEF BothTypes, New
  <2> QED BY <2>1, <2>2
<1>8. unmade \subseteq unmade'
  BY <1>2
<1>9. Called'
  BY <1>1, <1>8 DEF CreateDefaultAccounts, Called, request
<1>10. Stocked'
  <2> SUFFICES ASSUME NEW b \in Attempts PROVE Supplied(b)'
    BY DEF Stocked
  <2>1. site' = site /\ users' = users /\ handled' = handled \cup {a}
    BY DEF CreateDefaultAccounts, request
  <2>2. CASE b = a
    BY <1>1, <1>7, <2>1, <2>2 DEF Supplied
  <2>3. CASE b # a
    BY <1>6, <1>8, <2>1, <2>3, SuppliedFrame DEF Stocked
  <2> QED BY <2>2, <2>3
<1> QED BY <1>4, <1>5, <1>9, <1>10

-----------------------------------------------------------------------------

LEMMA EnrolInitInv == EnrolInit => EnrolInv
<1> SUFFICES ASSUME EnrolInit PROVE EnrolInv
  OBVIOUS
<1>1. EnrolTypeOK
  BY DEF EnrolInit, EnrolTypeOK
<1>2. Meetings /\ Placed /\ Paths /\ Searched /\ Called /\ Stocked /\ ClashOnlyByRace
  BY RegistrationAssumption
     DEF EnrolInit, Meetings, Placed, Paths, Searching, Searched, Called, Stocked, Supplied,
         ClashOnlyByRace, AccountsOf
<1> QED BY <1>1, <1>2 DEF EnrolInv

LEMMA EnrolNextInv == EnrolInv /\ [EnrolNext]_enrolVars => EnrolInv'
<1> SUFFICES ASSUME EnrolInv, [EnrolNext]_enrolVars PROVE EnrolInv'
  OBVIOUS
<1>1. CASE UNCHANGED enrolVars
  <2>1. EnrolTypeOK'
    BY <1>1 DEF EnrolInv, EnrolTypeOK, enrolVars, database, network, request, history
  <2>2. Meetings' /\ Placed' /\ Paths' /\ Searched'
    BY <1>1 DEF EnrolInv, Meetings, Placed, Paths, Searching, Searched, SameEmail, SamePerson,
                Same, enrolVars, database, network, request, history
  <2>3. ClashOnlyByRace'
    BY <1>1, ClashFrame DEF EnrolInv, enrolVars, database, history
  <2>4. Called' /\ Stocked'
    <3>1. Called'
      BY <1>1 DEF EnrolInv, Called, enrolVars, database, network, request, history
    <3> QED BY <1>1, <3>1, StockedFrame DEF EnrolInv, enrolVars, database, network, request, history
  <2> QED BY <2>1, <2>2, <2>3, <2>4 DEF EnrolInv
<1>2. ASSUME NEW a \in Attempts,
             \/ Register(a) \/ Fails(a)
             \/ VerifyIdentity(a) \/ FindByEmail(a) \/ CreateUser(a) \/ CallAccounts(a)
             \/ Crash(a) \/ CallReturns(a) \/ CreateDefaultAccounts(a)
             \/ FindExisting(a) \/ CreateUserAndAccount(a) \/ Login(a) \/ Lost(a)
             \/ Finalize(a)
      PROVE  EnrolInv'
  BY <1>2, RegisterInv, FailsInv, VerifyIdentityInv, FindByEmailInv, CreateUserInv,
     CallAccountsInv, CrashInv, CallReturnsInv, CreateDefaultAccountsInv, FindExistingInv,
     CreateUserAndAccountInv, LoginInv, EndsInv
<1> QED BY <1>1, <1>2 DEF EnrolNext

\* Attempts, users, accounts and calls always agree.
THEOREM EnrolHolds == EnrolSpec => []EnrolInv
BY EnrolInitInv, EnrolNextInv, PTL DEF EnrolSpec

LEMMA TwoAccounts ==
  ASSUME NEW a, NEW n
  PROVE  Cardinality({New(a, t, n) : t \in Types}) = 2
<1> DEFINE x == New(a, "SAVINGS", n)
           y == New(a, "CHECKING", n)
<1>1. {New(a, t, n) : t \in Types} = {} \cup {x} \cup {y} /\ y # x
  BY DEF Types, New
<1>2. IsFiniteSet({}) /\ Cardinality({}) = 0
  BY FS_EmptySet
<1> HIDE DEF x, y
<1>3. IsFiniteSet({} \cup {x}) /\ Cardinality({} \cup {x}) = 1
  BY <1>2, FS_AddElement
<1>4. Cardinality({} \cup {x} \cup {y}) = 2
  BY <1>1, <1>3, FS_AddElement
<1> QED BY <1>1, <1>4

\* A user has all of his accounts or none, and none for good only when the call of
\* auth-service has failed.
THEOREM AccountlessNeedsLostCall == EnrolSpec => []AccountlessOnlyByCall
<1>1. ASSUME EnrolInv PROVE AccountlessOnlyByCall
  <2> SUFFICES ASSUME NEW a \in users
               PROVE  /\ Cardinality(AccountsOf(a))
                           \in {0, IF site[a] = "service" THEN 2 ELSE 1}
                      /\ At(a, "done") /\ AccountsOf(a) = {}
                           => site[a] = "service" /\ a \in unmade
    BY DEF AccountlessOnlyByCall
  <2>1. a \in Attempts /\ site[a] \in Sites
    BY <1>1 DEF EnrolInv, EnrolTypeOK, Paths
  <2>2. CASE site[a] = "app"
    <3>1. PICK n \in Numbers : AccountsOf(a) = {New(a, "SAVINGS", n)}
      BY <1>1, <2>1, <2>2 DEF EnrolInv, Stocked, Supplied, SavingsOnly
    <3>2. Cardinality(AccountsOf(a)) = 1
      <4> DEFINE x == New(a, "SAVINGS", n)
      <4>1. IsFiniteSet({}) /\ Cardinality({}) = 0
        BY FS_EmptySet
      <4> HIDE DEF x
      <4>2. Cardinality({} \cup {x}) = 0 + 1
        <5>1. x \notin {}
          OBVIOUS
        <5> QED BY <4>1, <5>1, FS_AddElement
      <4>3. {} \cup {x} = {x}
        OBVIOUS
      <4> QED BY <3>1, <4>2, <4>3 DEF x
    <3> QED BY <2>2, <3>1, <3>2
  <2>3. CASE site[a] = "service"
    <3>1. \/ AccountsOf(a) = {}
          \/ \E n \in Numbers : AccountsOf(a) = {New(a, t, n) : t \in Types}
      BY <1>1, <2>1, <2>3 DEF EnrolInv, Stocked, Supplied, BothTypes
    <3>2. Cardinality(AccountsOf(a)) \in {0, 2}
      BY <3>1, TwoAccounts, FS_EmptySet
    <3>3. At(a, "done") /\ AccountsOf(a) = {} => a \in unmade
      <4> SUFFICES ASSUME At(a, "done"), AccountsOf(a) = {} PROVE a \in unmade
        OBVIOUS
      <4>1. ~BothTypes(a)
        BY DEF BothTypes, New, Types
      <4> QED BY <1>1, <2>1, <2>3, <4>1 DEF EnrolInv, Called, Stocked, Supplied, At
    <3> QED BY <2>3, <3>2, <3>3
  <2> QED BY <2>1, <2>2, <2>3 DEF Sites
<1> QED BY <1>1, EnrolHolds, PTL

\* A unique index refuses a registration only in a race, or for a National ID that
\* auth-service does not look up.
THEOREM ClashNeedsRace == EnrolSpec => []ClashOnlyByRace
<1>1. EnrolInv => ClashOnlyByRace
  BY DEF EnrolInv
<1> QED BY <1>1, EnrolHolds, PTL

-----------------------------------------------------------------------------
(* Browser.  The argument is about calm tabs: no other tab has changed the *)
(* cookies, no handler has sent the tab on, and no login of its own goes   *)
(* on.  All that a calm tab knows, the session, the user, the transactions *)
(* and the requests whose answers will be shown, is of one customer        *)
(* (Owned).  Only a full load makes a tab calm again, and it starts from   *)
(* nothing.                                                                *)

Showing == Restoring \cup {"update"}   \* whose answers a tab shows

Calm(t) == t \notin moved /\ to[t] = None /\ ~Runs(t, {"accounts"})

\* All that tab t shows, or is about to, is of u.
Owned(t, u) ==
  /\ session \in Users => session = u
  /\ user[t] \in {None, u} /\ items[t] \in {None, u}
  /\ \A c \in calls : c.tab = t /\ c.kind \in Showing => /\ c.as \in {None, u}
                                                         /\ c.seen \in {None, u}

\* A login that waits for its code counts for nobody: its tab is not at a page
\* that sends for him, and asks for nothing to show.
Waiting(t) ==
  session \notin Users /\ pending # None =>
    /\ page[t] # "dashboard"
    /\ \A c \in calls : c.tab = t /\ c.kind \in Restoring => c.kind = "me" /\ c.as = None

Mine(t) == Waiting(t) /\ \E u \in Users \cup {None} : Owned(t, u)

\* After a sign-out no answer in flight can sign anybody in.
Out == out => /\ session = None /\ pending = None
              /\ \A c \in calls : c.kind \in Renewing => c.kind = "update" /\ c.as = None

IInv == TypeOK /\ Out /\ \A t \in Tabs : Calm(t) => Mine(t)

-----------------------------------------------------------------------------
(* Types.                                                                  *)

LEMMA ContextType ==
  ASSUME NEW s \in Users \cup {None, Stale}, NEW p \in Users \cup {None}
  PROVE  /\ Context(s, p) \in Users \cup {None}
         /\ Context(s, p) # None => s \in Users \/ (s = None /\ Context(s, p) = p)
         /\ s \in Users => Context(s, p) = s
  BY BrowserAssumption DEF Context, Verified

LEMMA RouteType ==
  ASSUME NEW p \in Pages, NEW s, NEW q
  PROVE  /\ Route(p, s, q) \in Pages
         /\ s \notin Users => Route(p, s, q) # "dashboard"
  BY DEF Route, Pages

LEMMA RequestType ==
  ASSUME TypeOK, NEW k \in Kinds, NEW t \in Tabs, NEW as \in Users \cup {None}
  PROVE  Request(k, t, as) \in Call
  BY DEF Request, Call, TypeOK

LEMMA LoadTyped ==
  ASSUME TypeOK, NEW t \in Tabs, NEW p \in Pages, Load(t, p)
  PROVE  TypeOK'
<1>1. Request("me", t, Verified(session)) \in Call
  BY RequestType DEF Verified, Kinds, Restoring
<1>2. calls' \subseteq Call
  BY <1>1 DEF Load, TypeOK
<1>3. page' \in [Tabs -> Pages \cup {None}]
  BY RouteType DEF Load, TypeOK
<1> QED BY <1>2, <1>3, BrowserAssumption DEF Load, TypeOK, Kept

LEMMA SendTyped ==
  ASSUME TypeOK, NEW k \in Kinds, NEW t \in Tabs, NEW as \in Users \cup {None},
         Send(k, t, as), out' \in BOOLEAN
  PROVE  TypeOK'
<1>1. Request(k, t, as) \in Call
  BY RequestType
<1> QED BY <1>1 DEF Send, TypeOK, cookies, shown

LEMMA ThenTyped ==
  ASSUME TypeOK, NEW c \in calls, NEW k \in Kinds, NEW s \in Users \cup {None, Stale},
         Then(c, k, s)
  PROVE  calls' \subseteq Call
<1>1. Context(s, pending) \in Users \cup {None}
  BY ContextType, BrowserAssumption DEF TypeOK
<1>2. [c EXCEPT !.kind = k, !.as = Context(s, pending)] \in Call
  BY <1>1 DEF TypeOK, Call
<1> QED BY <1>2 DEF Then, TypeOK

LEMMA ArriveTyped ==
  ASSUME TypeOK, NEW c \in calls, Arrive(c)
  PROVE  TypeOK'
<1>0. /\ c \in Call /\ c.tab \in Tabs /\ c.as \in Users \cup {None}
      /\ c.seen \in Users \cup {None}
  BY DEF TypeOK, Call
<1>1. ASSUME NEW ok \in {o \in BOOLEAN : o => c.as # None},
             RestoreUser(c, ok) \/ RestoreProfile(c, ok) \/ RestoreHistory(c, ok)
      PROVE  TypeOK'
  <2>1. calls' \subseteq Call
    BY <1>1, ThenTyped DEF RestoreUser, RestoreProfile, RestoreHistory, End, TypeOK, Kinds,
       Restoring
  <2> QED BY <1>0, <1>1, <2>1 DEF RestoreUser, RestoreProfile, RestoreHistory, TypeOK,
                                  cookies
<1>2. CASE LoginPending(c)
  <2>1. Route("mfa", session, c.as) \in Pages
    BY RouteType DEF Pages
  <2> QED BY <1>0, <1>2, <2>1 DEF LoginPending, SetCookies, End, TypeOK, shown
<1>3. CASE LoginDone(c)
  <2>1. calls' \subseteq Call
    BY <1>0, <1>3, ThenTyped DEF LoginDone, Kinds
  <2> QED BY <1>0, <1>3, <2>1 DEF LoginDone, SetCookies, TypeOK
<1>4. CASE LoginAccounts(c) \/ HandlerFails(c)
  BY <1>0, <1>4 DEF LoginAccounts, EnterDashboard, HandlerFails, End, TypeOK, Pages, cookies,
                    shown
<1>5. CASE VerifyDone(c)
  BY <1>0, <1>5 DEF VerifyDone, EnterDashboard, SetCookies, End, TypeOK, Pages, shown
<1>6. CASE UpdateDone(c)
  BY <1>0, <1>6 DEF UpdateDone, SetCookies, End, TypeOK
<1>7. ASSUME NEW ok \in BOOLEAN, LogoutDone(c, ok) PROVE TypeOK'
  BY <1>0, <1>7 DEF LogoutDone, Cleared, SetCookies, End, TypeOK, Pages, cookies
<1> QED BY <1>1, <1>2, <1>3, <1>4, <1>5, <1>6, <1>7 DEF Arrive

-----------------------------------------------------------------------------
(* Whose a calm tab is.                                                    *)

\* Nothing is added to what t knows, and no login has come to wait.
LEMMA NothingNew ==
  ASSUME NEW t \in Tabs, Mine(t),
         \/ session' = session
         \/ session' \notin Users /\ (session \notin Users \/ pending' = None),
         pending' \in {pending, None},
         \/ page'[t] = page[t]
         \/ session' \notin Users => page'[t] # "dashboard",
         user'[t] \in {None, user[t]}, items'[t] \in {None, items[t]},
         \A c \in calls' : c.tab = t /\ c.kind \in Showing => c \in calls
  PROVE  Mine(t)'
<1>1. PICK u \in Users \cup {None} : Owned(t, u)
  BY DEF Mine
<1>2. Owned(t, u)'
  BY <1>1 DEF Owned
<1>3. Waiting(t)'
  BY DEF Mine, Waiting, Showing
<1> QED BY <1>2, <1>3 DEF Mine

\* A step of another tab, which may end the session or a login that waits.
LEMMA LoadMine ==
  ASSUME IInv, NEW s \in Tabs, NEW p \in Pages, Load(s, p), NEW t \in Tabs, Calm(t)'
  PROVE  Mine(t)'
<1>1. TypeOK /\ session' \in {session, None} /\ (session' # session => session = Stale)
  BY DEF IInv, Load, Kept
<1>2. CASE t = s
  <2> DEFINE me == Request("me", t, Verified(session))
  <2>1. \A c \in calls' : c.tab = t => c = me
    BY <1>2 DEF Load
  <2>2. me.kind = "me" /\ me.as = Verified(session) /\ me.seen = None
    BY DEF Request
  <2>3. user'[t] = None /\ items'[t] = None /\ pending' = pending
    BY <1>1, <1>2 DEF Load, TypeOK
  <2>4. page'[t] = Route(p, session, pending)
    BY <1>1, <1>2 DEF Load, TypeOK
  <2>5. (session' \in Users <=> session \in Users) /\ (session \in Users => session' = session)
    BY <1>1, BrowserAssumption DEF TypeOK
  <2>6. Waiting(t)'
    BY <2>1, <2>2, <2>4, <2>5, RouteType DEF Waiting, Verified
  <2>7. PICK u \in Users \cup {None} : u = Verified(session)
    BY DEF Verified
  <2>8. Owned(t, u)'
    BY <2>1, <2>2, <2>3, <2>5, <2>7 DEF Owned, Verified
  <2> QED BY <2>6, <2>8 DEF Mine
<1>3. CASE t # s
  <2>1. \A c \in calls' : c.tab = t => c \in calls
    BY <1>3 DEF Load, Request
  <2>2. \A c \in calls : c.tab = t => c \in calls'
    BY <1>3 DEF Load
  <2>3. Calm(t)
    BY <1>1, <1>3, <2>2 DEF Calm, Runs, Load, TypeOK
  <2>4. Mine(t)
    BY <2>3 DEF IInv
  <2>5. session' = session \/ (session' \notin Users /\ session \notin Users)
    BY <1>1, BrowserAssumption
  <2>6. /\ pending' = pending /\ page'[t] = page[t] /\ user'[t] = user[t]
        /\ items'[t] = items[t]
    BY <1>1, <1>3 DEF Load, TypeOK
  <2> QED BY <2>1, <2>4, <2>5, <2>6, NothingNew
<1> QED BY <1>2, <1>3

LEMMA FollowLinkMine ==
  ASSUME IInv, NEW s \in Tabs, NEW p \in {"login", "dashboard"}, FollowLink(s, p),
         NEW t \in Tabs, Calm(t)'
  PROVE  Mine(t)'
<1>1. TypeOK /\ session' \in {session, None} /\ (session' # session => session = Stale)
  BY DEF IInv, FollowLink, Kept
<1>2. Mine(t)
  BY DEF IInv, Calm, Runs, FollowLink
<1>3. session' = session \/ (session' \notin Users /\ session \notin Users)
  BY <1>1, BrowserAssumption
<1>4. page'[t] = page[t] \/ (session' \notin Users => page'[t] # "dashboard")
  <2>1. page'[t] = IF t = s THEN Route(p, session, pending) ELSE page[t]
    BY <1>1 DEF FollowLink, TypeOK
  <2> QED BY <1>3, <2>1, RouteType DEF Pages
<1> QED BY <1>2, <1>3, <1>4, NothingNew DEF FollowLink, shown

LEMMA ExpireMine ==
  ASSUME IInv, ExpireSession \/ ExpirePending, NEW t \in Tabs, Calm(t)'
  PROVE  Mine(t)'
<1>1. t \notin moved /\ to' = to /\ calls' = calls
  BY DEF ExpireSession, ExpirePending, Calm
<1>2. Mine(t)
  BY <1>1 DEF IInv, Calm, Runs
<1>3. \/ session' = session
      \/ session' \notin Users /\ (session \notin Users \/ pending' = None)
  BY BrowserAssumption DEF ExpireSession, ExpirePending, Calm
<1> QED BY <1>2, <1>3, NothingNew DEF ExpireSession, ExpirePending, shown

\* A handler sends a request whose answer is not shown as it is.
LEMMA SendMine ==
  ASSUME IInv, NEW s \in Tabs, NEW k \in {"login", "verify", "logout"}, NEW as,
         Send(k, s, as), NEW t \in Tabs, Calm(t)'
  PROVE  Mine(t)'
<1>1. t \notin moved /\ to' = to /\ calls \subseteq calls'
  BY DEF Send, Calm
<1>2. Mine(t)
  BY <1>1 DEF IInv, Calm, Runs, Send
<1>3. \A c \in calls' : c.tab = t /\ c.kind \in Showing => c \in calls
  <2>1. Request(k, s, as).kind = k /\ k \notin Showing
    BY DEF Request, Showing, Restoring
  <2> QED BY <2>1 DEF Send
<1> QED BY <1>2, <1>3, NothingNew DEF Send, cookies, shown

\* The profile is saved for the customer that is signed in: at a page to save it
\* no login can wait.
LEMMA SaveProfileMine ==
  ASSUME IInv, NEW s \in Tabs, SaveProfile(s), NEW t \in Tabs, Calm(t)'
  PROVE  Mine(t)'
<1> DEFINE as == Context(session, pending)
           save == Request("update", s, as)
<1>0. TypeOK /\ calls' = calls \cup {save} /\ UNCHANGED <<cookies, page, to, shown, moved>>
  BY DEF IInv, SaveProfile, Send
<1>1. Mine(t)
  BY <1>0 DEF IInv, Calm, Runs
<1>2. CASE t # s
  BY <1>0, <1>1, <1>2, NothingNew DEF Request, cookies, shown
<1>3. CASE t = s
  <2>1. PICK u \in Users \cup {None} : Owned(t, u)
    BY <1>1 DEF Mine
  <2>2. page[t] = "dashboard"
    BY <1>3 DEF SaveProfile
  <2>3. as \in {None, u}
    <3>1. CASE session \in Users
      BY <2>1, <3>1, BrowserAssumption DEF Owned, Context, Verified
    <3>2. CASE session \notin Users
      BY <1>1, <2>2, <3>2 DEF Mine, Waiting, Context, Verified
    <3> QED BY <3>1, <3>2
  <2>4. save.as = as /\ save.seen = user[t] /\ save.kind = "update" /\ user[t] \in {None, u}
    BY <1>3, <2>1 DEF Request, Owned
  <2>5. Owned(t, u)'
    BY <1>0, <2>1, <2>3, <2>4 DEF Owned, cookies, shown
  <2>6. Waiting(t)'
    BY <1>0, <1>1, <2>4 DEF Mine, Waiting, Restoring, cookies
  <2> QED BY <2>5, <2>6 DEF Mine
<1> QED BY <1>2, <1>3

-----------------------------------------------------------------------------
(* Answers.                                                                *)

\* An answer changes the cookies only for a tab that then is not calm, but for the
\* one that asked and does not restore.
LEMMA CookiesFrame ==
  ASSUME NEW s, NEW x, NEW y, SetCookies(s, x, y), NEW t \in Tabs, Calm(t)'
  PROVE  /\ t \notin moved
         /\ \/ session' = session /\ pending' = pending
            \/ t = s /\ ~Runs(t, Restoring)
  BY DEF SetCookies, Calm, cookies

\* Where an answer to another tab leaves the cookies alone.
LEMMA OtherMine ==
  ASSUME IInv, NEW t \in Tabs, NEW c \in calls, c.tab # t, t \notin moved,
         UNCHANGED cookies, page'[t] = page[t], to'[t] = to[t], user'[t] = user[t],
         items'[t] = items[t],
         \A d \in calls : d # c => d \in calls',
         \A d \in calls' : d.tab = t => d \in calls,
         Calm(t)'
  PROVE  Mine(t)'
<1>1. Mine(t)
  BY DEF IInv, Calm, Runs
<1> QED BY <1>1, NothingNew DEF cookies

LEMMA ThenTab ==
  ASSUME TypeOK, NEW c \in calls, NEW k \in Kinds, NEW s, Then(c, k, s)
  PROVE  /\ \A d \in calls : d # c => d \in calls'
         /\ \A d \in calls' : \/ d \in calls
                              \/ /\ d.tab = c.tab /\ d.kind = k /\ d.seen = c.seen
                                 /\ d.as = Context(s, pending)
  BY DEF Then, TypeOK, Call

\* While a tab restores what it has not got from the login that waits, the next
\* request is for the customer that is signed in.
LEMMA RestoresOwn ==
  ASSUME IInv, NEW c \in calls, c.kind \in Restoring, c.kind = "me" => c.as # None,
         Mine(c.tab), NEW u \in Users \cup {None}, Owned(c.tab, u)
  PROVE  Context(session, pending) \in {None, u}
         /\ (session \notin Users => pending = None)
<1>1. session \notin Users => pending = None
  BY DEF Mine, Waiting
<1> QED BY <1>1, BrowserAssumption DEF Owned, Context, Verified

LEMMA RestoreMine ==
  ASSUME IInv, NEW c \in calls, NEW ok \in {o \in BOOLEAN : o => c.as # None},
         RestoreUser(c, ok) \/ RestoreProfile(c, ok) \/ RestoreHistory(c, ok),
         NEW t \in Tabs, Calm(t)'
  PROVE  Mine(t)'
<1>0. /\ TypeOK /\ c.tab \in Tabs /\ t \notin moved
      /\ c.kind \in Restoring /\ UNCHANGED <<cookies, page, to, moved>>
  BY DEF IInv, TypeOK, Call, Calm, RestoreUser, RestoreProfile, RestoreHistory, Restoring
<1>1. /\ \A d \in calls : d # c => d \in calls'
      /\ \A d \in calls' : \/ d \in calls
                           \/ /\ d.tab = c.tab /\ d.kind \in Restoring /\ d.seen = c.seen
                              /\ d.as = Context(session, pending)
                              /\ c.kind = "me" => c.as # None
  BY <1>0, ThenTab DEF RestoreUser, RestoreProfile, RestoreHistory, End, Kinds, Restoring
<1>2. CASE t # c.tab
  <2>1. user'[t] = user[t] /\ items'[t] = items[t]
    BY <1>0, <1>2 DEF RestoreUser, RestoreProfile, RestoreHistory, TypeOK
  <2> QED BY <1>0, <1>1, <1>2, <2>1, OtherMine
<1>3. CASE t = c.tab
  <2>1. Mine(t)
    BY <1>0, <1>1, <1>3 DEF IInv, Calm, Runs, Restoring
  <2>2. PICK u \in Users \cup {None} : Owned(t, u)
    BY <2>1 DEF Mine
  <2>3. c.as \in {None, u} /\ c.seen \in {None, u}
    BY <1>0, <1>3, <2>2 DEF Owned, Showing
  <2>4. user'[t] \in {None, u} /\ items'[t] \in {None, u}
    BY <1>0, <1>3, <2>2, <2>3 DEF RestoreUser, RestoreProfile, RestoreHistory, TypeOK, Owned
  <2>5. \A d \in calls' : d.tab = t /\ d.kind \in Showing => d.as \in {None, u}
                                                             /\ d.seen \in {None, u}
    BY <1>0, <1>1, <1>3, <2>1, <2>2, <2>3, RestoresOwn DEF Owned
  <2>6. Owned(t, u)'
    BY <1>0, <2>2, <2>4, <2>5 DEF Owned, cookies
  <2>7. Waiting(t)'
    <3> SUFFICES ASSUME session \notin Users, pending # None
                 PROVE  /\ page[t] # "dashboard"
                        /\ \A d \in calls' : d.tab = t /\ d.kind \in Restoring
                                               => d.kind = "me" /\ d.as = None
      BY <1>0 DEF Waiting, cookies
    <3>1. c.kind = "me" /\ c.as = None
      BY <1>0, <1>3, <2>1 DEF Mine, Waiting
    <3>2. \A d \in calls' : d \in calls
      BY <1>1, <3>1
    <3> QED BY <2>1, <3>2 DEF Mine, Waiting
  <2> QED BY <2>6, <2>7 DEF Mine
<1> QED BY <1>2, <1>3

\* A login comes to wait in a tab that is sent to the page for its code.
LEMMA LoginPendingMine ==
  ASSUME IInv, NEW c \in calls, LoginPending(c), NEW t \in Tabs, Calm(t)'
  PROVE  Mine(t)'
<1>0. /\ TypeOK /\ c.tab \in Tabs /\ t \notin moved
      /\ \/ session' = session /\ pending' = pending
         \/ t = c.tab /\ ~Runs(t, Restoring)
  BY CookiesFrame DEF IInv, TypeOK, Call, LoginPending
<1>1. Mine(t)
  BY <1>0 DEF IInv, Calm, Runs, LoginPending, End
<1>2. session' = session /\ UNCHANGED <<to, shown>> /\ calls' = calls \ {c}
  BY DEF LoginPending, SetCookies, End
<1>3. CASE t # c.tab
  BY <1>0, <1>1, <1>2, <1>3, NothingNew DEF LoginPending, TypeOK, shown
<1>4. CASE t = c.tab
  <2>1. PICK u \in Users \cup {None} : Owned(t, u)
    BY <1>1 DEF Mine
  <2>2. Owned(t, u)'
    BY <1>2, <2>1 DEF Owned, shown
  <2>3. page'[t] = Route("mfa", session, c.as)
    BY <1>0, <1>4 DEF LoginPending, TypeOK
  <2>4. session \notin Users => page'[t] # "dashboard"
    BY <2>3, RouteType DEF Pages
  <2>5. \A d \in calls' : d \in calls
    BY <1>2
  <2>6. ASSUME pending' = pending PROVE Waiting(t)'
    BY <1>1, <1>2, <2>4, <2>5, <2>6 DEF Mine, Waiting
  <2>7. ASSUME ~Runs(t, Restoring) PROVE Waiting(t)'
    BY <1>2, <2>4, <2>5, <2>7 DEF Waiting, Runs
  <2>8. Waiting(t)'
    BY <1>0, <2>6, <2>7
  <2> QED BY <2>2, <2>8 DEF Mine
<1> QED BY <1>3, <1>4

\* The new session is that of the customer the tab shows.
LEMMA UpdateDoneMine ==
  ASSUME IInv, NEW c \in calls, UpdateDone(c), NEW t \in Tabs, Calm(t)'
  PROVE  Mine(t)'
<1>0. /\ TypeOK /\ c.tab \in Tabs /\ t \notin moved /\ c.as \in Users
      /\ \/ session' = session /\ pending' = pending
         \/ t = c.tab /\ ~Runs(t, Restoring)
  BY CookiesFrame DEF IInv, TypeOK, Call, UpdateDone
<1>1. Mine(t)
  BY <1>0 DEF IInv, Calm, Runs, UpdateDone, End
<1>2. UNCHANGED <<page, to, items>> /\ calls' = calls \ {c} /\ session' = c.as
  BY DEF UpdateDone, SetCookies, End
<1>3. CASE t # c.tab
  BY <1>0, <1>1, <1>2, <1>3, NothingNew DEF UpdateDone, TypeOK
<1>4. CASE t = c.tab
  <2>1. PICK u \in Users \cup {None} : Owned(t, u)
    BY <1>1 DEF Mine
  <2>2. c.as = u /\ c.seen \in {None, u}
    BY <1>0, <1>4, <2>1, BrowserAssumption DEF Owned, Showing, UpdateDone
  <2>3. user'[t] \in {None, u}
    BY <1>0, <1>4, <2>1, <2>2 DEF UpdateDone, TypeOK, Owned
  <2>4. Owned(t, u)'
    BY <1>2, <2>1, <2>2, <2>3 DEF Owned
  <2>5. Waiting(t)'
    BY <1>0, <1>2 DEF Waiting
  <2> QED BY <2>4, <2>5 DEF Mine
<1> QED BY <1>3, <1>4

\* A tab that signs in, or out, is sent on.
LEMMA SentOnMine ==
  ASSUME IInv, NEW c \in calls,
         \/ LoginDone(c) \/ LoginAccounts(c) \/ VerifyDone(c)
         \/ \E ok \in BOOLEAN : LogoutDone(c, ok),
         NEW t \in Tabs, Calm(t)'
  PROVE  Mine(t)'
<1>0. TypeOK /\ c.tab \in Tabs
  BY DEF IInv, TypeOK, Call
<1>1. c.tab # t
  <2>1. CASE LoginDone(c)
    <3>1. [c EXCEPT !.kind = "accounts", !.as = Context(c.as, pending)] \in calls'
      BY <2>1 DEF LoginDone, Then
    <3>2. \E d \in calls' : d.tab = c.tab /\ d.kind = "accounts"
      BY <1>0, <3>1 DEF TypeOK, Call
    <3> QED BY <3>2 DEF Calm, Runs
  <2>2. CASE ~LoginDone(c)
    <3>1. to'[c.tab] # None
      BY <1>0, <2>2, BrowserAssumption
         DEF LoginAccounts, VerifyDone, EnterDashboard, LogoutDone, TypeOK, Pages
    <3> QED BY <3>1 DEF Calm
  <2> QED BY <2>1, <2>2
<1>2. t \notin moved /\ UNCHANGED cookies
  <2>1. CASE LoginDone(c)
    BY <1>1, <2>1, CookiesFrame DEF LoginDone, cookies
  <2>2. CASE LoginAccounts(c)
    BY <2>2 DEF LoginAccounts, Calm
  <2>3. CASE VerifyDone(c)
    BY <1>1, <2>3, CookiesFrame DEF VerifyDone, cookies
  <2>4. ASSUME NEW ok \in BOOLEAN, LogoutDone(c, ok)
        PROVE  t \notin moved /\ UNCHANGED cookies
    BY <1>1, <2>4, CookiesFrame DEF LogoutDone, Calm, cookies
  <2> QED BY <2>1, <2>2, <2>3, <2>4
<1>3. /\ page'[t] = page[t] /\ to'[t] = to[t] /\ user'[t] = user[t] /\ items'[t] = items[t]
  BY <1>0, <1>1 DEF LoginDone, LoginAccounts, VerifyDone, EnterDashboard, LogoutDone, TypeOK,
                    shown
<1>4. /\ \A d \in calls : d # c => d \in calls'
      /\ \A d \in calls' : d.tab = t => d \in calls
  <2>1. CASE LoginDone(c)
    BY <1>0, <1>1, <2>1, ThenTab DEF LoginDone, Kinds
  <2>2. CASE ~LoginDone(c)
    BY <2>2 DEF LoginAccounts, VerifyDone, LogoutDone, End
  <2> QED BY <2>1, <2>2
<1> QED BY <1>1, <1>2, <1>3, <1>4, OtherMine

LEMMA FailsMine ==
  ASSUME IInv, NEW c \in calls, HandlerFails(c), NEW t \in Tabs, Calm(t)'
  PROVE  Mine(t)'
<1>1. Mine(t)
  BY DEF IInv, Calm, Runs, HandlerFails, End, Renewing, SigningIn
<1> QED BY <1>1, NothingNew DEF HandlerFails, End, cookies, shown

LEMMA ArriveMine ==
  ASSUME IInv, NEW c \in calls, Arrive(c), NEW t \in Tabs, Calm(t)'
  PROVE  Mine(t)'
  BY RestoreMine, LoginPendingMine, UpdateDoneMine, SentOnMine, FailsMine DEF Arrive

-----------------------------------------------------------------------------
(* Signed out.                                                             *)

\* A page is loaded or followed to, or a request sent that cannot sign in.
LEMMA TabOut ==
  ASSUME TypeOK, Out, NEW t \in Tabs,
         \/ \E p \in Pages : Load(t, p)
         \/ \E p \in {"login", "dashboard"} : FollowLink(t, p)
         \/ SaveProfile(t) \/ Logout(t)
  PROVE  Out'
<1> SUFFICES ASSUME out'
             PROVE  /\ session' = None /\ pending' = None
                    /\ \A c \in calls' : c.kind \in Renewing => c.kind = "update" /\ c.as = None
  BY DEF Out
<1>1. out /\ session = None /\ pending = None
  BY DEF Out, Load, FollowLink, SaveProfile, Logout
<1>2. session' = None /\ pending' = None
  BY <1>1 DEF Load, FollowLink, Kept, SaveProfile, Logout, Send, cookies
<1>3. CASE \E p \in Pages : Load(t, p)
  <2> DEFINE me == Request("me", t, Verified(session))
  <2>1. me.kind = "me"
    BY DEF Request
  <2>2. \A c \in calls' : c \in calls \/ c = me
    BY <1>3 DEF Load
  <2> QED BY <1>1, <1>2, <2>1, <2>2 DEF Out, Renewing, SigningIn
<1>4. CASE \E p \in {"login", "dashboard"} : FollowLink(t, p)
  <2>1. calls' = calls
    BY <1>4 DEF FollowLink
  <2> QED BY <1>1, <1>2, <2>1 DEF Out
<1>5. CASE SaveProfile(t)
  <2> DEFINE save == Request("update", t, Context(session, pending))
  <2>1. save.kind = "update" /\ save.as = None
    BY <1>1 DEF Request, Context
  <2>2. \A c \in calls' : c \in calls \/ c = save
    BY <1>5 DEF SaveProfile, Send
  <2> QED BY <1>1, <1>2, <2>1, <2>2 DEF Out
<1>6. CASE Logout(t)
  <2> DEFINE leave == Request("logout", t, None)
  <2>1. leave.kind = "logout"
    BY DEF Request
  <2>2. \A c \in calls' : c \in calls \/ c = leave
    BY <1>6 DEF Logout, Send
  <2> QED BY <1>1, <1>2, <2>1, <2>2 DEF Out, Renewing, SigningIn
<1> QED BY <1>3, <1>4, <1>5, <1>6

LEMMA ArriveOut ==
  ASSUME TypeOK, Out, NEW c \in calls, Arrive(c)
  PROVE  Out'
<1> SUFFICES ASSUME out'
             PROVE  /\ session' = None /\ pending' = None
                    /\ \A d \in calls' : d.kind \in Renewing => d.kind = "update" /\ d.as = None
  BY DEF Out
<1>1. ASSUME NEW ok \in BOOLEAN, LogoutDone(c, ok) PROVE Out'
  BY <1>1 DEF LogoutDone, SetCookies, Cleared, End, Out
<1>2. ASSUME \A ok \in BOOLEAN : ~LogoutDone(c, ok) PROVE Out'
  <2>1. out
    BY <1>2 DEF Arrive, RestoreUser, RestoreProfile, RestoreHistory, LoginPending, LoginDone,
                LoginAccounts, VerifyDone, UpdateDone, HandlerFails
  <2>2. c.kind \in Renewing => c.kind = "update" /\ c.as = None
    BY <2>1 DEF Out
  <2>3. ~LoginPending(c) /\ ~LoginDone(c) /\ ~VerifyDone(c) /\ ~UpdateDone(c)
    BY <2>2 DEF LoginPending, LoginDone, VerifyDone, UpdateDone, Renewing, SigningIn
  <2>4. /\ UNCHANGED cookies
        /\ \A d \in calls' : d \in calls \/ d.kind \in {"profile", "history"}
    BY <1>2, <2>3, ThenTab
       DEF Arrive, RestoreUser, RestoreProfile, RestoreHistory, LoginAccounts, HandlerFails, End,
           Kinds, Restoring
  <2> QED BY <2>1, <2>4 DEF Out, cookies, Renewing, SigningIn
<1> QED BY <1>1, <1>2 DEF Out

-----------------------------------------------------------------------------
(* The invariant.                                                          *)

LEMMA InitInv == Init => IInv
<1> SUFFICES ASSUME Init PROVE IInv
  OBVIOUS
<1>1. TypeOK
  BY DEF Init, TypeOK, Pages
<1>2. Out
  BY DEF Init, Out
<1>3. \A t \in Tabs : Mine(t)
  BY BrowserAssumption DEF Init, Mine, Waiting, Owned
<1> QED BY <1>1, <1>2, <1>3 DEF IInv

LEMMA NextInv == IInv /\ [Next]_vars => IInv'
<1> SUFFICES ASSUME IInv, [Next]_vars PROVE IInv'
  OBVIOUS
<1>0. TypeOK /\ Out
  BY DEF IInv
<1>1. CASE ExpireSession \/ ExpirePending
  <2>1. TypeOK'
    BY <1>0, <1>1 DEF ExpireSession, ExpirePending, TypeOK, shown
  <2>2. Out'
    BY <1>0, <1>1 DEF ExpireSession, ExpirePending, Out
  <2> QED BY <1>1, <2>1, <2>2, ExpireMine DEF IInv
<1>2. ASSUME NEW t \in Tabs, Navigate(t) \/ Leave(t) PROVE IInv'
  <2>1. PICK p \in Pages : Load(t, p)
    BY <1>0, <1>2 DEF Navigate, Leave, Pages, TypeOK
  <2>2. TypeOK' /\ Out'
    BY <1>0, <2>1, LoadTyped, TabOut
  <2> QED BY <2>1, <2>2, LoadMine DEF IInv
<1>3. ASSUME NEW t \in Tabs, NEW p \in {"login", "dashboard"}, FollowLink(t, p) PROVE IInv'
  <2>1. Route(p, session, pending) \in Pages
    BY RouteType DEF Pages
  <2>2. TypeOK'
    BY <1>0, <1>3, <2>1 DEF FollowLink, TypeOK, Kept, shown
  <2>3. Out'
    BY <1>0, <1>3, TabOut
  <2> QED BY <1>3, <2>2, <2>3, FollowLinkMine DEF IInv
<1>4. ASSUME NEW t \in Tabs, NEW k \in {"login", "verify", "logout"}, NEW as \in Users \cup {None},
             Send(k, t, as), out' \in BOOLEAN, Out'
      PROVE  IInv'
  <2>1. TypeOK'
    BY <1>0, <1>4, SendTyped DEF Kinds, Renewing, SigningIn
  <2> QED BY <1>4, <2>1, SendMine DEF IInv
<1>5. Context(session, pending) \in Users \cup {None}
  BY <1>0, ContextType, BrowserAssumption DEF TypeOK
<1>6. ASSUME NEW t \in Tabs, NEW u \in Users, SubmitLogin(t, u) PROVE IInv'
  BY <1>4, <1>6 DEF SubmitLogin, Out
<1>7. ASSUME NEW t \in Tabs, SubmitCode(t) PROVE IInv'
  BY <1>4, <1>5, <1>7 DEF SubmitCode, Out
<1>8. ASSUME NEW t \in Tabs, Logout(t) PROVE IInv'
  <2>1. Out'
    BY <1>0, <1>8, TabOut
  <2> QED BY <1>0, <1>4, <1>8, <2>1 DEF Logout, TypeOK
<1>9. ASSUME NEW t \in Tabs, SaveProfile(t) PROVE IInv'
  <2>1. TypeOK'
    BY <1>0, <1>5, <1>9, SendTyped DEF SaveProfile, Kinds, Renewing, TypeOK
  <2>2. Out'
    BY <1>0, <1>9, TabOut
  <2> QED BY <1>9, <2>1, <2>2, SaveProfileMine DEF IInv
<1>10. ASSUME NEW c \in calls, Arrive(c) PROVE IInv'
  <2>1. TypeOK' /\ Out'
    BY <1>0, <1>10, ArriveTyped, ArriveOut
  <2> QED BY <1>10, <2>1, ArriveMine DEF IInv
<1>11. CASE UNCHANGED vars
  BY <1>11 DEF IInv, TypeOK, Out, Calm, Runs, Mine, Waiting, Owned, vars, cookies, shown
<1> QED BY <1>1, <1>2, <1>3, <1>6, <1>7, <1>8, <1>9, <1>10, <1>11 DEF Next

\* The types, the sign-out and the one customer of every calm tab hold throughout.
THEOREM InductiveInvariant == Spec => []IInv
<1>1. Init => IInv
  BY InitInv
<1>2. IInv /\ [Next]_vars => IInv'
  BY NextInv
<1> QED BY <1>1, <1>2, PTL DEF Spec

-----------------------------------------------------------------------------
(* What follows.                                                           *)

\* Browser.TypeOK.
THEOREM TypeCorrect == Spec => []TypeOK
<1>1. IInv => TypeOK
  BY DEF IInv
<1> QED BY <1>1, InductiveInvariant, PTL

\* After a sign-out that reached the server nobody is signed in before a next login
\* begins: the cookie is cleared, and no answer in flight can set it again.
THEOREM SignedOut == Spec => []SignedOutStays
<1>1. IInv => SignedOutStays
  BY DEF IInv, Out, SignedOutStays
<1> QED BY <1>1, InductiveInvariant, PTL

LEMMA AtMostOne ==
  ASSUME NEW u, NEW S, S \subseteq {u}
  PROVE  Cardinality(S) <= 1
<1>1. S = {} \/ S = {} \cup {u}
  OBVIOUS
<1> DEFINE one == {} \cup {u}
<1>2. Cardinality({}) = 0 /\ IsFiniteSet({})
  BY FS_EmptySet
<1>3. Cardinality(one) = 1
  BY <1>2, FS_AddElement
<1> HIDE DEF one
<1> QED BY <1>1, <1>2, <1>3 DEF one

LEMMA RestIsCalm ==
  ASSUME NEW t \in Tabs, AtRest(t), t \notin moved
  PROVE  Calm(t)
  BY DEF AtRest, Calm, Runs, Kinds

\* A tab at rest lists the transactions of the user it shows: a handler that signs in
\* another customer, or out, loads the document anew.
THEOREM OneCustomer == Spec => []OneOwner
<1>1. IInv => OneOwner
  <2> SUFFICES ASSUME IInv, NEW t \in Tabs, AtRest(t), t \notin moved
               PROVE  Cardinality({user[t], items[t]} \ {None}) <= 1
    BY DEF OneOwner
  <2>1. PICK u \in Users \cup {None} : Owned(t, u)
    BY RestIsCalm DEF IInv, Mine
  <2>2. {user[t], items[t]} \ {None} \subseteq {u}
    BY <2>1 DEF Owned
  <2> QED BY <2>2, AtMostOne
<1> QED BY <1>1, InductiveInvariant, PTL

\* The user that a tab at rest shows is the one its requests are taken to come from.
THEOREM SignedInShown == Spec => []ShownIsSignedIn
<1>1. IInv => ShownIsSignedIn
  BY RestIsCalm DEF IInv, Mine, Owned, ShownIsSignedIn
<1> QED BY <1>1, InductiveInvariant, PTL
=============================================================================

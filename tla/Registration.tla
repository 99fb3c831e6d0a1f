---------------------------- MODULE Registration ----------------------------
(***************************************************************************)
(* How a customer comes to exist.  There are two registrations, each with  *)
(* its own database: that of auth-service, which has accounts-service      *)
(* create the accounts by a call it does not wait for to succeed, and that *)
(* of the Next.js application, whose enrolment page goes on with a login   *)
(* if the customer is there already.                                       *)
(*                                                                         *)
(* A person has one National ID and one password, and gives an e-mail      *)
(* address.  An attempt is one request, and names the user it creates.     *)
(***************************************************************************)
EXTENDS Integers, FiniteSets

CONSTANTS
  Attempts,
  Persons,    \* and their National IDs
  Emails,
  Backup,     \* persons with a backup identity record
  Numbers,    \* account numbers, drawn at random
  Nil

ASSUME RegistrationAssumption ==
  /\ Backup \subseteq Persons
  /\ Nil \notin Attempts \cup Persons \cup Emails

Sites == {"service", "app"}
Types == {"SAVINGS", "CHECKING"}

VARIABLES
  users,     \* the attempts whose user row exists
  accounts,  \* the accounts: of which user, of which type, with which number
  enrolled,  \* the users with a second factor
  wire,      \* calls to accounts-service it has not come to
  handled,   \* calls it has answered
  site, person, email, \* of each attempt
  pc,
  told,      \* what the answer says
  holder,    \* the user whose session, or pending login, the page has got
  \* history, for the properties
  met,       \* pairs of attempts under way at one time
  unmade,    \* attempts whose call failed, was refused or was never made
  clashed    \* attempts refused by a unique index of the users

database == <<users, accounts, enrolled>>
network  == <<wire, handled>>
request  == <<site, person, email>>
history  == <<met, unmade, clashed>>
enrolVars == <<database, network, request, pc, told, holder, history>>

EnrolInit ==
  /\ users = {} /\ accounts = {} /\ enrolled = {}
  /\ wire = {} /\ handled = {}
  /\ site = [a \in Attempts |-> Nil]
  /\ person = [a \in Attempts |-> Nil]
  /\ email = [a \in Attempts |-> Nil]
  /\ pc = [a \in Attempts |-> "arrive"]
  /\ told = [a \in Attempts |-> Nil]
  /\ holder = [a \in Attempts |-> Nil]
  /\ met = {} /\ unmade = {} /\ clashed = {}

At(a, l)   == pc[a] = l
Goto(a, l) == pc' = [pc EXCEPT ![a] = l]
Tell(a, t) == told' = [told EXCEPT ![a] = t]
Answer(a, t)  == Goto(a, "done") /\ Tell(a, t)

UnderWay == {b \in Attempts : pc[b] \notin {"arrive", "done"}}

Register(a) ==
  /\ At(a, "arrive")
  /\ \E s \in Sites, p \in Persons, e \in Emails :
       /\ site' = [site EXCEPT ![a] = s]
       /\ person' = [person EXCEPT ![a] = p]
       /\ email' = [email EXCEPT ![a] = e]
       /\ Goto(a, IF s = "service" THEN "identity" ELSE "find")
  /\ met' = met \cup {{a, b} : b \in UnderWay}
  /\ UNCHANGED <<database, network, told, holder, unmade, clashed>>

\* A statement throws.
Fails(a) ==
  /\ pc[a] \in {"identity", "find", "create"}
  /\ Answer(a, "ERROR")
  /\ UNCHANGED <<database, network, request, holder, history>>

Same(a, b) == site[a] = site[b]
SameEmail(a, b)  == Same(a, b) /\ email[a] = email[b]
SamePerson(a, b) == Same(a, b) /\ person[a] = person[b]

\* The unique indexes of the users.
Taken(a) == \E b \in users : SameEmail(a, b) \/ SamePerson(a, b)

Refused(a) == /\ clashed' = clashed \cup {a}
              /\ Answer(a, "ERROR")
              /\ UNCHANGED <<database, network, request, holder, met, unmade>>

-----------------------------------------------------------------------------
(* auth-service.                                                           *)

\* The name must be that of the backup record, too.
VerifyIdentity(a) ==
  /\ At(a, "identity")
  /\ \/ person[a] \in Backup /\ Goto(a, "find") /\ UNCHANGED told
     \/ Answer(a, "NOT_FOUND")
  /\ UNCHANGED <<database, network, request, holder, history>>

\* The e-mail address is looked up, the National ID is not.
FindByEmail(a) ==
  /\ At(a, "find") /\ site[a] = "service"
  /\ IF \E b \in users : SameEmail(a, b) THEN Answer(a, "CONFLICT")
                                         ELSE Goto(a, "create") /\ UNCHANGED told
  /\ UNCHANGED <<database, network, request, holder, history>>

CreateUser(a) ==
  /\ At(a, "create") /\ site[a] = "service"
  /\ IF Taken(a)
       THEN Refused(a)
       ELSE /\ users' = users \cup {a}
            /\ Goto(a, "emit")
            /\ UNCHANGED <<accounts, enrolled, network, request, told, holder, history>>

\* The event is emitted, and accounts-service is called.
CallAccounts(a) ==
  /\ At(a, "emit")
  /\ wire' = wire \cup {a}
  /\ Goto(a, "call")
  /\ UNCHANGED <<database, handled, request, told, holder, history>>

\* The process ends before the call.
Crash(a) ==
  /\ At(a, "emit")
  /\ unmade' = unmade \cup {a}
  /\ Answer(a, "LOST")
  /\ UNCHANGED <<database, network, request, holder, met, clashed>>

\* Whatever it answers, and if it does not answer at all, the user is told that
\* all is well.
CallReturns(a) ==
  /\ At(a, "call")
  /\ \/ a \in handled /\ UNCHANGED unmade
     \/ unmade' = unmade \cup {a}
  /\ Answer(a, "OK")
  /\ UNCHANGED <<database, network, request, holder, met, clashed>>

-----------------------------------------------------------------------------
(* accounts-service.                                                       *)

New(a, t, n) == [user |-> a, type |-> t, number |-> n]

\* The unique index of the accounts of a database.
Used(s, t, n) == \E x \in accounts : /\ site[x.user] = s /\ x.number = n
                                     /\ s = "service" => x.type = t

\* Two accounts in one transaction; their numbers are drawn together.
CreateDefaultAccounts(a) ==
  /\ a \in wire
  /\ wire' = wire \ {a} /\ handled' = handled \cup {a}
  /\ \E n \in Numbers :
       IF \E t \in Types : Used("service", t, n)
         THEN unmade' = unmade \cup {a} /\ UNCHANGED accounts
         ELSE accounts' = accounts \cup {New(a, t, n) : t \in Types} /\ UNCHANGED unmade
  /\ UNCHANGED <<users, enrolled, request, pc, told, holder, met, clashed>>

-----------------------------------------------------------------------------
(* The Next.js application.                                                *)

\* Mutant of FindExisting: the National ID is not looked up.
FindExistingEmail(a) ==
  /\ At(a, "find") /\ site[a] = "app"
  /\ Goto(a, IF \E b \in users : SameEmail(a, b) THEN "login" ELSE "create")
  /\ UNCHANGED <<database, network, request, told, holder, history>>

\* On a conflict, which is answered at once, the page tries a login.
FindExisting(a) ==
  /\ At(a, "find") /\ site[a] = "app"
  /\ Goto(a, IF Taken(a) THEN "login" ELSE "create")
  /\ UNCHANGED <<database, network, request, told, holder, history>>

Begin(a) == [holder EXCEPT ![a] = a]

\* Mutant of CreateUserAndAccount: two statements, no transaction.
CreateUserThenAccount(a) ==
  /\ At(a, "create") /\ site[a] = "app"
  /\ \E n \in Numbers :
       IF Taken(a) THEN Refused(a)
         ELSE /\ users' = users \cup {a}
              /\ IF Used("app", "SAVINGS", n)
                   THEN Answer(a, "ERROR") /\ UNCHANGED <<accounts, holder>>
                   ELSE /\ accounts' = accounts \cup {New(a, "SAVINGS", n)}
                        /\ holder' = Begin(a)
                        /\ Goto(a, "finalize") /\ UNCHANGED told
              /\ UNCHANGED <<enrolled, network, request, history>>

\* The user and the account are one transaction; the welcome mail may fail.
CreateUserAndAccount(a) ==
  /\ At(a, "create") /\ site[a] = "app"
  /\ \E n \in Numbers :
       IF Taken(a) THEN Refused(a)
         ELSE IF Used("app", "SAVINGS", n)
         THEN Answer(a, "ERROR") /\ UNCHANGED <<database, network, request, holder, history>>
         ELSE /\ users' = users \cup {a}
              /\ accounts' = accounts \cup {New(a, "SAVINGS", n)}
              /\ holder' = Begin(a)
              /\ Goto(a, "finalize")
              /\ UNCHANGED <<enrolled, network, request, told, history>>

Matches(a, b) == SameEmail(a, b) /\ person[a] = person[b]

\* handleRegisterAndSetupMfa goes on with a customer who has a second factor, too:
\* his pending login is a session for the routes that follow.
Login(a) ==
  /\ At(a, "login")
  /\ \/ \E b \in users : /\ Matches(a, b)
                         /\ holder' = [holder EXCEPT ![a] = b]
                         /\ Goto(a, "finalize") /\ UNCHANGED told
     \/ /\ \A b \in users : ~Matches(a, b)
        /\ Answer(a, "CONFLICT") /\ UNCHANGED holder
  /\ UNCHANGED <<database, network, request, history>>

\* mfa/setup and mfa/verify: the code may be left out or be wrong.
Enrolls(a) == enrolled' \in {enrolled, enrolled \cup {holder[a]}}

\* An answer is lost: that of the registration or the login, or a later one.
Lost(a) ==
  /\ pc[a] \in {"login", "finalize"}
  /\ \/ holder' = [holder EXCEPT ![a] = Nil] /\ UNCHANGED enrolled
     \/ At(a, "finalize") /\ Enrolls(a) /\ UNCHANGED holder
  /\ Answer(a, "LOST")
  /\ UNCHANGED <<users, accounts, network, request, history>>

\* handleFinalize: whatever mfa/verify answers, the enrolment is complete.
Finalize(a) ==
  /\ At(a, "finalize")
  /\ Enrolls(a)
  /\ Answer(a, "OK")
  /\ UNCHANGED <<users, accounts, network, request, holder, history>>

-----------------------------------------------------------------------------

EnrolNext ==
  \E a \in Attempts :
    \/ Register(a) \/ Fails(a)
    \/ VerifyIdentity(a) \/ FindByEmail(a) \/ CreateUser(a) \/ CallAccounts(a) \/ Crash(a)
    \/ CallReturns(a) \/ CreateDefaultAccounts(a)
    \/ FindExisting(a) \/ CreateUserAndAccount(a) \/ Login(a) \/ Lost(a) \/ Finalize(a)

EnrolSpec == EnrolInit /\ [][EnrolNext]_enrolVars

-----------------------------------------------------------------------------
(* Properties.                                                             *)

\* Every variable has its type.
EnrolTypeOK ==
  /\ users \subseteq Attempts /\ enrolled \subseteq users
  /\ accounts \subseteq [user : Attempts, type : Types, number : Numbers]
  /\ wire \subseteq Attempts /\ handled \subseteq Attempts
  /\ site \in [Attempts -> Sites \cup {Nil}]
  /\ person \in [Attempts -> Persons \cup {Nil}]
  /\ email \in [Attempts -> Emails \cup {Nil}]
  /\ pc \in [Attempts -> {"arrive", "identity", "find", "create", "emit", "call",
                          "login", "finalize", "done"}]
  /\ told \in [Attempts -> {Nil, "OK", "NOT_FOUND", "CONFLICT", "ERROR", "LOST"}]
  /\ holder \in [Attempts -> Attempts \cup {Nil}]
  /\ met \subseteq SUBSET Attempts
  /\ unmade \subseteq Attempts /\ clashed \subseteq Attempts

AccountsOf(a) == {x \in accounts : x.user = a}

\* A user has all of his accounts or none, and none for good only if he is one of
\* auth-service and its call to accounts-service failed or was never made.
AccountlessOnlyByCall ==
  \A a \in users :
    /\ Cardinality(AccountsOf(a)) \in {0, IF site[a] = "service" THEN 2 ELSE 1}
    /\ At(a, "done") /\ AccountsOf(a) = {} => site[a] = "service" /\ a \in unmade

\* A registration runs into a unique index, and is answered with an internal error
\* instead of a conflict, only if it raced with another one, or if
\* auth-service is given the National ID of a user with another e-mail address.
ClashOnlyByRace ==
  \A a \in clashed :
    \/ \E b \in users : {a, b} \in met /\ (SameEmail(a, b) \/ SamePerson(a, b))
    \/ site[a] = "service" /\ \E b \in users : SamePerson(a, b) /\ ~SameEmail(a, b)
=============================================================================

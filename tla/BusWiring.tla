----------------------------- MODULE BusWiring -----------------------------
(***************************************************************************)
(* Who subscribes to the in-process event bus.  event-bus.ts imports the   *)
(* audit and the notification service to subscribe them in the constructor *)
(* of its singleton; both import event-bus.ts.  Modules are evaluated once *)
(* each, depth first: a module's body runs when its imports have been      *)
(* evaluated or are being evaluated, and a constant it exports is bound    *)
(* when its body has run; reading one that is not bound throws.            *)
(***************************************************************************)
EXTENDS Naturals, Sequences

\* event-bus.ts, audit.service.ts, notification.service.ts.
Modules == {"bus", "audit", "notification"}
Consumers == {"audit", "notification"}

VARIABLES
  stack,      \* the modules being evaluated, the one that runs last
  bound,      \* the modules whose body has run, so that their export is bound
  claimed,    \* the services with isSubscribed = true
  listeners   \* the services that listen on the bus

wiringVars == <<stack, bound, claimed, listeners>>

\* The import statements of a module, in order.
Imports(m) == IF m = "bus" THEN <<"audit", "notification">> ELSE <<"bus">>

Visited(m) == m \in bound \/ \E i \in DOMAIN stack : stack[i] = m

Running == stack[Len(stack)]

\* Whatever module of the cycle a route or the worker imports first.
WiringInit ==
  /\ \E m \in Modules : stack = <<m>>
  /\ bound = {}
  /\ claimed = {}
  /\ listeners = {}

\* The first import that has not been visited is evaluated next.
Link ==
  /\ stack # <<>>
  /\ \E i \in DOMAIN Imports(Running) :
       /\ ~Visited(Imports(Running)[i])
       /\ \A j \in 1 .. i - 1 : Visited(Imports(Running)[j])
       /\ stack' = Append(stack, Imports(Running)[i])
  /\ UNCHANGED <<bound, claimed, listeners>>

\* initConsumer takes the flag first; then it reads eventBus, which throws as
\* long as the body of event-bus.ts runs.
InitConsumers(ready) ==
  /\ claimed' = IF "audit" \notin ready THEN claimed
                ELSE IF "bus" \notin ready THEN claimed \cup {"audit"}
                ELSE claimed \cup (Consumers \cap ready)
  /\ listeners' = IF "bus" \in ready /\ "audit" \in ready
                    THEN listeners \cup (Consumers \cap ready)
                    ELSE listeners

RunBody ==
  /\ stack # <<>>
  /\ \A i \in DOMAIN Imports(Running) : Visited(Imports(Running)[i])
  /\ bound' = bound \cup {Running}
  /\ stack' = SubSeq(stack, 1, Len(stack) - 1)
  /\ IF Running = "bus" THEN InitConsumers(bound)
                        ELSE UNCHANGED <<claimed, listeners>>

WiringNext == Link \/ RunBody

WiringSpec == WiringInit /\ [][WiringNext]_wiringVars
=============================================================================

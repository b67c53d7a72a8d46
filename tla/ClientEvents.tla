---------------------------- MODULE ClientEvents ----------------------------
(***************************************************************************)
(* The event emitter of the client and the gateway that subscribes to the  *)
(* contract's StoreUpdated while somebody listens to addToLogStore         *)
(* (client/src/events.ts, client/src/registry/LogStoreRegistry.ts).        *)
(*                                                                         *)
(* An emission calls the listeners it found in the order they were added,  *)
(* and each of them may itself add and remove listeners before it returns  *)
(* or throws.  The contract's events are handed over in tasks of their     *)
(* own, so one may still be scheduled when the producer is taken off.      *)
(***************************************************************************)
EXTENDS Integers, FiniteSets

CONSTANTS
    Listeners,          \* the callbacks of the application
    Other,              \* an event without a gateway
    MaxRegistrations,   \* bound of the model: calls of on and once
    MaxEvents           \* bound of the model: events of the contract

Gateway == "addToLogStore"

ASSUME EventsAssumption ==
    /\ Other # Gateway
    /\ MaxRegistrations \in Nat
    /\ MaxEvents \in Nat

VARIABLES
    registered,       \* the delegate's listeners of each event
    registrations,    \* how many there ever were: they are numbered
    producer,         \* the gateway's producer, 0 when undefined
    starts,           \* how many producers were started: they are numbered
    subscribed,       \* the producers that are on the contract
    events,           \* how many events the contract emitted
    scheduled,        \* the tasks that will call a producer
    rest,             \* the listeners that the emission under way still has to call
    running,          \* the registration whose callback runs, or NoEntry
    threw             \* a once-listener threw and none was added since

emitterVars == <<registered, registrations>>
gatewayVars == <<producer, starts, subscribed>>
taskVars == <<events, scheduled>>
emissionVars == <<rest, running, threw>>
eventVars == <<emitterVars, gatewayVars, taskVars, emissionVars>>

NoEntry == [id |-> 0, fn |-> "none", once |-> FALSE]

-----------------------------------------------------------------------------
\* Mutant: the gateway stops when any listener is removed.
StopsAtAnyRemoval(left) == TRUE
\* Mutant: a once-listener that returns does not say that it is gone.
LeavesSilently(entry) == FALSE

-----------------------------------------------------------------------------
NobodyLeft(left) == left = {}
TellsRemoval(entry) == entry.once

\* The observer's addEventListener: the gateway starts unless it runs.
AfterAdd(e) ==
    IF e = Gateway /\ producer = 0
    THEN /\ starts' = starts + 1
         /\ producer' = starts + 1
         /\ subscribed' = subscribed \cup {starts + 1}
    ELSE UNCHANGED gatewayVars

\* The observer's removeEventListener, when `left` are the listeners of e.
AfterRemove(e, left) ==
    IF e = Gateway /\ producer # 0 /\ NobodyLeft(left)
    THEN /\ subscribed' = subscribed \ {producer}
         /\ producer' = 0
         /\ UNCHANGED starts
    ELSE UNCHANGED gatewayVars

\* Code of the application runs in a listener, or when no emission is under way.
MayCall == running # NoEntry \/ rest = {}

Register(e, f, once) ==
    /\ MayCall
    /\ registrations < MaxRegistrations
    /\ registrations' = registrations + 1
    /\ registered' = [registered EXCEPT
           ![e] = @ \cup {[id |-> registrations + 1, fn |-> f, once |-> once]}]
    /\ AfterAdd(e)
    /\ threw' = (threw /\ e # Gateway)
    /\ UNCHANGED <<taskVars, rest, running>>

On(e, f) == Register(e, f, FALSE)
Once(e, f) == Register(e, f, TRUE)

\* off removes every registration of the callback but not the wrapper that
\* once registered in its place; the observer is told in either case.
Off(e, f) ==
    LET left == {r \in registered[e] : r.once \/ r.fn # f} IN
    /\ MayCall
    /\ registered' = [registered EXCEPT ![e] = left]
    /\ AfterRemove(e, left)
    /\ UNCHANGED <<registrations, taskVars, emissionVars>>

\* destroy() of the client: the observer is told of the events that had listeners.
Destroy ==
    /\ MayCall
    /\ registered' = [e \in {Gateway, Other} |-> {}]
    /\ IF registered[Gateway] # {} THEN AfterRemove(Gateway, {}) ELSE UNCHANGED gatewayVars
    /\ UNCHANGED <<registrations, taskVars, emissionVars>>

\* The contract emits StoreUpdated: a task of its own for each producer on it.
ContractEmits ==
    /\ events < MaxEvents
    /\ events' = events + 1
    /\ scheduled' = scheduled + Cardinality(subscribed)
    /\ UNCHANGED <<emitterVars, gatewayVars, emissionVars>>

\* A scheduled task runs: the emitter takes the listeners that are there now.
Deliver ==
    /\ running = NoEntry /\ rest = {} /\ scheduled > 0
    /\ scheduled' = scheduled - 1
    /\ rest' = registered[Gateway]
    /\ UNCHANGED <<emitterVars, gatewayVars, events, running, threw>>

\* The delegate calls the next listener; one of once leaves it before it is called.
CallNext ==
    /\ running = NoEntry
    /\ \E entry \in rest :
         /\ \A r \in rest : entry.id <= r.id
         /\ rest' = rest \ {entry}
         /\ running' = entry
         /\ registered' = IF entry.once
                          THEN [registered EXCEPT ![Gateway] = @ \ {entry}]
                          ELSE registered
    /\ UNCHANGED <<registrations, gatewayVars, taskVars, threw>>

\* The listener returns: the wrapper of once tells the observer.
ListenerReturns ==
    /\ running # NoEntry
    /\ running' = NoEntry
    /\ IF TellsRemoval(running)
       THEN AfterRemove(Gateway, registered[Gateway])
       ELSE UNCHANGED gatewayVars
    /\ UNCHANGED <<emitterVars, taskVars, rest, threw>>

\* The listener throws: the emission ends, and a wrapper of once does not go on.
ListenerThrows ==
    /\ running # NoEntry
    /\ running' = NoEntry
    /\ rest' = {}
    /\ threw' = (threw \/ running.once)
    /\ UNCHANGED <<emitterVars, gatewayVars, taskVars>>

-----------------------------------------------------------------------------
EventsInit ==
    /\ registered = [e \in {Gateway, Other} |-> {}]
    /\ registrations = 0
    /\ producer = 0 /\ starts = 0 /\ subscribed = {}
    /\ events = 0 /\ scheduled = 0
    /\ rest = {} /\ running = NoEntry
    /\ threw = FALSE

EventsNext ==
    \/ \E e \in {Gateway, Other}, f \in Listeners : On(e, f) \/ Once(e, f) \/ Off(e, f)
    \/ Destroy
    \/ ContractEmits
    \/ Deliver
    \/ CallNext
    \/ ListenerReturns
    \/ ListenerThrows

EventsSpec == EventsInit /\ [][EventsNext]_eventVars

-----------------------------------------------------------------------------
\* "The gateway is running when there are any listeners" (events.ts:74-78): as
\* long as somebody listens exactly one producer is on the contract, whatever
\* listeners add and remove while they are called.
GatewayServesListeners ==
    registered[Gateway] # {} => producer # 0 /\ subscribed = {producer}

\* The gateway keeps nothing on the contract when nobody listens, except while
\* a once-listener runs, or after one that threw was not followed by another.
GatewayStopsWhenIdle ==
    registered[Gateway] = {} /\ ~ running.once /\ ~ threw =>
        producer = 0 /\ subscribed = {}

=============================================================================

---------------------------- MODULE ClientProofs ----------------------------
(***************************************************************************)
(* Proofs about the components of the client, one after the other: they    *)
(* share no state and no lemma.                                            *)
(***************************************************************************)
EXTENDS ClientEvents, SharedCalls, IndexingState, OrderedCalls, HttpQueries, StoredStreams, FoldLemmas, SequenceTheorems, TLAPS

(***************************************************************************)
(* The gateway of the client's events, for any set of listeners and any    *)
(* number of registrations and events of the contract.  What makes the two *)
(* properties inductive is that the contract has the gateway's producer    *)
(* and no other: a producer that was left behind could not be told apart   *)
(* from the one that is to be taken off.                                   *)
(***************************************************************************)

\* The producer that is started is the one that is on the contract.
OneProducer ==
    /\ starts \in Nat /\ producer \in Nat
    /\ subscribed = IF producer = 0 THEN {} ELSE {producer}

EventsInv ==
    /\ DOMAIN registered = {Gateway, Other}
    /\ registered = [e \in {Gateway, Other} |-> registered[e]]
    /\ OneProducer
    /\ registered[Gateway] # {} => producer # 0
    /\ registered[Gateway] = {} /\ ~ running.once /\ ~ threw => producer = 0

-----------------------------------------------------------------------------
(* The observer. *)

\* Starting the gateway leaves it with one producer.
LEMMA AddStarts ==
    ASSUME OneProducer, AfterAdd(Gateway)
    PROVE  OneProducer' /\ producer' # 0
  BY DEF OneProducer, AfterAdd, gatewayVars

\* A removal stops the gateway exactly when no listener stays.
LEMMA RemoveStops ==
    ASSUME NEW staying, OneProducer, AfterRemove(Gateway, staying)
    PROVE  /\ OneProducer'
           /\ staying = {} => producer' = 0
           /\ staying # {} => producer' = producer
  BY DEF OneProducer, AfterRemove, NobodyLeft, gatewayVars

\* What happens to the other event leaves the gateway alone.
LEMMA OtherIsLeftAlone ==
    ASSUME NEW staying, AfterAdd(Other) \/ AfterRemove(Other, staying)
    PROVE  UNCHANGED gatewayVars
  BY EventsAssumption DEF AfterAdd, AfterRemove

-----------------------------------------------------------------------------
LEMMA EventsInitInv == EventsInit => EventsInv
  BY DEF EventsInit, EventsInv, OneProducer, NoEntry

\* A new listener: its event has one now.
LEMMA RegisterKeeps ==
    ASSUME NEW e \in {Gateway, Other}, NEW f, NEW once, EventsInv, Register(e, f, once)
    PROVE  EventsInv'
  <1>1. registered'[e] # {}
    BY DEF EventsInv, Register
  <1>2. /\ DOMAIN registered' = {Gateway, Other}
        /\ registered' = [d \in {Gateway, Other} |-> registered'[d]]
    BY DEF EventsInv, Register
  <1>3. CASE e = Gateway
    BY <1>1, <1>2, <1>3, AddStarts DEF EventsInv, Register
  <1>4. CASE e = Other
    <2>1. UNCHANGED gatewayVars
      BY <1>4, OtherIsLeftAlone DEF Register
    <2>2. registered'[Gateway] = registered[Gateway] /\ running' = running
      BY <1>4, EventsAssumption DEF EventsInv, Register
    <2>3. ~ threw' => ~ threw
      BY <1>4, EventsAssumption DEF Register
    <2> QED
      BY <1>2, <2>1, <2>2, <2>3 DEF EventsInv, OneProducer, gatewayVars
  <1> QED
    BY <1>3, <1>4

\* A removal of a callback's registrations.
LEMMA OffKeeps ==
    ASSUME NEW e \in {Gateway, Other}, NEW f, EventsInv, Off(e, f)
    PROVE  EventsInv'
  <1> DEFINE staying == {r \in registered[e] : r.once \/ r.fn # f}
  <1>1. /\ registered' = [registered EXCEPT ![e] = staying]
        /\ AfterRemove(e, staying)
        /\ running' = running /\ threw' = threw
    BY DEF Off, emissionVars
  <1>2. staying \subseteq registered[e]
    OBVIOUS
  <1> HIDE DEF staying
  <1>3. /\ DOMAIN registered' = {Gateway, Other}
        /\ registered' = [d \in {Gateway, Other} |-> registered'[d]]
    BY <1>1 DEF EventsInv
  <1>4. CASE e = Gateway
    <2>1. registered'[Gateway] = staying
      BY <1>1, <1>4 DEF EventsInv
    <2> QED
      BY <1>1, <1>2, <1>3, <1>4, <2>1, RemoveStops DEF EventsInv
  <1>5. CASE e = Other
    <2>1. UNCHANGED gatewayVars
      BY <1>1, <1>5, OtherIsLeftAlone
    <2>2. registered'[Gateway] = registered[Gateway]
      BY <1>1, <1>5, EventsAssumption DEF EventsInv
    <2> QED
      BY <1>1, <1>3, <2>1, <2>2 DEF EventsInv, OneProducer, gatewayVars
  <1> QED
    BY <1>4, <1>5

\* Destroying the client: a gateway that runs has a listener, or a callback of
\* once is running, or one threw.
LEMMA DestroyKeeps == EventsInv /\ Destroy => EventsInv'
  <1> SUFFICES ASSUME EventsInv, Destroy PROVE EventsInv'
    OBVIOUS
  <1>1. /\ registered' = [e \in {Gateway, Other} |-> {}]
        /\ running' = running /\ threw' = threw
    BY DEF Destroy, emissionVars
  <1>2. CASE registered[Gateway] # {}
    BY <1>1, <1>2, RemoveStops DEF EventsInv, Destroy
  <1>3. CASE registered[Gateway] = {}
    BY <1>1, <1>3 DEF EventsInv, Destroy, OneProducer, gatewayVars
  <1> QED
    BY <1>2, <1>3

\* The delegate calls the next listener, which may be one of once.
LEMMA CallNextKeeps == EventsInv /\ CallNext => EventsInv'
  <1> SUFFICES ASSUME EventsInv, NEW entry \in rest, running = NoEntry,
                      running' = entry,
                      registered' = IF entry.once
                                    THEN [registered EXCEPT ![Gateway] = @ \ {entry}]
                                    ELSE registered,
                      UNCHANGED <<registrations, gatewayVars, taskVars, threw>>
               PROVE  EventsInv'
    BY DEF CallNext
  <1>1. OneProducer' /\ producer' = producer
    BY DEF EventsInv, OneProducer, gatewayVars
  <1>2. CASE entry.once
    BY <1>1, <1>2 DEF EventsInv
  <1>3. CASE ~ entry.once
    <2>1. registered' = registered /\ ~ running'.once /\ ~ running.once
      BY <1>3 DEF NoEntry
    <2> QED
      BY <1>1, <2>1 DEF EventsInv
  <1> QED
    BY <1>2, <1>3

\* A listener returns: the gateway is told of one of once that is gone.
LEMMA ReturnKeeps == EventsInv /\ ListenerReturns => EventsInv'
  <1> SUFFICES ASSUME EventsInv, ListenerReturns PROVE EventsInv'
    OBVIOUS
  <1>1. registered' = registered /\ threw' = threw /\ ~ running'.once
    BY DEF ListenerReturns, emitterVars, NoEntry
  <1>2. CASE running.once
    BY <1>1, <1>2, RemoveStops DEF EventsInv, ListenerReturns, TellsRemoval
  <1>3. CASE ~ running.once
    BY <1>1, <1>3 DEF EventsInv, OneProducer, ListenerReturns, TellsRemoval, gatewayVars
  <1> QED
    BY <1>2, <1>3

\* A listener throws: the gateway hears nothing of it.
LEMMA ThrowKeeps == EventsInv /\ ListenerThrows => EventsInv'
  BY DEF EventsInv, OneProducer, ListenerThrows, emitterVars, gatewayVars, NoEntry

LEMMA EventsStepKeeps == EventsInv /\ [EventsNext]_eventVars => EventsInv'
  <1> SUFFICES ASSUME EventsInv, [EventsNext]_eventVars PROVE EventsInv'
    OBVIOUS
  <1>1. ASSUME NEW e \in {Gateway, Other}, NEW f \in Listeners, On(e, f) \/ Once(e, f)
        PROVE  EventsInv'
    BY <1>1, RegisterKeeps DEF On, Once
  <1>2. ASSUME NEW e \in {Gateway, Other}, NEW f \in Listeners, Off(e, f)
        PROVE  EventsInv'
    BY <1>2, OffKeeps
  <1>3. CASE ContractEmits \/ Deliver
    BY <1>3 DEF EventsInv, OneProducer, ContractEmits, Deliver, emitterVars, gatewayVars,
                emissionVars
  <1>4. CASE UNCHANGED eventVars
    BY <1>4 DEF EventsInv, OneProducer, eventVars, emitterVars, gatewayVars, emissionVars
  <1> QED
    BY <1>1, <1>2, <1>3, <1>4, DestroyKeeps, CallNextKeeps, ReturnKeeps, ThrowKeeps
    DEF EventsNext

\* The inductive invariant of the emitter and its gateway.
THEOREM EventsInvariant == EventsSpec => []EventsInv
  BY EventsInitInv, EventsStepKeeps, PTL DEF EventsSpec

\* While anybody listens to the event exactly one producer is on the contract,
\* for any number of listeners that add and remove each other.
THEOREM GatewayServes == EventsSpec => []GatewayServesListeners
  <1>1. EventsInv => GatewayServesListeners
    BY DEF EventsInv, OneProducer, GatewayServesListeners
  <1> QED
    BY <1>1, EventsInvariant, PTL

\* When nobody listens nothing of the gateway is left on the contract, unless
\* a callback of once is running or has thrown.
THEOREM GatewayStops == EventsSpec => []GatewayStopsWhenIdle
  <1>1. EventsInv => GatewayStopsWhenIdle
    BY DEF EventsInv, OneProducer, GatewayStopsWhenIdle
  <1> QED
    BY <1>1, EventsInvariant, PTL

-----------------------------------------------------------------------------
(***************************************************************************)
(* One outstanding call of pOne, for any number of callers and of call     *)
(* objects.  The function of a call runs exactly while the call is         *)
(* pending, and as long as no reset met a call that was pending, only the  *)
(* current one can be.                                                     *)
(***************************************************************************)

SharedTypeOK ==
    /\ currentCall \in CallIds
    /\ status \in [CallIds -> {"init", "pending"} \cup Settlements]
    /\ underway \in [CallIds -> {0, 1}]
    /\ joined \in [Callers -> 0 .. MaxCalls]

\* A call runs while it is pending; those that were not created yet are initial.
RunsWhilePending ==
    /\ \A k \in CallIds : underway[k] = 1 <=> status[k] = "pending"
    /\ \A k \in CallIds : k > currentCall => status[k] = "init"

\* A caller has joined a call that was created.
JoinedCreated == \A c \in Callers : joined[c] <= currentCall

\* Unless a call was replaced while it ran, only the current one is pending.
OnlyCurrentRuns ==
    ~ replaced => \A k \in CallIds : status[k] = "pending" => k = currentCall

SharedInv == SharedTypeOK /\ RunsWhilePending /\ JoinedCreated /\ OnlyCurrentRuns

-----------------------------------------------------------------------------
LEMMA SharedInitInv == SharedInit => SharedInv
  BY CallsAssumption
  DEF SharedInit, SharedInv, SharedTypeOK, RunsWhilePending, JoinedCreated,
      OnlyCurrentRuns, CallIds

\* A caller joins the current call, which starts if it is the first one.
LEMMA CallKeeps ==
    ASSUME NEW c \in Callers, SharedInv, Call(c)
    PROVE  SharedInv'
  <1>1. /\ currentCall' = currentCall /\ replaced' = replaced
        /\ joined' = [joined EXCEPT ![c] = currentCall]
    BY DEF Call
  <1>2. currentCall \in 0 .. MaxCalls
    BY CallsAssumption DEF SharedInv, SharedTypeOK, CallIds
  <1>3. joined' \in [Callers -> 0 .. MaxCalls] /\ JoinedCreated'
    BY <1>1, <1>2 DEF SharedInv, SharedTypeOK, JoinedCreated
  <1>4. CASE status[currentCall] = "init"
    <2>1. /\ status' = [status EXCEPT ![currentCall] = "pending"]
          /\ underway' = [underway EXCEPT ![currentCall] = @ + 1]
          /\ underway[currentCall] = 0
      BY <1>4 DEF Call, MustStart, SharedInv, SharedTypeOK, RunsWhilePending
    <2>2. SharedTypeOK'
      BY <1>1, <1>3, <2>1 DEF SharedInv, SharedTypeOK
    <2>3. RunsWhilePending' /\ OnlyCurrentRuns'
      BY <1>1, <2>1, CallsAssumption
      DEF SharedInv, SharedTypeOK, RunsWhilePending, OnlyCurrentRuns, CallIds
    <2> QED
      BY <1>3, <2>2, <2>3 DEF SharedInv
  <1>5. CASE status[currentCall] # "init"
    <2>1. UNCHANGED <<status, underway>>
      BY <1>5 DEF Call, MustStart
    <2> QED
      BY <1>1, <1>3, <2>1
      DEF SharedInv, SharedTypeOK, RunsWhilePending, OnlyCurrentRuns
  <1> QED
    BY <1>4, <1>5

\* The function of a call that runs comes to its end.
LEMMA SettleKeeps ==
    ASSUME NEW k \in CallIds, NEW outcome \in Settlements, SharedInv, Settle(k, outcome)
    PROVE  SharedInv'
  <1>1. /\ status' = [status EXCEPT ![k] = outcome]
        /\ underway' = [underway EXCEPT ![k] = @ - 1]
        /\ underway[k] = 1 /\ status[k] = "pending"
        /\ UNCHANGED <<currentCall, joined, replaced>>
    BY DEF Settle, SharedInv, SharedTypeOK, RunsWhilePending
  <1>2. outcome # "pending"
    BY DEF Settlements
  <1>3. k <= currentCall
    BY <1>1 DEF SharedInv, SharedTypeOK, RunsWhilePending, CallIds
  <1> QED
    BY <1>1, <1>2, <1>3
    DEF SharedInv, SharedTypeOK, RunsWhilePending, JoinedCreated, OnlyCurrentRuns, CallIds

\* A caller returns, perhaps late: the call that is replaced is the current one.
LEMMA SharedReturnKeeps ==
    ASSUME NEW c \in Callers, SharedInv, ReturnOne(c)
    PROVE  SharedInv'
  <1>1. /\ currentCall' = currentCall + 1 /\ currentCall < MaxCalls
        /\ replaced' = (replaced \/ status[currentCall] = "pending")
        /\ UNCHANGED <<status, underway, joined>>
    BY DEF ReturnOne, Reset
  <1>2. SharedTypeOK' /\ JoinedCreated'
    BY <1>1, CallsAssumption DEF SharedInv, SharedTypeOK, JoinedCreated, CallIds
  <1>3. RunsWhilePending'
    BY <1>1 DEF SharedInv, SharedTypeOK, RunsWhilePending, CallIds
  <1>4. ~ replaced' => ~ replaced /\ status[currentCall] # "pending"
    BY <1>1, Zenon
  <1>5. OnlyCurrentRuns'
    BY <1>1, <1>4 DEF SharedInv, OnlyCurrentRuns
  <1> QED
    BY <1>2, <1>3, <1>5 DEF SharedInv

LEMMA SharedStepKeeps == SharedInv /\ [SharedNext]_sharedVars => SharedInv'
  <1> SUFFICES ASSUME SharedInv, [SharedNext]_sharedVars PROVE SharedInv'
    OBVIOUS
  <1>1. CASE SharedNext
    BY <1>1, CallKeeps, SettleKeeps, SharedReturnKeeps DEF SharedNext
  <1>2. CASE UNCHANGED sharedVars
    BY <1>2 DEF sharedVars, SharedInv, SharedTypeOK, RunsWhilePending, JoinedCreated,
                OnlyCurrentRuns
  <1> QED
    BY <1>1, <1>2

\* The inductive invariant of the shared calls.
THEOREM SharedInvariant == SharedSpec => []SharedInv
  BY SharedInitInv, SharedStepKeeps, PTL DEF SharedSpec

\* The function runs once at a time unless a late return replaced a call that
\* ran, for any number of callers and of resets.
THEOREM CallsOneAtATime == SharedSpec => []OneOutstanding
  <1>1. SharedInv => OneOutstanding
    BY DEF SharedInv, SharedTypeOK, RunsWhilePending, OnlyCurrentRuns, OneOutstanding
  <1> QED
    BY <1>1, SharedInvariant, PTL

-----------------------------------------------------------------------------
(***************************************************************************)
(* Proofs about IndexingState: for every number of calls and of polling    *)
(* loops, a query is sent only up to date, no gate is left behind by a     *)
(* poll, and while no poll failed some loop polls for the gates.           *)
(***************************************************************************)

\* No number the client knows or is being sent is ahead of The Graph: what
\* makes an open gate mean that the block is indexed.
NothingAhead ==
    /\ blockNumber <= indexed
    /\ \A l \in Loops : answer[l] <= indexed

\* The inductive invariant.
IndexingInv ==
    /\ IndexingTypeOK
    /\ NothingAhead
    /\ QueriesAreUpToDate
    /\ NoGateForgotten
    /\ SomeLoopPolls

\* The client starts with no gates and nothing indexed.
LEMMA IndexingInvInit == IndexingInit => IndexingInv
  BY MaxBlockAssumption, MaxFailuresAssumption
  DEF IndexingInit, IndexingInv, IndexingTypeOK, NothingAhead, QueriesAreUpToDate,
      NoGateForgotten, SomeLoopPolls, Blocks

\* Calls that come, are let through at once, give up or return.
LEMMA CallStep ==
    ASSUME IndexingInv, NEW c \in Calls, StartQuery(c) \/ TimeOut(c) \/ Return(c)
    PROVE  IndexingInv'
  <1> USE DEF IndexingInv
  <1>1. CASE StartQuery(c) /\ MustWait(requiredBlockNumber)
    <2> USE <1>1 DEF StartQuery, MustWait
    <2>1. IndexingTypeOK' BY DEF IndexingTypeOK, loopVars, graphVars
    <2>2. NothingAhead' BY DEF NothingAhead, graphVars
    <2>3. QueriesAreUpToDate'
      BY DEF IndexingTypeOK, QueriesAreUpToDate, graphVars
    <2>4. NoGateForgotten' BY DEF IndexingTypeOK, NoGateForgotten
    <2>5. SomeLoopPolls'
      BY DEF IndexingTypeOK, SomeLoopPolls, NotPolling, graphVars
    <2>6. QED BY <2>1, <2>2, <2>3, <2>4, <2>5
  <1>2. CASE StartQuery(c) /\ ~MustWait(requiredBlockNumber)
    <2> USE <1>2 DEF StartQuery, MustWait
    <2>1. IndexingTypeOK' BY DEF IndexingTypeOK, loopVars, graphVars
    <2>2. NothingAhead' BY DEF NothingAhead, graphVars
    <2>3. QueriesAreUpToDate'
      BY DEF IndexingTypeOK, QueriesAreUpToDate, NothingAhead, Blocks, graphVars
    <2>4. NoGateForgotten' BY DEF IndexingTypeOK, NoGateForgotten
    <2>5. SomeLoopPolls' BY DEF SomeLoopPolls, graphVars
    <2>6. QED BY <2>1, <2>2, <2>3, <2>4, <2>5
  <1>3. CASE TimeOut(c)
    <2> USE <1>3 DEF TimeOut, loopVars, graphVars
    <2>1. IndexingTypeOK' BY DEF IndexingTypeOK
    <2>2. NothingAhead' BY DEF NothingAhead
    <2>3. QueriesAreUpToDate' BY DEF IndexingTypeOK, QueriesAreUpToDate
    <2>4. NoGateForgotten' BY DEF IndexingTypeOK, NoGateForgotten
    <2>5. SomeLoopPolls' BY DEF SomeLoopPolls
    <2>6. QED BY <2>1, <2>2, <2>3, <2>4, <2>5
  <1>4. CASE Return(c)
    <2> USE <1>4 DEF Return, loopVars, graphVars
    <2>1. IndexingTypeOK' BY DEF IndexingTypeOK
    <2>2. NothingAhead' BY DEF NothingAhead
    <2>3. QueriesAreUpToDate' BY DEF IndexingTypeOK, QueriesAreUpToDate
    <2>4. NoGateForgotten' BY DEF IndexingTypeOK, NoGateForgotten
    <2>5. SomeLoopPolls' BY DEF SomeLoopPolls
    <2>6. QED BY <2>1, <2>2, <2>3, <2>4, <2>5
  <1>5. QED BY <1>1, <1>2, <1>3, <1>4

\* The gates a poll opens are those it reached; the others are above it, also
\* when the answer is older than the last one.
LEMMA PollStep ==
    ASSUME IndexingInv, NEW l \in Loops, PollReturns(l)
    PROVE  IndexingInv'
  <1> USE DEF IndexingInv, PollReturns
  <1>1. answer[l] \in Blocks /\ answer[l] <= indexed /\ answer[l] \in Int
    BY DEF IndexingTypeOK, NothingAhead, Blocks
  <1>2. gates' \subseteq gates
    BY DEF StillClosed
  <1>3. \A c \in gates' : gateBlock[c] > answer[l]
    BY <1>1, MaxBlockAssumption
    DEF StillClosed, Reached, NoGateForgotten, IndexingTypeOK, Blocks
  <1>4. \A c \in gates \ gates' : gateBlock[c] <= answer[l]
    BY DEF StillClosed, Reached
  <1>5. loop' \in [Loops -> {"off", "polling", "answered", "sleeping"}]
    BY DEF IndexingTypeOK, NextPoll
  <1>6. call' \in [Calls -> {"idle", "waiting", "passed", "timedOut"}]
    BY DEF IndexingTypeOK
  <1>7. IndexingTypeOK'
    BY <1>1, <1>2, <1>5, <1>6 DEF IndexingTypeOK, graphVars
  <1>8. NothingAhead'
    BY <1>1 DEF NothingAhead, graphVars
  <1>9. QueriesAreUpToDate'
    BY <1>1, <1>4, MaxBlockAssumption
    DEF QueriesAreUpToDate, IndexingTypeOK, Blocks, graphVars
  <1>10. NoGateForgotten'
    BY <1>2, <1>3 DEF NoGateForgotten, IndexingTypeOK
  <1>11. SomeLoopPolls'
    BY <1>2 DEF SomeLoopPolls, NextPoll, IndexingTypeOK, graphVars
  <1>12. QED BY <1>7, <1>8, <1>9, <1>10, <1>11

\* Every other step of a loop and of The Graph.
LEMMA LoopOrGraphStep ==
    ASSUME IndexingInv,
           \/ \E l \in Loops : Answer(l) \/ Wake(l) \/ PollFails(l)
           \/ IndexBlock
    PROVE  IndexingInv'
  <1> USE MaxBlockAssumption, MaxFailuresAssumption DEF IndexingInv
  <1>1. ASSUME NEW l \in Loops, Answer(l) PROVE IndexingInv'
    <2> USE <1>1 DEF Answer, clientVars, graphVars
    <2>1. IndexingTypeOK' BY DEF IndexingTypeOK
    <2>2. NothingAhead' BY DEF IndexingTypeOK, NothingAhead, Blocks
    <2>3. QueriesAreUpToDate' /\ NoGateForgotten'
      BY DEF QueriesAreUpToDate, NoGateForgotten
    <2>4. SomeLoopPolls' BY DEF IndexingTypeOK, SomeLoopPolls
    <2>5. QED BY <2>1, <2>2, <2>3, <2>4
  <1>2. ASSUME NEW l \in Loops, Wake(l) PROVE IndexingInv'
    <2> USE <1>2 DEF Wake, clientVars, graphVars
    <2>1. IndexingTypeOK' BY DEF IndexingTypeOK
    <2>2. NothingAhead' BY DEF NothingAhead
    <2>3. QueriesAreUpToDate' /\ NoGateForgotten'
      BY DEF QueriesAreUpToDate, NoGateForgotten
    <2>4. SomeLoopPolls' BY DEF IndexingTypeOK, SomeLoopPolls
    <2>5. QED BY <2>1, <2>2, <2>3, <2>4
  <1>3. ASSUME NEW l \in Loops, PollFails(l) PROVE IndexingInv'
    <2> USE <1>3 DEF PollFails, clientVars
    <2>1. IndexingTypeOK' BY DEF IndexingTypeOK
    <2>2. NothingAhead' BY DEF NothingAhead
    <2>3. QueriesAreUpToDate' /\ NoGateForgotten'
      BY DEF QueriesAreUpToDate, NoGateForgotten
    <2>4. SomeLoopPolls' BY DEF IndexingTypeOK, SomeLoopPolls
    <2>5. QED BY <2>1, <2>2, <2>3, <2>4
  <1>4. ASSUME IndexBlock PROVE IndexingInv'
    <2> USE <1>4 DEF IndexBlock, clientVars, loopVars
    <2>1. IndexingTypeOK' BY DEF IndexingTypeOK, Blocks
    <2>2. NothingAhead' BY DEF IndexingTypeOK, NothingAhead, Blocks
    <2>3. QueriesAreUpToDate' BY DEF IndexingTypeOK, QueriesAreUpToDate, Blocks
    <2>4. NoGateForgotten' /\ SomeLoopPolls' BY DEF NoGateForgotten, SomeLoopPolls
    <2>5. QED BY <2>1, <2>2, <2>3, <2>4
  <1>5. QED BY <1>1, <1>2, <1>3, <1>4

LEMMA IndexingInvStep == IndexingInv /\ [IndexingNext]_indexingVars => IndexingInv'
  <1> SUFFICES ASSUME IndexingInv, [IndexingNext]_indexingVars PROVE IndexingInv'
    OBVIOUS
  <1>1. ASSUME NEW b \in Blocks, UpdateRequiredBlockNumber(b) PROVE IndexingInv'
    BY <1>1
    DEF UpdateRequiredBlockNumber, Required, loopVars, graphVars, IndexingInv,
        IndexingTypeOK, NothingAhead, QueriesAreUpToDate, NoGateForgotten, SomeLoopPolls
  <1>2. CASE UNCHANGED indexingVars
    BY <1>2
    DEF indexingVars, clientVars, loopVars, graphVars, IndexingInv,
        IndexingTypeOK, NothingAhead, QueriesAreUpToDate, NoGateForgotten, SomeLoopPolls
  <1>3. QED
    BY <1>1, <1>2, CallStep, PollStep, LoopOrGraphStep DEF IndexingNext, LoopStep

\* The invariant of the client's calls, gates and polling loops.
THEOREM IndexingInvariant == IndexingSpec => []IndexingInv
  <1>1. QED
    BY IndexingInvInit, IndexingInvStep, PTL DEF IndexingSpec

\* The state keeps its type with any number of calls and loops.
THEOREM IndexingTypeCorrect == IndexingSpec => []IndexingTypeOK
  <1>1. IndexingInv => IndexingTypeOK
    BY DEF IndexingInv
  <1>2. QED
    BY <1>1, IndexingInvariant, PTL

\* sendQuery passes the gate only when The Graph has the block the call required.
THEOREM QueriesUpToDate == IndexingSpec => []QueriesAreUpToDate
  <1>1. IndexingInv => QueriesAreUpToDate
    BY DEF IndexingInv
  <1>2. QED
    BY <1>1, IndexingInvariant, PTL

\* A poll opens every gate it reached, whichever loop made it.
THEOREM GatesRemembered == IndexingSpec => []NoGateForgotten
  <1>1. IndexingInv => NoGateForgotten
    BY DEF IndexingInv
  <1>2. QED
    BY <1>1, IndexingInvariant, PTL

\* Gates are polled for until a poll fails.
THEOREM GatesPolledFor == IndexingSpec => []SomeLoopPolls
  <1>1. IndexingInv => SomeLoopPolls
    BY DEF IndexingInv
  <1>2. QED
    BY <1>1, IndexingInvariant, PTL

-----------------------------------------------------------------------------
(***************************************************************************)
(* OrderedCalls: results in the order of the calls.                        *)
(***************************************************************************)

\* In the calls s, c called before d; c called.
CalledBefore(s, c, d) == \E i, j \in DOMAIN s : i < j /\ s[i] = c /\ s[j] = d
HasCalled(s, c) == \E i \in DOMAIN s : s[i] = c

OrderedTyped ==
    /\ called \in Seq(OrderedCallers)
    /\ waiting \in Seq(OrderedCallers)
    /\ returned \in Seq(OrderedCallers)
    /\ task \in [OrderedCallers -> {"idle", "running", "threw", "settled"}]

\* Each calls once.
CallsOnce ==
    /\ \A i \in DOMAIN called : task[called[i]] # "idle"
    /\ \A i, j \in DOMAIN called : called[i] = called[j] => i = j

\* What was returned, what is taken and what waits, one after the other, are
\* callers in the order of their calls.
InCallOrder ==
    /\ \A i \in DOMAIN waiting : HasCalled(called, waiting[i])
    /\ taken # NoResult => taken \in OrderedCallers /\ HasCalled(called, taken)
    /\ \A i, j \in DOMAIN waiting : i < j => CalledBefore(called, waiting[i], waiting[j])
    /\ taken # NoResult => \A j \in DOMAIN waiting : CalledBefore(called, taken, waiting[j])
    /\ \A i \in DOMAIN returned, j \in DOMAIN waiting : CalledBefore(called, returned[i], waiting[j])
    /\ taken # NoResult => \A i \in DOMAIN returned : CalledBefore(called, returned[i], taken)
    /\ \A i, j \in DOMAIN returned : i < j => CalledBefore(called, returned[i], returned[j])

\* HasCalled of what was returned follows from neither, and is needed for the
\* calls that come later.
ReturnedCalled == \A i \in DOMAIN returned : HasCalled(called, returned[i])

OrderInv == OrderedTyped /\ CallsOnce /\ InCallOrder /\ ReturnedCalled

LEMMA OrderedInitially == OrderedInit => OrderInv
  BY DEF OrderedInit, OrderInv, OrderedTyped, CallsOnce, InCallOrder, ReturnedCalled,
         CalledBefore, HasCalled

\* A call is later than all before it, and leaves their order.
LEMMA CallKeepsOrder ==
    ASSUME OrderInv, NEW c \in OrderedCallers, CallOrdered(c)
    PROVE  OrderInv'
  <1> DEFINE n == Len(called)
             m == Len(waiting)
  <1>1. /\ called' = Append(called, c) /\ waiting' = Append(waiting, c)
        /\ taken' = taken /\ returned' = returned
        /\ task[c] = "idle"
        /\ \E t \in {"running", "threw"} : task' = [task EXCEPT ![c] = t]
    BY DEF CallOrdered
  <1>2. /\ n \in Nat /\ DOMAIN called = 1 .. n /\ DOMAIN called' = 1 .. n + 1
        /\ called'[n + 1] = c /\ \A i \in 1 .. n : called'[i] = called[i]
        /\ called' \in Seq(OrderedCallers)
    BY <1>1 DEF OrderInv, OrderedTyped
  <1>3. /\ m \in Nat /\ DOMAIN waiting = 1 .. m /\ DOMAIN waiting' = 1 .. m + 1
        /\ waiting'[m + 1] = c /\ \A i \in 1 .. m : waiting'[i] = waiting[i]
        /\ waiting' \in Seq(OrderedCallers)
    BY <1>1 DEF OrderInv, OrderedTyped
  <1> HIDE DEF n, m
  <1>4. OrderedTyped'
    BY <1>1, <1>2, <1>3 DEF OrderInv, OrderedTyped
  <1>5. CallsOnce'
    <2>1. \A i \in 1 .. n : called[i] # c
      BY <1>1, <1>2 DEF OrderInv, CallsOnce
    <2>2. \A i, j \in 1 .. n + 1 : called'[i] = called'[j] => i = j
      BY <1>2, <2>1 DEF OrderInv, CallsOnce
    <2>3. \A i \in 1 .. n + 1 : task'[called'[i]] # "idle"
      <3>1. \A i \in 1 .. n : called[i] \in OrderedCallers
        BY <1>2 DEF OrderInv, OrderedTyped
      <3>2. QED BY <1>1, <1>2, <2>1, <3>1 DEF OrderInv, OrderedTyped, CallsOnce
    <2>4. QED BY <1>2, <2>2, <2>3 DEF CallsOnce
  <1>6. \A x : HasCalled(called, x) => HasCalled(called', x) /\ CalledBefore(called', x, c)
    BY <1>2 DEF HasCalled, CalledBefore
  <1>7. \A x, y : CalledBefore(called, x, y) => CalledBefore(called', x, y)
    BY <1>2 DEF CalledBefore
  <1>8. HasCalled(called', c)
    BY <1>2 DEF HasCalled
  <1>9. InCallOrder'
    <2>1. \A i \in DOMAIN waiting' : HasCalled(called', waiting'[i])
      BY <1>3, <1>6, <1>8 DEF OrderInv, InCallOrder
    <2>2. \A i, j \in DOMAIN waiting' : i < j => CalledBefore(called', waiting'[i], waiting'[j])
      BY <1>3, <1>6, <1>7 DEF OrderInv, InCallOrder
    <2>3. taken # NoResult => \A j \in DOMAIN waiting' : CalledBefore(called', taken, waiting'[j])
      BY <1>3, <1>6, <1>7 DEF OrderInv, InCallOrder
    <2>4. \A i \in DOMAIN returned, j \in DOMAIN waiting' : CalledBefore(called', returned[i], waiting'[j])
      BY <1>3, <1>6, <1>7 DEF OrderInv, InCallOrder, ReturnedCalled
    <2>5. taken # NoResult => taken \in OrderedCallers /\ HasCalled(called', taken)
      BY <1>6 DEF OrderInv, InCallOrder
    <2>6. taken # NoResult => \A i \in DOMAIN returned : CalledBefore(called', returned[i], taken)
      BY <1>7 DEF OrderInv, InCallOrder
    <2>7. \A i, j \in DOMAIN returned : i < j => CalledBefore(called', returned[i], returned[j])
      BY <1>7 DEF OrderInv, InCallOrder
    <2>8. QED BY <1>1, <2>1, <2>2, <2>3, <2>4, <2>5, <2>6, <2>7 DEF InCallOrder
  <1>10. ReturnedCalled'
    BY <1>1, <1>6 DEF OrderInv, ReturnedCalled
  <1>11. QED BY <1>4, <1>5, <1>9, <1>10 DEF OrderInv

\* The queue takes its first entry, which called before the others.
LEMMA TakeKeepsOrder ==
    ASSUME OrderInv, Take
    PROVE  OrderInv'
  <1> DEFINE m == Len(waiting)
  <1>1. PICK i \in DOMAIN waiting :
            /\ waiting[i] = Head(waiting)
            /\ taken' = waiting[i]
            /\ waiting' = SubSeq(waiting, 1, i - 1) \o SubSeq(waiting, i + 1, Len(waiting))
    BY DEF Take, NextInQueue, RemoveAt
  <1>2. taken = NoResult /\ UNCHANGED <<called, task, returned, cleared>>
    BY DEF Take
  <1>3. m \in Nat /\ DOMAIN waiting = 1 .. m /\ waiting \in Seq(OrderedCallers)
    BY DEF OrderInv, OrderedTyped
  <1>4. m >= 1 /\ Head(waiting) = waiting[1]
    BY <1>1, <1>3
  <1>5. i = 1
    <2> SUFFICES ASSUME i # 1
                 PROVE  FALSE
      OBVIOUS
    <2>1. 1 \in DOMAIN waiting /\ 1 < i
      BY <1>1, <1>3, <1>4
    <2>2. CalledBefore(called, waiting[1], waiting[i])
      BY <2>1 DEF OrderInv, InCallOrder
    <2>3. PICK j, k \in DOMAIN called : j < k /\ called[j] = waiting[1] /\ called[k] = waiting[i]
      BY <2>2 DEF CalledBefore
    <2>4. called[j] = called[k] => j = k
      BY DEF OrderInv, CallsOnce
    <2>5. j < k /\ j \in Int
      BY <2>3 DEF OrderInv, OrderedTyped
    <2>6. QED BY <1>1, <1>4, <2>3, <2>4, <2>5
  <1>6. /\ waiting' \in Seq(OrderedCallers) /\ DOMAIN waiting' = 1 .. m - 1
        /\ \A k \in 1 .. m - 1 : waiting'[k] = waiting[k + 1]
    BY <1>1, <1>3, <1>5
  <1>7. taken' = waiting[1] /\ waiting[1] \in OrderedCallers
    BY <1>1, <1>3, <1>4, <1>5
  <1> HIDE DEF m
  <1>8. OrderedTyped' /\ CallsOnce'
    BY <1>2, <1>6 DEF OrderInv, OrderedTyped, CallsOnce
  <1>9. called' = called
    BY <1>2
  <1>10. \A k \in 1 .. m - 1 : k + 1 \in 1 .. m /\ 1 < k + 1
    BY <1>3
  <1>11. InCallOrder'
    <2>1. \A k \in DOMAIN waiting' : HasCalled(called', waiting'[k])
      BY <1>3, <1>6, <1>9, <1>10 DEF OrderInv, InCallOrder
    <2>2. \A k, l \in DOMAIN waiting' : k < l => CalledBefore(called', waiting'[k], waiting'[l])
      <3>1. \A k, l \in 1 .. m - 1 : k < l => k + 1 < l + 1
        BY <1>3
      <3>2. QED BY <1>3, <1>6, <1>9, <1>10, <3>1 DEF OrderInv, InCallOrder
    <2>3. HasCalled(called', taken') /\ taken' \in OrderedCallers
      BY <1>3, <1>4, <1>7, <1>9 DEF OrderInv, InCallOrder
    <2>4. \A l \in DOMAIN waiting' : CalledBefore(called', taken', waiting'[l])
      BY <1>3, <1>4, <1>6, <1>7, <1>9, <1>10 DEF OrderInv, InCallOrder
    <2>5. \A k \in DOMAIN returned', l \in DOMAIN waiting' :
              CalledBefore(called', returned'[k], waiting'[l])
      BY <1>2, <1>3, <1>6, <1>9, <1>10 DEF OrderInv, InCallOrder
    <2>6. \A k \in DOMAIN returned' : CalledBefore(called', returned'[k], taken')
      BY <1>2, <1>3, <1>4, <1>7, <1>9 DEF OrderInv, InCallOrder
    <2>7. \A k, l \in DOMAIN returned' : k < l => CalledBefore(called', returned'[k], returned'[l])
      BY <1>2, <1>9 DEF OrderInv, InCallOrder
    <2>8. QED BY <2>1, <2>2, <2>3, <2>4, <2>5, <2>6, <2>7 DEF InCallOrder
  <1>12. ReturnedCalled'
    BY <1>2, <1>9 DEF OrderInv, ReturnedCalled
  <1>13. QED BY <1>8, <1>11, <1>12 DEF OrderInv

LEMMA ReleaseKeepsOrder ==
    ASSUME OrderInv, Release
    PROVE  OrderInv'
  <1> DEFINE n == Len(returned)
  <1>1. /\ taken # NoResult /\ returned' = Append(returned, taken) /\ taken' = NoResult
        /\ UNCHANGED <<called, task, waiting, cleared>>
    BY DEF Release
  <1>2. taken \in OrderedCallers /\ HasCalled(called, taken)
    BY <1>1 DEF OrderInv, InCallOrder
  <1>3. /\ n \in Nat /\ DOMAIN returned = 1 .. n /\ DOMAIN returned' = 1 .. n + 1
        /\ returned'[n + 1] = taken /\ \A i \in 1 .. n : returned'[i] = returned[i]
        /\ returned' \in Seq(OrderedCallers)
    BY <1>1, <1>2 DEF OrderInv, OrderedTyped
  <1> HIDE DEF n
  <1>4. /\ \A x : HasCalled(called', x) <=> HasCalled(called, x)
        /\ \A x, y : CalledBefore(called', x, y) <=> CalledBefore(called, x, y)
    BY <1>1 DEF HasCalled, CalledBefore
  <1>5. OrderedTyped' /\ CallsOnce'
    BY <1>1, <1>3 DEF OrderInv, OrderedTyped, CallsOnce
  <1>6. InCallOrder'
    BY <1>1, <1>3, <1>4 DEF OrderInv, InCallOrder
  <1>7. ReturnedCalled'
    BY <1>1, <1>2, <1>3, <1>4 DEF OrderInv, ReturnedCalled
  <1>8. QED BY <1>5, <1>6, <1>7 DEF OrderInv

LEMMA OrderStep ==
    ASSUME OrderInv, [OrderedNext]_orderedVars
    PROVE  OrderInv'
  <1>1. ASSUME NEW c \in OrderedCallers, CallOrdered(c)
        PROVE  OrderInv'
    BY <1>1, CallKeepsOrder
  <1>2. ASSUME NEW c \in OrderedCallers, SettleOrdered(c)
        PROVE  OrderInv'
    <2>1. OrderedTyped' /\ CallsOnce'
      BY <1>2 DEF SettleOrdered, OrderInv, OrderedTyped, CallsOnce
    <2>2. InCallOrder' /\ ReturnedCalled'
      BY <1>2 DEF SettleOrdered, OrderInv, InCallOrder, ReturnedCalled, HasCalled, CalledBefore
    <2>3. QED BY <2>1, <2>2 DEF OrderInv
  <1>3. CASE Take
    BY <1>3, TakeKeepsOrder
  <1>4. CASE Release
    BY <1>4, ReleaseKeepsOrder
  <1>5. CASE Clear
    <2>1. waiting' = << >> /\ UNCHANGED <<called, task, taken, returned>>
      BY <1>5 DEF Clear
    <2>2. OrderedTyped' /\ CallsOnce'
      BY <2>1 DEF OrderInv, OrderedTyped, CallsOnce
    <2>3. InCallOrder' /\ ReturnedCalled'
      BY <2>1 DEF OrderInv, InCallOrder, ReturnedCalled, HasCalled, CalledBefore
    <2>4. QED BY <2>2, <2>3 DEF OrderInv
  <1>6. CASE UNCHANGED orderedVars
    BY <1>6 DEF orderedVars, OrderInv, OrderedTyped, CallsOnce, InCallOrder, ReturnedCalled,
                HasCalled, CalledBefore
  <1>7. QED BY <1>1, <1>2, <1>3, <1>4, <1>5, <1>6 DEF OrderedNext

\* The results come in the order of the calls, for any number of callers and
\* around every clear().
THEOREM ReturnsAreOrdered == OrderedSpec => []ReturnsInOrder
  <1>1. OrderInv => ReturnsInOrder
    <2> SUFFICES ASSUME OrderInv, NEW i \in DOMAIN returned, NEW j \in DOMAIN returned, i < j
                 PROVE  Position(called, returned[i]) < Position(called, returned[j])
      BY DEF ReturnsInOrder
    <2>1. PICK k, l \in DOMAIN called : k < l /\ called[k] = returned[i] /\ called[l] = returned[j]
      BY DEF OrderInv, InCallOrder, CalledBefore
    <2>2. Position(called, returned[i]) = k /\ Position(called, returned[j]) = l
      BY <2>1 DEF Position, OrderInv, CallsOnce
    <2>3. QED BY <2>1, <2>2
  <1>2. OrderInv /\ [OrderedNext]_orderedVars => OrderInv'
    BY OrderStep
  <1>3. QED BY <1>1, <1>2, OrderedInitially, PTL DEF OrderedSpec

-----------------------------------------------------------------------------
(***************************************************************************)
(* HttpQueries: what a query asks for, what is sent and what is read, for  *)
(* any number of stored messages, queries, nodes and answers.              *)
(***************************************************************************)

StoredMessages == {Stored[i] : i \in DOMAIN Stored}

\* What the fold that chooses messages starts with and keeps, its result has.
LEMMA ChosenIn ==
    ASSUME NEW I, NEW D, << >> \in D,
           \A sent \in D, i \in DOMAIN Stored : WithChosen(sent, I, i) \in D
    PROVE  Chosen(I) \in D
  <1> DEFINE n == Len(Stored)
             choose == [p \in (1 .. n) \X D |-> WithChosen(p[2], I, p[1])]
             is == [i \in DOMAIN Stored |-> i]
             Loop(g) == g = [t \in SUBSET (1 .. n) |->
                                IF t = {} THEN << >>
                                ELSE WithChosen(g[t \ {Max(t)}], I, is[Max(t)])]
             h == CHOOSE g : Loop(g)
             run == [i \in 0 .. n |-> h[1 .. i]]
  <1>1. n \in Nat /\ DOMAIN Stored = 1 .. n
    <2>1. PICK S : Stored \in Seq(S)
      BY QueriesAssumption
    <2>2. QED BY <2>1
  <1>2. \A i \in 1 .. n, x \in D :
            choose[<<i, x>>] \in D /\ choose[<<i, x>>] = WithChosen(x, I, i)
    BY <1>1
  <1>3. << >> \in D /\ DOMAIN is = 1 .. n /\ \A i \in 1 .. n : is[i] = i
    BY <1>1
  <1>4. Chosen(I) = h[1 .. n]
    <2> HIDE DEF n, choose, run
    <2>1. Chosen(I) = FoldLeft(LAMBDA sent, i : WithChosen(sent, I, i), << >>, is)
      BY DEF Chosen
    <2> HIDE DEF is
    <2>2. QED BY <1>3, <2>1 DEF FoldLeft, MapThenFoldSet
  <1> HIDE DEF choose, n, is
  <1>5. \E g : Loop(g)
    <2>1. PICK g : LoopRecurs(g, n, D, << >>, choose)
      BY <1>1, <1>2, <1>3, LoopRecursion
    <2>2. \A t \in SUBSET (1 .. n) :
            g[t] = IF t = {} THEN << >> ELSE WithChosen(g[t \ {Max(t)}], I, is[Max(t)])
      BY <1>2, <1>3, <2>1 DEF LoopRecurs
    <2>3. Loop(g)
      BY <2>1, <2>2 DEF LoopRecurs
    <2>4. QED BY <2>3
  <1>6. Loop(h)
    <2> HIDE DEF Loop
    <2> QED BY <1>5, Zenon
  <1> HIDE DEF h
  <1>7. run[0] \in D
    BY <1>1, <1>3, <1>6
  <1>8. ASSUME NEW i \in 1 .. n, run[i - 1] \in D PROVE run[i] \in D
    <2> DEFINE t == 1 .. i
    <2>1. /\ t \in SUBSET (1 .. n) /\ t # {} /\ Max(t) = i
          /\ t \ {i} = 1 .. (i - 1)
      BY <1>1, PrefixMax
    <2>2. h[t] = WithChosen(h[t \ {Max(t)}], I, is[Max(t)])
      <3> HIDE DEF t, is
      <3> QED BY <1>6, <2>1
    <2>3. i - 1 \in 0 .. n /\ i \in 0 .. n
      BY <1>1
    <2>4. run[i - 1] = h[t \ {Max(t)}] /\ run[i] = h[t]
      BY <2>1, <2>3
    <2> HIDE DEF run, is
    <2> QED BY <1>1, <1>3, <1>8, <2>1, <2>2, <2>4
  <1>9. \A i \in 0 .. n : run[i] \in D
    <2> HIDE DEF run
    <2> QED BY <1>1, <1>7, <1>8, LoopInvariant
  <1>10. QED BY <1>1, <1>4, <1>9

LEMMA ChosenType ==
    ASSUME NEW I
    PROVE  Chosen(I) \in Seq(StoredMessages)
  <1> DEFINE D == Seq(StoredMessages)
  <1>1. << >> \in D
    OBVIOUS
  <1>2. \A sent \in D, i \in DOMAIN Stored : WithChosen(sent, I, i) \in D
    BY DEF WithChosen, StoredMessages
  <1> HIDE DEF D
  <1>3. Chosen(I) \in D
    BY <1>1, <1>2, ChosenIn
  <1>4. QED BY <1>3 DEF D

LEMMA NoneChosen == Chosen({}) = << >>
  <1> DEFINE D == {<< >>}
  <1>1. << >> \in D
    OBVIOUS
  <1>2. \A sent \in D, i \in DOMAIN Stored : WithChosen(sent, {}, i) \in D
    BY DEF WithChosen
  <1> HIDE DEF D
  <1>3. Chosen({}) \in D
    BY <1>1, <1>2, ChosenIn
  <1>4. QED BY <1>3 DEF D

\* The messages that the options ask for.
Expected(o) == Chosen({i \in DOMAIN Stored : AskedFor(o, i)})

\* The query string asks for what the options do.
LEMMA StringAsksForThem ==
    ASSUME NEW o \in Options, Kind(o) # "invalid"
    PROVE  Matching(QueryString(o)) = Expected(o)
  <1> DEFINE p == QueryString(o)
             Sent(i) == IF p.count # Absent THEN i > Len(Stored) - p.count
                        ELSE /\ NotAfter(p.from, Stored[i])
                             /\ p.to # Absent => NotAfter(Stored[i], p.to)
                             /\ p.publisher # Absent => Stored[i].by = p.publisher
  <1>1. /\ o.last \in {Absent, Null} \cup Int
        /\ o.from \in {Absent, Null} \cup [ts : Nat, seq : Nat \cup {Absent}]
        /\ o.to \in {Absent, Null} \cup [ts : Nat, seq : Nat \cup {Absent}]
    BY QueriesAssumption
  <1>2. \A i \in DOMAIN Stored : Stored[i].ts \in Nat /\ Stored[i].seq \in Nat
    BY QueriesAssumption
  <1>3. Absent \notin Int /\ Absent \notin [ts : Nat, seq : Nat]
    BY QueriesAssumption
  <1>4. ASSUME NEW r \in [ts : Nat, seq : Nat \cup {Absent}]
        PROVE  /\ Point(r) \in [ts : Nat, seq : Nat] /\ Point(r).ts = r.ts
               /\ Point(r).seq = IF r.seq = Absent THEN 0 ELSE r.seq
    BY DEF Point, SequenceNumber, MIN_SEQUENCE_NUMBER_VALUE
  <1>5. ASSUME NEW i \in DOMAIN Stored
        PROVE  Sent(i) <=> AskedFor(o, i)
    <2>1. CASE Kind(o) = "last"
      <3>1. Given(o.last) /\ o.last \in Int
        BY <1>1, <2>1 DEF Kind, IsQueryLast, IsQueryRange, IsQueryFrom, Given
      <3>2. p.count = o.last /\ p.count # Absent
        BY <1>3, <2>1, <3>1 DEF QueryString
      <3>3. QED BY <3>1, <3>2 DEF AskedFor
    <2>2. CASE Kind(o) # "last"
      <3>1. ~ Given(o.last) /\ Given(o.from) /\ (Kind(o) = "range" <=> Given(o.to))
        BY <2>2 DEF Kind, IsQueryLast, IsQueryRange, IsQueryFrom, Given
      <3>2. o.to = Absent \/ Given(o.to)
        BY <2>2, <3>1 DEF Kind, IsQueryLast, IsQueryRange, IsQueryFrom
      <3>3. /\ p.count = Absent /\ p.from = Point(o.from) /\ p.publisher = o.publisher
            /\ p.to = IF Given(o.to) THEN Point(o.to) ELSE Absent
        BY <2>2, <3>1 DEF QueryString
      <3>4. o.from \in [ts : Nat, seq : Nat \cup {Absent}]
        BY <1>1, <3>1 DEF Given
      <3>5. Given(o.to) => o.to \in [ts : Nat, seq : Nat \cup {Absent}]
        BY <1>1 DEF Given
      <3> HIDE DEF p
      <3>6. NotAfter(p.from, Stored[i]) <=>
              \/ Stored[i].ts > o.from.ts
              \/ Stored[i].ts = o.from.ts /\ (o.from.seq # Absent => Stored[i].seq >= o.from.seq)
        BY <1>2, <1>3, <1>4, <3>3, <3>4 DEF NotAfter
      <3>7. Given(o.to) => (NotAfter(Stored[i], p.to) <=>
              \/ Stored[i].ts < o.to.ts
              \/ Stored[i].ts = o.to.ts /\ Stored[i].seq <= (IF o.to.seq = Absent THEN 0 ELSE o.to.seq))
        BY <1>2, <1>3, <1>4, <3>3, <3>5 DEF NotAfter
      <3>8. (p.to # Absent <=> Given(o.to)) /\ (o.to # Absent <=> Given(o.to))
        BY <1>3, <1>4, <3>2, <3>3, <3>5 DEF Given
      <3>9. QED BY <3>1, <3>3, <3>6, <3>7, <3>8 DEF AskedFor
    <2>3. QED BY <2>1, <2>2
  <1> HIDE DEF Sent
  <1>6. {i \in DOMAIN Stored : Sent(i)} = {i \in DOMAIN Stored : AskedFor(o, i)}
    BY <1>5
  <1>7. Matching(p) = Chosen({i \in DOMAIN Stored : Sent(i)})
    BY DEF Matching, Sent
  <1>8. QED BY <1>6, <1>7 DEF Expected

-----------------------------------------------------------------------------
\* A query is past its options, and has not settled before its answer came.
BeforeTheAnswer == {"listing", "choosing", "fetching"}
AfterTheAnswer == {"reading", "failed", "stopped", "hung", "ended"}

QueriesTypeOK ==
    /\ at \in [Queries -> {"idle", "rejected"} \cup BeforeTheAnswer \cup AfterTheAnswer]
    /\ DOMAIN asked = Queries /\ asked = [q \in Queries |-> asked[q]]
    /\ DOMAIN params = Queries /\ params = [q \in Queries |-> params[q]]
    /\ DOMAIN reply = Queries /\ reply = [q \in Queries |-> reply[q]]
    /\ connection \in [Queries -> {"none", "open", "closed"}]
    /\ lines \in [Queries -> Seq(StoredMessages)]
    /\ read \in [Queries -> Seq(StoredMessages)]

\* The query string under way was made of valid options.
StringOfOptions(q) ==
    /\ asked[q] \in Options
    /\ Kind(asked[q]) # "invalid"
    /\ params[q] = QueryString(asked[q])

\* What was read and what is still to be read make up what the node sent.
ReadingOn(q) == read[q] \o lines[q] = Matching(params[q])

NothingAskedFor(q) ==
    read[q] = << >> /\ Kind(asked[q]) = "last" /\ asked[q].last <= 0

ReadInOrder ==
    \A q \in Queries :
        /\ at[q] \in BeforeTheAnswer \cup AfterTheAnswer => StringOfOptions(q)
        /\ at[q] \notin AfterTheAnswer => read[q] = << >>
        /\ at[q] = "reading" => ReadingOn(q)
        /\ at[q] = "ended" => (lines[q] = << >> /\ ReadingOn(q)) \/ NothingAskedFor(q)
        /\ at[q] \in AfterTheAnswer => ReadingOn(q) \/ read[q] = << >>

\* Only a query that reads, or one whose answer lacked the consensus, has a
\* connection.
OpenWhileReading ==
    \A q \in Queries :
        connection[q] = "open" =>
            at[q] = "reading" \/ (at[q] = "failed" /\ ~ Consensus(reply[q].consensus))

QueriesInv == QueriesTypeOK /\ ReadInOrder /\ OpenWhileReading

LEMMA QueriesInitially == QueriesInit => QueriesInv
  BY DEF QueriesInit, QueriesInv, QueriesTypeOK, ReadInOrder, OpenWhileReading,
         BeforeTheAnswer, AfterTheAnswer

\* The other queries are left as they were.
OthersStay(q) ==
    \A o \in Queries \ {q} :
        /\ at'[o] = at[o] /\ asked'[o] = asked[o] /\ params'[o] = params[o]
        /\ reply'[o] = reply[o] /\ connection'[o] = connection[o]
        /\ lines'[o] = lines[o] /\ read'[o] = read[o]

\* What a step has to establish for its own query.
Kept(q, a, r, c) ==
    /\ a \in BeforeTheAnswer \cup AfterTheAnswer => StringOfOptions(q)'
    /\ a \notin AfterTheAnswer => read'[q] = << >>
    /\ a = "reading" => ReadingOn(q)'
    /\ a = "ended" => (lines'[q] = << >> /\ ReadingOn(q)') \/ NothingAskedFor(q)'
    /\ a \in AfterTheAnswer => ReadingOn(q)' \/ read'[q] = << >>
    /\ c = "open" => a = "reading" \/ (a = "failed" /\ ~ Consensus(r.consensus))

LEMMA OneQueryMoves ==
    ASSUME QueriesInv, QueriesTypeOK', NEW q \in Queries, OthersStay(q),
           Kept(q, at'[q], reply'[q], connection'[q])
    PROVE  QueriesInv'
  <1>1. ASSUME NEW o \in Queries \ {q}
        PROVE  /\ StringOfOptions(o) => StringOfOptions(o)'
               /\ ReadingOn(o) <=> ReadingOn(o)'
               /\ NothingAskedFor(o) <=> NothingAskedFor(o)'
    BY DEF OthersStay, StringOfOptions, ReadingOn, NothingAskedFor
  <1>2. ReadInOrder'
    BY <1>1 DEF QueriesInv, ReadInOrder, OthersStay, Kept
  <1>3. OpenWhileReading'
    BY DEF QueriesInv, OpenWhileReading, OthersStay, Kept
  <1>4. QED BY <1>2, <1>3 DEF QueriesInv

LEMMA QueryKeeps ==
    ASSUME QueriesInv, NEW q \in Queries, NEW o \in Options, Query(q, o)
    PROVE  QueriesInv'
  <1>1. QueriesTypeOK' /\ OthersStay(q)
    <2>1. QueriesTypeOK'
      BY DEF QueriesInv, QueriesTypeOK, Query, responseVars, BeforeTheAnswer, AfterTheAnswer
    <2>2. OthersStay(q)
      BY DEF QueriesInv, QueriesTypeOK, Query, responseVars, OthersStay
    <2>3. QED BY <2>1, <2>2
  <1>2. asked'[q] = o /\ read'[q] = << >> /\ connection'[q] # "open"
    BY DEF QueriesInv, QueriesTypeOK, ReadInOrder, OpenWhileReading, Query, responseVars,
           AfterTheAnswer
  <1>3. Kept(q, at'[q], reply'[q], connection'[q])
    <2>1. CASE Kind(o) = "invalid"
      BY <1>2, <2>1 DEF Query, Kept, QueriesInv, QueriesTypeOK, BeforeTheAnswer, AfterTheAnswer
    <2>2. CASE Kind(o) # "invalid"
      <3>1. params'[q] = QueryString(o)
        BY <2>2 DEF Query, QueriesInv, QueriesTypeOK
      <3>2. StringOfOptions(q)'
        BY <1>2, <2>2, <3>1 DEF StringOfOptions
      <3>3. \/ at'[q] = "ended" /\ NothingAskedFor(q)'
            \/ at'[q] = "listing"
        BY <1>2, <2>2 DEF Query, QueriesInv, QueriesTypeOK, NothingAskedFor
      <3>4. QED BY <1>2, <3>2, <3>3 DEF Kept, BeforeTheAnswer, AfterTheAnswer
    <2>3. QED BY <2>1, <2>2
  <1>4. QED BY <1>1, <1>3, OneQueryMoves

\* Up to the answer nothing is read and no connection is there.
LEMMA DrawingKeeps ==
    ASSUME QueriesInv, NEW q \in Queries,
           \/ ListNodes(q) \/ ChooseNode(q) \/ NoNode(q) \/ ChainFails(q) \/ FetchNowhere(q)
           \/ \E a \in Answers : FetchFails(q, a) \/ FetchRefused(q, a)
    PROVE  QueriesInv'
  <1>1. /\ at[q] \in BeforeTheAnswer
        /\ at'[q] \in BeforeTheAnswer \cup {"rejected", "failed"}
        /\ asked' = asked /\ params' = params /\ lines' = lines /\ read' = read
    BY DEF QueriesInv, QueriesTypeOK, ListNodes, ChooseNode, NoNode, ChainFails, FetchNowhere,
           FetchFails, FetchRefused, BeforeTheAnswer, responseVars, requestVars
  <1>2. QueriesTypeOK' /\ OthersStay(q)
    <2>1. CASE ListNodes(q) \/ ChooseNode(q) \/ NoNode(q) \/ ChainFails(q) \/ FetchNowhere(q)
      <3>1. /\ \E a \in BeforeTheAnswer \cup {"rejected", "failed"} : at' = [at EXCEPT ![q] = a]
            /\ UNCHANGED <<asked, params, reply, connection, lines, read>>
        <4>1. at = [at EXCEPT ![q] = at[q]]
          BY DEF QueriesInv, QueriesTypeOK
        <4>2. CASE ListNodes(q)
          BY <4>2 DEF ListNodes, BeforeTheAnswer, responseVars
        <4>3. CASE ChooseNode(q)
          BY <1>1, <4>1, <4>3 DEF ChooseNode, BeforeTheAnswer, responseVars
        <4>4. CASE NoNode(q) \/ ChainFails(q) \/ FetchNowhere(q)
          BY <4>4 DEF NoNode, ChainFails, FetchNowhere, responseVars, requestVars
        <4>5. QED BY <2>1, <4>2, <4>3, <4>4
      <3>2. QED BY <3>1 DEF QueriesInv, QueriesTypeOK, OthersStay, BeforeTheAnswer, AfterTheAnswer
    <2>2. CASE \E a \in Answers : FetchFails(q, a) \/ FetchRefused(q, a)
      <3>1. /\ at' = [at EXCEPT ![q] = "failed"]
            /\ \E a \in Answers : reply' = [reply EXCEPT ![q] = a]
            /\ \E c \in {"none", "open", "closed"} : connection' = [connection EXCEPT ![q] = c]
            /\ UNCHANGED <<asked, params, lines, read>>
        <4>1. connection = [connection EXCEPT ![q] = connection[q]]
          BY DEF QueriesInv, QueriesTypeOK
        <4>2. QED BY <1>1, <2>2, <4>1 DEF QueriesInv, QueriesTypeOK, FetchFails, FetchRefused,
                                     requestVars
      <3>2. reply' = [o \in Queries |-> reply'[o]]
        BY <3>1 DEF QueriesInv, QueriesTypeOK
      <3>3. QueriesTypeOK'
        BY <3>1, <3>2 DEF QueriesInv, QueriesTypeOK, AfterTheAnswer
      <3>4. OthersStay(q)
        BY <3>1 DEF QueriesInv, QueriesTypeOK, OthersStay
      <3>5. QED BY <3>3, <3>4
    <2>3. QED BY <2>1, <2>2
  <1>3. \/ connection'[q] = connection[q]
        \/ at'[q] = "failed" /\ ~ Consensus(reply'[q].consensus)
    BY DEF QueriesInv, QueriesTypeOK, ListNodes, ChooseNode, NoNode, ChainFails, FetchNowhere,
           FetchFails, FetchRefused, responseVars, requestVars
  <1>4. connection[q] # "open" /\ StringOfOptions(q) /\ read[q] = << >>
    BY <1>1 DEF QueriesInv, OpenWhileReading, ReadInOrder, BeforeTheAnswer, AfterTheAnswer
  <1>5. StringOfOptions(q)' /\ read'[q] = << >>
    BY <1>1, <1>4 DEF StringOfOptions
  <1>6. Kept(q, at'[q], reply'[q], connection'[q])
    BY <1>1, <1>3, <1>4, <1>5 DEF Kept, BeforeTheAnswer, AfterTheAnswer
  <1>7. QED BY <1>2, <1>6, OneQueryMoves

LEMMA AcceptedKeeps ==
    ASSUME QueriesInv, NEW q \in Queries, NEW a \in Answers, FetchAccepted(q, a)
    PROVE  QueriesInv'
  <1>1. Matching(params[q]) \in Seq(StoredMessages)
    BY ChosenType DEF Matching
  <1>2. /\ at[q] = "fetching" /\ at'[q] = "reading"
        /\ asked' = asked /\ params' = params /\ read' = read
        /\ lines'[q] = Matching(params[q])
    BY DEF QueriesInv, QueriesTypeOK, FetchAccepted, requestVars
  <1>3. QueriesTypeOK' /\ OthersStay(q)
    BY <1>1 DEF QueriesInv, QueriesTypeOK, OthersStay, FetchAccepted, BeforeTheAnswer,
           AfterTheAnswer, requestVars
  <1>4. StringOfOptions(q) /\ read[q] = << >>
    BY <1>2 DEF QueriesInv, ReadInOrder, BeforeTheAnswer, AfterTheAnswer
  <1>5. StringOfOptions(q)'
    BY <1>2, <1>4 DEF StringOfOptions
  <1>6. ReadingOn(q)'
    <2>1. << >> \o Matching(params[q]) = Matching(params[q])
      BY <1>1
    <2>2. QED BY <1>2, <1>4, <2>1 DEF ReadingOn, Matching, NotAfter
  <1>7. Kept(q, at'[q], reply'[q], connection'[q])
    BY <1>2, <1>5, <1>6 DEF Kept, BeforeTheAnswer, AfterTheAnswer
  <1>8. QED BY <1>3, <1>7, OneQueryMoves

\* The first of l may go to the end of r instead.
LEMMA HeadMoves ==
    ASSUME NEW S, NEW r \in Seq(S), NEW l \in Seq(S), l # << >>
    PROVE  Append(r, Head(l)) \o Tail(l) = r \o l
  <1> DEFINE h == Head(l)
             t == Tail(l)
             first == <<h>>
  <1>1. h \in S /\ t \in Seq(S) /\ first \in Seq(S)
    OBVIOUS
  <1>2. /\ Len(l) \in Nat /\ Len(l) >= 1 /\ Len(t) = Len(l) - 1 /\ l[1] = h
        /\ \A i \in 1 .. Len(t) : t[i] = l[i + 1]
    BY HeadTailProperties
  <1>3. Len(first) = 1 /\ first[1] = h
    OBVIOUS
  <1> HIDE DEF h, t, first
  <1>4. first \o t = l
    <2>1. /\ first \o t \in Seq(S)
          /\ Len(first \o t) = Len(first) + Len(t)
          /\ \A i \in 1 .. Len(first) + Len(t) :
                (first \o t)[i] = IF i <= Len(first) THEN first[i] ELSE t[i - Len(first)]
      BY <1>1, ConcatProperties
    <2> DEFINE c == first \o t
    <2> HIDE DEF c
    <2>2. c \in Seq(S) /\ Len(c) = Len(l)
      BY <1>1, <1>2, <1>3, <2>1 DEF c
    <2>3. ASSUME NEW i \in 1 .. Len(c) PROVE c[i] = l[i]
      <3>1. c[i] = IF i <= 1 THEN first[i] ELSE t[i - 1]
        BY <1>2, <1>3, <2>1, <2>2 DEF c
      <3>2. CASE i = 1
        BY <1>2, <1>3, <3>1, <3>2
      <3>3. CASE i # 1
        <4>1. i - 1 \in 1 .. Len(t) /\ (i - 1) + 1 = i /\ ~ i <= 1
          BY <1>2, <2>2, <3>3
        <4>2. t[i - 1] = l[(i - 1) + 1]
          BY <1>2, <4>1
        <4>3. QED BY <3>1, <4>1, <4>2
      <3>4. QED BY <3>2, <3>3
    <2>4. c = l
      BY <2>2, <2>3, SeqEqual
    <2>5. QED BY <2>4 DEF c
  <1>5. Append(r, h) = r \o first
    BY <1>1, AppendIsConcat DEF first
  <1>6. (r \o first) \o t = r \o (first \o t)
    <2>1. first \in Seq(S) /\ t \in Seq(S) /\ r \in Seq(S)
      BY <1>1
    <2>2. QED BY SMTT(30), <2>1, ConcatAssociative
  <1>7. QED BY <1>4, <1>5, <1>6 DEF h, t

LEMMA ReadLineKeeps ==
    ASSUME QueriesInv, NEW q \in Queries, ReadLine(q)
    PROVE  QueriesInv'
  <1>1. /\ at[q] = "reading" /\ at' = at /\ lines[q] # << >>
        /\ asked' = asked /\ params' = params /\ reply' = reply /\ connection' = connection
        /\ read'[q] = Append(read[q], Head(lines[q])) /\ lines'[q] = Tail(lines[q])
    BY DEF QueriesInv, QueriesTypeOK, ReadLine, requestVars
  <1>2. read[q] \in Seq(StoredMessages) /\ lines[q] \in Seq(StoredMessages)
    BY DEF QueriesInv, QueriesTypeOK
  <1>3. Head(lines[q]) \in StoredMessages /\ Tail(lines[q]) \in Seq(StoredMessages)
    BY <1>1, <1>2
  <1>4. QueriesTypeOK' /\ OthersStay(q)
    BY <1>3 DEF QueriesInv, QueriesTypeOK, OthersStay, ReadLine, requestVars
  <1>5. StringOfOptions(q) /\ ReadingOn(q)
    BY <1>1 DEF QueriesInv, ReadInOrder, BeforeTheAnswer, AfterTheAnswer
  <1>6. StringOfOptions(q)'
    BY <1>1, <1>5 DEF StringOfOptions
  <1>7. ReadingOn(q)'
    <2>2. read'[q] \o lines'[q] = read[q] \o lines[q]
      BY <1>1, <1>2, HeadMoves
    <2>3. QED BY <1>1, <1>5, <2>2 DEF ReadingOn, Matching, NotAfter
  <1>8. Kept(q, at'[q], reply'[q], connection'[q])
    BY <1>1, <1>6, <1>7 DEF Kept, BeforeTheAnswer, AfterTheAnswer, QueriesInv, OpenWhileReading
  <1>9. QED BY <1>4, <1>8, OneQueryMoves

\* A query that comes to its end closes its connection.
LEMMA EndKeeps ==
    ASSUME QueriesInv, NEW q \in Queries,
           ReadEnd(q) \/ ReadGarbled(q) \/ StopReading(q) \/ Break(q)
    PROVE  QueriesInv'
  <1>1. /\ at[q] = "reading"
        /\ at'[q] \in {"ended", "failed", "stopped", "hung"}
        /\ at'[q] = "ended" => lines[q] = << >>
        /\ connection'[q] = "closed"
        /\ asked' = asked /\ params' = params /\ lines' = lines /\ read' = read
    BY DEF QueriesInv, QueriesTypeOK, ReadEnd, ReadGarbled, StopReading, Break, Closed,
           requestVars
  <1>2. QueriesTypeOK' /\ OthersStay(q)
    <2>1. /\ \E a \in AfterTheAnswer : at' = [at EXCEPT ![q] = a]
          /\ connection' = [connection EXCEPT ![q] = "closed"]
          /\ UNCHANGED <<asked, params, reply, lines, read>>
      BY DEF ReadEnd, ReadGarbled, StopReading, Break, Closed, AfterTheAnswer, requestVars
    <2>2. QED BY <2>1 DEF QueriesInv, QueriesTypeOK, OthersStay, AfterTheAnswer
  <1>3. StringOfOptions(q) /\ ReadingOn(q)
    BY <1>1 DEF QueriesInv, ReadInOrder, BeforeTheAnswer, AfterTheAnswer
  <1>4. StringOfOptions(q)' /\ ReadingOn(q)'
    BY <1>1, <1>3 DEF StringOfOptions, ReadingOn, Matching, NotAfter
  <1>5. Kept(q, at'[q], reply'[q], connection'[q])
    BY <1>1, <1>4 DEF Kept, BeforeTheAnswer, AfterTheAnswer
  <1>6. QED BY <1>2, <1>5, OneQueryMoves

LEMMA QueriesStay ==
    ASSUME QueriesInv, UNCHANGED <<at, requestVars, responseVars>>
    PROVE  QueriesInv'
  <1>1. /\ at' = at /\ asked' = asked /\ params' = params /\ reply' = reply
        /\ connection' = connection /\ lines' = lines /\ read' = read
    BY DEF requestVars, responseVars
  <1>2. ASSUME NEW q \in Queries
        PROVE  /\ StringOfOptions(q)' <=> StringOfOptions(q)
               /\ ReadingOn(q)' <=> ReadingOn(q)
               /\ NothingAskedFor(q)' <=> NothingAskedFor(q)
    BY <1>1 DEF StringOfOptions, ReadingOn, NothingAskedFor
  <1>3. QED BY <1>1, <1>2 DEF QueriesInv, QueriesTypeOK, ReadInOrder, OpenWhileReading

LEMMA QueriesKeepInv == QueriesInv /\ [QueriesNext]_queryVars => QueriesInv'
  <1> SUFFICES ASSUME QueriesInv, [QueriesNext]_queryVars
               PROVE  QueriesInv'
    OBVIOUS
  <1>1. ASSUME NEW q \in Queries, \E o \in Options : Query(q, o)
        PROVE  QueriesInv'
    BY <1>1, QueryKeeps
  <1>2. ASSUME NEW q \in Queries, QueryStep(q)
        PROVE  QueriesInv'
    BY <1>2, DrawingKeeps, AcceptedKeeps, ReadLineKeeps, EndKeeps DEF QueryStep
  <1>3. ASSUME NEW q \in Queries, ChainFails(q)
        PROVE  QueriesInv'
    BY <1>3, DrawingKeeps
  <1>4. ASSUME NEW q \in Queries, ReadGarbled(q) \/ StopReading(q) \/ Break(q)
        PROVE  QueriesInv'
    BY <1>4, EndKeeps
  <1>5. ASSUME NEW n \in Nodes, NEW m \in MetadataKinds, ChangeNode(n, m)
        PROVE  QueriesInv'
    BY <1>5, QueriesStay DEF ChangeNode
  <1>6. CASE UNCHANGED queryVars
    BY <1>6, QueriesStay DEF queryVars
  <1>7. QED BY <1>1, <1>2, <1>3, <1>4, <1>5, <1>6 DEF QueriesNext

\* A query that ends has handed over exactly what its options ask for, and one
\* that does not end a beginning of it, for any number of stored messages and
\* of nodes, whichever node was drawn.
THEOREM QueriesAreComplete == QueriesSpec => []EndedIsComplete
  <1>1. QueriesInv => EndedIsComplete
    <2> SUFFICES ASSUME QueriesInv, NEW q \in Queries
                 PROVE  /\ at[q] = "ended" => read[q] = Expected(asked[q])
                        /\ read[q] # << >> => IsPrefix(read[q], Expected(asked[q]))
      BY DEF EndedIsComplete, Expected
    <2>1. read[q] \in Seq(StoredMessages) /\ lines[q] \in Seq(StoredMessages)
      BY DEF QueriesInv, QueriesTypeOK
    <2>2. StringOfOptions(q) => Matching(params[q]) = Expected(asked[q])
      BY StringAsksForThem DEF StringOfOptions
    <2>3. at[q] = "ended" => read[q] = Expected(asked[q])
      <3> SUFFICES ASSUME at[q] = "ended" PROVE read[q] = Expected(asked[q])
        OBVIOUS
      <3>1. StringOfOptions(q) /\ ((lines[q] = << >> /\ ReadingOn(q)) \/ NothingAskedFor(q))
        BY DEF QueriesInv, ReadInOrder, AfterTheAnswer
      <3>2. CASE lines[q] = << >> /\ ReadingOn(q)
        BY <2>1, <2>2, <3>1, <3>2 DEF ReadingOn
      <3>3. CASE NothingAskedFor(q)
        <4>1. {i \in DOMAIN Stored : AskedFor(asked[q], i)} = {}
          <5>1. PICK S : Stored \in Seq(S)
            BY QueriesAssumption
          <5>2. asked[q] \in Options /\ Given(asked[q].last) /\ asked[q].last <= 0
            BY <3>1, <3>3 DEF StringOfOptions, NothingAskedFor, Kind, IsQueryLast, IsQueryRange,
                              IsQueryFrom
          <5>3. asked[q].last \in Int
            BY <5>2, QueriesAssumption DEF Given
          <5>4. QED BY <5>1, <5>2, <5>3 DEF AskedFor
        <4>2. QED BY <3>3, <4>1, NoneChosen DEF Expected, NothingAskedFor
      <3>4. QED BY <3>1, <3>2, <3>3
    <2>4. read[q] # << >> => IsPrefix(read[q], Expected(asked[q]))
      <3> SUFFICES ASSUME read[q] # << >> PROVE IsPrefix(read[q], Expected(asked[q]))
        OBVIOUS
      <3>1. at[q] \in AfterTheAnswer /\ StringOfOptions(q) /\ ReadingOn(q)
        BY DEF QueriesInv, ReadInOrder
      <3>2. ASSUME NEW S, NEW r \in Seq(S), NEW l \in Seq(S)
            PROVE  IsPrefix(r, r \o l)
        BY DEF IsPrefix
      <3>3. QED BY <2>1, <2>2, <3>1, <3>2 DEF ReadingOn
    <2>5. QED BY <2>3, <2>4
  <1>2. QED BY <1>1, QueriesInitially, QueriesKeepInv, PTL DEF QueriesSpec

\* A query leaves a connection behind only where the consensus was refused.
THEOREM ConnectionsAreReleased == QueriesSpec => []ConnectionsReleased
  <1>1. QueriesInv => ConnectionsReleased
    BY DEF QueriesInv, OpenWhileReading, ConnectionsReleased, Settled
  <1>2. QED BY <1>1, QueriesInitially, QueriesKeepInv, PTL DEF QueriesSpec

-----------------------------------------------------------------------------
(***************************************************************************)
(* StoredStreams: the entities of the subgraph, for any transactions and   *)
(* any number of events, blocks and calls.                                 *)
(***************************************************************************)

EventKinds == {"StoreUpdated", "DataStored", "Other"}
Logs == [block : Nat, tx : Nat, index : Nat, kind : EventKinds, store : Nat \ {0}]

EntityOf(log) ==
    [kind |-> log.kind, id |-> EntityId(log), store |-> log.store, block |-> log.block]
HandledTo(b) == {i \in DOMAIN logs : logs[i].block <= b}

LogsTyped ==
    /\ logs \in Seq(Logs)
    /\ txs \in Nat /\ head \in Nat /\ indexedBlock \in Nat /\ indexedBlock <= head
    /\ \A i \in DOMAIN logs : logs[i].tx <= txs

\* No two events have one transaction and one index in it.
LogsApart ==
    \A i, j \in DOMAIN logs :
        logs[i].tx = logs[j].tx /\ logs[i].index = logs[j].index => i = j

EntitiesOfLogs == entities = {EntityOf(logs[i]) : i \in HandledTo(indexedBlock)}

StreamsInv == LogsTyped /\ LogsApart /\ EntitiesOfLogs

LEMMA LogTypes ==
    ASSUME LogsTyped
    PROVE  \A k \in DOMAIN logs : logs[k] \in Logs /\ logs[k].block \in Nat /\ logs[k].tx \in Nat
  <1>1. \A k \in DOMAIN logs : logs[k] \in Logs
    BY DEF LogsTyped
  <1>2. \A l \in Logs : l.block \in Nat /\ l.tx \in Nat
    BY DEF Logs
  <1>3. QED BY <1>1, <1>2

\* One more event of the block that is handled: its entity replaces none.
LEMMA HandleAdds ==
    ASSUME StreamsInv, NEW b, b = indexedBlock + 1, NEW i \in DOMAIN logs, NEW saved,
           saved = entities \cup {EntityOf(logs[j]) : j \in {k \in 1 .. (i - 1) : logs[k].block = b}}
    PROVE  HandleIn(b, saved, logs[i]) =
            entities \cup {EntityOf(logs[j]) : j \in {k \in 1 .. i : logs[k].block = b}}
  <1>1. DOMAIN logs = 1 .. Len(logs) /\ Len(logs) \in Nat /\ i \in Nat /\ i >= 1
    BY DEF StreamsInv, LogsTyped
  <1>2. \A k \in DOMAIN logs : logs[k] \in Logs /\ logs[k].block \in Nat
    BY LogTypes DEF StreamsInv
  <1>3. CASE logs[i].block # b
    <2>1. {k \in 1 .. i : logs[k].block = b} = {k \in 1 .. (i - 1) : logs[k].block = b}
      BY <1>1, <1>3
    <2>2. QED BY <1>3, <2>1 DEF HandleIn
  <1>4. CASE logs[i].block = b
    <2>1. ASSUME NEW e \in saved PROVE e.id # EntityId(logs[i])
      <3>1. PICK j \in DOMAIN logs : e = EntityOf(logs[j]) /\ j # i
        <4>1. CASE e \in entities
          <5>1. PICK j \in HandledTo(indexedBlock) : e = EntityOf(logs[j])
            BY <4>1 DEF StreamsInv, EntitiesOfLogs
          <5>2. j \in DOMAIN logs /\ logs[j].block <= indexedBlock
            BY <5>1 DEF HandledTo
          <5>3. QED BY <1>2, <1>4, <5>1, <5>2 DEF StreamsInv, LogsTyped
        <4>2. CASE e \notin entities
          BY <1>1, <2>1, <4>2
        <4>3. QED BY <4>1, <4>2
      <3>2. e.id = <<logs[j].tx, logs[j].index>>
        BY <3>1 DEF EntityOf, EntityId
      <3>3. logs[j].tx # logs[i].tx \/ logs[j].index # logs[i].index
        BY <3>1 DEF StreamsInv, LogsApart
      <3>4. QED BY <3>2, <3>3 DEF EntityId
    <2>2. {e \in saved : e.kind # logs[i].kind \/ e.id # EntityId(logs[i])} = saved
      BY <2>1
    <2>3. HandleIn(b, saved, logs[i]) = saved \cup {EntityOf(logs[i])}
      BY <1>4, <2>2 DEF HandleIn, Handle, EntityOf
    <2>4. {k \in 1 .. i : logs[k].block = b} = {k \in 1 .. (i - 1) : logs[k].block = b} \cup {i}
      BY <1>1, <1>4
    <2>5. QED BY <2>3, <2>4
  <1>5. QED BY <1>3, <1>4

\* What the handlers make of a block: an entity for each of its events.
LEMMA BlockHandled ==
    ASSUME StreamsInv, NEW b, b = indexedBlock + 1
    PROVE  FoldLeft(LAMBDA saved, log : HandleIn(b, saved, log), entities, logs) =
            entities \cup {EntityOf(logs[j]) : j \in {k \in DOMAIN logs : logs[k].block = b}}
  <1> DEFINE n == Len(logs)
             D == SUBSET (entities \cup {EntityOf(logs[j]) : j \in DOMAIN logs})
             upTo(i) == entities \cup {EntityOf(logs[j]) : j \in {k \in 1 .. i : logs[k].block = b}}
             step == [p \in (1 .. n) \X D |-> HandleIn(b, p[2], logs[p[1]])]
             Loop(g) == g = [t \in SUBSET (1 .. n) |->
                                IF t = {} THEN entities
                                ELSE HandleIn(b, g[t \ {Max(t)}], logs[Max(t)])]
             h == CHOOSE g : Loop(g)
             run == [i \in 0 .. n |-> h[1 .. i]]
             spots == [i \in 0 .. n |-> <<i, run[i]>>]
             C == {x \in (0 .. n) \X D : x[2] = upTo(x[1])}
  <1>1. n \in Nat /\ DOMAIN logs = 1 .. n
    BY DEF StreamsInv, LogsTyped
  <1>2. entities \in D /\ entities = upTo(0)
    OBVIOUS
  <1>3. \A i \in 1 .. n, x \in D :
            step[<<i, x>>] \in D /\ step[<<i, x>>] = HandleIn(b, x, logs[i])
    <2>1. ASSUME NEW i \in 1 .. n, NEW x \in D PROVE HandleIn(b, x, logs[i]) \in D
      <3>1. CASE logs[i].block # b
        BY <3>1 DEF HandleIn
      <3>2. CASE logs[i].block = b
        BY <1>1, <3>2 DEF HandleIn, Handle, EntityOf
      <3>3. QED BY <3>1, <3>2
    <2>2. QED BY <2>1
  <1>4. FoldLeft(LAMBDA saved, log : HandleIn(b, saved, log), entities, logs) = h[1 .. n]
    <2> HIDE DEF n, D, step, run
    <2> QED BY <1>1 DEF FoldLeft, MapThenFoldSet
  <1> HIDE DEF D, step, n, upTo
  <1>5. \E g : Loop(g)
    <2>1. PICK g : LoopRecurs(g, n, D, entities, step)
      BY <1>1, <1>2, <1>3, LoopRecursion
    <2>2. \A t \in SUBSET (1 .. n) :
            g[t] = IF t = {} THEN entities ELSE HandleIn(b, g[t \ {Max(t)}], logs[Max(t)])
      BY <1>3, <2>1 DEF LoopRecurs
    <2>3. Loop(g)
      BY <2>1, <2>2 DEF LoopRecurs
    <2>4. QED BY <2>3
  <1>6. Loop(h)
    <2> HIDE DEF Loop
    <2> QED BY <1>5, Zenon
  <1> HIDE DEF h
  <1>7. run[0] = entities
    BY <1>1, <1>6
  <1>8. ASSUME NEW i \in 1 .. n PROVE run[i] = HandleIn(b, run[i - 1], logs[i])
    <2> DEFINE t == 1 .. i
    <2>1. /\ t \in SUBSET (1 .. n) /\ t # {} /\ Max(t) = i
          /\ t \ {i} = 1 .. (i - 1)
      BY <1>1, PrefixMax
    <2>2. h[t] = HandleIn(b, h[t \ {Max(t)}], logs[Max(t)])
      <3> HIDE DEF t
      <3> QED BY <1>6, <2>1
    <2>3. i - 1 \in 0 .. n /\ i \in 0 .. n
      BY <1>1
    <2>4. QED BY <2>1, <2>2, <2>3
  <1> HIDE DEF Loop, run
  <1>9. spots[0] \in C
    BY <1>1, <1>2, <1>7
  <1>10. ASSUME NEW i \in 1 .. n, spots[i - 1] \in C PROVE spots[i] \in C
    <2>1. i - 1 \in 0 .. n /\ i \in 0 .. n /\ i \in DOMAIN logs
      BY <1>1
    <2>2. run[i - 1] \in D /\ run[i - 1] = upTo(i - 1)
      BY <1>10, <2>1
    <2>3. run[i] = upTo(i)
      BY <1>8, <2>1, <2>2, HandleAdds DEF upTo
    <2>4. run[i] \in D
      BY <1>3, <1>8, <2>2
    <2>5. QED BY <2>1, <2>3, <2>4
  <1>11. spots[n] \in C
    <2> HIDE DEF spots, C
    <2>1. \A i \in 0 .. n : spots[i] \in C
      BY <1>1, <1>9, <1>10, LoopInvariant
    <2>2. QED BY <1>1, <2>1
  <1>12. run[n] = upTo(n)
    BY <1>1, <1>11
  <1>13. run[n] = h[1 .. n]
    BY <1>1 DEF run
  <1>14. QED BY <1>1, <1>4, <1>12, <1>13 DEF upTo

LEMMA StreamsInitially == StreamsInit => StreamsInv
  <1> SUFFICES ASSUME StreamsInit PROVE StreamsInv
    OBVIOUS
  <1>1. logs = << >> /\ logs \in Seq(Logs) /\ DOMAIN logs = {}
    BY DEF StreamsInit
  <1>2. QED BY <1>1 DEF StreamsInit, StreamsInv, LogsTyped, LogsApart, EntitiesOfLogs, HandledTo

\* A transaction's events are of a later block than those that were handled.
LEMMA EmitKeeps ==
    ASSUME StreamsInv, NEW t \in Transactions, NEW newBlock \in BOOLEAN, Emit(t, newBlock)
    PROVE  /\ StreamsInv'
           /\ \A c \in Nat : c <= indexedBlock => Updated(c)' = Updated(c)
  <1> DEFINE b == IF newBlock THEN head + 1 ELSE head
             first == Cardinality({i \in DOMAIN logs : logs[i].block = b})
             new == [i \in DOMAIN t |->
                      [block |-> b, tx |-> txs + 1, index |-> first + i,
                       kind |-> t[i].kind, store |-> t[i].store]]
  <1>1. /\ logs \in Seq(Logs) /\ txs \in Nat /\ head \in Nat /\ indexedBlock \in Nat
        /\ b \in Nat /\ b >= head /\ b > indexedBlock
        /\ Len(logs) \in Nat /\ DOMAIN logs = 1 .. Len(logs)
    BY DEF StreamsInv, LogsTyped, Emit
  <1>2. /\ t \in Seq([kind : EventKinds, store : Nat \ {0}])
        /\ DOMAIN t = 1 .. Len(t) /\ Len(t) \in Nat
    BY StreamsAssumption DEF EventKinds
  <1>3. first \in Nat
    <2>1. IsFiniteSet(1 .. Len(logs))
      BY <1>1, FS_Interval
    <2>2. IsFiniteSet({i \in DOMAIN logs : logs[i].block = b})
      BY <1>1, <2>1, FS_Subset
    <2>3. QED BY <2>2, FS_CardinalityType
  <1>4. logs' = logs \o new /\ txs' = txs + 1 /\ head' = b
        /\ UNCHANGED <<indexedBlock, entities>>
    BY DEF Emit, subgraphVars
  <1> HIDE DEF first, b
  <1>5. new \in Seq(Logs) /\ Len(new) = Len(t) /\ DOMAIN new = 1 .. Len(t)
    <2>1. \A i \in 1 .. Len(t) :
            t[i].kind \in EventKinds /\ t[i].store \in Nat \ {0} /\ first + i \in Nat
      <3> DEFINE E == [kind : EventKinds, store : Nat \ {0}]
      <3>1. \A i \in 1 .. Len(t) : t[i] \in E
        <4> HIDE DEF E
        <4>1. t \in Seq(E)
          BY <1>2 DEF E
        <4>2. QED BY <4>1, ElementOfSeq
      <3>2. \A e \in E :
                e.kind \in EventKinds /\ e.store \in Nat \ {0}
        OBVIOUS
      <3>3. \A i \in 1 .. Len(t) : first + i \in Nat
        BY <1>3
      <3>4. QED BY <3>1, <3>2, <3>3
    <2>2. \A i \in 1 .. Len(t) : new[i] \in Logs
      BY <1>1, <1>2, <2>1 DEF Logs
    <2>3. new = [i \in 1 .. Len(t) |-> new[i]]
      BY <1>2
    <2> HIDE DEF new
    <2>4. new \in [1 .. Len(t) -> Logs]
      BY <2>2, <2>3
    <2>5. new \in Seq(Logs)
      BY <1>2, <2>4, SeqDef
    <2>6. QED BY <1>2, <2>4, <2>5
  <1>6. \A i \in 1 .. Len(t) : new[i].block = b /\ new[i].tx = txs + 1 /\ new[i].index = first + i
    BY <1>2
  <1> HIDE DEF new
  <1>7. /\ logs' \in Seq(Logs) /\ Len(logs') = Len(logs) + Len(t)
        /\ DOMAIN (logs') = 1 .. (Len(logs) + Len(t))
        /\ \A i \in DOMAIN logs : logs'[i] = logs[i]
        /\ \A i \in DOMAIN (logs') \ DOMAIN logs :
              i - Len(logs) \in 1 .. Len(t) /\ logs'[i] = new[i - Len(logs)]
    <2> DEFINE all == logs \o new
    <2>1. /\ all \in Seq(Logs) /\ Len(all) = Len(logs) + Len(new)
          /\ \A i \in 1 .. Len(logs) + Len(new) :
                all[i] = IF i <= Len(logs) THEN logs[i] ELSE new[i - Len(logs)]
      BY <1>1, <1>5, ConcatProperties
    <2> HIDE DEF all
    <2>2. /\ logs' \in Seq(Logs) /\ Len(logs') = Len(logs) + Len(t)
          /\ \A i \in 1 .. Len(logs) + Len(t) :
                logs'[i] = IF i <= Len(logs) THEN logs[i] ELSE new[i - Len(logs)]
      BY <1>4, <1>5, <2>1 DEF all
    <2>3. DOMAIN (logs') = 1 .. (Len(logs) + Len(t))
      BY <2>2
    <2>4. \A i \in DOMAIN logs : logs'[i] = logs[i]
      BY <1>1, <1>2, <2>2
    <2>5. \A i \in DOMAIN (logs') \ DOMAIN logs :
              i - Len(logs) \in 1 .. Len(t) /\ logs'[i] = new[i - Len(logs)]
      BY <1>1, <1>2, <2>2, <2>3
    <2>6. QED BY <2>2, <2>3, <2>4, <2>5
  <1>8. LogsTyped'
    <2>1. \A i \in DOMAIN (logs') : logs'[i].tx <= txs'
      <3> SUFFICES ASSUME NEW i \in DOMAIN (logs') PROVE logs'[i].tx <= txs'
        OBVIOUS
      <3>1. CASE i \in DOMAIN logs
        <4>1. logs[i].tx <= txs /\ logs[i].tx \in Nat
          BY <3>1, LogTypes DEF StreamsInv, LogsTyped
        <4>2. QED BY <1>1, <1>4, <1>7, <3>1, <4>1
      <3>2. CASE i \notin DOMAIN logs
        BY <1>1, <1>4, <1>6, <1>7, <3>2
      <3>3. QED BY <3>1, <3>2
    <2>2. QED BY <1>1, <1>4, <1>7, <2>1 DEF LogsTyped
  <1>9. LogsApart'
    <2> SUFFICES ASSUME NEW i \in DOMAIN (logs'), NEW j \in DOMAIN (logs'),
                        logs'[i].tx = logs'[j].tx, logs'[i].index = logs'[j].index
                 PROVE  i = j
      BY DEF LogsApart
    <2>1. \A k \in DOMAIN logs : logs'[k].tx # txs + 1
      <3> SUFFICES ASSUME NEW k \in DOMAIN logs PROVE logs'[k].tx # txs + 1
        OBVIOUS
      <3>1. logs[k].tx <= txs /\ logs[k].tx \in Nat
        BY LogTypes DEF StreamsInv, LogsTyped
      <3>2. QED BY <1>1, <1>7, <3>1
    <2>2. CASE i \in DOMAIN logs
      <3>1. j \in DOMAIN logs
        BY <1>6, <1>7, <2>1, <2>2
      <3>2. QED BY <1>7, <2>2, <3>1 DEF StreamsInv, LogsApart
    <2>3. CASE i \notin DOMAIN logs
      <3>1. j \notin DOMAIN logs
        BY <1>6, <1>7, <2>1, <2>3
      <3>2. first + (i - Len(logs)) = first + (j - Len(logs))
        BY <1>6, <1>7, <2>3, <3>1
      <3>3. QED BY <1>1, <1>3, <1>7, <3>2
    <2>4. QED BY <2>2, <2>3
  <1>10. EntitiesOfLogs'
    <2>1. HandledTo(indexedBlock)' = HandledTo(indexedBlock)
      <3>1. \A i \in DOMAIN (logs') \ DOMAIN logs : ~ (logs'[i].block <= indexedBlock)
        BY <1>1, <1>6, <1>7
      <3>2. DOMAIN logs \subseteq DOMAIN (logs')
        BY <1>1, <1>2, <1>7
      <3>3. QED BY <1>4, <1>7, <3>1, <3>2 DEF HandledTo
    <2>2. \A i \in HandledTo(indexedBlock) : EntityOf(logs[i])' = EntityOf(logs[i])
      BY <1>7 DEF HandledTo, EntityOf, EntityId
    <2>3. {EntityOf(logs[i])' : i \in HandledTo(indexedBlock)} =
            {EntityOf(logs[i]) : i \in HandledTo(indexedBlock)}
      BY <2>2
    <2>4. entities' = {EntityOf(logs[i]) : i \in HandledTo(indexedBlock)}
      BY <1>4 DEF StreamsInv, EntitiesOfLogs
    <2>5. QED BY <2>1, <2>3, <2>4 DEF EntitiesOfLogs
  <1>11. ASSUME NEW c \in Nat, c <= indexedBlock PROVE Updated(c)' = Updated(c)
    <2> DEFINE Early == {j \in DOMAIN logs : logs[j].kind = "StoreUpdated" /\ logs[j].block <= c}
    <2>1. \A i \in DOMAIN (logs') \ DOMAIN logs : ~ (logs'[i].block <= c)
      BY <1>1, <1>6, <1>7, <1>11
    <2>2. DOMAIN logs \subseteq DOMAIN (logs')
      BY <1>1, <1>2, <1>7
    <2>3. {j \in DOMAIN (logs') : logs'[j].kind = "StoreUpdated" /\ logs'[j].block <= c} = Early
      BY <1>7, <2>1, <2>2
    <2>4. {logs'[i].store : i \in Early} = {logs[i].store : i \in Early}
      BY <1>7
    <2>5. QED BY <2>3, <2>4 DEF Updated
  <1>12. QED BY <1>8, <1>9, <1>10, <1>11 DEF StreamsInv

\* A block is handled as a whole.
LEMMA IndexKeeps ==
    ASSUME StreamsInv, IndexEvents
    PROVE  StreamsInv'
  <1> DEFINE b == indexedBlock + 1
  <1>1. /\ indexedBlock \in Nat /\ head \in Nat /\ indexedBlock < head /\ indexedBlock' = b
        /\ UNCHANGED <<logs, txs, head>>
    BY DEF StreamsInv, LogsTyped, IndexEvents, ethVars
  <1>2. entities' =
            entities \cup {EntityOf(logs[j]) : j \in {k \in DOMAIN logs : logs[k].block = b}}
    BY BlockHandled DEF IndexEvents
  <1>3. LogsTyped' /\ LogsApart'
    BY <1>1 DEF StreamsInv, LogsTyped, LogsApart
  <1>4. EntitiesOfLogs'
    <2>1. \A k \in DOMAIN logs : logs[k].block \in Nat
      BY LogTypes DEF StreamsInv
    <2>2. HandledTo(b) = HandledTo(indexedBlock) \cup {k \in DOMAIN logs : logs[k].block = b}
      BY <1>1, <2>1 DEF HandledTo
    <2>3. entities' = {EntityOf(logs[i]) : i \in HandledTo(b)}
      BY <1>2, <2>2 DEF StreamsInv, EntitiesOfLogs
    <2>4. QED BY <1>1, <2>3 DEF EntitiesOfLogs, HandledTo, EntityOf, EntityId
  <1>5. QED BY <1>3, <1>4 DEF StreamsInv

LEMMA StreamsStep == StreamsInv /\ [StreamsNext]_streamVars => StreamsInv'
  <1> SUFFICES ASSUME StreamsInv, [StreamsNext]_streamVars PROVE StreamsInv'
    OBVIOUS
  <1>1. CASE UNCHANGED <<ethVars, subgraphVars>>
    BY <1>1 DEF ethVars, subgraphVars, StreamsInv, LogsTyped, LogsApart, EntitiesOfLogs,
       HandledTo, EntityOf, EntityId
  <1>2. ASSUME Require \/ StartCall \/ PassGate \/ GateTimesOut \/ ReadPage \/ QueryFails
               \/ \E lost \in SUBSET {res[i] : i \in DOMAIN res} : Resolve(lost)
        PROVE  UNCHANGED <<ethVars, subgraphVars>>
    BY <1>2 DEF Require, StartCall, PassGate, GateTimesOut, ReadPage, QueryFails, Resolve
  <1>3. QED BY <1>1, <1>2, EmitKeeps, IndexKeeps DEF StreamsNext, streamVars

\* However many events of a kind a transaction has, and whatever is indexed
\* when: the subgraph has one entity for each event that it handled, and no other.
THEOREM EventsHaveEntities == StreamsSpec => []EntityPerEvent
  <1>1. ASSUME StreamsInv PROVE EntityPerEvent
    <2> DEFINE handled == HandledTo(indexedBlock)
               f == [i \in handled |-> EntityOf(logs[i])]
    <2>1. \A i \in handled : EntityOf(logs[i]) \in entities
      BY <1>1 DEF StreamsInv, EntitiesOfLogs
    <2>2. \A i, j \in handled : EntityOf(logs[i]) = EntityOf(logs[j]) => i = j
      <3> SUFFICES ASSUME NEW i \in handled, NEW j \in handled,
                          EntityOf(logs[i]) = EntityOf(logs[j])
                   PROVE  i = j
        OBVIOUS
      <3>1. <<logs[i].tx, logs[i].index>> = <<logs[j].tx, logs[j].index>>
        BY DEF EntityOf, EntityId
      <3>2. i \in DOMAIN logs /\ j \in DOMAIN logs
        BY DEF HandledTo
      <3>3. QED BY <1>1, <3>1, <3>2 DEF StreamsInv, LogsApart
    <2>3. IsFiniteSet(handled)
      <3>1. DOMAIN logs = 1 .. Len(logs) /\ Len(logs) \in Nat
        BY <1>1 DEF StreamsInv, LogsTyped
      <3>2. IsFiniteSet(1 .. Len(logs))
        BY <3>1, FS_Interval
      <3>3. QED BY <3>1, <3>2, FS_Subset DEF HandledTo
    <2>4. Cardinality(entities) = Cardinality(handled)
      <3>1. f \in Bijection(handled, entities)
        <4>1. f \in [handled -> entities]
          BY <2>1
        <4>2. \A i, j \in handled : f[i] = f[j] => i = j
          BY <2>2
        <4>3. \A e \in entities : \E i \in handled : f[i] = e
          BY <1>1 DEF StreamsInv, EntitiesOfLogs
        <4> HIDE DEF f, handled
        <4>4. QED BY <4>1, <4>2, <4>3 DEF Bijection, Injection, Surjection, IsInjective
      <3> HIDE DEF f, handled
      <3>2. ExistsBijection(handled, entities)
        BY <3>1 DEF ExistsBijection
      <3>3. QED BY <2>3, <3>2, FS_Bijection
    <2>5. QED BY <2>1, <2>4 DEF EntityPerEvent, HandledTo, EntityOf
  <1>2. QED BY <1>1, StreamsInitially, StreamsStep, PTL DEF StreamsSpec

\* The subgraph has finitely many entities.
LEMMA EntitiesFinite ==
    ASSUME StreamsInv
    PROVE  IsFiniteSet(entities)
  <1> DEFINE f == [i \in HandledTo(indexedBlock) |-> EntityOf(logs[i])]
  <1>1. IsFiniteSet(HandledTo(indexedBlock))
    <2>1. DOMAIN logs = 1 .. Len(logs) /\ Len(logs) \in Nat
      BY DEF StreamsInv, LogsTyped
    <2>2. IsFiniteSet(1 .. Len(logs))
      BY <2>1, FS_Interval
    <2>3. QED BY <2>1, <2>2, FS_Subset DEF HandledTo
  <1>2. f \in Surjection(HandledTo(indexedBlock), entities)
    BY DEF StreamsInv, EntitiesOfLogs, Surjection
  <1> HIDE DEF f
  <1>3. QED BY <1>1, <1>2, FS_Surjection

(***************************************************************************)
(* A page of StoredStreams: what the order by store and the bound of the   *)
(* page leave out.                                                         *)
(***************************************************************************)

Below(U, s) == {e \in U : e.store < s}
UpTo(U, s) == {e \in U : e.store <= s}
InPlace(U, s, i) == Cardinality(Below(U, s)) < i /\ i <= Cardinality(UpTo(U, s))

LEMMA PlacesCount ==
    ASSUME NEW U, IsFiniteSet(U), NEW s
    PROVE  /\ IsFiniteSet(Below(U, s)) /\ Cardinality(Below(U, s)) \in Nat
           /\ IsFiniteSet(UpTo(U, s)) /\ Cardinality(UpTo(U, s)) \in Nat
           /\ Cardinality(UpTo(U, s)) <= Cardinality(U)
  <1>1. Below(U, s) \subseteq U /\ UpTo(U, s) \subseteq U
    BY DEF Below, UpTo
  <1>2. QED BY <1>1, FS_Subset, FS_CardinalityType

\* What is below one store is within what is up to a lower one.
LEMMA PlacesGrow ==
    ASSUME NEW U, IsFiniteSet(U), \A e \in U : e.store \in Nat, NEW r \in Nat, NEW s \in Nat, r < s
    PROVE  Cardinality(UpTo(U, r)) <= Cardinality(Below(U, s))
  <1>1. UpTo(U, r) \subseteq Below(U, s)
    BY DEF Below, UpTo
  <1>2. QED BY <1>1, PlacesCount, FS_Subset

\* Every place of the order is a store's.
LEMMA EveryPlaceTaken ==
    ASSUME NEW U, IsFiniteSet(U), \A e \in U : e.store \in Nat,
           NEW i \in 1 .. Cardinality(U)
    PROVE  \E s \in {e.store : e \in U} : InPlace(U, s, i)
  <1> DEFINE Stores == {e.store : e \in U}
             T == {m \in Nat : Cardinality(UpTo(U, m)) < i}
  <1>1. Cardinality(U) \in Nat /\ i \in Nat /\ i > 0
    BY FS_CardinalityType
  <1>2. SUFFICES ASSUME \A s \in Stores : ~ InPlace(U, s, i) PROVE FALSE
    OBVIOUS
  <1>3. \A m \in Nat : Cardinality(UpTo(U, m)) \in Nat /\ Cardinality(Below(U, m)) \in Nat
    BY PlacesCount
  <1>4. ASSUME NEW m \in Nat, Cardinality(Below(U, m)) < i, Cardinality(Below(U, m)) \in Nat
        PROVE  m \in T
    <2>1. CASE m \in Stores
      <3>1. ~ InPlace(U, m, i)
        BY <1>2, <2>1
      <3>2. Cardinality(UpTo(U, m)) \in Nat
        BY <1>3
      <3>3. QED BY <1>1, <1>4, <3>1, <3>2 DEF InPlace
    <2>2. CASE m \notin Stores
      <3>1. UpTo(U, m) = Below(U, m)
        BY <2>2 DEF UpTo, Below
      <3>2. QED BY <1>4, <3>1
    <2>3. QED BY <2>1, <2>2
  <1>5. Nat \subseteq T
    <2>1. 0 \in T
      <3>1. Below(U, 0) = {}
        BY DEF Below
      <3>2. QED BY <1>1, <1>4, <3>1, FS_EmptySet
    <2>2. ASSUME NEW m \in Nat, m \in T PROVE m + 1 \in T
      <3>1. Below(U, m + 1) = UpTo(U, m)
        BY DEF Below, UpTo
      <3>2. m + 1 \in Nat
        OBVIOUS
      <3>3. QED BY <1>3, <1>4, <2>2, <3>1, <3>2
    <2> HIDE DEF T
    <2>3. QED BY <2>1, <2>2, NatSetInduction
  <1>6. PICK m \in Nat : \A e \in U : e.store <= m
    <2>1. IsFiniteSet(Stores)
      <3> DEFINE f == [e \in U |-> e.store]
      <3>1. f \in Surjection(U, Stores)
        <4>1. f \in [U -> Stores] /\ \A s \in Stores : \E e \in U : f[e] = s
          OBVIOUS
        <4>2. QED BY <4>1 DEF Surjection
      <3> HIDE DEF f, Stores
      <3>2. QED BY <3>1, FS_Surjection
    <2>2. CASE U = {}
      BY <2>2
    <2>3. CASE U # {}
      <3>1. Stores \in SUBSET Int /\ Stores # {} /\ Stores \subseteq Nat
        BY <2>3
      <3>2. Max(Stores) \in Stores /\ \A x \in Stores : Max(Stores) >= x
        <4> HIDE DEF Stores
        <4>1. QED BY <2>1, <3>1, MaxOfFinite
      <3>3. QED BY <3>1, <3>2
    <2>4. QED BY <2>2, <2>3
  <1>7. UpTo(U, m) = U
    BY <1>6 DEF UpTo
  <1>8. QED BY <1>1, <1>5, <1>7

\* A store is in the last place of those up to it, and no other is.
LEMMA PlaceOfStore ==
    ASSUME NEW U, IsFiniteSet(U), \A e \in U : e.store \in Nat, NEW e \in U,
           NEW i, i = Cardinality(UpTo(U, e.store))
    PROVE  /\ i \in 1 .. Cardinality(U)
           /\ InPlace(U, e.store, i)
           /\ \A s \in {d.store : d \in U} : InPlace(U, s, i) => s = e.store
  <1> DEFINE t == e.store
  <1>1. t \in Nat
    OBVIOUS
  <1>2. /\ Cardinality(Below(U, t)) \in Nat /\ Cardinality(UpTo(U, t)) \in Nat
        /\ Cardinality(UpTo(U, t)) <= Cardinality(U) /\ Cardinality(U) \in Nat
        /\ IsFiniteSet(Below(U, t)) /\ IsFiniteSet(UpTo(U, t))
    BY PlacesCount, FS_CardinalityType
  <1>3. Cardinality(Below(U, t)) < Cardinality(UpTo(U, t))
    <2>1. Below(U, t) \subseteq UpTo(U, t) \ {e} /\ e \in UpTo(U, t)
      BY <1>1 DEF Below, UpTo
    <2>2. /\ Cardinality(UpTo(U, t) \ {e}) = Cardinality(UpTo(U, t)) - 1
          /\ IsFiniteSet(UpTo(U, t) \ {e})
      BY <1>2, <2>1, FS_RemoveElement
    <2>3. Cardinality(Below(U, t)) <= Cardinality(UpTo(U, t) \ {e})
      BY <2>1, <2>2, FS_Subset
    <2>4. QED BY <1>2, <2>2, <2>3
  <1>4. i \in 1 .. Cardinality(U) /\ InPlace(U, t, i)
    BY <1>2, <1>3 DEF InPlace
  <1>5. ASSUME NEW s \in {d.store : d \in U}, InPlace(U, s, i) PROVE s = t
    <2>1. s \in Nat
      OBVIOUS
    <2>2. Cardinality(Below(U, s)) \in Nat /\ Cardinality(UpTo(U, s)) \in Nat
      BY PlacesCount
    <2>3. ~ (s < t)
      <3> SUFFICES ASSUME s < t PROVE FALSE
        OBVIOUS
      <3> HIDE DEF t
      <3>1. Cardinality(UpTo(U, s)) <= Cardinality(Below(U, t))
        BY <1>1, <2>1, PlacesGrow
      <3>2. QED BY <1>2, <1>3, <1>5, <2>2, <3>1 DEF InPlace, t
    <2>4. ~ (t < s)
      <3> SUFFICES ASSUME t < s PROVE FALSE
        OBVIOUS
      <3> HIDE DEF t
      <3>1. Cardinality(UpTo(U, t)) <= Cardinality(Below(U, s))
        BY <1>1, <2>1, PlacesGrow
      <3>2. QED BY <1>2, <1>5, <2>2, <3>1 DEF InPlace, t
    <2>5. QED BY <1>1, <2>1, <2>3, <2>4
  <1>6. QED BY <1>4, <1>5

\* A page that is not full has every update past its beginning; a full one has
\* those that are not past its last store.
LEMMA PageHas ==
    ASSUME StreamsInv, NEW last \in Int
    PROVE  /\ Page(last) \in Seq(Nat) /\ Len(Page(last)) <= PageSize
           /\ \A s \in Updated(indexedBlock) :
                s > last =>
                  \/ \E i \in DOMAIN Page(last) : Page(last)[i] = s
                  \/ Len(Page(last)) = PageSize /\ s > Page(last)[PageSize]
  <1> DEFINE U == {e \in entities : e.kind = "StoreUpdated" /\ e.store > last}
             n == Min({PageSize, Cardinality(U)})
             Stores == {e.store : e \in U}
             p == Page(last)
  <1>1. IsFiniteSet(U) /\ \A e \in U : e.store \in Nat
    <2>1. IsFiniteSet(entities)
      BY EntitiesFinite
    <2>2. \A e \in entities : e.store \in Nat
      <3>1. \A i \in DOMAIN logs : logs[i].store \in Nat
        BY LogTypes DEF StreamsInv, Logs
      <3>2. QED BY <3>1 DEF StreamsInv, EntitiesOfLogs, HandledTo, EntityOf
    <2>3. QED BY <2>1, <2>2, FS_Subset
  <1>2. /\ Cardinality(U) \in Nat /\ PageSize \in Nat \ {0} /\ n \in Nat
        /\ n = IF PageSize <= Cardinality(U) THEN PageSize ELSE Cardinality(U)
    <2>1. Cardinality(U) \in Nat
      BY <1>1, FS_CardinalityType
    <2> HIDE DEF U
    <2>2. QED BY <2>1, StreamsAssumption DEF Min
  <1>3. p = [i \in 1 .. n |-> CHOOSE s \in Stores : InPlace(U, s, i)]
    BY DEF Page, InPlace, Below, UpTo
  <1> HIDE DEF U, p
  <1>4. \A i \in 1 .. n : p[i] \in Stores /\ InPlace(U, p[i], i)
    <2> SUFFICES ASSUME NEW i \in 1 .. n PROVE p[i] \in Stores /\ InPlace(U, p[i], i)
      OBVIOUS
    <2>1. i \in 1 .. Cardinality(U)
      BY <1>2
    <2>2. \E s \in Stores : InPlace(U, s, i)
      BY <1>1, <2>1, EveryPlaceTaken
    <2>3. p[i] = CHOOSE s \in Stores : InPlace(U, s, i)
      BY <1>3
    <2> HIDE DEF Stores
    <2>4. QED BY <2>2, <2>3
  <1>5. Stores \subseteq Nat
    BY <1>1
  <1> HIDE DEF n
  <1>6. p \in Seq(Nat) /\ Len(p) = n /\ DOMAIN p = 1 .. n
    <2>1. p \in [1 .. n -> Nat]
      BY <1>3, <1>4, <1>5
    <2>2. QED BY <1>2, <2>1
  <1>7. ASSUME NEW s \in Updated(indexedBlock), s > last
        PROVE  \/ \E i \in DOMAIN p : p[i] = s
               \/ Len(p) = PageSize /\ s > p[PageSize]
    <2>1. PICK e \in U : e.store = s
      <3>1. PICK k \in DOMAIN logs : logs[k].kind = "StoreUpdated" /\ logs[k].block <= indexedBlock
                                     /\ logs[k].store = s
        BY DEF Updated
      <3>2. EntityOf(logs[k]) \in entities
        BY <3>1 DEF StreamsInv, EntitiesOfLogs, HandledTo
      <3>3. QED BY <1>7, <3>1, <3>2 DEF EntityOf, U
    <2> DEFINE i == Cardinality(UpTo(U, s))
    <2>2. /\ i \in 1 .. Cardinality(U) /\ InPlace(U, s, i)
          /\ \A r \in Stores : InPlace(U, r, i) => r = s
      BY <1>1, <2>1, PlaceOfStore
    <2>3. CASE i <= PageSize
      <3>1. i \in 1 .. n
        BY <1>2, <2>2, <2>3
      <3>2. QED BY <1>4, <1>6, <2>2, <3>1
    <2>4. CASE i > PageSize
      <3>1. n = PageSize /\ PageSize \in 1 .. n
        BY <1>2, <2>2, <2>4
      <3>2. InPlace(U, p[PageSize], PageSize) /\ p[PageSize] \in Nat
        BY <1>4, <1>5, <3>1
      <3>3. s \in Nat
        BY <1>1, <2>1
      <3>4. s >= p[PageSize]
        <4> SUFFICES ASSUME s < p[PageSize] PROVE FALSE
          BY <3>2, <3>3
        <4>1. i <= Cardinality(Below(U, p[PageSize]))
          BY <1>1, <3>2, <3>3, PlacesGrow
        <4>2. Cardinality(Below(U, p[PageSize])) \in Nat
          BY <1>1, PlacesCount
        <4>3. QED BY <1>2, <2>2, <2>4, <3>2, <4>1, <4>2 DEF InPlace
      <3>5. QED BY <1>6, <3>1, <3>2, <3>3, <3>4
    <2>5. QED BY <1>2, <2>2, <2>3, <2>4
  <1>8. Len(p) <= PageSize
    BY <1>2, <1>6
  <1>9. QED BY <1>6, <1>7, <1>8 DEF p

(***************************************************************************)
(* A call of getStoredStreams, while events are emitted and indexed.       *)
(***************************************************************************)

\* A stream that was stored up to the first page's block was collected, or lies
\* past the end of that page, which was full.
Collects(s) == \E i \in DOMAIN res : res[i] = s
PastFirstPage(s) == Len(res) >= PageSize /\ s > res[PageSize]

CallTyped ==
    /\ phase \in {"idle", "waiting", "paging", "resolving", "done", "failed"}
    /\ required \in Nat /\ required <= head
    /\ since \in Nat /\ since <= required
    /\ res \in Seq(Nat)
    /\ blockNumbers \in Seq(Nat) /\ pages = Len(blockNumbers)
    /\ lastId \in Int

PagesInOrder ==
    /\ \A i \in DOMAIN blockNumbers :
          since <= blockNumbers[i] /\ blockNumbers[i] <= indexedBlock
    /\ phase \in {"idle", "waiting"} => pages = 0
    /\ phase \in {"idle", "waiting", "paging"} /\ pages = 0 => lastId = 0 /\ res = << >>
    /\ phase = "paging" => since <= indexedBlock

FirstPageKept ==
    /\ phase = "paging" /\ pages > 0 =>
          /\ lastId = Undefined - 1
          /\ \A s \in Updated(blockNumbers[1]) : Collects(s) \/ PastFirstPage(s)
    /\ phase \in {"resolving", "done"} =>
          /\ pages > 0
          /\ \A s \in Updated(blockNumbers[1]) :
                Collects(s) \/ (pages > 1 /\ PastFirstPage(s) /\ s < Undefined)

PagingInv == StreamsInv /\ CallTyped /\ PagesInOrder /\ FirstPageKept

\* Updates that are indexed stay as they are.
LEMMA UpdatesStay ==
    ASSUME PagingInv, [StreamsNext]_streamVars, NEW b \in Nat, b <= indexedBlock
    PROVE  Updated(b)' = Updated(b)
  <1>1. CASE UNCHANGED logs
    BY <1>1 DEF Updated
  <1>2. ASSUME NEW t \in Transactions, NEW newBlock \in BOOLEAN, Emit(t, newBlock)
        PROVE  Updated(b)' = Updated(b)
    BY <1>2, EmitKeeps DEF PagingInv
  <1>3. QED
    BY <1>1, <1>2 DEF StreamsNext, streamVars, ethVars, IndexEvents, Require, StartCall,
       PassGate, GateTimesOut, ReadPage, QueryFails, Resolve

LEMMA UpdatesAreNat ==
    ASSUME StreamsInv, NEW b, NEW s \in Updated(b)
    PROVE  s \in Nat \ {0}
  <1>1. \A i \in DOMAIN logs : logs[i].store \in Nat \ {0}
    BY LogTypes DEF StreamsInv, Logs
  <1>2. QED BY <1>1 DEF Updated

\* A step that reads nothing keeps what the pages have.
LEMMA CallUntouched ==
    ASSUME PagingInv, StreamsInv', [StreamsNext]_streamVars,
           UNCHANGED callVars, head' >= head, indexedBlock' >= indexedBlock,
           required' \in Nat, required <= required', required' <= head'
    PROVE  PagingInv'
  <1>1. UNCHANGED <<phase, since, lastId, pages, res, blockNumbers>>
    BY DEF callVars
  <1>2. /\ indexedBlock \in Nat /\ indexedBlock' \in Nat /\ head \in Nat /\ head' \in Nat
    BY DEF PagingInv, StreamsInv, LogsTyped
  <1>3. CallTyped'
    BY <1>1, <1>2 DEF PagingInv, CallTyped
  <1>4. \A i \in DOMAIN blockNumbers : blockNumbers[i] \in Nat
    BY DEF PagingInv, CallTyped
  <1>5. PagesInOrder'
    BY <1>1, <1>2, <1>4 DEF PagingInv, PagesInOrder, CallTyped
  <1>6. pages > 0 => Updated(blockNumbers[1])' = Updated(blockNumbers[1])
    <2> SUFFICES ASSUME pages > 0 PROVE Updated(blockNumbers[1])' = Updated(blockNumbers[1])
      OBVIOUS
    <2>1. 1 \in DOMAIN blockNumbers
      BY DEF PagingInv, CallTyped
    <2> DEFINE c == blockNumbers[1]
    <2>2. c \in Nat /\ c <= indexedBlock /\ blockNumbers' = blockNumbers
      BY <1>1, <1>4, <2>1 DEF PagingInv, PagesInOrder
    <2>3. ASSUME NEW d \in Nat, d = c PROVE Updated(d)' = Updated(d)
      BY <2>2, <2>3, UpdatesStay
    <2>4. Updated(blockNumbers[1])' = Updated(c)'
      BY <2>2 DEF Updated
    <2>5. QED BY <2>2, <2>3, <2>4
  <1>7. FirstPageKept'
    BY <1>1, <1>6 DEF PagingInv, FirstPageKept, Collects, PastFirstPage
  <1>8. QED BY <1>3, <1>5, <1>7 DEF PagingInv

\* The indexed events are not touched by the client's steps.
LEMMA CallLeavesEvents ==
    ASSUME PagingInv, UNCHANGED <<ethVars, subgraphVars>>
    PROVE  /\ StreamsInv'
           /\ UNCHANGED <<logs, head, indexedBlock>>
           /\ \A b \in Nat : Updated(b)' = Updated(b)
  <1>1. UNCHANGED <<logs, txs, head, indexedBlock, entities>>
    BY DEF ethVars, subgraphVars
  <1>2. StreamsInv'
    BY <1>1 DEF PagingInv, StreamsInv, LogsTyped, LogsApart, EntitiesOfLogs, HandledTo,
       EntityOf, EntityId
  <1>3. QED BY <1>1, <1>2 DEF Updated

\* Beginning a call, the gate's opening or timing out, failing and resolving
\* read no page.
LEMMA NoPageKeeps ==
    ASSUME PagingInv,
           StartCall \/ PassGate \/ GateTimesOut \/ QueryFails
              \/ \E lost \in SUBSET {res[i] : i \in DOMAIN res} : Resolve(lost)
    PROVE  PagingInv'
  <1>1. UNCHANGED <<ethVars, subgraphVars, required, lastId, pages, res, blockNumbers>>
    BY DEF StartCall, PassGate, GateTimesOut, QueryFails, Resolve
  <1>2. StreamsInv' /\ UNCHANGED <<logs, head, indexedBlock>>
    BY <1>1, CallLeavesEvents
  <1>3. /\ indexedBlock \in Nat /\ head \in Nat /\ required \in Nat
        /\ since \in Nat /\ since <= required
    BY DEF PagingInv, StreamsInv, LogsTyped, CallTyped
  <1>0. \/ phase = "idle" /\ phase' = "waiting" /\ since' = required
        \/ phase = "waiting" /\ GateOpen /\ phase' = "paging" /\ since' = since
        \/ phase \in {"waiting", "paging"} /\ phase' = "failed" /\ since' = since
        \/ phase = "resolving" /\ phase' = "done" /\ since' = since
    BY DEF StartCall, PassGate, GateTimesOut, QueryFails, Resolve
  <1>4. CallTyped'
    BY <1>0, <1>1, <1>2, <1>3 DEF PagingInv, CallTyped
  <1>5. PagesInOrder'
    <2>1. CASE phase = "idle"
      <3>1. pages = 0 /\ DOMAIN blockNumbers = {} /\ phase' = "waiting"
        BY <1>0, <2>1 DEF PagingInv, PagesInOrder, CallTyped
      <3>2. QED
        BY <1>1, <1>2, <2>1, <3>1 DEF PagingInv, PagesInOrder
    <2>2. CASE phase # "idle"
      BY <1>0, <1>1, <1>2, <1>3, <2>2 DEF GateOpen, PagingInv, PagesInOrder
    <2>3. QED BY <2>1, <2>2
  <1>6. Updated(blockNumbers[1])' = Updated(blockNumbers[1])
    BY <1>1, <1>2 DEF Updated
  <1>7. FirstPageKept'
    <2>1. CASE phase' = "paging"
      BY <1>0, <1>1, <2>1 DEF PagingInv, PagesInOrder, FirstPageKept
    <2>2. CASE phase' = "done"
      BY <1>0, <1>1, <1>6, <2>2 DEF PagingInv, FirstPageKept, Collects, PastFirstPage
    <2>3. QED BY <1>0, <2>1, <2>2 DEF FirstPageKept
  <1>8. QED BY <1>2, <1>4, <1>5, <1>7 DEF PagingInv

\* Appending to a sequence keeps what it has.
LEMMA CollectedMore ==
    ASSUME NEW r \in Seq(Nat), NEW p \in Seq(Nat)
    PROVE  /\ r \o p \in Seq(Nat) /\ Len(r \o p) = Len(r) + Len(p)
           /\ \A i \in DOMAIN r : i \in DOMAIN (r \o p) /\ (r \o p)[i] = r[i]
           /\ \A i \in DOMAIN p : Len(r) + i \in DOMAIN (r \o p) /\ (r \o p)[Len(r) + i] = p[i]
  BY ConcatProperties

\* The first page takes the least of the streams; a later one those from
\* "undefined" on, which are all there are once it is not full.
LEMMA ReadPageKeeps ==
    ASSUME PagingInv, ReadPage
    PROVE  PagingInv'
  <1> DEFINE items == Page(lastId)
  <1>1. /\ phase = "paging" /\ pages' = pages + 1
        /\ res' = res \o items
        /\ blockNumbers' = Append(blockNumbers, indexedBlock)
        /\ \/ Len(items) # PageSize /\ phase' = "resolving" /\ UNCHANGED lastId
           \/ Len(items) = PageSize /\ lastId' = Undefined - 1 /\ phase' = "paging"
        /\ UNCHANGED <<ethVars, subgraphVars, required, since>>
    BY DEF ReadPage, Collected, IsLastPage, NextId
  <1>2. /\ StreamsInv' /\ UNCHANGED <<logs, head, indexedBlock>>
        /\ \A b \in Nat : Updated(b)' = Updated(b)
    BY <1>1, CallLeavesEvents
  <1>3. /\ StreamsInv /\ lastId \in Int /\ indexedBlock \in Nat /\ since \in Nat
        /\ res \in Seq(Nat) /\ blockNumbers \in Seq(Nat) /\ pages = Len(blockNumbers)
        /\ PageSize \in Nat \ {0} /\ Undefined \in Nat
    BY StreamsAssumption DEF PagingInv, CallTyped, StreamsInv, LogsTyped
  <1>4. /\ items \in Seq(Nat) /\ Len(items) <= PageSize
        /\ \A s \in Updated(indexedBlock) :
              s > lastId =>
                \/ \E i \in DOMAIN items : items[i] = s
                \/ Len(items) = PageSize /\ s > items[PageSize]
    BY <1>3, PageHas
  <1> HIDE DEF items
  <1>5. /\ res' \in Seq(Nat) /\ Len(res') = Len(res) + Len(items)
        /\ \A i \in DOMAIN res : i \in DOMAIN (res') /\ res'[i] = res[i]
        /\ \A i \in DOMAIN items :
              Len(res) + i \in DOMAIN (res') /\ res'[Len(res) + i] = items[i]
        /\ Len(items) \in Nat /\ Len(res) \in Nat
    <2> DEFINE all == res \o items
    <2>1. /\ all \in Seq(Nat) /\ Len(all) = Len(res) + Len(items)
          /\ \A i \in DOMAIN res : i \in DOMAIN all /\ all[i] = res[i]
          /\ \A i \in DOMAIN items : Len(res) + i \in DOMAIN all /\ all[Len(res) + i] = items[i]
      BY <1>3, <1>4, CollectedMore
    <2>2. res' = all /\ Len(items) \in Nat /\ Len(res) \in Nat
      BY <1>1, <1>3, <1>4
    <2> HIDE DEF all
    <2>3. QED BY <2>1, <2>2
  <1>6. /\ blockNumbers' \in Seq(Nat) /\ Len(blockNumbers') = pages + 1
        /\ \A i \in DOMAIN blockNumbers : blockNumbers'[i] = blockNumbers[i]
        /\ blockNumbers'[pages + 1] = indexedBlock
        /\ DOMAIN blockNumbers = 1 .. pages /\ DOMAIN (blockNumbers') = 1 .. pages + 1
        /\ pages \in Nat
    BY <1>1, <1>3
  <1>7. CallTyped'
    BY <1>1, <1>2, <1>3, <1>5, <1>6 DEF PagingInv, CallTyped
  <1>8. PagesInOrder'
    <2>1. since <= indexedBlock
      BY <1>1 DEF PagingInv, PagesInOrder
    <2>2. ASSUME NEW i \in 1 .. pages + 1
          PROVE  since <= blockNumbers'[i] /\ blockNumbers'[i] <= indexedBlock
      <3>1. CASE i = pages + 1
        BY <1>3, <1>6, <2>1, <3>1
      <3>2. CASE i # pages + 1
        <4>1. i \in DOMAIN blockNumbers
          BY <1>6, <3>2
        <4>2. QED BY <1>6, <4>1 DEF PagingInv, PagesInOrder
      <3>3. QED BY <3>1, <3>2
    <2>3. QED BY <1>1, <1>2, <1>6, <2>1, <2>2 DEF PagesInOrder
  <1>9. ASSUME NEW s \in Nat, Collects(s) PROVE Collects(s)'
    BY <1>5, <1>9 DEF Collects
  <1>10. ASSUME NEW s \in Nat, \E i \in DOMAIN items : items[i] = s PROVE Collects(s)'
    BY <1>5, <1>10 DEF Collects
  <1>11. ASSUME NEW s \in Nat, PastFirstPage(s) PROVE PastFirstPage(s)'
    <2>1. PageSize \in DOMAIN res /\ Len(res') >= PageSize
      BY <1>3, <1>5, <1>11 DEF PastFirstPage
    <2>2. QED BY <1>5, <1>11, <2>1 DEF PastFirstPage
  <1>12. CASE pages = 0
    <2>1. /\ lastId = 0 /\ res = << >> /\ blockNumbers'[1] = indexedBlock
          /\ res' = items
      BY <1>1, <1>4, <1>6, <1>12 DEF PagingInv, PagesInOrder
    <2>2. Updated(blockNumbers[1])' = Updated(indexedBlock)
      BY <1>2, <1>3, <2>1 DEF Updated
    <2>3. ASSUME NEW s \in Updated(indexedBlock)
          PROVE  Collects(s)' \/ (Len(items) = PageSize /\ PastFirstPage(s)')
      <3>1. s \in Nat /\ s > lastId
        BY <1>3, <2>1, UpdatesAreNat
      <3>2. CASE \E i \in DOMAIN items : items[i] = s
        BY <1>10, <3>1, <3>2
      <3>3. CASE Len(items) = PageSize /\ s > items[PageSize]
        BY <2>1, <3>3, <1>3 DEF PastFirstPage
      <3>4. QED BY <1>4, <3>1, <3>2, <3>3
    <2>4. FirstPageKept'
      BY <1>1, <1>6, <2>2, <2>3 DEF FirstPageKept
    <2>5. QED BY <1>2, <1>7, <1>8, <2>4 DEF PagingInv
  <1>13. CASE pages > 0
    <2>1. /\ lastId = Undefined - 1
          /\ \A s \in Updated(blockNumbers[1]) : Collects(s) \/ PastFirstPage(s)
      BY <1>1, <1>13 DEF PagingInv, FirstPageKept
    <2>2. 1 \in DOMAIN blockNumbers /\ blockNumbers[1] \in Nat /\ blockNumbers[1] <= indexedBlock
      <3>1. 1 \in DOMAIN blockNumbers
        BY <1>6, <1>13
      <3>2. blockNumbers[1] \in Nat
        BY <1>3, <3>1
      <3>3. PagesInOrder
        BY <1>1 DEF PagingInv
      <3>4. blockNumbers[1] <= indexedBlock
        BY <3>1, <3>3 DEF PagesInOrder
      <3>5. QED BY <3>1, <3>2, <3>4
    <2>3. Updated(blockNumbers[1])' = Updated(blockNumbers[1])
      BY <1>2, <1>6, <2>2 DEF Updated
    <2>4. ASSUME NEW s \in Updated(blockNumbers[1])
          PROVE  s \in Nat /\ s \in Updated(indexedBlock)
      <3>1. \A i \in DOMAIN logs : logs[i].block \in Nat
        BY <1>3, LogTypes DEF StreamsInv
      <3>2. s \in Nat
        BY <1>3, UpdatesAreNat
      <3>3. s \in Updated(indexedBlock)
        BY <1>3, <2>2, <3>1 DEF Updated
      <3>4. QED BY <3>2, <3>3
    <2>5. ASSUME NEW s \in Updated(blockNumbers[1])
          PROVE  Collects(s)' \/ PastFirstPage(s)'
      BY <1>9, <1>11, <2>1, <2>4
    <2>6. ASSUME NEW s \in Updated(blockNumbers[1]), Len(items) # PageSize
          PROVE  Collects(s)' \/ (PastFirstPage(s)' /\ s < Undefined)
      <3>1. CASE s < Undefined
        BY <2>5, <3>1
      <3>2. CASE ~ (s < Undefined)
        <4>1. s > lastId
          BY <1>3, <2>1, <2>4, <3>2
        <4>2. QED BY <1>4, <1>10, <2>4, <2>6, <4>1
      <3>3. QED BY <3>1, <3>2
    <2>7. FirstPageKept'
      BY <1>1, <1>6, <1>13, <2>3, <2>5, <2>6 DEF FirstPageKept
    <2>8. QED BY <1>2, <1>7, <1>8, <2>7 DEF PagingInv
  <1>14. QED BY <1>6, <1>12, <1>13

LEMMA PagingInitially == StreamsInit => PagingInv
  <1> SUFFICES ASSUME StreamsInit PROVE PagingInv
    OBVIOUS
  <1>1. StreamsInv
    BY StreamsInitially
  <1>2. /\ phase = "idle" /\ required = 0 /\ head = 0 /\ since = 0 /\ lastId = 0 /\ pages = 0
        /\ res = << >> /\ blockNumbers = << >>
    BY DEF StreamsInit
  <1>3. << >> \in Seq(Nat) /\ Len(<< >>) = 0
    OBVIOUS
  <1>4. QED BY <1>1, <1>2, <1>3 DEF PagingInv, CallTyped, PagesInOrder, FirstPageKept

LEMMA PagingStep == PagingInv /\ [StreamsNext]_streamVars => PagingInv'
  <1> SUFFICES ASSUME PagingInv, [StreamsNext]_streamVars PROVE PagingInv'
    OBVIOUS
  <1>1. StreamsInv'
    BY StreamsStep DEF PagingInv
  <1>2. /\ head \in Nat /\ indexedBlock \in Nat /\ indexedBlock <= head
        /\ required \in Nat /\ required <= head
    BY DEF PagingInv, StreamsInv, LogsTyped, CallTyped
  <1>3. CASE UNCHANGED callVars /\ head' >= head /\ indexedBlock' >= indexedBlock
             /\ (required' = required \/ (required' = head /\ head' = head))
    <2>1. head' \in Nat
      BY <1>1 DEF StreamsInv, LogsTyped
    <2>2. required' \in Nat /\ required <= required' /\ required' <= head'
      BY <1>2, <1>3, <2>1
    <2>3. QED BY <1>1, <1>3, <2>2, CallUntouched
  <1>4. ASSUME NEW t \in Transactions, NEW newBlock \in BOOLEAN, Emit(t, newBlock)
        PROVE  PagingInv'
    BY <1>2, <1>3, <1>4 DEF Emit, subgraphVars
  <1>5. CASE IndexEvents
    <2>1. /\ UNCHANGED callVars /\ head' = head /\ required' = required
          /\ indexedBlock' = indexedBlock + 1
      BY <1>5, Zenon DEF IndexEvents, ethVars
    <2>2. QED BY <1>2, <1>3, <2>1
  <1>6. CASE Require
    BY <1>2, <1>3, <1>6 DEF Require, ethVars, subgraphVars
  <1>7. CASE UNCHANGED streamVars
    BY <1>2, <1>3, <1>7 DEF streamVars, ethVars, subgraphVars
  <1>8. QED
    BY <1>4, <1>5, <1>6, <1>7, NoPageKeeps, ReadPageKeeps DEF StreamsNext

\* The least of the block numbers of the pages is not above the first.
LEMMA EarliestOfPages ==
    ASSUME NEW s \in Seq(Nat), Len(s) > 0
    PROVE  Earliest(s) <= s[1] /\ Earliest(s) \in Nat
  <1> DEFINE T == {s[i] : i \in DOMAIN s}
             R == OpToRel(<, Nat)
  <1>1. T \subseteq Nat /\ s[1] \in T
    OBVIOUS
  <1>2. PICK b \in T : \A c \in T : ~ (<<c, b>> \in R)
    <2>1. IsWellFoundedOn(R, Nat)
      BY NatLessThanWellFounded
    <2> HIDE DEF T, R
    <2>2. QED BY <1>1, <2>1, WFMin
  <1>3. ASSUME NEW c \in T PROVE b <= c
    <2>1. b \in Nat /\ c \in Nat
      BY <1>1
    <2>2. ~ (<<c, b>> \in R)
      BY <1>2
    <2>3. QED BY <2>1, <2>2 DEF OpToRel
  <1>4. 1 \in DOMAIN s /\ \A i \in DOMAIN s : s[i] \in T
    OBVIOUS
  <1> HIDE DEF T
  <1>5. \E c \in T : \A i \in DOMAIN s : c <= s[i]
    BY <1>3, <1>4
  <1>6. Earliest(s) \in T /\ \A i \in DOMAIN s : Earliest(s) <= s[i]
    BY <1>5 DEF Earliest, T
  <1>7. QED BY <1>1, <1>4, <1>6 DEF T

\* For any transactions, page size and number of streams, however blocks are
\* emitted and indexed meanwhile: getStoredStreams misses no stream stored up to
\* the block it returns or the block it waited for, except those after a full
\* first page and before "undefined".
THEOREM StreamsMissedOnlyPastAPage == StreamsSpec => []MissesOnlyPastAPage
  <1>1. ASSUME PagingInv PROVE MissesOnlyPastAPage
    <2> SUFFICES ASSUME phase \in {"resolving", "done"},
                        NEW s \in Updated(BlockNumber) \cup Updated(since)
                 PROVE  \/ \E i \in DOMAIN res : res[i] = s
                        \/ pages > 1 /\ s > res[PageSize] /\ s < Undefined
      BY DEF MissesOnlyPastAPage
    <2>1. /\ blockNumbers \in Seq(Nat) /\ pages = Len(blockNumbers) /\ pages > 0
          /\ since \in Nat
      BY <1>1 DEF PagingInv, CallTyped, FirstPageKept
    <2>2. blockNumbers[1] \in Nat /\ since <= blockNumbers[1]
      BY <1>1, <2>1 DEF PagingInv, PagesInOrder
    <2>3. BlockNumber <= blockNumbers[1] /\ BlockNumber \in Nat
      BY <2>1, EarliestOfPages DEF BlockNumber
    <2>4. ASSUME NEW b \in Nat, b <= blockNumbers[1], s \in Updated(b)
          PROVE  s \in Updated(blockNumbers[1])
      <3>1. \A i \in DOMAIN logs : logs[i].block \in Nat
        BY <1>1, LogTypes DEF PagingInv, StreamsInv
      <3>2. QED BY <2>2, <2>4, <3>1 DEF Updated
    <2>5. s \in Updated(blockNumbers[1])
      BY <2>1, <2>2, <2>3, <2>4
    <2>6. QED BY <1>1, <2>5 DEF PagingInv, FirstPageKept, Collects, PastFirstPage
  <1>2. QED BY <1>1, PagingInitially, PagingStep, PTL DEF StreamsSpec

=============================================================================

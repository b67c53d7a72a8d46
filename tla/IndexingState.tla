---------------------------- MODULE IndexingState ----------------------------
(***************************************************************************)
(* SynchronizedGraphQLClient of the client                                 *)
(* (client/src/utils/SynchronizedGraphQLClient.ts): a query waits behind a *)
(* gate until The Graph has indexed the block the client last wrote to.    *)
(*                                                                         *)
(* JavaScript runs one callback at a time, so a step is what runs between  *)
(* two awaits.  The steps of the polling loop are those between its await  *)
(* of getCurrentBlockNumber and its await of the retry interval; nothing   *)
(* prevents a second loop from being started while one is at an await.     *)
(* A gate belongs to one call, so the set of gates is the set of the calls *)
(* whose gate is in `gates`.                                               *)
(***************************************************************************)
EXTENDS Integers

CONSTANTS
    Calls,        \* calls of sendQuery under way at once
    Loops,        \* bound of the model: polling loops that run at once
    MaxBlock,     \* bound of the model: the last block of the chain
    MaxFailures   \* bound of the model: polls that fail

ASSUME MaxBlockAssumption == MaxBlock \in Nat
ASSUME MaxFailuresAssumption == MaxFailures \in Nat

VARIABLES
    requiredBlockNumber,
    blockNumber,     \* the last poll result
    gates,           \* the gates that are closed
    gateBlock,       \* gate.blockNumber of each call
    call,            \* what each call of sendQuery does
    loop, answer,    \* what each polling loop does, and the answer it was sent
    indexed,         \* the block that The Graph has indexed
    failures         \* how many polls failed

clientVars == <<requiredBlockNumber, blockNumber, gates, gateBlock, call>>
loopVars == <<loop, answer>>
graphVars == <<indexed, failures>>
indexingVars == <<clientVars, loopVars, graphVars>>

Blocks == 0 .. MaxBlock

-----------------------------------------------------------------------------
\* Mutant: a gate for the very block that was polled stays closed.
OpensLater(c, b) == gateBlock[c] < b
\* Mutant: a query of the block that is required next is let through.
OneBehind(b) == b > blockNumber + 1
\* Mutant: a loop that found a new block number ends without looking for gates.
EndsAfterNews(open) == IF open = gates THEN "sleeping" ELSE "off"

-----------------------------------------------------------------------------
\* Math.max(blockNumber, this.requiredBlockNumber)
Required(b) == IF b > requiredBlockNumber THEN b ELSE requiredBlockNumber

\* updateRequiredBlockNumber(b), after a transaction in block b.
UpdateRequiredBlockNumber(b) ==
    /\ requiredBlockNumber' = Required(b)
    /\ UNCHANGED <<blockNumber, gates, gateBlock, call, loopVars, graphVars>>

\* Whether getOrCreateGate closes the gate it made.
MustWait(b) == b > blockNumber

\* Whether polling must be started for a new gate beside the others.
NotPolling(others) == others = {}

\* sendQuery up to its first await.  The new loop starts with a poll at once.
StartQuery(c) ==
    /\ call[c] = "idle"
    /\ gateBlock' = [gateBlock EXCEPT ![c] = requiredBlockNumber]
    /\ IF MustWait(requiredBlockNumber)
       THEN /\ gates' = gates \cup {c}
            /\ call' = [call EXCEPT ![c] = "waiting"]
            /\ IF NotPolling(gates)
               THEN \E l \in Loops :
                        /\ loop[l] = "off"
                        /\ loop' = [loop EXCEPT ![l] = "polling"]
               ELSE UNCHANGED loop
       ELSE /\ call' = [call EXCEPT ![c] = "passed"]
            /\ UNCHANGED <<gates, loop>>
    /\ UNCHANGED <<requiredBlockNumber, blockNumber, answer, graphVars>>

\* withTimeout gives up on gate.check().
TimeOut(c) ==
    /\ call[c] = "waiting"
    /\ gates' = gates \ {c}
    /\ call' = [call EXCEPT ![c] = "timedOut"]
    /\ UNCHANGED <<requiredBlockNumber, blockNumber, gateBlock, loopVars, graphVars>>

\* The delegate's query is sent, or the TimeoutError thrown; the caller may
\* then start another.
Return(c) ==
    /\ call[c] \in {"passed", "timedOut"}
    /\ call' = [call EXCEPT ![c] = "idle"]
    /\ UNCHANGED <<requiredBlockNumber, blockNumber, gates, gateBlock, loopVars, graphVars>>

\* The Graph reads its block number for a poll; the answer is under way.
Answer(l) ==
    /\ loop[l] = "polling"
    /\ loop' = [loop EXCEPT ![l] = "answered"]
    /\ answer' = [answer EXCEPT ![l] = indexed]
    /\ UNCHANGED <<clientVars, graphVars>>

\* gate.blockNumber <= this.blockNumber in the loop over the gates.
Reached(c, b) == gateBlock[c] <= b

\* The gates that stay closed when b is polled; the loop over them is skipped
\* for the number that is known.
StillClosed(b) == IF b = blockNumber THEN gates ELSE {c \in gates : ~Reached(c, b)}

\* What a loop does next: it waits for the interval while gates are closed.
NextPoll(closed) == IF closed # {} THEN "sleeping" ELSE "off"

\* The rest of a round of startPolling after the answer arrived.
PollReturns(l) ==
    /\ loop[l] = "answered"
    /\ blockNumber' = answer[l]
    /\ gates' = StillClosed(answer[l])
    /\ call' = [c \in Calls |-> IF c \in gates \ gates' THEN "passed" ELSE call[c]]
    /\ loop' = [loop EXCEPT ![l] = NextPoll(gates')]
    /\ UNCHANGED <<requiredBlockNumber, gateBlock, answer, graphVars>>

\* The retry interval is over: the while condition is evaluated.
Wake(l) ==
    /\ loop[l] = "sleeping"
    /\ loop' = [loop EXCEPT ![l] = IF gates # {} THEN "polling" ELSE "off"]
    /\ UNCHANGED <<clientVars, answer, graphVars>>

\* getCurrentBlockNumber rejects, and the loop's promise with it: nobody
\* awaits that promise, and the gates stay closed.
PollFails(l) ==
    /\ loop[l] = "polling"
    /\ failures < MaxFailures
    /\ failures' = failures + 1
    /\ loop' = [loop EXCEPT ![l] = "off"]
    /\ UNCHANGED <<clientVars, answer, indexed>>

\* The Graph indexes another block.
IndexBlock ==
    /\ indexed < MaxBlock
    /\ indexed' = indexed + 1
    /\ UNCHANGED <<clientVars, loopVars, failures>>

-----------------------------------------------------------------------------
IndexingInit ==
    /\ requiredBlockNumber = 0
    /\ blockNumber = 0
    /\ gates = {}
    /\ gateBlock = [c \in Calls |-> 0]
    /\ call = [c \in Calls |-> "idle"]
    /\ loop = [l \in Loops |-> "off"]
    /\ answer = [l \in Loops |-> 0]
    /\ indexed = 0
    /\ failures = 0

LoopStep(l) == Answer(l) \/ PollReturns(l) \/ Wake(l)

IndexingNext ==
    \/ \E b \in Blocks : UpdateRequiredBlockNumber(b)
    \/ \E c \in Calls : StartQuery(c) \/ TimeOut(c) \/ Return(c)
    \/ \E l \in Loops : LoopStep(l) \/ PollFails(l)
    \/ IndexBlock

\* A poll that does not fail is answered, and the retry timer fires.
Polling == \A l \in Loops : WF_indexingVars(LoopStep(l))
\* So does the timer of withTimeout.
Timers == \A c \in Calls : WF_indexingVars(TimeOut(c))

IndexingSpec == IndexingInit /\ [][IndexingNext]_indexingVars /\ Polling
TimedIndexingSpec == IndexingSpec /\ Timers

-----------------------------------------------------------------------------
(* Properties *)

\* The state has its type; the blocks the client requires are the chain's.
IndexingTypeOK ==
    /\ requiredBlockNumber \in Blocks
    /\ blockNumber \in Blocks
    /\ gates \subseteq Calls
    /\ gateBlock \in [Calls -> Blocks]
    /\ call \in [Calls -> {"idle", "waiting", "passed", "timedOut"}]
    /\ loop \in [Loops -> {"off", "polling", "answered", "sleeping"}]
    /\ answer \in [Loops -> Blocks]
    /\ indexed \in Blocks
    /\ failures \in 0 .. MaxFailures

\* A query is sent only when The Graph has indexed the block that was required
\* as the query was made, whichever loop's answer let it through and however
\* late that answer came.
QueriesAreUpToDate ==
    \A c \in Calls : call[c] = "passed" => gateBlock[c] <= indexed

\* No gate is left behind by the poll that reached it: a call waits exactly
\* while its gate is closed and the number known is below its block, also when
\* a late answer takes that number back.
NoGateForgotten ==
    /\ \A c \in Calls : call[c] = "waiting" <=> c \in gates
    /\ \A c \in gates : gateBlock[c] > blockNumber

\* While a call waits some loop polls for it, as long as no poll ever failed;
\* calls that time out and leave a loop asleep do not strand the next ones.
SomeLoopPolls ==
    gates # {} /\ failures = 0 => \E l \in Loops : loop[l] # "off"

\* While no poll fails, a waiting call whose block gets indexed is let through
\* or has timed out, and it takes no timer for that.
WaitersServed ==
    [](failures = 0) =>
        \A c \in Calls :
            (c \in gates /\ gateBlock[c] <= indexed) ~> (c \notin gates)

\* What the comment on the class says of any query that follows: it is given
\* up-to-date data, so for the calls that wait someone keeps polling.
PollingResumes == (gates # {}) ~> (gates = {} \/ \E l \in Loops : loop[l] # "off")

=============================================================================

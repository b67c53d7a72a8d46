--------------------------- MODULE StoredStreams ---------------------------
(***************************************************************************)
(* From the store contract's events to getStoredStreams: the subgraph      *)
(* writes an entity per event (subgraph/src/log-store-manager.ts), the     *)
(* client reads the StoreUpdated entities page by page while blocks are    *)
(* being indexed (client/src/utils/GraphQLClient.ts,                       *)
(* client/src/registry/LogStoreRegistry.ts).  The gate before the first    *)
(* page is IndexingState's: no query before the required block is indexed. *)
(* A stream id is its rank in the order of strings, from 1; the string     *)
(* "undefined" comes after the ids below Undefined and before the others.  *)
(***************************************************************************)
EXTENDS Integers, Sequences, FiniteSets, SequencesExt

CONSTANTS
    Transactions,   \* the lists of events a transaction may emit
    Undefined,      \* where "undefined" lies among the stream ids
    PageSize,
    MaxLogs,        \* bound of the model: events of the chain
    MaxPages        \* bound of the model: pages read by one call

ASSUME StreamsAssumption ==
    /\ Undefined \in Nat \ {0}
    /\ PageSize \in Nat \ {0} /\ MaxLogs \in Nat /\ MaxPages \in Nat
    /\ Transactions \subseteq
         Seq([kind : {"StoreUpdated", "DataStored", "Other"}, store : Nat \ {0}])

VARIABLES
    logs,           \* the contract's events, in order
    txs, head,      \* the number of transactions and of blocks
    indexedBlock,   \* the block up to which the subgraph has handled the events
    entities,       \* what it has saved
    required,       \* the block that queries wait for
    phase,          \* where the call of getStoredStreams is
    since,          \* the block that was required when it began
    lastId,         \* the rank after which the next page begins
    pages,          \* the pages that were read
    res,            \* the stream ids that were collected
    blockNumbers,   \* the blocks that the pages say they are of
    streams         \* what the call returned

subgraphVars == <<indexedBlock, entities>>
ethVars == <<logs, txs, head>>
callVars == <<phase, since, lastId, pages, res, blockNumbers, streams>>
streamVars == <<ethVars, subgraphVars, required, callVars>>

-----------------------------------------------------------------------------
\* Mutant: the entity is named by its transaction.
IdByTransaction(log) == <<log.tx, 0>>
\* Mutant: only an empty page is the last.
EmptyPageEnds(items) == items = <<>>
\* Mutant: the block of the last page stands for all.
LastBlock(s) == s[Len(s)]

-----------------------------------------------------------------------------
\* The contract and the subgraph

\* A transaction of the store contract, in the block of the last one or a new
\* one.  Log indices count within the block.
Emit(t, newBlock) ==
    LET b == IF newBlock THEN head + 1 ELSE head
        first == Cardinality({i \in DOMAIN logs : logs[i].block = b})
    IN /\ Len(logs) + Len(t) <= MaxLogs
       /\ b > indexedBlock
       /\ logs' = logs \o [i \in DOMAIN t |->
              [block |-> b, tx |-> txs + 1, index |-> first + i,
               kind |-> t[i].kind, store |-> t[i].store]]
       /\ txs' = txs + 1
       /\ head' = b
       /\ UNCHANGED <<subgraphVars, required, callVars>>

\* event.transaction.hash.concatI32(event.logIndex)
EntityId(log) == <<log.tx, log.index>>

\* A handler saves one entity of the event's kind, in place of one with its id.
Handle(saved, log) ==
    {e \in saved : e.kind # log.kind \/ e.id # EntityId(log)}
    \cup {[kind |-> log.kind, id |-> EntityId(log), store |-> log.store, block |-> log.block]}

HandleIn(b, saved, log) == IF log.block = b THEN Handle(saved, log) ELSE saved

\* The events of the next block go to their handlers, in their order.
IndexEvents ==
    /\ indexedBlock < head
    /\ indexedBlock' = indexedBlock + 1
    /\ entities' = FoldLeft(LAMBDA saved, log : HandleIn(indexedBlock + 1, saved, log),
                            entities, logs)
    /\ UNCHANGED <<ethVars, required, callVars>>

-----------------------------------------------------------------------------
\* The client

\* updateRequiredBlockNumber after a transaction in the last block.
Require ==
    /\ required' = head
    /\ UNCHANGED <<ethVars, subgraphVars, callVars>>

StartCall ==
    /\ phase = "idle"
    /\ phase' = "waiting"
    /\ since' = required
    /\ UNCHANGED <<ethVars, subgraphVars, required, lastId, pages, res, blockNumbers, streams>>

\* The gate is for the block that was required when the call began, whatever
\* is required of later queries.
GateOpen == indexedBlock >= since

PassGate ==
    /\ phase = "waiting" /\ GateOpen
    /\ phase' = "paging"
    /\ UNCHANGED <<ethVars, subgraphVars, required, since, lastId, pages, res, blockNumbers, streams>>

\* TimeoutError after 60 s: the block is not indexed, or no poll has said so.
GateTimesOut ==
    /\ phase = "waiting"
    /\ phase' = "failed"
    /\ UNCHANGED <<ethVars, subgraphVars, required, since, lastId, pages, res, blockNumbers, streams>>

\* storeUpdateds(first: pageSize, orderBy: store, where: {store_gt: lastId}): the
\* stores in their order, each as often as it was updated.
Page(last) ==
    LET updates == {e \in entities : e.kind = "StoreUpdated" /\ e.store > last}
        below(s) == Cardinality({e \in updates : e.store < s})
        upTo(s) == Cardinality({e \in updates : e.store <= s})
    IN [i \in 1 .. Min({PageSize, Cardinality(updates)}) |->
           CHOOSE s \in {e.store : e \in updates} : below(s) < i /\ i <= upTo(s)]

\* The items were selected without their id: the next query says "undefined".
NextId(items) == Undefined - 1
Collected(items) == res \o items
IsLastPage(items) == Len(items) # PageSize

\* A page is read at the block that is indexed then.
ReadPage ==
    LET items == Page(lastId) IN
    /\ phase = "paging" /\ pages < MaxPages
    /\ pages' = pages + 1
    /\ res' = Collected(items)
    /\ blockNumbers' = Append(blockNumbers, indexedBlock)
    /\ \/ IsLastPage(items) /\ phase' = "resolving" /\ UNCHANGED lastId
       \/ ~ IsLastPage(items) /\ lastId' = NextId(items) /\ UNCHANGED phase
    /\ UNCHANGED <<ethVars, subgraphVars, required, since, streams>>

\* The Graph does not answer, or not with data: the call throws.
QueryFails ==
    /\ phase = "paging"
    /\ phase' = "failed"
    /\ UNCHANGED <<ethVars, subgraphVars, required, since, lastId, pages, res, blockNumbers, streams>>

\* getStream for each of them; those that cannot be loaded are left out.
Resolve(lost) ==
    /\ phase = "resolving"
    /\ phase' = "done"
    /\ streams' = SelectSeq(res, LAMBDA s : s \notin lost)
    /\ UNCHANGED <<ethVars, subgraphVars, required, since, lastId, pages, res, blockNumbers>>

Earliest(s) == CHOOSE b \in {s[i] : i \in DOMAIN s} : \A i \in DOMAIN s : b <= s[i]

\* The block number that is returned with the streams: min(blockNumbers)
BlockNumber == Earliest(blockNumbers)

-----------------------------------------------------------------------------
StreamsInit ==
    /\ logs = <<>> /\ txs = 0 /\ head = 0
    /\ indexedBlock = 0 /\ entities = {}
    /\ required = 0
    /\ phase = "idle" /\ since = 0 /\ lastId = 0 /\ pages = 0
    /\ res = <<>> /\ blockNumbers = <<>> /\ streams = <<>>

StreamsNext ==
    \/ \E t \in Transactions, newBlock \in BOOLEAN : Emit(t, newBlock)
    \/ IndexEvents
    \/ Require
    \/ StartCall
    \/ PassGate
    \/ GateTimesOut
    \/ ReadPage
    \/ QueryFails
    \/ \E lost \in SUBSET {res[i] : i \in DOMAIN res} : Resolve(lost)

\* The gate opens or its timer ends the call, whether the subgraph goes on
\* indexing and is polled or not; The Graph answers.
StreamsFairness ==
    /\ WF_streamVars(PassGate \/ GateTimesOut)
    /\ WF_streamVars(ReadPage)
    /\ WF_streamVars(\E lost \in SUBSET {res[i] : i \in DOMAIN res} : Resolve(lost))

StreamsSpec == StreamsInit /\ [][StreamsNext]_streamVars /\ StreamsFairness

-----------------------------------------------------------------------------
Updated(b) ==
    {logs[i].store : i \in {j \in DOMAIN logs : logs[j].kind = "StoreUpdated" /\ logs[j].block <= b}}

\* Up to the indexed block the subgraph has an entity for each event and for
\* nothing else, also when one transaction emits several of a kind.
EntityPerEvent ==
    LET handled == {i \in DOMAIN logs : logs[i].block <= indexedBlock} IN
    /\ Cardinality(entities) = Cardinality(handled)
    /\ \A i \in handled : \E e \in entities :
         e.kind = logs[i].kind /\ e.store = logs[i].store /\ e.block = logs[i].block

\* A call collects every stream stored up to the block number it returns and up
\* to the block it was told to wait for, except where its first page was full:
\* those missed lie between the last one of that page and "undefined".
MissesOnlyPastAPage ==
    phase \in {"resolving", "done"} =>
        \A s \in Updated(BlockNumber) \cup Updated(since) :
            \/ \E i \in DOMAIN res : res[i] = s
            \/ pages > 1 /\ s > res[PageSize] /\ s < Undefined

\* "Gets all streams assigned to a storage node" (LogStoreClient.ts:126), as of
\* the block number that is returned.
AllStreamsReturned ==
    phase = "resolving" =>
        \A s \in Updated(BlockNumber) : \E i \in DOMAIN res : res[i] = s

\* Every call ends, unless a whole page of streams comes after "undefined": that
\* page is then read over and over.
CallSettles ==
    phase = "waiting" ~>
        \/ phase \in {"done", "failed"}
        \/ Len(Page(Undefined - 1)) = PageSize

=============================================================================

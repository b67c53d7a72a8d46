------------------------------ MODULE MCClient ------------------------------
(***************************************************************************)
(* Instance of the client's components for TLC.  They share no state: each *)
(* behaviour exercises one of them, the part it was begun with, and leaves *)
(* the others as they were.                                                *)
(***************************************************************************)
EXTENDS ClientEvents, SharedCalls, OrderedCalls, HttpQueries, StoredStreams, IndexingState

CONSTANTS n1, n2, p1, p2

\* Four messages, two of them at one time, with a gap in the sequence numbers.
MCStored ==
    <<[ts |-> 1, seq |-> 0, by |-> p1], [ts |-> 1, seq |-> 1, by |-> p2],
      [ts |-> 2, seq |-> 0, by |-> p1], [ts |-> 2, seq |-> 2, by |-> p1]>>

\* Windows with every combination of ends and sequence numbers, and the last
\* none, one and more than there are.
MCFrom == {Absent, Null} \cup [ts : {1}, seq : {Absent, 1}]
MCTo == {Absent, Null} \cup [ts : {1, 2}, seq : {Absent, 1}]
MCOptions ==
    [last : {Absent}, from : MCFrom, to : MCTo, publisher : {Absent, p1}]
    \cup [last : {Null, 0, 1, 5}, from : {Absent, [ts |-> 1, seq |-> Absent]},
          to : {Absent}, publisher : {Absent}]

\* Every kind of failure, and consensus of none, one, two, two that differ and
\* one that signed for another.
MCItem(hash, signer, by) == [hash |-> hash, signer |-> signer, by |-> by]
MCAnswers ==
    {[status |-> s] : s \in {"no body", "error"}}
    \cup {[status |-> "ok", consensus |-> c] : c \in
            {<<>>, <<MCItem(1, n1, n1)>>, <<MCItem(1, n1, n1), MCItem(1, n2, n2)>>,
             <<MCItem(1, n1, n1), MCItem(2, n2, n2)>>, <<MCItem(1, n1, n2)>>}}

\* Updates of streams below and above "undefined", and a transaction with two
\* events of a kind, as a report that is processed emits them.
MCUpdate(s) == <<[kind |-> "StoreUpdated", store |-> s]>>
MCTransactions ==
    {MCUpdate(1), MCUpdate(2), MCUpdate(3),
     <<[kind |-> "DataStored", store |-> 1], [kind |-> "DataStored", store |-> 1]>>}

-----------------------------------------------------------------------------
Parts == {"events", "shared", "ordered", "queries", "streams", "indexing"}

VARIABLE part

ClientInit ==
    /\ part \in Parts
    /\ EventsInit /\ SharedInit /\ OrderedInit /\ QueriesInit /\ StreamsInit /\ IndexingInit
    /\ part # "queries" => metadata = [n \in Nodes |-> Absent]

Only(p, next) == part = p /\ next /\ UNCHANGED part

ClientNext ==
    \/ /\ Only("events", EventsNext)
       /\ UNCHANGED <<sharedVars, orderedVars, queryVars, streamVars, indexingVars>>
    \/ /\ Only("shared", SharedNext)
       /\ UNCHANGED <<eventVars, orderedVars, queryVars, streamVars, indexingVars>>
    \/ /\ Only("ordered", OrderedNext)
       /\ UNCHANGED <<eventVars, sharedVars, queryVars, streamVars, indexingVars>>
    \/ /\ Only("queries", QueriesNext)
       /\ UNCHANGED <<eventVars, sharedVars, orderedVars, streamVars, indexingVars>>
    \/ /\ Only("streams", StreamsNext)
       /\ UNCHANGED <<eventVars, sharedVars, orderedVars, queryVars, indexingVars>>
    \/ /\ Only("indexing", IndexingNext)
       /\ UNCHANGED <<eventVars, sharedVars, orderedVars, queryVars, streamVars>>

clientState ==
    <<part, eventVars, sharedVars, orderedVars, queryVars, streamVars, indexingVars>>

ClientSpec ==
    /\ ClientInit /\ [][ClientNext]_clientState
    /\ OrderedFairness /\ QueriesFairness /\ StreamsFairness /\ Polling

=============================================================================

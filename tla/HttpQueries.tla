---------------------------- MODULE HttpQueries ----------------------------
(***************************************************************************)
(* Queries of stored messages (client/src/Queries.ts, HttpUtil.ts,         *)
(* registry/NodeManager.ts): the options choose a kind of query, a node is *)
(* drawn from the contract's list, and its answer over HTTP is checked for *)
(* the nodes' consensus and read line by line.  Each step is what happens  *)
(* between two awaits; nodes join, leave and change their metadata between *)
(* them.  The node that answers is external: it sends the stored messages  *)
(* that the query string asks for, both ends included.                     *)
(***************************************************************************)
EXTENDS Integers, Sequences, FiniteSets, SequencesExt

CONSTANTS
    Queries,       \* queries under way
    Nodes,         \* addresses that may be nodes
    Stored,        \* the stored messages [ts, seq, by] in their order
    Options,       \* the query options that are asked with
    Answers,       \* the answers that nodes may give
    Absent,        \* an option or parameter that is not there
    Null,          \* an option that is there with null or undefined
    MaxChanges     \* bound of the model: changes of the list of nodes

ASSUME QueriesAssumption ==
    /\ MaxChanges \in Nat
    /\ Stored \in Seq({Stored[i] : i \in DOMAIN Stored})
    /\ \A i \in DOMAIN Stored : Stored[i].ts \in Nat /\ Stored[i].seq \in Nat
    /\ Absent \notin Int /\ Absent \notin [ts : Nat, seq : Nat]
    /\ \A o \in Options :
         /\ o.last \in {Absent, Null} \cup Int
         /\ {o.from, o.to} \subseteq {Absent, Null} \cup [ts : Nat, seq : Nat \cup {Absent}]
    /\ \A a \in Answers : a.status \in {"ok", "no body", "error", "unreachable"}

VARIABLES
    metadata,      \* the metadata of each registered node, Absent for others
    changes,       \* how often the list of nodes changed
    at,            \* where each query is
    asked,         \* its options
    params,        \* the query string, as a function of the parameters in it
    candidates,    \* the shuffled addresses that are still to be tried
    url,           \* the node asked, Absent when its metadata had no address
    reply,         \* what the node answered
    connection,    \* its connection: none, open or closed
    lines,         \* the lines of the body that are not read yet
    read           \* the messages that were handed to the reader

chainVars == <<metadata, changes>>
requestVars == <<asked, params, candidates, url>>
responseVars == <<reply, connection, lines, read>>
queryVars == <<chainVars, at, requestVars, responseVars>>

MIN_SEQUENCE_NUMBER_VALUE == 0
NoAnswer == [status |-> "none"]

-----------------------------------------------------------------------------
Given(x) == x \notin {Absent, Null}

\* Mutant: messages are counted from 1.
CountsFromOne(ref) == IF ref.seq = Absent THEN 1 ELSE ref.seq
\* Mutant: a reader that stops leaves the connection.
StaysOpen(q) == connection
\* Mutant: a node whose metadata cannot be parsed is tried again and again.
TriesAgain(q) == candidates[q]

-----------------------------------------------------------------------------
\* Options and query string

IsQueryLast(o) == Given(o.last)
IsQueryRange(o) == Given(o.from) /\ Given(o.to)
IsQueryFrom(o) == Given(o.from) /\ o.to = Absent

\* The order in which query() tries them.
Kind(o) ==
    IF IsQueryLast(o) THEN "last"
    ELSE IF IsQueryRange(o) THEN "range"
    ELSE IF IsQueryFrom(o) THEN "from" ELSE "invalid"

SequenceNumber(ref) == IF ref.seq = Absent THEN MIN_SEQUENCE_NUMBER_VALUE ELSE ref.seq
Point(ref) == [ts |-> ref.ts, seq |-> SequenceNumber(ref)]

\* The parameters that createQueryString leaves in; Absent ones are not sent.
QueryString(o) ==
    [count |-> IF Kind(o) = "last" THEN o.last ELSE Absent,
     from |-> IF Kind(o) = "last" THEN Absent ELSE Point(o.from),
     to |-> IF Kind(o) = "range" THEN Point(o.to) ELSE Absent,
     publisher |-> IF Kind(o) = "last" THEN Absent ELSE o.publisher]

NotAfter(m, n) == m.ts < n.ts \/ (m.ts = n.ts /\ m.seq <= n.seq)

\* The stored messages with the positions in I, in their order.
WithChosen(sent, I, i) == IF i \in I THEN Append(sent, Stored[i]) ELSE sent
Chosen(I) ==
    FoldLeft(LAMBDA sent, i : WithChosen(sent, I, i), <<>>, [i \in DOMAIN Stored |-> i])

\* What a node sends for a query string.
Matching(p) ==
    Chosen({i \in DOMAIN Stored :
              IF p.count # Absent THEN i > Len(Stored) - p.count
              ELSE /\ NotAfter(p.from, Stored[i])
                   /\ p.to # Absent => NotAfter(Stored[i], p.to)
                   /\ p.publisher # Absent => Stored[i].by = p.publisher})

-----------------------------------------------------------------------------
\* The query up to its stream

\* Without valid options the call is refused; for no messages nobody is asked.
Query(q, o) ==
    /\ at[q] = "idle"
    /\ asked' = [asked EXCEPT ![q] = o]
    /\ \/ /\ Kind(o) = "invalid"
          /\ at' = [at EXCEPT ![q] = "rejected"]
          /\ UNCHANGED params
       \/ /\ Kind(o) = "last" /\ o.last <= 0
          /\ at' = [at EXCEPT ![q] = "ended"]
          /\ params' = [params EXCEPT ![q] = QueryString(o)]
       \/ /\ Kind(o) # "invalid"
          /\ Kind(o) = "last" => o.last > 0
          /\ at' = [at EXCEPT ![q] = "listing"]
          /\ params' = [params EXCEPT ![q] = QueryString(o)]
    /\ UNCHANGED <<chainVars, candidates, url, responseVars>>

\* shuffle(await nodeAddresses())
ListNodes(q) ==
    /\ at[q] = "listing"
    /\ \E order \in SetToSeqs({n \in Nodes : metadata[n] # Absent}) :
         candidates' = [candidates EXCEPT ![q] = order]
    /\ at' = [at EXCEPT ![q] = "choosing"]
    /\ UNCHANGED <<chainVars, asked, params, url, responseVars>>

AfterUnparsed(q) == Tail(candidates[q])

\* The next address: a node that has left since, or without "http" in its
\* metadata, or with metadata that is no JSON is passed over.  JSON without a
\* field http gives the address undefined, and the stream is made for it.
ChooseNode(q) ==
    /\ at[q] = "choosing" /\ candidates[q] # <<>>
    /\ LET found == metadata[Head(candidates[q])] IN
         \/ /\ found \in {"http", "no field"}
            /\ url' = [url EXCEPT ![q] = IF found = "http" THEN Head(candidates[q]) ELSE Absent]
            /\ at' = [at EXCEPT ![q] = "fetching"]
            /\ UNCHANGED candidates
         \/ /\ found \in {Absent, "no http"}
            /\ candidates' = [candidates EXCEPT ![q] = Tail(@)]
            /\ UNCHANGED <<at, url>>
         \/ /\ found = "garbled"
            /\ candidates' = [candidates EXCEPT ![q] = AfterUnparsed(q)]
            /\ UNCHANGED <<at, url>>
    /\ UNCHANGED <<chainVars, asked, params, responseVars>>

\* "There are no nodes with a proper metadata"
NoNode(q) ==
    /\ at[q] = "choosing" /\ candidates[q] = <<>>
    /\ at' = [at EXCEPT ![q] = "rejected"]
    /\ UNCHANGED <<chainVars, requestVars, responseVars>>

\* No provider answers a read of the contract.
ChainFails(q) ==
    /\ at[q] \in {"listing", "choosing"}
    /\ at' = [at EXCEPT ![q] = "rejected"]
    /\ UNCHANGED <<chainVars, requestVars, responseVars>>

-----------------------------------------------------------------------------
\* The stream of the answer

Consensus(items) ==
    items # <<>> /\ \A i \in DOMAIN items :
        items[i].hash = items[1].hash /\ items[i].by = items[i].signer

\* "undefined/streams/..." is no URL.
FetchNowhere(q) ==
    /\ at[q] = "fetching" /\ url[q] = Absent
    /\ at' = [at EXCEPT ![q] = "failed"]
    /\ UNCHANGED <<chainVars, requestVars, responseVars>>

\* The node is not reached, or answers with an error or without a body.
FetchFails(q, a) ==
    /\ at[q] = "fetching" /\ url[q] # Absent
    /\ a.status # "ok"
    /\ reply' = [reply EXCEPT ![q] = a]
    /\ at' = [at EXCEPT ![q] = "failed"]
    /\ UNCHANGED <<chainVars, requestVars, connection, lines, read>>

\* The answer is refused before the try that would abort the request.
FetchRefused(q, a) ==
    /\ at[q] = "fetching" /\ url[q] # Absent
    /\ a.status = "ok" /\ ~ Consensus(a.consensus)
    /\ reply' = [reply EXCEPT ![q] = a]
    /\ connection' = [connection EXCEPT ![q] = "open"]
    /\ at' = [at EXCEPT ![q] = "failed"]
    /\ UNCHANGED <<chainVars, requestVars, lines, read>>

FetchAccepted(q, a) ==
    /\ at[q] = "fetching" /\ url[q] # Absent
    /\ a.status = "ok" /\ Consensus(a.consensus)
    /\ reply' = [reply EXCEPT ![q] = a]
    /\ connection' = [connection EXCEPT ![q] = "open"]
    /\ lines' = [lines EXCEPT ![q] = Matching(params[q])]
    /\ at' = [at EXCEPT ![q] = "reading"]
    /\ UNCHANGED <<chainVars, requestVars, read>>

ReadLine(q) ==
    /\ at[q] = "reading" /\ lines[q] # <<>>
    /\ read' = [read EXCEPT ![q] = Append(@, Head(lines[q]))]
    /\ lines' = [lines EXCEPT ![q] = Tail(@)]
    /\ UNCHANGED <<chainVars, at, requestVars, reply, connection>>

Closed(q) == [connection EXCEPT ![q] = "closed"]

ReadEnd(q) ==
    /\ at[q] = "reading" /\ lines[q] = <<>>
    /\ at' = [at EXCEPT ![q] = "ended"]
    /\ connection' = Closed(q)
    /\ UNCHANGED <<chainVars, requestVars, reply, lines, read>>

\* A line is no message: split2 destroys the stream, the request is aborted.
ReadGarbled(q) ==
    /\ at[q] = "reading" /\ lines[q] # <<>>
    /\ at' = [at EXCEPT ![q] = "failed"]
    /\ connection' = Closed(q)
    /\ UNCHANGED <<chainVars, requestVars, reply, lines, read>>

\* The reader stops: stream.destroy(), its close aborts the request.
StopReading(q) ==
    /\ at[q] = "reading"
    /\ at' = [at EXCEPT ![q] = "stopped"]
    /\ connection' = Closed(q)
    /\ UNCHANGED <<chainVars, requestVars, reply, lines, read>>

\* The connection breaks within the body.  The error is the body's; pipe does
\* not hand it on, and the stream that is read neither ends nor fails.
Break(q) ==
    /\ at[q] = "reading"
    /\ at' = [at EXCEPT ![q] = "hung"]
    /\ connection' = [connection EXCEPT ![q] = "closed"]
    /\ UNCHANGED <<chainVars, requestVars, reply, lines, read>>

-----------------------------------------------------------------------------
\* A node joins, leaves or changes its metadata.
ChangeNode(n, m) ==
    /\ changes < MaxChanges
    /\ changes' = changes + 1
    /\ metadata[n] # m
    /\ metadata' = [metadata EXCEPT ![n] = m]
    /\ UNCHANGED <<at, requestVars, responseVars>>

MetadataKinds == {"http", "no field", "no http", "garbled", Absent}

QueriesInit ==
    /\ metadata \in [Nodes -> {"http", "garbled", Absent}]
    /\ changes = 0
    /\ at = [q \in Queries |-> "idle"]
    /\ asked = [q \in Queries |-> Absent]
    /\ params = [q \in Queries |-> Absent]
    /\ candidates = [q \in Queries |-> <<>>]
    /\ url = [q \in Queries |-> Absent]
    /\ reply = [q \in Queries |-> NoAnswer]
    /\ connection = [q \in Queries |-> "none"]
    /\ lines = [q \in Queries |-> <<>>]
    /\ read = [q \in Queries |-> <<>>]

\* What the client and the node that answers do about a query.
QueryStep(q) ==
    \/ ListNodes(q)
    \/ ChooseNode(q)
    \/ NoNode(q)
    \/ FetchNowhere(q)
    \/ \E a \in Answers : FetchFails(q, a) \/ FetchRefused(q, a) \/ FetchAccepted(q, a)
    \/ ReadLine(q)
    \/ ReadEnd(q)

QueriesNext ==
    \/ \E q \in Queries :
         \/ \E o \in Options : Query(q, o)
         \/ QueryStep(q)
         \/ ChainFails(q)
         \/ ReadGarbled(q)
         \/ StopReading(q)
         \/ Break(q)
    \/ \E n \in Nodes, m \in MetadataKinds : ChangeNode(n, m)

QueriesFairness == \A q \in Queries : WF_queryVars(QueryStep(q))
QueriesSpec == QueriesInit /\ [][QueriesNext]_queryVars /\ QueriesFairness

-----------------------------------------------------------------------------
Settled(q) == at[q] \in {"ended", "rejected", "failed", "stopped"}

\* Whether the caller asked for a stored message: the last so many, or those in
\* a window with both ends, where an end without a sequence number is the first
\* message at its time; of one publisher, where one is named.
AskedFor(o, i) ==
    LET m == Stored[i]
        after(ref) == m.ts > ref.ts \/ (m.ts = ref.ts /\ (ref.seq # Absent => m.seq >= ref.seq))
        before(ref) == m.ts < ref.ts \/ (m.ts = ref.ts /\ m.seq <= (IF ref.seq = Absent THEN 0 ELSE ref.seq))
    IN IF Given(o.last) THEN i > Len(Stored) - o.last
       ELSE /\ after(o.from)
            /\ o.to # Absent => before(o.to)
            /\ o.publisher # Absent => m.by = o.publisher

\* A query that ends has handed over every stored message that its options ask
\* for, in order and no other one, whatever node was drawn and left meanwhile;
\* one that fails, stops or hangs never more than the first of them.
EndedIsComplete ==
    \A q \in Queries :
        LET messages == Chosen({i \in DOMAIN Stored : AskedFor(asked[q], i)})
        IN /\ at[q] = "ended" => read[q] = messages
           /\ read[q] # <<>> => IsPrefix(read[q], messages)

\* However a query comes to its end, it leaves no connection open, except for
\* an answer that was refused for want of consensus: that one is never aborted.
ConnectionsReleased ==
    \A q \in Queries :
        Settled(q) /\ connection[q] = "open" => ~ Consensus(reply[q].consensus)

\* Every query ends, fails or is refused, whatever the nodes do meanwhile,
\* unless its connection breaks within the body.
QueriesSettle ==
    \A q \in Queries : at[q] # "idle" ~> Settled(q) \/ at[q] = "hung"

=============================================================================

---------------------------- MODULE SystemReports ----------------------------
(***************************************************************************)
(* The reports of the protocol package between the nodes that build, pass  *)
(* on and sign them and the contract that checks the signatures            *)
(* (protocol/src/report, contracts/src/ReportManager.sol report).          *)
(*                                                                         *)
(* A report is plain or serialised; JSON is always serialised.  A node     *)
(* signs the hash of the report it holds, in the form it holds it, and the *)
(* node that submits sends the parameters of its own: the contract packs   *)
(* them again, with its own formatting, and compares.                      *)
(*                                                                         *)
(* A text is the sequence of its characters, an address or the bytes of a  *)
(* name being one of them; what is packed is the texts one after the other *)
(* and so loses where each of them ends.  An object is the sequence of its *)
(* entries in the order they were added, which JSON keeps.                 *)
(***************************************************************************)
EXTENDS Integers, Sequences, SequencesExt, TLC

CONSTANTS
    ReportNodes,        \* the nodes that build and sign reports
    Reports,            \* the plain reports they may build
    Amounts,            \* the amounts that occur in them
    Timestamps,         \* when a proof may be made, in milliseconds
    MaxProofs           \* bound of the model: proofs that are made

\* A BigNumber, which is no text: the sequence of its number.
BigNumber(n) == <<n>>
NumberOf(b) == b[1]

\* A plain report (ISystemReport).
BigNumbers == {BigNumber(n) : n \in Amounts}
Texts == Seq(STRING)
Usages == [id : Texts, capture : BigNumbers, bytes : Nat]
Entries(values) == Seq([key : Texts, value : values])
PlainReports ==
    [s : {FALSE}, v : Nat, id : Texts, height : Nat, treasury : BigNumbers,
     streams : Seq(Usages), consumers : Seq(Usages), nodes : Entries(BigNumbers),
     delegates : Entries(Entries(BigNumbers)), events : Seq(Texts)]

ASSUME ReportsAssumption ==
    /\ Amounts \subseteq Int
    /\ Reports \subseteq PlainReports
    /\ Timestamps \subseteq Nat
    /\ MaxProofs \in Nat

VARIABLES
    copies,         \* the report each node holds, or NoReport
    builtFrom,      \* the report its copy goes back to, or NoReport
    wire,           \* the JSON last published, with what it goes back to
    proofs,         \* the proofs of report that were made
    outcome         \* what the contract made of the submission, or Pending

reportVars == <<copies, builtFrom, wire, proofs, outcome>>

V1 == 1
NoReport == [v |-> 0]
NoJSON == [of |-> NoReport, json |-> NoReport]
Pending == [of |-> NoReport]

-----------------------------------------------------------------------------
(* Texts.                                                                  *)

Digit(d) == <<"0", "1", "2", "3", "4", "5", "6", "7", "8", "9",
              "a", "b", "c", "d", "e", "f">>[d + 1]
HexDigits[n \in Nat] ==
    IF n < 16 THEN <<Digit(n)>> ELSE HexDigits[n \div 16] \o <<Digit(n % 16)>>
AbsOf(n) == IF n < 0 THEN -n ELSE n
SignOf(n) == IF n < 0 THEN <<"-">> ELSE <<>>

\* BigNumber's toHexString: whole bytes, the sign before the prefix.
ToHexString(b) ==
    LET digits == HexDigits[AbsOf(NumberOf(b))]
        pad == IF Len(digits) % 2 = 1 THEN <<"0">> ELSE <<>>
    IN SignOf(NumberOf(b)) \o <<"0x">> \o pad \o digits

\* BigNumber.from, of a text that toHexString wrote.
BigNumberFrom(text) ==
    CHOOSE b \in BigNumbers : ToHexString(b) = text

\* The contract's toHexString: log256 + 1 bytes, filled from the last digit.
Log256[n \in Nat] == IF n < 256 THEN 0 ELSE 1 + Log256[n \div 256]
Shifted(n) ==
    LET value[i \in Nat] == IF i = 0 THEN n ELSE value[i - 1] \div 16
    IN value
ContractHexString(b) ==
    LET n == NumberOf(b)
        last == 2 * (Log256[AbsOf(n)] + 1)
    IN SignOf(n) \o <<"0x">>
       \o [i \in 1..last |-> Digit(Shifted(AbsOf(n))[last - i] % 16)]

strToHex(text) == <<"0x">> \o text
hexToStr(hex) == Tail(hex)

\* One word of fixed length.
Uint256(n) == <<ToString(n)>>

-----------------------------------------------------------------------------
(* The serializer.  The values of an entry are all that changes.           *)

EachValue(entries, F(_)) ==
    [i \in DOMAIN entries |-> [key |-> entries[i].key, value |-> F(entries[i].value)]]
Keys(entries) == [i \in DOMAIN entries |-> entries[i].key]
Values(entries) == [i \in DOMAIN entries |-> entries[i].value]
Pack(seq, F(_)) == FlattenSeq([i \in DOMAIN seq |-> F(seq[i])])

\* Mutant: the name of a stream is packed as the hex text it is sent as.
PacksHexName(p) == p.id \o p.capture \o Uint256(p.bytes)

NodesToHex(entries) == EachValue(entries, ToHexString)
NodesFromHex(entries) == EachValue(entries, BigNumberFrom)

StreamsToHex(streams) ==
    [i \in DOMAIN streams |->
        [streams[i] EXCEPT !.id = strToHex(@), !.capture = ToHexString(@)]]
StreamsFromHex(streams) ==
    [i \in DOMAIN streams |->
        [streams[i] EXCEPT !.id = hexToStr(@), !.capture = BigNumberFrom(@)]]
ConsumersToHex(consumers) ==
    [i \in DOMAIN consumers |-> [consumers[i] EXCEPT !.capture = ToHexString(@)]]
ConsumersFromHex(consumers) ==
    [i \in DOMAIN consumers |-> [consumers[i] EXCEPT !.capture = BigNumberFrom(@)]]
EventsToHex(events) == [i \in DOMAIN events |-> strToHex(events[i])]
EventsFromHex(events) == [i \in DOMAIN events |-> hexToStr(events[i])]

\* The conversions replace the form, the amounts and the names.
serialize(r) ==
    [r EXCEPT !.s = TRUE, !.v = V1,
              !.treasury = ToHexString(@), !.streams = StreamsToHex(@),
              !.consumers = ConsumersToHex(@), !.nodes = NodesToHex(@),
              !.delegates = EachValue(@, NodesToHex), !.events = EventsToHex(@)]

deserialize(r) ==
    [r EXCEPT !.s = FALSE, !.v = V1,
              !.treasury = BigNumberFrom(@), !.streams = StreamsFromHex(@),
              !.consumers = ConsumersFromHex(@), !.nodes = NodesFromHex(@),
              !.delegates = EachValue(@, NodesFromHex), !.events = EventsFromHex(@)]

Serialized(r) == IF r.s THEN r ELSE serialize(r)
Deserialized(r) == IF r.s THEN deserialize(r) ELSE r

toJSON(r) == Serialized(r)

\* The arguments of the contract's report.
toContract(r) ==
    LET report == Deserialized(r)
    IN [id |-> report.id,
        blockHeight |-> report.height,
        streams |-> report.streams,
        consumers |-> report.consumers,
        nodes |-> Keys(report.nodes),
        nodeChanges |-> Values(report.nodes),
        delegates |-> Keys(report.delegates),
        delegateNodes |-> [i \in DOMAIN report.delegates |-> Keys(report.delegates[i].value)],
        delegateNodeChanges |->
            [i \in DOMAIN report.delegates |-> Values(report.delegates[i].value)],
        treasurySupplyChange |-> report.treasury]

PackStream(p) == hexToStr(p.id) \o p.capture \o Uint256(p.bytes)
PackConsumer(p) == p.id \o p.capture \o Uint256(p.bytes)
PackNode(entry) == entry.key \o entry.value
PackDelegate(entry) == entry.key \o Pack(entry.value, PackNode)

\* A timestamp of 0 is none.
PackTime(timestamp) == IF timestamp = 0 THEN <<>> ELSE Uint256(timestamp)

\* The hash is what was hashed.
toHash(r, timestamp) ==
    LET report == Serialized(r)
    IN report.id \o Uint256(report.height)
       \o Pack(report.streams, PackStream)
       \o Pack(report.consumers, PackConsumer)
       \o Pack(report.nodes, PackNode)
       \o Pack(report.delegates, PackDelegate)
       \o report.treasury
       \o PackTime(timestamp)

\* The contract packs the arguments itself, and always the timestamp.
ContractHash(params, timestamp) ==
    LET nodePack(nodes, changes) ==
            FlattenSeq([j \in DOMAIN nodes |-> nodes[j] \o ContractHexString(changes[j])])
        usePack(p) == p.id \o ContractHexString(p.capture) \o Uint256(p.bytes)
    IN params.id \o Uint256(params.blockHeight)
       \o Pack(params.streams, usePack)
       \o Pack(params.consumers, usePack)
       \o nodePack(params.nodes, params.nodeChanges)
       \o FlattenSeq([i \in DOMAIN params.delegates |->
              params.delegates[i]
              \o nodePack(params.delegateNodes[i], params.delegateNodeChanges[i])])
       \o ContractHexString(params.treasurySupplyChange)
       \o Uint256(timestamp)

-----------------------------------------------------------------------------
(* The nodes.                                                              *)

\* The constructor of SystemReport.
IsValidReport(r) == r.v = V1

Holds(n) == copies[n] # NoReport
Underway == outcome = Pending

ReportsInit ==
    /\ copies = [n \in ReportNodes |-> NoReport]
    /\ builtFrom = [n \in ReportNodes |-> NoReport]
    /\ wire = NoJSON
    /\ proofs = {}
    /\ outcome = Pending

BuildReport(n, r) ==
    /\ Underway /\ ~Holds(n) /\ IsValidReport(r)
    /\ copies' = [copies EXCEPT ![n] = r]
    /\ builtFrom' = [builtFrom EXCEPT ![n] = r]
    /\ UNCHANGED <<wire, proofs, outcome>>

Serialize(n) ==
    /\ Underway /\ Holds(n) /\ ~copies[n].s
    /\ copies' = [copies EXCEPT ![n] = serialize(@)]
    /\ UNCHANGED <<builtFrom, wire, proofs, outcome>>

Deserialize(n) ==
    /\ Underway /\ Holds(n) /\ copies[n].s
    /\ copies' = [copies EXCEPT ![n] = deserialize(@)]
    /\ UNCHANGED <<builtFrom, wire, proofs, outcome>>

PublishReport(n) ==
    /\ Underway /\ Holds(n)
    /\ wire' = [of |-> builtFrom[n], json |-> toJSON(copies[n])]
    /\ UNCHANGED <<copies, builtFrom, proofs, outcome>>

TakeReport(n) ==
    /\ Underway /\ wire # NoJSON /\ IsValidReport(wire.json)
    /\ copies' = [copies EXCEPT ![n] = wire.json]
    /\ builtFrom' = [builtFrom EXCEPT ![n] = wire.of]
    /\ UNCHANGED <<wire, proofs, outcome>>

toProof(n, timestamp) ==
    /\ Underway /\ Holds(n) /\ Cardinality(proofs) < MaxProofs
    /\ proofs' = proofs \union
           {[address |-> n, timestamp |-> timestamp, of |-> builtFrom[n],
             hash |-> toHash(copies[n], 0), toth |-> toHash(copies[n], timestamp)]}
    /\ UNCHANGED <<copies, builtFrom, wire, outcome>>

\* A signature verifies when the contract's hash is the one that was signed.
SubmitReport(n) ==
    /\ Underway /\ Holds(n)
    /\ LET params == toContract(copies[n])
       IN outcome' = [of |-> builtFrom[n], params |-> params,
                      verified |-> {p \in proofs :
                                       ContractHash(params, p.timestamp) = p.toth}]
    /\ UNCHANGED <<copies, builtFrom, wire, proofs>>

ReportsNext ==
    \E n \in ReportNodes :
        \/ \E r \in Reports : BuildReport(n, r)
        \/ Serialize(n)
        \/ Deserialize(n)
        \/ PublishReport(n)
        \/ TakeReport(n)
        \/ \E t \in Timestamps : toProof(n, t)
        \/ SubmitReport(n)

ReportsSpec == ReportsInit /\ [][ReportsNext]_reportVars

-----------------------------------------------------------------------------
(* Properties.                                                             *)

\* What the brokers sign of a report: its events are left out.
Signed(r) == [r EXCEPT !.events = <<>>]

\* No two of the reports are packed into the same text unless the brokers sign
\* the same of them.  What is packed does not tell where a name or an amount
\* ends, so this is an assumption on the reports.
ReportsPackApart ==
    \A r1, r2 \in Reports : toHash(r1, 0) = toHash(r2, 0) => Signed(r1) = Signed(r2)

\* Whatever forms a report took on its way to the node that submits it and to
\* those that signed it, the contract verifies exactly the proofs of that
\* report: of the same entries in the same order, whatever the events.  A proof
\* of timestamp 0 never verifies: its one-time hash lacks the timestamp that the
\* contract always packs (toHash, SystemReport toProof, ReportManager report).
ProofsVerify ==
    outcome # Pending =>
        outcome.verified =
            {p \in proofs : Signed(p.of) = Signed(outcome.of) /\ p.timestamp # 0}

=============================================================================

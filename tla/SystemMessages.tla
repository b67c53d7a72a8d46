--------------------------- MODULE SystemMessages ---------------------------
(***************************************************************************)
(* The messages of the system stream (protocol/src/system): each process   *)
(* keeps the serializers it registered, by version and type, writes its    *)
(* messages with them and reads the others' with what version and type the *)
(* message itself names.                                                   *)
(*                                                                         *)
(* The stream neither orders the messages nor delivers each of them once.  *)
(* A process whose release lacks a type, or has it not registered, refuses *)
(* what it cannot read and keeps running.  Every value is a text.          *)
(***************************************************************************)
EXTENDS Integers, Sequences, FiniteSets

CONSTANTS
    Processes,          \* the nodes on the system stream
    Messages,           \* the messages they may construct
    Foreign,            \* what a later release has put on the stream
    MaxPublished,       \* bound of the model: arrays on the stream
    MaxChanged          \* bound of the model: registrations and removals

VARIABLES
    serializers,    \* the types each process has registered, by version
    changed,        \* how many registrations and removals there were
    stream,         \* the arrays that were published, with their message
    received,       \* what each process made of the arrays it read
    refused         \* the arrays each process threw on

messageVars == <<serializers, changed, stream, received, refused>>

Undefined == "undefined"
Null == "null"
Now == "now"
VERSION == "1"
ProofOfMessageStored == "0"
QueryRequest == "1"
QueryResponse == "2"
ProofOfReport == "3"
Types == {ProofOfMessageStored, QueryRequest, QueryResponse, ProofOfReport}
QueryTypes == {"last", "from", "range"}

\* The fields of the messages of each type, and of the options of queries.
OptionFields(type) ==
    CASE type = "last" -> {"last"}
      [] type = "from" -> {"fromTimestamp", "fromSequence", "publisherId"}
      [] type = "range" -> {"fromTimestamp", "fromSequence", "toTimestamp", "toSequence",
                            "msgChainId", "publisherId"}
FieldsOf(type) ==
    {"version", "messageType"} \cup
    CASE type = ProofOfMessageStored -> {"streamId", "partition", "timestamp",
                                         "sequenceNumber", "size", "hash"}
      [] type = QueryRequest -> {"requestId", "consumerId", "streamId", "partition",
                                 "queryType", "queryOptions"}
      [] type = QueryResponse -> {"requestId", "size", "hash", "signature"}
      [] type = ProofOfReport -> {"address", "hash", "toth", "timestamp", "signature"}

\* What the constructors make.  A field may hold any text, or none.
HasFields(r, fields) == r = [f \in fields |-> r[f]]
IsMessage(m) ==
    /\ m.messageType \in Types /\ m.version = VERSION
    /\ HasFields(m, FieldsOf(m.messageType))
    /\ m.messageType = QueryRequest =>
         m.queryType \in QueryTypes /\ HasFields(m.queryOptions, OptionFields(m.queryType))
    /\ m.messageType = ProofOfReport => m.timestamp # Undefined

\* A later release adds versions and types and leaves the others as they are.
ASSUME MessagesAssumption ==
    /\ \A m \in Messages : IsMessage(m)
    /\ \A s \in Foreign : s.array[1] # VERSION \/ s.array[2] \notin Types
    /\ MaxPublished \in Nat
    /\ MaxChanged \in Nat

-----------------------------------------------------------------------------
(* The arrays.                                                             *)

\* Mutant: what a message lacks is left out of the array.
LeavesOut(array) == SelectSeq(array, LAMBDA v : v # Undefined)

RangeToArray(o) ==
    <<o.fromTimestamp, o.fromSequence, o.toTimestamp, o.toSequence,
      o.msgChainId, o.publisherId>>

OptionsToArray(type, o) ==
    CASE type = "last" -> <<o.last>>
      [] type = "from" -> <<o.fromTimestamp, o.fromSequence, o.publisherId>>
      [] type = "range" -> RangeToArray(o)

\* The serializers' toArray.  The version they write is their own.
StoredToArray(m) ==
    <<VERSION, ProofOfMessageStored, m.streamId, m.partition, m.timestamp,
      m.sequenceNumber, m.size, m.hash>>
RequestToArray(m) ==
    <<VERSION, QueryRequest, m.requestId, m.consumerId, m.streamId, m.partition,
      m.queryType>> \o OptionsToArray(m.queryType, m.queryOptions)
ResponseToArray(m) ==
    <<VERSION, QueryResponse, m.requestId, m.size, m.hash, m.signature>>
ReportToArray(m) ==
    <<VERSION, ProofOfReport, m.address, m.hash, m.toth, m.timestamp, m.signature>>

toArray(m) ==
    CASE m.messageType = ProofOfMessageStored -> StoredToArray(m)
      [] m.messageType = QueryRequest -> RequestToArray(m)
      [] m.messageType = QueryResponse -> ResponseToArray(m)
      [] m.messageType = ProofOfReport -> ReportToArray(m)

\* JSON has no undefined: in an array it is written as null.
Stringified(array) ==
    [i \in DOMAIN array |-> IF array[i] = Undefined THEN Null ELSE array[i]]

\* An array shorter than it is read gives undefined.
At(array, i) == IF i \in DOMAIN array THEN array[i] ELSE Undefined

OptionsFromArray(type, a) ==
    CASE type = "last" -> [last |-> At(a, 8)]
      [] type = "from" -> [fromTimestamp |-> At(a, 8), fromSequence |-> At(a, 9),
                           publisherId |-> At(a, 10)]
      [] type = "range" -> [fromTimestamp |-> At(a, 8), fromSequence |-> At(a, 9),
                            toTimestamp |-> At(a, 10), toSequence |-> At(a, 11),
                            msgChainId |-> At(a, 12), publisherId |-> At(a, 13)]

\* The serializers' fromArray, which construct the message.
StoredFromArray(a) ==
    [version |-> At(a, 1), messageType |-> ProofOfMessageStored,
     streamId |-> At(a, 3), partition |-> At(a, 4), timestamp |-> At(a, 5),
     sequenceNumber |-> At(a, 6), size |-> At(a, 7), hash |-> At(a, 8)]
RequestFromArray(a) ==
    [version |-> At(a, 1), messageType |-> QueryRequest,
     requestId |-> At(a, 3), consumerId |-> At(a, 4), streamId |-> At(a, 5),
     partition |-> At(a, 6), queryType |-> At(a, 7),
     queryOptions |-> OptionsFromArray(At(a, 7), a)]
ResponseFromArray(a) ==
    [version |-> At(a, 1), messageType |-> QueryResponse,
     requestId |-> At(a, 3), size |-> At(a, 4), hash |-> At(a, 5),
     signature |-> At(a, 6)]
\* The constructor of a proof puts its own time where there is none.
TimestampOrNow(t) == IF t = Undefined THEN Now ELSE t
ReportFromArray(a) ==
    [version |-> At(a, 1), messageType |-> ProofOfReport,
     address |-> At(a, 3), hash |-> At(a, 4), toth |-> At(a, 5),
     timestamp |-> TimestampOrNow(At(a, 6)), signature |-> At(a, 7)]

fromArray(a) ==
    CASE a[2] = ProofOfMessageStored -> StoredFromArray(a)
      [] a[2] = QueryRequest -> RequestFromArray(a)
      [] a[2] = QueryResponse -> ResponseFromArray(a)
      [] a[2] = ProofOfReport -> ReportFromArray(a)

-----------------------------------------------------------------------------
(* The processes.                                                          *)

\* Every serializer registers itself when its module is loaded.
MessagesInit ==
    /\ serializers = [p \in Processes |-> [v \in {VERSION} |-> Types]]
    /\ changed = 0
    /\ stream = Foreign
    /\ received = [p \in Processes |-> {}]
    /\ refused = [p \in Processes |-> {}]

\* getSerializer: the error it throws, or Found.
Found == "found"
SerializerOf(p, version, type) ==
    CASE version \notin DOMAIN serializers[p] -> "UnsupportedVersionError"
      [] version \in DOMAIN serializers[p] ->
             IF type \in serializers[p][version] THEN Found ELSE "UnsupportedTypeError"

RegisterSerializer(p, type) ==
    /\ changed < MaxChanged /\ type \notin serializers[p][VERSION]
    /\ serializers' = [serializers EXCEPT ![p][VERSION] = @ \union {type}]
    /\ changed' = changed + 1
    /\ UNCHANGED <<stream, received, refused>>

UnregisterSerializer(p, type) ==
    /\ changed < MaxChanged /\ type \in serializers[p][VERSION]
    /\ serializers' = [serializers EXCEPT ![p][VERSION] = @ \ {type}]
    /\ changed' = changed + 1
    /\ UNCHANGED <<stream, received, refused>>

\* serialize; a message without a serializer throws and nothing is published.
Publish(p, of, m) ==
    /\ SerializerOf(p, m.version, m.messageType) = Found
    /\ stream' = stream \union {[of |-> of, array |-> Stringified(toArray(m))]}
    /\ Cardinality(stream') <= MaxPublished
    /\ UNCHANGED <<serializers, changed, received, refused>>

\* A process publishes what it constructed, or again what it received.
PublishOwn(p) == \E m \in Messages : Publish(p, m, m)
PublishAgain(p) == \E r \in received[p] : Publish(p, r.of, r.message)

\* deserialize of an array that was delivered, perhaps late or once more.
Receive(p, s) ==
    LET verdict == SerializerOf(p, s.array[1], s.array[2])
    IN /\ IF verdict = Found
          THEN /\ received' = [received EXCEPT ![p] =
                      @ \union {[of |-> s.of, message |-> fromArray(s.array)]}]
               /\ UNCHANGED refused
          ELSE /\ refused' = [refused EXCEPT ![p] = @ \union {<<s.array, verdict>>}]
               /\ UNCHANGED received
       /\ UNCHANGED <<serializers, changed, stream>>

MessagesNext ==
    \E p \in Processes :
        \/ \E type \in Types : RegisterSerializer(p, type)
        \/ \E type \in Types : UnregisterSerializer(p, type)
        \/ PublishOwn(p)
        \/ PublishAgain(p)
        \/ \E s \in stream : Receive(p, s)

MessagesSpec == MessagesInit /\ [][MessagesNext]_messageVars

-----------------------------------------------------------------------------
(* Properties.                                                             *)

NullFor(fields) ==
    [f \in DOMAIN fields |-> IF fields[f] = Undefined THEN Null ELSE fields[f]]
AsReceived(m) ==
    [f \in DOMAIN m |->
        IF f = "queryOptions" THEN NullFor(m[f])
        ELSE IF m[f] = Undefined THEN Null ELSE m[f]]

\* A process reads the message another constructed, field by field, but for
\* what it left undefined, which is null (toArray, fromArray of the four
\* serializers, and the JSON between them).
DecodedAsSent ==
    \A p \in Processes : \A r \in received[p] : r.message = AsReceived(r.of)

=============================================================================

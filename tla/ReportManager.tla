---------------------------- MODULE ReportManager ----------------------------
(***************************************************************************)
(* LogStoreReportManager (contracts/src/ReportManager.sol): which node may *)
(* report and when, the proofs a report needs, the reputations they earn,  *)
(* and the reports accepted so far.                                        *)
(*                                                                         *)
(* The node manager is seen through two of its views: members is           *)
(* nodeAddresses() and staked holds the nodes for which isStaked is true.  *)
(* The billing a report carries is one value (its content): the arrays     *)
(* that make it up are only hashed and stored here.  Reputations are those *)
(* of Nodes; a block is mined per unit of time, so that block.number gives *)
(* block.timestamp too.                                                    *)
(***************************************************************************)
EXTENDS Integers, FiniteSets, SequencesExt

CONSTANTS
    Nodes,          \* the addresses that may be nodes or sign proofs
    NoNode,         \* address(0)
    Ids,            \* report ids
    EmptyId,        \* "", which lastReportId holds before the first report
    Contents,       \* what reports may bill
    NoContent,      \* the content of a report that was never made
    Precision,      \* MATH_PRECISION
    ProofLists,     \* bound of the model: the arrays of proofs that are sent
    NodeViews,      \* bound of the model: the node lists and who of them is staked
    Buffers,        \* bound of the model: the buffers the owner sets
    MaxBlockNumber  \* bound of the model: the last block that is mined

\* A proof: who it says signed, when, and whether the signature is that
\* signer's on this report at that time.
Proof == [signer : Nodes, timestamp : Nat, valid : BOOLEAN]

\* The three arrays proofs are sent in, a signature being whether it is good.
Arrays == [addresses : Seq(Nodes), timestamps : Seq(Nat), signatures : Seq(BOOLEAN)]

ASSUME ReportConstantsAssumption ==
    /\ EmptyId \in Ids
    /\ NoContent \notin Contents
    /\ NoNode \notin Nodes
    /\ Precision \in Nat \ {0, 1}
    /\ Buffers \subseteq Nat
    /\ MaxBlockNumber \in Nat
ASSUME ProofListsAssumption == ProofLists \subseteq Arrays
ASSUME NodeViewsAssumption ==
    \A v \in NodeViews :
        /\ v.members \in Seq(Nodes) /\ IsInjective(v.members)
        /\ v.staked \subseteq ToSet(v.members)

VARIABLES
    reputationOf, reports, reportProofs, lastReportId,
    reportTimeBuffer,  \* in units of 1 / Precision
    block,             \* block.number
    members, staked    \* the node manager

reportVars == <<reputationOf, reports, reportProofs, lastReportId, reportTimeBuffer>>
reportEnvVars == <<block, members, staked>>

Report == [height : Nat, content : Contents \cup {NoContent},
           reporter : Nodes \cup {NoNode}, processed : BOOLEAN]
NoReport == [height |-> 0, content |-> NoContent, reporter |-> NoNode, processed |-> FALSE]

blockTimestamp == block * Precision

-----------------------------------------------------------------------------
(* Mutants: what a slip in the definition of the same shape below would do. *)

\* The end of a turn belongs to it.
EndIncluded(ts, start) == ts >= start /\ ts <= start + reportTimeBuffer
\* Half the nodes, without the precision: an integer division.
HalfRoundedDown(count, n) == count >= n \div 2
\* The height is compared with the same id's report, not with the last one.
NewForThisId(id, h) == h <= block /\ h > reports[id].height
\* A signer that is not the sender always gains.
EveryoneGains(rep, lead) == rep + 1
\* A report is refused while the last one is not processed, not once it is itself.
LastProcessed(id) == ~reports[lastReportId].processed

-----------------------------------------------------------------------------
\* getReporters: a bubble sort of the members by reputation.
MustSwap(a, b) == reputationOf[b] > reputationOf[a]

BubbleStep(r, j) ==
    IF MustSwap(r[j], r[j + 1]) THEN [r EXCEPT ![j] = r[j + 1], ![j + 1] = r[j]] ELSE r

BubblePass(r, i) == FoldLeft(BubbleStep, r, [j \in 1 .. Len(r) - i |-> j])

Reporters == FoldLeft(BubblePass, members, [i \in 1 .. Len(members) - 1 |-> i])

\* The loop's bound, reportersCount - 1, underflows without members.
GetReportersReturns == members # << >>

\* quorumIsMet
QuorumIsMet(participants, total) ==
    LET count == Cardinality({i \in DOMAIN total : total[i] \in ToSet(participants)})
    IN  total # << >> /\ count * Precision >= (Len(total) * Precision) \div 2

SumTimestamps(timestamps) == FoldLeft(LAMBDA sum, t : sum + t * Precision, 0, timestamps)

\* aggregateTimestamps, for at least one timestamp: it divides by their number.
MeanTimestamp(timestamps) == SumTimestamps(timestamps) \div Len(timestamps)

\* The loop of _canReport over the cycles: how many ended by ts.
CycleAt(ts, mean, cycleTime) == IF ts >= mean THEN (ts - mean) \div cycleTime ELSE 0

InTurn(ts, start) == ts >= start /\ ts < start + reportTimeBuffer

\* Whether the i-th of n reporters has its turn at time ts.
HasTurn(i, n, mean, ts) ==
    LET cycleTime == reportTimeBuffer * n
    IN  InTurn(ts, (i - 1) * reportTimeBuffer + CycleAt(ts, mean, cycleTime) * cycleTime + mean)

\* _canReport at time ts.  With a buffer of 0 it is false before the mean
\* timestamp and runs out of gas from it on.
CanReport(sender, reporters, timestamps, ts) ==
    LET mean == MeanTimestamp(timestamps)
    IN  /\ timestamps # << >>
        /\ reportTimeBuffer > 0
        /\ \E i \in DOMAIN reporters :
            reporters[i] = sender /\ HasTurn(i, Len(reporters), mean, ts)

-----------------------------------------------------------------------------
\* The lengths are only compared in sum: 3 * a = a + t + s.
LengthsMatch(sent) ==
    3 * Len(sent.addresses) =
        Len(sent.addresses) + Len(sent.timestamps) + Len(sent.signatures)

\* The i-th address with its timestamp and signature.  What an array that is
\* too short has there is only read for a reporter, and that reverts.
ProofsSent(sent) ==
    [i \in DOMAIN sent.addresses |->
        [signer |-> sent.addresses[i],
         timestamp |-> IF i \in DOMAIN sent.timestamps THEN sent.timestamps[i] ELSE 0,
         valid |-> i \in DOMAIN sent.signatures /\ sent.signatures[i]]]

ReadsInBounds(sent, reporters) ==
    \A i \in DOMAIN sent.addresses :
        sent.addresses[i] \in ToSet(reporters) =>
            i \in DOMAIN sent.timestamps /\ i \in DOMAIN sent.signatures

\* The last proof that names the reporter, if any: the inner loop of report().
ProofsOf(reporter, proofs) == {j \in DOMAIN proofs : proofs[j].signer = reporter}
ProofOf(reporter, proofs) ==
    proofs[CHOOSE j \in ProofsOf(reporter, proofs) :
            \A k \in ProofsOf(reporter, proofs) : k <= j]
Verified(reporter, proofs) ==
    ProofsOf(reporter, proofs) # {} /\ ProofOf(reporter, proofs).valid

\* The reputation of a signer other than the sender: it loses when it was
\* ranked before the sender and gains when it comes after.
SignerReputation(rep, lead) ==
    IF lead THEN rep + 1 ELSE IF rep >= 5 THEN rep - 5 ELSE 0

\* A reporter without a good proof.  The reset hits the address sent at the
\* reporter's position, and the call reverts when fewer were sent.
BadProof(tally, proofs, i) ==
    IF i \in DOMAIN proofs
    THEN [tally EXCEPT !.reputation[proofs[i].signer] = 0]
    ELSE [tally EXCEPT !.reverts = TRUE]

GoodProof(tally, sender, proof) ==
    LET r == proof.signer
        counted == [tally EXCEPT !.proofs = Append(@, proof)]
    IN  IF r = sender
        THEN [counted EXCEPT !.reputation[r] = @ + 10, !.lead = TRUE]
        ELSE [counted EXCEPT !.reputation[r] = SignerReputation(@, tally.lead)]

\* The loop of report() over the reporters.
TallyReporter(tally, sender, reporters, proofs, i) ==
    IF Verified(reporters[i], proofs)
    THEN GoodProof(tally, sender, ProofOf(reporters[i], proofs))
    ELSE BadProof(tally, proofs, i)

Tally(sender, reporters, proofs) ==
    FoldLeftDomain(
        LAMBDA tally, i : TallyReporter(tally, sender, reporters, proofs, i),
        [reputation |-> reputationOf, proofs |-> << >>, lead |-> FALSE, reverts |-> FALSE],
        reporters)

\* require(consensusCount >= minConsensusCount)
ConsensusMet(count, n) == count * Precision >= (n * Precision) \div 2

NotProcessed(id) == ~reports[id].processed

HeightAllowed(id, h) == h <= block /\ h > reports[lastReportId].height

-----------------------------------------------------------------------------
\* The requires of report(), given what the loop over the reporters came to.
ReportAllowed(sender, id, h, reporters, sent, tally) ==
    /\ sender \in staked
    /\ NotProcessed(id)
    /\ HeightAllowed(id, h)
    /\ LengthsMatch(sent)
    /\ GetReportersReturns
    /\ QuorumIsMet(sent.addresses, reporters)
    /\ CanReport(sender, reporters, sent.timestamps, blockTimestamp)
    /\ ReadsInBounds(sent, reporters)
    /\ ~tally.reverts
    /\ ConsensusMet(Len(tally.proofs), Len(reporters))

\* report(id, blockHeight, ..., addresses, proofTimestamps, signatures)
ReportTx(sender, id, h, content, sent) ==
    LET reporters == Reporters
        tally     == Tally(sender, reporters, ProofsSent(sent))
    IN  /\ ReportAllowed(sender, id, h, reporters, sent, tally)
        /\ reputationOf' = tally.reputation
        /\ reportProofs' = [reportProofs EXCEPT ![id] = tally.proofs]
        /\ reports' = [reports EXCEPT ![id] =
                            [height |-> h, content |-> content, reporter |-> sender,
                             processed |-> FALSE]]
        /\ lastReportId' = id
        /\ UNCHANGED reportTimeBuffer

\* processReport(id).  Only the node manager calls it, after its own check
\* that the report is not processed; that the report was made nobody checks.
MarkProcessed(id) ==
    /\ NotProcessed(id)
    /\ reports' = [reports EXCEPT ![id].processed = TRUE]
    /\ UNCHANGED <<reputationOf, reportProofs, lastReportId, reportTimeBuffer>>

\* setReportTimeBuffer
SetReportTimeBuffer(buffer) ==
    /\ reportTimeBuffer' = buffer * Precision
    /\ UNCHANGED <<reputationOf, reports, reportProofs, lastReportId>>

\* The rest of the chain: blocks, and nodes that come, go, stake and unstake.
NextBlock ==
    /\ block < MaxBlockNumber
    /\ block' = block + 1
    /\ UNCHANGED <<reportVars, members, staked>>

NodesChange(view) ==
    /\ members' = view.members
    /\ staked' = view.staked
    /\ UNCHANGED <<reportVars, block>>

ReportInit ==
    /\ reputationOf = [n \in Nodes |-> 0]
    /\ reports = [id \in Ids |-> NoReport]
    /\ reportProofs = [id \in Ids |-> << >>]
    /\ lastReportId = EmptyId
    /\ reportTimeBuffer \in {b * Precision : b \in Buffers}
    /\ block = 0
    /\ members = << >>
    /\ staked = {}

ReportNext ==
    \/ /\ UNCHANGED reportEnvVars
       /\ \/ \E sender \in staked, id \in Ids, h \in 1 .. MaxBlockNumber,
                content \in Contents, sent \in ProofLists :
                ReportTx(sender, id, h, content, sent)
          \/ \E id \in Ids : MarkProcessed(id)
          \/ \E buffer \in Buffers : SetReportTimeBuffer(buffer)
    \/ NextBlock
    \/ \E view \in NodeViews : NodesChange(view)

ReportSpec == ReportInit /\ [][ReportNext]_<<reportVars, reportEnvVars>>

-----------------------------------------------------------------------------
(* Properties *)

\* At any time at most one node may report on given proofs, and from their
\* mean timestamp on there is always one.
OneReporterAtATime ==
    reportTimeBuffer > 0 /\ members # << >> =>
        LET reporters == Reporters
        IN  \A timestamps \in {sent.timestamps : sent \in ProofLists} \ {<< >>} :
                LET may == {n \in Nodes : CanReport(n, reporters, timestamps, blockTimestamp)}
                IN  /\ Cardinality(may) <= 1
                    /\ blockTimestamp >= MeanTimestamp(timestamps) => may # {}

Accepted(id) == reports[id]'.height # reports[id].height
GoodProofs(proofs) == {i \in DOMAIN proofs : proofs[i].valid}
Signers(id) == {reportProofs[id][i].signer : i \in GoodProofs(reportProofs[id])}

\* A report is accepted only with the good signatures of half of the members,
\* each counted once, however often an address is sent.
AcceptedByHalf ==
    [][\A id \in Ids : Accepted(id) =>
        /\ Signers(id)' \subseteq ToSet(members)
        /\ 2 * Cardinality(Signers(id)') >= Len(members)]_reportVars

\* The last report has the greatest height and no other has the same one,
\* when ids are reported again and when unknown ids are processed too.
LastReportIsHighest ==
    \A id \in Ids \ {lastReportId} :
        reports[id].height < reports[lastReportId].height \/ reports[id].height = 0

\* Once a report was processed nothing of it changes: it is not billed twice
\* and its proofs remain.
ProcessedIsFinal ==
    [][\A id \in Ids : reports[id].processed =>
        reports[id]' = reports[id] /\ reportProofs[id]' = reportProofs[id]]_reportVars

Position(reporters, n) == CHOOSE i \in DOMAIN reporters : reporters[i] = n

\* Reputation is earned by a good signature on an accepted report, and never
\* by a node that let its own turn pass before the report was sent.
ReputationEarned ==
    [][\A n \in Nodes : reputationOf[n]' > reputationOf[n] =>
        \E id \in Ids :
            /\ Accepted(id)
            /\ n \in Signers(id)'
            /\ Position(Reporters, n) >= Position(Reporters, reports[id].reporter')]_reportVars

\* What the comment in report() says: a bad proof resets the reputation of
\* the reporter it stands for.
BadProofsReset ==
    LET reporters == Reporters
    IN  \A sender \in staked, id \in Ids, h \in 1 .. block, sent \in ProofLists :
            LET proofs == ProofsSent(sent)
                tally  == Tally(sender, reporters, proofs)
            IN  ReportAllowed(sender, id, h, reporters, sent, tally) =>
                    \A n \in ToSet(reporters) :
                        ProofsOf(n, proofs) # {} /\ ~Verified(n, proofs)
                            => tally.reputation[n] = 0

=============================================================================

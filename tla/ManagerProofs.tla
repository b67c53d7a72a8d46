--------------------------- MODULE ManagerProofs ---------------------------
(***************************************************************************)
(* Proofs about StoreManager and about ReportManager, which share no       *)
(* state.                                                                  *)
(***************************************************************************)
EXTENDS StoreManager, ReportManager, StoreLedgerProofs

(***************************************************************************)
(* Proofs about StoreManager, for every set of users, streams and accounts *)
(* and every amount that is staked or captured.                            *)
(***************************************************************************)

\* The storage and the balances are typed, the streams have what was staked
\* and not captured, and the holders are within their stakes.
StoreInv ==
    /\ store \in Storage(Users, Streams)
    /\ tokens \in [Accounts -> Nat]
    /\ StoresHoldTokens
    /\ WithinStakes(store)

\* stake() moves the amount to the contract and to the stream.
LEMMA StakeStep ==
    ASSUME StoreInv, NEW u \in Users, NEW s \in Streams, NEW amount \in StakeAmounts,
           StoreStakeTx(u, s, amount)
    PROVE  StoreInv'
  <1>1. /\ amount \in Nat /\ store \in Storage(Users, Streams) /\ IsFiniteSet(Streams)
        /\ u \in Accounts /\ StoreManagerAccount \in Accounts /\ u # StoreManagerAccount
        /\ tokens \in [Accounts -> Nat] /\ tokens[u] >= amount
        /\ StoreTokens[StoreManagerAccount] \in Nat
    BY StoreAccountsAssumption, StoreAmountsAssumption, StoreTokensAssumption
    DEF StoreInv, StoreStakeTx
  <1>2. store' = Stake(store, u, s, amount)
    BY DEF StoreStakeTx
  <1>3. /\ store' \in Storage(Users, Streams)
        /\ SumGrows(store.stores, store'.stores, amount)
        /\ WithinStakes(store')
    BY <1>1, <1>2, StakeKeeps DEF StoreInv
  <1>4. /\ tokens' \in [Accounts -> Nat]
        /\ tokens'[StoreManagerAccount] = tokens[StoreManagerAccount] + amount
    BY <1>1 DEF StoreStakeTx
  <1>5. StoresHoldTokens'
    <2>1. Sum(store'.stores) = Sum(store.stores) + amount
      BY <1>3 DEF SumGrows
    <2>2. Sum(store.stores) = tokens[StoreManagerAccount] - StoreTokens[StoreManagerAccount]
      BY DEF StoreInv, StoresHoldTokens
    <2>3. tokens[StoreManagerAccount] \in Nat
      BY <1>1
    <2>4. QED BY <1>1, <1>4, <2>1, <2>2, <2>3 DEF StoresHoldTokens
  <1>6. QED BY <1>3, <1>4, <1>5 DEF StoreInv

\* capture() moves what it takes from the stream to the parent.
LEMMA CaptureStep ==
    ASSUME StoreInv, NEW s \in Streams, NEW amount \in CaptureAmounts, CaptureTx(s, amount)
    PROVE  StoreInv'
  <1> DEFINE c == Captured(store, s, amount)
  <1>1. /\ amount \in Nat /\ store \in Storage(Users, Streams) /\ IsFiniteSet(Streams)
        /\ ParentAccount \in Accounts /\ StoreManagerAccount \in Accounts
        /\ ParentAccount # StoreManagerAccount
        /\ tokens \in [Accounts -> Nat]
        /\ StoreTokens[StoreManagerAccount] \in Nat
    BY StoreAccountsAssumption, StoreAmountsAssumption, StoreTokensAssumption DEF StoreInv
  <1>2. /\ store.stores[s] > 0 /\ c <= tokens[StoreManagerAccount]
        /\ store' = Capture(store, s, amount)
        /\ tokens' = [tokens EXCEPT ![StoreManagerAccount] = @ - c, ![ParentAccount] = @ + c]
    BY DEF CaptureTx, CaptureAllowed
  <1> HIDE DEF c
  <1>3. store' \in CaptureOf(Users, Streams, store, s, amount)
    BY <1>1, <1>2, CaptureKeeps
  <1>4. c \in Nat /\ SumGrows(store.stores, store'.stores, -c)
    BY <1>1, <1>2, CaptureSum DEF c
  <1>5. store' \in Storage(Users, Streams) /\ WithinStakes(store')
    BY <1>3 DEF CaptureOf, StoreInv
  <1>6. /\ tokens' \in [Accounts -> Nat]
        /\ tokens'[StoreManagerAccount] = tokens[StoreManagerAccount] - c
    BY <1>1, <1>2, <1>4
  <1>7. StoresHoldTokens'
    <2>1. Sum(store'.stores) = Sum(store.stores) + (-c)
      BY <1>4 DEF SumGrows
    <2>2. Sum(store.stores) = tokens[StoreManagerAccount] - StoreTokens[StoreManagerAccount]
      BY DEF StoreInv, StoresHoldTokens
    <2>3. tokens[StoreManagerAccount] \in Nat
      BY <1>1
    <2>4. QED BY <1>1, <1>4, <1>6, <2>1, <2>2, <2>3 DEF StoresHoldTokens
  <1>8. QED BY <1>5, <1>6, <1>7 DEF StoreInv

LEMMA StoreInvInductive ==
    /\ StoreInit => StoreInv
    /\ StoreInv /\ [StoreNext]_storeVars => StoreInv'
  <1>1. ASSUME StoreInit PROVE StoreInv
    <2> DEFINE none == [s \in Streams |-> 0]
    <2>1. store \in Storage(Users, Streams)
      <3>1. [s \in Streams |-> << >>] \in [Streams -> Seq(Users)]
        OBVIOUS
      <3>2. QED BY <1>1, <3>1 DEF StoreInit, EmptyStore, Storage
    <2>2. tokens = StoreTokens /\ StoreTokens[StoreManagerAccount] \in Nat
      BY <1>1, StoreTokensAssumption, StoreAccountsAssumption DEF StoreInit
    <2>3. Sum(none) = 0
      BY StoreAccountsAssumption, SumOfNothing
    <2>4. store.stores = none /\ \A u \in Users : store.storeBalanceOf[u] = none
      BY <1>1 DEF StoreInit, EmptyStore
    <2>5. store.balanceOf = [u \in Users |-> 0]
      BY <1>1 DEF StoreInit, EmptyStore
    <2> HIDE DEF none
    <2>6. StoresHoldTokens
      BY <2>2, <2>3, <2>4 DEF StoresHoldTokens
    <2>7. WithinStakes(store)
      BY <2>3, <2>4, <2>5 DEF WithinStakes
    <2>8. QED BY <2>1, <2>2, <2>6, <2>7, StoreTokensAssumption DEF StoreInv
  <1>2. ASSUME StoreInv, [StoreNext]_storeVars PROVE StoreInv'
    <2>1. CASE UNCHANGED storeVars
      BY <1>2, <2>1 DEF StoreInv, storeVars, StoresHoldTokens, WithinStakes
    <2>2. ASSUME NEW s \in Streams, NEW u \in Users, NEW amount \in StakeAmounts,
                 StoreStakeTx(u, s, amount)
          PROVE  StoreInv'
      BY <1>2, <2>2, StakeStep
    <2>3. ASSUME NEW s \in Streams, NEW amount \in CaptureAmounts, CaptureTx(s, amount)
          PROVE  StoreInv'
      BY <1>2, <2>3, CaptureStep
    <2>4. QED BY <1>2, <2>1, <2>2, <2>3 DEF StoreNext
  <1>3. QED BY <1>1, <1>2

\* No capture, overflowing or not, pays a stream's fee with another stream's
\* stake: the streams' stakes are the tokens the contract got by staking.
THEOREM StreamsHoldTheirTokens == StoreSpec => []StoresHoldTokens
  <1>1. StoreInv => StoresHoldTokens
    BY DEF StoreInv
  <1>2. QED BY <1>1, StoreInvInductive, PTL DEF StoreSpec

\* No holder's total is more than what it has on the streams, whatever the
\* rounding of the fees and the rebuilding of the lists have done.
THEOREM HoldersWithinStakes == StoreSpec => []WithinStakes(store)
  <1>1. StoreInv => WithinStakes(store)
    BY DEF StoreInv
  <1>2. QED BY <1>1, StoreInvInductive, PTL DEF StoreSpec

\* A stream's list goes on naming exactly its holders, through stakes, fees and
\* overflows, until a fee finishes one of several holders, whatever the stakes
\* and the fees are.
THEOREM ListsNameHolders == StoreSpec => ListFollowsStakes
  <1>1. StoreInv /\ [StoreNext]_storeVars => [ListsKept]_storeVars
    <2> SUFFICES ASSUME StoreInv, StoreNext
                 PROVE  \A t \in Streams :
                            Listed(t) => Listed(t)' \/ FinishesOneOfSeveral(t)
      BY DEF ListsKept
    <2>1. \A t \in Streams : Listed(t) <=> Names(Users, store, t)
      BY DEF Listed, Names
    <2>2. \A t \in Streams : Listed(t)' <=> Names(Users, store', t)
      BY DEF Listed, Names
    <2>3. \A t \in Streams :
              FinishesOne(Users, store, store', t) <=> FinishesOneOfSeveral(t)
      BY DEF FinishesOne, FinishesOneOfSeveral
    <2>4. store \in Storage(Users, Streams) /\ IsFiniteSet(Streams)
      BY StoreAccountsAssumption DEF StoreInv
    <2>5. ASSUME NEW s \in Streams, NEW u \in Users, NEW amount \in StakeAmounts,
                 StoreStakeTx(u, s, amount), NEW t \in Streams, Names(Users, store, t)
          PROVE  Names(Users, store', t)
      <3>1. store' = Stake(store, u, s, amount) /\ amount \in Nat \ {0}
        BY <2>5, StoreAmountsAssumption DEF StoreStakeTx
      <3>2. QED BY <2>4, <2>5, <3>1, StakeLists
    <2>6. ASSUME NEW s \in Streams, NEW amount \in CaptureAmounts, CaptureTx(s, amount),
                 NEW t \in Streams, Names(Users, store, t)
          PROVE  Names(Users, store', t) \/ FinishesOne(Users, store, store', t)
      <3>1. store' = Capture(store, s, amount) /\ amount \in Nat /\ store.stores[s] > 0
        BY <2>6, StoreAmountsAssumption DEF CaptureTx, CaptureAllowed
      <3>2. \/ Names(Users, Capture(store, s, amount), t)
            \/ t = s /\ FinishesOne(Users, store, Capture(store, s, amount), s)
        BY <2>4, <2>6, <3>1, CaptureLists
      <3>3. QED BY <3>1, <3>2
    <2>7. PICK s \in Streams :
              \/ \E u \in Users, amount \in StakeAmounts : StoreStakeTx(u, s, amount)
              \/ \E amount \in CaptureAmounts : CaptureTx(s, amount)
      BY DEF StoreNext
    <2>8. ASSUME NEW t \in Streams, Listed(t) PROVE Listed(t)' \/ FinishesOneOfSeveral(t)
      <3>1. Names(Users, store, t)
        BY <2>1, <2>8
      <3>2. Names(Users, store', t) \/ FinishesOne(Users, store, store', t)
        BY <2>5, <2>6, <2>7, <3>1
      <3>3. QED BY <2>2, <2>3, <2>8, <3>2
    <2>9. QED BY <2>8
  <1>2. QED BY <1>1, StoreInvInductive, PTL DEF StoreSpec, ListFollowsStakes

-----------------------------------------------------------------------------
(***************************************************************************)
(* Proofs about ReportManager, for every list of members, every number of  *)
(* proofs and every buffer: the order and the finality of the accepted     *)
(* reports, the turns in which nodes may report, the ranking getReporters  *)
(* returns, and what the loop of report() counts and gives away.           *)
(***************************************************************************)

(***************************************************************************)
(* The reports.                                                            *)
(***************************************************************************)

\* What of the state the order of the reports depends on.
ReportsInv ==
    /\ reports \in [Ids -> Report]
    /\ DOMAIN reportProofs = Ids
    /\ lastReportId \in Ids
    /\ LastReportIsHighest

LEMMA ReportsInitially == ReportInit => ReportsInv
  BY ReportConstantsAssumption
  DEF ReportInit, ReportsInv, LastReportIsHighest, Report, NoReport

\* A report that is accepted is higher than the last one, hence than all.
LEMMA ReportKeepsOrder ==
    ASSUME ReportsInv, NEW sender \in Nodes, NEW id \in Ids, NEW h \in 1 .. MaxBlockNumber,
           NEW content \in Contents, NEW sent, ReportTx(sender, id, h, content, sent)
    PROVE  ReportsInv'
  <1> DEFINE new == [height |-> h, content |-> content, reporter |-> sender,
                     processed |-> FALSE]
  <1>1. /\ reports' = [reports EXCEPT ![id] = new]
        /\ lastReportId' = id
        /\ h > reports[lastReportId].height
    BY DEF ReportTx, ReportAllowed, HeightAllowed
  <1>2. new \in Report /\ new.height = h
    BY ReportConstantsAssumption DEF Report
  <1> HIDE DEF new
  <1>3. reports' \in [Ids -> Report]
    BY <1>1, <1>2 DEF ReportsInv
  <1>4. \A x \in Ids : reports[x] \in Report /\ reports[x].height \in Nat
    BY DEF ReportsInv, Report
  <1>5. LastReportIsHighest'
    <2> SUFFICES ASSUME NEW x \in Ids \ {id}
                 PROVE  reports'[x].height < reports'[id].height
      BY <1>1 DEF LastReportIsHighest
    <2>1. reports'[x] = reports[x] /\ reports'[id] = new
      BY <1>1 DEF ReportsInv
    <2>2. reports[x].height <= reports[lastReportId].height
      BY <1>4 DEF ReportsInv, LastReportIsHighest
    <2>3. QED
      BY <2>1, <2>2, <1>1, <1>2, <1>4 DEF ReportsInv
  <1>6. DOMAIN reportProofs' = Ids
    BY DEF ReportTx, ReportsInv
  <1>7. QED
    BY <1>1, <1>3, <1>5, <1>6 DEF ReportsInv

\* Marking a report processed keeps all heights, also those of unknown ids.
LEMMA MarkKeepsOrder ==
    ASSUME ReportsInv, NEW id \in Ids, MarkProcessed(id)
    PROVE  ReportsInv'
  <1>1. reports' = [reports EXCEPT ![id].processed = TRUE] /\ lastReportId' = lastReportId
    BY DEF MarkProcessed
  <1>2. \A x \in Ids : reports'[x] \in Report /\ reports'[x].height = reports[x].height
    BY <1>1 DEF ReportsInv, Report
  <1>3. reports' \in [Ids -> Report]
    BY <1>1, <1>2 DEF ReportsInv
  <1>4. reportProofs' = reportProofs
    BY DEF MarkProcessed
  <1>5. QED
    BY <1>1, <1>2, <1>3, <1>4 DEF ReportsInv, LastReportIsHighest

\* Staked nodes are nodes: the views of the node manager are.
StakedNodes == staked \subseteq Nodes

LEMMA NodeViewsStakeNodes ==
    ASSUME NEW view \in NodeViews
    PROVE  view.staked \subseteq Nodes
  BY NodeViewsAssumption DEF ToSet

LEMMA ReportsStep ==
    ASSUME ReportsInv, StakedNodes, [ReportNext]_<<reportVars, reportEnvVars>>
    PROVE  ReportsInv' /\ StakedNodes'
  <1>1. CASE UNCHANGED reportEnvVars /\
             \E sender \in staked, id \in Ids, h \in 1 .. MaxBlockNumber,
                content \in Contents, sent \in ProofLists :
                ReportTx(sender, id, h, content, sent)
    BY <1>1, ReportKeepsOrder DEF StakedNodes, reportEnvVars
  <1>2. CASE UNCHANGED reportEnvVars /\ \E id \in Ids : MarkProcessed(id)
    BY <1>2, MarkKeepsOrder DEF StakedNodes, reportEnvVars
  <1>3. CASE UNCHANGED reportEnvVars /\ \E buffer \in Buffers : SetReportTimeBuffer(buffer)
    BY <1>3 DEF StakedNodes, reportEnvVars, SetReportTimeBuffer, ReportsInv, LastReportIsHighest
  <1>4. CASE NextBlock
    BY <1>4 DEF NextBlock, StakedNodes, reportVars, ReportsInv, LastReportIsHighest
  <1>5. CASE \E view \in NodeViews : NodesChange(view)
    BY <1>5, NodeViewsStakeNodes
    DEF NodesChange, StakedNodes, reportVars, ReportsInv, LastReportIsHighest
  <1>6. CASE UNCHANGED <<reportVars, reportEnvVars>>
    BY <1>6 DEF reportVars, reportEnvVars, StakedNodes, ReportsInv, LastReportIsHighest
  <1>7. QED
    BY <1>1, <1>2, <1>3, <1>4, <1>5, <1>6 DEF ReportNext

\* The inductive invariant of the accepted reports.
THEOREM ReportsInvariant == ReportSpec => [](ReportsInv /\ StakedNodes)
  <1>1. ReportInit => ReportsInv /\ StakedNodes
    BY ReportsInitially DEF ReportInit, StakedNodes
  <1>2. ReportsInv /\ StakedNodes /\ [ReportNext]_<<reportVars, reportEnvVars>>
        => (ReportsInv /\ StakedNodes)'
    BY ReportsStep
  <1>3. QED
    BY <1>1, <1>2, PTL DEF ReportSpec

\* The last report has the greatest height of all, for every set of ids and
\* whatever the node manager's list does in between.
THEOREM LastIsHighest == ReportSpec => []LastReportIsHighest
  <1>1. ReportsInv /\ StakedNodes => LastReportIsHighest
    BY DEF ReportsInv
  <1>2. QED
    BY <1>1, ReportsInvariant, PTL

\* What ProcessedIsFinal says of one step.
ProcessedKept ==
    \A id \in Ids : reports[id].processed =>
        reports[id]' = reports[id] /\ reportProofs[id]' = reportProofs[id]

LEMMA ReportKeepsProcessed ==
    ASSUME reports \in [Ids -> Report], DOMAIN reportProofs = Ids,
           NEW sender, NEW id \in Ids, NEW h, NEW content, NEW sent,
           ReportTx(sender, id, h, content, sent)
    PROVE  ProcessedKept
  <1>1. ~reports[id].processed
    BY DEF ReportTx, ReportAllowed, NotProcessed
  <1>2. /\ \E new : reports' = [reports EXCEPT ![id] = new]
        /\ \E new : reportProofs' = [reportProofs EXCEPT ![id] = new]
    BY DEF ReportTx
  <1>3. QED
    BY <1>1, <1>2 DEF ProcessedKept

LEMMA MarkKeepsProcessed ==
    ASSUME reports \in [Ids -> Report], NEW id \in Ids, MarkProcessed(id)
    PROVE  ProcessedKept
  BY DEF MarkProcessed, NotProcessed, ProcessedKept

\* A processed report is never written again by report() or processReport().
THEOREM ProcessedReportsAreFinal == ReportSpec => ProcessedIsFinal
  <1>1. ReportsInv /\ StakedNodes /\ [ReportNext]_<<reportVars, reportEnvVars>>
        => [ProcessedKept]_reportVars
    <2> SUFFICES ASSUME ReportsInv, ReportNext
                 PROVE  ProcessedKept \/ UNCHANGED reportVars
      OBVIOUS
    <2>1. CASE \E sender \in staked, id \in Ids, h \in 1 .. MaxBlockNumber,
                  content \in Contents, sent \in ProofLists :
                  ReportTx(sender, id, h, content, sent)
      BY <2>1, ReportKeepsProcessed DEF ReportsInv
    <2>2. CASE \E id \in Ids : MarkProcessed(id)
      BY <2>2, MarkKeepsProcessed DEF ReportsInv
    <2>3. CASE \E buffer \in Buffers : SetReportTimeBuffer(buffer)
      BY <2>3 DEF SetReportTimeBuffer, ProcessedKept
    <2>4. CASE NextBlock \/ \E view \in NodeViews : NodesChange(view)
      BY <2>4 DEF NextBlock, NodesChange
    <2>5. QED
      BY <2>1, <2>2, <2>3, <2>4 DEF ReportNext
  <1>2. QED
    BY <1>1, ReportsInvariant, PTL DEF ReportSpec, ProcessedIsFinal, ProcessedKept

(***************************************************************************)
(* The turns.                                                              *)
(***************************************************************************)

\* A product grows with its factor.
LEMMA ProductMonotone ==
    ASSUME NEW a \in Int, NEW b \in Int, NEW d \in Nat, a <= b
    PROVE  a * d <= b * d
  <1>1. (b - a) * d >= 0
    OBVIOUS
  <1>2. (b - a) * d = b * d - a * d
    OBVIOUS
  <1>3. QED
    BY <1>1, <1>2

\* The quotient is the number q with q * d <= x < (q + 1) * d.
LEMMA QuotientIs ==
    ASSUME NEW x \in Nat, NEW d \in Nat \ {0}, NEW q \in Nat,
           q * d <= x, x < (q + 1) * d
    PROVE  x \div d = q
  <1> DEFINE k == x \div d
  <1>1. k \in Int /\ k * d <= x /\ x < (k + 1) * d
    OBVIOUS
  <1> HIDE DEF k
  <1>2. ~(k + 1 <= q)
    BY <1>1, ProductMonotone
  <1>3. ~(q + 1 <= k)
    BY <1>1, ProductMonotone
  <1>4. QED
    BY <1>1, <1>2, <1>3 DEF k

\* From the mean timestamp on, the i-th reporter has its turn in the i-th part
\* of the cycle; before it nobody has.
LEMMA TurnIs ==
    ASSUME reportTimeBuffer \in Nat \ {0}, NEW n \in Nat \ {0}, NEW i \in 1 .. n,
           NEW mean \in Nat, NEW ts \in Nat
    PROVE  LET cycle == reportTimeBuffer * n
               since == (ts - mean) - ((ts - mean) \div cycle) * cycle
           IN  HasTurn(i, n, mean, ts) <=>
                 /\ ts >= mean
                 /\ (i - 1) * reportTimeBuffer <= since
                 /\ since < i * reportTimeBuffer
  <1> DEFINE cycle == reportTimeBuffer * n
             c == CycleAt(ts, mean, cycle)
             turn == (i - 1) * reportTimeBuffer
  <1>1. cycle \in Nat \ {0}
    OBVIOUS
  <1>2. turn \in Nat /\ i * reportTimeBuffer = turn + reportTimeBuffer
    OBVIOUS
  <1>3. HasTurn(i, n, mean, ts) <=>
            /\ ts >= turn + c * cycle + mean
            /\ ts < turn + c * cycle + mean + reportTimeBuffer
    BY DEF HasTurn, InTurn
  <1> HIDE DEF cycle, turn
  <1>4. CASE ts >= mean
    <2>1. c = (ts - mean) \div cycle /\ c * cycle \in Int
      BY <1>1, <1>4 DEF CycleAt
    <2>2. QED
      BY <1>2, <1>3, <1>4, <2>1 DEF cycle
  <1>5. CASE ~(ts >= mean)
    <2>1. c * cycle = 0
      BY <1>1, <1>5 DEF CycleAt
    <2>2. QED
      BY <1>2, <1>3, <1>5, <2>1
  <1>6. QED
    BY <1>4, <1>5

\* The same, for a cycle that is known.
LEMMA TurnInCycle ==
    ASSUME reportTimeBuffer \in Nat \ {0}, NEW n \in Nat \ {0}, NEW i \in 1 .. n,
           NEW mean \in Nat, NEW ts \in Nat, NEW q \in Nat, NEW cycle,
           cycle = reportTimeBuffer * n, ts >= mean, (ts - mean) \div cycle = q,
           (i - 1) * reportTimeBuffer <= (ts - mean) - q * cycle,
           (ts - mean) - q * cycle < i * reportTimeBuffer
    PROVE  HasTurn(i, n, mean, ts)
  BY TurnIs

\* The time in a cycle is between 0 and the length of the cycle.
LEMMA TimeInCycle ==
    ASSUME NEW x \in Nat, NEW d \in Nat \ {0}
    PROVE  /\ x \div d \in Nat
           /\ x - (x \div d) * d \in Nat
           /\ x - (x \div d) * d < d
  OBVIOUS

\* At no time have two reporters their turn, whatever the buffer, the number of
\* reporters and the mean timestamp.
THEOREM TurnsAreDisjoint ==
    ASSUME reportTimeBuffer \in Nat \ {0}, NEW n \in Nat \ {0},
           NEW i \in 1 .. n, NEW j \in 1 .. n, NEW mean \in Nat, NEW ts \in Nat,
           HasTurn(i, n, mean, ts), HasTurn(j, n, mean, ts)
    PROVE  i = j
  <1> DEFINE cycle == reportTimeBuffer * n
             since == (ts - mean) - ((ts - mean) \div cycle) * cycle
  <1>1. cycle \in Nat \ {0} /\ ts - mean \in Nat
    BY TurnIs
  <1>2. since \in Nat
    BY <1>1, TimeInCycle
  <1>3. /\ (i - 1) * reportTimeBuffer <= since /\ since < i * reportTimeBuffer
        /\ (j - 1) * reportTimeBuffer <= since /\ since < j * reportTimeBuffer
    BY TurnIs
  <1> HIDE DEF since
  <1>4. ~(i <= j - 1)
    BY <1>2, <1>3, ProductMonotone
  <1>5. ~(j <= i - 1)
    BY <1>2, <1>3, ProductMonotone
  <1>6. QED
    BY <1>4, <1>5

\* From the mean timestamp on some reporter has its turn.
THEOREM SomeTurn ==
    ASSUME reportTimeBuffer \in Nat \ {0}, NEW n \in Nat \ {0},
           NEW mean \in Nat, NEW ts \in Nat, ts >= mean
    PROVE  \E i \in 1 .. n : HasTurn(i, n, mean, ts)
  <1> DEFINE cycle == reportTimeBuffer * n
             since == (ts - mean) - ((ts - mean) \div cycle) * cycle
             i == since \div reportTimeBuffer
  <1>1. cycle \in Nat \ {0} /\ ts - mean \in Nat
    OBVIOUS
  <1>2. cycle = n * reportTimeBuffer
    OBVIOUS
  <1> HIDE DEF cycle
  <1>3. since \in Nat /\ since < cycle
    BY <1>1, TimeInCycle
  <1> HIDE DEF since
  <1>4. /\ i \in Nat
        /\ i * reportTimeBuffer <= since
        /\ since < (i + 1) * reportTimeBuffer
    BY <1>3
  <1> HIDE DEF i
  <1>5. ~(n <= i)
    BY <1>2, <1>3, <1>4, ProductMonotone
  <1>6. i + 1 \in 1 .. n
    BY <1>4, <1>5
  <1>7. (i + 1) - 1 = i
    BY <1>4
  <1>8. HasTurn(i + 1, n, mean, ts)
    BY <1>4, <1>6, <1>7, TurnIs DEF since, cycle
  <1>9. QED
    BY <1>6, <1>8

\* One buffer later it is the turn of the reporter ranked next, and after the
\* last one that of the first, in the next cycle.
THEOREM TurnPassesToNext ==
    ASSUME reportTimeBuffer \in Nat \ {0}, NEW n \in Nat \ {0}, NEW i \in 1 .. n,
           NEW mean \in Nat, NEW ts \in Nat, HasTurn(i, n, mean, ts)
    PROVE  HasTurn((i % n) + 1, n, mean, ts + reportTimeBuffer)
  <1> DEFINE B == reportTimeBuffer
             cycle == B * n
             x == ts - mean
             c == x \div cycle
             since == x - c * cycle
             later == (ts + B) - mean
  <1>1. x \in Nat /\ later \in Nat /\ later = x + B
    BY TurnIs
  <1>2. (i - 1) * B <= since /\ since < i * B
    BY TurnIs
  <1>3. /\ cycle \in Nat \ {0} /\ cycle = n * B /\ B <= cycle
        /\ (i - 1) * B = i * B - B /\ i * B \in Nat
    BY ProductMonotone
  <1> HIDE DEF cycle
  <1>4. c \in Nat /\ since \in Nat /\ since < cycle
    BY <1>1, <1>3, TimeInCycle
  <1>5. cycle \in Nat
    BY <1>3
  <1> HIDE DEF c
  <1>6. c \in Nat /\ since \in Nat /\ since < cycle /\ c * cycle \in Nat
    BY <1>4, <1>5
  <1>7. /\ (c + 1) * cycle = c * cycle + cycle
        /\ ((c + 1) + 1) * cycle = c * cycle + cycle + cycle
    BY <1>6, <1>5
  <1>8. x = since + c * cycle
    BY <1>1, <1>6
  <1> HIDE DEF x, since, later
  <1>9. CASE i < n
    <2>1. (i + 1) * B = i * B + B /\ (i + 1) * B <= cycle
      BY <1>3, <1>9, ProductMonotone
    <2>2. later = since + c * cycle + B
      BY <1>1, <1>8
    <2>3. later \div cycle = c
      BY <1>1, <1>2, <1>3, <1>6, <1>7, <2>1, <2>2, QuotientIs
    <2>4. later - c * cycle = since + B
      BY <1>6, <2>2
    <2>5. i % n = i /\ i + 1 \in 1 .. n /\ (i + 1) - 1 = i
      BY <1>9
    <2>6. i * B <= since + B /\ since + B < (i + 1) * B
      BY <1>2, <1>3, <1>6, <2>1
    <2>7. HasTurn(i + 1, n, mean, ts + B)
      <3>1. ts + B \in Nat /\ ts + B >= mean /\ cycle = B * n
        BY <1>1 DEF later, cycle
      <3>2. QED
        BY <1>6, <2>3, <2>4, <2>5, <2>6, <3>1, TurnInCycle DEF later
    <2>8. QED
      BY <2>5, <2>7
  <1>10. CASE i = n
    <2>1. later = since + c * cycle + B
      BY <1>1, <1>8
    <2>2. cycle <= since + B /\ since + B < cycle + B
      BY <1>2, <1>3, <1>6, <1>10
    <2>3. later \div cycle = c + 1
      <3>1. (c + 1) * cycle <= later /\ later < ((c + 1) + 1) * cycle
        BY <1>3, <1>6, <1>7, <2>1, <2>2
      <3>2. c + 1 \in Nat /\ cycle \in Nat \ {0} /\ later \in Nat
        BY <1>1, <1>3, <1>6
      <3>3. QED
        BY <3>1, <3>2, QuotientIs
    <2>4. later - (c + 1) * cycle = since + B - cycle
      BY <1>3, <1>6, <1>7, <2>1
    <2>5. i % n = 0 /\ 1 \in 1 .. n
      BY <1>10
    <2>6. (1 - 1) * B <= since + B - cycle /\ since + B - cycle < 1 * B
      BY <1>3, <1>6, <2>2
    <2>7. HasTurn(1, n, mean, ts + B)
      <3>1. ts + B \in Nat /\ ts + B >= mean /\ cycle = B * n
        BY <1>1 DEF later, cycle
      <3>2. c + 1 \in Nat
        BY <1>6
      <3>3. QED
        BY <2>3, <2>4, <2>5, <2>6, <3>1, <3>2, TurnInCycle DEF later
    <2>8. QED
      BY <2>5, <2>7
  <1>11. QED
    BY <1>9, <1>10

(***************************************************************************)
(* getReporters.                                                           *)
(***************************************************************************)

\* The lists with the members in some order.
Arrangements ==
    {r \in Seq(Nodes) :
        Len(r) = Len(members) /\ IsInjective(r) /\ ToSet(r) = ToSet(members)}

\* The node list and the reputations the sort reads.
RankingTyped ==
    /\ reputationOf \in [Nodes -> Nat]
    /\ members \in Seq(Nodes) /\ IsInjective(members)

\* All entries of an arrangement are nodes and have a reputation.
LEMMA ArrangedNodes ==
    ASSUME RankingTyped, NEW r \in Arrangements
    PROVE  \A p \in 1 .. Len(members) : r[p] \in Nodes /\ reputationOf[r[p]] \in Nat
  <1>1. r \in Seq(Nodes) /\ Len(r) = Len(members)
    BY DEF Arrangements
  <1>2. \A p \in 1 .. Len(members) : r[p] \in Nodes
    BY <1>1
  <1>3. QED BY <1>2 DEF RankingTyped

\* q is r with the entries at j and j + 1 exchanged, or r.
Exchanged(q, r, j) ==
    /\ q \in Arrangements
    /\ \A p \in 1 .. Len(members) : p \notin {j, j + 1} => q[p] = r[p]
    /\ {q[j], q[j + 1]} = {r[j], r[j + 1]}
    /\ reputationOf[q[j]] >= reputationOf[q[j + 1]]

\* One comparison leaves a list of the members, the two compared in order.
LEMMA StepExchanges ==
    ASSUME RankingTyped, NEW r \in Arrangements, NEW j \in 1 .. Len(members) - 1
    PROVE  Exchanged(BubbleStep(r, j), r, j)
  <1> DEFINE n == Len(members)
             s == [r EXCEPT ![j] = r[j + 1], ![j + 1] = r[j]]
  <1>1. /\ n \in Nat /\ j \in 1 .. n /\ j + 1 \in 1 .. n /\ j # j + 1
        /\ r \in Seq(Nodes) /\ Len(r) = n /\ DOMAIN r = 1 .. n
        /\ \A p \in 1 .. n : r[p] \in Nodes
        /\ IsInjective(r) /\ ToSet(r) = ToSet(members)
    BY DEF RankingTyped, Arrangements
  <1>2. /\ DOMAIN s = 1 .. n /\ s[j] = r[j + 1] /\ s[j + 1] = r[j]
        /\ \A p \in 1 .. n : p \notin {j, j + 1} => s[p] = r[p]
    BY <1>1
  <1>3. reputationOf[r[j]] \in Nat /\ reputationOf[r[j + 1]] \in Nat
    BY <1>1 DEF RankingTyped
  <1> HIDE DEF n
  <1>4. CASE MustSwap(r[j], r[j + 1])
    <2>1. BubbleStep(r, j) = s
      BY <1>4 DEF BubbleStep
    <2>2. s \in Seq(Nodes) /\ Len(s) = n
      BY <1>1
    <2> HIDE DEF s
    <2>3. IsInjective(s)
      <3>1. SUFFICES ASSUME NEW a \in 1 .. n, NEW b \in 1 .. n, s[a] = s[b]
                     PROVE  a = b
        BY <1>2 DEF IsInjective
      <3>2. \A p, q \in 1 .. n : r[p] = r[q] => p = q
        BY <1>1 DEF IsInjective
      <3>3. QED BY <1>1, <1>2, <3>1, <3>2
    <2>4. ToSet(s) = ToSet(r)
      BY <1>1, <1>2 DEF ToSet
    <2>5. s \in Arrangements
      BY <1>1, <2>2, <2>3, <2>4 DEF Arrangements, n
    <2>6. reputationOf[s[j]] >= reputationOf[s[j + 1]]
      BY <1>2, <1>3, <1>4 DEF MustSwap
    <2>7. QED BY <1>2, <2>1, <2>5, <2>6 DEF Exchanged, n
  <1>5. CASE ~MustSwap(r[j], r[j + 1])
    <2>1. BubbleStep(r, j) = r
      BY <1>5 DEF BubbleStep
    <2>2. reputationOf[r[j]] >= reputationOf[r[j + 1]]
      BY <1>3, <1>5 DEF MustSwap
    <2>3. QED BY <2>1, <2>2 DEF Exchanged
  <1>6. QED BY <1>4, <1>5

\* The inner loop as a run: the lists after none, one, ... of its rounds.
PassRun(run, r, i) ==
    /\ run[0] = r
    /\ \A j \in 1 .. Len(members) - i :
        run[j - 1] \in Arrangements /\ run[j] = BubbleStep(run[j - 1], j)
    /\ run[Len(members) - i] = BubblePass(r, i)

LEMMA PassRuns ==
    ASSUME RankingTyped, NEW r \in Arrangements, NEW i \in 1 .. Len(members)
    PROVE  \E run : PassRun(run, r, i)
  <1> DEFINE D == Arrangements
             n == Len(members) - i
             js == [j \in 1 .. n |-> j]
             step == [p \in (1 .. n) \X D |-> BubbleStep(p[2], p[1])]
             Loop(g) == g = [t \in SUBSET (1 .. n) |->
                                IF t = {} THEN r
                                ELSE BubbleStep(g[t \ {Max(t)}], js[Max(t)])]
             h == CHOOSE g : Loop(g)
             run == [j \in 0 .. n |-> h[1 .. j]]
  <1>1. /\ n \in Nat /\ Len(r) - i = n /\ DOMAIN js = 1 .. n
        /\ \A j \in 1 .. n : js[j] = j
    BY DEF Arrangements, RankingTyped
  <1>2. \A j \in 1 .. n, x \in D : BubbleStep(x, j) \in D
    <2>1. \A j \in 1 .. n : j \in 1 .. Len(members) - 1
      BY DEF RankingTyped
    <2>2. QED BY <2>1, StepExchanges DEF Exchanged
  <1>3. \A j \in 1 .. n, x \in D :
            step[<<j, x>>] \in D /\ step[<<j, x>>] = BubbleStep(x, j)
    BY <1>2
  <1>4. r \in D
    OBVIOUS
  <1>5. BubblePass(r, i) = FoldLeft(BubbleStep, r, js)
    BY <1>1 DEF BubblePass
  <1>6. FoldLeft(BubbleStep, r, js) = h[1 .. n]
    BY <1>1 DEF FoldLeft, MapThenFoldSet
  <1> HIDE DEF D, step, js
  <1>7. n = Len(members) - i
    OBVIOUS
  <1> HIDE DEF n
  <1>8. \E g : Loop(g)
    <2>1. PICK g : LoopRecurs(g, n, D, r, step)
      BY <1>1, <1>3, <1>4, LoopRecursion
    <2>2. \A t \in SUBSET (1 .. n) :
            g[t] = IF t = {} THEN r ELSE BubbleStep(g[t \ {Max(t)}], js[Max(t)])
      <3>1. ASSUME NEW t \in SUBSET (1 .. n), t # {}
            PROVE  g[t] = BubbleStep(g[t \ {Max(t)}], js[Max(t)])
        <4> HIDE DEF Loop
        <4>1. Max(t) \in 1 .. n /\ g[t \ {Max(t)}] \in D
          BY <2>1, <3>1 DEF LoopRecurs
        <4>2. g[t] = step[<<Max(t), g[t \ {Max(t)}]>>] /\ js[Max(t)] = Max(t)
          BY <1>1, <2>1, <3>1, <4>1 DEF LoopRecurs
        <4>3. QED BY <1>3, <4>1, <4>2
      <3>2. g[{}] = r
        BY <2>1 DEF LoopRecurs
      <3>3. QED BY <3>1, <3>2
    <2>3. Loop(g)
      BY <2>1, <2>2 DEF LoopRecurs
    <2>4. QED BY <2>3
  <1>9. Loop(h)
    <2> HIDE DEF Loop
    <2> QED BY <1>8, Zenon
  <1> HIDE DEF h
  <1>10. run[0] = r
    BY <1>1, <1>9
  <1>11. ASSUME NEW j \in 1 .. n PROVE run[j] = BubbleStep(run[j - 1], j)
    <2> DEFINE t == 1 .. j
    <2>1. /\ t \in SUBSET (1 .. n) /\ t # {} /\ Max(t) = j
          /\ t \ {j} = 1 .. (j - 1)
      BY <1>1, PrefixMax
    <2>2. h[t] = BubbleStep(h[t \ {Max(t)}], js[Max(t)])
      <3> HIDE DEF t
      <3> QED BY <1>9, <2>1
    <2>3. j - 1 \in 0 .. n /\ j \in 0 .. n /\ js[j] = j
      BY <1>1
    <2>4. QED BY <2>1, <2>2, <2>3
  <1>12. \A j \in 0 .. n : run[j] \in D
    <2> HIDE DEF run, Loop
    <2>1. run[0] \in D
      BY <1>4, <1>10
    <2>2. ASSUME NEW j \in 1 .. n, run[j - 1] \in D PROVE run[j] \in D
      BY <1>2, <1>11, <2>2
    <2>3. QED BY <1>1, <2>1, <2>2, LoopInvariant
  <1>13. /\ run[n] = BubblePass(r, i)
         /\ \A j \in 1 .. n : run[j - 1] \in D
    BY <1>1, <1>5, <1>6, <1>12
  <1> HIDE DEF run
  <1>14. PassRun(run, r, i)
    BY <1>7, <1>10, <1>11, <1>13 DEF PassRun, D
  <1>15. QED BY <1>14

\* x is r after j rounds of the inner loop: the entry at j + 1 is the least of
\* the first j + 1, which are those of r, and the others are where they were.
PassInv(x, r, j) ==
    /\ x \in Arrangements
    /\ \A p \in 1 .. j : reputationOf[x[p]] >= reputationOf[x[j + 1]]
    /\ \A p \in 1 .. j + 1 : \E q \in 1 .. j + 1 : x[p] = r[q]
    /\ \A p \in 1 .. Len(members) : p > j + 1 => x[p] = r[p]

LEMMA PassInvStep ==
    ASSUME RankingTyped, NEW r \in Arrangements, NEW j \in 1 .. Len(members) - 1,
           NEW x, PassInv(x, r, j - 1), NEW y, Exchanged(y, x, j)
    PROVE  PassInv(y, r, j)
  <1> DEFINE n == Len(members)
  <1>1. /\ n \in Nat /\ j \in 1 .. n /\ j + 1 \in 1 .. n /\ j - 1 \in 0 .. n
        /\ (j - 1) + 1 = j
    BY DEF RankingTyped
  <1>2. /\ \A p \in 1 .. n : x[p] \in Nodes /\ reputationOf[x[p]] \in Nat
        /\ \A p \in 1 .. n : y[p] \in Nodes /\ reputationOf[y[p]] \in Nat
    BY ArrangedNodes DEF PassInv, Exchanged
  <1> HIDE DEF n
  <1>3. /\ \A p \in 1 .. j - 1 : reputationOf[x[p]] >= reputationOf[x[j]]
        /\ \A p \in 1 .. j : \E q \in 1 .. j : x[p] = r[q]
        /\ \A p \in 1 .. n : p > j => x[p] = r[p]
    BY <1>1 DEF PassInv, n
  <1>4. /\ \A p \in 1 .. n : p \notin {j, j + 1} => y[p] = x[p]
        /\ {y[j], y[j + 1]} = {x[j], x[j + 1]}
        /\ reputationOf[y[j]] >= reputationOf[y[j + 1]]
    BY DEF Exchanged, n
  <1>5. ASSUME NEW p \in 1 .. j PROVE reputationOf[y[p]] >= reputationOf[y[j + 1]]
    <2>1. CASE p = j
      BY <1>4, <2>1
    <2>2. CASE p < j
      <3>1. p \in 1 .. j - 1 /\ p \in 1 .. n /\ p \notin {j, j + 1}
        BY <1>1, <2>2
      <3>2. y[p] = x[p] /\ reputationOf[x[p]] >= reputationOf[x[j]]
        BY <1>3, <1>4, <3>1
      <3>3. reputationOf[x[j]] >= reputationOf[y[j + 1]]
        <4>1. \/ y[j + 1] = x[j]
              \/ y[j + 1] = x[j + 1] /\ y[j] = x[j]
          BY <1>4
        <4>2. QED BY <1>1, <1>2, <1>4, <4>1
      <3>4. QED BY <1>1, <1>2, <3>1, <3>2, <3>3
    <2>3. QED BY <2>1, <2>2
  <1>6. ASSUME NEW p \in 1 .. j + 1 PROVE \E q \in 1 .. j + 1 : y[p] = r[q]
    <2>1. \A k \in 1 .. j + 1 : \E q \in 1 .. j + 1 : x[k] = r[q]
      <3>1. ASSUME NEW k \in 1 .. j PROVE \E q \in 1 .. j + 1 : x[k] = r[q]
        <4>1. PICK q \in 1 .. j : x[k] = r[q]
          BY <1>3
        <4>2. QED BY <1>1, <4>1
      <3>2. x[j + 1] = r[j + 1] /\ j + 1 \in 1 .. j + 1
        BY <1>1, <1>3
      <3>3. QED BY <1>1, <3>1, <3>2
    <2>2. \E k \in 1 .. j + 1 : y[p] = x[k]
      <3>1. /\ p \in 1 .. n /\ j \in 1 .. j + 1 /\ j + 1 \in 1 .. j + 1
            /\ p \in {j, j + 1} => y[p] \in {y[j], y[j + 1]}
        BY <1>1
      <3>2. CASE p \in {j, j + 1}
        <4>1. y[p] = x[j] \/ y[p] = x[j + 1]
          BY <1>4, <3>1, <3>2
        <4>2. QED BY <3>1, <4>1
      <3>3. CASE p \notin {j, j + 1}
        BY <1>4, <3>1, <3>3
      <3>4. QED BY <3>2, <3>3
    <2>3. QED BY <2>1, <2>2
  <1>7. \A p \in 1 .. n : p > j + 1 => y[p] = r[p]
    BY <1>1, <1>3, <1>4
  <1>8. QED BY <1>5, <1>6, <1>7 DEF PassInv, Exchanged, n

\* The last i entries are in order, and after all the others.
SortedTail(x, i) ==
    \A p, q \in 1 .. Len(members) :
        p < q /\ q > Len(members) - i => reputationOf[x[p]] >= reputationOf[x[q]]

\* A pass puts one more entry in its place.
LEMMA PassSorts ==
    ASSUME RankingTyped, NEW r \in Arrangements, NEW i \in 1 .. Len(members),
           SortedTail(r, i - 1)
    PROVE  BubblePass(r, i) \in Arrangements /\ SortedTail(BubblePass(r, i), i)
  <1> DEFINE n == Len(members)
             m == n - i
             x == BubblePass(r, i)
             D == {y \in (0 .. m) \X Arrangements : PassInv(y[2], r, y[1])}
  <1>1. n \in Nat /\ m \in Nat /\ m + 1 \in 1 .. n /\ i \in 1 .. n
    BY DEF RankingTyped
  <1>2. PICK run : PassRun(run, r, i)
    BY PassRuns
  <1>3. run[0] = r /\ run[m] = x /\ \A j \in 1 .. m : run[j] = BubbleStep(run[j - 1], j)
    BY <1>2 DEF PassRun
  <1> DEFINE at == [j \in 0 .. m |-> <<j, run[j]>>]
  <1>4. \A p \in 1 .. n : r[p] \in Nodes /\ reputationOf[r[p]] \in Nat
    BY ArrangedNodes
  <1>5. at[0] \in D
    <2>1. PassInv(r, r, 0)
      BY <1>1 DEF PassInv
    <2>2. QED BY <1>1, <1>3, <2>1
  <1>6. ASSUME NEW j \in 1 .. m, at[j - 1] \in D PROVE at[j] \in D
    <2>1. j - 1 \in 0 .. m /\ j \in 0 .. m /\ j \in 1 .. Len(members) - 1
      BY <1>1
    <2>2. run[j - 1] \in Arrangements /\ PassInv(run[j - 1], r, j - 1)
      BY <1>6, <2>1
    <2>3. Exchanged(run[j], run[j - 1], j)
      BY <1>3, <2>1, <2>2, StepExchanges
    <2>4. PassInv(run[j], r, j)
      BY <2>1, <2>2, <2>3, PassInvStep
    <2>5. run[j] \in Arrangements
      BY <2>4 DEF PassInv
    <2>6. QED BY <2>1, <2>4, <2>5
  <1>7. at[m] \in D
    <2> HIDE DEF at, D, m
    <2>1. \A j \in 0 .. m : at[j] \in D
      BY <1>1, <1>5, <1>6, LoopInvariant
    <2>2. QED BY <1>1, <2>1
  <1>8. PassInv(x, r, m)
    BY <1>1, <1>3, <1>7
  <1> HIDE DEF x, at, D
  <1>9. SortedTail(x, i)
    <2> SUFFICES ASSUME NEW p \in 1 .. n, NEW q \in 1 .. n, p < q, q > m
                 PROVE  reputationOf[x[p]] >= reputationOf[x[q]]
      BY DEF SortedTail
    <2>1. CASE q = m + 1
      <3>1. p \in 1 .. m
        BY <1>1, <2>1
      <3>2. QED BY <1>8, <2>1, <3>1 DEF PassInv
    <2>2. CASE q > m + 1
      <3>1. x[q] = r[q]
        BY <1>8, <2>2 DEF PassInv
      <3>2. q > n - (i - 1)
        BY <1>1, <2>2
      <3>3. \A k \in 1 .. n : k < q => reputationOf[r[k]] >= reputationOf[r[q]]
        BY <3>2 DEF SortedTail
      <3>4. CASE p > m + 1
        BY <1>8, <3>1, <3>3, <3>4 DEF PassInv
      <3>5. CASE p <= m + 1
        <4>1. PICK k \in 1 .. m + 1 : x[p] = r[k]
          BY <1>1, <1>8, <3>5 DEF PassInv
        <4>2. k \in 1 .. n /\ k < q
          BY <1>1, <2>2
        <4>3. QED BY <3>1, <3>3, <4>1, <4>2
      <3>6. QED BY <1>1, <3>4, <3>5
    <2>3. QED BY <1>1, <2>1, <2>2
  <1>10. QED BY <1>8, <1>9 DEF PassInv, x

LEMMA PassArranges ==
    ASSUME RankingTyped, NEW r \in Arrangements, NEW i \in 1 .. Len(members)
    PROVE  BubblePass(r, i) \in Arrangements
  <1> DEFINE m == Len(members) - i
  <1>1. m \in Nat
    BY DEF RankingTyped
  <1>2. PICK run : PassRun(run, r, i)
    BY PassRuns
  <1>3. CASE m = 0
    BY <1>2, <1>3 DEF PassRun
  <1>4. CASE m # 0
    <2>1. /\ m \in 1 .. m /\ run[m] = BubblePass(r, i) /\ m \in 1 .. Len(members) - 1
          /\ run[m - 1] \in Arrangements /\ run[m] = BubbleStep(run[m - 1], m)
      BY <1>1, <1>2, <1>4 DEF PassRun, RankingTyped
    <2>2. QED BY <2>1, StepExchanges DEF Exchanged
  <1>5. QED BY <1>3, <1>4

\* getReporters returns the members, each once, from the highest reputation to
\* the lowest.
LEMMA ReportersSorted ==
    ASSUME RankingTyped
    PROVE  Reporters \in Arrangements /\ SortedTail(Reporters, Len(members))
  <1> DEFINE D == Arrangements
             n == IF members = << >> THEN 0 ELSE Len(members) - 1
             is == [i \in 1 .. n |-> i]
             step == [p \in (1 .. n) \X D |-> BubblePass(p[2], p[1])]
             Loop(g) == g = [t \in SUBSET (1 .. n) |->
                                IF t = {} THEN members
                                ELSE BubblePass(g[t \ {Max(t)}], is[Max(t)])]
             h == CHOOSE g : Loop(g)
             run == [i \in 0 .. n |-> h[1 .. i]]
             at == [i \in 0 .. n |-> <<i, run[i]>>]
             Sorted == {y \in (0 .. n) \X D : SortedTail(y[2], y[1])}
  <1>1. /\ n \in Nat /\ Len(members) \in Nat /\ 1 .. Len(members) - 1 = 1 .. n
        /\ DOMAIN is = 1 .. n /\ \A i \in 1 .. n : is[i] = i
        /\ 1 .. n \subseteq 1 .. Len(members)
        /\ n = Len(members) \/ n = Len(members) - 1
    <2>1. members \in Seq(Nodes) /\ Len(members) \in Nat
      BY DEF RankingTyped
    <2>2. CASE members = << >>
      BY <2>2
    <2>3. CASE members # << >>
      <3>1. Len(members) # 0
        BY <2>1, <2>3
      <3>2. QED BY <2>1, <2>3, <3>1
    <2>4. QED BY <2>2, <2>3
  <1>2. members \in D
    BY DEF Arrangements, RankingTyped
  <1>3. \A i \in 1 .. n, x \in D : BubblePass(x, i) \in D
    BY <1>1, PassArranges
  <1>4. \A i \in 1 .. n, x \in D :
            step[<<i, x>>] \in D /\ step[<<i, x>>] = BubblePass(x, i)
    BY <1>3
  <1>5. Reporters = FoldLeft(BubblePass, members, is)
    BY <1>1 DEF Reporters
  <1>6. FoldLeft(BubblePass, members, is) = h[1 .. n]
    BY <1>1 DEF FoldLeft, MapThenFoldSet
  <1> HIDE DEF D, step, is, n
  <1>7. \E g : Loop(g)
    <2>1. PICK g : LoopRecurs(g, n, D, members, step)
      BY <1>1, <1>2, <1>4, LoopRecursion
    <2>2. \A t \in SUBSET (1 .. n) :
            g[t] = IF t = {} THEN members ELSE BubblePass(g[t \ {Max(t)}], is[Max(t)])
      <3>1. ASSUME NEW t \in SUBSET (1 .. n), t # {}
            PROVE  g[t] = BubblePass(g[t \ {Max(t)}], is[Max(t)])
        <4> HIDE DEF Loop
        <4>1. Max(t) \in 1 .. n /\ g[t \ {Max(t)}] \in D
          BY <2>1, <3>1 DEF LoopRecurs
        <4>2. g[t] = step[<<Max(t), g[t \ {Max(t)}]>>] /\ is[Max(t)] = Max(t)
          BY <1>1, <2>1, <3>1, <4>1 DEF LoopRecurs
        <4>3. QED BY <1>4, <4>1, <4>2
      <3>2. g[{}] = members
        BY <2>1 DEF LoopRecurs
      <3>3. QED BY <3>1, <3>2
    <2>3. Loop(g)
      BY <2>1, <2>2 DEF LoopRecurs
    <2>4. QED BY <2>3
  <1>8. Loop(h)
    <2> HIDE DEF Loop
    <2> QED BY <1>7, Zenon
  <1> HIDE DEF h
  <1>9. run[0] = members
    BY <1>1, <1>8
  <1>10. ASSUME NEW i \in 1 .. n PROVE run[i] = BubblePass(run[i - 1], i)
    <2> DEFINE t == 1 .. i
    <2>1. /\ t \in SUBSET (1 .. n) /\ t # {} /\ Max(t) = i
          /\ t \ {i} = 1 .. (i - 1)
      BY <1>1, PrefixMax
    <2>2. h[t] = BubblePass(h[t \ {Max(t)}], is[Max(t)])
      <3> HIDE DEF t
      <3> QED BY <1>8, <2>1
    <2>3. i - 1 \in 0 .. n /\ i \in 0 .. n /\ is[i] = i
      BY <1>1
    <2>4. QED BY <2>1, <2>2, <2>3
  <1>11. run[n] = Reporters
    BY <1>1, <1>5, <1>6
  <1> HIDE DEF Loop, run
  <1>12. at[0] \in Sorted
    <2>1. SortedTail(members, 0)
      BY <1>1 DEF SortedTail
    <2>2. QED BY <1>1, <1>2, <1>9, <2>1
  <1>13. ASSUME NEW i \in 1 .. n, at[i - 1] \in Sorted PROVE at[i] \in Sorted
    <2>1. i - 1 \in 0 .. n /\ i \in 0 .. n /\ i \in 1 .. Len(members)
      BY <1>1
    <2>2. run[i - 1] \in Arrangements /\ SortedTail(run[i - 1], i - 1)
      BY <1>13, <2>1 DEF D
    <2>3. run[i] \in Arrangements /\ SortedTail(run[i], i)
      BY <1>10, <2>1, <2>2, PassSorts
    <2>4. QED BY <2>1, <2>3 DEF D
  <1>14. at[n] \in Sorted
    <2> HIDE DEF at, Sorted
    <2>1. \A i \in 0 .. n : at[i] \in Sorted
      BY <1>1, <1>12, <1>13, LoopInvariant
    <2>2. QED BY <1>1, <2>1
  <1>15. Reporters \in Arrangements /\ SortedTail(Reporters, n)
    BY <1>1, <1>11, <1>14 DEF D
  <1>16. SortedTail(Reporters, Len(members))
    BY <1>1, <1>15 DEF SortedTail
  <1>17. QED BY <1>15, <1>16

(***************************************************************************)
(* The loop of report() over the reporters.                                *)
(***************************************************************************)

Tallies == [reputation : [Nodes -> Nat], proofs : Seq(Proof), lead : BOOLEAN,
            reverts : BOOLEAN]

\* In reporters, n does not come before the sender.
NotBefore(n, sender, reporters) ==
    \A j, k \in DOMAIN reporters : reporters[j] = n /\ reporters[k] = sender => j >= k

\* After i rounds: the counted proofs are good and of different reporters out
\* of the first i, lead tells that the sender was one of them, and who gained
\* has a counted proof and does not come before the sender.
TallyInv(t, sender, reporters, i) ==
    /\ \A k \in DOMAIN t.proofs : t.proofs[k].valid
    /\ \A k \in DOMAIN t.proofs : \E j \in 1 .. i : t.proofs[k].signer = reporters[j]
    /\ \A k, l \in DOMAIN t.proofs : t.proofs[k].signer = t.proofs[l].signer => k = l
    /\ t.lead => \E j \in 1 .. i : reporters[j] = sender
    /\ \A n \in Nodes : t.reputation[n] > reputationOf[n] =>
            /\ \E k \in DOMAIN t.proofs : t.proofs[k].signer = n
            /\ NotBefore(n, sender, reporters)

\* The proof that counts for a reporter is one that names it.
LEMMA ProofOfNames ==
    ASSUME NEW proofs \in Seq(Proof), NEW r, ProofsOf(r, proofs) # {}
    PROVE  ProofOf(r, proofs) \in Proof /\ ProofOf(r, proofs).signer = r
  <1> DEFINE S == ProofsOf(r, proofs)
  <1>1. S \in SUBSET Int /\ S \subseteq 1 .. Len(proofs) /\ S # {}
    BY DEF ProofsOf
  <1>2. IsFiniteSet(S)
    BY <1>1, FS_Interval, FS_Subset
  <1>3. Max(S) \in S /\ \A k \in S : k <= Max(S)
    <2> HIDE DEF S
    <2> QED BY <1>1, <1>2, MaxOfFinite
  <1>4. \A j \in S : proofs[j] \in Proof /\ proofs[j].signer = r
    BY DEF ProofsOf
  <1>5. QED BY <1>3, <1>4 DEF ProofOf

LEMMA SignerReputationType ==
    ASSUME NEW rep \in Nat, NEW lead \in BOOLEAN
    PROVE  /\ SignerReputation(rep, lead) \in Nat
           /\ ~lead => SignerReputation(rep, lead) <= rep
  BY DEF SignerReputation

\* What a good proof counts for.
Gain(t, sender, r) ==
    IF r = sender THEN t.reputation[r] + 10 ELSE SignerReputation(t.reputation[r], t.lead)

GoodTally(y, t, sender, proof) ==
    /\ y \in Tallies
    /\ y.reputation = [t.reputation EXCEPT ![proof.signer] = Gain(t, sender, proof.signer)]
    /\ y.proofs = Append(t.proofs, proof)
    /\ y.lead = (t.lead \/ proof.signer = sender)

LEMMA GoodProofTally ==
    ASSUME NEW sender, NEW t \in Tallies, NEW proof \in Proof
    PROVE  GoodTally(GoodProof(t, sender, proof), t, sender, proof)
  <1> DEFINE r == proof.signer
             y == GoodProof(t, sender, proof)
             gain == Gain(t, sender, r)
  <1>1. r \in Nodes
    BY DEF Proof
  <1>2. /\ t.reputation \in [Nodes -> Nat] /\ t.reputation[r] \in Nat /\ t.proofs \in Seq(Proof)
        /\ t.lead \in BOOLEAN /\ t.reverts \in BOOLEAN
    BY <1>1 DEF Tallies
  <1>3. /\ y.reputation = [t.reputation EXCEPT ![r] = gain]
        /\ y.proofs = Append(t.proofs, proof)
        /\ y.lead = (t.lead \/ r = sender)
        /\ y.reverts = t.reverts
        /\ y = [field \in DOMAIN t |-> y[field]]
        /\ DOMAIN t = {"reputation", "proofs", "lead", "reverts"}
    BY DEF GoodProof, Tallies, Gain
  <1>4. gain \in Nat
    <2>1. SignerReputation(t.reputation[r], t.lead) \in Nat
      BY <1>2, SignerReputationType
    <2>2. QED BY <1>2, <2>1 DEF Gain
  <1> HIDE DEF y, gain
  <1>5. y.reputation \in [Nodes -> Nat]
    BY <1>2, <1>3, <1>4
  <1>6. y.proofs \in Seq(Proof)
    <2> HIDE DEF r
    <2> QED BY <1>2, <1>3
  <1>7. y \in Tallies
    BY <1>2, <1>3, <1>5, <1>6 DEF Tallies
  <1>8. QED BY <1>3, <1>7 DEF GoodTally, y, gain

\* A reporter with a good proof.
LEMMA GoodProofStep ==
    ASSUME RankingTyped, NEW reporters \in Arrangements, NEW i \in 1 .. Len(members),
           NEW sender \in Nodes, NEW t \in Tallies, TallyInv(t, sender, reporters, i - 1),
           NEW proof \in Proof, proof.signer = reporters[i], proof.valid
    PROVE  TallyInv(GoodProof(t, sender, proof), sender, reporters, i)
  <1> DEFINE r == proof.signer
             y == GoodProof(t, sender, proof)
             n == Len(members)
             gain == Gain(t, sender, r)
  <1>1. /\ n \in Nat /\ DOMAIN reporters = 1 .. n /\ r \in Nodes
        /\ \A j, k \in 1 .. n : reporters[j] = reporters[k] => j = k
    <2>1. members \in Seq(Nodes) /\ reporters \in Seq(Nodes) /\ Len(reporters) = n
      BY DEF RankingTyped, Arrangements
    <2>2. n \in Nat /\ DOMAIN reporters = 1 .. n
      BY <2>1
    <2>3. \A j, k \in 1 .. n : reporters[j] = reporters[k] => j = k
      BY <2>2 DEF Arrangements, IsInjective
    <2>4. QED BY <2>2, <2>3 DEF Proof
  <1>2. /\ t.reputation \in [Nodes -> Nat] /\ t.reputation[r] \in Nat /\ t.proofs \in Seq(Proof)
        /\ t.lead \in BOOLEAN
    BY <1>1 DEF Tallies
  <1>3. /\ y.reputation = [t.reputation EXCEPT ![r] = gain]
        /\ y.proofs = Append(t.proofs, proof)
        /\ y.lead = (t.lead \/ r = sender)
        /\ y \in Tallies
    <2>1. GoodTally(y, t, sender, proof)
      BY GoodProofTally
    <2> HIDE DEF y
    <2>2. QED BY <2>1 DEF GoodTally
  <1>4. y.reputation[r] = gain /\ gain \in Nat
    BY <1>1, <1>2, <1>3 DEF Tallies
  <1>5. r # sender /\ ~t.lead => gain <= t.reputation[r]
    BY <1>2, SignerReputationType DEF Gain
  <1> HIDE DEF y, gain, n
  <1> DEFINE len == Len(t.proofs)
  <1>8. /\ len \in Nat /\ DOMAIN t.proofs = 1 .. len /\ DOMAIN y.proofs = 1 .. len + 1
        /\ \A k \in 1 .. len : y.proofs[k] = t.proofs[k]
        /\ y.proofs[len + 1] = proof
    BY <1>2, <1>3
  <1>9. /\ \A k \in 1 .. len : \E j \in 1 .. i - 1 : t.proofs[k].signer = reporters[j]
        /\ \A k, l \in 1 .. len : t.proofs[k].signer = t.proofs[l].signer => k = l
    BY <1>8 DEF TallyInv
  <1> HIDE DEF len
  <1>10. \A k \in 1 .. len : t.proofs[k].signer # r
    <2>1. SUFFICES ASSUME NEW k \in 1 .. len, t.proofs[k].signer = r PROVE FALSE
      OBVIOUS
    <2>2. PICK j \in 1 .. i - 1 : t.proofs[k].signer = reporters[j]
      BY <1>9
    <2>3. j \in 1 .. n /\ i \in 1 .. n /\ j # i
      BY <1>1 DEF n
    <2>4. QED BY <1>1, <2>1, <2>2, <2>3
  <1>11. \A k \in 1 .. len + 1 : \E j \in 1 .. i : y.proofs[k].signer = reporters[j]
    <2>1. ASSUME NEW k \in 1 .. len PROVE \E j \in 1 .. i : y.proofs[k].signer = reporters[j]
      <3>1. PICK j \in 1 .. i - 1 : t.proofs[k].signer = reporters[j]
        BY <1>9
      <3>2. j \in 1 .. i
        BY <1>1
      <3>3. QED BY <1>8, <3>1, <3>2
    <2>2. y.proofs[len + 1].signer = reporters[i] /\ i \in 1 .. i
      BY <1>1, <1>8
    <2>3. \A k \in 1 .. len + 1 : k \in 1 .. len \/ k = len + 1
      BY <1>8
    <2>4. QED BY <2>1, <2>2, <2>3
  <1>12. \A k, l \in 1 .. len + 1 : y.proofs[k].signer = y.proofs[l].signer => k = l
    <2>1. \A k \in 1 .. len + 1 : k \in 1 .. len \/ k = len + 1
      BY <1>8
    <2>2. SUFFICES ASSUME NEW k \in 1 .. len + 1, NEW l \in 1 .. len + 1,
                          y.proofs[k].signer = y.proofs[l].signer
                   PROVE  k = l
      OBVIOUS
    <2>3. CASE k \in 1 .. len /\ l \in 1 .. len
      BY <1>8, <1>9, <2>2, <2>3
    <2>4. CASE k \in 1 .. len /\ l = len + 1
      BY <1>8, <1>10, <2>2, <2>4
    <2>5. CASE k = len + 1 /\ l \in 1 .. len
      BY <1>8, <1>10, <2>2, <2>5
    <2>6. QED BY <2>1, <2>3, <2>4, <2>5
  <1>13. ASSUME y.lead PROVE \E j \in 1 .. i : reporters[j] = sender
    <2>1. CASE t.lead
      <3>1. PICK j \in 1 .. i - 1 : reporters[j] = sender
        BY <2>1 DEF TallyInv
      <3>2. j \in 1 .. i
        BY <1>1
      <3>3. QED BY <3>1, <3>2
    <2>2. CASE r = sender
      <3>1. reporters[i] = sender /\ i \in 1 .. i
        BY <2>2
      <3>2. QED BY <3>1
    <2>3. QED BY <1>3, <1>13, <2>1, <2>2
  <1>14. ASSUME NEW m \in Nodes, y.reputation[m] > reputationOf[m]
         PROVE  /\ \E k \in 1 .. len + 1 : y.proofs[k].signer = m
                /\ NotBefore(m, sender, reporters)
    <2>1. CASE t.reputation[m] > reputationOf[m]
      <3>1. /\ \E k \in DOMAIN t.proofs : t.proofs[k].signer = m
            /\ NotBefore(m, sender, reporters)
        BY <2>1 DEF TallyInv
      <3>2. QED BY <1>8, <3>1
    <2>2. CASE ~(t.reputation[m] > reputationOf[m])
      <3>1. m = r /\ gain > t.reputation[r]
        <4>1. reputationOf[m] \in Nat /\ t.reputation[m] \in Nat
          BY <1>2 DEF RankingTyped
        <4>2. m = r
          BY <1>2, <1>3, <1>14, <2>2
        <4>3. QED BY <1>2, <1>3, <1>4, <1>14, <2>2, <4>1, <4>2
      <3>2. r = sender \/ t.lead
        BY <1>2, <1>4, <1>5, <3>1
      <3>3. NotBefore(m, sender, reporters)
        <4>1. CASE r = sender
          BY <1>1, <3>1, <4>1 DEF NotBefore
        <4>2. CASE t.lead
          <5>1. PICK j \in 1 .. i - 1 : reporters[j] = sender
            BY <4>2 DEF TallyInv
          <5>2. j \in 1 .. n /\ i \in 1 .. n /\ i >= j
            BY <1>1 DEF n
          <5>3. QED BY <1>1, <3>1, <5>1, <5>2 DEF NotBefore
        <4>3. QED BY <3>2, <4>1, <4>2
      <3>4. QED BY <1>8, <3>1, <3>3
    <2>3. QED BY <2>1, <2>2
  <1>15. \A k \in 1 .. len + 1 : y.proofs[k].valid
    <2>1. \A k \in 1 .. len : t.proofs[k].valid
      BY <1>8 DEF TallyInv
    <2>2. \A k \in 1 .. len + 1 : k \in 1 .. len \/ k = len + 1
      BY <1>8
    <2>3. QED BY <1>8, <2>1, <2>2
  <1>16. TallyInv(y, sender, reporters, i)
    BY <1>8, <1>11, <1>12, <1>13, <1>14, <1>15 DEF TallyInv
  <1>17. QED BY <1>16 DEF y

\* A reporter without one: at most the reputation of some node is reset.
BadTally(y, t) ==
    /\ y \in Tallies /\ y.proofs = t.proofs /\ y.lead = t.lead
    /\ \A n \in Nodes : y.reputation[n] \in {0, t.reputation[n]}

LEMMA BadProofTally ==
    ASSUME NEW t \in Tallies, NEW proofs \in Seq(Proof), NEW i
    PROVE  BadTally(BadProof(t, proofs, i), t)
  <1> DEFINE y == BadProof(t, proofs, i)
  <1>1. t.reputation \in [Nodes -> Nat]
    BY DEF Tallies
  <1>2. CASE i \in DOMAIN proofs
    <2> DEFINE n == proofs[i].signer
    <2>1. n \in Nodes
      <3>1. proofs[i] \in Proof
        BY <1>2
      <3>2. QED BY <3>1 DEF Proof
    <2>2. y = [t EXCEPT !.reputation = [t.reputation EXCEPT ![n] = 0]]
      BY <1>1, <1>2 DEF BadProof, Tallies
    <2> HIDE DEF n, y
    <2>3. [t.reputation EXCEPT ![n] = 0] \in [Nodes -> Nat]
      BY <1>1, <2>1
    <2>4. /\ y \in Tallies /\ y.proofs = t.proofs /\ y.lead = t.lead
          /\ y.reputation = [t.reputation EXCEPT ![n] = 0]
      BY <2>2, <2>3 DEF Tallies
    <2>5. QED BY <1>1, <2>1, <2>4 DEF BadTally, y
  <1>3. CASE i \notin DOMAIN proofs
    <2>1. y = [t EXCEPT !.reverts = TRUE]
      BY <1>3 DEF BadProof
    <2>2. /\ y \in Tallies /\ y.proofs = t.proofs /\ y.lead = t.lead
          /\ y.reputation = t.reputation
      BY <2>1 DEF Tallies
    <2>3. QED BY <2>2 DEF BadTally
  <1>4. QED BY <1>2, <1>3

LEMMA BadProofStep ==
    ASSUME RankingTyped, NEW reporters \in Arrangements, NEW i \in 1 .. Len(members),
           NEW sender \in Nodes, NEW t \in Tallies, TallyInv(t, sender, reporters, i - 1),
           NEW proofs \in Seq(Proof)
    PROVE  TallyInv(BadProof(t, proofs, i), sender, reporters, i)
  <1> DEFINE y == BadProof(t, proofs, i)
  <1>1. /\ t.reputation \in [Nodes -> Nat] /\ reputationOf \in [Nodes -> Nat]
        /\ Len(members) \in Nat
    BY DEF Tallies, RankingTyped
  <1>2. \A j \in 1 .. i - 1 : j \in 1 .. i
    BY <1>1
  <1>3. BadTally(y, t)
    BY BadProofTally
  <1> HIDE DEF y
  <1>4. \A m \in Nodes : y.reputation[m] > reputationOf[m] =>
                          t.reputation[m] > reputationOf[m]
    BY <1>1, <1>3 DEF BadTally
  <1>5. TallyInv(y, sender, reporters, i)
    BY <1>2, <1>3, <1>4 DEF TallyInv, BadTally
  <1>6. QED BY <1>5 DEF y

LEMMA TallyReporterType ==
    ASSUME NEW reporters, NEW i, NEW sender, NEW proofs \in Seq(Proof), NEW t \in Tallies
    PROVE  TallyReporter(t, sender, reporters, proofs, i) \in Tallies
  <1>1. CASE Verified(reporters[i], proofs)
    <2>1. ProofOf(reporters[i], proofs) \in Proof
      BY <1>1, ProofOfNames DEF Verified
    <2>2. QED BY <1>1, <2>1, GoodProofTally DEF TallyReporter, GoodTally
  <1>2. CASE ~Verified(reporters[i], proofs)
    BY <1>2, BadProofTally DEF TallyReporter, BadTally
  <1>3. QED BY <1>1, <1>2

LEMMA TallyStep ==
    ASSUME RankingTyped, NEW reporters \in Arrangements, NEW i \in 1 .. Len(members),
           NEW sender \in Nodes, NEW proofs \in Seq(Proof),
           NEW t \in Tallies, TallyInv(t, sender, reporters, i - 1)
    PROVE  TallyInv(TallyReporter(t, sender, reporters, proofs, i), sender, reporters, i)
  <1>1. CASE Verified(reporters[i], proofs)
    <2>1. ProofsOf(reporters[i], proofs) # {}
      BY <1>1 DEF Verified
    <2>2. /\ ProofOf(reporters[i], proofs) \in Proof
          /\ ProofOf(reporters[i], proofs).signer = reporters[i]
          /\ ProofOf(reporters[i], proofs).valid
      BY <1>1, <2>1, ProofOfNames DEF Verified
    <2>3. QED BY <1>1, <2>2, GoodProofStep DEF TallyReporter
  <1>2. CASE ~Verified(reporters[i], proofs)
    BY <1>2, BadProofStep DEF TallyReporter
  <1>3. QED BY <1>1, <1>2

\* What report() computes over the reporters, however many and in whatever order.
LEMMA TallyResult ==
    ASSUME RankingTyped, NEW reporters \in Arrangements, NEW sender \in Nodes,
           NEW proofs \in Seq(Proof)
    PROVE  /\ Tally(sender, reporters, proofs) \in Tallies
           /\ TallyInv(Tally(sender, reporters, proofs), sender, reporters, Len(members))
  <1> DEFINE D == Tallies
             n == Len(members)
             start == [reputation |-> reputationOf, proofs |-> << >>, lead |-> FALSE,
                       reverts |-> FALSE]
             is == [i \in DOMAIN reporters |-> i]
             step == [p \in (1 .. n) \X D |->
                        TallyReporter(p[2], sender, reporters, proofs, p[1])]
             Loop(g) == g = [t \in SUBSET (1 .. n) |->
                                IF t = {} THEN start
                                ELSE TallyReporter(g[t \ {Max(t)}], sender, reporters, proofs,
                                                   is[Max(t)])]
             h == CHOOSE g : Loop(g)
             run == [i \in 0 .. n |-> h[1 .. i]]
             at == [i \in 0 .. n |-> <<i, run[i]>>]
             C == {x \in (0 .. n) \X D : TallyInv(x[2], sender, reporters, x[1])}
  <1>1. /\ n \in Nat /\ DOMAIN reporters = 1 .. n
        /\ DOMAIN is = 1 .. n /\ \A i \in 1 .. n : is[i] = i
    BY DEF Arrangements, RankingTyped
  <1>2. start \in D
    BY DEF Tallies, RankingTyped
  <1>3. \A i \in 1 .. n, x \in D : TallyReporter(x, sender, reporters, proofs, i) \in D
    BY TallyReporterType
  <1>4. \A i \in 1 .. n, x \in D :
            /\ step[<<i, x>>] \in D
            /\ step[<<i, x>>] = TallyReporter(x, sender, reporters, proofs, i)
    BY <1>3
  <1>5. Tally(sender, reporters, proofs) = h[1 .. n]
    BY <1>1 DEF Tally, FoldLeftDomain, FoldLeft, MapThenFoldSet
  <1>6. TallyInv(start, sender, reporters, 0)
    BY DEF TallyInv, RankingTyped
  <1> HIDE DEF D, step, is, n, start
  <1>7. \E g : Loop(g)
    <2>1. PICK g : LoopRecurs(g, n, D, start, step)
      BY <1>1, <1>2, <1>4, LoopRecursion
    <2>2. \A t \in SUBSET (1 .. n) :
            g[t] = IF t = {} THEN start
                   ELSE TallyReporter(g[t \ {Max(t)}], sender, reporters, proofs, is[Max(t)])
      <3>1. ASSUME NEW t \in SUBSET (1 .. n), t # {}
            PROVE  g[t] = TallyReporter(g[t \ {Max(t)}], sender, reporters, proofs, is[Max(t)])
        <4> HIDE DEF Loop
        <4>1. Max(t) \in 1 .. n /\ g[t \ {Max(t)}] \in D
          BY <2>1, <3>1 DEF LoopRecurs
        <4>2. g[t] = step[<<Max(t), g[t \ {Max(t)}]>>] /\ is[Max(t)] = Max(t)
          BY <1>1, <2>1, <3>1, <4>1 DEF LoopRecurs
        <4>3. QED BY <1>4, <4>1, <4>2
      <3>2. g[{}] = start
        BY <2>1 DEF LoopRecurs
      <3>3. QED BY <3>1, <3>2
    <2>3. Loop(g)
      BY <2>1, <2>2 DEF LoopRecurs
    <2>4. QED BY <2>3
  <1>8. Loop(h)
    <2> HIDE DEF Loop
    <2> QED BY <1>7, Zenon
  <1> HIDE DEF h
  <1>9. run[0] = start
    BY <1>1, <1>8
  <1>10. ASSUME NEW i \in 1 .. n
         PROVE  run[i] = TallyReporter(run[i - 1], sender, reporters, proofs, i)
    <2> DEFINE t == 1 .. i
    <2>1. /\ t \in SUBSET (1 .. n) /\ t # {} /\ Max(t) = i
          /\ t \ {i} = 1 .. (i - 1)
      BY <1>1, PrefixMax
    <2>2. h[t] = TallyReporter(h[t \ {Max(t)}], sender, reporters, proofs, is[Max(t)])
      <3> HIDE DEF t
      <3> QED BY <1>8, <2>1
    <2>3. i - 1 \in 0 .. n /\ i \in 0 .. n /\ is[i] = i
      BY <1>1
    <2>4. QED BY <2>1, <2>2, <2>3
  <1>11. run[n] = Tally(sender, reporters, proofs)
    BY <1>1, <1>5
  <1> HIDE DEF Loop, run
  <1>12. at[0] \in C
    BY <1>1, <1>2, <1>6, <1>9
  <1>13. ASSUME NEW i \in 1 .. n, at[i - 1] \in C PROVE at[i] \in C
    <2>1. i - 1 \in 0 .. n /\ i \in 0 .. n /\ i \in 1 .. Len(members)
      BY <1>1 DEF n
    <2>2. run[i - 1] \in Tallies /\ TallyInv(run[i - 1], sender, reporters, i - 1)
      BY <1>13, <2>1 DEF D
    <2>3. run[i] \in Tallies /\ TallyInv(run[i], sender, reporters, i)
      BY <1>10, <2>1, <2>2, TallyReporterType, TallyStep
    <2>4. QED BY <2>1, <2>3 DEF D
  <1>14. at[n] \in C
    <2> HIDE DEF at, C
    <2>1. \A i \in 0 .. n : at[i] \in C
      BY <1>1, <1>12, <1>13, LoopInvariant
    <2>2. QED BY <1>1, <2>1
  <1>15. QED BY <1>1, <1>11, <1>14 DEF D, n

LEMMA TimestampsSum ==
    ASSUME NEW times \in Seq(Nat)
    PROVE  SumTimestamps(times) \in Nat
  <1> DEFINE n == Len(times)
             step == [p \in (1 .. n) \X Nat |-> p[2] + times[p[1]] * Precision]
             Loop(g) == g = [t \in SUBSET (1 .. n) |->
                                IF t = {} THEN 0
                                ELSE g[t \ {Max(t)}] + times[Max(t)] * Precision]
             h == CHOOSE g : Loop(g)
  <1>1. /\ n \in Nat /\ DOMAIN times = 1 .. n
        /\ \A i \in 1 .. n : times[i] \in Nat
    OBVIOUS
  <1>2. \A i \in 1 .. n : times[i] * Precision \in Nat
    BY <1>1, ReportConstantsAssumption
  <1>3. \A i \in 1 .. n, x \in Nat :
            /\ step[<<i, x>>] \in Nat
            /\ step[<<i, x>>] = x + times[i] * Precision
    BY <1>2
  <1>4. SumTimestamps(times) = h[1 .. n]
    BY <1>1 DEF SumTimestamps, FoldLeft, MapThenFoldSet
  <1> HIDE DEF step, n
  <1>5. \E g : Loop(g)
    <2>1. PICK g : LoopRecurs(g, n, Nat, 0, step)
      BY <1>1, <1>3, LoopRecursion
    <2>2. \A t \in SUBSET (1 .. n) :
            g[t] = IF t = {} THEN 0
                   ELSE g[t \ {Max(t)}] + times[Max(t)] * Precision
      BY <1>3, <2>1 DEF LoopRecurs
    <2>3. Loop(g)
      BY <2>1, <2>2 DEF LoopRecurs
    <2>4. QED BY <2>3
  <1>6. Loop(h)
    <2> HIDE DEF Loop
    <2> QED BY <1>5, Zenon
  <1> HIDE DEF h
  <1> DEFINE run == [i \in 0 .. n |-> h[1 .. i]]
  <1>7. run[0] \in Nat
    BY <1>1, <1>6
  <1>8. ASSUME NEW i \in 1 .. n, run[i - 1] \in Nat PROVE run[i] \in Nat
    <2> DEFINE t == 1 .. i
    <2>1. /\ t \in SUBSET (1 .. n) /\ t # {} /\ Max(t) = i
          /\ t \ {i} = 1 .. (i - 1)
      BY <1>1, PrefixMax
    <2>2. h[t] = h[t \ {Max(t)}] + times[Max(t)] * Precision
      <3> HIDE DEF t
      <3> QED BY <1>6, <2>1
    <2>3. i - 1 \in 0 .. n /\ i \in 0 .. n
      BY <1>1
    <2>4. run[i - 1] = h[t \ {Max(t)}] /\ run[i] = h[t]
      BY <2>1, <2>3
    <2>5. run[i] = run[i - 1] + times[i] * Precision
      BY <2>1, <2>2, <2>4
    <2> HIDE DEF run
    <2>6. QED BY <1>2, <1>8, <2>5
  <1>9. run[n] \in Nat
    <2> HIDE DEF run, Loop
    <2>1. \A i \in 0 .. n : run[i] \in Nat
      BY <1>1, <1>7, <1>8, LoopInvariant
    <2>2. QED BY <1>1, <2>1
  <1>10. QED BY <1>1, <1>4, <1>9

LEMMA MeanType ==
    ASSUME NEW times \in Seq(Nat), times # << >>
    PROVE  MeanTimestamp(times) \in Nat
  <1>1. Len(times) \in Nat \ {0}
    OBVIOUS
  <1>2. \A x \in Nat, y \in Nat \ {0} : x \div y \in Nat
    OBVIOUS
  <1>3. QED BY <1>1, <1>2, TimestampsSum DEF MeanTimestamp

(***************************************************************************)
(* The specification: who reports, who signs, who gains.                   *)
(***************************************************************************)

\* What of the state the ranking and the turns depend on.
RankingInv ==
    /\ ReportsInv /\ StakedNodes
    /\ RankingTyped
    /\ reportTimeBuffer \in Nat
    /\ block \in Nat

\* The arrays that are sent make a list of proofs, whatever their lengths.
LEMMA ProofsSentType ==
    ASSUME NEW sent \in Arrays
    PROVE  ProofsSent(sent) \in Seq(Proof)
  <1> DEFINE proof(i) == ProofsSent(sent)[i]
  <1>1. /\ sent.addresses \in Seq(Nodes) /\ sent.timestamps \in Seq(Nat)
        /\ sent.signatures \in Seq(BOOLEAN)
    BY DEF Arrays
  <1>2. /\ Len(sent.addresses) \in Nat
        /\ DOMAIN sent.addresses = 1 .. Len(sent.addresses)
    BY <1>1
  <1>3. ASSUME NEW i \in 1 .. Len(sent.addresses) PROVE proof(i) \in Proof
    <2>1. sent.addresses[i] \in Nodes
      BY <1>1, <1>3
    <2>2. (IF i \in DOMAIN sent.timestamps THEN sent.timestamps[i] ELSE 0) \in Nat
      BY <1>1
    <2>3. (i \in DOMAIN sent.signatures /\ sent.signatures[i]) \in BOOLEAN
      OBVIOUS
    <2>4. QED BY <1>2, <2>1, <2>2, <2>3 DEF ProofsSent, Proof
  <1>4. ProofsSent(sent) = [i \in 1 .. Len(sent.addresses) |-> proof(i)]
    BY <1>2 DEF ProofsSent
  <1> HIDE DEF proof
  <1>5. QED BY <1>2, <1>3, <1>4

\* What report() did, when it was accepted.
LEMMA ReportTallied ==
    ASSUME RankingTyped, NEW sender \in Nodes, NEW id, NEW h, NEW content,
           NEW sent \in Arrays, ReportTx(sender, id, h, content, sent)
    PROVE  \E t \in Tallies :
              /\ TallyInv(t, sender, Reporters, Len(members))
              /\ reputationOf' = t.reputation
              /\ reportProofs' = [reportProofs EXCEPT ![id] = t.proofs]
              /\ ConsensusMet(Len(t.proofs), Len(members))
  <1> DEFINE t == Tally(sender, Reporters, ProofsSent(sent))
  <1>1. Reporters \in Arrangements /\ Len(Reporters) = Len(members)
    BY ReportersSorted DEF Arrangements
  <1>2. /\ reputationOf' = t.reputation
        /\ reportProofs' = [reportProofs EXCEPT ![id] = t.proofs]
        /\ ConsensusMet(Len(t.proofs), Len(Reporters))
    BY DEF ReportTx, ReportAllowed
  <1>3. t \in Tallies /\ TallyInv(t, sender, Reporters, Len(members))
    BY <1>1, ProofsSentType, TallyResult
  <1> HIDE DEF t
  <1>4. QED BY <1>1, <1>2, <1>3

LEMMA RankingStep ==
    ASSUME RankingInv, [ReportNext]_<<reportVars, reportEnvVars>>
    PROVE  RankingInv'
  <1> USE DEF RankingInv
  <1>1. ReportsInv' /\ StakedNodes'
    BY ReportsStep
  <1>2. CASE UNCHANGED reportEnvVars /\
             \E sender \in staked, id \in Ids, h \in 1 .. MaxBlockNumber,
                content \in Contents, sent \in ProofLists :
                ReportTx(sender, id, h, content, sent)
    <2>1. PICK sender \in staked, id \in Ids, h \in 1 .. MaxBlockNumber,
               content \in Contents, sent \in ProofLists :
               ReportTx(sender, id, h, content, sent)
      BY <1>2
    <2>2. sender \in Nodes /\ sent \in Arrays
      BY ProofListsAssumption DEF StakedNodes
    <2>3. PICK t \in Tallies : reputationOf' = t.reputation
      BY <2>1, <2>2, ReportTallied
    <2>4. reputationOf' \in [Nodes -> Nat]
      BY <2>3 DEF Tallies
    <2>5. reportTimeBuffer' = reportTimeBuffer
      BY <2>1 DEF ReportTx
    <2>6. QED BY <1>1, <1>2, <2>4, <2>5 DEF reportEnvVars, RankingTyped
  <1>3. CASE UNCHANGED reportEnvVars /\ \E id \in Ids : MarkProcessed(id)
    BY <1>1, <1>3 DEF MarkProcessed, reportEnvVars, RankingTyped
  <1>4. CASE UNCHANGED reportEnvVars /\ \E buffer \in Buffers : SetReportTimeBuffer(buffer)
    BY <1>1, <1>4, ReportConstantsAssumption DEF SetReportTimeBuffer, reportEnvVars, RankingTyped
  <1>5. CASE NextBlock
    BY <1>1, <1>5 DEF NextBlock, reportVars, RankingTyped
  <1>6. CASE \E view \in NodeViews : NodesChange(view)
    BY <1>1, <1>6, NodeViewsAssumption DEF NodesChange, reportVars, RankingTyped
  <1>7. CASE UNCHANGED <<reportVars, reportEnvVars>>
    BY <1>1, <1>7 DEF reportVars, reportEnvVars, RankingTyped
  <1>8. QED BY <1>2, <1>3, <1>4, <1>5, <1>6, <1>7 DEF ReportNext

LEMMA RankingInvariant == ReportSpec => []RankingInv
  <1>1. ReportInit => RankingInv
    <2>1. IsInjective(<< >>) /\ << >> \in Seq(Nodes)
      BY DEF IsInjective
    <2>2. \A b \in Buffers : b * Precision \in Nat
      BY ReportConstantsAssumption
    <2>3. QED BY <2>1, <2>2, ReportsInitially
          DEF ReportInit, RankingInv, RankingTyped, StakedNodes
  <1>2. RankingInv /\ [ReportNext]_<<reportVars, reportEnvVars>> => RankingInv'
    BY RankingStep
  <1>3. QED BY <1>1, <1>2, PTL DEF ReportSpec

\* A set whose elements are all the same has at most one.
LEMMA AtMostOne ==
    ASSUME NEW S, \A x, y \in S : x = y
    PROVE  Cardinality(S) <= 1
  <1>1. CASE S = {}
    BY <1>1, FS_EmptySet
  <1>2. CASE S # {}
    <2>1. PICK x \in S : TRUE
      BY <1>2
    <2>2. S = {x}
      BY <2>1
    <2>3. Cardinality({x}) = 1
      BY FS_Singleton
    <2>4. QED BY <2>2, <2>3
  <1>3. QED BY <1>1, <1>2

\* The list getReporters returns has each member once, by falling reputation,
\* for every list of members and all reputations: the bubble sort sorts.
THEOREM ReportersRanked ==
    ReportSpec => [](Reporters \in Arrangements /\ SortedTail(Reporters, Len(members)))
  <1>1. RankingInv => Reporters \in Arrangements /\ SortedTail(Reporters, Len(members))
    BY ReportersSorted DEF RankingInv
  <1>2. QED BY <1>1, RankingInvariant, PTL

\* Never may two nodes report on the same proofs, and from the mean timestamp on
\* one may.
THEOREM OneReporterAtAnyTime == ReportSpec => []OneReporterAtATime
  <1>1. ASSUME RankingInv PROVE OneReporterAtATime
    <2> DEFINE n == Len(members)
               ts == blockTimestamp
    <2> SUFFICES ASSUME reportTimeBuffer > 0, members # << >>,
                        NEW times \in {sent.timestamps : sent \in ProofLists} \ {<< >>}
                 PROVE  LET may == {x \in Nodes : CanReport(x, Reporters, times, ts)}
                        IN  /\ Cardinality(may) <= 1
                            /\ ts >= MeanTimestamp(times) => may # {}
      BY DEF OneReporterAtATime
    <2> DEFINE may == {x \in Nodes : CanReport(x, Reporters, times, ts)}
               mean == MeanTimestamp(times)
    <2>1. /\ n \in Nat \ {0} /\ reportTimeBuffer \in Nat \ {0} /\ ts \in Nat
          /\ times \in Seq(Nat) /\ times # << >>
      BY <1>1, ReportConstantsAssumption, ProofListsAssumption
      DEF RankingInv, RankingTyped, blockTimestamp, Arrays
    <2>2. mean \in Nat
      BY <2>1, MeanType
    <2>3. /\ Len(Reporters) = n /\ DOMAIN Reporters = 1 .. n
          /\ \A i \in 1 .. n : Reporters[i] \in Nodes
      <3>1. Reporters \in Seq(Nodes) /\ Len(Reporters) = n
        BY <1>1, ReportersSorted DEF RankingInv, Arrangements
      <3>2. QED BY <3>1
    <2> HIDE DEF mean, ts, n
    <2>4. \A x : CanReport(x, Reporters, times, ts) <=>
                    \E i \in 1 .. n : Reporters[i] = x /\ HasTurn(i, n, mean, ts)
      BY <2>1, <2>3 DEF CanReport, mean
    <2>5. \A x, y \in may : x = y
      <3>1. SUFFICES ASSUME NEW x \in may, NEW y \in may PROVE x = y
        OBVIOUS
      <3>2. PICK i \in 1 .. n : Reporters[i] = x /\ HasTurn(i, n, mean, ts)
        BY <2>4
      <3>3. PICK j \in 1 .. n : Reporters[j] = y /\ HasTurn(j, n, mean, ts)
        BY <2>4
      <3>4. i = j
        BY <2>1, <2>2, <3>2, <3>3, TurnsAreDisjoint
      <3>5. QED BY <3>2, <3>3, <3>4
    <2>6. Cardinality(may) <= 1
      <3> HIDE DEF may
      <3> QED BY <2>5, AtMostOne
    <2>7. ASSUME ts >= mean PROVE may # {}
      <3>1. PICK i \in 1 .. n : HasTurn(i, n, mean, ts)
        BY <2>1, <2>2, <2>7, SomeTurn
      <3>2. Reporters[i] \in may
        BY <2>3, <2>4, <3>1
      <3>3. QED BY <3>2
    <2>8. QED BY <2>6, <2>7 DEF mean
  <1>2. QED BY <1>1, RankingInvariant, PTL

\* The signers of a list of proofs.
SignersOf(ps) == {ps[k].signer : k \in DOMAIN ps}

\* As many signers as proofs, when each proof has another signer.
LEMMA SignersCount ==
    ASSUME NEW ps \in Seq(Proof),
           \A k, l \in DOMAIN ps : ps[k].signer = ps[l].signer => k = l
    PROVE  Cardinality(SignersOf(ps)) = Len(ps)
  <1> DEFINE n == Len(ps)
             f == [k \in 1 .. n |-> ps[k].signer]
  <1>1. n \in Nat /\ DOMAIN ps = 1 .. n
    OBVIOUS
  <1>2. IsFiniteSet(1 .. n) /\ Cardinality(1 .. n) = n
    <2> HIDE DEF n
    <2>1. IF 1 > n THEN Cardinality(1 .. n) = 0 ELSE Cardinality(1 .. n) = n - 1 + 1
      BY <1>1, FS_Interval
    <2>2. IsFiniteSet(1 .. n)
      BY <1>1, FS_Interval
    <2>3. QED BY <1>1, <2>1, <2>2
  <1>3. f \in Bijection(1 .. n, SignersOf(ps))
    BY <1>1 DEF Bijection, Injection, Surjection, IsInjective, SignersOf
  <1>4. QED BY <1>2, <1>3, FS_Bijection DEF ExistsBijection

\* What AcceptedByHalf says of one report.
HalfSigned(id) ==
    /\ Signers(id)' \subseteq ToSet(members)
    /\ 2 * Cardinality(Signers(id)') >= Len(members)

\* The consensus that is required is half of the nodes, rounded up: the
\* precision is even or large enough for its half not to be lost.
LEMMA ConsensusIsHalf ==
    ASSUME NEW count \in Nat, NEW n \in Nat, ConsensusMet(count, n)
    PROVE  2 * count >= n
  <1> DEFINE P == Precision
  <1>1. P \in Nat /\ P >= 2
    BY ReportConstantsAssumption
  <1>2. count * P >= (n * P) \div 2
    BY DEF ConsensusMet
  <1>3. count * P \in Nat /\ n * P \in Nat
    BY <1>1
  <1> HIDE DEF P
  <1>4. SUFFICES ASSUME 2 * count + 1 <= n PROVE FALSE
    OBVIOUS
  <1>5. (2 * count + 1) * P <= n * P
    BY <1>1, <1>4, ProductMonotone
  <1>6. (2 * count + 1) * P = 2 * (count * P) + P
    BY <1>1
  <1>7. QED BY <1>1, <1>2, <1>3, <1>5, <1>6

LEMMA ReportIsHalfSigned ==
    ASSUME RankingInv, NEW sender \in Nodes, NEW id \in Ids, NEW h, NEW content,
           NEW sent \in Arrays, ReportTx(sender, id, h, content, sent)
    PROVE  HalfSigned(id)
  <1>1. PICK t \in Tallies :
              /\ TallyInv(t, sender, Reporters, Len(members))
              /\ reputationOf' = t.reputation
              /\ reportProofs' = [reportProofs EXCEPT ![id] = t.proofs]
              /\ ConsensusMet(Len(t.proofs), Len(members))
    BY ReportTallied DEF RankingInv
  <1>2. t.proofs \in Seq(Proof)
    BY DEF Tallies
  <1>3. Signers(id)' = SignersOf(t.proofs)
    <2>1. reportProofs'[id] = t.proofs
      BY <1>1 DEF RankingInv, ReportsInv
    <2>2. GoodProofs(t.proofs) = DOMAIN t.proofs
      BY <1>1 DEF TallyInv, GoodProofs
    <2>3. QED BY <2>1, <2>2 DEF Signers, SignersOf
  <1>4. SignersOf(t.proofs) \subseteq ToSet(members)
    <2>1. SUFFICES ASSUME NEW k \in DOMAIN t.proofs
                   PROVE  t.proofs[k].signer \in ToSet(members)
      BY DEF SignersOf
    <2>2. PICK j \in 1 .. Len(members) : t.proofs[k].signer = Reporters[j]
      BY <1>1, <2>1 DEF TallyInv
    <2>3. /\ Reporters \in Seq(Nodes) /\ Len(Reporters) = Len(members)
          /\ ToSet(Reporters) = ToSet(members)
      BY ReportersSorted DEF RankingInv, Arrangements
    <2>4. Reporters[j] \in ToSet(Reporters)
      BY <2>3 DEF ToSet
    <2>5. QED BY <2>2, <2>3, <2>4
  <1>5. Cardinality(SignersOf(t.proofs)) = Len(t.proofs)
    <2>1. \A k, l \in DOMAIN t.proofs : t.proofs[k].signer = t.proofs[l].signer => k = l
      BY <1>1 DEF TallyInv
    <2>2. QED BY <1>2, <2>1, SignersCount
  <1>6. 2 * Len(t.proofs) >= Len(members)
    <2>1. Len(t.proofs) \in Nat /\ Len(members) \in Nat
      BY <1>2 DEF RankingInv, RankingTyped
    <2>2. QED BY <1>1, <2>1, ConsensusIsHalf
  <1>7. QED BY <1>3, <1>4, <1>5, <1>6 DEF HalfSigned

\* The step of AcceptedByHalf.
AllHalfSigned == \A id \in Ids : Accepted(id) => HalfSigned(id)

\* Only report() accepts a report, and only the one it was called for.
LEMMA OnlyReportsAccept ==
    ASSUME RankingInv, [ReportNext]_<<reportVars, reportEnvVars>>,
           NEW x \in Ids, Accepted(x)
    PROVE  \E sender \in Nodes, h \in 1 .. MaxBlockNumber, content \in Contents,
              sent \in ProofLists : ReportTx(sender, x, h, content, sent)
  <1> USE DEF RankingInv
  <1>1. CASE \E sender \in staked, id \in Ids, h \in 1 .. MaxBlockNumber,
                content \in Contents, sent \in ProofLists :
                ReportTx(sender, id, h, content, sent)
    <2>1. PICK sender \in staked, id \in Ids, h \in 1 .. MaxBlockNumber,
                content \in Contents, sent \in ProofLists :
                ReportTx(sender, id, h, content, sent)
      BY <1>1
    <2>2. sender \in Nodes
      BY DEF StakedNodes
    <2>3. \E new : reports' = [reports EXCEPT ![id] = new]
      BY <2>1 DEF ReportTx
    <2>4. x = id
      BY <2>3 DEF Accepted, ReportsInv
    <2>5. QED BY <2>1, <2>2, <2>4
  <1>2. CASE \E id \in Ids : MarkProcessed(id)
    <2>1. PICK id \in Ids : reports' = [reports EXCEPT ![id].processed = TRUE]
      BY <1>2 DEF MarkProcessed
    <2>2. reports'[x].height = reports[x].height
      BY <2>1 DEF ReportsInv, Report
    <2>3. QED BY <2>2 DEF Accepted
  <1>3. CASE \E buffer \in Buffers : SetReportTimeBuffer(buffer)
    BY <1>3 DEF SetReportTimeBuffer, Accepted
  <1>4. CASE NextBlock \/ \E view \in NodeViews : NodesChange(view)
    BY <1>4 DEF NextBlock, NodesChange, reportVars, Accepted
  <1>5. CASE UNCHANGED <<reportVars, reportEnvVars>>
    BY <1>5 DEF reportVars, Accepted
  <1>6. QED BY <1>1, <1>2, <1>3, <1>4, <1>5 DEF ReportNext

\* A report is accepted only with the good signatures of half of the members,
\* each counted once, for every list of members and of proofs.
THEOREM HalfMustSign == ReportSpec => AcceptedByHalf
  <1>1. RankingInv /\ [ReportNext]_<<reportVars, reportEnvVars>> => AllHalfSigned
    <2> SUFFICES ASSUME RankingInv, [ReportNext]_<<reportVars, reportEnvVars>>,
                        NEW x \in Ids, Accepted(x)
                 PROVE  HalfSigned(x)
      BY DEF AllHalfSigned
    <2>1. PICK sender \in Nodes, h \in 1 .. MaxBlockNumber, content \in Contents,
               sent \in ProofLists : ReportTx(sender, x, h, content, sent)
      BY OnlyReportsAccept
    <2>2. sent \in Arrays
      BY ProofListsAssumption
    <2>3. QED BY <2>1, <2>2, ReportIsHalfSigned
  <1>2. AllHalfSigned => [\A id \in Ids : Accepted(id) =>
            /\ Signers(id)' \subseteq ToSet(members)
            /\ 2 * Cardinality(Signers(id)') >= Len(members)]_reportVars
    BY DEF AllHalfSigned, HalfSigned
  <1>3. QED BY <1>1, <1>2, RankingInvariant, PTL DEF ReportSpec, AcceptedByHalf

\* What ReputationEarned says of one node.
EarnedBy(n, id) ==
    /\ Accepted(id)
    /\ n \in Signers(id)'
    /\ Position(Reporters, n) >= Position(Reporters, reports[id].reporter')

\* A member stands at its position.
LEMMA PositionIs ==
    ASSUME NEW r \in Arrangements, NEW n, NEW j \in DOMAIN r, r[j] = n
    PROVE  Position(r, n) = j
  BY DEF Position, Arrangements, IsInjective

\* An accepted report is higher than what its id had before.
LEMMA ReportIsAccepted ==
    ASSUME ReportsInv, NEW sender, NEW id \in Ids, NEW h \in 1 .. MaxBlockNumber,
           NEW content, NEW sent, ReportTx(sender, id, h, content, sent)
    PROVE  Accepted(id) /\ reports'[id].reporter = sender
  <1> DEFINE new == [height |-> h, content |-> content, reporter |-> sender,
                     processed |-> FALSE]
  <1>1. /\ reports' = [reports EXCEPT ![id] = new]
        /\ h > reports[lastReportId].height
    BY DEF ReportTx, ReportAllowed, HeightAllowed
  <1>2. new.height = h /\ new.reporter = sender
    OBVIOUS
  <1> HIDE DEF new
  <1>3. \A x \in Ids : reports[x].height \in Nat
    BY DEF ReportsInv, Report
  <1>4. reports'[id] = new
    BY <1>1 DEF ReportsInv
  <1>5. h \in Nat /\ reports[id].height <= reports[lastReportId].height
    BY <1>3, ReportConstantsAssumption DEF ReportsInv, LastReportIsHighest
  <1>6. h # reports[id].height
    BY <1>1, <1>3, <1>5 DEF ReportsInv
  <1>7. QED BY <1>2, <1>4, <1>6 DEF Accepted

LEMMA ReportEarns ==
    ASSUME RankingInv, NEW sender \in Nodes, NEW id \in Ids, NEW h \in 1 .. MaxBlockNumber,
           NEW content, NEW sent \in Arrays, ReportTx(sender, id, h, content, sent),
           NEW n \in Nodes, reputationOf'[n] > reputationOf[n]
    PROVE  EarnedBy(n, id)
  <1>1. PICK t \in Tallies :
              /\ TallyInv(t, sender, Reporters, Len(members))
              /\ reputationOf' = t.reputation
              /\ reportProofs' = [reportProofs EXCEPT ![id] = t.proofs]
              /\ ConsensusMet(Len(t.proofs), Len(members))
    BY ReportTallied DEF RankingInv
  <1>2. /\ \E k \in DOMAIN t.proofs : t.proofs[k].signer = n
        /\ NotBefore(n, sender, Reporters)
    BY <1>1 DEF TallyInv
  <1>3. n \in Signers(id)'
    <2>1. reportProofs'[id] = t.proofs
      BY <1>1 DEF RankingInv, ReportsInv
    <2>2. GoodProofs(t.proofs) = DOMAIN t.proofs
      BY <1>1 DEF TallyInv, GoodProofs
    <2>3. QED BY <1>2, <2>1, <2>2 DEF Signers
  <1>4. Accepted(id) /\ reports'[id].reporter = sender
    BY ReportIsAccepted DEF RankingInv
  <1>5. Reporters \in Arrangements /\ DOMAIN Reporters = 1 .. Len(members)
    BY ReportersSorted DEF RankingInv, Arrangements
  <1>6. PICK j \in DOMAIN Reporters : Reporters[j] = n
    <2>1. PICK k \in DOMAIN t.proofs : t.proofs[k].signer = n
      BY <1>2
    <2>2. PICK i \in 1 .. Len(members) : t.proofs[k].signer = Reporters[i]
      BY <1>1 DEF TallyInv
    <2>3. QED BY <1>5, <2>1, <2>2
  <1>7. PICK k \in DOMAIN Reporters : Reporters[k] = sender
    <2>1. CanReport(sender, Reporters, sent.timestamps, blockTimestamp)
      BY DEF ReportTx, ReportAllowed
    <2>2. QED BY <2>1 DEF CanReport
  <1>8. j >= k
    BY <1>2, <1>6, <1>7 DEF NotBefore
  <1>9. Position(Reporters, n) = j /\ Position(Reporters, sender) = k
    BY <1>5, <1>6, <1>7, PositionIs
  <1>10. Position(Reporters, n) >= Position(Reporters, reports[id].reporter')
    BY <1>4, <1>8, <1>9
  <1>11. QED BY <1>3, <1>4, <1>10 DEF EarnedBy

\* The step of ReputationEarned.
AllEarned ==
    \A n \in Nodes : reputationOf[n]' > reputationOf[n] => \E id \in Ids : EarnedBy(n, id)

\* Reputation is earned by a good signature on an accepted report, and never by
\* a node ranked before the one that reported, whatever proofs are sent.
THEOREM ReputationIsEarned == ReportSpec => ReputationEarned
  <1>1. RankingInv /\ [ReportNext]_<<reportVars, reportEnvVars>> => AllEarned
    <2> SUFFICES ASSUME RankingInv, [ReportNext]_<<reportVars, reportEnvVars>>,
                        NEW n \in Nodes, reputationOf'[n] > reputationOf[n]
                 PROVE  \E id \in Ids : EarnedBy(n, id)
      BY DEF AllEarned
    <2>1. reputationOf' # reputationOf
      BY DEF RankingInv, RankingTyped
    <2>2. PICK sender \in staked, id \in Ids, h \in 1 .. MaxBlockNumber,
               content \in Contents, sent \in ProofLists :
               ReportTx(sender, id, h, content, sent)
      BY <2>1 DEF ReportNext, MarkProcessed, SetReportTimeBuffer, NextBlock, NodesChange,
                  reportVars
    <2>3. sender \in Nodes /\ sent \in Arrays
      BY ProofListsAssumption DEF RankingInv, StakedNodes
    <2>4. EarnedBy(n, id)
      BY <2>2, <2>3, ReportEarns
    <2>5. QED BY <2>4
  <1>2. AllEarned => [\A n \in Nodes : reputationOf[n]' > reputationOf[n] =>
        \E id \in Ids :
            /\ Accepted(id)
            /\ n \in Signers(id)'
            /\ Position(Reporters, n) >= Position(Reporters, reports[id].reporter')]_reportVars
    BY DEF AllEarned, EarnedBy
  <1>3. QED BY <1>1, <1>2, RankingInvariant, PTL DEF ReportSpec, ReputationEarned

=============================================================================

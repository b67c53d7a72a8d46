-------------------------- MODULE LogStoreNetwork ---------------------------
(***************************************************************************)
(* The four contracts of the Log Store network together, over one token:   *)
(* the node manager (M), the store manager (S), the query manager (Q) and  *)
(* the report manager (R).                                                 *)
(*                                                                         *)
(* They meet in two places.  report() reads the node manager's list and    *)
(* stakes; processReport() reads an accepted report, captures its fees     *)
(* from the store and query managers, pays them to the node manager's      *)
(* ledger and marks the report processed, all in one transaction that      *)
(* reverts when any of its calls does.                                     *)
(***************************************************************************)
EXTENDS StoreLedger

CONSTANTS
    Addresses, NoAddress, MaxBlock, Accounts,
    NodeManagerAccount, OwnerAccount, StoreManagerAccount, QueryManagerAccount,
    StakeRequired, InitialTokens, Amounts, FeeAmounts,
    Streams, Ids, EmptyId, Contents, NoContent, Precision, ProofLists, Buffers

VARIABLES
    next, prev, index, registered, headNode, tailNode, totalNodes,
    startBlockNumber, blockNumber, whitelist, requiresWhitelist,
    nodeStake, balanceOf, delegatesOf, totalSupply, treasurySupply, canPublish,
    store, query,
    reputationOf, reports, reportProofs, lastReportId, reportTimeBuffer,
    tokens

M == INSTANCE NodeManager WITH
        Reports <- {},
        processed <- {id \in Ids : reports[id].processed}
S == INSTANCE StoreManager WITH
        Users <- Addresses, ParentAccount <- NodeManagerAccount,
        StoreTokens <- InitialTokens, StakeAmounts <- FeeAmounts, CaptureAmounts <- {}
Q == INSTANCE QueryManager WITH Consumers <- Addresses
R == INSTANCE ReportManager WITH
        Nodes <- Addresses, NoNode <- NoAddress, NodeViews <- {},
        MaxBlockNumber <- MaxBlock, block <- blockNumber,
        members <- M!NodeAddresses,
        staked <- {n \in Addresses : M!IsStaked(n)}

\* The contracts and the owner are accounts of their own, but that the owner
\* may be a user; the contracts hold nothing when they are deployed.
ASSUME NetworkAccountsAssumption ==
    /\ IsFiniteSet(Accounts) /\ IsFiniteSet(Streams)
    /\ Addresses \cup {NodeManagerAccount, OwnerAccount, StoreManagerAccount,
                       QueryManagerAccount} \subseteq Accounts
    /\ NodeManagerAccount \notin Addresses \cup {OwnerAccount}
    /\ StoreManagerAccount \notin Addresses \cup {OwnerAccount, NodeManagerAccount}
    /\ QueryManagerAccount \notin
        Addresses \cup {OwnerAccount, NodeManagerAccount, StoreManagerAccount}
ASSUME NetworkTokensAssumption ==
    /\ InitialTokens \in [Accounts -> Nat]
    /\ \A a \in {NodeManagerAccount, StoreManagerAccount, QueryManagerAccount} :
            InitialTokens[a] = 0
ASSUME NetworkAmountsAssumption == Amounts \subseteq Nat /\ FeeAmounts \subseteq Nat

\* What a report bills and pays: the streams and consumers with the fee and
\* the bytes it is for, and the changes to nodes, delegates and treasury.
Bill(ids) == [id : ids, amount : Nat, bytes : Nat]
ASSUME ContentsBill ==
    \A c \in Contents :
        /\ c.streams \in Seq(Bill(Streams)) /\ c.consumers \in Seq(Bill(Addresses))
        /\ \A d \in DOMAIN c.delegates : c.delegates[d] \in Int

\* What getReport returns for an id that was never reported.
EmptyContent == [streams |-> << >>, consumers |-> << >>,
                 nodes |-> [n \in {} |-> 0], delegates |-> [d \in {} |-> 0], treasury |-> 0]

clientVars == <<store, query>>
reporterVars == <<reputationOf, reports, reportProofs, lastReportId, reportTimeBuffer>>
listVars == <<next, prev, index, registered, headNode, tailNode, totalNodes,
              startBlockNumber, blockNumber, whitelist, requiresWhitelist>>
ledgerVars == <<nodeStake, balanceOf, delegatesOf, totalSupply, treasurySupply, canPublish>>
networkVars == <<listVars, ledgerVars, clientVars, reporterVars, tokens>>

-----------------------------------------------------------------------------
(* Mutants: what a slip in the definition of the same shape below would do. *)

\* The report that is read is the last one and not the one with the id.
LastContent(id) ==
    IF reports[lastReportId].content = NoContent THEN EmptyContent
    ELSE reports[lastReportId].content

-----------------------------------------------------------------------------
\* What getReport returns.
ContentOf(id) == IF reports[id].content = NoContent THEN EmptyContent ELSE reports[id].content

\* One round of processReport's loop over the streams, and over the consumers,
\* which skips the bills for no bytes.  `held` is what the manager's account
\* still has, `billed` what was added to the supply.
ChargeStream(acc, bill) ==
    IF bill.bytes = 0 THEN acc
    ELSE IF CaptureAllowed(acc.state, bill.id, bill.amount, acc.held)
    THEN [acc EXCEPT !.state = Capture(@, bill.id, bill.amount),
                     !.held = @ - Captured(acc.state, bill.id, bill.amount),
                     !.billed = @ + bill.amount]
    ELSE [acc EXCEPT !.reverts = TRUE]

ChargeConsumer(acc, bill) ==
    IF bill.bytes = 0 THEN acc
    ELSE IF Q!QueryAllowed(acc.state, bill.id, bill.amount, acc.held)
    THEN [acc EXCEPT !.state = Q!QueryCapture(@, bill.id, bill.amount),
                     !.held = @ - Q!QueryCaptured(acc.state, bill.id, bill.amount),
                     !.billed = @ + bill.amount]
    ELSE [acc EXCEPT !.reverts = TRUE]

Uncharged(state, account) ==
    [state |-> state, held |-> tokens[account], billed |-> 0, reverts |-> FALSE]
StreamsCharged(c) == FoldLeft(ChargeStream, Uncharged(store, StoreManagerAccount), c.streams)
ConsumersCharged(c) ==
    FoldLeft(ChargeConsumer, Uncharged(query, QueryManagerAccount), c.consumers)

\* processReport(id), sent by u.
ProcessTx(u, id) ==
    LET c         == ContentOf(id)
        streams   == StreamsCharged(c)
        consumers == ConsumersCharged(c)
        captured  == (tokens[StoreManagerAccount] - streams.held)
                        + (tokens[QueryManagerAccount] - consumers.held)
        effect    == [id |-> id, nodes |-> c.nodes, delegates |-> c.delegates,
                      treasury |-> c.treasury, captured |-> captured,
                      billed |-> streams.billed + consumers.billed]
    IN  /\ ~streams.reverts /\ ~consumers.reverts
        /\ store' = streams.state
        /\ query' = consumers.state
        /\ tokens' = [tokens EXCEPT ![StoreManagerAccount] = streams.held,
                                    ![QueryManagerAccount] = consumers.held,
                                    ![NodeManagerAccount] = @ + captured]
        /\ R!MarkProcessed(id)
        /\ M!ReportEffects(u, effect)

\* A transaction of the node manager alone, or a block.
ManagerTx ==
    /\ UNCHANGED <<clientVars, reporterVars>>
    /\ M!StakeNext

StoreStake(u, s, amount) ==
    /\ S!StoreStakeTx(u, s, amount)
    /\ UNCHANGED <<query, reporterVars, listVars, ledgerVars>>

QueryStake(u, amount) ==
    /\ Q!QueryStakeTx(u, amount)
    /\ UNCHANGED <<store, reporterVars, listVars, ledgerVars>>

ReportSent(u, id, h, c, sent) ==
    /\ R!ReportTx(u, id, h, c, sent)
    /\ UNCHANGED <<tokens, clientVars, listVars, ledgerVars>>

BufferSet(buffer) ==
    /\ R!SetReportTimeBuffer(buffer)
    /\ UNCHANGED <<tokens, clientVars, listVars, ledgerVars>>

-----------------------------------------------------------------------------
NetworkInit ==
    /\ M!RegistryInit
    /\ tokens = InitialTokens
    /\ reputationOf = [n \in Addresses |-> 0]
    /\ reports = [id \in Ids |-> R!NoReport]
    /\ reportProofs = [id \in Ids |-> << >>]
    /\ lastReportId = EmptyId
    /\ reportTimeBuffer \in {b * Precision : b \in Buffers}
    /\ nodeStake = [a \in Addresses |-> 0]
    /\ balanceOf = [a \in Addresses |-> 0]
    /\ delegatesOf = [u \in Addresses |-> [n \in Addresses |-> 0]]
    /\ totalSupply = 0
    /\ treasurySupply = 0
    /\ canPublish = {}
    /\ store = S!EmptyStore
    /\ query = Q!EmptyQuery

NetworkNext ==
    \/ ManagerTx
    \/ \E u \in Addresses, amount \in FeeAmounts :
        \/ QueryStake(u, amount)
        \/ \E s \in Streams : StoreStake(u, s, amount)
    \/ \E u \in Addresses, id \in Ids :
        \/ ProcessTx(u, id)
        \/ \E h \in 1 .. MaxBlock, c \in Contents, sent \in ProofLists :
            ReportSent(u, id, h, c, sent)
    \/ \E buffer \in Buffers : BufferSet(buffer)

NetworkSpec == NetworkInit /\ [][NetworkNext]_networkVars

-----------------------------------------------------------------------------
(* Properties *)

\* Each client contract holds exactly the tokens it owes its clients, and no
\* token appears or is lost: what a capture takes off a stream or a consumer
\* is what arrives at the node manager.  That one may owe more than it holds,
\* since it books the whole fee of a capture that overflows, but never less.
CustodyExact ==
    /\ Sum(store.stores) = tokens[StoreManagerAccount]
    /\ Sum(query.balanceOf) = tokens[QueryManagerAccount]
    /\ Sum(tokens) = Sum(InitialTokens)
    /\ tokens[NodeManagerAccount] <= totalSupply

\* Clients pay for accepted reports only, and for each once: their stakes
\* shrink only in the step in which a report that was accepted is processed.
FeesOnlyForReports ==
    [][\/ tokens[StoreManagerAccount]' < tokens[StoreManagerAccount]
       \/ tokens[QueryManagerAccount]' < tokens[QueryManagerAccount]
       => \E id \in Ids :
            /\ reports[id].height > 0
            /\ ~reports[id].processed /\ reports[id]'.processed]_networkVars

=============================================================================

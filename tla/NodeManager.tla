---------------------------- MODULE NodeManager -----------------------------
(***************************************************************************)
(* LogStoreNodeManager (contracts/src/NodeManager.sol): the node registry, *)
(* the stakes and delegations of its users, the treasury, and the Publish  *)
(* permission on the system stream that follows a node's stake.            *)
(*                                                                         *)
(* Each transaction is one atomic step of the whole contract.  The names   *)
(* ending in Tx are the contract's external functions; those of            *)
(* NodeRegistry give their effect on the list.  Arithmetic is Solidity     *)
(* 0.8's: a subtraction below zero reverts, so it is a guard.              *)
(***************************************************************************)
EXTENDS Integers, NodeRegistry, Functions

CONSTANTS
    Accounts,            \* holders of the stake token
    NodeManagerAccount,  \* address(this)
    OwnerAccount,        \* owner()
    StakeRequired,       \* stakeRequiredAmount, set once by initialize
    InitialTokens,       \* token balances before anything is staked
    Amounts,             \* bound of the model: amounts users send
    Reports              \* the reports that may be accepted, see ProcessReportTx

ASSUME AccountsAssumption ==
    /\ IsFiniteSet(Accounts)
    /\ Addresses \cup {NodeManagerAccount, OwnerAccount} \subseteq Accounts
    /\ NodeManagerAccount \notin Addresses \cup {OwnerAccount}
ASSUME StakeRequiredAssumption == StakeRequired \in Nat \ {0}
ASSUME TokensAssumption == InitialTokens \in [Accounts -> Nat]
ASSUME AmountsAssumption == Amounts \subseteq Nat

\* What the report `id` changes in this contract: per node and per delegation a signed
\* amount, the treasury's, the fees billed to the streams and consumers, and
\* the tokens their captures really transferred here.
ReportEffect(r) ==
    /\ DOMAIN r.nodes \subseteq Addresses
    /\ \A n \in DOMAIN r.nodes : r.nodes[n] \in Int
    /\ DOMAIN r.delegates \subseteq Addresses \X Addresses
    /\ \A d \in DOMAIN r.delegates : r.delegates[d] \in Int
    /\ r.treasury \in Int
    /\ r.billed \in Nat
    /\ r.captured \in Nat
ReportIds == {r.id : r \in Reports}
ASSUME ReportsAssumption == \A r \in Reports : ReportEffect(r)

VARIABLES
    nodeStake,       \* nodes[n].stake
    balanceOf, delegatesOf, totalSupply, treasurySupply,
    canPublish,      \* who holds Publish on the system stream (Streamr registry)
    tokens,          \* balances of the stake token
    processed        \* ids of the processed reports (_processed of ReportManager)

stakeVars == <<nodeStake, balanceOf, delegatesOf, totalSupply, treasurySupply,
               canPublish, tokens, processed>>
managerVars == <<registryVars, stakeVars>>

Total(f) == SumFunction(f)

-----------------------------------------------------------------------------
(* Mutants: what a slip in the definition of the same shape below would do. *)

\* The stake required is compared strictly.
AccessIfAbove(n, stake) ==
    IF stake > StakeRequired THEN canPublish \cup {n} ELSE canPublish \ {n}
\* A payout that leaves the supply as it was.
SupplyKept(amount) == totalSupply
\* A node's stake grows with delegations and never shrinks.
StakeOnlyGrows(n, change) == IF change > 0 THEN nodeStake[n] + change ELSE nodeStake[n]
\* leave() pays out the free balance alone.
LeavesDelegation(u) == balanceOf[u]
\* join() appends the sender without asking whether it is a node already.
JoinsAgain(u) == OnlyWhitelist(u) /\ AddLast(u)

-----------------------------------------------------------------------------
IsStaked(n) == StakeRequired > 0 /\ nodeStake[n] >= StakeRequired

\* _checkAndGrantAccess for a node whose stake is now `stake`.
AccessAfter(n, stake) ==
    IF stake >= StakeRequired THEN canPublish \cup {n} ELSE canPublish \ {n}

\* require(amount <= balanceOf), and the checked subtraction in delegate().
HasBalance(u, amount) == balanceOf[u] >= amount

\* nodes[n].stake += or -= in delegate() and undelegate().
StakeAfter(n, change) == nodeStake[n] + change

\* u's free balance and its delegation to n change, and n's stake and access
\* with the delegation: the common part of delegate() and undelegate().
Redelegate(u, n, balanceChange, change) ==
    /\ n \in registered
    /\ balanceOf' = [balanceOf EXCEPT ![u] = @ + balanceChange]
    /\ delegatesOf' = [delegatesOf EXCEPT ![u][n] = @ + change]
    /\ nodeStake' = [nodeStake EXCEPT ![n] = StakeAfter(n, change)]
    /\ canPublish' = AccessAfter(n, nodeStake'[n])

\* The checked subtractions of undelegate().
CanUndelegate(u, n, amount) == delegatesOf[u][n] >= amount /\ nodeStake[n] >= amount

Pay(from, to, amount) ==
    tokens' = [tokens EXCEPT ![from] = @ - amount, ![to] = @ + amount]

\* totalSupply -= amount in withdraw() and treasuryWithdraw().
SupplyAfterPayout(amount) == totalSupply - amount

\* totalSupply and the contract's tokens when u stakes, and when `to` is paid.
Deposit(u, amount) ==
    /\ tokens[u] >= amount
    /\ totalSupply' = totalSupply + amount
    /\ Pay(u, NodeManagerAccount, amount)

PayOut(to, amount) ==
    /\ totalSupply >= amount
    /\ tokens[NodeManagerAccount] >= amount
    /\ totalSupply' = SupplyAfterPayout(amount)
    /\ Pay(NodeManagerAccount, to, amount)

-----------------------------------------------------------------------------
(* Staking and delegation.  In all of them amount > 0 is required. *)

StakeTx(u, amount) ==
    /\ amount > 0
    /\ Deposit(u, amount)
    /\ balanceOf' = [balanceOf EXCEPT ![u] = @ + amount]
    /\ UNCHANGED <<registryVars, nodeStake, delegatesOf, treasurySupply, canPublish, processed>>

DelegateTx(u, n, amount) ==
    /\ amount > 0
    /\ HasBalance(u, amount)
    /\ Redelegate(u, n, -amount, amount)
    /\ UNCHANGED <<registryVars, totalSupply, treasurySupply, tokens, processed>>

UndelegateTx(u, n, amount) ==
    /\ amount > 0
    /\ CanUndelegate(u, n, amount)
    /\ Redelegate(u, n, amount, -amount)
    /\ UNCHANGED <<registryVars, totalSupply, treasurySupply, tokens, processed>>

\* stake(amount), then delegate(amount, n).
StakeAndDelegateTx(u, n, amount) ==
    /\ amount > 0
    /\ Deposit(u, amount)
    /\ Redelegate(u, n, 0, amount)
    /\ UNCHANGED <<registryVars, treasurySupply, processed>>

\* undelegate(amount, n), then withdraw(amount).
UndelegateWithdrawTx(u, n, amount) ==
    /\ amount > 0
    /\ CanUndelegate(u, n, amount)
    /\ PayOut(u, amount)
    /\ Redelegate(u, n, 0, -amount)
    /\ UNCHANGED <<registryVars, treasurySupply, processed>>

WithdrawTx(u, amount) ==
    /\ HasBalance(u, amount)
    /\ PayOut(u, amount)
    /\ balanceOf' = [balanceOf EXCEPT ![u] = @ - amount]
    /\ UNCHANGED <<registryVars, nodeStake, delegatesOf, treasurySupply, canPublish, processed>>

TreasuryWithdrawTx(amount) ==
    /\ amount <= treasurySupply
    /\ PayOut(OwnerAccount, amount)
    /\ treasurySupply' = treasurySupply - amount
    /\ UNCHANGED <<registryVars, nodeStake, balanceOf, delegatesOf, canPublish, processed>>

-----------------------------------------------------------------------------
(* Joining and leaving. *)

\* upsertNode inside join().
JoinList(u) == OnlyWhitelist(u) /\ Upsert(u)

\* upsertNode, stake(amount), delegate(amount, u): the amount passes through
\* the free balance.
JoinTx(u, amount) ==
    /\ amount > 0
    /\ JoinList(u)
    /\ Deposit(u, amount)
    /\ delegatesOf' = [delegatesOf EXCEPT ![u][u] = @ + amount]
    /\ nodeStake' = [nodeStake EXCEPT ![u] = @ + amount]
    /\ canPublish' = AccessAfter(u, nodeStake'[u])
    /\ UNCHANGED <<accessVars, blockNumber, balanceOf, treasurySupply, processed>>

\* What leave() withdraws: the free balance after the self-delegation is back.
LeaveAmount(u) == balanceOf[u] + delegatesOf[u][u]

\* undelegate(all of it, u), withdraw(all of it), removeNode().  The access is
\* checked when the delegation goes, against the stake others still delegate;
\* the removal then deletes that stake and leaves the access alone.
LeaveTx(u) ==
    /\ delegatesOf[u][u] > 0
    /\ CanUndelegate(u, u, delegatesOf[u][u])
    /\ PayOut(u, LeaveAmount(u))
    /\ Unlink(u)
    /\ balanceOf' = [balanceOf EXCEPT ![u] = 0]
    /\ delegatesOf' = [delegatesOf EXCEPT ![u][u] = 0]
    /\ canPublish' = AccessAfter(u, nodeStake[u] - delegatesOf[u][u])
    /\ nodeStake' = [nodeStake EXCEPT ![u] = 0]
    /\ UNCHANGED <<accessVars, blockNumber, treasurySupply, processed>>

\* removeNode and removeNodeAdmin: `delete nodes[a]` clears the stake as well;
\* neither the delegations nor the access are touched.
RemoveNodeTx(a) ==
    /\ RemoveNode(a)
    /\ nodeStake' = [nodeStake EXCEPT ![a] = 0]
    /\ UNCHANGED <<balanceOf, delegatesOf, totalSupply, treasurySupply, canPublish,
                   tokens, processed>>

KickNodeTx(a) ==
    /\ KickNode(a)
    /\ nodeStake' = [nodeStake EXCEPT ![a] = 0]
    /\ UNCHANGED <<balanceOf, delegatesOf, totalSupply, treasurySupply, canPublish,
                   tokens, processed>>

\* The transactions that touch the list or the whitelist and no stake.
RegistryOnlyTx ==
    /\ \/ \E a \in Addresses :
            \/ UpsertNode(a)
            \/ UpsertNodeAdmin(a)
            \/ WhitelistApproveNode(a)
            \/ WhitelistRejectNode(a)
       \/ \E value \in BOOLEAN : SetRequiresWhitelist(value)
       \/ MineBlock
    /\ UNCHANGED stakeVars

-----------------------------------------------------------------------------
(* Reports. *)

AtLeastZero(x) == IF x > 0 THEN x ELSE 0

\* The loops over report.nodes and report.delegates, and report.treasury.
ApplyReport(r) ==
    /\ nodeStake' = [n \in Addresses |->
            IF n \in DOMAIN r.nodes THEN AtLeastZero(nodeStake[n] + r.nodes[n])
            ELSE nodeStake[n]]
    /\ canPublish' = {n \in Addresses :
            IF n \in DOMAIN r.nodes THEN nodeStake'[n] >= StakeRequired
            ELSE n \in canPublish}
    /\ delegatesOf' = [u \in Addresses |-> [n \in Addresses |->
            IF <<u, n>> \in DOMAIN r.delegates
            THEN AtLeastZero(delegatesOf[u][n] + r.delegates[<<u, n>>])
            ELSE delegatesOf[u][n]]]
    /\ treasurySupply' = AtLeastZero(treasurySupply + r.treasury)
    /\ UNCHANGED balanceOf

\* processReport(id) but for the captured tokens: a report is processed once,
\* by a staked sender, and totalSupply grows by what was billed.
ReportEffects(u, r) ==
    /\ IsStaked(u)
    /\ r.id \notin processed
    /\ ApplyReport(r)
    /\ totalSupply' = totalSupply + r.billed
    /\ processed' = processed \cup {r.id}
    /\ UNCHANGED registryVars

\* processReport(id), the captured tokens coming from outside the contract.
ProcessReportTx(u, r) ==
    /\ ReportEffects(u, r)
    /\ tokens' = [tokens EXCEPT ![NodeManagerAccount] = @ + r.captured]

-----------------------------------------------------------------------------
ManagerInit ==
    /\ RegistryInit
    /\ nodeStake = [a \in Addresses |-> 0]
    /\ balanceOf = [a \in Addresses |-> 0]
    /\ delegatesOf = [u \in Addresses |-> [n \in Addresses |-> 0]]
    /\ totalSupply = 0
    /\ treasurySupply = 0
    /\ canPublish = {}
    /\ tokens = InitialTokens
    /\ processed = {}

\* The transactions that are not about reports.
StakeNext ==
    \/ RegistryOnlyTx
    \/ \E u \in Addresses :
        \/ LeaveTx(u)
        \/ RemoveNodeTx(u)
        \/ KickNodeTx(u)
        \/ \E amount \in Amounts :
            \/ StakeTx(u, amount)
            \/ WithdrawTx(u, amount)
            \/ JoinTx(u, amount)
            \/ \E n \in Addresses :
                \/ DelegateTx(u, n, amount)
                \/ UndelegateTx(u, n, amount)
                \/ StakeAndDelegateTx(u, n, amount)
                \/ UndelegateWithdrawTx(u, n, amount)
    \/ \E amount \in Amounts : TreasuryWithdrawTx(amount)

ManagerNext ==
    \/ StakeNext
    \/ \E u \in Addresses, r \in Reports : ProcessReportTx(u, r)

ManagerSpec == ManagerInit /\ [][ManagerNext]_managerVars

-----------------------------------------------------------------------------
(* Properties *)

ManagerTypeOK ==
    /\ NodeRegistryTypeOK
    /\ nodeStake \in [Addresses -> Nat]
    /\ balanceOf \in [Addresses -> Nat]
    /\ delegatesOf \in [Addresses -> [Addresses -> Nat]]
    /\ totalSupply \in Nat
    /\ treasurySupply \in Nat
    /\ canPublish \subseteq Addresses
    /\ tokens \in [Accounts -> Nat]
    /\ processed \subseteq ReportIds

DelegatedTo(n) == Total([u \in Addresses |-> delegatesOf[u][n]])
DelegatedBy(u) == Total(delegatesOf[u])
Wealth(u) == tokens[u] + balanceOf[u] + DelegatedBy(u)
FullyBacked(n) == nodeStake[n] = DelegatedTo(n)

NodeChange(r, n) == IF n \in DOMAIN r.nodes THEN r.nodes[n] ELSE 0
DelegateChange(r, u, n) == IF <<u, n>> \in DOMAIN r.delegates THEN r.delegates[<<u, n>>] ELSE 0

\* A report that only rewards, each node as much as its delegators, and pays
\* out what it bills and captures.  The contract does not check this.
PaysWhatItBills(r) ==
    /\ r.treasury >= 0 /\ \A d \in DOMAIN r.delegates : r.delegates[d] >= 0
    /\ \A n \in Addresses :
            NodeChange(r, n) = Total([u \in Addresses |-> DelegateChange(r, u, n)])
    /\ r.captured = r.billed
    /\ r.billed = r.treasury +
            Total([u \in Addresses |-> Total([n \in Addresses |-> DelegateChange(r, u, n)])])

\* The contract owes its users and its treasury exactly what it counts as its
\* supply, and holds exactly those tokens, through joins, kicks, delegations
\* and rewards in any order.
LedgerBalances ==
    /\ totalSupply = Total(balanceOf) + Total([u \in Addresses |-> DelegatedBy(u)])
                        + treasurySupply
    /\ tokens[NodeManagerAccount] = totalSupply

\* A staked node can publish to the system stream; a node that can publish
\* without being staked has no stake at all (it was removed since).
AccessFollowsStake ==
    \A n \in Addresses :
        /\ IsStaked(n) => n \in canPublish
        /\ n \in canPublish /\ ~IsStaked(n) => nodeStake[n] = 0

\* Only the removal of a node takes the stake from under its delegators:
\* until then each of them can have back what was delegated.
OnlyRemovalStrands ==
    [][\A n \in Addresses :
        FullyBacked(n) /\ ~FullyBacked(n)' => n \in registered /\ n \notin registered']_managerVars

\* What u withdraws from the treasury, as the owner.
FromTreasury(u) == IF u = OwnerAccount THEN treasurySupply - treasurySupply' ELSE 0

\* But for a report, no transaction moves value between users: what a user
\* holds, has staked and has delegated adds up to the same after each.  The
\* owner may gain what the treasury loses.
WealthPreserved ==
    [][processed' = processed =>
        \A u \in Addresses : Wealth(u)' = Wealth(u) + FromTreasury(u)]_managerVars

=============================================================================

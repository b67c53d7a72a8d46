---------------------------- MODULE StoreManager ----------------------------
(***************************************************************************)
(* LogStoreManager (contracts/src/StoreManager.sol): the stakes of users   *)
(* on streams and the capture of storage fees from them.                   *)
(*                                                                         *)
(* The contract's storage is one record, changed by the operators of       *)
(* StoreLedger.                                                            *)
(***************************************************************************)
EXTENDS StoreLedger

CONSTANTS
    Users,                \* stakeholders
    Streams,              \* streams known to the Streamr registry
    Accounts,             \* holders of the stake token
    StoreManagerAccount,  \* address(this)
    ParentAccount,        \* parent, the node manager: the only caller of capture
    StoreTokens,          \* token balances before anything is staked
    StakeAmounts,         \* bound of the model: amounts users stake
    CaptureAmounts        \* bound of the model: amounts the parent captures

ASSUME StoreAccountsAssumption ==
    /\ IsFiniteSet(Streams)
    /\ Users \cup {StoreManagerAccount, ParentAccount} \subseteq Accounts
    /\ StoreManagerAccount \notin Users \cup {ParentAccount}
ASSUME StoreTokensAssumption == StoreTokens \in [Accounts -> Nat]
ASSUME StoreAmountsAssumption == StakeAmounts \subseteq Nat /\ CaptureAmounts \subseteq Nat

VARIABLES
    store,    \* the contract's storage
    tokens    \* balances of the stake token

storeVars == <<store, tokens>>

EmptyStore == [
    stores |-> [s \in Streams |-> 0],
    totalSupply |-> 0,
    balanceOf |-> [u \in Users |-> 0],
    storeBalanceOf |-> [u \in Users |-> [s \in Streams |-> 0]],
    storeStakeholders |-> [s \in Streams |-> << >>]]

-----------------------------------------------------------------------------
StoreStakeTx(u, s, amount) ==
    /\ amount > 0
    /\ tokens[u] >= amount
    /\ store' = Stake(store, u, s, amount)
    /\ tokens' = [tokens EXCEPT ![u] = @ - amount, ![StoreManagerAccount] = @ + amount]

CaptureTx(s, amount) ==
    /\ CaptureAllowed(store, s, amount, tokens[StoreManagerAccount])
    /\ store' = Capture(store, s, amount)
    /\ tokens' = [tokens EXCEPT ![StoreManagerAccount] = @ - Captured(store, s, amount),
                                ![ParentAccount] = @ + Captured(store, s, amount)]

StoreInit ==
    /\ store = EmptyStore
    /\ tokens = StoreTokens

StoreNext ==
    \E s \in Streams :
        \/ \E u \in Users, amount \in StakeAmounts : StoreStakeTx(u, s, amount)
        \/ \E amount \in CaptureAmounts : CaptureTx(s, amount)

StoreSpec == StoreInit /\ [][StoreNext]_storeVars

-----------------------------------------------------------------------------
(* Properties *)

\* The streams' stakes are exactly the tokens the contract got by staking:
\* whatever the fees ask for, a capture never pays with another stream's stake.
StoresHoldTokens ==
    Sum(store.stores) = tokens[StoreManagerAccount] - StoreTokens[StoreManagerAccount]

\* The stream's list names those who have stake on it, each once.
Listed(s) ==
    /\ IsInjective(store.storeStakeholders[s])
    /\ ToSet(store.storeStakeholders[s]) = {u \in Users : store.storeBalanceOf[u][s] > 0}

\* A fee takes the whole stake of one of several holders.  That holder has as
\* much as the stream, so fees were paid before that were charged to nobody.
FinishesOneOfSeveral(s) ==
    /\ store'.stores[s] < store.stores[s]
    /\ Len(store.storeStakeholders[s]) > 1
    /\ \E u \in Users :
        store.storeBalanceOf[u][s] >= store.stores[s] /\ store'.storeBalanceOf[u][s] = 0

ListsKept ==
    \A s \in Streams : Listed(s) => Listed(s)' \/ FinishesOneOfSeveral(s)

\* The list of a stream, over which capture() charges and clears its holders, goes
\* on naming exactly those with stake there: through stakes by old and new holders,
\* fees and overflows.  Only a fee that finishes one of several holders breaks
\* it: the rebuilding of the list inside the loop puts the finished one in place
\* of each of the others, which an overflow then leaves their stakes.
ListFollowsStakes == [][ListsKept]_storeVars

\* What the comment in capture says: a fee is divided between the stakeholders
\* in proportion to their stakes on the stream.
FeesProportional ==
    [][\A s \in Streams : store'.stores[s] < store.stores[s] =>
        LET fee == store.stores[s] - store'.stores[s]
        IN  \A u \in Users :
              store'.storeBalanceOf[u][s] =
                store.storeBalanceOf[u][s]
                    - (store.storeBalanceOf[u][s] * fee) \div store.stores[s]]_storeVars

=============================================================================

---------------------------- MODULE QueryManager ----------------------------
(***************************************************************************)
(* LogStoreQueryManager (contracts/src/QueryManager.sol): the prepaid      *)
(* balances of data consumers and the capture of query fees from them.     *)
(*                                                                         *)
(* As in StoreManager, the contract's storage is one record, so that the   *)
(* node manager can capture from several consumers in one transaction.     *)
(***************************************************************************)
EXTENDS Integers

CONSTANTS
    Consumers,
    Accounts,            \* holders of the stake token
    QueryManagerAccount  \* address(this), no consumer

VARIABLES
    query,    \* the contract's storage
    tokens    \* balances of the stake token

EmptyQuery == [balanceOf |-> [c \in Consumers |-> 0], totalSupply |-> 0]

-----------------------------------------------------------------------------
\* Mutant: an overflowing query leaves what was captured on the balance.
BalanceKept(q, c, amount) ==
    IF q.balanceOf[c] < amount THEN q.balanceOf[c] ELSE q.balanceOf[c] - amount

\* What a capture transfers: the fee, or all the consumer has.
QueryCaptured(q, c, amount) ==
    IF q.balanceOf[c] < amount THEN q.balanceOf[c] ELSE amount

BalanceAfterQuery(q, c, amount) ==
    IF q.balanceOf[c] < amount THEN 0 ELSE q.balanceOf[c] - amount

\* capture(consumer, amount, bytesProcessed).  The supply loses the whole fee,
\* and stops at zero.
QueryCapture(q, c, amount) ==
    [balanceOf |-> [q.balanceOf EXCEPT ![c] = BalanceAfterQuery(q, c, amount)],
     totalSupply |-> IF q.totalSupply < amount THEN 0 ELSE q.totalSupply - amount]

\* capture's requires: a consumer with a balance, and tokens to transfer.
QueryAllowed(q, c, amount, held) ==
    q.balanceOf[c] > 0 /\ QueryCaptured(q, c, amount) <= held

\* stake(amount)
QueryStakeTx(c, amount) ==
    /\ amount > 0
    /\ tokens[c] >= amount
    /\ query' = [balanceOf |-> [query.balanceOf EXCEPT ![c] = @ + amount],
                 totalSupply |-> query.totalSupply + amount]
    /\ tokens' = [tokens EXCEPT ![c] = @ - amount, ![QueryManagerAccount] = @ + amount]

=============================================================================

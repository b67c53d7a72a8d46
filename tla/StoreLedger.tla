---------------------------- MODULE StoreLedger -----------------------------
(***************************************************************************)
(* The storage of LogStoreManager (contracts/src/StoreManager.sol) as one  *)
(* record `st`, and what stake() and capture() do to it.                   *)
(*                                                                         *)
(* These are operators on the record, so that StoreManager can apply them  *)
(* to its variable and a transaction of the node manager that captures     *)
(* from several streams can fold Capture over them (LogStoreNetwork).      *)
(***************************************************************************)
EXTENDS Integers, SequencesExt

Sum(f) == SumFunction(f)

-----------------------------------------------------------------------------
(* Mutants: what a slip in the definition of the same shape below would do. *)

\* An overflowing capture transfers what was asked for.
AskedFor(st, s, amount) == amount
\* A holder is new to a stream when it has no stake on any.
NewToAll(st, u, s) == st.balanceOf[u] = 0

-----------------------------------------------------------------------------
\* x - y, cut at zero.
Less(x, y) == IF x < y THEN 0 ELSE x - y

\* What a capture transfers: the fee, or all the stream has.
Captured(st, s, amount) == IF st.stores[s] < amount THEN st.stores[s] ELSE amount

SupplyAfterCapture(st, s, amount) == Less(st.totalSupply, amount)

\* The loop over the stakeholders when the fee exceeds the stream's stake.
ClearHolder(st, s, u) ==
    [st EXCEPT !.balanceOf[u] = Less(@, st.storeBalanceOf[u][s]),
               !.storeBalanceOf[u][s] = 0]

ClearHolders(st, s, holders) == FoldLeft(LAMBDA acc, u : ClearHolder(acc, s, u), st, holders)

CaptureAll(st, s) ==
    [ClearHolders(st, s, st.storeStakeholders[s]) EXCEPT
        !.storeStakeholders[s] = << >>,
        !.stores[s] = 0]

\* The loop over the stakeholders when the stream can pay.  stakeOwnership is
\* an integer division.  When a holder is finished the list is rebuilt by
\* pushing that holder, once for every entry of the list that is another.
ChargeHolder(st, s, amount, holders, u) ==
    LET deduction == (st.storeBalanceOf[u][s] \div st.stores[s]) * amount
        others    == {i \in DOMAIN holders : holders[i] # u}
        charged   == [st EXCEPT !.balanceOf[u] = Less(@, deduction),
                                !.storeBalanceOf[u][s] = Less(@, deduction)]
    IN  IF charged.storeBalanceOf[u][s] = 0
        THEN [charged EXCEPT !.storeStakeholders[s] = [i \in 1 .. Cardinality(others) |-> u]]
        ELSE charged

ChargeHolders(st, s, amount, holders) ==
    FoldLeft(LAMBDA acc, u : ChargeHolder(acc, s, amount, holders, u), st, holders)

CaptureSome(st, s, amount) ==
    [ChargeHolders(st, s, amount, st.storeStakeholders[s]) EXCEPT !.stores[s] = @ - amount]

\* capture(streamId, amount, bytesStored)
Capture(st, s, amount) ==
    [(IF st.stores[s] < amount THEN CaptureAll(st, s) ELSE CaptureSome(st, s, amount))
        EXCEPT !.totalSupply = SupplyAfterCapture(st, s, amount)]

\* Whether capture's requires hold: a staked stream, and tokens to transfer.
CaptureAllowed(st, s, amount, held) ==
    st.stores[s] > 0 /\ Captured(st, s, amount) <= held

\* Whether stake() adds u to the stream's list.
NewHolder(st, u, s) == st.storeBalanceOf[u][s] = 0

\* stake(streamId, amount)
Stake(st, u, s, amount) ==
    [st EXCEPT
        !.stores[s] = @ + amount,
        !.balanceOf[u] = @ + amount,
        !.storeStakeholders[s] = IF NewHolder(st, u, s) THEN Append(@, u) ELSE @,
        !.storeBalanceOf[u][s] = @ + amount,
        !.totalSupply = @ + amount]

=============================================================================

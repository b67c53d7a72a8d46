--------------------------- MODULE NetworkProofs ----------------------------
(***************************************************************************)
(* Proofs about LogStoreNetwork, for every set of addresses, streams, ids  *)
(* and reports: what its four contracts hold and owe together.             *)
(***************************************************************************)
EXTENDS LogStoreNetwork, StoreLedgerProofs

Queries == [balanceOf : [Addresses -> Nat], totalSupply : Nat]

-----------------------------------------------------------------------------
(* Sums over accounts. *)

\* g is f after `amount` went from one account to another.
Transferred(f, g, from, to, amount) ==
    /\ g \in [Accounts -> Nat]
    /\ g[from] = f[from] - amount /\ g[to] = f[to] + amount
    /\ \A a \in Accounts \ {from, to} : g[a] = f[a]
    /\ Sum(g) = Sum(f)

\* A payment leaves the sum of the balances.
LEMMA TransferKeepsSum ==
    ASSUME NEW f \in [Accounts -> Nat], NEW from \in Accounts, NEW to \in Accounts,
           from # to, NEW amount \in Nat, amount <= f[from],
           NEW g, g = [f EXCEPT ![from] = @ - amount, ![to] = @ + amount]
    PROVE  Transferred(f, g, from, to, amount)
  <1> DEFINE h == [f EXCEPT ![from] = @ - amount]
  <1>1. /\ f[from] \in Nat /\ f[to] \in Nat /\ f[from] - amount \in Nat
        /\ f[to] + amount \in Nat
    OBVIOUS
  <1>2. h \in [Accounts -> Nat] /\ g \in [Accounts -> Nat]
    BY <1>1
  <1>3. /\ h[from] = f[from] + (-amount) /\ \A a \in Accounts \ {from} : h[a] = f[a]
        /\ g[to] = h[to] + amount /\ \A a \in Accounts \ {to} : g[a] = h[a]
    BY <1>1
  <1>4. IsFiniteSet(Accounts) /\ -amount \in Int /\ amount \in Int
    BY NetworkAccountsAssumption
  <1> HIDE DEF h
  <1>5. SumGrows(f, h, -amount) /\ SumGrows(h, g, amount)
    BY <1>2, <1>3, <1>4, SumOfChange
  <1>6. Sum(f) \in Nat /\ Sum(h) \in Nat
    BY <1>2, <1>4, SumOfStakes
  <1>7. Sum(g) = Sum(f)
    BY <1>5, <1>6 DEF SumGrows
  <1>8. QED BY <1>1, <1>2, <1>7 DEF Transferred

-----------------------------------------------------------------------------
(* The loops of processReport over the streams and over the consumers.     *)

\* What a loop may come to that began with `held` tokens: the contract still
\* holds what it owes, and what it gave is at most what was billed.
Charged(States, Owed(_), held) ==
    {x \in [state : States, held : Nat, billed : Nat, reverts : BOOLEAN] :
        /\ Owed(x.state) = x.held
        /\ x.held <= held
        /\ held <= x.held + x.billed}
StreamsOwed(state) == Sum(state.stores)
ConsumersOwed(state) == Sum(state.balanceOf)
StreamsChargedFrom(held) == Charged(Storage(Addresses, Streams), StreamsOwed, held)
ConsumersChargedFrom(held) == Charged(Queries, ConsumersOwed, held)

LEMMA StreamCharged ==
    ASSUME NEW held \in Nat, NEW x \in StreamsChargedFrom(held), NEW bill \in Bill(Streams)
    PROVE  ChargeStream(x, bill) \in StreamsChargedFrom(held)
  <1> DEFINE st == x.state
             s == bill.id
             amount == bill.amount
             c == Captured(st, s, amount)
             after == Capture(st, s, amount)
             y == [x EXCEPT !.state = after, !.held = @ - c, !.billed = @ + amount]
  <1>1. /\ x \in [state : Storage(Addresses, Streams), held : Nat, billed : Nat,
                  reverts : BOOLEAN]
        /\ st \in Storage(Addresses, Streams) /\ s \in Streams /\ amount \in Nat
        /\ Sum(st.stores) = x.held /\ x.held <= held /\ held <= x.held + x.billed
    BY DEF StreamsChargedFrom, Charged, StreamsOwed, Bill
  <1>2. IsFiniteSet(Streams)
    BY NetworkAccountsAssumption
  <1>3. CASE bill.bytes = 0
    BY <1>3 DEF ChargeStream
  <1>4. CASE bill.bytes # 0 /\ ~CaptureAllowed(st, s, amount, x.held)
    <2>1. ChargeStream(x, bill) = [x EXCEPT !.reverts = TRUE]
      BY <1>4 DEF ChargeStream
    <2>2. QED BY <1>1, <2>1 DEF StreamsChargedFrom, Charged, StreamsOwed
  <1>5. CASE bill.bytes # 0 /\ CaptureAllowed(st, s, amount, x.held)
    <2>1. ChargeStream(x, bill) = y
      BY <1>1, <1>5 DEF ChargeStream
    <2>2. st.stores[s] > 0 /\ c <= x.held
      BY <1>5 DEF CaptureAllowed
    <2> HIDE DEF st, s, amount
    <2>3. after \in CaptureOf(Addresses, Streams, st, s, amount)
      BY <1>1, <1>2, <2>2, CaptureKeeps
    <2>4. c \in Nat /\ c <= amount /\ SumGrows(st.stores, after.stores, -c)
      BY <1>1, <1>2, <2>2, CaptureSum
    <2> HIDE DEF c, after
    <2>5. after \in Storage(Addresses, Streams)
      BY <2>3 DEF CaptureOf
    <2>6. Sum(after.stores) = x.held - c
      BY <1>1, <2>4 DEF SumGrows
    <2>7. /\ y \in [state : Storage(Addresses, Streams), held : Nat, billed : Nat,
                    reverts : BOOLEAN]
          /\ y.state = after /\ y.held = x.held - c /\ y.billed = x.billed + amount
      <3>1. x.held \in Nat /\ x.billed \in Nat /\ x.held - c \in Nat /\ x.billed + amount \in Nat
        BY <1>1, <2>2, <2>4
      <3>2. y = [x EXCEPT !.state = after, !.held = x.held - c, !.billed = x.billed + amount]
        BY <1>1
      <3> HIDE DEF y
      <3>3. QED BY <1>1, <2>5, <3>1, <3>2
    <2>8. x.held \in Nat /\ x.billed \in Nat
      BY <1>1
    <2> HIDE DEF y
    <2>9. y.held <= held /\ held <= y.held + y.billed
      BY <1>1, <2>4, <2>7, <2>8
    <2>10. QED BY <2>1, <2>6, <2>7, <2>9 DEF StreamsChargedFrom, Charged, StreamsOwed
  <1>6. QED BY <1>3, <1>4, <1>5

\* capture() of the query manager takes from the consumer what it transfers.
LEMMA QueryCaptureKeeps ==
    ASSUME NEW q \in Queries, NEW c \in Addresses, NEW amount \in Nat
    PROVE  /\ Q!QueryCapture(q, c, amount) \in Queries
           /\ Q!QueryCaptured(q, c, amount) \in Nat
           /\ Q!QueryCaptured(q, c, amount) <= amount
           /\ SumGrows(q.balanceOf, Q!QueryCapture(q, c, amount).balanceOf,
                       -Q!QueryCaptured(q, c, amount))
  <1> DEFINE f == q.balanceOf
             captured == Q!QueryCaptured(q, c, amount)
             after == Q!QueryCapture(q, c, amount)
             g == after.balanceOf
  <1>1. f \in [Addresses -> Nat] /\ f[c] \in Nat /\ q.totalSupply \in Nat
    BY DEF Queries
  <1>2. captured \in Nat /\ captured <= amount /\ -captured \in Int
    BY <1>1 DEF Q!QueryCaptured
  <1>3. /\ after.totalSupply \in Nat /\ Q!BalanceAfterQuery(q, c, amount) \in Nat
        /\ Q!BalanceAfterQuery(q, c, amount) = f[c] + (-captured)
    BY <1>1 DEF Q!QueryCapture, Q!QueryCaptured, Q!BalanceAfterQuery
  <1>4. g = [f EXCEPT ![c] = Q!BalanceAfterQuery(q, c, amount)]
    BY DEF Q!QueryCapture
  <1>5. after = [balanceOf |-> g, totalSupply |-> after.totalSupply]
    BY DEF Q!QueryCapture
  <1> HIDE DEF f, captured, after, g
  <1>6. /\ g \in [Addresses -> Nat] /\ g[c] = f[c] + (-captured)
        /\ \A a \in Addresses \ {c} : g[a] = f[a]
    BY <1>1, <1>3, <1>4
  <1>7. IsFiniteSet(Addresses)
    BY NetworkAccountsAssumption, FS_Subset
  <1>8. SumGrows(f, g, -captured)
    BY <1>1, <1>2, <1>6, <1>7, SumOfChange
  <1>9. after \in Queries
    BY <1>3, <1>5, <1>6 DEF Queries
  <1>10. QED BY <1>2, <1>8, <1>9 DEF f, captured, after, g

LEMMA ConsumerCharged ==
    ASSUME NEW held \in Nat, NEW x \in ConsumersChargedFrom(held),
           NEW bill \in Bill(Addresses)
    PROVE  ChargeConsumer(x, bill) \in ConsumersChargedFrom(held)
  <1> DEFINE q == x.state
             c == bill.id
             amount == bill.amount
             captured == Q!QueryCaptured(q, c, amount)
             after == Q!QueryCapture(q, c, amount)
             y == [x EXCEPT !.state = after, !.held = @ - captured, !.billed = @ + amount]
  <1>1. /\ x \in [state : Queries, held : Nat, billed : Nat, reverts : BOOLEAN]
        /\ q \in Queries /\ c \in Addresses /\ amount \in Nat
        /\ Sum(q.balanceOf) = x.held /\ x.held <= held /\ held <= x.held + x.billed
    BY DEF ConsumersChargedFrom, Charged, ConsumersOwed, Bill
  <1>3. CASE bill.bytes = 0
    BY <1>3 DEF ChargeConsumer
  <1>4. CASE bill.bytes # 0 /\ ~Q!QueryAllowed(q, c, amount, x.held)
    <2>1. ChargeConsumer(x, bill) = [x EXCEPT !.reverts = TRUE]
      BY <1>4 DEF ChargeConsumer
    <2>2. QED BY <1>1, <2>1 DEF ConsumersChargedFrom, Charged, ConsumersOwed
  <1>5. CASE bill.bytes # 0 /\ Q!QueryAllowed(q, c, amount, x.held)
    <2>1. ChargeConsumer(x, bill) = y
      BY <1>1, <1>5 DEF ChargeConsumer
    <2>2. captured <= x.held
      BY <1>5 DEF Q!QueryAllowed
    <2> HIDE DEF q, c, amount
    <2>4. /\ captured \in Nat /\ captured <= amount /\ after \in Queries
          /\ SumGrows(q.balanceOf, after.balanceOf, -captured)
      BY <1>1, QueryCaptureKeeps
    <2> HIDE DEF captured, after
    <2>6. Sum(after.balanceOf) = x.held - captured
      BY <1>1, <2>4 DEF SumGrows
    <2>7. /\ y \in [state : Queries, held : Nat, billed : Nat, reverts : BOOLEAN]
          /\ y.state = after /\ y.held = x.held - captured /\ y.billed = x.billed + amount
      <3>1. /\ x.held \in Nat /\ x.billed \in Nat /\ x.held - captured \in Nat
            /\ x.billed + amount \in Nat
        BY <1>1, <2>2, <2>4
      <3>2. y = [x EXCEPT !.state = after, !.held = x.held - captured,
                          !.billed = x.billed + amount]
        BY <1>1
      <3> HIDE DEF y
      <3>3. QED BY <1>1, <2>4, <3>1, <3>2
    <2>8. x.held \in Nat /\ x.billed \in Nat
      BY <1>1
    <2> HIDE DEF y
    <2>9. y.held <= held /\ held <= y.held + y.billed
      BY <1>1, <2>4, <2>7, <2>8
    <2>10. QED BY <2>1, <2>6, <2>7, <2>9 DEF ConsumersChargedFrom, Charged, ConsumersOwed
  <1>6. QED BY <1>3, <1>4, <1>5

LEMMA StreamsLoop ==
    ASSUME NEW held \in Nat, NEW start \in StreamsChargedFrom(held),
           NEW bills \in Seq(Bill(Streams))
    PROVE  FoldLeft(ChargeStream, start, bills) \in StreamsChargedFrom(held)
  <1> DEFINE D == StreamsChargedFrom(held)
             n == Len(bills)
             step == [p \in (1 .. n) \X D |-> ChargeStream(p[2], bills[p[1]])]
             Loop(g) == g = [r \in SUBSET (1 .. n) |->
                                IF r = {} THEN start
                                ELSE ChargeStream(g[r \ {Max(r)}], bills[Max(r)])]
             h == CHOOSE g : Loop(g)
             run == [i \in 0 .. n |-> h[1 .. i]]
  <1>1. n \in Nat /\ DOMAIN bills = 1 .. n /\ \A i \in 1 .. n : bills[i] \in Bill(Streams)
    OBVIOUS
  <1>2. \A i \in 1 .. n, x \in D : ChargeStream(x, bills[i]) \in D
    BY <1>1, StreamCharged
  <1>3. \A i \in 1 .. n, x \in D :
            step[<<i, x>>] \in D /\ step[<<i, x>>] = ChargeStream(x, bills[i])
    BY <1>2
  <1>4. start \in D
    OBVIOUS
  <1> HIDE DEF D, step, n
  <1>5. \E g : Loop(g)
    <2>1. PICK g : LoopRecurs(g, n, D, start, step)
      BY <1>1, <1>3, <1>4, LoopRecursion
    <2>2. \A r \in SUBSET (1 .. n) :
            g[r] = IF r = {} THEN start
                   ELSE ChargeStream(g[r \ {Max(r)}], bills[Max(r)])
      BY <1>3, <2>1 DEF LoopRecurs
    <2>3. Loop(g)
      BY <2>1, <2>2 DEF LoopRecurs
    <2>4. QED BY <2>3
  <1>6. Loop(h)
    <2> HIDE DEF Loop
    <2> QED BY <1>5, Zenon
  <1>7. FoldLeft(ChargeStream, start, bills) = h[1 .. n]
    BY <1>1 DEF FoldLeft, MapThenFoldSet
  <1> HIDE DEF h
  <1>8. run[0] \in D
    BY <1>1, <1>4, <1>6
  <1>9. ASSUME NEW i \in 1 .. n, run[i - 1] \in D PROVE run[i] \in D
    <2> DEFINE r == 1 .. i
    <2>1. /\ r \in SUBSET (1 .. n) /\ r # {} /\ Max(r) = i
          /\ r \ {i} = 1 .. (i - 1)
      BY <1>1, PrefixMax
    <2>2. h[r] = ChargeStream(h[r \ {Max(r)}], bills[Max(r)])
      <3> HIDE DEF r
      <3> QED BY <1>6, <2>1
    <2>3. i - 1 \in 0 .. n /\ i \in 0 .. n
      BY <1>1
    <2>4. QED BY <1>2, <1>9, <2>1, <2>2, <2>3
  <1>10. run[n] \in D
    <2> HIDE DEF run
    <2>1. \A i \in 0 .. n : run[i] \in D
      BY <1>1, <1>8, <1>9, LoopInvariant
    <2>2. QED BY <1>1, <2>1
  <1>11. QED BY <1>1, <1>7, <1>10 DEF D

LEMMA ConsumersLoop ==
    ASSUME NEW held \in Nat, NEW start \in ConsumersChargedFrom(held),
           NEW bills \in Seq(Bill(Addresses))
    PROVE  FoldLeft(ChargeConsumer, start, bills) \in ConsumersChargedFrom(held)
  <1> DEFINE D == ConsumersChargedFrom(held)
             n == Len(bills)
             step == [p \in (1 .. n) \X D |-> ChargeConsumer(p[2], bills[p[1]])]
             Loop(g) == g = [r \in SUBSET (1 .. n) |->
                                IF r = {} THEN start
                                ELSE ChargeConsumer(g[r \ {Max(r)}], bills[Max(r)])]
             h == CHOOSE g : Loop(g)
             run == [i \in 0 .. n |-> h[1 .. i]]
  <1>1. n \in Nat /\ DOMAIN bills = 1 .. n /\ \A i \in 1 .. n : bills[i] \in Bill(Addresses)
    OBVIOUS
  <1>2. \A i \in 1 .. n, x \in D : ChargeConsumer(x, bills[i]) \in D
    BY <1>1, ConsumerCharged
  <1>3. \A i \in 1 .. n, x \in D :
            step[<<i, x>>] \in D /\ step[<<i, x>>] = ChargeConsumer(x, bills[i])
    BY <1>2
  <1>4. start \in D
    OBVIOUS
  <1> HIDE DEF D, step, n
  <1>5. \E g : Loop(g)
    <2>1. PICK g : LoopRecurs(g, n, D, start, step)
      BY <1>1, <1>3, <1>4, LoopRecursion
    <2>2. \A r \in SUBSET (1 .. n) :
            g[r] = IF r = {} THEN start
                   ELSE ChargeConsumer(g[r \ {Max(r)}], bills[Max(r)])
      BY <1>3, <2>1 DEF LoopRecurs
    <2>3. Loop(g)
      BY <2>1, <2>2 DEF LoopRecurs
    <2>4. QED BY <2>3
  <1>6. Loop(h)
    <2> HIDE DEF Loop
    <2> QED BY <1>5, Zenon
  <1>7. FoldLeft(ChargeConsumer, start, bills) = h[1 .. n]
    BY <1>1 DEF FoldLeft, MapThenFoldSet
  <1> HIDE DEF h
  <1>8. run[0] \in D
    BY <1>1, <1>4, <1>6
  <1>9. ASSUME NEW i \in 1 .. n, run[i - 1] \in D PROVE run[i] \in D
    <2> DEFINE r == 1 .. i
    <2>1. /\ r \in SUBSET (1 .. n) /\ r # {} /\ Max(r) = i
          /\ r \ {i} = 1 .. (i - 1)
      BY <1>1, PrefixMax
    <2>2. h[r] = ChargeConsumer(h[r \ {Max(r)}], bills[Max(r)])
      <3> HIDE DEF r
      <3> QED BY <1>6, <2>1
    <2>3. i - 1 \in 0 .. n /\ i \in 0 .. n
      BY <1>1
    <2>4. QED BY <1>2, <1>9, <2>1, <2>2, <2>3
  <1>10. run[n] \in D
    <2> HIDE DEF run
    <2>1. \A i \in 0 .. n : run[i] \in D
      BY <1>1, <1>8, <1>9, LoopInvariant
    <2>2. QED BY <1>1, <2>1
  <1>11. QED BY <1>1, <1>7, <1>10 DEF D

\* Without a bill the loop comes to what it began with.
LEMMA NoStreamCharged ==
    ASSUME NEW start PROVE FoldLeft(ChargeStream, start, << >>) = start
  <1> DEFINE Loop(g) == g = [r \in SUBSET {} |->
                                IF r = {} THEN start
                                ELSE ChargeStream(g[r \ {Max(r)}], << >>[Max(r)])]
             h == CHOOSE g : Loop(g)
  <1>1. Loop([r \in SUBSET {} |-> start])
    OBVIOUS
  <1>2. Loop(h)
    <2> HIDE DEF Loop
    <2> QED BY <1>1, Zenon
  <1>3. DOMAIN << >> = {}
    OBVIOUS
  <1>4. FoldLeft(ChargeStream, start, << >>) = h[{}]
    BY <1>3 DEF FoldLeft, MapThenFoldSet
  <1> HIDE DEF h
  <1>5. QED BY <1>2, <1>4

\* Without a bill the loop comes to what it began with.
LEMMA NoConsumerCharged ==
    ASSUME NEW start PROVE FoldLeft(ChargeConsumer, start, << >>) = start
  <1> DEFINE Loop(g) == g = [r \in SUBSET {} |->
                                IF r = {} THEN start
                                ELSE ChargeConsumer(g[r \ {Max(r)}], << >>[Max(r)])]
             h == CHOOSE g : Loop(g)
  <1>1. Loop([r \in SUBSET {} |-> start])
    OBVIOUS
  <1>2. Loop(h)
    <2> HIDE DEF Loop
    <2> QED BY <1>1, Zenon
  <1>3. DOMAIN << >> = {}
    OBVIOUS
  <1>4. FoldLeft(ChargeConsumer, start, << >>) = h[{}]
    BY <1>3 DEF FoldLeft, MapThenFoldSet
  <1> HIDE DEF h
  <1>5. QED BY <1>2, <1>4

-----------------------------------------------------------------------------
(* The inductive invariant. *)

\* A report with a content was made, at a height.
ReportsMade ==
    /\ reports \in [Ids -> [height : Nat, content : Contents \cup {NoContent},
                            reporter : Addresses \cup {NoAddress}, processed : BOOLEAN]]
    /\ \A id \in Ids : reports[id].content # NoContent => reports[id].height > 0

\* What the node manager owes and holds is typed.
LedgerTyped ==
    /\ tokens \in [Accounts -> Nat]
    /\ totalSupply \in Nat
    /\ balanceOf \in [Addresses -> Nat]
    /\ delegatesOf \in [Addresses -> [Addresses -> Nat]]

NetworkInv ==
    /\ ReportsMade
    /\ LedgerTyped
    /\ store \in Storage(Addresses, Streams)
    /\ query \in Queries
    /\ CustodyExact

\* The accounts of the contracts, apart.
LEMMA ContractAccounts ==
    /\ {NodeManagerAccount, OwnerAccount, StoreManagerAccount, QueryManagerAccount}
            \subseteq Accounts
    /\ Addresses \subseteq Accounts
    /\ NodeManagerAccount \notin {StoreManagerAccount, QueryManagerAccount}
    /\ StoreManagerAccount # QueryManagerAccount
    /\ OwnerAccount \notin {NodeManagerAccount, StoreManagerAccount, QueryManagerAccount}
    /\ \A u \in Addresses :
            u \notin {NodeManagerAccount, StoreManagerAccount, QueryManagerAccount}
    /\ IsFiniteSet(Addresses) /\ IsFiniteSet(Streams)
  BY NetworkAccountsAssumption, FS_Subset

-----------------------------------------------------------------------------
(* The transactions of the node manager alone. *)

\* The node manager's tokens and its supply move together, and the tokens of
\* the other contracts do not.
SupplyFollowsTokens ==
    /\ tokens' \in [Accounts -> Nat]
    /\ totalSupply' \in Nat
    /\ Sum(tokens') = Sum(tokens)
    /\ tokens'[StoreManagerAccount] = tokens[StoreManagerAccount]
    /\ tokens'[QueryManagerAccount] = tokens[QueryManagerAccount]
    /\ totalSupply' - totalSupply = tokens'[NodeManagerAccount] - tokens[NodeManagerAccount]

LEMMA DepositMoves ==
    ASSUME LedgerTyped, NEW u \in Addresses, NEW amount \in Nat, M!Deposit(u, amount)
    PROVE  SupplyFollowsTokens
  <1>1. /\ tokens[u] >= amount /\ totalSupply' = totalSupply + amount
        /\ tokens' = [tokens EXCEPT ![u] = @ - amount, ![NodeManagerAccount] = @ + amount]
    BY DEF M!Deposit, M!Pay
  <1>2. tokens \in [Accounts -> Nat] /\ totalSupply \in Nat
    BY DEF LedgerTyped
  <1>3. u \in Accounts /\ NodeManagerAccount \in Accounts /\ u # NodeManagerAccount
    BY ContractAccounts
  <1>4. amount <= tokens[u]
    BY <1>1, <1>2, <1>3
  <1>5. Transferred(tokens, tokens', u, NodeManagerAccount, amount)
    BY <1>1, <1>2, <1>3, <1>4, TransferKeepsSum
  <1>6. {StoreManagerAccount, QueryManagerAccount} \subseteq Accounts \ {u, NodeManagerAccount}
    BY ContractAccounts
  <1>7. /\ totalSupply' \in Nat
        /\ totalSupply' - totalSupply = tokens'[NodeManagerAccount] - tokens[NodeManagerAccount]
    BY <1>1, <1>2, <1>3, <1>5 DEF Transferred
  <1>8. QED BY <1>5, <1>6, <1>7 DEF SupplyFollowsTokens, Transferred

LEMMA PayOutMoves ==
    ASSUME LedgerTyped, NEW to \in Addresses \cup {OwnerAccount}, NEW amount \in Nat,
           M!PayOut(to, amount)
    PROVE  SupplyFollowsTokens
  <1>1. /\ tokens[NodeManagerAccount] >= amount
        /\ totalSupply >= amount /\ totalSupply' = totalSupply - amount
        /\ tokens' = [tokens EXCEPT ![NodeManagerAccount] = @ - amount, ![to] = @ + amount]
    BY DEF M!PayOut, M!Pay, M!SupplyAfterPayout
  <1>2. tokens \in [Accounts -> Nat] /\ totalSupply \in Nat
    BY DEF LedgerTyped
  <1>3. to \in Accounts /\ NodeManagerAccount \in Accounts /\ NodeManagerAccount # to
    BY ContractAccounts
  <1>4. amount <= tokens[NodeManagerAccount]
    BY <1>1, <1>2, <1>3
  <1>5. Transferred(tokens, tokens', NodeManagerAccount, to, amount)
    BY <1>1, <1>2, <1>3, <1>4, TransferKeepsSum
  <1>6. {StoreManagerAccount, QueryManagerAccount} \subseteq Accounts \ {to, NodeManagerAccount}
    BY ContractAccounts
  <1>7. /\ totalSupply' \in Nat
        /\ totalSupply' - totalSupply = tokens'[NodeManagerAccount] - tokens[NodeManagerAccount]
    BY <1>1, <1>2, <1>3, <1>5 DEF Transferred
  <1>8. QED BY <1>5, <1>6, <1>7 DEF SupplyFollowsTokens, Transferred

\* Neither moves.
LEMMA NothingMoves ==
    ASSUME LedgerTyped, UNCHANGED <<tokens, totalSupply>>
    PROVE  SupplyFollowsTokens
  BY ContractAccounts DEF LedgerTyped, SupplyFollowsTokens

\* The free balances and the delegations stay typed.
BalancesTyped ==
    balanceOf' \in [Addresses -> Nat] /\ delegatesOf' \in [Addresses -> [Addresses -> Nat]]

LEMMA RedelegateTyped ==
    ASSUME LedgerTyped, NEW u \in Addresses, NEW n \in Addresses,
           NEW balanceChange \in Int, NEW change \in Int,
           balanceOf[u] + balanceChange >= 0, delegatesOf[u][n] + change >= 0,
           M!Redelegate(u, n, balanceChange, change)
    PROVE  BalancesTyped
  <1>1. /\ balanceOf \in [Addresses -> Nat]
        /\ delegatesOf \in [Addresses -> [Addresses -> Nat]]
        /\ balanceOf' = [balanceOf EXCEPT ![u] = @ + balanceChange]
        /\ delegatesOf' = [delegatesOf EXCEPT ![u][n] = @ + change]
    BY DEF LedgerTyped, M!Redelegate
  <1>2. balanceOf[u] + balanceChange \in Nat /\ delegatesOf[u][n] + change \in Nat
    BY <1>1
  <1>3. QED BY <1>1, <1>2 DEF BalancesTyped

LEMMA ManagerMoves ==
    ASSUME LedgerTyped, M!StakeNext
    PROVE  SupplyFollowsTokens /\ BalancesTyped
  <1> USE NetworkAmountsAssumption
  <1>1. CASE M!RegistryOnlyTx
    <2>1. UNCHANGED <<tokens, totalSupply, balanceOf, delegatesOf>>
      BY <1>1 DEF M!RegistryOnlyTx, M!stakeVars
    <2>2. QED BY <2>1, NothingMoves DEF LedgerTyped, BalancesTyped
  <1>2. ASSUME NEW u \in Addresses, M!LeaveTx(u)
        PROVE  SupplyFollowsTokens /\ BalancesTyped
    <2>1. M!LeaveAmount(u) \in Nat
      BY DEF M!LeaveAmount, LedgerTyped
    <2>2. SupplyFollowsTokens
      BY <1>2, <2>1, PayOutMoves DEF M!LeaveTx
    <2>3. BalancesTyped
      BY <1>2 DEF M!LeaveTx, LedgerTyped, BalancesTyped
    <2>4. QED BY <2>2, <2>3
  <1>3. ASSUME NEW u \in Addresses, M!RemoveNodeTx(u) \/ M!KickNodeTx(u)
        PROVE  SupplyFollowsTokens /\ BalancesTyped
    <2>1. UNCHANGED <<tokens, totalSupply, balanceOf, delegatesOf>>
      BY <1>3 DEF M!RemoveNodeTx, M!KickNodeTx
    <2>2. QED BY <2>1, NothingMoves DEF LedgerTyped, BalancesTyped
  <1>4. ASSUME NEW u \in Addresses, NEW amount \in Amounts, M!StakeTx(u, amount)
        PROVE  SupplyFollowsTokens /\ BalancesTyped
    <2>1. SupplyFollowsTokens
      BY <1>4, DepositMoves DEF M!StakeTx
    <2>2. /\ delegatesOf' = delegatesOf /\ amount \in Nat
          /\ balanceOf' = [balanceOf EXCEPT ![u] = @ + amount]
      BY <1>4 DEF M!StakeTx
    <2>3. BalancesTyped
      BY <2>2 DEF LedgerTyped, BalancesTyped
    <2>4. QED BY <2>1, <2>3
  <1>5. ASSUME NEW u \in Addresses, NEW amount \in Amounts, M!WithdrawTx(u, amount)
        PROVE  SupplyFollowsTokens /\ BalancesTyped
    <2>1. SupplyFollowsTokens
      BY <1>5, PayOutMoves DEF M!WithdrawTx
    <2>2. BalancesTyped
      BY <1>5 DEF M!WithdrawTx, M!HasBalance, LedgerTyped, BalancesTyped
    <2>3. QED BY <2>1, <2>2
  <1>6. ASSUME NEW u \in Addresses, NEW amount \in Amounts, M!JoinTx(u, amount)
        PROVE  SupplyFollowsTokens /\ BalancesTyped
    <2>1. SupplyFollowsTokens
      BY <1>6, DepositMoves DEF M!JoinTx
    <2>2. delegatesOf' \in [Addresses -> [Addresses -> Nat]]
      BY <1>6 DEF M!JoinTx, LedgerTyped
    <2>3. balanceOf' = balanceOf
      BY <1>6 DEF M!JoinTx
    <2>4. QED BY <2>1, <2>2, <2>3 DEF LedgerTyped, BalancesTyped
  <1>7. ASSUME NEW u \in Addresses, NEW n \in Addresses, NEW amount \in Amounts,
               M!DelegateTx(u, n, amount) \/ M!UndelegateTx(u, n, amount)
        PROVE  SupplyFollowsTokens /\ BalancesTyped
    <2>1. UNCHANGED <<tokens, totalSupply>>
      BY <1>7 DEF M!DelegateTx, M!UndelegateTx
    <2>2. /\ amount \in Int /\ -amount \in Int /\ amount >= 0
          /\ balanceOf[u] \in Nat /\ delegatesOf[u][n] \in Nat
      BY DEF LedgerTyped
    <2>3. CASE M!DelegateTx(u, n, amount)
      <3>1. balanceOf[u] + (-amount) >= 0 /\ delegatesOf[u][n] + amount >= 0
        BY <2>2, <2>3 DEF M!DelegateTx, M!HasBalance
      <3>2. BalancesTyped
        BY <2>2, <2>3, <3>1, RedelegateTyped DEF M!DelegateTx
      <3>3. QED BY <2>1, <3>2, NothingMoves
    <2>4. CASE M!UndelegateTx(u, n, amount)
      <3>1. balanceOf[u] + amount >= 0 /\ delegatesOf[u][n] + (-amount) >= 0
        BY <2>2, <2>4 DEF M!UndelegateTx, M!CanUndelegate
      <3>2. BalancesTyped
        BY <2>2, <2>4, <3>1, RedelegateTyped DEF M!UndelegateTx
      <3>3. QED BY <2>1, <3>2, NothingMoves
    <2>5. QED BY <1>7, <2>3, <2>4
  <1>8. ASSUME NEW u \in Addresses, NEW n \in Addresses, NEW amount \in Amounts,
               M!StakeAndDelegateTx(u, n, amount)
        PROVE  SupplyFollowsTokens /\ BalancesTyped
    <2>1. SupplyFollowsTokens
      BY <1>8, DepositMoves DEF M!StakeAndDelegateTx
    <2>2. /\ amount \in Int /\ 0 \in Int
          /\ balanceOf[u] + 0 >= 0 /\ delegatesOf[u][n] + amount >= 0
      BY DEF LedgerTyped
    <2>3. BalancesTyped
      BY <1>8, <2>2, RedelegateTyped DEF M!StakeAndDelegateTx
    <2>4. QED BY <2>1, <2>3
  <1>9. ASSUME NEW u \in Addresses, NEW n \in Addresses, NEW amount \in Amounts,
               M!UndelegateWithdrawTx(u, n, amount)
        PROVE  SupplyFollowsTokens /\ BalancesTyped
    <2>1. SupplyFollowsTokens
      BY <1>9, PayOutMoves DEF M!UndelegateWithdrawTx
    <2>2. /\ -amount \in Int /\ 0 \in Int
          /\ balanceOf[u] + 0 >= 0 /\ delegatesOf[u][n] + (-amount) >= 0
      BY <1>9 DEF M!UndelegateWithdrawTx, M!CanUndelegate, LedgerTyped
    <2>3. BalancesTyped
      BY <1>9, <2>2, RedelegateTyped DEF M!UndelegateWithdrawTx
    <2>4. QED BY <2>1, <2>3
  <1>10. ASSUME NEW amount \in Amounts, M!TreasuryWithdrawTx(amount)
         PROVE  SupplyFollowsTokens /\ BalancesTyped
    <2>1. SupplyFollowsTokens
      BY <1>10, PayOutMoves DEF M!TreasuryWithdrawTx
    <2>2. BalancesTyped
      BY <1>10 DEF M!TreasuryWithdrawTx, LedgerTyped, BalancesTyped
    <2>3. QED BY <2>1, <2>2
  <1>11. QED BY <1>1, <1>2, <1>3, <1>4, <1>5, <1>6, <1>7, <1>8, <1>9, <1>10 DEF M!StakeNext

-----------------------------------------------------------------------------
(* The steps. *)

\* A transaction of the node manager alone.
LEMMA ManagerStep == ASSUME NetworkInv, ManagerTx PROVE NetworkInv'
  <1>1. M!StakeNext /\ UNCHANGED <<clientVars, reporterVars>>
    BY DEF ManagerTx
  <1>2. SupplyFollowsTokens /\ BalancesTyped
    BY <1>1, ManagerMoves DEF NetworkInv
  <1>3. LedgerTyped'
    BY <1>2 DEF SupplyFollowsTokens, BalancesTyped, LedgerTyped
  <1>4. tokens[NodeManagerAccount] \in Nat /\ tokens'[NodeManagerAccount] \in Nat
    BY <1>2, ContractAccounts DEF NetworkInv, LedgerTyped, SupplyFollowsTokens
  <1>5. CustodyExact'
    <2>1. tokens'[NodeManagerAccount] <= totalSupply'
      BY <1>2, <1>4 DEF NetworkInv, LedgerTyped, CustodyExact, SupplyFollowsTokens
    <2>2. QED BY <1>1, <1>2, <2>1
          DEF NetworkInv, CustodyExact, SupplyFollowsTokens, clientVars
  <1>6. ReportsMade' /\ store' = store /\ query' = query
    BY <1>1 DEF NetworkInv, ReportsMade, clientVars, reporterVars
  <1>7. QED BY <1>3, <1>5, <1>6 DEF NetworkInv

\* A stake on a stream moves as many tokens to the store manager.
LEMMA StoreStakeStep ==
    ASSUME NetworkInv, NEW u \in Addresses, NEW s \in Streams, NEW amount \in FeeAmounts,
           StoreStake(u, s, amount)
    PROVE  NetworkInv'
  <1>1. /\ amount \in Nat /\ tokens[u] >= amount
        /\ store' = Stake(store, u, s, amount)
        /\ tokens' = [tokens EXCEPT ![u] = @ - amount, ![StoreManagerAccount] = @ + amount]
        /\ UNCHANGED <<query, reporterVars, ledgerVars>>
    BY NetworkAmountsAssumption DEF StoreStake, S!StoreStakeTx, S!Stake, S!NewHolder, Stake, NewHolder
  <1>2. /\ tokens \in [Accounts -> Nat] /\ store \in Storage(Addresses, Streams)
        /\ IsFiniteSet(Streams)
    BY ContractAccounts DEF NetworkInv, LedgerTyped
  <1>3. /\ u \in Accounts /\ StoreManagerAccount \in Accounts /\ u # StoreManagerAccount
        /\ {NodeManagerAccount, QueryManagerAccount}
                \subseteq Accounts \ {u, StoreManagerAccount}
    BY ContractAccounts
  <1>4. amount <= tokens[u]
    BY <1>1, <1>2, <1>3
  <1>5. Transferred(tokens, tokens', u, StoreManagerAccount, amount)
    BY <1>1, <1>2, <1>3, <1>4, TransferKeepsSum
  <1>6. /\ store' \in Storage(Addresses, Streams)
        /\ SumGrows(store.stores, store'.stores, amount)
    BY <1>1, <1>2, StakeKeeps
  <1>7. Sum(store'.stores) = tokens'[StoreManagerAccount]
    BY <1>5, <1>6 DEF SumGrows, Transferred, NetworkInv, CustodyExact
  <1>8. CustodyExact'
    BY <1>1, <1>3, <1>5, <1>7 DEF NetworkInv, CustodyExact, Transferred, ledgerVars
  <1>9. LedgerTyped'
    BY <1>1, <1>5 DEF NetworkInv, LedgerTyped, Transferred, ledgerVars
  <1>10. ReportsMade' /\ query' = query
    BY <1>1 DEF NetworkInv, ReportsMade, reporterVars
  <1>11. QED BY <1>6, <1>8, <1>9, <1>10 DEF NetworkInv

\* A consumer's stake moves as many tokens to the query manager.
LEMMA QueryStakeStep ==
    ASSUME NetworkInv, NEW u \in Addresses, NEW amount \in FeeAmounts, QueryStake(u, amount)
    PROVE  NetworkInv'
  <1>1. /\ amount \in Nat /\ tokens[u] >= amount
        /\ query' = [balanceOf |-> [query.balanceOf EXCEPT ![u] = @ + amount],
                     totalSupply |-> query.totalSupply + amount]
        /\ tokens' = [tokens EXCEPT ![u] = @ - amount, ![QueryManagerAccount] = @ + amount]
        /\ UNCHANGED <<store, reporterVars, ledgerVars>>
    BY NetworkAmountsAssumption DEF QueryStake, Q!QueryStakeTx
  <1>2. /\ tokens \in [Accounts -> Nat] /\ IsFiniteSet(Addresses)
        /\ query.balanceOf \in [Addresses -> Nat] /\ query.totalSupply \in Nat
    BY ContractAccounts DEF NetworkInv, LedgerTyped, Queries
  <1>3. /\ u \in Accounts /\ QueryManagerAccount \in Accounts /\ u # QueryManagerAccount
        /\ {NodeManagerAccount, StoreManagerAccount}
                \subseteq Accounts \ {u, QueryManagerAccount}
    BY ContractAccounts
  <1>4. amount <= tokens[u]
    BY <1>1, <1>2, <1>3
  <1>5. Transferred(tokens, tokens', u, QueryManagerAccount, amount)
    BY <1>1, <1>2, <1>3, <1>4, TransferKeepsSum
  <1>6. query' \in Queries /\ SumGrows(query.balanceOf, query'.balanceOf, amount)
    <2> DEFINE f == query.balanceOf
               g == query'.balanceOf
    <2>1. /\ f \in [Addresses -> Nat] /\ g \in [Addresses -> Nat]
          /\ g[u] = f[u] + amount /\ \A a \in Addresses \ {u} : g[a] = f[a]
          /\ amount \in Int
      BY <1>1, <1>2
    <2>2. query' \in Queries
      BY <1>1, <1>2, <2>1 DEF Queries
    <2> HIDE DEF f, g
    <2>3. SumGrows(f, g, amount)
      BY <1>2, <2>1, SumOfChange
    <2>4. QED BY <2>2, <2>3 DEF f, g
  <1>7. Sum(query'.balanceOf) = tokens'[QueryManagerAccount]
    BY <1>5, <1>6 DEF SumGrows, Transferred, NetworkInv, CustodyExact
  <1>8. CustodyExact'
    BY <1>1, <1>3, <1>5, <1>7 DEF NetworkInv, CustodyExact, Transferred, ledgerVars
  <1>9. LedgerTyped'
    BY <1>1, <1>5 DEF NetworkInv, LedgerTyped, Transferred, ledgerVars
  <1>10. ReportsMade' /\ store' = store
    BY <1>1 DEF NetworkInv, ReportsMade, reporterVars
  <1>11. QED BY <1>6, <1>8, <1>9, <1>10 DEF NetworkInv

\* The report that is processed bills streams and consumers, or nothing.
LEMMA ContentBills ==
    ASSUME NetworkInv, NEW id \in Ids
    PROVE  /\ ContentOf(id).streams \in Seq(Bill(Streams))
           /\ ContentOf(id).consumers \in Seq(Bill(Addresses))
           /\ \A d \in DOMAIN ContentOf(id).delegates : ContentOf(id).delegates[d] \in Int
  <1>1. CASE reports[id].content = NoContent
    BY <1>1 DEF ContentOf, EmptyContent
  <1>2. CASE reports[id].content # NoContent
    <2>1. ContentOf(id) = reports[id].content /\ ContentOf(id) \in Contents
      BY <1>2 DEF ContentOf, NetworkInv, ReportsMade
    <2>2. QED BY <2>1, ContentsBill
  <1>3. QED BY <1>1, <1>2

\* What both loops come to.
LEMMA ContentCharged ==
    ASSUME NetworkInv, NEW id \in Ids
    PROVE  /\ StreamsCharged(ContentOf(id)) \in StreamsChargedFrom(tokens[StoreManagerAccount])
           /\ ConsumersCharged(ContentOf(id))
                    \in ConsumersChargedFrom(tokens[QueryManagerAccount])
  <1>1. tokens[StoreManagerAccount] \in Nat /\ tokens[QueryManagerAccount] \in Nat
    BY ContractAccounts DEF NetworkInv, LedgerTyped
  <1>2. Uncharged(store, StoreManagerAccount) \in StreamsChargedFrom(tokens[StoreManagerAccount])
    BY <1>1 DEF Uncharged, StreamsChargedFrom, Charged, StreamsOwed, NetworkInv, CustodyExact
  <1>3. Uncharged(query, QueryManagerAccount) \in ConsumersChargedFrom(tokens[QueryManagerAccount])
    BY <1>1 DEF Uncharged, ConsumersChargedFrom, Charged, ConsumersOwed, NetworkInv, CustodyExact
  <1>4. QED BY <1>1, <1>2, <1>3, ContentBills, StreamsLoop, ConsumersLoop
        DEF StreamsCharged, ConsumersCharged

\* What is captured arrives at the node manager and is at most what it books.
LEMMA ProcessStep ==
    ASSUME NetworkInv, NEW u \in Addresses, NEW id \in Ids, ProcessTx(u, id)
    PROVE  NetworkInv'
  <1> DEFINE c == ContentOf(id)
             streams == StreamsCharged(c)
             consumers == ConsumersCharged(c)
             fromStreams == tokens[StoreManagerAccount] - streams.held
             fromConsumers == tokens[QueryManagerAccount] - consumers.held
             middle == [tokens EXCEPT ![StoreManagerAccount] = @ - fromStreams,
                                      ![NodeManagerAccount] = @ + fromStreams]
             effect == [id |-> id, nodes |-> c.nodes, delegates |-> c.delegates,
                        treasury |-> c.treasury, captured |-> fromStreams + fromConsumers,
                        billed |-> streams.billed + consumers.billed]
  <1>1. /\ store' = streams.state /\ query' = consumers.state
        /\ tokens' = [tokens EXCEPT ![StoreManagerAccount] = streams.held,
                                    ![QueryManagerAccount] = consumers.held,
                                    ![NodeManagerAccount] = @ + (fromStreams + fromConsumers)]
        /\ R!MarkProcessed(id)
        /\ M!ReportEffects(u, effect)
    BY DEF ProcessTx
  <1>2. /\ streams \in StreamsChargedFrom(tokens[StoreManagerAccount])
        /\ consumers \in ConsumersChargedFrom(tokens[QueryManagerAccount])
        /\ \A d \in DOMAIN c.delegates : c.delegates[d] \in Int
    BY ContentCharged, ContentBills
  <1>3. /\ totalSupply' = totalSupply + (streams.billed + consumers.billed)
        /\ balanceOf' = balanceOf
        /\ delegatesOf' = [v \in Addresses |-> [n \in Addresses |->
                IF <<v, n>> \in DOMAIN c.delegates
                THEN M!AtLeastZero(delegatesOf[v][n] + c.delegates[<<v, n>>])
                ELSE delegatesOf[v][n]]]
    BY <1>1 DEF M!ReportEffects, M!ApplyReport
  <1>4. reports' = [reports EXCEPT ![id].processed = TRUE]
    BY <1>1 DEF R!MarkProcessed
  <1> HIDE DEF c, streams, consumers
  <1>5. /\ tokens \in [Accounts -> Nat] /\ totalSupply \in Nat
        /\ tokens[NodeManagerAccount] \in Nat
        /\ tokens[StoreManagerAccount] \in Nat /\ tokens[QueryManagerAccount] \in Nat
        /\ tokens[NodeManagerAccount] <= totalSupply
    BY ContractAccounts DEF NetworkInv, LedgerTyped, CustodyExact
  <1>6. /\ streams.held \in Nat /\ streams.billed \in Nat
        /\ streams.state \in Storage(Addresses, Streams)
        /\ streams.held = Sum(streams.state.stores)
        /\ fromStreams \in Nat /\ fromStreams <= streams.billed
        /\ fromStreams <= tokens[StoreManagerAccount]
    BY <1>2, <1>5 DEF StreamsChargedFrom, Charged, StreamsOwed
  <1>7. /\ consumers.held \in Nat /\ consumers.billed \in Nat
        /\ consumers.state \in Queries
        /\ consumers.held = Sum(consumers.state.balanceOf)
        /\ fromConsumers \in Nat /\ fromConsumers <= consumers.billed
        /\ fromConsumers <= tokens[QueryManagerAccount]
    BY <1>2, <1>5 DEF ConsumersChargedFrom, Charged, ConsumersOwed
  <1>8. /\ tokens[StoreManagerAccount] - fromStreams = streams.held
        /\ tokens[QueryManagerAccount] - fromConsumers = consumers.held
    BY <1>5, <1>6, <1>7
  <1> HIDE DEF fromStreams, fromConsumers
  <1>9. /\ Transferred(tokens, middle, StoreManagerAccount, NodeManagerAccount, fromStreams)
        /\ middle[QueryManagerAccount] = tokens[QueryManagerAccount]
    <2>1. Transferred(tokens, middle, StoreManagerAccount, NodeManagerAccount, fromStreams)
      BY <1>5, <1>6, ContractAccounts, TransferKeepsSum
    <2>2. QED BY <2>1, ContractAccounts DEF Transferred
  <1>10. tokens' = [middle EXCEPT ![QueryManagerAccount] = @ - fromConsumers,
                                  ![NodeManagerAccount] = @ + fromConsumers]
    <2>1. tokens[NodeManagerAccount] + (fromStreams + fromConsumers)
            = (tokens[NodeManagerAccount] + fromStreams) + fromConsumers
      BY <1>5, <1>6, <1>7
    <2>2. QED BY <1>1, <1>5, <1>8, <2>1, ContractAccounts
  <1> HIDE DEF middle
  <1>11. Transferred(middle, tokens', QueryManagerAccount, NodeManagerAccount, fromConsumers)
    <2>1. middle \in [Accounts -> Nat] /\ fromConsumers <= middle[QueryManagerAccount]
      BY <1>7, <1>9 DEF Transferred
    <2>2. QED BY <1>7, <1>10, <2>1, ContractAccounts, TransferKeepsSum
  <1>12. /\ tokens' \in [Accounts -> Nat] /\ Sum(tokens') = Sum(tokens)
         /\ tokens'[NodeManagerAccount]
                = (tokens[NodeManagerAccount] + fromStreams) + fromConsumers
         /\ tokens'[StoreManagerAccount] = streams.held
         /\ tokens'[QueryManagerAccount] = consumers.held
    BY <1>8, <1>9, <1>11, ContractAccounts DEF Transferred
  <1>13. tokens'[NodeManagerAccount] <= totalSupply'
    BY <1>3, <1>5, <1>6, <1>7, <1>12
  <1>14. CustodyExact'
    BY <1>1, <1>6, <1>7, <1>12, <1>13 DEF NetworkInv, CustodyExact
  <1>15. LedgerTyped'
    <2>1. \A x \in Int : M!AtLeastZero(x) \in Nat
      BY DEF M!AtLeastZero
    <2>2. delegatesOf \in [Addresses -> [Addresses -> Nat]] /\ balanceOf \in [Addresses -> Nat]
      BY DEF NetworkInv, LedgerTyped
    <2>3. delegatesOf' \in [Addresses -> [Addresses -> Nat]]
      BY <1>2, <1>3, <2>1, <2>2
    <2>4. totalSupply' \in Nat
      BY <1>3, <1>5, <1>6, <1>7
    <2>5. QED BY <1>3, <1>12, <2>2, <2>3, <2>4 DEF LedgerTyped
  <1>16. ReportsMade'
    BY <1>4 DEF NetworkInv, ReportsMade
  <1>17. QED BY <1>1, <1>6, <1>7, <1>14, <1>15, <1>16 DEF NetworkInv

\* A report that is sent has a height, and moves nothing.
LEMMA ReportSentStep ==
    ASSUME NetworkInv, NEW u \in Addresses, NEW id \in Ids, NEW h \in 1 .. MaxBlock,
           NEW c \in Contents, NEW sent, ReportSent(u, id, h, c, sent)
    PROVE  NetworkInv'
  <1>1. /\ reports' = [reports EXCEPT ![id] =
                        [height |-> h, content |-> c, reporter |-> u, processed |-> FALSE]]
        /\ UNCHANGED <<tokens, clientVars, ledgerVars>>
    BY DEF ReportSent, R!ReportTx
  <1>2. ReportsMade'
    BY <1>1 DEF NetworkInv, ReportsMade
  <1>3. QED BY <1>1, <1>2
        DEF NetworkInv, LedgerTyped, CustodyExact, clientVars, ledgerVars

LEMMA NetworkInvInductive ==
    /\ NetworkInit => NetworkInv
    /\ NetworkInv /\ [NetworkNext]_networkVars => NetworkInv'
  <1>1. ASSUME NetworkInit PROVE NetworkInv
    <2> USE <1>1 DEF NetworkInit
    <2>1. ReportsMade
      BY DEF R!NoReport, ReportsMade
    <2>2. LedgerTyped
      BY NetworkTokensAssumption DEF LedgerTyped
    <2>3. store \in Storage(Addresses, Streams)
      <3>1. [s \in Streams |-> << >>] \in [Streams -> Seq(Addresses)]
        OBVIOUS
      <3>2. QED BY <3>1 DEF S!EmptyStore, Storage
    <2>4. query \in Queries
      BY DEF Q!EmptyQuery, Queries
    <2>5. Sum(store.stores) = 0
      <3>1. store.stores = [s \in Streams |-> 0]
        BY DEF S!EmptyStore
      <3>2. Sum([s \in Streams |-> 0]) = 0
        BY ContractAccounts, SumOfNothing
      <3>3. QED BY <3>1, <3>2
    <2>6. Sum(query.balanceOf) = 0
      <3>1. query.balanceOf = [a \in Addresses |-> 0]
        BY DEF Q!EmptyQuery
      <3>2. Sum([a \in Addresses |-> 0]) = 0
        BY ContractAccounts, SumOfNothing
      <3>3. QED BY <3>1, <3>2
    <2>7. QED BY <2>1, <2>2, <2>3, <2>4, <2>5, <2>6, NetworkTokensAssumption
          DEF NetworkInv, CustodyExact
  <1>2. ASSUME NetworkInv, [NetworkNext]_networkVars PROVE NetworkInv'
    <2>1. CASE UNCHANGED networkVars
      BY <1>2, <2>1 DEF networkVars, NetworkInv, ReportsMade, LedgerTyped, CustodyExact,
         ledgerVars, clientVars, reporterVars
    <2>2. ASSUME NEW buffer \in Buffers, BufferSet(buffer) PROVE NetworkInv'
      <3>1. UNCHANGED <<tokens, reports, store, query, totalSupply, balanceOf, delegatesOf>>
        BY <2>2 DEF BufferSet, R!SetReportTimeBuffer, clientVars, ledgerVars
      <3>2. QED BY <1>2, <3>1 DEF NetworkInv, ReportsMade, LedgerTyped, CustodyExact
    <2>3. QED BY <1>2, <2>1, <2>2, ManagerStep, StoreStakeStep, QueryStakeStep, ProcessStep,
              ReportSentStep DEF NetworkNext
  <1>3. QED BY <1>1, <1>2

-----------------------------------------------------------------------------
\* Across the four contracts, whatever is staked, billed and captured: each
\* client contract holds what it owes, the sum of all tokens stays, and the
\* node manager owes at least what it holds.
THEOREM CustodyIsExact == NetworkSpec => []CustodyExact
  <1>1. NetworkInv => CustodyExact
    BY DEF NetworkInv
  <1>2. QED BY <1>1, NetworkInvInductive, PTL DEF NetworkSpec

\* An unknown report bills nothing, so that a step that lowers what a client
\* contract holds processes a report that was made.
LEMMA FeesStep ==
    ASSUME NetworkInv, [NetworkNext]_networkVars,
           \/ tokens'[StoreManagerAccount] < tokens[StoreManagerAccount]
           \/ tokens'[QueryManagerAccount] < tokens[QueryManagerAccount]
    PROVE  \E id \in Ids : /\ reports[id].height > 0
                           /\ ~reports[id].processed /\ reports'[id].processed
  <1>1. /\ tokens[StoreManagerAccount] \in Nat /\ tokens[QueryManagerAccount] \in Nat
        /\ tokens \in [Accounts -> Nat]
    BY ContractAccounts DEF NetworkInv, LedgerTyped
  <1>2. tokens' # tokens
    BY <1>1
  <1>3. ~ManagerTx
    <2>1. ASSUME ManagerTx PROVE FALSE
      <3>1. SupplyFollowsTokens
        BY <2>1, ManagerMoves DEF ManagerTx, NetworkInv
      <3>2. QED BY <1>1, <3>1 DEF SupplyFollowsTokens
    <2>2. QED BY <2>1
  <1>4. ASSUME NEW u \in Addresses, NEW s \in Streams, NEW amount \in FeeAmounts,
               StoreStake(u, s, amount)
        PROVE  FALSE
    <2>1. /\ amount \in Nat
          /\ tokens' = [tokens EXCEPT ![u] = @ - amount, ![StoreManagerAccount] = @ + amount]
      BY <1>4, NetworkAmountsAssumption DEF StoreStake, S!StoreStakeTx
    <2>2. QED BY <1>1, <2>1, ContractAccounts
  <1>5. ASSUME NEW u \in Addresses, NEW amount \in FeeAmounts, QueryStake(u, amount)
        PROVE  FALSE
    <2>1. /\ amount \in Nat
          /\ tokens' = [tokens EXCEPT ![u] = @ - amount, ![QueryManagerAccount] = @ + amount]
      BY <1>5, NetworkAmountsAssumption DEF QueryStake, Q!QueryStakeTx
    <2>2. QED BY <1>1, <2>1, ContractAccounts
  <1>6. PICK u \in Addresses, id \in Ids : ProcessTx(u, id)
    BY <1>2, <1>3, <1>4, <1>5
    DEF NetworkNext, ReportSent, BufferSet, networkVars
  <1>7. ~reports[id].processed /\ reports'[id].processed
    <2>1. ~reports[id].processed /\ reports' = [reports EXCEPT ![id].processed = TRUE]
      BY <1>6 DEF ProcessTx, R!MarkProcessed, R!NotProcessed
    <2>2. QED BY <2>1 DEF NetworkInv, ReportsMade
  <1>8. reports[id].content # NoContent
    <2>1. SUFFICES ASSUME reports[id].content = NoContent PROVE FALSE
      OBVIOUS
    <2>2. ContentOf(id).streams = << >> /\ ContentOf(id).consumers = << >>
      BY <2>1 DEF ContentOf, EmptyContent
    <2>3. /\ StreamsCharged(ContentOf(id)).held = tokens[StoreManagerAccount]
          /\ ConsumersCharged(ContentOf(id)).held = tokens[QueryManagerAccount]
      BY <2>2, NoStreamCharged, NoConsumerCharged
      DEF StreamsCharged, ConsumersCharged, Uncharged
    <2>4. /\ tokens'[StoreManagerAccount] = tokens[StoreManagerAccount]
          /\ tokens'[QueryManagerAccount] = tokens[QueryManagerAccount]
      BY <1>1, <1>6, <2>3, ContractAccounts DEF ProcessTx
    <2>5. QED BY <1>1, <2>4
  <1>9. reports[id].height > 0
    BY <1>8 DEF NetworkInv, ReportsMade
  <1>10. QED BY <1>7, <1>9

\* Clients pay only in the step that processes an accepted report, hence for
\* each report once.
THEOREM FeesForReportsOnly == NetworkSpec => FeesOnlyForReports
  <1>1. NetworkInv /\ [NetworkNext]_networkVars =>
            [\/ tokens[StoreManagerAccount]' < tokens[StoreManagerAccount]
             \/ tokens[QueryManagerAccount]' < tokens[QueryManagerAccount]
             => \E id \in Ids :
                  /\ reports[id].height > 0
                  /\ ~reports[id].processed /\ reports[id]'.processed]_networkVars
    BY FeesStep
  <1>2. QED BY <1>1, NetworkInvInductive, PTL DEF NetworkSpec, FeesOnlyForReports

=============================================================================

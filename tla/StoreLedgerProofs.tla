------------------------- MODULE StoreLedgerProofs --------------------------
(***************************************************************************)
(* Lemmas about StoreLedger: what stake() and capture() keep and change,   *)
(* for every storage of every set of users and streams.                    *)
(***************************************************************************)
EXTENDS StoreLedger, FoldLemmas

\* The storages of the contract for a set of users and a set of streams.
Storage(users, streams) ==
    [stores : [streams -> Nat],
     totalSupply : Nat,
     balanceOf : [users -> Nat],
     storeBalanceOf : [users -> [streams -> Nat]],
     storeStakeholders : [streams -> Seq(users)]]

\* A holder's total is at most what it has on the streams.
WithinStakes(st) == \A u \in DOMAIN st.balanceOf : st.balanceOf[u] <= Sum(st.storeBalanceOf[u])

\* The storages in which the streams have what they have in st, and holders
\* are within their stakes if they are in st: what the loops of capture() keep.
Kept(users, streams, st) ==
    {x \in Storage(users, streams) :
        x.stores = st.stores /\ (WithinStakes(st) => WithinStakes(x))}

-----------------------------------------------------------------------------
(* Sums over streams. *)

SumGrows(f, g, c) == Sum(g) = Sum(f) + c

LEMMA SumOfStakes ==
    ASSUME NEW streams, IsFiniteSet(streams), NEW f \in [streams -> Nat]
    PROVE  Sum(f) \in Nat
  BY SumNat DEF Sum, SumFunction

LEMMA SumOfNothing ==
    ASSUME NEW streams, IsFiniteSet(streams), NEW f \in [streams -> Nat],
           \A s \in streams : f[s] = 0
    PROVE  Sum(f) = 0
  BY SumZero DEF Sum, SumFunction

LEMMA SumOfChange ==
    ASSUME NEW streams, IsFiniteSet(streams), NEW f \in [streams -> Nat],
           NEW g \in [streams -> Nat], NEW a \in streams, NEW c \in Int,
           g[a] = f[a] + c, \A s \in streams \ {a} : g[s] = f[s]
    PROVE  SumGrows(f, g, c)
  <1>1. /\ \A s \in streams : f[s] \in Int
        /\ g[a] \in Int
        /\ DOMAIN f = streams /\ DOMAIN g = streams
    OBVIOUS
  <1>2. Sum(g) = Sum(f) - f[a] + g[a]
    BY <1>1, SumChangeOne DEF Sum, SumFunction
  <1>3. Sum(f) \in Nat /\ f[a] \in Nat
    BY SumOfStakes
  <1>4. QED BY <1>2, <1>3 DEF SumGrows

LEMMA StakeInSum ==
    ASSUME NEW streams, IsFiniteSet(streams), NEW f \in [streams -> Nat], NEW s \in streams
    PROVE  f[s] <= Sum(f)
  BY SumBound DEF Sum, SumFunction

-----------------------------------------------------------------------------
(* One round of the loops over the stakeholders. *)

LEMMA LessType == \A x, y \in Nat : Less(x, y) \in Nat /\ Less(x, y) <= x
  BY DEF Less

LEMMA ShareType == \A x \in Nat, y \in Nat \ {0} : x \div y \in Nat
  OBVIOUS

\* u's stake on s goes from what it is to `stake`, and its total loses at least
\* as much, or all it has.
Lowered(x, s, u, deduction, stake) ==
    [x EXCEPT !.balanceOf[u] = Less(@, deduction), !.storeBalanceOf[u][s] = stake]

LEMMA LowerStake ==
    ASSUME NEW users, NEW streams, IsFiniteSet(streams), NEW st,
           NEW x \in Kept(users, streams, st), NEW s \in streams, NEW u \in users,
           NEW deduction \in Nat, NEW stake \in Nat,
           stake = Less(x.storeBalanceOf[u][s], deduction)
    PROVE  Lowered(x, s, u, deduction, stake) \in Kept(users, streams, st)
  <1> DEFINE y == Lowered(x, s, u, deduction, stake)
  <1>1. x \in Storage(users, streams) /\ x.stores = st.stores
    BY DEF Kept
  <1>2. /\ x.balanceOf \in [users -> Nat] /\ x.storeBalanceOf \in [users -> [streams -> Nat]]
        /\ x.balanceOf[u] \in Nat /\ x.storeBalanceOf[u] \in [streams -> Nat]
        /\ x.storeBalanceOf[u][s] \in Nat
    BY <1>1 DEF Storage
  <1>3. /\ y.stores = x.stores
        /\ y.totalSupply = x.totalSupply
        /\ y.storeStakeholders = x.storeStakeholders
        /\ y.balanceOf = [x.balanceOf EXCEPT ![u] = Less(@, deduction)]
        /\ y.storeBalanceOf = [x.storeBalanceOf EXCEPT ![u][s] = stake]
    BY <1>1 DEF Storage, Lowered
  <1>4. y = [x EXCEPT !.balanceOf = y.balanceOf, !.storeBalanceOf = y.storeBalanceOf]
    BY <1>1 DEF Storage, Lowered
  <1> HIDE DEF y
  <1>5. y.balanceOf \in [users -> Nat] /\ y.storeBalanceOf \in [users -> [streams -> Nat]]
    <2>1. Less(x.balanceOf[u], deduction) \in Nat
      BY <1>2, LessType
    <2>2. y.balanceOf \in [users -> Nat]
      BY <1>2, <1>3, <2>1
    <2>3. y.storeBalanceOf \in [users -> [streams -> Nat]]
      BY <1>2, <1>3
    <2>4. QED BY <2>2, <2>3
  <1>6. y \in Storage(users, streams)
    BY <1>1, <1>4, <1>5 DEF Storage
  <1>7. ASSUME WithinStakes(x) PROVE WithinStakes(y)
    <2>1. ASSUME NEW v \in users PROVE y.balanceOf[v] <= Sum(y.storeBalanceOf[v])
      <3>1. x.balanceOf[v] <= Sum(x.storeBalanceOf[v])
        BY <1>2, <1>7 DEF WithinStakes
      <3>2. CASE v # u
        BY <1>2, <1>3, <3>1, <3>2
      <3>3. CASE v = u
        <4> DEFINE f == x.storeBalanceOf[u]
                   g == y.storeBalanceOf[u]
        <4>1. f \in [streams -> Nat] /\ g \in [streams -> Nat]
          BY <1>2, <1>5
        <4>2. g[s] = stake /\ \A t \in streams \ {s} : g[t] = f[t]
          BY <1>2, <1>3
        <4>3. f[s] \in Nat /\ stake - f[s] \in Int /\ stake = f[s] + (stake - f[s])
          BY <1>2
        <4> HIDE DEF f, g
        <4>4. SumGrows(f, g, stake - f[s])
          BY <4>1, <4>2, <4>3, SumOfChange
        <4>5. f[s] <= Sum(f) /\ Sum(f) \in Nat /\ Sum(g) \in Nat
          BY <4>1, SumOfStakes, StakeInSum
        <4>6. Sum(g) = Sum(f) + (stake - f[s])
          BY <4>4 DEF SumGrows
        <4>7. stake = Less(f[s], deduction) /\ x.balanceOf[u] <= Sum(f)
          BY <3>1, <3>3 DEF f
        <4>8. Less(x.balanceOf[u], deduction) <= Sum(g)
          BY <1>2, <4>3, <4>5, <4>6, <4>7 DEF Less
        <4>9. y.balanceOf[u] = Less(x.balanceOf[u], deduction)
          BY <1>2, <1>3
        <4>10. QED BY <3>3, <4>8, <4>9 DEF g
      <3>4. QED BY <3>2, <3>3
    <2>2. QED BY <1>5, <2>1 DEF WithinStakes
  <1>8. QED BY <1>1, <1>3, <1>6, <1>7 DEF Kept, y

LEMMA HolderCleared ==
    ASSUME NEW users, NEW streams, IsFiniteSet(streams), NEW st,
           NEW x \in Kept(users, streams, st), NEW s \in streams, NEW u \in users
    PROVE  ClearHolder(x, s, u) \in Kept(users, streams, st)
  <1>1. x.storeBalanceOf[u][s] \in Nat
    BY DEF Kept, Storage
  <1>2. 0 = Less(x.storeBalanceOf[u][s], x.storeBalanceOf[u][s])
    BY <1>1 DEF Less
  <1>3. ClearHolder(x, s, u) = Lowered(x, s, u, x.storeBalanceOf[u][s], 0)
    BY DEF ClearHolder, Lowered
  <1>4. QED BY <1>1, <1>2, <1>3, LowerStake

LEMMA HolderCharged ==
    ASSUME NEW users, NEW streams, IsFiniteSet(streams), NEW st,
           NEW x \in Kept(users, streams, st), NEW s \in streams, x.stores[s] > 0,
           NEW u \in users, NEW amount \in Nat, NEW holders \in Seq(users)
    PROVE  ChargeHolder(x, s, amount, holders, u) \in Kept(users, streams, st)
  <1> DEFINE share == x.storeBalanceOf[u][s] \div x.stores[s]
             deduction == share * amount
             stake == Less(x.storeBalanceOf[u][s], deduction)
             y == Lowered(x, s, u, deduction, stake)
             others == {i \in DOMAIN holders : holders[i] # u}
             z == [y EXCEPT !.storeStakeholders[s] = [i \in 1 .. Cardinality(others) |-> u]]
  <1>1. x.storeBalanceOf[u][s] \in Nat /\ x.stores[s] \in Nat \ {0}
    BY DEF Kept, Storage
  <1>2. share \in Nat
    BY <1>1, ShareType
  <1>3. deduction \in Nat
    <2> HIDE DEF share
    <2> QED BY <1>2
  <1>4. y \in Kept(users, streams, st)
    <2>1. stake \in Nat
      BY <1>1, <1>3, LessType
    <2> HIDE DEF deduction
    <2>2. QED BY <1>3, <2>1, LowerStake
  <1>5. z \in Kept(users, streams, st)
    <2>1. Cardinality(others) \in Nat
      <3>1. IsFiniteSet(DOMAIN holders)
        BY FS_Interval
      <3> QED BY <3>1, FS_Subset, FS_CardinalityType
    <2> HIDE DEF others, y
    <2>2. [i \in 1 .. Cardinality(others) |-> u] \in Seq(users)
      BY <2>1
    <2>3. QED BY <1>4, <2>2 DEF Kept, Storage, WithinStakes
  <1>6. ChargeHolder(x, s, amount, holders, u) \in {y, z}
    BY DEF ChargeHolder, Lowered
  <1> HIDE DEF y, z
  <1>7. QED BY <1>4, <1>5, <1>6

-----------------------------------------------------------------------------
(* The loops, as runs over the stakeholders. *)

\* The storages after each round of a loop over the stakeholders.
ClearRun(run, st, s, holders) ==
    /\ run[0] = st
    /\ run[Len(holders)] = ClearHolders(st, s, holders)
    /\ \A i \in 1 .. Len(holders) : run[i] = ClearHolder(run[i - 1], s, holders[i])

ChargeRun(run, st, s, amount, holders) ==
    /\ run[0] = st
    /\ run[Len(holders)] = ChargeHolders(st, s, amount, holders)
    /\ \A i \in 1 .. Len(holders) :
        run[i] = ChargeHolder(run[i - 1], s, amount, holders, holders[i])

LEMMA ClearingRuns ==
    ASSUME NEW users, NEW streams, IsFiniteSet(streams),
           NEW st \in Storage(users, streams), NEW s \in streams,
           NEW holders \in Seq(users)
    PROVE  \E run : /\ ClearRun(run, st, s, holders)
                    /\ \A i \in 0 .. Len(holders) : run[i] \in Kept(users, streams, st)
  <1> DEFINE D == Kept(users, streams, st)
             n == Len(holders)
             step == [p \in (1 .. n) \X D |-> ClearHolder(p[2], s, holders[p[1]])]
             Loop(g) == g = [r \in SUBSET (1 .. n) |->
                                IF r = {} THEN st
                                ELSE ClearHolder(g[r \ {Max(r)}], s, holders[Max(r)])]
             h == CHOOSE g : Loop(g)
             run == [i \in 0 .. n |-> h[1 .. i]]
  <1>1. /\ n \in Nat /\ DOMAIN holders = 1 .. n
        /\ \A i \in 1 .. n : holders[i] \in users
        /\ st \in D
    BY DEF Kept
  <1>2. \A i \in 1 .. n, x \in D : ClearHolder(x, s, holders[i]) \in D
    BY <1>1, HolderCleared
  <1>3. \A i \in 1 .. n, x \in D :
            step[<<i, x>>] \in D /\ step[<<i, x>>] = ClearHolder(x, s, holders[i])
    BY <1>2
  <1> HIDE DEF D, step, n
  <1>4. \E g : Loop(g)
    <2>1. PICK g : LoopRecurs(g, n, D, st, step)
      BY <1>1, <1>3, LoopRecursion
    <2>2. \A r \in SUBSET (1 .. n) :
            g[r] = IF r = {} THEN st ELSE ClearHolder(g[r \ {Max(r)}], s, holders[Max(r)])
      BY <1>3, <2>1 DEF LoopRecurs
    <2>3. Loop(g)
      BY <2>1, <2>2 DEF LoopRecurs
    <2>4. QED BY <2>3
  <1>5. Loop(h)
    <2> HIDE DEF Loop
    <2> QED BY <1>4, Zenon
  <1>6. ClearHolders(st, s, holders) = h[1 .. n]
    BY <1>1 DEF ClearHolders, FoldLeft, MapThenFoldSet
  <1> HIDE DEF h
  <1>7. run[0] \in D
    BY <1>1, <1>5
  <1>8. ASSUME NEW i \in 1 .. n PROVE run[i] = ClearHolder(run[i - 1], s, holders[i])
    <2> DEFINE r == 1 .. i
    <2>1. /\ r \in SUBSET (1 .. n) /\ r # {} /\ Max(r) = i
          /\ r \ {i} = 1 .. (i - 1)
      BY <1>1, PrefixMax
    <2>2. h[r] = ClearHolder(h[r \ {Max(r)}], s, holders[Max(r)])
      <3> HIDE DEF r
      <3> QED BY <1>5, <2>1
    <2>3. i - 1 \in 0 .. n /\ i \in 0 .. n
      BY <1>1
    <2>4. QED BY <2>1, <2>2, <2>3
  <1>9. run[0] = st /\ run[n] = ClearHolders(st, s, holders)
    <2>1. 0 \in 0 .. n /\ n \in 0 .. n /\ 1 .. 0 = {}
      BY <1>1
    <2>2. h[{}] = st
      <3>1. {} \in SUBSET (1 .. n)
        OBVIOUS
      <3>2. QED BY <1>5, <3>1
    <2>3. QED BY <1>6, <2>1, <2>2
  <1> HIDE DEF run
  <1>10. \A i \in 1 .. n : run[i - 1] \in D => run[i] \in D
    BY <1>2, <1>8
  <1>11. \A i \in 0 .. n : run[i] \in D
    BY <1>1, <1>7, <1>10, LoopInvariant
  <1>12. ClearRun(run, st, s, holders)
    BY <1>8, <1>9 DEF n, ClearRun
  <1>13. QED BY <1>11, <1>12 DEF D, n

LEMMA ChargingRuns ==
    ASSUME NEW users, NEW streams, IsFiniteSet(streams),
           NEW st \in Storage(users, streams), NEW s \in streams,
           st.stores[s] > 0, NEW amount \in Nat, NEW holders \in Seq(users)
    PROVE  \E run : /\ ChargeRun(run, st, s, amount, holders)
                    /\ \A i \in 0 .. Len(holders) : run[i] \in Kept(users, streams, st)
  <1> DEFINE D == Kept(users, streams, st)
             n == Len(holders)
             step == [p \in (1 .. n) \X D |->
                        ChargeHolder(p[2], s, amount, holders, holders[p[1]])]
             Loop(g) == g = [r \in SUBSET (1 .. n) |->
                                IF r = {} THEN st
                                ELSE ChargeHolder(g[r \ {Max(r)}], s, amount, holders,
                                                  holders[Max(r)])]
             h == CHOOSE g : Loop(g)
             run == [i \in 0 .. n |-> h[1 .. i]]
  <1>1. /\ n \in Nat /\ DOMAIN holders = 1 .. n
        /\ \A i \in 1 .. n : holders[i] \in users
        /\ st \in D
    BY DEF Kept
  <1>2. \A i \in 1 .. n, x \in D : ChargeHolder(x, s, amount, holders, holders[i]) \in D
    <2>1. \A x \in D : x.stores[s] > 0
      BY DEF Kept
    <2>2. QED BY <1>1, <2>1, HolderCharged
  <1>3. \A i \in 1 .. n, x \in D :
            /\ step[<<i, x>>] \in D
            /\ step[<<i, x>>] = ChargeHolder(x, s, amount, holders, holders[i])
    BY <1>2
  <1> HIDE DEF D, step, n
  <1>4. \E g : Loop(g)
    <2>1. PICK g : LoopRecurs(g, n, D, st, step)
      BY <1>1, <1>3, LoopRecursion
    <2>2. \A r \in SUBSET (1 .. n) :
            g[r] = IF r = {} THEN st
                   ELSE ChargeHolder(g[r \ {Max(r)}], s, amount, holders, holders[Max(r)])
      BY <1>3, <2>1 DEF LoopRecurs
    <2>3. Loop(g)
      BY <2>1, <2>2 DEF LoopRecurs
    <2>4. QED BY <2>3
  <1>5. Loop(h)
    <2> HIDE DEF Loop
    <2> QED BY <1>4, Zenon
  <1>6. ChargeHolders(st, s, amount, holders) = h[1 .. n]
    BY <1>1 DEF ChargeHolders, FoldLeft, MapThenFoldSet
  <1> HIDE DEF h
  <1>7. run[0] \in D
    BY <1>1, <1>5
  <1>8. ASSUME NEW i \in 1 .. n PROVE run[i] = ChargeHolder(run[i - 1], s, amount, holders, holders[i])
    <2> DEFINE r == 1 .. i
    <2>1. /\ r \in SUBSET (1 .. n) /\ r # {} /\ Max(r) = i
          /\ r \ {i} = 1 .. (i - 1)
      BY <1>1, PrefixMax
    <2>2. h[r] = ChargeHolder(h[r \ {Max(r)}], s, amount, holders, holders[Max(r)])
      <3> HIDE DEF r
      <3> QED BY <1>5, <2>1
    <2>3. i - 1 \in 0 .. n /\ i \in 0 .. n
      BY <1>1
    <2>4. QED BY <2>1, <2>2, <2>3
  <1>9. run[0] = st /\ run[n] = ChargeHolders(st, s, amount, holders)
    <2>1. 0 \in 0 .. n /\ n \in 0 .. n /\ 1 .. 0 = {}
      BY <1>1
    <2>2. h[{}] = st
      <3>1. {} \in SUBSET (1 .. n)
        OBVIOUS
      <3>2. QED BY <1>5, <3>1
    <2>3. QED BY <1>6, <2>1, <2>2
  <1> HIDE DEF run
  <1>10. \A i \in 1 .. n : run[i - 1] \in D => run[i] \in D
    BY <1>2, <1>8
  <1>11. \A i \in 0 .. n : run[i] \in D
    BY <1>1, <1>7, <1>10, LoopInvariant
  <1>12. ChargeRun(run, st, s, amount, holders)
    BY <1>8, <1>9 DEF n, ChargeRun
  <1>13. QED BY <1>11, <1>12 DEF D, n

LEMMA HoldersCleared ==
    ASSUME NEW users, NEW streams, IsFiniteSet(streams),
           NEW st \in Storage(users, streams), NEW s \in streams,
           NEW holders \in Seq(users)
    PROVE  ClearHolders(st, s, holders) \in Kept(users, streams, st)
  <1>1. PICK run : /\ ClearRun(run, st, s, holders)
                   /\ \A i \in 0 .. Len(holders) : run[i] \in Kept(users, streams, st)
    BY ClearingRuns
  <1>2. Len(holders) \in 0 .. Len(holders)
    OBVIOUS
  <1>3. QED BY <1>1, <1>2 DEF ClearRun

LEMMA HoldersCharged ==
    ASSUME NEW users, NEW streams, IsFiniteSet(streams),
           NEW st \in Storage(users, streams), NEW s \in streams,
           st.stores[s] > 0, NEW amount \in Nat, NEW holders \in Seq(users)
    PROVE  ChargeHolders(st, s, amount, holders) \in Kept(users, streams, st)
  <1>1. PICK run : /\ ChargeRun(run, st, s, amount, holders)
                   /\ \A i \in 0 .. Len(holders) : run[i] \in Kept(users, streams, st)
    BY ChargingRuns
  <1>2. Len(holders) \in 0 .. Len(holders)
    OBVIOUS
  <1>3. QED BY <1>1, <1>2 DEF ChargeRun

-----------------------------------------------------------------------------
(* The operations. *)

\* capture() takes from the stream what it transfers, and from no other
\* stream; the holders stay within their stakes.
CaptureOf(users, streams, st, s, amount) ==
    {x \in Storage(users, streams) :
        /\ x.stores = [st.stores EXCEPT ![s] = @ - Captured(st, s, amount)]
        /\ WithinStakes(st) => WithinStakes(x)}

LEMMA CaptureKeeps ==
    ASSUME NEW users, NEW streams, IsFiniteSet(streams),
           NEW st \in Storage(users, streams), NEW s \in streams,
           st.stores[s] > 0, NEW amount \in Nat
    PROVE  Capture(st, s, amount) \in CaptureOf(users, streams, st, s, amount)
  <1> DEFINE holders == st.storeStakeholders[s]
             cleared == ClearHolders(st, s, holders)
             charged == ChargeHolders(st, s, amount, holders)
             supply == SupplyAfterCapture(st, s, amount)
  <1>1. /\ st.stores \in [streams -> Nat] /\ st.stores[s] \in Nat /\ holders \in Seq(users)
        /\ st.totalSupply \in Nat
    BY DEF Storage
  <1>2. cleared \in Kept(users, streams, st) /\ charged \in Kept(users, streams, st)
    <2> HIDE DEF holders
    <2> QED BY <1>1, HoldersCleared, HoldersCharged
  <1>3. supply \in Nat
    BY <1>1, LessType DEF SupplyAfterCapture
  <1> HIDE DEF supply, cleared, charged
  <1>4. CASE st.stores[s] < amount
    <2> DEFINE y == [[cleared EXCEPT !.storeStakeholders[s] = << >>, !.stores[s] = 0]
                        EXCEPT !.totalSupply = supply]
    <2>1. Capture(st, s, amount) = y
      BY <1>4 DEF Capture, CaptureAll, cleared, supply
    <2>2. Captured(st, s, amount) = st.stores[s]
      BY <1>4 DEF Captured
    <2> DEFINE stakeholders == [cleared.storeStakeholders EXCEPT ![s] = << >>]
               stores == [cleared.stores EXCEPT ![s] = 0]
    <2>3. y \in Storage(users, streams)
      <3>1. stakeholders \in [streams -> Seq(users)] /\ stores \in [streams -> Nat]
        BY <1>2 DEF Kept, Storage
      <3>2. y = [[cleared EXCEPT !.storeStakeholders = stakeholders, !.stores = stores]
                    EXCEPT !.totalSupply = supply]
        BY <1>2 DEF Kept, Storage
      <3> HIDE DEF y, stakeholders, stores
      <3>3. QED BY <1>2, <1>3, <3>1, <3>2 DEF Kept, Storage
    <2>4. /\ y.stores = [st.stores EXCEPT ![s] = 0]
          /\ y.balanceOf = cleared.balanceOf /\ y.storeBalanceOf = cleared.storeBalanceOf
      BY <1>2 DEF Kept, Storage
    <2>5. WithinStakes(st) => WithinStakes(y)
      BY <1>2, <2>4 DEF Kept, WithinStakes
    <2> HIDE DEF y
    <2>6. QED BY <1>1, <2>1, <2>2, <2>3, <2>4, <2>5 DEF CaptureOf
  <1>5. CASE ~(st.stores[s] < amount)
    <2> DEFINE y == [[charged EXCEPT !.stores[s] = @ - amount] EXCEPT !.totalSupply = supply]
    <2>1. Capture(st, s, amount) = y
      BY <1>5 DEF Capture, CaptureSome, charged, supply
    <2>2. Captured(st, s, amount) = amount /\ st.stores[s] - amount \in Nat
      BY <1>1, <1>5 DEF Captured
    <2>3. y \in Storage(users, streams)
      BY <1>1, <1>2, <1>3, <2>2 DEF Kept, Storage
    <2>4. /\ y.stores = [st.stores EXCEPT ![s] = @ - amount]
          /\ y.balanceOf = charged.balanceOf /\ y.storeBalanceOf = charged.storeBalanceOf
      BY <1>2 DEF Kept, Storage
    <2>5. WithinStakes(st) => WithinStakes(y)
      BY <1>2, <2>4 DEF Kept, WithinStakes
    <2> HIDE DEF y
    <2>6. QED BY <2>1, <2>2, <2>3, <2>4, <2>5 DEF CaptureOf
  <1>6. QED BY <1>4, <1>5

\* So the sum of the streams' stakes shrinks by what is transferred.
LEMMA CaptureSum ==
    ASSUME NEW users, NEW streams, IsFiniteSet(streams),
           NEW st \in Storage(users, streams), NEW s \in streams,
           st.stores[s] > 0, NEW amount \in Nat
    PROVE  /\ Captured(st, s, amount) \in Nat
           /\ Captured(st, s, amount) <= amount
           /\ SumGrows(st.stores, Capture(st, s, amount).stores, -Captured(st, s, amount))
  <1> DEFINE c == Captured(st, s, amount)
             f == st.stores
             g == Capture(st, s, amount).stores
  <1>1. f \in [streams -> Nat] /\ f[s] \in Nat
    BY DEF Storage
  <1>2. c \in Nat /\ c <= amount
    BY <1>1 DEF Captured
  <1>3. g \in [streams -> Nat] /\ g = [f EXCEPT ![s] = @ - c]
    <2>1. Capture(st, s, amount) \in CaptureOf(users, streams, st, s, amount)
      BY CaptureKeeps
    <2>2. QED BY <2>1 DEF CaptureOf, Storage
  <1> HIDE DEF c, f, g
  <1>4. -c \in Int /\ g[s] = f[s] + (-c) /\ \A t \in streams \ {s} : g[t] = f[t]
    BY <1>1, <1>2, <1>3
  <1>5. SumGrows(f, g, -c)
    BY <1>1, <1>3, <1>4, SumOfChange
  <1>6. QED BY <1>2, <1>5 DEF c, f, g

\* stake() adds the amount to the stream and to the holder.
LEMMA StakeKeeps ==
    ASSUME NEW users, NEW streams, IsFiniteSet(streams),
           NEW st \in Storage(users, streams), NEW u \in users, NEW s \in streams,
           NEW amount \in Nat
    PROVE  /\ Stake(st, u, s, amount) \in Storage(users, streams)
           /\ SumGrows(st.stores, Stake(st, u, s, amount).stores, amount)
           /\ WithinStakes(st) => WithinStakes(Stake(st, u, s, amount))
  <1> DEFINE y == Stake(st, u, s, amount)
             list == IF NewHolder(st, u, s) THEN Append(st.storeStakeholders[s], u)
                     ELSE st.storeStakeholders[s]
  <1>1. /\ st.stores \in [streams -> Nat] /\ st.stores[s] \in Nat
        /\ st.balanceOf \in [users -> Nat] /\ st.balanceOf[u] \in Nat
        /\ st.storeBalanceOf \in [users -> [streams -> Nat]]
        /\ st.storeBalanceOf[u] \in [streams -> Nat] /\ st.storeBalanceOf[u][s] \in Nat
        /\ st.storeStakeholders \in [streams -> Seq(users)]
        /\ st.totalSupply \in Nat
    BY DEF Storage
  <1>2. /\ y.stores = [st.stores EXCEPT ![s] = @ + amount]
        /\ y.balanceOf = [st.balanceOf EXCEPT ![u] = @ + amount]
        /\ y.storeBalanceOf = [st.storeBalanceOf EXCEPT ![u][s] = @ + amount]
        /\ y.totalSupply = st.totalSupply + amount
        /\ y.storeStakeholders = [st.storeStakeholders EXCEPT ![s] = list]
    BY DEF Storage, Stake
  <1>3. /\ y = [field \in DOMAIN st |-> y[field]]
        /\ DOMAIN st = {"stores", "totalSupply", "balanceOf", "storeBalanceOf",
                        "storeStakeholders"}
    BY DEF Storage, Stake
  <1>4. list \in Seq(users)
    BY <1>1
  <1> HIDE DEF y, list
  <1>5. /\ y.stores \in [streams -> Nat]
        /\ y.balanceOf \in [users -> Nat]
        /\ y.storeBalanceOf \in [users -> [streams -> Nat]]
    <2>1. y.stores \in [streams -> Nat] /\ y.balanceOf \in [users -> Nat]
      <3> DEFINE stores == st.stores
                 balances == st.balanceOf
      <3>1. /\ stores \in [streams -> Nat] /\ balances \in [users -> Nat]
            /\ y.stores = [stores EXCEPT ![s] = @ + amount]
            /\ y.balanceOf = [balances EXCEPT ![u] = @ + amount]
        BY <1>1, <1>2
      <3> HIDE DEF stores, balances
      <3>2. y.stores \in [streams -> Nat]
        BY <3>1
      <3>3. y.balanceOf \in [users -> Nat]
        BY <3>1
      <3>4. QED BY <3>2, <3>3
    <2> DEFINE all == st.storeBalanceOf
               mine == [all[u] EXCEPT ![s] = @ + amount]
    <2>2. mine \in [streams -> Nat] /\ all \in [users -> [streams -> Nat]]
      BY <1>1
    <2>3. y.storeBalanceOf = [all EXCEPT ![u] = mine]
      BY <1>2
    <2> HIDE DEF all, mine
    <2>4. y.storeBalanceOf \in [users -> [streams -> Nat]]
      BY <2>2, <2>3
    <2>5. QED BY <2>1, <2>4
  <1>6. y.storeStakeholders \in [streams -> Seq(users)] /\ y.totalSupply \in Nat
    <2>1. y.totalSupply \in Nat
      BY <1>1, <1>2
    <2> DEFINE S == Seq(users)
               holders == st.storeStakeholders
    <2>2. list \in S /\ holders \in [streams -> S]
      BY <1>1, <1>4
    <2>3. y.storeStakeholders = [holders EXCEPT ![s] = list]
      BY <1>2
    <2> HIDE DEF S, holders
    <2>4. y.storeStakeholders \in [streams -> S]
      BY <2>2, <2>3
    <2>5. QED BY <2>1, <2>4 DEF S
  <1>7. y \in Storage(users, streams)
    BY <1>3, <1>5, <1>6 DEF Storage
  <1>8. SumGrows(st.stores, y.stores, amount)
    <2> DEFINE f == st.stores
               g == y.stores
    <2>1. /\ f \in [streams -> Nat] /\ g \in [streams -> Nat]
          /\ g[s] = f[s] + amount /\ \A t \in streams \ {s} : g[t] = f[t]
      BY <1>1, <1>2, <1>5
    <2> HIDE DEF f, g
    <2>2. SumGrows(f, g, amount)
      BY <2>1, SumOfChange
    <2>3. QED BY <2>2 DEF f, g
  <1>9. ASSUME WithinStakes(st) PROVE WithinStakes(y)
    <2>1. ASSUME NEW v \in users PROVE y.balanceOf[v] <= Sum(y.storeBalanceOf[v])
      <3>1. st.balanceOf[v] <= Sum(st.storeBalanceOf[v])
        BY <1>1, <1>9 DEF WithinStakes
      <3>2. CASE v # u
        BY <1>1, <1>2, <3>1, <3>2
      <3>3. CASE v = u
        <4> DEFINE f == st.storeBalanceOf[u]
                   g == y.storeBalanceOf[u]
        <4>1. f \in [streams -> Nat] /\ g \in [streams -> Nat]
          BY <1>1, <1>5
        <4>2. g[s] = f[s] + amount /\ \A t \in streams \ {s} : g[t] = f[t]
          <5> DEFINE all == st.storeBalanceOf
                     mine == [all[u] EXCEPT ![s] = @ + amount]
          <5>1. all \in [users -> [streams -> Nat]] /\ y.storeBalanceOf = [all EXCEPT ![u] = mine]
            BY <1>1, <1>2
          <5>2. mine[s] = all[u][s] + amount /\ \A t \in streams \ {s} : mine[t] = all[u][t]
            BY <1>1
          <5> HIDE DEF all, mine
          <5>3. y.storeBalanceOf[u] = mine
            BY <5>1
          <5>4. QED BY <5>2, <5>3 DEF all
        <4> HIDE DEF f, g
        <4>3. SumGrows(f, g, amount)
          BY <4>1, <4>2, SumOfChange
        <4>4. Sum(f) \in Nat
          BY <4>1, SumOfStakes
        <4>5. y.balanceOf[u] = st.balanceOf[u] + amount /\ st.balanceOf[u] <= Sum(f)
          BY <1>1, <1>2, <3>1, <3>3 DEF f
        <4>6. y.balanceOf[u] <= Sum(g)
          BY <1>1, <4>3, <4>4, <4>5 DEF SumGrows
        <4>7. QED BY <3>3, <4>6 DEF g
      <3>4. QED BY <3>2, <3>3
    <2>2. QED BY <1>5, <2>1 DEF WithinStakes
  <1>10. QED BY <1>7, <1>8, <1>9 DEF y

-----------------------------------------------------------------------------
(* The lists of stakeholders. *)

\* The list of s names those who have stake on s, each once.
Names(users, st, s) ==
    /\ IsInjective(st.storeStakeholders[s])
    /\ ToSet(st.storeStakeholders[s]) = {u \in users : st.storeBalanceOf[u][s] > 0}

\* A round of a loop over holders: u's stake on s is then `stake`, and only when it
\* is 0 may the list be another one.
Round(x, y, s, u, stake) ==
    /\ y.stores = x.stores
    /\ y.storeBalanceOf = [x.storeBalanceOf EXCEPT ![u][s] = stake]
    /\ \/ y.storeStakeholders = x.storeStakeholders
       \/ /\ stake = 0
          /\ \E list : y.storeStakeholders = [x.storeStakeholders EXCEPT ![s] = list]

\* What a fee leaves of a stake.
AfterFee(x, s, amount, u) ==
    Less(x.storeBalanceOf[u][s], (x.storeBalanceOf[u][s] \div x.stores[s]) * amount)

LEMMA ClearingRound ==
    ASSUME NEW users, NEW streams, IsFiniteSet(streams),
           NEW x \in Storage(users, streams), NEW s \in streams, NEW u \in users
    PROVE  /\ ClearHolder(x, s, u) \in Storage(users, streams)
           /\ Round(x, ClearHolder(x, s, u), s, u, 0)
  <1>1. x \in Kept(users, streams, x)
    BY DEF Kept
  <1>2. ClearHolder(x, s, u) \in Storage(users, streams)
    BY <1>1, HolderCleared DEF Kept
  <1>3. Round(x, ClearHolder(x, s, u), s, u, 0)
    BY DEF Round, ClearHolder, Storage
  <1>4. QED BY <1>2, <1>3

LEMMA ChargingRound ==
    ASSUME NEW users, NEW streams, IsFiniteSet(streams),
           NEW x \in Storage(users, streams), NEW s \in streams, x.stores[s] > 0,
           NEW u \in users, NEW amount \in Nat, NEW holders \in Seq(users)
    PROVE  /\ ChargeHolder(x, s, amount, holders, u) \in Storage(users, streams)
           /\ Round(x, ChargeHolder(x, s, amount, holders, u), s, u,
                    AfterFee(x, s, amount, u))
           /\ holders = <<u>> /\ AfterFee(x, s, amount, u) = 0 =>
                ChargeHolder(x, s, amount, holders, u).storeStakeholders[s] = << >>
  <1> DEFINE deduction == (x.storeBalanceOf[u][s] \div x.stores[s]) * amount
             others == {i \in DOMAIN holders : holders[i] # u}
             list == [i \in 1 .. Cardinality(others) |-> u]
             y == Lowered(x, s, u, deduction, AfterFee(x, s, amount, u))
             z == ChargeHolder(x, s, amount, holders, u)
  <1>1. x \in Kept(users, streams, x)
    BY DEF Kept
  <1>2. z \in Storage(users, streams)
    BY <1>1, HolderCharged DEF Kept
  <1>3. /\ y.stores = x.stores
        /\ y.storeBalanceOf = [x.storeBalanceOf EXCEPT ![u][s] = AfterFee(x, s, amount, u)]
        /\ y.storeStakeholders = x.storeStakeholders
        /\ y.storeBalanceOf[u][s] = AfterFee(x, s, amount, u)
        /\ s \in DOMAIN x.storeStakeholders
    BY DEF Lowered, Storage
  <1>4. z = IF y.storeBalanceOf[u][s] = 0 THEN [y EXCEPT !.storeStakeholders[s] = list] ELSE y
    BY DEF ChargeHolder, Lowered, AfterFee
  <1>5. holders = <<u>> => list = << >>
    <2> SUFFICES ASSUME holders = <<u>> PROVE list = << >>
      OBVIOUS
    <2>1. others = {}
      OBVIOUS
    <2>2. Cardinality(others) = 0
      BY <2>1, FS_EmptySet
    <2> HIDE DEF others
    <2>3. QED BY <2>2
  <1>6. DOMAIN y = DOMAIN x /\ "storeStakeholders" \in DOMAIN x
    BY DEF Lowered, Storage
  <1> HIDE DEF y, list
  <1>7. CASE y.storeBalanceOf[u][s] # 0
    BY <1>2, <1>3, <1>4, <1>7 DEF Round
  <1>8. CASE y.storeBalanceOf[u][s] = 0
    <2>1. /\ z.stores = y.stores /\ z.storeBalanceOf = y.storeBalanceOf
          /\ z.storeStakeholders = [y.storeStakeholders EXCEPT ![s] = list]
      BY <1>4, <1>6, <1>8
    <2>2. QED BY <1>2, <1>3, <1>5, <1>8, <2>1 DEF Round
  <1>9. QED BY <1>7, <1>8

\* A loop over the holders of s changes nothing of another stream.
Elsewhere(users, streams, st, s) ==
    {x \in Storage(users, streams) :
        /\ x.stores = st.stores
        /\ \A t \in streams \ {s} :
            /\ x.storeStakeholders[t] = st.storeStakeholders[t]
            /\ \A u \in users : x.storeBalanceOf[u][t] = st.storeBalanceOf[u][t]}

LEMMA RoundElsewhere ==
    ASSUME NEW users, NEW streams, NEW st, NEW s \in streams,
           NEW x \in Elsewhere(users, streams, st, s), NEW y \in Storage(users, streams),
           NEW u \in users, NEW stake, Round(x, y, s, u, stake)
    PROVE  y \in Elsewhere(users, streams, st, s)
  <1>1. /\ x \in Storage(users, streams)
        /\ x.storeBalanceOf \in [users -> [streams -> Nat]]
        /\ x.storeStakeholders \in [streams -> Seq(users)]
    BY DEF Elsewhere, Storage
  <1>2. y.stores = st.stores
    BY DEF Elsewhere, Round
  <1>3. ASSUME NEW t \in streams \ {s}
        PROVE  /\ y.storeStakeholders[t] = x.storeStakeholders[t]
               /\ \A v \in users : y.storeBalanceOf[v][t] = x.storeBalanceOf[v][t]
    <2>1. t \in streams /\ t # s
      BY <1>3
    <2>2. y.storeStakeholders[t] = x.storeStakeholders[t]
      <3> DEFINE lists == x.storeStakeholders
      <3>1. lists \in [streams -> Seq(users)]
        BY <1>1
      <3>2. \/ y.storeStakeholders = lists
            \/ \E list : y.storeStakeholders = [lists EXCEPT ![s] = list]
        BY DEF Round
      <3> HIDE DEF lists
      <3>3. y.storeStakeholders[t] = lists[t]
        BY <2>1, <3>1, <3>2
      <3>4. QED BY <3>3 DEF lists
    <2>3. ASSUME NEW v \in users PROVE y.storeBalanceOf[v][t] = x.storeBalanceOf[v][t]
      <3>1. y.storeBalanceOf = [x.storeBalanceOf EXCEPT ![u][s] = stake]
        BY DEF Round
      <3>2. QED BY <1>1, <2>1, <2>3, <3>1
    <2>4. QED BY <2>2, <2>3
  <1>4. \A t \in streams \ {s} :
            /\ x.storeStakeholders[t] = st.storeStakeholders[t]
            /\ \A v \in users : x.storeBalanceOf[v][t] = st.storeBalanceOf[v][t]
    BY DEF Elsewhere
  <1>5. \A t \in streams \ {s} :
            /\ y.storeStakeholders[t] = st.storeStakeholders[t]
            /\ \A v \in users : y.storeBalanceOf[v][t] = st.storeBalanceOf[v][t]
    BY <1>3, <1>4
  <1>6. QED BY <1>2, <1>5 DEF Elsewhere

\* After i rounds over the holders of s, each of which gives the stake
\* after[u] to its holder u.
Rounds(users, streams, st, s, after, i) ==
    LET holders == st.storeStakeholders[s]
    IN  {x \in Storage(users, streams) :
          /\ x.stores = st.stores
          /\ \A u \in users :
              x.storeBalanceOf[u][s] =
                  IF \E k \in 1 .. i : holders[k] = u THEN after[u]
                  ELSE st.storeBalanceOf[u][s]
          /\ \/ x.storeStakeholders[s] = holders
             \/ \E k \in 1 .. i : after[holders[k]] = 0}

LEMMA NextRound ==
    ASSUME NEW users, NEW streams, NEW st \in Storage(users, streams), NEW s \in streams,
           NEW after,
           NEW i \in 1 .. Len(st.storeStakeholders[s]),
           NEW x \in Rounds(users, streams, st, s, after, i - 1),
           NEW y \in Storage(users, streams),
           Round(x, y, s, st.storeStakeholders[s][i],
                 after[st.storeStakeholders[s][i]])
    PROVE  y \in Rounds(users, streams, st, s, after, i)
  <1> DEFINE holders == st.storeStakeholders[s]
             u == holders[i]
  <1>1. /\ holders \in Seq(users) /\ u \in users /\ Len(holders) \in Nat
        /\ x \in Storage(users, streams)
        /\ x.storeBalanceOf \in [users -> [streams -> Nat]]
        /\ x.storeStakeholders \in [streams -> Seq(users)]
    <2>1. holders \in Seq(users)
      BY DEF Storage
    <2>2. u \in users /\ Len(holders) \in Nat
      BY <2>1
    <2>3. x \in Storage(users, streams)
      BY DEF Rounds
    <2>4. QED BY <2>1, <2>2, <2>3 DEF Storage
  <1>2. \A k \in 1 .. i : k \in 1 .. i - 1 \/ k = i
    OBVIOUS
  <1>3. \A k \in 1 .. i - 1 : k \in 1 .. i
    OBVIOUS
  <1>4. i \in 1 .. i
    OBVIOUS
  <1>5. y.stores = st.stores
    BY DEF Round, Rounds
  <1>6. ASSUME NEW v \in users
        PROVE  y.storeBalanceOf[v][s] = IF \E k \in 1 .. i : holders[k] = v THEN after[v]
                                        ELSE st.storeBalanceOf[v][s]
    <2>1. x.storeBalanceOf[v][s] = IF \E k \in 1 .. i - 1 : holders[k] = v THEN after[v]
                                   ELSE st.storeBalanceOf[v][s]
      BY DEF Rounds
    <2>2. y.storeBalanceOf[v][s] = IF v = u THEN after[u] ELSE x.storeBalanceOf[v][s]
      BY <1>1 DEF Round
    <2> HIDE DEF holders
    <2>3. QED BY <1>2, <1>3, <1>4, <2>1, <2>2
  <1>7. \/ y.storeStakeholders[s] = holders
        \/ \E k \in 1 .. i : after[holders[k]] = 0
    <2>1. \/ x.storeStakeholders[s] = holders
          \/ \E k \in 1 .. i - 1 : after[holders[k]] = 0
      BY DEF Rounds
    <2>2. CASE y.storeStakeholders = x.storeStakeholders
      <3> HIDE DEF holders
      <3>1. QED BY <1>3, <2>1, <2>2
    <2>3. CASE y.storeStakeholders # x.storeStakeholders
      <3>1. after[u] = 0
        BY <2>3 DEF Round
      <3> HIDE DEF holders
      <3>2. QED BY <1>4, <3>1 DEF u
    <2>4. QED BY <2>2, <2>3
  <1>8. QED BY <1>5, <1>6, <1>7 DEF Rounds

\* Rounds that go on from each other.
LEMMA AllRounds ==
    ASSUME NEW users, NEW streams, NEW st \in Storage(users, streams), NEW s \in streams,
           NEW after, NEW run, run[0] = st,
           \A i \in 1 .. Len(st.storeStakeholders[s]) :
              run[i - 1] \in Rounds(users, streams, st, s, after, i - 1) =>
                  run[i] \in Rounds(users, streams, st, s, after, i)
    PROVE  run[Len(st.storeStakeholders[s])]
              \in Rounds(users, streams, st, s, after, Len(st.storeStakeholders[s]))
  <1> DEFINE n == Len(st.storeStakeholders[s])
             D == {i \in 0 .. n : run[i] \in Rounds(users, streams, st, s, after, i)}
             counter == [i \in 0 .. n |-> i]
  <1>1. n \in Nat
    BY DEF Storage
  <1>2. st \in Rounds(users, streams, st, s, after, 0)
    BY DEF Rounds
  <1> HIDE DEF n
  <1>3. counter[0] \in D
    BY <1>1, <1>2
  <1>4. ASSUME NEW i \in 1 .. n, counter[i - 1] \in D PROVE counter[i] \in D
    <2>1. i - 1 \in 0 .. n /\ i \in 0 .. n
      BY <1>1
    <2>2. run[i - 1] \in Rounds(users, streams, st, s, after, i - 1)
      BY <1>4, <2>1
    <2>3. run[i] \in Rounds(users, streams, st, s, after, i)
      BY <2>2 DEF n
    <2>4. QED BY <2>1, <2>3
  <1>5. \A i \in 0 .. n : counter[i] \in D
    <2> HIDE DEF counter, D
    <2>1. QED BY <1>1, <1>3, <1>4, LoopInvariant
  <1>6. n \in 0 .. n
    BY <1>1
  <1>7. run[n] \in Rounds(users, streams, st, s, after, n)
    BY <1>5, <1>6
  <1>8. QED BY <1>7 DEF n

LEMMA ClearingLoop ==
    ASSUME NEW users, NEW streams, IsFiniteSet(streams),
           NEW st \in Storage(users, streams), NEW s \in streams
    PROVE  LET holders == st.storeStakeholders[s]
           IN  /\ ClearHolders(st, s, holders) \in Elsewhere(users, streams, st, s)
               /\ ClearHolders(st, s, holders)
                    \in Rounds(users, streams, st, s, [u \in users |-> 0], Len(holders))
  <1> DEFINE holders == st.storeStakeholders[s]
             n == Len(holders)
             after == [u \in users |-> 0]
  <1>1. holders \in Seq(users) /\ n \in Nat /\ \A i \in 1 .. n : holders[i] \in users
    <2>1. holders \in Seq(users)
      BY DEF Storage
    <2>2. QED BY <2>1
  <1> HIDE DEF holders
  <1>2. PICK run : ClearRun(run, st, s, holders)
    BY <1>1, ClearingRuns
  <1>3. ASSUME NEW i \in 1 .. n, run[i - 1] \in Storage(users, streams)
        PROVE  /\ run[i] \in Storage(users, streams)
               /\ Round(run[i - 1], run[i], s, holders[i], after[holders[i]])
    <2>1. run[i] = ClearHolder(run[i - 1], s, holders[i]) /\ after[holders[i]] = 0
      BY <1>1, <1>2 DEF ClearRun
    <2>2. QED BY <1>1, <1>3, <2>1, ClearingRound
  <1> HIDE DEF after
  <1>4. run[0] = st /\ run[n] = ClearHolders(st, s, holders)
    BY <1>2 DEF ClearRun
  <1>5. run[n] \in Elsewhere(users, streams, st, s)
    <2> DEFINE D == Elsewhere(users, streams, st, s)
    <2>1. run[0] \in D
      BY <1>4 DEF Elsewhere
    <2>2. ASSUME NEW i \in 1 .. n, run[i - 1] \in D PROVE run[i] \in D
      <3>1. run[i - 1] \in Storage(users, streams)
        BY <2>2 DEF Elsewhere
      <3>2. QED BY <1>1, <1>3, <2>2, <3>1, RoundElsewhere
    <2> HIDE DEF D, n
    <2>3. \A i \in 0 .. n : run[i] \in D
      BY <1>1, <2>1, <2>2, LoopInvariant
    <2>4. QED BY <1>1, <2>3 DEF D
  <1>6. run[n] \in Rounds(users, streams, st, s, after, n)
    <2>1. ASSUME NEW i \in 1 .. n, run[i - 1] \in Rounds(users, streams, st, s, after, i - 1)
          PROVE  run[i] \in Rounds(users, streams, st, s, after, i)
      <3>1. run[i - 1] \in Storage(users, streams)
        BY <2>1 DEF Rounds
      <3>2. QED BY <1>3, <2>1, <3>1, NextRound DEF holders
    <2>2. QED BY <1>4, <2>1, AllRounds DEF holders
  <1>7. QED BY <1>4, <1>5, <1>6 DEF holders, after

\* A fee that finishes the only holder empties the list.
EmptiesLast(st, s, amount, y) ==
    LET holders == st.storeStakeholders[s]
    IN  Len(holders) = 1 /\ AfterFee(st, s, amount, holders[1]) = 0 =>
            y.storeStakeholders[s] = << >>

LEMMA ChargingLoop ==
    ASSUME NEW users, NEW streams, IsFiniteSet(streams),
           NEW st \in Storage(users, streams), NEW s \in streams, st.stores[s] > 0,
           NEW amount \in Nat
    PROVE  LET holders == st.storeStakeholders[s]
               charged == ChargeHolders(st, s, amount, holders)
           IN  /\ charged \in Elsewhere(users, streams, st, s)
               /\ IsInjective(holders) =>
                    charged \in Rounds(users, streams, st, s,
                                       [u \in users |-> AfterFee(st, s, amount, u)],
                                       Len(holders))
               /\ EmptiesLast(st, s, amount, charged)
  <1> DEFINE holders == st.storeStakeholders[s]
             n == Len(holders)
             after == [u \in users |-> AfterFee(st, s, amount, u)]
  <1>1. /\ holders \in Seq(users) /\ n \in Nat /\ DOMAIN holders = 1 .. n
        /\ \A i \in 1 .. n : holders[i] \in users
    <2>1. holders \in Seq(users)
      BY DEF Storage
    <2>2. QED BY <2>1
  <1> HIDE DEF holders
  <1>2. PICK run : ChargeRun(run, st, s, amount, holders)
    BY <1>1, ChargingRuns
  <1>3. ASSUME NEW i \in 1 .. n, run[i - 1] \in Storage(users, streams),
               run[i - 1].stores = st.stores
        PROVE  /\ run[i] \in Storage(users, streams)
               /\ Round(run[i - 1], run[i], s, holders[i],
                        AfterFee(run[i - 1], s, amount, holders[i]))
    <2>1. run[i] = ChargeHolder(run[i - 1], s, amount, holders, holders[i])
      BY <1>2 DEF ChargeRun
    <2>2. holders[i] \in users /\ run[i - 1].stores[s] > 0
      BY <1>1, <1>3
    <2> DEFINE x == run[i - 1]
    <2>3. x \in Storage(users, streams) /\ x.stores[s] > 0
      BY <1>3, <2>2
    <2> HIDE DEF x
    <2>4. /\ ChargeHolder(x, s, amount, holders, holders[i]) \in Storage(users, streams)
          /\ Round(x, ChargeHolder(x, s, amount, holders, holders[i]), s,
                   holders[i], AfterFee(x, s, amount, holders[i]))
      BY <1>1, <2>2, <2>3, ChargingRound
    <2>5. QED BY <2>1, <2>4 DEF x
  <1>4. run[0] = st /\ run[n] = ChargeHolders(st, s, amount, holders)
    BY <1>2 DEF ChargeRun
  <1>5. run[n] \in Elsewhere(users, streams, st, s)
    <2> DEFINE D == Elsewhere(users, streams, st, s)
    <2>1. run[0] \in D
      BY <1>4 DEF Elsewhere
    <2>2. ASSUME NEW i \in 1 .. n, run[i - 1] \in D PROVE run[i] \in D
      <3>1. run[i - 1] \in Storage(users, streams) /\ run[i - 1].stores = st.stores
        BY <2>2 DEF Elsewhere
      <3>2. QED BY <1>1, <1>3, <2>2, <3>1, RoundElsewhere
    <2> HIDE DEF D, n
    <2>3. \A i \in 0 .. n : run[i] \in D
      BY <1>1, <2>1, <2>2, LoopInvariant
    <2>4. QED BY <1>1, <2>3 DEF D
  <1>6. ASSUME IsInjective(holders) PROVE run[n] \in Rounds(users, streams, st, s, after, n)
    <2>1. ASSUME NEW i \in 1 .. n, run[i - 1] \in Rounds(users, streams, st, s, after, i - 1)
          PROVE  run[i] \in Rounds(users, streams, st, s, after, i)
      <3>1. /\ run[i - 1] \in Storage(users, streams) /\ run[i - 1].stores = st.stores
            /\ \A u \in users :
                run[i - 1].storeBalanceOf[u][s] =
                    IF \E k \in 1 .. i - 1 : holders[k] = u THEN after[u]
                    ELSE st.storeBalanceOf[u][s]
        BY <2>1 DEF Rounds, holders
      <3>2. ~ \E k \in 1 .. i - 1 : holders[k] = holders[i]
        BY <1>1, <1>6 DEF IsInjective
      <3>3. run[i - 1].storeBalanceOf[holders[i]][s] = st.storeBalanceOf[holders[i]][s]
        BY <1>1, <3>1, <3>2
      <3>4. AfterFee(run[i - 1], s, amount, holders[i]) = after[holders[i]]
        BY <1>1, <3>1, <3>3 DEF AfterFee
      <3> HIDE DEF after
      <3>5. QED BY <1>3, <2>1, <3>1, <3>4, NextRound DEF holders
    <2> HIDE DEF after
    <2>2. QED BY <1>4, <2>1, AllRounds DEF holders
  <1>7. ASSUME n = 1, AfterFee(st, s, amount, holders[1]) = 0
        PROVE  run[n].storeStakeholders[s] = << >>
    <2>1. holders = <<holders[1]>> /\ holders[1] \in users
      BY <1>1, <1>7
    <2>2. run[1] = ChargeHolder(run[0], s, amount, holders, holders[1])
      BY <1>2, <1>7 DEF ChargeRun
    <2>3. QED BY <1>1, <1>4, <1>7, <2>1, <2>2, ChargingRound
  <1>8. EmptiesLast(st, s, amount, run[n])
    BY <1>7 DEF EmptiesLast, holders
  <1>9. QED BY <1>4, <1>5, <1>6, <1>8 DEF holders, after

\* In st one of several holders of s has all that s has, and a fee takes it.
FinishesOne(users, st, y, s) ==
    /\ y.stores[s] < st.stores[s]
    /\ Len(st.storeStakeholders[s]) > 1
    /\ \E u \in users : st.storeBalanceOf[u][s] >= st.stores[s] /\ y.storeBalanceOf[u][s] = 0

\* A share of the fee is no more than the stake, and all of it only for who has
\* at least what the stream has.
LEMMA WholeStake ==
    ASSUME NEW stake \in Nat \ {0}, NEW all \in Nat \ {0}, NEW amount \in Nat,
           Less(stake, (stake \div all) * amount) = 0
    PROVE  amount > 0 /\ stake >= all
  <1> DEFINE share == stake \div all
  <1>1. share \in Nat /\ (stake < all => share = 0)
    OBVIOUS
  <1> HIDE DEF share
  <1>2. share * amount \in Nat /\ (share = 0 \/ amount = 0 => share * amount = 0)
    BY <1>1
  <1>3. share * amount >= stake
    BY <1>2 DEF Less, share
  <1>4. QED BY <1>1, <1>2, <1>3

\* A capture leaves the lists exact, unless it finishes one of several holders.
LEMMA CaptureLists ==
    ASSUME NEW users, NEW streams, IsFiniteSet(streams),
           NEW st \in Storage(users, streams), NEW s \in streams,
           st.stores[s] > 0, NEW amount \in Nat,
           NEW t \in streams, Names(users, st, t)
    PROVE  \/ Names(users, Capture(st, s, amount), t)
           \/ t = s /\ FinishesOne(users, st, Capture(st, s, amount), s)
  <1> DEFINE holders == st.storeStakeholders[s]
             y == Capture(st, s, amount)
             cleared == ClearHolders(st, s, holders)
             charged == ChargeHolders(st, s, amount, holders)
  <1>1. /\ st.stores \in [streams -> Nat] /\ st.stores[s] \in Nat \ {0}
        /\ \A u \in users : st.storeBalanceOf[u][s] \in Nat
        /\ st.storeStakeholders \in [streams -> Seq(users)] /\ holders \in Seq(users)
    BY DEF Storage
  <1>2. /\ Len(holders) \in Nat /\ DOMAIN holders = 1 .. Len(holders)
        /\ \A k \in 1 .. Len(holders) : holders[k] \in users
    BY <1>1
  <1>3. CASE st.stores[s] < amount
    <2> DEFINE nothing == [u \in users |-> 0]
    <2>0. /\ cleared \in Elsewhere(users, streams, st, s)
          /\ cleared \in Rounds(users, streams, st, s, nothing, Len(holders))
      BY ClearingLoop
    <2>1. cleared \in Storage(users, streams)
      BY <2>0 DEF Elsewhere
    <2>2. /\ y.storeBalanceOf = cleared.storeBalanceOf
          /\ y.storeStakeholders = [cleared.storeStakeholders EXCEPT ![s] = << >>]
      BY <1>3, <2>1 DEF Capture, CaptureAll, Storage
    <2>3. cleared.storeStakeholders \in [streams -> Seq(users)]
      BY <2>1 DEF Storage
    <2>4. CASE t # s
      <3>1. /\ cleared.storeStakeholders[t] = st.storeStakeholders[t]
            /\ \A u \in users : cleared.storeBalanceOf[u][t] = st.storeBalanceOf[u][t]
        <4> HIDE DEF cleared
        <4>1. QED BY <2>0, <2>4 DEF Elsewhere
      <3>2. y.storeStakeholders[t] = st.storeStakeholders[t]
        BY <2>2, <2>3, <2>4, <3>1
      <3> HIDE DEF y, cleared
      <3>3. Names(users, y, t)
        BY <2>2, <3>1, <3>2 DEF Names
      <3>4. QED BY <3>3 DEF y
    <2>5. CASE t = s
      <3>1. \A u \in users : cleared.storeBalanceOf[u][s] =
                IF \E k \in 1 .. Len(holders) : holders[k] = u THEN 0
                ELSE st.storeBalanceOf[u][s]
        <4> HIDE DEF cleared
        <4>1. \A u \in users : nothing[u] = 0
          OBVIOUS
        <4> HIDE DEF nothing
        <4>2. QED BY <2>0, <4>1 DEF Rounds
      <3>2. y.storeStakeholders[s] = << >>
        BY <2>2, <2>3
      <3> HIDE DEF y, cleared, holders
      <3>3. ASSUME NEW u \in users PROVE ~ (y.storeBalanceOf[u][s] > 0)
        <4>1. st.storeBalanceOf[u][s] > 0 => \E k \in 1 .. Len(holders) : holders[k] = u
          BY <1>2, <2>5 DEF Names, ToSet, holders
        <4>2. QED BY <1>1, <2>2, <3>1, <4>1
      <3>4. IsInjective(<< >>) /\ ToSet(<< >>) = {}
        BY DEF IsInjective, ToSet
      <3>5. Names(users, y, s)
        BY <3>2, <3>3, <3>4 DEF Names
      <3>6. QED BY <2>5, <3>5 DEF y
    <2>6. QED BY <2>4, <2>5
  <1>4. CASE ~ (st.stores[s] < amount)
    <2>0. /\ charged \in Elsewhere(users, streams, st, s)
          /\ Len(holders) = 1 /\ AfterFee(st, s, amount, holders[1]) = 0 =>
                charged.storeStakeholders[s] = << >>
      <3>1. charged \in Elsewhere(users, streams, st, s)
        BY ChargingLoop
      <3>2. ASSUME Len(holders) = 1, AfterFee(st, s, amount, holders[1]) = 0
            PROVE  charged.storeStakeholders[s] = << >>
        <4>1. EmptiesLast(st, s, amount, charged)
          BY ChargingLoop
        <4> HIDE DEF charged
        <4>2. QED BY <3>2, <4>1 DEF EmptiesLast
      <3>3. QED BY <3>1, <3>2
    <2>1. charged \in Storage(users, streams) /\ charged.stores = st.stores
      <3> HIDE DEF charged
      <3>1. QED BY <2>0 DEF Elsewhere
    <2>2. /\ y.storeBalanceOf = charged.storeBalanceOf
          /\ y.storeStakeholders = charged.storeStakeholders
          /\ y.stores[s] = st.stores[s] - amount
      BY <1>4, <2>1 DEF Capture, CaptureSome, Storage
    <2>3. CASE t # s
      <3>1. /\ charged.storeStakeholders[t] = st.storeStakeholders[t]
            /\ \A u \in users : charged.storeBalanceOf[u][t] = st.storeBalanceOf[u][t]
        <4> HIDE DEF charged
        <4>1. QED BY <2>0, <2>3 DEF Elsewhere
      <3> HIDE DEF y, charged
      <3>2. Names(users, y, t)
        BY <2>2, <3>1 DEF Names
      <3>3. QED BY <3>2 DEF y
    <2>4. CASE t = s
      <3> DEFINE after == [u \in users |-> AfterFee(st, s, amount, u)]
      <3>1. IsInjective(holders)
        BY <2>4 DEF Names
      <3>2. charged \in Rounds(users, streams, st, s, after, Len(holders))
        BY <3>1, ChargingLoop
      <3>3. /\ \A u \in users : charged.storeBalanceOf[u][s] =
                  IF \E k \in 1 .. Len(holders) : holders[k] = u THEN AfterFee(st, s, amount, u)
                  ELSE st.storeBalanceOf[u][s]
            /\ \/ charged.storeStakeholders[s] = holders
               \/ \E k \in 1 .. Len(holders) : AfterFee(st, s, amount, holders[k]) = 0
        BY <1>2, <3>2 DEF Rounds
      <3>4. \A u \in users :
                st.storeBalanceOf[u][s] > 0 <=> \E k \in 1 .. Len(holders) : holders[k] = u
        <4>1. ToSet(holders) = {u \in users : st.storeBalanceOf[u][s] > 0}
          BY <2>4 DEF Names
        <4> HIDE DEF holders
        <4>2. QED BY <1>2, <4>1 DEF ToSet
      <3> HIDE DEF y, charged, holders
      <3>5. \A u \in users : AfterFee(st, s, amount, u) \in Nat
        <4>1. ASSUME NEW u \in users PROVE AfterFee(st, s, amount, u) \in Nat
          <5> DEFINE share == st.storeBalanceOf[u][s] \div st.stores[s]
          <5>1. share \in Nat
            BY <1>1, <4>1, ShareType
          <5> HIDE DEF share
          <5>2. share * amount \in Nat
            BY <5>1
          <5>3. QED BY <1>1, <4>1, <5>2, LessType DEF AfterFee, share
        <4>2. QED BY <4>1
      <3>6. CASE \A k \in 1 .. Len(holders) : AfterFee(st, s, amount, holders[k]) # 0
        <4>1. y.storeStakeholders[s] = holders
          BY <2>2, <3>3, <3>6
        <4>2. ASSUME NEW u \in users
              PROVE  y.storeBalanceOf[u][s] > 0 <=> st.storeBalanceOf[u][s] > 0
          <5>1. CASE \E k \in 1 .. Len(holders) : holders[k] = u
            <6>1. y.storeBalanceOf[u][s] = AfterFee(st, s, amount, u)
              BY <2>2, <3>3, <4>2, <5>1
            <6>2. AfterFee(st, s, amount, u) \in Nat \ {0}
              BY <3>5, <3>6, <4>2, <5>1
            <6>3. st.storeBalanceOf[u][s] > 0
              BY <3>4, <4>2, <5>1
            <6>4. QED BY <6>1, <6>2, <6>3
          <5>2. CASE ~ \E k \in 1 .. Len(holders) : holders[k] = u
            BY <2>2, <3>3, <4>2, <5>2
          <5>3. QED BY <5>1, <5>2
        <4>3. Names(users, y, s)
          BY <2>4, <4>1, <4>2 DEF Names, holders
        <4>4. QED BY <2>4, <4>3 DEF y
      <3>7. ASSUME NEW k \in 1 .. Len(holders), AfterFee(st, s, amount, holders[k]) = 0
            PROVE  \/ Names(users, y, s)
                   \/ FinishesOne(users, st, y, s)
        <4> DEFINE u == holders[k]
        <4>1. u \in users /\ st.storeBalanceOf[u][s] \in Nat \ {0}
          BY <1>1, <1>2, <3>4
        <4>2. amount > 0 /\ st.storeBalanceOf[u][s] >= st.stores[s]
          BY <1>1, <3>7, <4>1, WholeStake DEF AfterFee
        <4>3. y.storeBalanceOf[u][s] = 0 /\ y.stores[s] < st.stores[s]
          BY <1>1, <2>2, <3>3, <3>7, <4>1, <4>2
        <4>4. CASE Len(holders) > 1
          BY <4>1, <4>2, <4>3, <4>4 DEF FinishesOne, holders
        <4>5. CASE Len(holders) = 1
          <5>1. k = 1
            BY <4>5
          <5>2. y.storeStakeholders[s] = << >>
            BY <2>0, <2>2, <3>7, <4>5, <5>1
          <5>3. ASSUME NEW v \in users PROVE ~ (y.storeBalanceOf[v][s] > 0)
            <6>1. CASE v = u
              BY <4>3, <6>1
            <6>2. CASE v # u
              <7>1. ~ \E j \in 1 .. Len(holders) : holders[j] = v
                BY <4>5, <5>1, <6>2
              <7>2. y.storeBalanceOf[v][s] = st.storeBalanceOf[v][s]
                BY <2>2, <3>3, <5>3, <7>1
              <7>3. QED BY <3>4, <5>3, <7>1, <7>2
            <6>3. QED BY <6>1, <6>2
          <5>4. IsInjective(<< >>) /\ ToSet(<< >>) = {}
            BY DEF IsInjective, ToSet
          <5>5. QED BY <5>2, <5>3, <5>4 DEF Names
        <4>6. QED BY <1>2, <4>4, <4>5
      <3>8. QED BY <2>4, <3>6, <3>7 DEF y
    <2>5. QED BY <2>3, <2>4
  <1>5. QED BY <1>3, <1>4

\* stake() adds a holder that the list does not name.
LEMMA StakeLists ==
    ASSUME NEW users, NEW streams, NEW st \in Storage(users, streams),
           NEW u \in users, NEW s \in streams, NEW amount \in Nat \ {0},
           NEW t \in streams, Names(users, st, t)
    PROVE  Names(users, Stake(st, u, s, amount), t)
  <1> DEFINE y == Stake(st, u, s, amount)
             holders == st.storeStakeholders[s]
             list == IF NewHolder(st, u, s) THEN Append(holders, u) ELSE holders
  <1>1. /\ st.storeBalanceOf \in [users -> [streams -> Nat]]
        /\ st.storeStakeholders \in [streams -> Seq(users)]
        /\ holders \in Seq(users)
    BY DEF Storage
  <1>2. /\ y.storeBalanceOf = [st.storeBalanceOf EXCEPT ![u][s] = @ + amount]
        /\ y.storeStakeholders = [st.storeStakeholders EXCEPT ![s] = list]
    BY DEF Stake, Storage
  <1> HIDE DEF y
  <1>3. CASE t # s
    <2>1. y.storeStakeholders[t] = st.storeStakeholders[t]
      BY <1>1, <1>2, <1>3
    <2>2. \A v \in users : y.storeBalanceOf[v][t] = st.storeBalanceOf[v][t]
      BY <1>1, <1>2, <1>3
    <2>3. Names(users, y, t)
      BY <2>1, <2>2 DEF Names
    <2>4. QED BY <2>3 DEF y
  <1>4. CASE t = s
    <2>1. y.storeStakeholders[s] = list
      BY <1>1, <1>2
    <2>2. \A v \in users : y.storeBalanceOf[v][s] =
            IF v = u THEN st.storeBalanceOf[u][s] + amount ELSE st.storeBalanceOf[v][s]
      BY <1>1, <1>2
    <2>3. IsInjective(holders) /\ ToSet(holders) = {v \in users : st.storeBalanceOf[v][s] > 0}
      BY <1>4 DEF Names
    <2>4. st.storeBalanceOf[u][s] \in Nat
      BY <1>1
    <2> HIDE DEF holders
    <2>5. IsInjective(list) /\ ToSet(list) = ToSet(holders) \cup {u}
      <3>1. CASE NewHolder(st, u, s)
        <4>1. u \notin ToSet(holders)
          BY <2>3, <2>4, <3>1 DEF NewHolder
        <4> DEFINE n == Len(holders)
        <4>2. /\ n \in Nat /\ DOMAIN holders = 1 .. n /\ DOMAIN list = 1 .. n + 1
              /\ \A i \in 1 .. n : list[i] = holders[i]
              /\ list[n + 1] = u
          BY <1>1, <3>1
        <4>3. \A i \in 1 .. n : holders[i] # u
          BY <4>1, <4>2 DEF ToSet
        <4> HIDE DEF list, n
        <4>4. \A i \in 1 .. n + 1 : i \in 1 .. n \/ i = n + 1
          BY <4>2
        <4>5. IsInjective(list)
          BY <2>3, <4>2, <4>3, <4>4 DEF IsInjective
        <4>6. n + 1 \in 1 .. n + 1 /\ \A i \in 1 .. n : i \in 1 .. n + 1
          BY <4>2
        <4>7. ToSet(list) = ToSet(holders) \cup {u}
          BY <4>2, <4>4, <4>6 DEF ToSet
        <4>8. QED BY <4>5, <4>7
      <3>2. CASE ~ NewHolder(st, u, s)
        <4>1. u \in ToSet(holders)
          BY <2>3, <2>4, <3>2 DEF NewHolder
        <4>2. QED BY <2>3, <3>2, <4>1
      <3>3. QED BY <3>1, <3>2
    <2> HIDE DEF list
    <2>6. {v \in users : y.storeBalanceOf[v][s] > 0} = ToSet(holders) \cup {u}
      BY <2>2, <2>3, <2>4
    <2>7. Names(users, y, s)
      BY <2>1, <2>5, <2>6 DEF Names
    <2>8. QED BY <1>4, <2>7 DEF y
  <1>5. QED BY <1>3, <1>4

=============================================================================

------------------------- MODULE NodeManagerProofs -------------------------
(***************************************************************************)
(* Proofs about NodeRegistry and about NodeManager, which keeps its list.  *)
(***************************************************************************)
EXTENDS NodeManager, FoldLemmas

(***************************************************************************)
(* Proofs about NodeRegistry: its list is well formed for every set of     *)
(* addresses, however joins, leaves and kicks are interleaved.             *)
(***************************************************************************)

(***************************************************************************)
(* Type correctness.                                                       *)
(***************************************************************************)

\* Appending a node keeps the types.
LEMMA UpsertType ==
    ASSUME NodeRegistryTypeOK, NEW a \in Addresses, Upsert(a),
           UNCHANGED <<accessVars, blockNumber>>
    PROVE  NodeRegistryTypeOK'
  BY DEF NodeRegistryTypeOK, Upsert, AddLast, IsNew, accessVars, listVars,
         AddressOrNone, WhitelistState

\* The count does not go below zero: a list that holds a node has a length.
LEMMA UnlinkType ==
    ASSUME NodeRegistryTypeOK, ListWellFormed, NEW a \in Addresses, Unlink(a),
           blockNumber' = blockNumber,
           whitelist' \in [Addresses -> WhitelistState], requiresWhitelist' \in BOOLEAN
    PROVE  NodeRegistryTypeOK'
  <1>1. totalNodes # 0
    BY DEF ListWellFormed, IsChain, Unlink, Found, NodeRegistryTypeOK
  <1>2. totalNodes' \in Nat
    BY <1>1 DEF Unlink, NodeRegistryTypeOK
  <1>3. QED
    BY <1>2 DEF NodeRegistryTypeOK, Unlink, HeadAfterRemoval, TailAfterRemoval,
                StartAfterRemoval, AddressOrNone, WhitelistState

(***************************************************************************)
(* The list.                                                               *)
(***************************************************************************)

\* The well-formedness of the list depends on the list's variables alone.
LEMMA ListFrame ==
    ASSUME ListWellFormed, UNCHANGED listVars
    PROVE  ListWellFormed'
  <1>1. PICK s \in [1 .. totalNodes -> Addresses] : IsChain(s)
    BY DEF ListWellFormed
  <1>2. IsChain(s)' /\ s \in [1 .. totalNodes' -> Addresses]
    BY <1>1 DEF IsChain, listVars
  <1>3. (\E x \in [1 .. totalNodes -> Addresses] : IsChain(x))'
    BY <1>2
  <1>4. QED
    BY <1>3 DEF ListWellFormed, listVars

\* A sequence of distinct elements, extended with one it does not hold.
LEMMA Extended ==
    ASSUME NEW n \in Nat, NEW s \in [1 .. n -> Addresses], NEW a \in Addresses,
           \A i \in 1 .. n : s[i] # a,
           \A i, j \in 1 .. n : s[i] = s[j] => i = j
    PROVE  \E t \in [1 .. n + 1 -> Addresses] :
              /\ \A i \in 1 .. n : t[i] = s[i]
              /\ t[n + 1] = a
              /\ \A i, j \in 1 .. n + 1 : t[i] = t[j] => i = j
  <1> DEFINE t == [i \in 1 .. n + 1 |-> IF i = n + 1 THEN a ELSE s[i]]
  <1>1. t \in [1 .. n + 1 -> Addresses]
    OBVIOUS
  <1>2. /\ \A i \in 1 .. n : t[i] = s[i]
        /\ t[n + 1] = a
    OBVIOUS
  <1> HIDE DEF t
  <1>3. \A i, j \in 1 .. n + 1 : t[i] = t[j] => i = j
    <2>1. \A i \in 1 .. n + 1 : i \in 1 .. n \/ i = n + 1
      OBVIOUS
    <2>2. QED BY <1>2, <2>1
  <1>4. QED BY <1>1, <1>2, <1>3

\* A sequence of distinct elements without the one at position k.
LEMMA Shortened ==
    ASSUME NEW n \in Nat, NEW s \in [1 .. n -> Addresses], NEW k \in 1 .. n,
           \A i, j \in 1 .. n : s[i] = s[j] => i = j
    PROVE  \E t \in [1 .. n - 1 -> Addresses] :
              /\ \A i \in 1 .. n - 1 : t[i] = IF i < k THEN s[i] ELSE s[i + 1]
              /\ \A i, j \in 1 .. n - 1 : t[i] = t[j] => i = j
              /\ \A i \in 1 .. n : i # k => \E j \in 1 .. n - 1 : t[j] = s[i]
  <1> DEFINE t == [i \in 1 .. n - 1 |-> IF i < k THEN s[i] ELSE s[i + 1]]
  <1>1. t \in [1 .. n - 1 -> Addresses]
    OBVIOUS
  <1>2. \A i \in 1 .. n - 1 : t[i] = IF i < k THEN s[i] ELSE s[i + 1]
    OBVIOUS
  <1> HIDE DEF t
  <1>3. \A i, j \in 1 .. n - 1 : t[i] = t[j] => i = j
    BY <1>2
  <1>4. ASSUME NEW i \in 1 .. n, i # k
        PROVE  \E j \in 1 .. n - 1 : t[j] = s[i]
    <2>1. CASE i < k
      <3>1. i \in 1 .. n - 1 /\ t[i] = s[i]
        BY <1>2, <2>1
      <3>2. QED BY <3>1
    <2>2. CASE i > k
      <3>1. i - 1 \in 1 .. n - 1 /\ t[i - 1] = s[i]
        BY <1>2, <2>2
      <3>2. QED BY <3>1
    <2>3. QED BY <1>4, <2>1, <2>2
  <1>5. QED BY <1>1, <1>2, <1>3, <1>4

\* A node that joins becomes the last of the chain, and the others stay as they are.
LEMMA AddLastWellFormed ==
    ASSUME NodeRegistryTypeOK, ListWellFormed, NEW a \in Addresses, IsNew(a), AddLast(a)
    PROVE  /\ ListWellFormed'
           /\ \E s \in [1 .. totalNodes -> Addresses],
                 t \in [1 .. totalNodes' -> Addresses] :
                /\ IsChain(s) /\ IsChain(t)'
                /\ \A i \in 1 .. totalNodes : t[i] = s[i]
                /\ t[totalNodes + 1] = a
  <1> DEFINE n == totalNodes
  <1>0. /\ n \in Nat
        /\ next \in [Addresses -> AddressOrNone]
        /\ prev \in [Addresses -> AddressOrNone]
        /\ next[a] = NoAddress /\ prev[a] = NoAddress
        /\ blockNumber # 0
    BY DEF NodeRegistryTypeOK, ListWellFormed, IsNew
  <1>1. PICK s \in [1 .. n -> Addresses] : IsChain(s)
    BY DEF ListWellFormed
  <1>2. /\ \A i \in 1 .. n : s[i] \in registered /\ s[i] # a
        /\ \A b \in registered : \E i \in 1 .. n : s[i] = b
        /\ \A i, j \in 1 .. n : s[i] = s[j] => i = j
    BY <1>1 DEF IsChain, IsNew
  <1>3. PICK t \in [1 .. n + 1 -> Addresses] :
            /\ \A i \in 1 .. n : t[i] = s[i]
            /\ t[n + 1] = a
            /\ \A i, j \in 1 .. n + 1 : t[i] = t[j] => i = j
    <2>1. /\ n \in Nat
          /\ s \in [1 .. n -> Addresses]
          /\ \A i \in 1 .. n : s[i] # a
          /\ \A i, j \in 1 .. n : s[i] = s[j] => i = j
      BY <1>0, <1>2
    <2> HIDE DEF n
    <2>2. QED BY <2>1, Extended
  <1>4. /\ totalNodes' = n + 1
        /\ registered' = registered \cup {a}
        /\ tailNode' = a
    BY DEF AddLast
  <1>5. /\ \A i \in 1 .. n + 1 : t[i] \in registered'
        /\ \A b \in registered' : \E i \in 1 .. n + 1 : t[i] = b
    <2>1. \A i \in 1 .. n + 1 : i \in 1 .. n \/ i = n + 1
      BY <1>0
    <2>2. \A i \in 1 .. n + 1 : t[i] \in registered'
      BY <1>2, <1>3, <1>4, <2>1
    <2>3. ASSUME NEW b \in registered
          PROVE  \E i \in 1 .. n + 1 : t[i] = b
      <3>1. PICK i \in 1 .. n : s[i] = b
        BY <1>2
      <3>2. i \in 1 .. n + 1 /\ t[i] = b
        BY <1>0, <1>3, <3>1
      <3>3. QED BY <3>2
    <2>4. n + 1 \in 1 .. n + 1
      BY <1>0
    <2>5. QED BY <1>3, <1>4, <2>2, <2>3, <2>4
  <1>6. n = 0 <=> headNode = NoAddress
    <2>1. n # 0 => s[1] \in Addresses
      BY <1>0
    <2>2. headNode = IF n = 0 THEN NoAddress ELSE s[1]
      BY <1>1 DEF IsChain
    <2>3. QED BY <2>1, <2>2, NoAddressAssumption
  <1>7. /\ headNode' = t[1]
        /\ \A i \in 1 .. n + 1 :
            /\ next'[t[i]] = IF i = n + 1 THEN NoAddress ELSE t[i + 1]
            /\ prev'[t[i]] = IF i = 1 THEN NoAddress ELSE t[i - 1]
        /\ \A b \in Addresses \ registered' :
            next'[b] = NoAddress /\ prev'[b] = NoAddress
        /\ startBlockNumber' = 0 <=> headNode' = NoAddress
    <2>0. \A b \in Addresses \ registered : next[b] = NoAddress /\ prev[b] = NoAddress
      BY DEF ListWellFormed
    <2>1. CASE n = 0
      <3>1. /\ headNode' = a
            /\ next' = next
            /\ prev' = prev
            /\ startBlockNumber' = blockNumber
        BY <1>6, <2>1 DEF AddLast
      <3>2. QED
        BY <1>0, <1>3, <1>4, <2>0, <2>1, <3>1, NoAddressAssumption
    <2>2. CASE n # 0
      <3>1. /\ headNode' = headNode
            /\ startBlockNumber' = startBlockNumber
            /\ next' = [next EXCEPT ![tailNode] = a]
            /\ prev' = [prev EXCEPT ![a] = tailNode]
            /\ headNode # NoAddress
        BY <1>6, <2>2 DEF AddLast
      <3>2. /\ tailNode = s[n]
            /\ headNode = s[1]
            /\ n \in 1 .. n /\ 1 \in 1 .. n
            /\ s[n] \in Addresses
        BY <1>0, <1>1, <2>2 DEF IsChain
      <3>3. /\ next' = [next EXCEPT ![s[n]] = a]
            /\ prev' = [prev EXCEPT ![a] = s[n]]
            /\ s[n] # a
        BY <1>2, <3>1, <3>2
      <3>4. ASSUME NEW i \in 1 .. n + 1
            PROVE  /\ next'[t[i]] = IF i = n + 1 THEN NoAddress ELSE t[i + 1]
                   /\ prev'[t[i]] = IF i = 1 THEN NoAddress ELSE t[i - 1]
        <4>1. CASE i = n + 1
          BY <1>0, <1>3, <3>2, <3>3, <2>2, <4>1
        <4>2. CASE i \in 1 .. n
          <5>1. /\ next[s[i]] = IF i = n THEN NoAddress ELSE s[i + 1]
                /\ prev[s[i]] = IF i = 1 THEN NoAddress ELSE s[i - 1]
                /\ t[i] = s[i] /\ s[i] # a /\ s[i] \in Addresses
            BY <1>1, <1>2, <1>3, <4>2 DEF IsChain
          <5>2. prev'[t[i]] = IF i = 1 THEN NoAddress ELSE t[i - 1]
            BY <1>0, <1>3, <3>3, <4>2, <5>1
          <5>3. next'[t[i]] = t[i + 1]
            <6>1. CASE i = n
              BY <1>0, <1>3, <3>2, <3>3, <5>1, <6>1
            <6>2. CASE i # n
              <7>1. s[i] # s[n]
                BY <1>2, <3>2, <4>2, <6>2
              <7>2. i + 1 \in 1 .. n
                BY <1>0, <4>2, <6>2
              <7>3. QED
                BY <1>0, <1>3, <3>3, <5>1, <6>2, <7>1, <7>2
            <6>3. QED BY <6>1, <6>2
          <5>4. QED BY <1>0, <4>2, <5>2, <5>3
        <4>3. QED BY <1>0, <4>1, <4>2
      <3>5. \A b \in Addresses \ registered' :
                next'[b] = NoAddress /\ prev'[b] = NoAddress
        BY <1>0, <1>2, <1>4, <2>0, <3>2, <3>3
      <3>6. startBlockNumber' = 0 <=> headNode' = NoAddress
        BY <3>1 DEF ListWellFormed
      <3>7. headNode' = t[1]
        BY <1>3, <3>1, <3>2
      <3>8. QED BY <3>4, <3>5, <3>6, <3>7
    <2>3. QED BY <2>1, <2>2
  <1>8. IsChain(t)'
    BY <1>0, <1>3, <1>4, <1>5, <1>7 DEF IsChain
  <1>9. t \in [1 .. totalNodes' -> Addresses]
    BY <1>3, <1>4
  <1>10. (\E x \in [1 .. totalNodes -> Addresses] : IsChain(x))'
    BY <1>8, <1>9
  <1>11. ListWellFormed'
    BY <1>7, <1>10 DEF ListWellFormed
  <1>12. QED
    BY <1>1, <1>3, <1>8, <1>9, <1>11

\* A node that leaves is taken out of the chain, wherever it is: its neighbours are
\* joined, or the head or the tail moves, and the order of the others stays.
LEMMA UnlinkWellFormed ==
    ASSUME NodeRegistryTypeOK, ListWellFormed, NEW a \in Addresses, Unlink(a)
    PROVE  /\ ListWellFormed'
           /\ \E s \in [1 .. totalNodes -> Addresses],
                 t \in [1 .. totalNodes' -> Addresses], k \in 1 .. totalNodes :
                /\ IsChain(s) /\ IsChain(t)'
                /\ s[k] = a
                /\ \A i \in 1 .. totalNodes - 1 : t[i] = IF i < k THEN s[i] ELSE s[i + 1]
  <1> DEFINE n == totalNodes
  <1>0. /\ n \in Nat
        /\ next \in [Addresses -> AddressOrNone]
        /\ prev \in [Addresses -> AddressOrNone]
        /\ startBlockNumber = 0 <=> headNode = NoAddress
        /\ \A b \in Addresses \ registered : next[b] = NoAddress /\ prev[b] = NoAddress
    BY DEF NodeRegistryTypeOK, ListWellFormed
  <1>1. PICK s \in [1 .. n -> Addresses] : IsChain(s)
    BY DEF ListWellFormed
  <1>2. /\ \A i \in 1 .. n : s[i] \in registered
        /\ \A b \in registered : \E i \in 1 .. n : s[i] = b
        /\ \A i, j \in 1 .. n : s[i] = s[j] => i = j
    BY <1>1 DEF IsChain
  <1>3. PICK k \in 1 .. n : s[k] = a
    BY <1>2 DEF Unlink, Found
  <1>4. /\ n # 0
        /\ headNode = s[1]
        /\ tailNode = s[n]
        /\ next[a] = IF k = n THEN NoAddress ELSE s[k + 1]
        /\ prev[a] = IF k = 1 THEN NoAddress ELSE s[k - 1]
    BY <1>0, <1>1, <1>3 DEF IsChain
  <1>5. PICK t \in [1 .. n - 1 -> Addresses] :
            /\ \A i \in 1 .. n - 1 : t[i] = IF i < k THEN s[i] ELSE s[i + 1]
            /\ \A i, j \in 1 .. n - 1 : t[i] = t[j] => i = j
            /\ \A i \in 1 .. n : i # k => \E j \in 1 .. n - 1 : t[j] = s[i]
    <2>0. k \in 1 .. n
      OBVIOUS
    <2>1. /\ n \in Nat
          /\ s \in [1 .. n -> Addresses]
          /\ \A i, j \in 1 .. n : s[i] = s[j] => i = j
      BY <1>0, <1>2
    <2> HIDE DEF n
    <2>2. QED BY <2>0, <2>1, Shortened, ZenonT(60)
  <1>6. /\ totalNodes' = n - 1
        /\ registered' = registered \ {a}
        /\ headNode' = IF headNode = a THEN next[a] ELSE headNode
        /\ tailNode' = IF tailNode = a THEN prev[a] ELSE tailNode
        /\ startBlockNumber' = IF headNode' = NoAddress THEN 0 ELSE startBlockNumber
        /\ next' = [x \in Addresses |-> IF x = a THEN NoAddress
                                        ELSE IF x = prev[a] THEN next[a] ELSE next[x]]
        /\ prev' = [x \in Addresses |-> IF x = a THEN NoAddress
                                        ELSE IF x = next[a] THEN prev[a] ELSE prev[x]]
    BY DEF Unlink, HeadAfterRemoval, TailAfterRemoval, StartAfterRemoval
  <1>7. /\ \A i \in 1 .. n - 1 : t[i] \in registered' /\ t[i] # a
        /\ \A b \in registered' : \E i \in 1 .. n - 1 : t[i] = b
    <2>1. ASSUME NEW i \in 1 .. n - 1
          PROVE  t[i] \in registered' /\ t[i] # a
      <3>1. PICK j \in 1 .. n : t[i] = s[j] /\ j # k
        <4>1. CASE i < k
          BY <1>0, <1>5, <4>1
        <4>2. CASE ~(i < k)
          <5>1. i + 1 \in 1 .. n /\ i + 1 # k /\ t[i] = s[i + 1]
            BY <1>0, <1>5, <4>2
          <5>2. QED BY <5>1
        <4>3. QED BY <4>1, <4>2
      <3>2. QED BY <1>2, <1>3, <1>6, <3>1
    <2>2. ASSUME NEW b \in registered'
          PROVE  \E i \in 1 .. n - 1 : t[i] = b
      <3>1. PICK i \in 1 .. n : s[i] = b /\ i # k
        BY <1>2, <1>3, <1>6
      <3>2. QED BY <1>5, <3>1
    <2>3. QED BY <2>1, <2>2
  <1>8. /\ headNode' = IF n - 1 = 0 THEN NoAddress ELSE t[1]
        /\ tailNode' = IF n - 1 = 0 THEN NoAddress ELSE t[n - 1]
    <2>1. 1 \in 1 .. n /\ n \in 1 .. n
      BY <1>0, <1>4
    <2>2. headNode = a <=> k = 1
      BY <1>2, <1>3, <1>4, <2>1
    <2>3. tailNode = a <=> k = n
      BY <1>2, <1>3, <1>4, <2>1
    <2>4. CASE n = 1
      BY <1>4, <1>6, <2>2, <2>3, <2>4, <1>3
    <2>5. CASE n # 1
      <3>1. t[1] = IF 1 < k THEN s[1] ELSE s[2]
        BY <1>0, <1>4, <1>5, <2>5
      <3>2. t[n - 1] = IF n - 1 < k THEN s[n - 1] ELSE s[n]
        BY <1>0, <1>4, <1>5, <2>5
      <3>3. headNode' = t[1]
        BY <1>0, <1>3, <1>4, <1>6, <2>2, <2>5, <3>1
      <3>4. tailNode' = t[n - 1]
        BY <1>0, <1>3, <1>4, <1>6, <2>3, <2>5, <3>2
      <3>5. QED BY <1>0, <1>4, <2>5, <3>3, <3>4
    <2>6. QED BY <2>4, <2>5
  <1>9. ASSUME NEW i \in 1 .. n - 1
        PROVE  /\ next'[t[i]] = IF i = n - 1 THEN NoAddress ELSE t[i + 1]
               /\ prev'[t[i]] = IF i = 1 THEN NoAddress ELSE t[i - 1]
    <2> DEFINE m == IF i < k THEN i ELSE i + 1
    <2>1. /\ m \in 1 .. n /\ m # k
          /\ t[i] = s[m] /\ t[i] # a /\ t[i] \in Addresses
          /\ next[s[m]] = IF m = n THEN NoAddress ELSE s[m + 1]
          /\ prev[s[m]] = IF m = 1 THEN NoAddress ELSE s[m - 1]
      <3>1. m \in 1 .. n /\ m # k
        BY <1>0, <1>3
      <3>2. t[i] = s[m]
        BY <1>5
      <3>3. QED BY <1>1, <1>7, <3>1, <3>2 DEF IsChain
    <2> HIDE DEF m
    <2>2. next'[t[i]] = IF i = n - 1 THEN NoAddress ELSE t[i + 1]
      <3>1. t[i] = prev[a] <=> m + 1 = k
        <4>1. k # 1 => k - 1 \in 1 .. n
          BY <1>0, <1>3
        <4>2. QED
          BY <1>0, <1>2, <1>3, <1>4, <2>1, <4>1, NoAddressAssumption
      <3>2. i # n - 1 => t[i + 1] = IF i + 1 < k THEN s[i + 1] ELSE s[i + 2]
        BY <1>0, <1>5
      <3>3. CASE m + 1 = k
        <4>1. i + 1 = k
          BY <1>0, <1>3, <3>3 DEF m
        <4>2. next'[t[i]] = next[a]
          BY <1>6, <2>1, <3>1, <3>3
        <4>3. QED BY <1>0, <1>3, <1>4, <3>2, <4>1, <4>2
      <3>4. CASE m + 1 # k
        <4>1. next'[t[i]] = next[s[m]]
          BY <1>6, <2>1, <3>1, <3>4
        <4>2. CASE i < k
          <5>1. m = i /\ i + 1 < k /\ i # n - 1 /\ i # n
            BY <1>0, <1>3, <3>4, <4>2 DEF m
          <5>2. QED BY <2>1, <3>2, <4>1, <5>1
        <4>3. CASE ~(i < k)
          <5>1. m = i + 1 /\ ~(i + 1 < k)
            BY <1>0, <1>3, <4>3 DEF m
          <5>2. QED BY <1>0, <2>1, <3>2, <4>1, <5>1
        <4>4. QED BY <4>2, <4>3
      <3>5. QED BY <3>3, <3>4
    <2>3. prev'[t[i]] = IF i = 1 THEN NoAddress ELSE t[i - 1]
      <3>1. t[i] = next[a] <=> m = k + 1
        <4>1. k # n => k + 1 \in 1 .. n
          BY <1>0, <1>3
        <4>2. QED
          BY <1>0, <1>2, <1>3, <1>4, <2>1, <4>1, NoAddressAssumption
      <3>2. i # 1 => t[i - 1] = IF i - 1 < k THEN s[i - 1] ELSE s[i]
        BY <1>0, <1>5
      <3>3. CASE m = k + 1
        <4>1. i = k
          BY <1>0, <1>3, <3>3 DEF m
        <4>2. prev'[t[i]] = prev[a]
          BY <1>6, <2>1, <3>1, <3>3
        <4>3. QED BY <1>0, <1>3, <1>4, <3>2, <4>1, <4>2
      <3>4. CASE m # k + 1
        <4>1. prev'[t[i]] = prev[s[m]]
          BY <1>6, <2>1, <3>1, <3>4
        <4>2. CASE i < k
          <5>1. m = i
            BY <4>2 DEF m
          <5>2. QED BY <1>0, <1>3, <2>1, <3>2, <4>1, <4>2, <5>1
        <4>3. CASE ~(i < k)
          <5>1. m = i + 1 /\ k < i
            BY <1>0, <1>3, <3>4, <4>3 DEF m
          <5>2. QED BY <1>0, <1>3, <2>1, <3>2, <4>1, <5>1
        <4>4. QED BY <4>2, <4>3
      <3>5. QED BY <3>3, <3>4
    <2>4. QED BY <2>2, <2>3
  <1>10. \A b \in Addresses \ registered' :
            next'[b] = NoAddress /\ prev'[b] = NoAddress
    <2>1. ASSUME NEW b \in Addresses \ registered', b # a
          PROVE  next'[b] = NoAddress /\ prev'[b] = NoAddress
      <3>1. b \notin registered /\ next[b] = NoAddress /\ prev[b] = NoAddress
        BY <1>0, <1>6, <2>1
      <3>2. b # prev[a]
        <4>1. k # 1 => k - 1 \in 1 .. n
          BY <1>0, <1>3
        <4>2. QED BY <1>2, <1>4, <3>1, <4>1, NoAddressAssumption
      <3>3. b # next[a]
        <4>1. k # n => k + 1 \in 1 .. n
          BY <1>0, <1>3
        <4>2. QED BY <1>2, <1>4, <3>1, <4>1, NoAddressAssumption
      <3>4. QED BY <1>6, <2>1, <3>1, <3>2, <3>3
    <2>2. next'[a] = NoAddress /\ prev'[a] = NoAddress
      BY <1>6
    <2>3. QED BY <2>1, <2>2
  <1>11. startBlockNumber' = 0 <=> headNode' = NoAddress
    <2>1. headNode # NoAddress
      BY <1>0, <1>4, NoAddressAssumption
    <2>2. QED BY <1>0, <1>6, <2>1
  <1>12. IsChain(t)'
    BY <1>0, <1>5, <1>6, <1>7, <1>8, <1>9 DEF IsChain
  <1>13. t \in [1 .. totalNodes' -> Addresses]
    BY <1>6
  <1>14. (\E x \in [1 .. totalNodes -> Addresses] : IsChain(x))'
    BY <1>12, <1>13
  <1>15. ListWellFormed'
    BY <1>10, <1>11, <1>14 DEF ListWellFormed
  <1>16. QED
    BY <1>1, <1>3, <1>5, <1>12, <1>13, <1>15

-----------------------------------------------------------------------------
(* The inductive invariant and its consequences. *)

\* Typing alone is not inductive: that the count stays a natural number when a
\* node leaves needs the list that the count is the length of.
RegistryInv == NodeRegistryTypeOK /\ ListWellFormed

\* The empty list is well formed.
LEMMA RegistryInvInit == RegistryInit => RegistryInv
  <1> SUFFICES ASSUME RegistryInit PROVE RegistryInv
    OBVIOUS
  <1>1. NodeRegistryTypeOK
    BY DEF RegistryInit, NodeRegistryTypeOK, AddressOrNone, WhitelistState
  <1>2. \E s \in [1 .. totalNodes -> Addresses] : IsChain(s)
    <2>1. [i \in {} |-> NoAddress] \in [1 .. totalNodes -> Addresses]
      BY DEF RegistryInit
    <2>2. \A s \in [1 .. totalNodes -> Addresses] : IsChain(s)
      BY DEF RegistryInit, IsChain
    <2>3. QED BY <2>1, <2>2
  <1>3. QED
    BY <1>1, <1>2 DEF RegistryInit, RegistryInv, ListWellFormed

\* _upsertNode keeps the invariant, whether the node is new or known.
LEMMA UpsertStep ==
    ASSUME RegistryInv, NEW a \in Addresses, Upsert(a), UNCHANGED <<accessVars, blockNumber>>
    PROVE  RegistryInv'
  <1>1. NodeRegistryTypeOK'
    BY UpsertType DEF RegistryInv
  <1>2. CASE IsNew(a)
    BY <1>1, <1>2, AddLastWellFormed DEF RegistryInv, Upsert
  <1>3. CASE ~IsNew(a)
    BY <1>1, <1>3, ListFrame DEF RegistryInv, Upsert
  <1>4. QED BY <1>2, <1>3

\* Every transaction of the registry keeps the invariant.
LEMMA RegistryInvStep == RegistryInv /\ [RegistryNext]_registryVars => RegistryInv'
  <1> SUFFICES ASSUME RegistryInv, [RegistryNext]_registryVars PROVE RegistryInv'
    OBVIOUS
  <1>1. ASSUME NEW a \in Addresses, UpsertNode(a)
        PROVE  RegistryInv'
    BY <1>1, UpsertStep DEF UpsertNode
  <1>2. ASSUME NEW a \in Addresses, UpsertNodeAdmin(a)
        PROVE  RegistryInv'
    BY <1>2, UpsertStep DEF UpsertNodeAdmin
  <1>3. ASSUME NEW a \in Addresses, RemoveNode(a)
        PROVE  RegistryInv'
    <2>1. NodeRegistryTypeOK'
      BY <1>3, UnlinkType DEF RegistryInv, RemoveNode, NodeRegistryTypeOK, accessVars
    <2>2. QED
      BY <1>3, <2>1, UnlinkWellFormed DEF RegistryInv, RemoveNode
  <1>4. ASSUME NEW a \in Addresses, KickNode(a)
        PROVE  RegistryInv'
    <2>1. /\ whitelist' \in [Addresses -> WhitelistState]
          /\ requiresWhitelist' \in BOOLEAN
          /\ blockNumber' = blockNumber
          /\ Unlink(a)
      BY <1>4 DEF RegistryInv, KickNode, NodeRegistryTypeOK, WhitelistState
    <2>2. NodeRegistryTypeOK'
      BY <2>1, UnlinkType DEF RegistryInv
    <2>3. QED
      BY <2>1, <2>2, UnlinkWellFormed DEF RegistryInv
  <1>5. ASSUME UNCHANGED listVars, NodeRegistryTypeOK'
        PROVE  RegistryInv'
    BY <1>5, ListFrame DEF RegistryInv
  <1>6. ASSUME NEW a \in Addresses, WhitelistApproveNode(a) \/ WhitelistRejectNode(a)
        PROVE  RegistryInv'
    <2>1. UNCHANGED listVars
      BY <1>6 DEF WhitelistApproveNode, WhitelistRejectNode
    <2>2. NodeRegistryTypeOK'
      BY <1>6 DEF WhitelistApproveNode, WhitelistRejectNode, RegistryInv,
                  NodeRegistryTypeOK, WhitelistState, listVars, AddressOrNone
    <2>3. QED BY <1>5, <2>1, <2>2
  <1>7. ASSUME NEW value \in BOOLEAN, SetRequiresWhitelist(value)
        PROVE  RegistryInv'
    BY <1>5, <1>7 DEF SetRequiresWhitelist, RegistryInv, NodeRegistryTypeOK, listVars
  <1>8. CASE MineBlock
    BY <1>5, <1>8 DEF MineBlock, RegistryInv, NodeRegistryTypeOK, listVars, accessVars
  <1>9. CASE UNCHANGED registryVars
    BY <1>5, <1>9 DEF registryVars, RegistryInv, NodeRegistryTypeOK, listVars, accessVars
  <1>10. QED
    BY <1>1, <1>2, <1>3, <1>4, <1>6, <1>7, <1>8, <1>9 DEF RegistryNext

\* Every reachable state of the registry satisfies the invariant.
THEOREM RegistryInvariant == RegistrySpec => []RegistryInv
  <1>1. QED
    BY RegistryInvInit, RegistryInvStep, PTL DEF RegistrySpec

\* The registry is type correct: in particular totalNodes never underflows.
THEOREM RegistryTypeCorrect == RegistrySpec => []NodeRegistryTypeOK
  <1>1. RegistryInv => NodeRegistryTypeOK
    BY DEF RegistryInv
  <1>2. QED
    BY <1>1, RegistryInvariant, PTL

\* The contract's pointers always form one list of exactly the registered
\* nodes, for any set of addresses and any interleaving of the transactions.
THEOREM RegistryWellFormed == RegistrySpec => []ListWellFormed
  <1>1. RegistryInv => ListWellFormed
    BY DEF RegistryInv
  <1>2. QED
    BY <1>1, RegistryInvariant, PTL

\* The start block moves only when the list becomes empty or stops being so.
THEOREM StartBlockIsStable == RegistrySpec => StartBlockStable
  <1> DEFINE Stable == headNode # NoAddress /\ headNode' # NoAddress
                         => startBlockNumber' = startBlockNumber
  <1>1. [RegistryNext]_registryVars => [Stable]_registryVars
    <2> SUFFICES ASSUME [RegistryNext]_registryVars, headNode # NoAddress, headNode' # NoAddress
                 PROVE  startBlockNumber' = startBlockNumber
      OBVIOUS
    <2>1. ASSUME NEW a \in Addresses, Upsert(a)
          PROVE  startBlockNumber' = startBlockNumber
      BY <2>1 DEF Upsert, AddLast, listVars
    <2>2. ASSUME NEW a \in Addresses, Unlink(a)
          PROVE  startBlockNumber' = startBlockNumber
      BY <2>2 DEF Unlink, StartAfterRemoval
    <2>3. CASE UNCHANGED listVars
      BY <2>3 DEF listVars
    <2>4. QED
      BY <2>1, <2>2, <2>3 DEF RegistryNext, registryVars, UpsertNode, UpsertNodeAdmin, RemoveNode,
         KickNode, WhitelistApproveNode, WhitelistRejectNode, SetRequiresWhitelist, MineBlock
  <1>2. QED
    BY <1>1, PTL DEF RegistrySpec, StartBlockStable

-----------------------------------------------------------------------------
(***************************************************************************)
(* The contract's list implements NodeList: what nodeAddresses() returns   *)
(* is a sequence that nodes join at the end and leave from where they are. *)
(***************************************************************************)

\* The walk of nodeAddresses() follows the chain and ends within totalNodes entries.
LEMMA WalkFollowsChain ==
    ASSUME NodeRegistryTypeOK, NEW s \in [1 .. totalNodes -> Addresses], IsChain(s)
    PROVE  NodeAddresses = s /\ NodeAddressesReturns
  <1> DEFINE n == totalNodes
             Step(w) == w = [i \in 1 .. n + 1 |->
                                IF i = 1 THEN headNode
                                ELSE IF w[i - 1] = NoAddress THEN NoAddress
                                ELSE next[w[i - 1]]]
             path == [i \in 1 .. n + 1 |-> IF i = n + 1 THEN NoAddress ELSE s[i]]
             T == {i \in Nat : i + 1 \in 1 .. n + 1 => Walk[i + 1] = path[i + 1]}
  <1>1. n \in Nat
    BY DEF NodeRegistryTypeOK
  <1>2. /\ headNode = path[1]
        /\ \A i \in 2 .. n + 1 : /\ path[i - 1] # NoAddress
                                 /\ next[path[i - 1]] = path[i]
    <2>1. headNode = path[1]
      BY <1>1 DEF IsChain
    <2>2. ASSUME NEW i \in 2 .. n + 1
          PROVE  path[i - 1] # NoAddress /\ next[path[i - 1]] = path[i]
      <3>1. i - 1 \in 1 .. n /\ path[i - 1] = s[i - 1] /\ s[i - 1] \in Addresses
        BY <1>1
      <3>2. next[s[i - 1]] = IF i - 1 = n THEN NoAddress ELSE s[(i - 1) + 1]
        BY <3>1 DEF IsChain
      <3>3. QED BY <1>1, <3>1, <3>2, NoAddressAssumption
    <2>3. QED BY <2>1, <2>2
  <1> HIDE DEF path
  <1>3. Step(path)
    <2>1. path = [i \in 1 .. n + 1 |-> path[i]]
      BY DEF path
    <2>2. ASSUME NEW i \in 1 .. n + 1
          PROVE  path[i] = IF i = 1 THEN headNode
                           ELSE IF path[i - 1] = NoAddress THEN NoAddress
                           ELSE next[path[i - 1]]
      <3>1. i = 1 \/ i \in 2 .. n + 1
        BY <1>1
      <3>2. QED BY <1>2, <3>1
    <2>3. QED BY <2>1, <2>2
  <1>4. Step(Walk)
    <2>1. Walk = CHOOSE w : Step(w)
      BY DEF Walk
    <2> HIDE DEF Step
    <2>2. QED BY <1>3, <2>1
  <1>5. Nat \subseteq T
    <2>1. 0 \in T
      BY <1>1, <1>2, <1>4
    <2>2. ASSUME NEW i \in Nat, i \in T PROVE i + 1 \in T
      <3>1. SUFFICES ASSUME i + 2 \in 1 .. n + 1 PROVE Walk[i + 2] = path[i + 2]
        OBVIOUS
      <3>2. Walk[i + 1] = path[i + 1]
        BY <1>1, <2>2, <3>1
      <3>3. Walk[i + 2] = IF Walk[i + 1] = NoAddress THEN NoAddress ELSE next[Walk[i + 1]]
        BY <1>1, <1>4, <3>1
      <3>4. i + 2 \in 2 .. n + 1 /\ (i + 2) - 1 = i + 1
        BY <1>1, <3>1
      <3>5. QED BY <1>2, <3>2, <3>3, <3>4
    <2> HIDE DEF T
    <2>3. QED BY <2>1, <2>2, NatSetInduction
  <1>6. \A i \in 1 .. n + 1 : Walk[i] = path[i]
    <2>1. ASSUME NEW i \in 1 .. n + 1 PROVE Walk[i] = path[i]
      <3>1. i - 1 \in Nat /\ (i - 1) + 1 = i
        BY <1>1
      <3>2. QED BY <1>5, <3>1
    <2>2. QED BY <2>1
  <1>7. NodeAddresses = s
    <2>1. \A i \in 1 .. n : Walk[i] = s[i]
      BY <1>1, <1>6 DEF path
    <2>2. QED BY <2>1 DEF NodeAddresses
  <1>8. NodeAddressesReturns
    BY <1>1, <1>6 DEF path, NodeAddressesReturns
  <1>9. QED BY <1>7, <1>8

\* And so it does after a transaction.
LEMMA NextWalkFollowsChain ==
    ASSUME NEW s
    PROVE  (NodeRegistryTypeOK /\ s \in [1 .. totalNodes -> Addresses] /\ IsChain(s)
              => NodeAddresses = s)'
  <1>1. NodeRegistryTypeOK /\ s \in [1 .. totalNodes -> Addresses] /\ IsChain(s)
          => NodeAddresses = s
    BY WalkFollowsChain
  <1>2. QED BY <1>1, PTL

\* A list without one of its places.
LEMMA Removed ==
    ASSUME NEW n \in Nat, NEW s \in [1 .. n -> Addresses], NEW k \in 1 .. n,
           NEW t \in [1 .. n - 1 -> Addresses],
           \A i \in 1 .. n - 1 : t[i] = IF i < k THEN s[i] ELSE s[i + 1]
    PROVE  t = RemoveAt(s, k)
  <1>1. s \in Seq(Addresses) /\ Len(s) = n /\ t \in Seq(Addresses) /\ Len(t) = n - 1
    OBVIOUS
  <1>2. /\ SubSeq(s, 1, k - 1) \in Seq(Addresses) /\ Len(SubSeq(s, 1, k - 1)) = k - 1
        /\ \A i \in 1 .. k - 1 : SubSeq(s, 1, k - 1)[i] = s[i]
    BY <1>1
  <1>3. /\ SubSeq(s, k + 1, n) \in Seq(Addresses) /\ Len(SubSeq(s, k + 1, n)) = n - k
        /\ \A i \in 1 .. n - k : SubSeq(s, k + 1, n)[i] = s[k + i]
    BY <1>1
  <1>4. /\ RemoveAt(s, k) \in Seq(Addresses)
        /\ Len(RemoveAt(s, k)) = n - 1
        /\ \A i \in 1 .. n - 1 : RemoveAt(s, k)[i] = IF i < k THEN s[i] ELSE s[i + 1]
    BY <1>1, <1>2, <1>3 DEF RemoveAt
  <1>5. QED BY <1>1, <1>4

\* The invariant gives the chain that nodeAddresses() returns.
LEMMA WalkIsChain ==
    ASSUME RegistryInv
    PROVE  /\ NodeAddresses \in [1 .. totalNodes -> Addresses]
           /\ IsChain(NodeAddresses)
           /\ NodeAddressesReturns
  BY WalkFollowsChain DEF RegistryInv, ListWellFormed

\* _upsertNode of a new node is a Join.
LEMMA AddLastJoins ==
    ASSUME RegistryInv, RegistryInv', NEW a \in Addresses, IsNew(a), AddLast(a)
    PROVE  Abstract!Join(a)
  <1>1. PICK s \in [1 .. totalNodes -> Addresses], t \in [1 .. totalNodes' -> Addresses] :
            /\ IsChain(s) /\ IsChain(t)'
            /\ \A i \in 1 .. totalNodes : t[i] = s[i]
            /\ t[totalNodes + 1] = a
    BY AddLastWellFormed DEF RegistryInv
  <1>2. NodeAddresses = s
    BY <1>1, WalkFollowsChain DEF RegistryInv
  <1>3. NodeAddresses' = t
    BY <1>1, NextWalkFollowsChain DEF RegistryInv
  <1>4. totalNodes \in Nat /\ totalNodes' = totalNodes + 1
    BY DEF RegistryInv, NodeRegistryTypeOK, AddLast
  <1>5. \A i \in 1 .. totalNodes : s[i] # a
    BY <1>1 DEF IsChain, IsNew
  <1>6. t = Append(s, a)
    BY <1>1, <1>4
  <1>7. QED
    BY <1>2, <1>3, <1>5, <1>6 DEF Abstract!Join, Abstract!Members

\* _removeNode is a Leave.
LEMMA UnlinkLeaves ==
    ASSUME RegistryInv, RegistryInv', NEW a \in Addresses, Unlink(a)
    PROVE  Abstract!Leave(a)
  <1>1. PICK s \in [1 .. totalNodes -> Addresses], t \in [1 .. totalNodes' -> Addresses],
             k \in 1 .. totalNodes :
            /\ IsChain(s) /\ IsChain(t)'
            /\ s[k] = a
            /\ \A i \in 1 .. totalNodes - 1 : t[i] = IF i < k THEN s[i] ELSE s[i + 1]
    BY UnlinkWellFormed DEF RegistryInv
  <1>2. NodeAddresses = s
    BY <1>1, WalkFollowsChain DEF RegistryInv
  <1>3. NodeAddresses' = t
    BY <1>1, NextWalkFollowsChain DEF RegistryInv
  <1>4. totalNodes \in Nat /\ totalNodes' = totalNodes - 1
    BY DEF RegistryInv, NodeRegistryTypeOK, Unlink
  <1>5. t = RemoveAt(s, k) /\ k \in DOMAIN s
    BY <1>1, <1>4, Removed
  <1>6. k \in DOMAIN NodeAddresses /\ NodeAddresses[k] = a
    BY <1>1, <1>2, <1>5
  <1>7. NodeAddresses' = Abstract!RemoveAt(NodeAddresses, k)
    BY <1>2, <1>3, <1>5, Zenon DEF RemoveAt, Abstract!RemoveAt
  <1>8. QED
    BY <1>6, <1>7, Zenon DEF Abstract!Leave

\* A transaction of the registry is one step of the abstract list or none.
LEMMA ListStep ==
    ASSUME RegistryInv, RegistryInv', [RegistryNext]_registryVars
    PROVE  [Abstract!Next]_NodeAddresses
  <1>1. ASSUME UNCHANGED listVars PROVE UNCHANGED NodeAddresses
    BY <1>1 DEF listVars, NodeAddresses, Walk
  <1>2. ASSUME NEW a \in Addresses, Upsert(a) PROVE [Abstract!Next]_NodeAddresses
    BY <1>1, <1>2, AddLastJoins DEF Upsert, Abstract!Next
  <1>3. ASSUME NEW a \in Addresses, Unlink(a) PROVE [Abstract!Next]_NodeAddresses
    BY <1>3, UnlinkLeaves DEF Abstract!Next
  <1>4. CASE UNCHANGED listVars
    BY <1>1, <1>4
  <1>5. QED
    BY <1>2, <1>3, <1>4 DEF RegistryNext, registryVars, UpsertNode, UpsertNodeAdmin, RemoveNode,
       KickNode, WhitelistApproveNode, WhitelistRejectNode, SetRequiresWhitelist, MineBlock

\* Whatever joins, leaves and kicks are interleaved, nodeAddresses() is the
\* sequence of the nodes in order of joining.
THEOREM RegistryImplementsNodeList == RegistrySpec => RefinesNodeList
  <1>1. RegistryInit => Abstract!Init
    <2> SUFFICES ASSUME RegistryInit PROVE NodeAddresses = << >>
      BY DEF Abstract!Init
    <2>1. totalNodes = 0
      BY DEF RegistryInit
    <2>2. NodeAddresses = [i \in 1 .. 0 |-> Walk[i]]
      BY <2>1 DEF NodeAddresses
    <2> QED BY <2>2
  <1>2. RegistryInv /\ RegistryInv' /\ [RegistryNext]_registryVars
          => [Abstract!Next]_NodeAddresses
    BY ListStep
  <1>3. QED
    BY <1>1, <1>2, RegistryInvariant, PTL DEF RegistrySpec, RefinesNodeList, Abstract!Spec

\* What nodeAddresses() returns of a well-formed list.
AddressesReturned ==
    /\ NodeAddressesReturns
    /\ {NodeAddresses[i] : i \in 1 .. totalNodes} = registered
    /\ \A i, j \in 1 .. totalNodes : NodeAddresses[i] = NodeAddresses[j] => i = j

\* nodeAddresses() never runs past the array it fills, and returns every node once.
THEOREM AddressesAreReturned == RegistrySpec => []AddressesReturned
  <1>1. RegistryInv => AddressesReturned
    BY WalkIsChain DEF IsChain, AddressesReturned
  <1>2. QED
    BY <1>1, RegistryInvariant, PTL

-----------------------------------------------------------------------------
(***************************************************************************)
(* Proofs about NodeManager, for every set of accounts, every stake        *)
(* required, every set of amounts and every set of reports.                *)
(***************************************************************************)

(***************************************************************************)
(* The contract implements the registry: staking, delegating and reports   *)
(* leave the list alone, and join() and leave() do to it what upsertNode() *)
(* and removeNode() do.                                                    *)
(***************************************************************************)

\* A transaction of the contract is a transaction of its registry or none.
LEMMA ManagerRefinesStep == [ManagerNext]_managerVars => [RegistryNext]_registryVars
  <1> SUFFICES ASSUME [ManagerNext]_managerVars PROVE [RegistryNext]_registryVars
    OBVIOUS
  <1>1. CASE RegistryOnlyTx
    BY <1>1 DEF RegistryOnlyTx, RegistryNext
  <1>2. ASSUME NEW u \in Addresses, LeaveTx(u)
        PROVE  RegistryNext
    BY <1>2 DEF LeaveTx, RemoveNode, RegistryNext
  <1>3. ASSUME NEW u \in Addresses, RemoveNodeTx(u) \/ KickNodeTx(u)
        PROVE  RegistryNext
    BY <1>3 DEF RemoveNodeTx, KickNodeTx, RegistryNext
  <1>4. ASSUME NEW u \in Addresses, NEW amount \in Amounts, JoinTx(u, amount)
        PROVE  RegistryNext
    BY <1>4 DEF JoinTx, JoinList, UpsertNode, RegistryNext
  <1>5. ASSUME NEW u \in Addresses, NEW r \in Reports, ProcessReportTx(u, r)
        PROVE  UNCHANGED registryVars
    BY <1>5 DEF ProcessReportTx, ReportEffects
  <1>6. ASSUME NEW u \in Addresses, NEW amount \in Amounts,
               StakeTx(u, amount) \/ WithdrawTx(u, amount)
        PROVE  UNCHANGED registryVars
    BY <1>6 DEF StakeTx, WithdrawTx
  <1>7. ASSUME NEW u \in Addresses, NEW amount \in Amounts, NEW n \in Addresses,
               \/ DelegateTx(u, n, amount)
               \/ UndelegateTx(u, n, amount)
               \/ StakeAndDelegateTx(u, n, amount)
               \/ UndelegateWithdrawTx(u, n, amount)
        PROVE  UNCHANGED registryVars
    BY <1>7 DEF DelegateTx, UndelegateTx, StakeAndDelegateTx, UndelegateWithdrawTx
  <1>8. ASSUME NEW amount \in Amounts, TreasuryWithdrawTx(amount)
        PROVE  UNCHANGED registryVars
    BY <1>8 DEF TreasuryWithdrawTx
  <1>9. CASE UNCHANGED managerVars
    BY <1>9 DEF managerVars
  <1>10. QED
    BY <1>1, <1>2, <1>3, <1>4, <1>5, <1>6, <1>7, <1>8, <1>9 DEF ManagerNext, StakeNext

\* LogStoreNodeManager implements its registry.
THEOREM ManagerImplementsRegistry == ManagerSpec => RegistrySpec
  <1>1. ManagerInit => RegistryInit
    BY DEF ManagerInit
  <1>2. QED
    BY <1>1, ManagerRefinesStep, PTL DEF ManagerSpec, RegistrySpec

\* So what nodeAddresses() returns is the abstract list also while stakes move.
THEOREM ManagerImplementsNodeList == ManagerSpec => RefinesNodeList
  <1>1. QED
    BY ManagerImplementsRegistry, RegistryImplementsNodeList, PTL

\* And its list stays well formed through joins and leaves that move stakes.
THEOREM ManagerListWellFormed == ManagerSpec => []ListWellFormed
  <1>1. QED
    BY ManagerImplementsRegistry, RegistryWellFormed, PTL

-----------------------------------------------------------------------------
(* Type correctness: no balance, stake, supply or token count goes negative. *)

StakeTypeOK ==
    /\ nodeStake \in [Addresses -> Nat]
    /\ balanceOf \in [Addresses -> Nat]
    /\ delegatesOf \in [Addresses -> [Addresses -> Nat]]
    /\ totalSupply \in Nat
    /\ treasurySupply \in Nat
    /\ canPublish \subseteq Addresses
    /\ tokens \in [Accounts -> Nat]
    /\ processed \subseteq ReportIds

\* A payment the payer can afford keeps token balances natural numbers.
LEMMA PayType ==
    ASSUME tokens \in [Accounts -> Nat], NEW from \in Accounts, NEW to \in Accounts,
           NEW amount \in Nat, tokens[from] >= amount, Pay(from, to, amount)
    PROVE  tokens' \in [Accounts -> Nat]
  BY DEF Pay

\* Staking and paying out keep the supply and the tokens typed.
LEMMA DepositType ==
    ASSUME StakeTypeOK, NEW u \in Addresses, NEW amount \in Nat, Deposit(u, amount)
    PROVE  totalSupply' \in Nat /\ tokens' \in [Accounts -> Nat]
  BY PayType, AccountsAssumption DEF StakeTypeOK, Deposit

LEMMA PayOutType ==
    ASSUME StakeTypeOK, NEW to \in Accounts, NEW amount \in Nat, PayOut(to, amount)
    PROVE  totalSupply' \in Nat /\ tokens' \in [Accounts -> Nat]
  BY PayType, AccountsAssumption DEF StakeTypeOK, PayOut, SupplyAfterPayout

\* Granting or revoking access keeps the publishers accounts.
LEMMA AccessType ==
    ASSUME StakeTypeOK, NEW n \in Addresses, NEW stake
    PROVE  AccessAfter(n, stake) \subseteq Addresses
  BY DEF StakeTypeOK, AccessAfter

\* Moving a delegation keeps balances, delegations and stakes typed when the
\* checked subtractions succeed.
LEMMA RedelegateType ==
    ASSUME StakeTypeOK, NEW u \in Addresses, NEW n \in Addresses,
           NEW balanceChange \in Int, NEW change \in Int,
           balanceOf[u] + balanceChange >= 0, delegatesOf[u][n] + change >= 0,
           nodeStake[n] + change >= 0, Redelegate(u, n, balanceChange, change)
    PROVE  /\ balanceOf' \in [Addresses -> Nat]
           /\ delegatesOf' \in [Addresses -> [Addresses -> Nat]]
           /\ nodeStake' \in [Addresses -> Nat]
           /\ canPublish' \subseteq Addresses
  <1>1. balanceOf' \in [Addresses -> Nat]
    BY DEF StakeTypeOK, Redelegate
  <1>2. nodeStake' \in [Addresses -> Nat]
    BY DEF StakeTypeOK, Redelegate, StakeAfter
  <1>3. delegatesOf' \in [Addresses -> [Addresses -> Nat]]
    BY DEF StakeTypeOK, Redelegate
  <1>4. canPublish' \subseteq Addresses
    BY AccessType DEF Redelegate
  <1>5. QED BY <1>1, <1>2, <1>3, <1>4

\* A report, whatever its amounts, leaves natural numbers: stakes and
\* delegations that would go below zero are cut at zero.
LEMMA ReportType ==
    ASSUME StakeTypeOK, NEW r \in Reports, ApplyReport(r)
    PROVE  /\ balanceOf' \in [Addresses -> Nat]
           /\ delegatesOf' \in [Addresses -> [Addresses -> Nat]]
           /\ nodeStake' \in [Addresses -> Nat]
           /\ canPublish' \subseteq Addresses
           /\ treasurySupply' \in Nat
  <1> USE ReportsAssumption DEF StakeTypeOK, ReportEffect
  <1>1. \A x \in Int : AtLeastZero(x) \in Nat
    BY DEF AtLeastZero
  <1>2. nodeStake' \in [Addresses -> Nat]
    BY <1>1 DEF ApplyReport
  <1>3. delegatesOf' \in [Addresses -> [Addresses -> Nat]]
    BY <1>1 DEF ApplyReport
  <1>4. canPublish' \subseteq Addresses
    BY DEF ApplyReport
  <1>5. treasurySupply' \in Nat /\ balanceOf' = balanceOf
    BY <1>1 DEF ApplyReport
  <1>6. QED BY <1>2, <1>3, <1>4, <1>5

\* Every transaction keeps the stake variables typed.
LEMMA StakeTypeStep ==
    StakeTypeOK /\ [ManagerNext]_managerVars => StakeTypeOK'
  <1> SUFFICES ASSUME StakeTypeOK, [ManagerNext]_managerVars PROVE StakeTypeOK'
    OBVIOUS
  <1> USE AmountsAssumption
  <1>1. ASSUME UNCHANGED stakeVars PROVE StakeTypeOK'
    BY <1>1 DEF StakeTypeOK, stakeVars
  <1>2. CASE RegistryOnlyTx
    BY <1>1, <1>2 DEF RegistryOnlyTx
  <1>3. ASSUME NEW u \in Addresses, LeaveTx(u) PROVE StakeTypeOK'
    <2>1. LeaveAmount(u) \in Nat
      BY DEF LeaveAmount, StakeTypeOK
    <2>2. totalSupply' \in Nat /\ tokens' \in [Accounts -> Nat]
      BY <1>3, <2>1, PayOutType, AccountsAssumption DEF LeaveTx
    <2>3. canPublish' \subseteq Addresses
      BY <1>3, AccessType DEF LeaveTx
    <2>4. QED BY <1>3, <2>2, <2>3 DEF LeaveTx, StakeTypeOK
  <1>4. ASSUME NEW u \in Addresses, RemoveNodeTx(u) \/ KickNodeTx(u) PROVE StakeTypeOK'
    BY <1>4 DEF RemoveNodeTx, KickNodeTx, StakeTypeOK
  <1>5. ASSUME NEW u \in Addresses, NEW r \in Reports, ProcessReportTx(u, r)
        PROVE  StakeTypeOK'
    <2>1. totalSupply' \in Nat /\ tokens' \in [Accounts -> Nat]
      BY <1>5, ReportsAssumption, AccountsAssumption
      DEF ProcessReportTx, ReportEffects, StakeTypeOK, ReportEffect
    <2>2. processed' \subseteq ReportIds
      BY <1>5 DEF ProcessReportTx, ReportEffects, StakeTypeOK, ReportIds
    <2>3. QED BY <1>5, <2>1, <2>2, ReportType DEF ProcessReportTx, ReportEffects, StakeTypeOK
  <1>6. ASSUME NEW u \in Addresses, NEW amount \in Amounts, StakeTx(u, amount)
        PROVE  StakeTypeOK'
    <2>1. totalSupply' \in Nat /\ tokens' \in [Accounts -> Nat]
      BY <1>6, DepositType DEF StakeTx
    <2>2. QED BY <1>6, <2>1 DEF StakeTx, StakeTypeOK
  <1>7. ASSUME NEW u \in Addresses, NEW amount \in Amounts, WithdrawTx(u, amount)
        PROVE  StakeTypeOK'
    <2>1. totalSupply' \in Nat /\ tokens' \in [Accounts -> Nat]
      BY <1>7, PayOutType, AccountsAssumption DEF WithdrawTx
    <2>2. QED BY <1>7, <2>1 DEF WithdrawTx, HasBalance, StakeTypeOK
  <1>8. ASSUME NEW u \in Addresses, NEW amount \in Amounts, JoinTx(u, amount)
        PROVE  StakeTypeOK'
    <2>1. totalSupply' \in Nat /\ tokens' \in [Accounts -> Nat]
      BY <1>8, DepositType DEF JoinTx
    <2>2. canPublish' \subseteq Addresses
      BY <1>8, AccessType DEF JoinTx
    <2>3. delegatesOf' \in [Addresses -> [Addresses -> Nat]]
      BY <1>8 DEF JoinTx, StakeTypeOK
    <2>4. QED BY <1>8, <2>1, <2>2, <2>3 DEF JoinTx, StakeTypeOK
  <1>9. ASSUME NEW u \in Addresses, NEW amount \in Amounts, NEW n \in Addresses
        PROVE  /\ DelegateTx(u, n, amount) => StakeTypeOK'
               /\ UndelegateTx(u, n, amount) => StakeTypeOK'
               /\ StakeAndDelegateTx(u, n, amount) => StakeTypeOK'
               /\ UndelegateWithdrawTx(u, n, amount) => StakeTypeOK'
    <2>1. /\ amount \in Int /\ -amount \in Int /\ amount \in Nat
          /\ balanceOf[u] \in Nat /\ delegatesOf[u][n] \in Nat /\ nodeStake[n] \in Nat
          /\ u \in Accounts
      BY AccountsAssumption DEF StakeTypeOK
    <2>2. ASSUME DelegateTx(u, n, amount) PROVE StakeTypeOK'
      <3>1. /\ Redelegate(u, n, -amount, amount)
            /\ balanceOf[u] + (-amount) >= 0
            /\ delegatesOf[u][n] + amount >= 0 /\ nodeStake[n] + amount >= 0
        BY <2>1, <2>2 DEF DelegateTx, HasBalance
      <3>2. QED BY <2>1, <2>2, <3>1, RedelegateType DEF DelegateTx, StakeTypeOK
    <2>3. ASSUME UndelegateTx(u, n, amount) PROVE StakeTypeOK'
      <3>1. /\ Redelegate(u, n, amount, -amount)
            /\ balanceOf[u] + amount >= 0
            /\ delegatesOf[u][n] + (-amount) >= 0 /\ nodeStake[n] + (-amount) >= 0
        BY <2>1, <2>3 DEF UndelegateTx, CanUndelegate
      <3>2. QED BY <2>1, <2>3, <3>1, RedelegateType DEF UndelegateTx, StakeTypeOK
    <2>4. ASSUME StakeAndDelegateTx(u, n, amount) PROVE StakeTypeOK'
      <3>1. /\ Redelegate(u, n, 0, amount)
            /\ balanceOf[u] + 0 >= 0
            /\ delegatesOf[u][n] + amount >= 0 /\ nodeStake[n] + amount >= 0
        BY <2>1, <2>4 DEF StakeAndDelegateTx
      <3>2. totalSupply' \in Nat /\ tokens' \in [Accounts -> Nat]
        BY <2>1, <2>4, DepositType DEF StakeAndDelegateTx
      <3>3. QED
        BY <2>1, <2>4, <3>1, <3>2, RedelegateType DEF StakeAndDelegateTx, StakeTypeOK
    <2>5. ASSUME UndelegateWithdrawTx(u, n, amount) PROVE StakeTypeOK'
      <3>1. /\ Redelegate(u, n, 0, -amount)
            /\ balanceOf[u] + 0 >= 0
            /\ delegatesOf[u][n] + (-amount) >= 0 /\ nodeStake[n] + (-amount) >= 0
        BY <2>1, <2>5 DEF UndelegateWithdrawTx, CanUndelegate
      <3>2. totalSupply' \in Nat /\ tokens' \in [Accounts -> Nat]
        BY <2>1, <2>5, PayOutType DEF UndelegateWithdrawTx
      <3>3. QED
        BY <2>1, <2>5, <3>1, <3>2, RedelegateType DEF UndelegateWithdrawTx, StakeTypeOK
    <2>6. QED BY <2>2, <2>3, <2>4, <2>5
  <1>10. ASSUME NEW amount \in Amounts, TreasuryWithdrawTx(amount) PROVE StakeTypeOK'
    <2>1. totalSupply' \in Nat /\ tokens' \in [Accounts -> Nat]
      BY <1>10, PayOutType, AccountsAssumption DEF TreasuryWithdrawTx
    <2>2. QED BY <1>10, <2>1 DEF TreasuryWithdrawTx, StakeTypeOK
  <1>11. CASE UNCHANGED managerVars
    BY <1>1, <1>11 DEF managerVars
  <1>12. QED
    BY <1>2, <1>3, <1>4, <1>5, <1>6, <1>7, <1>8, <1>9, <1>10, <1>11 DEF ManagerNext, StakeNext

\* No sequence of transactions makes a balance, a stake, a delegation, a supply
\* or a token count negative, whatever amounts the reports carry.
THEOREM ManagerTypeCorrect == ManagerSpec => []ManagerTypeOK
  <1>1. ManagerInit => StakeTypeOK
    BY TokensAssumption DEF ManagerInit, StakeTypeOK
  <1>2. ManagerSpec => []StakeTypeOK
    BY <1>1, StakeTypeStep, PTL DEF ManagerSpec
  <1>3. NodeRegistryTypeOK /\ StakeTypeOK => ManagerTypeOK
    BY DEF ManagerTypeOK, StakeTypeOK
  <1>4. QED
    BY <1>2, <1>3, ManagerImplementsRegistry, RegistryTypeCorrect, PTL

-----------------------------------------------------------------------------
(* The Publish permission follows the stake. *)

\* Giving n a new stake and checking its access restores the property for n
\* and does not touch it for the others.
LEMMA AccessChecked ==
    ASSUME StakeTypeOK, AccessFollowsStake, NEW n \in Addresses,
           nodeStake' \in [Addresses -> Nat],
           \A m \in Addresses \ {n} : nodeStake'[m] = nodeStake[m],
           canPublish' = AccessAfter(n, nodeStake'[n])
    PROVE  AccessFollowsStake'
  <1>1. ASSUME NEW m \in Addresses
        PROVE  /\ IsStaked(m)' => m \in canPublish'
               /\ m \in canPublish' /\ ~IsStaked(m)' => nodeStake'[m] = 0
    <2>1. CASE m = n
      BY <2>1, StakeRequiredAssumption DEF AccessAfter, IsStaked
    <2>2. CASE m # n
      BY <2>2, StakeRequiredAssumption DEF AccessFollowsStake, AccessAfter, IsStaked
    <2>3. QED BY <2>1, <2>2
  <1>2. QED BY <1>1 DEF AccessFollowsStake

\* A node whose stake is deleted may keep its access, and so may nobody else.
LEMMA AccessDeleted ==
    ASSUME StakeTypeOK, AccessFollowsStake, NEW n \in Addresses,
           nodeStake' = [nodeStake EXCEPT ![n] = 0],
           \A m \in Addresses \ {n} : m \in canPublish' <=> m \in canPublish
    PROVE  AccessFollowsStake'
  <1>1. ASSUME NEW m \in Addresses
        PROVE  /\ IsStaked(m)' => m \in canPublish'
               /\ m \in canPublish' /\ ~IsStaked(m)' => nodeStake'[m] = 0
    <2>1. CASE m = n
      BY <2>1, StakeRequiredAssumption DEF StakeTypeOK, IsStaked
    <2>2. CASE m # n
      BY <2>2, StakeRequiredAssumption DEF AccessFollowsStake, IsStaked, StakeTypeOK
    <2>3. QED BY <2>1, <2>2
  <1>2. QED BY <1>1 DEF AccessFollowsStake

\* Every transaction leaves each node's permission in step with its stake.
LEMMA AccessStep ==
    StakeTypeOK /\ AccessFollowsStake /\ [ManagerNext]_managerVars => AccessFollowsStake'
  <1> SUFFICES ASSUME StakeTypeOK, AccessFollowsStake, [ManagerNext]_managerVars
               PROVE  AccessFollowsStake'
    OBVIOUS
  <1>1. StakeTypeOK'
    BY StakeTypeStep
  <1>2. ASSUME nodeStake' = nodeStake, canPublish' = canPublish PROVE AccessFollowsStake'
    BY <1>2 DEF AccessFollowsStake, IsStaked
  <1>3. ASSUME NEW u \in Addresses, NEW n \in Addresses, NEW b, NEW c,
               Redelegate(u, n, b, c)
        PROVE  AccessFollowsStake'
    <2>1. /\ nodeStake' = [nodeStake EXCEPT ![n] = StakeAfter(n, c)]
          /\ canPublish' = AccessAfter(n, nodeStake'[n])
      BY <1>3 DEF Redelegate
    <2>2. \A m \in Addresses \ {n} : nodeStake'[m] = nodeStake[m]
      BY <2>1 DEF StakeTypeOK
    <2>3. QED BY <1>1, <2>1, <2>2, AccessChecked DEF StakeTypeOK
  <1>4. CASE RegistryOnlyTx
    BY <1>2, <1>4 DEF RegistryOnlyTx, stakeVars
  <1>5. ASSUME NEW u \in Addresses, LeaveTx(u) PROVE AccessFollowsStake'
    <2>1. nodeStake' = [nodeStake EXCEPT ![u] = 0]
      BY <1>5 DEF LeaveTx
    <2>2. \A m \in Addresses \ {u} : m \in canPublish' <=> m \in canPublish
      BY <1>5 DEF LeaveTx, AccessAfter
    <2>3. QED BY <2>1, <2>2, AccessDeleted
  <1>6. ASSUME NEW u \in Addresses, RemoveNodeTx(u) \/ KickNodeTx(u)
        PROVE  AccessFollowsStake'
    BY <1>6, AccessDeleted DEF RemoveNodeTx, KickNodeTx
  <1>7. ASSUME NEW u \in Addresses, NEW r \in Reports, ProcessReportTx(u, r)
        PROVE  AccessFollowsStake'
    <2>1. ApplyReport(r)
      BY <1>7 DEF ProcessReportTx, ReportEffects
    <2>2. ASSUME NEW m \in Addresses
          PROVE  /\ IsStaked(m)' => m \in canPublish'
                 /\ m \in canPublish' /\ ~IsStaked(m)' => nodeStake'[m] = 0
      <3>1. CASE m \in DOMAIN r.nodes
        BY <2>1, <3>1, StakeRequiredAssumption DEF ApplyReport, IsStaked
      <3>2. CASE m \notin DOMAIN r.nodes
        BY <2>1, <3>2 DEF ApplyReport, IsStaked, AccessFollowsStake
      <3>3. QED BY <3>1, <3>2
    <2>3. QED BY <2>2 DEF AccessFollowsStake
  <1>8. ASSUME NEW u \in Addresses, NEW amount \in Amounts,
               StakeTx(u, amount) \/ WithdrawTx(u, amount)
        PROVE  AccessFollowsStake'
    BY <1>2, <1>8 DEF StakeTx, WithdrawTx
  <1>9. ASSUME NEW u \in Addresses, NEW amount \in Amounts, JoinTx(u, amount)
        PROVE  AccessFollowsStake'
    <2>1. /\ \A m \in Addresses \ {u} : nodeStake'[m] = nodeStake[m]
          /\ canPublish' = AccessAfter(u, nodeStake'[u])
      BY <1>9 DEF JoinTx, StakeTypeOK
    <2>2. QED BY <1>1, <2>1, AccessChecked DEF StakeTypeOK
  <1>10. ASSUME NEW u \in Addresses, NEW amount \in Amounts, NEW n \in Addresses,
               \/ DelegateTx(u, n, amount)
               \/ UndelegateTx(u, n, amount)
               \/ StakeAndDelegateTx(u, n, amount)
               \/ UndelegateWithdrawTx(u, n, amount)
        PROVE  AccessFollowsStake'
    BY <1>3, <1>10 DEF DelegateTx, UndelegateTx, StakeAndDelegateTx, UndelegateWithdrawTx
  <1>11. ASSUME NEW amount \in Amounts, TreasuryWithdrawTx(amount) PROVE AccessFollowsStake'
    BY <1>2, <1>11 DEF TreasuryWithdrawTx
  <1>12. CASE UNCHANGED managerVars
    BY <1>2, <1>12 DEF managerVars, stakeVars
  <1>13. QED
    BY <1>4, <1>5, <1>6, <1>7, <1>8, <1>9, <1>10, <1>11, <1>12 DEF ManagerNext, StakeNext

\* A staked node can always publish, and a publisher that is not staked has no
\* stake at all, for every stake required and every set of reports.
THEOREM ManagerAccessFollowsStake == ManagerSpec => []AccessFollowsStake
  <1>1. ManagerInit => StakeTypeOK /\ AccessFollowsStake
    BY TokensAssumption, StakeRequiredAssumption
    DEF ManagerInit, StakeTypeOK, AccessFollowsStake, IsStaked
  <1>2. StakeTypeOK /\ AccessFollowsStake /\ [ManagerNext]_managerVars
            => StakeTypeOK' /\ AccessFollowsStake'
    BY StakeTypeStep, AccessStep
  <1>3. QED
    BY <1>1, <1>2, PTL DEF ManagerSpec

-----------------------------------------------------------------------------
(* The ledger balances. *)

\* Sums of amounts per account, and what a change of one amount does to them.
LEMMA TotalNat ==
    ASSUME NEW f \in [Addresses -> Nat]
    PROVE  Total(f) \in Nat
  <1>1. IsFiniteSet(Addresses)
    BY AccountsAssumption, FS_Subset
  <1>2. QED BY <1>1, SumNat DEF Total, SumFunction

LEMMA TotalZero == Total([u \in Addresses |-> 0]) = 0
  <1>1. IsFiniteSet(Addresses)
    BY AccountsAssumption, FS_Subset
  <1>2. QED BY <1>1, SumZero DEF Total, SumFunction

SameBut(f, g, a) == \A u \in Addresses \ {a} : g[u] = f[u]
Grows(f, g, c) == Total(g) = Total(f) + c

\* A change of one amount changes the sum by as much.
LEMMA TotalChange ==
    ASSUME NEW f \in [Addresses -> Nat], NEW g \in [Addresses -> Nat], NEW a \in Addresses,
           NEW c \in Int, SameBut(f, g, a), g[a] = f[a] + c
    PROVE  Grows(f, g, c)
  <1>1. IsFiniteSet(Addresses)
    BY AccountsAssumption, FS_Subset
  <1>2. /\ \A u \in Addresses : f[u] \in Int
        /\ g[a] \in Int
        /\ \A u \in Addresses \ {a} : g[u] = f[u]
        /\ DOMAIN f = Addresses /\ DOMAIN g = Addresses
    BY DEF SameBut
  <1>3. Total(g) = Total(f) - f[a] + g[a]
    BY <1>1, <1>2, SumChangeOne DEF Total, SumFunction
  <1>4. Total(f) \in Nat /\ f[a] \in Nat
    BY TotalNat
  <1>5. QED BY <1>3, <1>4 DEF Grows

\* Amounts added account by account are added to the sum.
LEMMA TotalPlus ==
    ASSUME NEW f \in [Addresses -> Nat], NEW c \in [Addresses -> Nat],
           NEW g \in [Addresses -> Nat], \A u \in Addresses : g[u] = f[u] + c[u]
    PROVE  Grows(f, g, Total(c))
  <1>1. IsFiniteSet(Addresses)
    BY AccountsAssumption, FS_Subset
  <1>2. \A u \in Addresses : f[u] \in Int /\ c[u] \in Int
    OBVIOUS
  <1>3. QED BY <1>1, <1>2, SumAdd DEF Total, SumFunction, Grows

\* All that is delegated, by whomever to whomever, and all that is to n.
Delegated(d) == Total([u \in Addresses |-> Total(d[u])])
Column(d, n) == [u \in Addresses |-> d[u][n]]

LEMMA DelegatedNat ==
    ASSUME NEW d \in [Addresses -> [Addresses -> Nat]]
    PROVE  Delegated(d) \in Nat
  <1>1. \A u \in Addresses : Total(d[u]) \in Nat
    BY TotalNat
  <1>2. QED BY <1>1, TotalNat DEF Delegated

\* u's delegation to n, and no other, changes by c.
OneDelegation(d, e, u, n, c) ==
    /\ e[u][n] = d[u][n] + c
    /\ \A m \in Addresses \ {n} : e[u][m] = d[u][m]
    /\ \A v \in Addresses \ {u} : e[v] = d[v]
DelegatedGrows(d, e, c) == Delegated(e) = Delegated(d) + c
ColumnGrows(d, e, n, c) ==
    /\ Grows(Column(d, n), Column(e, n), c)
    /\ \A m \in Addresses \ {n} : Column(e, m) = Column(d, m)

\* Then what u delegates, what n is delegated and all that is delegated change
\* by c, and nothing else does.
LEMMA DelegationChange ==
    ASSUME NEW d \in [Addresses -> [Addresses -> Nat]],
           NEW e \in [Addresses -> [Addresses -> Nat]],
           NEW u \in Addresses, NEW n \in Addresses, NEW c \in Int,
           OneDelegation(d, e, u, n, c)
    PROVE  /\ Grows(d[u], e[u], c)
           /\ ColumnGrows(d, e, n, c)
           /\ DelegatedGrows(d, e, c)
  <1> USE DEF OneDelegation
  <1>1. Grows(d[u], e[u], c)
    <2>1. SameBut(d[u], e[u], n) /\ d[u] \in [Addresses -> Nat] /\ e[u] \in [Addresses -> Nat]
      BY DEF SameBut
    <2>2. QED BY <2>1, TotalChange
  <1>2. Grows(Column(d, n), Column(e, n), c)
    <2>1. /\ SameBut(Column(d, n), Column(e, n), u)
          /\ Column(d, n) \in [Addresses -> Nat] /\ Column(e, n) \in [Addresses -> Nat]
          /\ Column(e, n)[u] = Column(d, n)[u] + c
      BY DEF SameBut, Column
    <2>2. QED BY <2>1, TotalChange
  <1>3. \A m \in Addresses \ {n} : Column(e, m) = Column(d, m)
    BY DEF Column
  <1>4. DelegatedGrows(d, e, c)
    <2> DEFINE f == [v \in Addresses |-> Total(d[v])]
               g == [v \in Addresses |-> Total(e[v])]
    <2>1. \A v \in Addresses : Total(d[v]) \in Nat /\ Total(e[v]) \in Nat
      BY TotalNat
    <2>2. f \in [Addresses -> Nat] /\ g \in [Addresses -> Nat]
      BY <2>1
    <2>3. SameBut(f, g, u) /\ g[u] = f[u] + c
      BY <1>1 DEF SameBut, Grows
    <2>4. Grows(f, g, c)
      <3> HIDE DEF f, g
      <3> QED BY <2>2, <2>3, TotalChange
    <2>5. QED BY <2>4 DEF Grows, Delegated, DelegatedGrows
  <1>5. QED BY <1>1, <1>2, <1>3, <1>4 DEF ColumnGrows

\* One transaction's effect on the ledger: c more in the free balances and the
\* delegations, t more in the treasury.
LedgerChange(b, c, t) ==
    /\ Grows(balanceOf, balanceOf', b)
    /\ DelegatedGrows(delegatesOf, delegatesOf', c)
    /\ treasurySupply' = treasurySupply + t
    /\ totalSupply' = totalSupply + (b + c + t)
    /\ tokens'[NodeManagerAccount] = tokens[NodeManagerAccount] + (b + c + t)

LEMMA LedgerUnchanged ==
    ASSUME StakeTypeOK, LedgerBalances,
           UNCHANGED <<balanceOf, delegatesOf, treasurySupply, totalSupply, tokens>>
    PROVE  LedgerBalances'
  BY DEF LedgerBalances, DelegatedBy

LEMMA LedgerStaysBalanced ==
    ASSUME StakeTypeOK, LedgerBalances, NEW b \in Int, NEW c \in Int, NEW t \in Int,
           LedgerChange(b, c, t)
    PROVE  LedgerBalances'
  <1>1. /\ Total(balanceOf) \in Nat /\ Delegated(delegatesOf) \in Nat
        /\ treasurySupply \in Nat
    BY TotalNat, DelegatedNat DEF StakeTypeOK
  <1>2. /\ totalSupply = Total(balanceOf) + Delegated(delegatesOf) + treasurySupply
        /\ tokens[NodeManagerAccount] = totalSupply
    BY DEF LedgerBalances, DelegatedBy, Delegated
  <1>3. /\ Total(balanceOf') = Total(balanceOf) + b
        /\ Delegated(delegatesOf') = Delegated(delegatesOf) + c
        /\ treasurySupply' = treasurySupply + t
        /\ totalSupply' = totalSupply + (b + c + t)
        /\ tokens'[NodeManagerAccount] = tokens[NodeManagerAccount] + (b + c + t)
    BY DEF LedgerChange, Grows, DelegatedGrows
  <1>4. /\ totalSupply' = Total(balanceOf') + Delegated(delegatesOf') + treasurySupply'
        /\ tokens'[NodeManagerAccount] = totalSupply'
    BY <1>1, <1>2, <1>3
  <1>5. QED BY <1>4 DEF LedgerBalances, DelegatedBy, Delegated

\* One transaction's effect on its sender u: its tokens, its free balance and
\* what it delegates; no other user's change.
UserChange(u, a, b, c) ==
    /\ tokens'[u] = tokens[u] + a
    /\ balanceOf'[u] = balanceOf[u] + b
    /\ Grows(delegatesOf[u], delegatesOf'[u], c)
    /\ \A v \in Addresses \ {u} :
        tokens'[v] = tokens[v] /\ balanceOf'[v] = balanceOf[v] /\ delegatesOf'[v] = delegatesOf[v]

\* What a transaction other than a report may do to what users own.
MovesOwnValue ==
    \A u \in Addresses : Wealth(u)' = Wealth(u) + FromTreasury(u)

LEMMA WealthUnchanged ==
    ASSUME StakeTypeOK, UNCHANGED <<balanceOf, delegatesOf, treasurySupply, tokens>>
    PROVE  MovesOwnValue
  <1>1. ASSUME NEW u \in Addresses PROVE Wealth(u)' = Wealth(u) + FromTreasury(u)
    <2>1. Wealth(u)' = Wealth(u) /\ FromTreasury(u) = 0
      BY DEF Wealth, DelegatedBy, FromTreasury, StakeTypeOK
    <2>2. /\ tokens[u] \in Nat /\ balanceOf[u] \in Nat /\ Total(delegatesOf[u]) \in Nat
      BY TotalNat, AccountsAssumption DEF StakeTypeOK
    <2>3. Wealth(u) \in Int
      BY <2>2 DEF Wealth, DelegatedBy
    <2>4. QED BY <2>1, <2>3
  <1>2. QED BY <1>1 DEF MovesOwnValue

LEMMA UserKeepsWealth ==
    ASSUME StakeTypeOK, NEW u \in Addresses, NEW a \in Int, NEW b \in Int, NEW c \in Int,
           a + b + c = 0, UserChange(u, a, b, c), treasurySupply' = treasurySupply
    PROVE  MovesOwnValue
  <1>1. ASSUME NEW v \in Addresses PROVE Wealth(v)' = Wealth(v) + FromTreasury(v)
    <2>1. FromTreasury(v) = 0
      BY DEF FromTreasury, StakeTypeOK
    <2>2. tokens[v] \in Nat /\ balanceOf[v] \in Nat /\ Total(delegatesOf[v]) \in Nat
      BY TotalNat, AccountsAssumption DEF StakeTypeOK
    <2>3. CASE v # u
      BY <2>1, <2>2, <2>3 DEF UserChange, Wealth, DelegatedBy
    <2>4. CASE v = u
      <3>1. /\ tokens'[u] = tokens[u] + a
            /\ balanceOf'[u] = balanceOf[u] + b
            /\ Total(delegatesOf'[u]) = Total(delegatesOf[u]) + c
        BY DEF UserChange, Grows
      <3>2. tokens'[u] + balanceOf'[u] + Total(delegatesOf'[u]) =
                tokens[u] + balanceOf[u] + Total(delegatesOf[u])
        BY <2>2, <2>4, <3>1
      <3>3. Wealth(u)' = Wealth(u) /\ Wealth(u) \in Int
        BY <2>2, <2>4, <3>2 DEF Wealth, DelegatedBy
      <3>4. QED BY <2>1, <2>4, <3>3
    <2>5. QED BY <2>3, <2>4
  <1>2. QED BY <1>1 DEF MovesOwnValue

\* No delegation is left without its stake unless its node is removed.
StrandsByRemovalOnly ==
    \A n \in Addresses :
        FullyBacked(n) /\ ~FullyBacked(n)' => n \in registered /\ n \notin registered'

LEMMA BackingUnchanged ==
    ASSUME UNCHANGED <<nodeStake, delegatesOf>>
    PROVE  StrandsByRemovalOnly
  BY DEF StrandsByRemovalOnly, FullyBacked, DelegatedTo

\* n's stake follows its delegations, and no other stake or delegation changes.
LEMMA BackingFollows ==
    ASSUME StakeTypeOK, NEW n \in Addresses, NEW c \in Int,
           ColumnGrows(delegatesOf, delegatesOf', n, c),
           nodeStake' = [nodeStake EXCEPT ![n] = @ + c]
    PROVE  StrandsByRemovalOnly
  <1>1. ASSUME NEW m \in Addresses, FullyBacked(m) PROVE FullyBacked(m)'
    <2>1. nodeStake[m] = Total(Column(delegatesOf, m))
      BY <1>1 DEF FullyBacked, DelegatedTo, Column
    <2>2. nodeStake'[m] = Total(Column(delegatesOf', m))
      <3>1. CASE m = n
        BY <2>1, <3>1 DEF ColumnGrows, Grows, StakeTypeOK
      <3>2. CASE m # n
        BY <2>1, <3>2 DEF ColumnGrows, StakeTypeOK
      <3>3. QED BY <3>1, <3>2
    <2>3. QED BY <2>2 DEF FullyBacked, DelegatedTo, Column
  <1>2. QED BY <1>1 DEF StrandsByRemovalOnly

\* n is removed: its stake and a delegation to it may go, no other.
LEMMA BackingOfRemoved ==
    ASSUME StakeTypeOK, NEW n \in Addresses, Unlink(n),
           \A m \in Addresses \ {n} : Column(delegatesOf', m) = Column(delegatesOf, m),
           nodeStake' = [nodeStake EXCEPT ![n] = 0]
    PROVE  StrandsByRemovalOnly
  <1>1. n \in registered /\ n \notin registered'
    BY DEF Unlink, Found
  <1>2. ASSUME NEW m \in Addresses \ {n}, FullyBacked(m) PROVE FullyBacked(m)'
    <2>1. nodeStake[m] = Total(Column(delegatesOf, m))
      BY <1>2 DEF FullyBacked, DelegatedTo, Column
    <2>2. nodeStake'[m] = Total(Column(delegatesOf', m))
      BY <2>1 DEF StakeTypeOK
    <2>3. QED BY <2>2 DEF FullyBacked, DelegatedTo, Column
  <1>3. QED BY <1>1, <1>2 DEF StrandsByRemovalOnly

\* What a transaction of user u is about: a tokens of u's come back from the
\* contract, b is added to its free balance and c to its delegation to n.
UserTx(u, n, a, b, c) ==
    /\ tokens'[u] = tokens[u] + a
    /\ tokens'[NodeManagerAccount] = tokens[NodeManagerAccount] - a
    /\ \A v \in Addresses \ {u} : tokens'[v] = tokens[v]
    /\ totalSupply' = totalSupply - a
    /\ treasurySupply' = treasurySupply
    /\ SameBut(balanceOf, balanceOf', u) /\ balanceOf'[u] = balanceOf[u] + b
    /\ OneDelegation(delegatesOf, delegatesOf', u, n, c)

KeepsBooks == (LedgerBalances => LedgerBalances') /\ MovesOwnValue /\ StrandsByRemovalOnly

LEMMA UserTxKeepsValue ==
    ASSUME StakeTypeOK, StakeTypeOK', NEW u \in Addresses, NEW n \in Addresses,
           NEW a \in Int, NEW b \in Int, NEW c \in Int, a + b + c = 0,
           UserTx(u, n, a, b, c)
    PROVE  (LedgerBalances => LedgerBalances') /\ MovesOwnValue
  <1>1. Grows(balanceOf, balanceOf', b)
    BY TotalChange DEF UserTx, StakeTypeOK
  <1>2. /\ Grows(delegatesOf[u], delegatesOf'[u], c)
        /\ DelegatedGrows(delegatesOf, delegatesOf', c)
    BY DelegationChange DEF UserTx, StakeTypeOK
  <1>3. totalSupply \in Int /\ tokens[NodeManagerAccount] \in Int /\ treasurySupply \in Int
    BY AccountsAssumption DEF StakeTypeOK
  <1>4. LedgerChange(b, c, 0)
    <2>1. totalSupply' = totalSupply - a /\ treasurySupply' = treasurySupply
          /\ tokens'[NodeManagerAccount] = tokens[NodeManagerAccount] - a
      BY DEF UserTx
    <2>2. /\ totalSupply' = totalSupply + (b + c + 0)
          /\ treasurySupply' = treasurySupply + 0
          /\ tokens'[NodeManagerAccount] = tokens[NodeManagerAccount] + (b + c + 0)
      BY <1>3, <2>1
    <2>3. QED BY <1>1, <1>2, <2>2 DEF LedgerChange
  <1>5. LedgerBalances => LedgerBalances'
    BY <1>4, LedgerStaysBalanced
  <1>6. UserChange(u, a, b, c)
    BY <1>2 DEF UserChange, UserTx, SameBut, OneDelegation
  <1>7. MovesOwnValue
    BY <1>6, UserKeepsWealth DEF UserTx
  <1>8. QED BY <1>5, <1>7

\* What a payment does to the balances of a user and of the contract.
LEMMA PayFromUser ==
    ASSUME StakeTypeOK, NEW u \in Addresses, NEW amount \in Nat,
           Pay(u, NodeManagerAccount, amount)
    PROVE  /\ tokens'[u] = tokens[u] + (-amount)
           /\ tokens'[NodeManagerAccount] = tokens[NodeManagerAccount] - (-amount)
           /\ \A v \in Addresses \ {u} : tokens'[v] = tokens[v]
  BY AccountsAssumption DEF StakeTypeOK, Pay

LEMMA PayToUser ==
    ASSUME StakeTypeOK, NEW u \in Addresses, NEW amount \in Nat,
           Pay(NodeManagerAccount, u, amount)
    PROVE  /\ tokens'[u] = tokens[u] + amount
           /\ tokens'[NodeManagerAccount] = tokens[NodeManagerAccount] - amount
           /\ \A v \in Addresses \ {u} : tokens'[v] = tokens[v]
  BY AccountsAssumption DEF StakeTypeOK, Pay

\* A redelegation with a payment that makes up for it.
LEMMA RedelegateKeepsBooks ==
    ASSUME StakeTypeOK, StakeTypeOK', NEW u \in Addresses, NEW n \in Addresses,
           NEW a \in Int, NEW b \in Int, NEW c \in Int, a + b + c = 0,
           Redelegate(u, n, b, c),
           tokens'[u] = tokens[u] + a,
           tokens'[NodeManagerAccount] = tokens[NodeManagerAccount] - a,
           \A v \in Addresses \ {u} : tokens'[v] = tokens[v],
           totalSupply' = totalSupply - a,
           treasurySupply' = treasurySupply
    PROVE  KeepsBooks
  <1>1. OneDelegation(delegatesOf, delegatesOf', u, n, c)
    BY DEF Redelegate, StakeTypeOK, OneDelegation
  <1>2. SameBut(balanceOf, balanceOf', u) /\ balanceOf'[u] = balanceOf[u] + b
    BY DEF Redelegate, StakeTypeOK, SameBut
  <1>3. UserTx(u, n, a, b, c)
    BY <1>1, <1>2 DEF UserTx
  <1>4. nodeStake' = [nodeStake EXCEPT ![n] = @ + c]
    BY DEF Redelegate, StakeAfter
  <1>5. StrandsByRemovalOnly
    <2>1. ColumnGrows(delegatesOf, delegatesOf', n, c)
      BY <1>1, DelegationChange DEF StakeTypeOK
    <2>2. QED BY <1>4, <2>1, BackingFollows
  <1>6. QED BY <1>3, <1>5, UserTxKeepsValue DEF KeepsBooks

\* No transaction but a report moves value between users, leaves the ledger
\* unbalanced or, unless it removes a node, strands a delegation.
LEMMA StakeNextKeepsBooks ==
    ASSUME StakeTypeOK, StakeTypeOK', StakeNext
    PROVE  KeepsBooks
  <1> USE AmountsAssumption
  <1>1. ASSUME UNCHANGED <<balanceOf, delegatesOf, treasurySupply, totalSupply, tokens>>
        PROVE  (LedgerBalances => LedgerBalances') /\ MovesOwnValue
    BY <1>1, LedgerUnchanged, WealthUnchanged
  <1>2. CASE RegistryOnlyTx
    BY <1>1, <1>2, BackingUnchanged DEF RegistryOnlyTx, stakeVars, KeepsBooks
  <1>3. ASSUME NEW u \in Addresses, LeaveTx(u) PROVE KeepsBooks
    <2> DEFINE b == balanceOf[u]
               d == delegatesOf[u][u]
    <2>1. b \in Nat /\ d \in Nat /\ LeaveAmount(u) = b + d /\ b + d \in Nat
          /\ totalSupply \in Nat
      BY DEF LeaveAmount, StakeTypeOK
    <2>2. Pay(NodeManagerAccount, u, b + d) /\ totalSupply' = totalSupply - (b + d)
      BY <1>3, <2>1 DEF LeaveTx, PayOut, SupplyAfterPayout
    <2>3. OneDelegation(delegatesOf, delegatesOf', u, u, -d)
      BY <1>3, <2>1 DEF LeaveTx, StakeTypeOK, OneDelegation
    <2>4. SameBut(balanceOf, balanceOf', u) /\ balanceOf'[u] = balanceOf[u] + (-b)
      BY <1>3, <2>1 DEF LeaveTx, StakeTypeOK, SameBut
    <2>5. UserTx(u, u, b + d, -b, -d)
      BY <1>3, <2>1, <2>2, <2>3, <2>4, PayToUser DEF UserTx, LeaveTx
    <2>6. (LedgerBalances => LedgerBalances') /\ MovesOwnValue
      <3>1. b + d \in Int /\ -b \in Int /\ -d \in Int /\ (b + d) + (-b) + (-d) = 0
        BY <2>1
      <3> HIDE DEF b, d
      <3>2. QED BY <2>5, <3>1, UserTxKeepsValue
    <2>7. \A m \in Addresses \ {u} : Column(delegatesOf', m) = Column(delegatesOf, m)
      BY <2>3 DEF OneDelegation, Column
    <2>8. StrandsByRemovalOnly
      BY <1>3, <2>7, BackingOfRemoved DEF LeaveTx
    <2>9. QED BY <2>6, <2>8 DEF KeepsBooks
  <1>4. ASSUME NEW u \in Addresses, RemoveNodeTx(u) \/ KickNodeTx(u) PROVE KeepsBooks
    <2>1. /\ Unlink(u) /\ nodeStake' = [nodeStake EXCEPT ![u] = 0]
          /\ UNCHANGED <<balanceOf, delegatesOf, treasurySupply, totalSupply, tokens>>
      BY <1>4 DEF RemoveNodeTx, KickNodeTx, RemoveNode, KickNode
    <2>2. StrandsByRemovalOnly
      BY <2>1, BackingOfRemoved DEF Column
    <2>3. QED BY <1>1, <2>1, <2>2 DEF KeepsBooks
  <1>5. ASSUME NEW u \in Addresses, NEW amount \in Amounts, StakeTx(u, amount)
        PROVE  KeepsBooks
    <2>1. amount \in Nat /\ -amount \in Int /\ amount \in Int /\ totalSupply \in Nat
          /\ -amount + amount + 0 = 0
      BY DEF StakeTypeOK
    <2>2. Pay(u, NodeManagerAccount, amount) /\ totalSupply' = totalSupply - (-amount)
      BY <1>5, <2>1 DEF StakeTx, Deposit
    <2>3. UserTx(u, u, -amount, amount, 0)
      <3>1. SameBut(balanceOf, balanceOf', u) /\ balanceOf'[u] = balanceOf[u] + amount
        BY <1>5 DEF StakeTx, StakeTypeOK, SameBut
      <3>2. OneDelegation(delegatesOf, delegatesOf', u, u, 0)
        BY <1>5 DEF StakeTx, StakeTypeOK, OneDelegation
      <3>3. QED BY <1>5, <2>1, <2>2, <3>1, <3>2, PayFromUser DEF UserTx, StakeTx
    <2>4. StrandsByRemovalOnly
      BY <1>5, BackingUnchanged DEF StakeTx
    <2>5. QED BY <2>1, <2>3, <2>4, UserTxKeepsValue DEF KeepsBooks
  <1>6. ASSUME NEW u \in Addresses, NEW amount \in Amounts, WithdrawTx(u, amount)
        PROVE  KeepsBooks
    <2>1. amount \in Nat /\ -amount \in Int /\ amount \in Int /\ totalSupply \in Nat
          /\ amount + (-amount) + 0 = 0
      BY DEF StakeTypeOK
    <2>2. Pay(NodeManagerAccount, u, amount) /\ totalSupply' = totalSupply - amount
      BY <1>6, <2>1 DEF WithdrawTx, PayOut, SupplyAfterPayout
    <2>3. UserTx(u, u, amount, -amount, 0)
      <3>1. SameBut(balanceOf, balanceOf', u) /\ balanceOf'[u] = balanceOf[u] + (-amount)
        BY <1>6, <2>1 DEF WithdrawTx, StakeTypeOK, SameBut
      <3>2. OneDelegation(delegatesOf, delegatesOf', u, u, 0)
        BY <1>6 DEF WithdrawTx, StakeTypeOK, OneDelegation
      <3>3. QED BY <1>6, <2>1, <2>2, <3>1, <3>2, PayToUser DEF UserTx, WithdrawTx
    <2>4. StrandsByRemovalOnly
      BY <1>6, BackingUnchanged DEF WithdrawTx
    <2>5. QED BY <2>1, <2>3, <2>4, UserTxKeepsValue DEF KeepsBooks
  <1>7. ASSUME NEW u \in Addresses, NEW amount \in Amounts, JoinTx(u, amount)
        PROVE  KeepsBooks
    <2>1. amount \in Nat /\ -amount \in Int /\ amount \in Int /\ totalSupply \in Nat
          /\ -amount + 0 + amount = 0
      BY DEF StakeTypeOK
    <2>2. Pay(u, NodeManagerAccount, amount) /\ totalSupply' = totalSupply - (-amount)
      BY <1>7, <2>1 DEF JoinTx, Deposit
    <2>3. OneDelegation(delegatesOf, delegatesOf', u, u, amount)
      BY <1>7 DEF JoinTx, StakeTypeOK, OneDelegation
    <2>4. UserTx(u, u, -amount, 0, amount)
      <3>1. SameBut(balanceOf, balanceOf', u) /\ balanceOf'[u] = balanceOf[u] + 0
        BY <1>7 DEF JoinTx, StakeTypeOK, SameBut
      <3>2. QED BY <1>7, <2>1, <2>2, <2>3, <3>1, PayFromUser DEF UserTx, JoinTx
    <2>5. StrandsByRemovalOnly
      <3>1. ColumnGrows(delegatesOf, delegatesOf', u, amount)
        BY <2>1, <2>3, DelegationChange DEF StakeTypeOK
      <3>2. QED BY <1>7, <2>1, <3>1, BackingFollows DEF JoinTx
    <2>6. QED BY <2>1, <2>4, <2>5, UserTxKeepsValue DEF KeepsBooks
  <1>8. ASSUME NEW u \in Addresses, NEW amount \in Amounts, NEW n \in Addresses
        PROVE  /\ DelegateTx(u, n, amount) => KeepsBooks
               /\ UndelegateTx(u, n, amount) => KeepsBooks
               /\ StakeAndDelegateTx(u, n, amount) => KeepsBooks
               /\ UndelegateWithdrawTx(u, n, amount) => KeepsBooks
    <2>1. /\ amount \in Int /\ -amount \in Int /\ amount \in Nat
          /\ 0 + (-amount) + amount = 0 /\ 0 + amount + (-amount) = 0
          /\ -amount + 0 + amount = 0 /\ amount + 0 + (-amount) = 0
          /\ totalSupply \in Nat /\ totalSupply = totalSupply - 0
      BY DEF StakeTypeOK
    <2>2. \A x \in Accounts : tokens[x] + 0 = tokens[x] /\ tokens[x] - 0 = tokens[x]
      BY DEF StakeTypeOK
    <2>3. ASSUME DelegateTx(u, n, amount) \/ UndelegateTx(u, n, amount)
          PROVE  /\ tokens'[u] = tokens[u] + 0
                 /\ tokens'[NodeManagerAccount] = tokens[NodeManagerAccount] - 0
                 /\ \A v \in Addresses \ {u} : tokens'[v] = tokens[v]
                 /\ totalSupply' = totalSupply - 0
                 /\ treasurySupply' = treasurySupply
      BY <2>1, <2>2, <2>3, AccountsAssumption DEF DelegateTx, UndelegateTx
    <2>4. ASSUME DelegateTx(u, n, amount) PROVE KeepsBooks
      BY <2>1, <2>3, <2>4, RedelegateKeepsBooks DEF DelegateTx
    <2>5. ASSUME UndelegateTx(u, n, amount) PROVE KeepsBooks
      BY <2>1, <2>3, <2>5, RedelegateKeepsBooks DEF UndelegateTx
    <2>6. ASSUME StakeAndDelegateTx(u, n, amount) PROVE KeepsBooks
      <3>1. Pay(u, NodeManagerAccount, amount) /\ totalSupply' = totalSupply - (-amount)
        BY <2>1, <2>6 DEF StakeAndDelegateTx, Deposit
      <3>2. Redelegate(u, n, 0, amount) /\ treasurySupply' = treasurySupply
        BY <2>6 DEF StakeAndDelegateTx
      <3>3. QED BY <2>1, <3>1, <3>2, PayFromUser, RedelegateKeepsBooks
    <2>7. ASSUME UndelegateWithdrawTx(u, n, amount) PROVE KeepsBooks
      <3>1. Pay(NodeManagerAccount, u, amount) /\ totalSupply' = totalSupply - amount
        BY <2>1, <2>7 DEF UndelegateWithdrawTx, PayOut, SupplyAfterPayout
      <3>2. Redelegate(u, n, 0, -amount) /\ treasurySupply' = treasurySupply
        BY <2>7 DEF UndelegateWithdrawTx
      <3>3. QED BY <2>1, <3>1, <3>2, PayToUser, RedelegateKeepsBooks
    <2>8. QED BY <2>4, <2>5, <2>6, <2>7
  <1>9. ASSUME NEW amount \in Amounts, TreasuryWithdrawTx(amount) PROVE KeepsBooks
    <2>1. /\ amount \in Nat /\ totalSupply \in Nat /\ treasurySupply \in Nat
          /\ tokens \in [Accounts -> Nat]
      BY DEF StakeTypeOK
    <2>2. /\ Pay(NodeManagerAccount, OwnerAccount, amount)
          /\ totalSupply' = totalSupply - amount
          /\ treasurySupply' = treasurySupply - amount
          /\ balanceOf' = balanceOf /\ delegatesOf' = delegatesOf /\ nodeStake' = nodeStake
      BY <1>9 DEF TreasuryWithdrawTx, PayOut, SupplyAfterPayout
    <2>3. /\ tokens'[NodeManagerAccount] = tokens[NodeManagerAccount] - amount
          /\ tokens'[OwnerAccount] = tokens[OwnerAccount] + amount
          /\ \A v \in Addresses \ {OwnerAccount} : tokens'[v] = tokens[v]
      BY <2>1, <2>2, AccountsAssumption DEF Pay
    <2>4. LedgerBalances => LedgerBalances'
      <3>1. Total(balanceOf) \in Nat /\ Delegated(delegatesOf) \in Nat
        BY TotalNat, DelegatedNat DEF StakeTypeOK
      <3>2. /\ Grows(balanceOf, balanceOf', 0)
            /\ DelegatedGrows(delegatesOf, delegatesOf', 0)
        BY <2>2, <3>1 DEF Grows, DelegatedGrows
      <3>3. /\ treasurySupply' = treasurySupply + (-amount)
            /\ totalSupply' = totalSupply + (0 + 0 + (-amount))
            /\ tokens'[NodeManagerAccount] = tokens[NodeManagerAccount] + (0 + 0 + (-amount))
        BY <2>1, <2>2, <2>3, AccountsAssumption
      <3>4. LedgerChange(0, 0, -amount) /\ 0 \in Int /\ -amount \in Int
        BY <2>1, <3>2, <3>3 DEF LedgerChange
      <3>5. QED BY <3>4, LedgerStaysBalanced
    <2>5. MovesOwnValue
      <3>1. ASSUME NEW u \in Addresses PROVE Wealth(u)' = Wealth(u) + FromTreasury(u)
        <4>1. tokens[u] \in Nat /\ balanceOf[u] \in Nat /\ Total(delegatesOf[u]) \in Nat
          BY TotalNat, AccountsAssumption DEF StakeTypeOK
        <4>2. CASE u = OwnerAccount
          <5>1. FromTreasury(u) = amount
            BY <2>1, <2>2, <4>2 DEF FromTreasury
          <5>2. QED BY <2>1, <2>2, <2>3, <4>1, <4>2, <5>1 DEF Wealth, DelegatedBy
        <4>3. CASE u # OwnerAccount
          <5>1. FromTreasury(u) = 0
            BY <4>3 DEF FromTreasury
          <5>2. QED BY <2>2, <2>3, <4>1, <4>3, <5>1 DEF Wealth, DelegatedBy
        <4>4. QED BY <4>2, <4>3
      <3>2. QED BY <3>1 DEF MovesOwnValue
    <2>6. QED BY <2>2, <2>4, <2>5, BackingUnchanged DEF KeepsBooks
  <1>10. QED
    BY <1>2, <1>3, <1>4, <1>5, <1>6, <1>7, <1>8, <1>9 DEF StakeNext

\* An amount that a reward is added to is not cut.
LEMMA Rewarded == \A x, y \in Nat : AtLeastZero(x + y) = x + y
  BY DEF AtLeastZero

\* Reports that pay what they bill.
LEMMA ReportPays ==
    ASSUME StakeTypeOK, NEW u \in Addresses, NEW r \in Reports, PaysWhatItBills(r),
           ProcessReportTx(u, r)
    PROVE  (LedgerBalances => LedgerBalances') /\ StrandsByRemovalOnly
  <1> DEFINE change == [v \in Addresses |-> [n \in Addresses |-> DelegateChange(r, v, n)]]
  <1>1. StakeTypeOK'
    BY StakeTypeStep DEF ManagerNext
  <1>2. /\ \A d \in DOMAIN r.delegates : r.delegates[d] \in Nat
        /\ r.treasury \in Nat /\ r.billed \in Nat /\ r.captured = r.billed
    BY ReportsAssumption DEF ReportEffect, PaysWhatItBills
  <1>3. change \in [Addresses -> [Addresses -> Nat]]
    BY <1>2 DEF DelegateChange
  <1>4. \A v, n \in Addresses : delegatesOf'[v][n] = delegatesOf[v][n] + change[v][n]
    <2> SUFFICES ASSUME NEW v \in Addresses, NEW n \in Addresses
                 PROVE  delegatesOf'[v][n] = delegatesOf[v][n] + DelegateChange(r, v, n)
      OBVIOUS
    <2>1. delegatesOf[v][n] \in Nat
      BY DEF StakeTypeOK
    <2>2. delegatesOf'[v][n] = IF <<v, n>> \in DOMAIN r.delegates
            THEN AtLeastZero(delegatesOf[v][n] + r.delegates[<<v, n>>])
            ELSE delegatesOf[v][n]
      BY DEF ProcessReportTx, ReportEffects, ApplyReport
    <2>3. QED BY <1>2, <2>1, <2>2, Rewarded DEF DelegateChange
  <1>5. /\ r.billed = r.treasury + Delegated(change)
        /\ \A n \in Addresses : NodeChange(r, n) = Total(Column(change, n))
    BY DEF PaysWhatItBills, Delegated, Column
  <1> HIDE DEF change
  <1>6. Delegated(change) \in Nat
    BY <1>3, DelegatedNat
  <1>7. LedgerBalances => LedgerBalances'
    <2>1. Grows(balanceOf, balanceOf', 0)
      <3>1. Total(balanceOf) \in Nat /\ balanceOf' = balanceOf
        BY TotalNat DEF StakeTypeOK, ProcessReportTx, ReportEffects, ApplyReport
      <3>2. QED BY <3>1 DEF Grows
    <2>2. DelegatedGrows(delegatesOf, delegatesOf', Delegated(change))
      <3> DEFINE f == [v \in Addresses |-> Total(delegatesOf[v])]
                 g == [v \in Addresses |-> Total(delegatesOf'[v])]
                 c == [v \in Addresses |-> Total(change[v])]
      <3>1. f \in [Addresses -> Nat] /\ g \in [Addresses -> Nat] /\ c \in [Addresses -> Nat]
        BY <1>1, <1>3, TotalNat DEF StakeTypeOK
      <3>2. \A v \in Addresses : g[v] = f[v] + c[v]
        <4>1. ASSUME NEW v \in Addresses
              PROVE  Grows(delegatesOf[v], delegatesOf'[v], Total(change[v]))
          BY <1>1, <1>3, <1>4, TotalPlus DEF StakeTypeOK
        <4>2. QED BY <4>1 DEF Grows
      <3>3. Grows(f, g, Total(c))
        <4> HIDE DEF f, g, c
        <4> QED BY <3>1, <3>2, TotalPlus
      <3>4. QED BY <3>3 DEF Grows, DelegatedGrows, Delegated
    <2>3. /\ treasurySupply' = treasurySupply + r.treasury
          /\ totalSupply' = totalSupply + r.billed
          /\ tokens'[NodeManagerAccount] = tokens[NodeManagerAccount] + r.billed
      <3>1. /\ treasurySupply' = AtLeastZero(treasurySupply + r.treasury)
            /\ totalSupply' = totalSupply + r.billed
            /\ tokens' = [tokens EXCEPT ![NodeManagerAccount] = @ + r.captured]
        BY DEF ProcessReportTx, ReportEffects, ApplyReport
      <3>2. treasurySupply \in Nat /\ tokens \in [Accounts -> Nat]
        BY DEF StakeTypeOK
      <3>3. QED BY <1>2, <3>1, <3>2, Rewarded, AccountsAssumption
    <2>4. r.billed = 0 + Delegated(change) + r.treasury
      BY <1>2, <1>5, <1>6
    <2>5. LedgerChange(0, Delegated(change), r.treasury)
      BY <2>1, <2>2, <2>3, <2>4 DEF LedgerChange
    <2>6. 0 \in Int /\ Delegated(change) \in Int /\ r.treasury \in Int
      BY <1>2, <1>6
    <2>7. QED BY <2>5, <2>6, LedgerStaysBalanced
  <1>8. StrandsByRemovalOnly
    <2>1. ASSUME NEW n \in Addresses, FullyBacked(n) PROVE FullyBacked(n)'
      <3>1. /\ Column(delegatesOf, n) \in [Addresses -> Nat]
            /\ Column(delegatesOf', n) \in [Addresses -> Nat]
            /\ Column(change, n) \in [Addresses -> Nat]
            /\ \A v \in Addresses :
                Column(delegatesOf', n)[v] = Column(delegatesOf, n)[v] + Column(change, n)[v]
        BY <1>1, <1>3, <1>4 DEF Column, StakeTypeOK
      <3>2. Grows(Column(delegatesOf, n), Column(delegatesOf', n), Total(Column(change, n)))
        BY <3>1, TotalPlus
      <3>3. Total(Column(change, n)) \in Nat
        BY <3>1, TotalNat
      <3>4. NodeChange(r, n) \in Nat /\ NodeChange(r, n) = Total(Column(change, n))
        BY <1>5, <3>3
      <3>5. nodeStake'[n] = nodeStake[n] + NodeChange(r, n)
        <4>1. nodeStake'[n] = IF n \in DOMAIN r.nodes
                              THEN AtLeastZero(nodeStake[n] + r.nodes[n])
                              ELSE nodeStake[n]
          BY DEF ProcessReportTx, ReportEffects, ApplyReport
        <4>2. nodeStake[n] \in Nat
          BY DEF StakeTypeOK
        <4>3. QED BY <3>4, <4>1, <4>2, Rewarded DEF NodeChange
      <3>6. nodeStake[n] = Total(Column(delegatesOf, n))
        BY <2>1 DEF FullyBacked, DelegatedTo, Column
      <3>7. nodeStake'[n] = Total(Column(delegatesOf', n))
        BY <3>2, <3>4, <3>5, <3>6 DEF Grows
      <3>8. QED BY <3>7 DEF FullyBacked, DelegatedTo, Column
    <2>2. QED BY <2>1 DEF StrandsByRemovalOnly
  <1>9. QED BY <1>7, <1>8

\* What the contract counts as its supply is what it owes, and what it holds,
\* after any sequence of transactions and of reports that pay what they bill.
THEOREM LedgerAlwaysBalances ==
    ASSUME \A r \in Reports : PaysWhatItBills(r),
           InitialTokens[NodeManagerAccount] = 0
    PROVE  ManagerSpec => []LedgerBalances
  <1>1. ManagerInit => StakeTypeOK /\ LedgerBalances
    <2>1. ASSUME ManagerInit PROVE StakeTypeOK
      BY <2>1, TokensAssumption DEF ManagerInit, StakeTypeOK
    <2>2. ASSUME ManagerInit PROVE LedgerBalances
      <3>1. [u \in Addresses |-> DelegatedBy(u)] = [u \in Addresses |-> 0]
        BY <2>2, TotalZero DEF ManagerInit, DelegatedBy
      <3>2. QED
        BY <2>2, <3>1, TotalZero, AccountsAssumption DEF ManagerInit, LedgerBalances
    <2>3. QED BY <2>1, <2>2
  <1>2. StakeTypeOK /\ LedgerBalances /\ [ManagerNext]_managerVars
            => StakeTypeOK' /\ LedgerBalances'
    <2> SUFFICES ASSUME StakeTypeOK, LedgerBalances, [ManagerNext]_managerVars
                 PROVE  StakeTypeOK' /\ LedgerBalances'
      OBVIOUS
    <2>1. StakeTypeOK'
      BY StakeTypeStep
    <2>2. CASE StakeNext
      BY <2>1, <2>2, StakeNextKeepsBooks DEF KeepsBooks
    <2>3. ASSUME NEW u \in Addresses, NEW r \in Reports, ProcessReportTx(u, r)
          PROVE  LedgerBalances'
      BY <2>3, ReportPays
    <2>4. CASE UNCHANGED managerVars
      BY <2>1, <2>4, LedgerUnchanged DEF managerVars, stakeVars
    <2>5. QED BY <2>1, <2>2, <2>3, <2>4 DEF ManagerNext
  <1>3. QED BY <1>1, <1>2, PTL DEF ManagerSpec

\* A delegation has its stake behind it until its node is removed, if reports
\* reward each node as much as its delegators.
THEOREM StrandedByRemovalOnly ==
    ASSUME \A r \in Reports : PaysWhatItBills(r)
    PROVE  ManagerSpec => OnlyRemovalStrands
  <1>1. ManagerInit => StakeTypeOK
    BY TokensAssumption DEF ManagerInit, StakeTypeOK
  <1>2. StakeTypeOK /\ StakeTypeOK' /\ [ManagerNext]_managerVars => [StrandsByRemovalOnly]_managerVars
    <2> SUFFICES ASSUME StakeTypeOK, StakeTypeOK', ManagerNext PROVE StrandsByRemovalOnly
      OBVIOUS
    <2>1. CASE StakeNext
      BY <2>1, StakeNextKeepsBooks DEF KeepsBooks
    <2>2. ASSUME NEW u \in Addresses, NEW r \in Reports, ProcessReportTx(u, r)
          PROVE  StrandsByRemovalOnly
      BY <2>2, ReportPays
    <2>3. QED BY <2>1, <2>2 DEF ManagerNext
  <1>3. ManagerSpec => [][StrandsByRemovalOnly]_managerVars
    BY <1>1, <1>2, StakeTypeStep, PTL DEF ManagerSpec
  <1>4. QED BY <1>3 DEF OnlyRemovalStrands, StrandsByRemovalOnly

\* No transaction but a report moves value between users, whatever the
\* reports in between have done.
THEOREM ValueStaysWithItsOwner == ManagerSpec => WealthPreserved
  <1>1. ManagerInit => StakeTypeOK
    BY TokensAssumption DEF ManagerInit, StakeTypeOK
  <1>2. StakeTypeOK /\ StakeTypeOK' /\ [ManagerNext]_managerVars
            => [processed' = processed => MovesOwnValue]_managerVars
    <2> SUFFICES ASSUME StakeTypeOK, StakeTypeOK', ManagerNext, processed' = processed
                 PROVE  MovesOwnValue
      OBVIOUS
    <2>1. CASE StakeNext
      BY <2>1, StakeNextKeepsBooks DEF KeepsBooks
    <2>2. ASSUME NEW u \in Addresses, NEW r \in Reports, ProcessReportTx(u, r)
          PROVE  FALSE
      BY <2>2 DEF ProcessReportTx, ReportEffects
    <2>3. QED BY <2>1, <2>2 DEF ManagerNext
  <1>3. ManagerSpec => [][processed' = processed => MovesOwnValue]_managerVars
    BY <1>1, <1>2, StakeTypeStep, PTL DEF ManagerSpec
  <1>4. QED BY <1>3 DEF WealthPreserved, MovesOwnValue

=============================================================================

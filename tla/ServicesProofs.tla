--------------------------- MODULE ServicesProofs ---------------------------
(***************************************************************************)
(* Proofs about what runs beside the contracts and the client's queries,   *)
(* one component after the other: they share no state.                     *)
(***************************************************************************)
EXTENDS StakingFlow, Heartbeat, SystemMessages, SystemReports, FoldLemmas,
        SequenceTheorems

(***************************************************************************)
(* Proofs about StakingFlow: its types, and that a stake which nobody      *)
(* comes in between is allowed, for every number of jobs, wallets and      *)
(* managers and every amount.                                              *)
(***************************************************************************)

(***************************************************************************)
(* The rounding of queryStake.                                             *)
(***************************************************************************)

LEMMA UlpType ==
    ASSUME NEW n \in Nat
    PROVE  Ulp(n) \in Nat \ {0}
  <1> DEFINE D == Nat \ {0}
             widen == [p \in (1 .. n) \X D |-> Widened(n, p[2])]
             is == [i \in 1 .. n |-> i]
             Loop(g) == g = [t \in SUBSET (1 .. n) |->
                                IF t = {} THEN 1 ELSE Widened(n, g[t \ {Max(t)}])]
             h == CHOOSE g : Loop(g)
             run == [i \in 0 .. n |-> h[1 .. i]]
  <1>1. \A x \in D : Widened(n, x) \in D
    BY FlowConstantsAssumption DEF Widened
  <1>2. \A i \in 1 .. n, x \in D :
            widen[<<i, x>>] \in D /\ widen[<<i, x>>] = Widened(n, x)
    BY <1>1
  <1>3. 1 \in D /\ DOMAIN is = 1 .. n
    OBVIOUS
  <1>4. Ulp(n) = h[1 .. n]
    BY DEF Ulp, FoldLeft, MapThenFoldSet
  <1> HIDE DEF widen, D
  <1>5. \E g : Loop(g)
    <2>1. PICK g : LoopRecurs(g, n, D, 1, widen)
      BY <1>2, <1>3, LoopRecursion
    <2>2. \A t \in SUBSET (1 .. n) :
            g[t] = IF t = {} THEN 1 ELSE Widened(n, g[t \ {Max(t)}])
      BY <1>2, <2>1 DEF LoopRecurs
    <2>3. Loop(g)
      BY <2>1, <2>2 DEF LoopRecurs
    <2>4. QED BY <2>3
  <1>6. Loop(h)
    <2> HIDE DEF Loop
    <2> QED BY <1>5, Zenon
  <1> HIDE DEF h
  <1>7. run[0] \in D
    BY <1>3, <1>6
  <1>8. ASSUME NEW i \in 1 .. n, run[i - 1] \in D PROVE run[i] \in D
    <2> DEFINE t == 1 .. i
    <2>1. /\ t \in SUBSET (1 .. n) /\ t # {} /\ Max(t) = i
          /\ t \ {i} = 1 .. (i - 1)
      BY PrefixMax
    <2>2. h[t] = Widened(n, h[t \ {Max(t)}])
      <3> HIDE DEF t
      <3> QED BY <1>6, <2>1
    <2>3. i - 1 \in 0 .. n /\ i \in 0 .. n
      OBVIOUS
    <2>4. run[i - 1] = h[t \ {Max(t)}] /\ run[i] = h[t]
      BY <2>1, <2>3
    <2> HIDE DEF run
    <2>5. QED BY <1>1, <1>8, <2>2, <2>4
  <1>9. run[n] \in D
    <2> HIDE DEF run, Loop
    <2>1. \A i \in 0 .. n : run[i] \in D
      BY <1>7, <1>8, LoopInvariant
    <2>2. QED BY <2>1
  <1>10. QED BY <1>4, <1>9 DEF D

\* Rounding is off by half the distance of the numbers at most.
LEMMA NumberIsNear ==
    ASSUME NEW n \in Nat
    PROVE  /\ Number(n) \in Nat
           /\ n <= Number(n) + Ulp(n) \div 2
           /\ Number(n) <= n + Ulp(n) \div 2
  <1> DEFINE u == Ulp(n)
             down == n \div u
             low == down * u
             rest == n - low
  <1>1. u \in Nat \ {0}
    BY UlpType
  <1>2. Number(n) = IF 2 * rest > u \/ (2 * rest = u /\ down % 2 = 1)
                    THEN (down + 1) * u ELSE low
    BY DEF Number
  <1> HIDE DEF u
  <1>3. down \in Nat /\ low \in Nat /\ rest \in Nat /\ rest < u
    BY <1>1
  <1>4. (down + 1) * u = low + u
    BY <1>1, <1>3
  <1>5. n = low + rest
    BY <1>3
  <1> HIDE DEF down, low, rest
  <1>6. u \div 2 \in Nat /\ 2 * (u \div 2) <= u /\ u <= 2 * (u \div 2) + 1
    BY <1>1
  <1>7. CASE 2 * rest > u \/ (2 * rest = u /\ down % 2 = 1)
    BY <1>1, <1>2, <1>3, <1>4, <1>5, <1>6, <1>7 DEF u
  <1>8. CASE ~(2 * rest > u \/ (2 * rest = u /\ down % 2 = 1))
    BY <1>1, <1>2, <1>3, <1>5, <1>6, <1>8 DEF u
  <1>9. QED BY <1>7, <1>8

\* The amount of a job is the one it was asked for, but for the rounding.
LEMMA AmountIsNear ==
    ASSUME NEW j \in Jobs
    PROVE  /\ AmountOf[j] \in Nat /\ Requested[j] \in Nat /\ RoundingError[j] \in Nat
           /\ Requested[j] <= AmountOf[j] + RoundingError[j]
           /\ AmountOf[j] <= Requested[j] + RoundingError[j]
  <1> DEFINE n == JobOf[j].requested
  <1>1. n \in Nat
    BY JobsAssumption
  <1>2. Ulp(n) \in Nat \ {0}
    BY <1>1, UlpType
  <1>3. Ulp(n) \div 2 \in Nat
    BY <1>2
  <1>4. /\ Number(n) \in Nat
        /\ n <= Number(n) + Ulp(n) \div 2
        /\ Number(n) <= n + Ulp(n) \div 2
    BY <1>1, NumberIsNear
  <1>5. QED BY <1>1, <1>3, <1>4 DEF AmountOf, Requested, RoundingError

(***************************************************************************)
(* The types, and the allowance of a job that is alone.                    *)
(***************************************************************************)

\* What is in the mempool is awaited, unless its process is gone, and has no
\* receipt; nor has what was not sent.
PoolAwaited ==
    \A j \in Jobs :
        /\ j \in pool => pc[j] \in {"wait", "broken"} /\ receipt[j] = "none"
        /\ pc[j] = "submit" => receipt[j] = "none"

\* The nonces in the mempool are not used up, and each is there once.
PoolNonces ==
    \A j \in pool :
        /\ draft[j].nonce >= nonce[Wallet(j)]
        /\ \A k \in pool \ {j} :
                Wallet(k) = Wallet(j) => draft[k].nonce # draft[j].nonce

\* The approval is mined and the stake comes next.
ApprovalMined(j) == kind[j] = "approve" /\ pc[j] = "wait" /\ Succeeded(j)

AllowanceHeld ==
    \A j \in Jobs : (StakeAhead(j) \/ ApprovalMined(j)) /\ Lone(j) => EnoughAllowance(j)

FlowInv == FlowTypeOK /\ PoolAwaited /\ PoolNonces /\ AllowanceHeld

LEMMA JobTypes ==
    ASSUME NEW j \in Jobs
    PROVE  /\ Wallet(j) \in Wallets /\ Manager(j) \in Managers
           /\ Wallet(j) \in Holders /\ Manager(j) \in Holders
           /\ Wallet(j) # Manager(j)
           /\ Amount(j) \in Nat
  BY JobsAssumption, WalletsAssumption, AmountIsNear
  DEF Wallet, Manager, Wallets, Managers, Amount

LEMMA NextNonceIsNat ==
    ASSUME FlowTypeOK, NEW w \in Wallets
    PROVE  NextNonce(w) \in Nat
  <1>1. IsFiniteSet({j \in pool : Wallet(j) = w})
    BY JobsAssumption, FS_Subset DEF FlowTypeOK
  <1>2. Cardinality({j \in pool : Wallet(j) = w}) \in Nat
    BY <1>1, FS_CardinalityType
  <1>3. QED
    BY <1>2 DEF NextNonce, FlowTypeOK

LEMMA FlowInitially == FlowInit => FlowInv
  <1> SUFFICES ASSUME FlowInit PROVE FlowInv
    OBVIOUS
  <1>1. FlowTypeOK
    BY FlowConstantsAssumption DEF FlowInit, FlowTypeOK, Steps
  <1>2. PoolAwaited
    BY DEF FlowInit, PoolAwaited
  <1>3. AllowanceHeld
    BY DEF FlowInit, AllowanceHeld, StakeAhead, ApprovalMined
  <1>4. PoolNonces
    BY DEF FlowInit, PoolNonces
  <1>5. QED
    BY <1>1, <1>2, <1>3, <1>4 DEF FlowInv

-----------------------------------------------------------------------------
(* The steps of a job: they leave the allowances, and no job goes back to   *)
(* before it was sending, so that a job which is alone after the step was   *)
(* alone before it.                                                         *)

OthersKept(j) ==
    \A i \in Jobs \ {j} : pc'[i] = pc[i] /\ kind'[i] = kind[i] /\ receipt'[i] = receipt[i]

LEMMA HeldByJobStep ==
    ASSUME FlowInv, NEW j \in Jobs, OthersKept(j), allowance' = allowance,
           j \in NotSending' => j \in NotSending,
           (StakeAhead(j) \/ ApprovalMined(j))'
                => StakeAhead(j) \/ ApprovalMined(j) \/ EnoughAllowance(j)
    PROVE  AllowanceHeld'
  <1>1. NotSending' \subseteq NotSending
    BY DEF OthersKept, NotSending
  <1>2. ASSUME NEW i \in Jobs, Lone(i)'
        PROVE  Lone(i)
    BY <1>1, <1>2 DEF Lone, JobsOf, Wallet, Manager
  <1>3. ASSUME NEW i \in Jobs, (StakeAhead(i) \/ ApprovalMined(i))', Lone(i)'
        PROVE  EnoughAllowance(i)'
    <2>1. EnoughAllowance(i)' <=> EnoughAllowance(i)
      BY DEF EnoughAllowance, Wallet, Manager, Amount, Rounds
    <2>2. CASE i = j
      BY <1>2, <1>3, <2>1, <2>2 DEF FlowInv, AllowanceHeld
    <2>3. CASE i # j
      <3>1. StakeAhead(i) \/ ApprovalMined(i)
        BY <1>3, <2>3 DEF OthersKept, StakeAhead, ApprovalMined, Succeeded
      <3>2. QED
        BY <1>2, <1>3, <2>1, <3>1 DEF FlowInv, AllowanceHeld
    <2>4. QED
      BY <2>2, <2>3
  <1>4. QED
    BY <1>3 DEF AllowanceHeld

\* What job steps keep beside the invariant.
LEMMA StartKeeps ==
    ASSUME FlowInv, NEW j \in Jobs, Start(j)
    PROVE  FlowInv'
  <1> USE DEF Start, FlowInv, jobVars, chainVars, tokenVars, listsVars
  <1>1. FlowTypeOK'
    BY DEF FlowTypeOK, Steps
  <1>2. PoolAwaited'
    BY DEF PoolAwaited, FlowTypeOK
  <1>3. AllowanceHeld'
    BY HeldByJobStep
    DEF OthersKept, NotSending, StakeAhead, ApprovalMined, Succeeded, FlowTypeOK
  <1>4. PoolNonces'
    BY DEF PoolNonces, PoolAwaited, FlowTypeOK, Wallet
  <1>5. QED
    BY <1>1, <1>2, <1>3, <1>4

LEMMA ReadAllowanceKeeps ==
    ASSUME FlowInv, NEW j \in Jobs, ReadAllowance(j)
    PROVE  FlowInv'
  <1> USE DEF ReadAllowance, Prepared, GoOnTo, FlowInv, jobVars, chainVars, tokenVars, listsVars
  <1>1. FlowTypeOK'
    BY DEF FlowTypeOK, Steps
  <1>2. PoolAwaited'
    BY DEF PoolAwaited, FlowTypeOK
  <1>3. AllowanceHeld'
    BY HeldByJobStep
    DEF OthersKept, NotSending, StakeAhead, ApprovalMined, Succeeded, FlowTypeOK
  <1>4. PoolNonces'
    BY DEF PoolNonces, PoolAwaited, FlowTypeOK, Wallet
  <1>5. QED
    BY <1>1, <1>2, <1>3, <1>4

LEMMA AnswerKeeps ==
    ASSUME FlowInv, NEW j \in Jobs, Answer(j)
    PROVE  FlowInv'
  <1> USE DEF Answer, GoOnTo, FlowInv, jobVars, chainVars, tokenVars, listsVars
  <1>1. FlowTypeOK'
    BY DEF FlowTypeOK, Steps
  <1>2. PoolAwaited'
    BY DEF PoolAwaited, FlowTypeOK
  <1>3. AllowanceHeld'
    BY HeldByJobStep
    DEF OthersKept, NotSending, StakeAhead, ApprovalMined, Succeeded, FlowTypeOK
  <1>4. PoolNonces'
    BY DEF PoolNonces, PoolAwaited, FlowTypeOK, Wallet
  <1>5. QED
    BY <1>1, <1>2, <1>3, <1>4

\* A call that is given up, and a job that breaks off.
LEMMA GivingUpKeeps ==
    ASSUME FlowInv, NEW j \in Jobs, LookupFails(j) \/ Break(j)
    PROVE  FlowInv'
  <1> USE DEF LookupFails, Break, FlowInv, jobVars, chainVars, tokenVars, listsVars
  <1>1. FlowTypeOK'
    BY DEF FlowTypeOK, Steps
  <1>2. PoolAwaited'
    BY DEF PoolAwaited, FlowTypeOK
  <1>3. AllowanceHeld'
    BY HeldByJobStep
    DEF OthersKept, NotSending, StakeAhead, ApprovalMined, Succeeded, FlowTypeOK
  <1>4. PoolNonces'
    BY DEF PoolNonces, PoolAwaited, FlowTypeOK, Wallet
  <1>5. QED
    BY <1>1, <1>2, <1>3, <1>4

LEMMA PopulateKeeps ==
    ASSUME FlowInv, NEW j \in Jobs, Populate(j)
    PROVE  FlowInv'
  <1> USE DEF Populate, AfterError, FlowInv, jobVars, chainVars, tokenVars, listsVars
  <1>1. FlowTypeOK'
    <2>1. NextNonce(Wallet(j)) \in Nat
      BY NextNonceIsNat, JobTypes
    <2>2. draft' \in [Jobs -> [nonce : Nat, price : Nat]]
      BY <2>1 DEF FlowTypeOK
    <2>3. pc' \in [Jobs -> Steps] /\ receipt' \in [Jobs -> {"none", "ok", "reverted"}]
      BY DEF FlowTypeOK, Steps
    <2>4. QED
      BY <2>2, <2>3 DEF FlowTypeOK
  <1>2. PoolAwaited'
    BY DEF PoolAwaited, FlowTypeOK
  <1>3. AllowanceHeld'
    BY HeldByJobStep
    DEF OthersKept, NotSending, StakeAhead, ApprovalMined, Succeeded, FlowTypeOK
  <1>4. PoolNonces'
    <2>1. \A k \in pool : draft'[k] = draft[k]
      BY DEF PoolAwaited, FlowTypeOK
    <2>2. pool' = pool /\ nonce' = nonce
      OBVIOUS
    <2>3. QED
      BY <2>1, <2>2 DEF PoolNonces, Wallet
  <1>5. QED
    BY <1>1, <1>2, <1>3, <1>4

LEMMA SendsKeeps ==
    ASSUME FlowInv, NEW j \in Jobs, Sends(j)
    PROVE  FlowInv'
  <1> USE DEF Sends, Submit, SubmitUnderpriced, SubmitTooLate, AfterPriceError, AfterError,
              FlowInv, jobVars, chainVars, tokenVars, listsVars
  <1>1. FlowTypeOK'
    BY DEF FlowTypeOK, Steps
  <1>2. PoolAwaited'
    BY DEF PoolAwaited, FlowTypeOK
  <1>3. AllowanceHeld'
    BY HeldByJobStep
    DEF OthersKept, NotSending, StakeAhead, ApprovalMined, Succeeded, FlowTypeOK, PoolAwaited
  <1>4. PoolNonces'
    <2>1. draft' = draft /\ nonce' = nonce
      OBVIOUS
    <2>2. CASE pool' = pool
      BY <2>1, <2>2 DEF PoolNonces, Wallet
    <2>3. CASE Submit(j)
      <3>1. pool' = (pool \ Rivals(j)) \cup {j} /\ draft[j].nonce >= nonce[Wallet(j)]
        BY <2>3
      <3>2. \A k \in pool' \ {j} :
                /\ k \in pool
                /\ Wallet(k) = Wallet(j) => draft[k].nonce # draft[j].nonce
        BY <3>1 DEF Rivals
      <3>3. QED
        BY <2>1, <3>1, <3>2 DEF PoolNonces, Wallet
    <2>4. QED
      BY <2>2, <2>3
  <1>5. QED
    BY <1>1, <1>2, <1>3, <1>4

LEMMA AwaitReceiptKeeps ==
    ASSUME FlowInv, NEW j \in Jobs, AwaitReceipt(j)
    PROVE  FlowInv'
  <1> USE DEF AwaitReceipt, Prepared, GoOnTo, Succeeded,
              FlowInv, jobVars, chainVars, tokenVars, listsVars
  <1>1. FlowTypeOK'
    BY DEF FlowTypeOK, Steps
  <1>2. PoolAwaited'
    <2>1. j \notin pool
      <3>1. j \in pool => receipt[j] = "none" /\ ~Replaced(j)
        BY JobTypes DEF PoolAwaited, PoolNonces, Replaced, FlowTypeOK
      <3>2. QED
        BY <3>1
    <2>2. QED
      BY <2>1 DEF PoolAwaited, FlowTypeOK
  <1>3. AllowanceHeld'
    BY HeldByJobStep
    DEF OthersKept, NotSending, StakeAhead, ApprovalMined, Succeeded, FlowTypeOK
  <1>4. PoolNonces'
    BY DEF PoolNonces, PoolAwaited, FlowTypeOK, Wallet
  <1>5. QED
    BY <1>1, <1>2, <1>3, <1>4

-----------------------------------------------------------------------------
(* The chain.  Mining a transaction changes one allowance, of a wallet and  *)
(* a manager for which its job is not alone with any other.                 *)

\* What a mined transaction leaves of the types.
LEMMA MinedTypes ==
    ASSUME FlowTypeOK, NEW j \in Jobs, ApproveTx(j) \/ StakeTx(j) \/ RevertedTx(j)
    PROVE  /\ stakes' \in [Wallets -> [Managers -> Nat]]
           /\ tokens' \in [Holders -> Nat]
           /\ allowance' \in [Wallets -> [Managers -> Nat]]
           /\ blacklist' = blacklist /\ whitelist' = whitelist
           /\ receipt' \in [Jobs -> {"none", "ok", "reverted"}]
           /\ \A k \in Jobs \ {j} : receipt'[k] = receipt[k]
           /\ receipt'[j] # "none"
  <1> DEFINE w == Wallet(j)
             m == Manager(j)
             a == Amount(j)
  <1>1. w \in Wallets /\ m \in Managers /\ w \in Holders /\ m \in Holders /\ w # m /\ a \in Nat
    BY JobTypes
  <1> HIDE DEF w, m, a
  <1>2. CASE ApproveTx(j)
    BY <1>1, <1>2 DEF ApproveTx, Approve, Approves, FlowTypeOK, listsVars, w, m, a
  <1>3. CASE RevertedTx(j)
    BY <1>3 DEF RevertedTx, FlowTypeOK, tokenVars, listsVars
  <1>4. CASE StakeTx(j)
    <2>1. /\ tokens' = [tokens EXCEPT ![w] = @ - a, ![m] = @ + a]
          /\ allowance' = [allowance EXCEPT ![w][m] = @ - a]
          /\ stakes' = [stakes EXCEPT ![w][m] = @ + a]
          /\ receipt' = [receipt EXCEPT ![j] = "ok"]
          /\ blacklist' = blacklist /\ whitelist' = whitelist
          /\ a <= allowance[w][m] /\ a <= tokens[w]
      BY <1>4 DEF StakeTx, TransferFrom, TransferFromAllowed, listsVars, w, m, a
    <2>2. tokens[w] - a \in Nat /\ tokens[m] + a \in Nat
          /\ allowance[w][m] - a \in Nat /\ stakes[w][m] + a \in Nat
      BY <1>1, <2>1 DEF FlowTypeOK
    <2>3. tokens' \in [Holders -> Nat]
      BY <1>1, <2>1, <2>2 DEF FlowTypeOK
    <2>4. allowance' \in [Wallets -> [Managers -> Nat]]
      BY <1>1, <2>1, <2>2 DEF FlowTypeOK
    <2>5. stakes' \in [Wallets -> [Managers -> Nat]]
      BY <1>1, <2>1, <2>2 DEF FlowTypeOK
    <2>6. QED
      BY <2>1, <2>3, <2>4, <2>5 DEF FlowTypeOK
  <1>5. QED
    BY <1>2, <1>3, <1>4

\* The allowances of other wallets and managers are left alone, a reverted
\* transaction leaves all of them, and an approval is of the whole amount.
LEMMA MinedAllowance ==
    ASSUME FlowTypeOK, NEW j \in Jobs, ApproveTx(j) \/ StakeTx(j) \/ RevertedTx(j),
           NEW i \in Jobs
    PROVE  /\ Wallet(i) # Wallet(j) \/ Manager(i) # Manager(j)
                => (EnoughAllowance(i)' <=> EnoughAllowance(i))
           /\ RevertedTx(j) => (EnoughAllowance(i)' <=> EnoughAllowance(i))
           /\ ApproveTx(j) => EnoughAllowance(j)'
  <1> DEFINE w == Wallet(j)
             m == Manager(j)
  <1>1. w \in Wallets /\ m \in Managers /\ Amount(j) \in Nat
        /\ Wallet(i) \in Wallets /\ Manager(i) \in Managers
    BY JobTypes
  <1>2. \A k \in Jobs : EnoughAllowance(k)' <=> allowance'[Wallet(k)][Manager(k)] >= Amount(k)
    BY DEF EnoughAllowance, Wallet, Manager, Amount, Rounds
  <1>3. ASSUME Wallet(i) # w \/ Manager(i) # m
        PROVE  allowance'[Wallet(i)][Manager(i)] = allowance[Wallet(i)][Manager(i)]
    <2>1. PICK x : allowance' = [allowance EXCEPT ![w][m] = x] \/ allowance' = allowance
      <3>1. CASE ApproveTx(j)
        BY <3>1 DEF ApproveTx, Approve
      <3>2. CASE StakeTx(j)
        BY <3>2 DEF StakeTx, TransferFrom
      <3>3. CASE RevertedTx(j)
        BY <3>3 DEF RevertedTx, tokenVars
      <3>4. QED
        BY <3>1, <3>2, <3>3
    <2>2. QED
      BY <1>1, <1>3, <2>1 DEF FlowTypeOK
  <1>4. RevertedTx(j) => allowance' = allowance
    BY DEF RevertedTx, tokenVars
  <1>5. ASSUME ApproveTx(j)
        PROVE  allowance'[w][m] = Amount(j)
    BY <1>1, <1>5 DEF ApproveTx, Approve, Approves, FlowTypeOK
  <1>6. QED
    BY <1>1, <1>2, <1>3, <1>4, <1>5 DEF EnoughAllowance

LEMMA MineKeeps ==
    ASSUME FlowInv, NEW w \in Wallets, Mine(w)
    PROVE  FlowInv'
  <1>1. PICK j \in pool :
            /\ Wallet(j) = w /\ draft[j].nonce = nonce[w]
            /\ ApproveTx(j) \/ StakeTx(j) \/ RevertedTx(j)
            /\ pool' = pool \ {j}
    BY DEF Mine
  <1>2. /\ nonce' = [nonce EXCEPT ![w] = @ + 1]
        /\ UNCHANGED <<pc, kind, draft, orphans, agreed, gasPrice>>
    BY DEF Mine
  <1>3. j \in Jobs /\ pc[j] \in {"wait", "broken"} /\ receipt[j] = "none"
    BY DEF FlowInv, FlowTypeOK, PoolAwaited
  <1>4. FlowTypeOK'
    <2>1. nonce' \in [Wallets -> Nat] /\ pool' \subseteq Jobs
      BY <1>1, <1>2 DEF FlowInv, FlowTypeOK
    <2>2. QED
      BY <1>1, <1>2, <1>3, <2>1, MinedTypes DEF FlowInv, FlowTypeOK
  <1>5. PoolAwaited'
    <2>1. \A k \in Jobs \ {j} : receipt'[k] = receipt[k]
      BY <1>1, <1>3, MinedTypes DEF FlowInv
    <2>2. QED
      BY <1>1, <1>2, <1>3, <2>1 DEF FlowInv, PoolAwaited
  <1>6. PoolNonces'
    <2>1. ASSUME NEW k \in pool \ {j}
          PROVE  draft[k].nonce >= nonce'[Wallet(k)]
      <3>1. Wallet(k) \in Wallets /\ draft[k].nonce \in Nat
            /\ draft[k].nonce >= nonce[Wallet(k)]
        BY JobTypes DEF FlowInv, FlowTypeOK, PoolNonces
      <3>2. CASE Wallet(k) = w
        <4>1. draft[k].nonce # nonce[w]
          BY <1>1, <3>2 DEF FlowInv, PoolNonces
        <4>2. nonce[w] \in Nat /\ nonce'[w] = nonce[w] + 1
          BY <1>2 DEF FlowInv, FlowTypeOK
        <4>3. draft[k].nonce \in Nat /\ draft[k].nonce >= nonce[w]
          BY <3>1, <3>2
        <4>4. draft[k].nonce >= nonce'[w]
          BY <4>1, <4>2, <4>3
        <4>5. QED
          BY <3>2, <4>4
      <3>3. CASE Wallet(k) # w
        BY <1>2, <3>1, <3>3 DEF FlowInv, FlowTypeOK
      <3>4. QED
        BY <3>2, <3>3
    <2>2. QED
      BY <1>1, <1>2, <2>1 DEF FlowInv, PoolNonces, Wallet
  <1>7. AllowanceHeld'
    <2> SUFFICES ASSUME NEW i \in Jobs, (StakeAhead(i) \/ ApprovalMined(i))', Lone(i)'
                 PROVE  EnoughAllowance(i)'
      BY DEF AllowanceHeld
    <2>1. Lone(i)
      BY <1>2 DEF Lone, NotSending, JobsOf, Wallet, Manager
    <2>2. CASE i = j
      <3>1. CASE ApproveTx(j)
        BY <1>1, <1>3, <2>2, <3>1, MinedAllowance DEF FlowInv
      <3>2. CASE StakeTx(j)
        <4>1. kind[j] = "stake" /\ receipt'[j] = "ok" /\ pc[j] \notin {"populate", "submit"}
          BY <1>3, <3>2 DEF StakeTx, FlowInv, FlowTypeOK
        <4>2. QED
          BY <1>2, <2>2, <4>1 DEF StakeAhead, ApprovalMined, Succeeded
      <3>3. CASE RevertedTx(j)
        <4>1. kind[j] = "stake"
          BY <3>3 DEF RevertedTx, WouldSucceed
        <4>2. StakeAhead(j)
          BY <1>2, <1>3, <2>2, <4>1 DEF StakeAhead, ApprovalMined, Succeeded
        <4>3. EnoughAllowance(j)
          BY <2>1, <2>2, <4>2 DEF FlowInv, AllowanceHeld
        <4>4. QED
          BY <1>3, <2>2, <3>3, <4>3, MinedAllowance DEF FlowInv
      <3>4. QED
        BY <1>1, <3>1, <3>2, <3>3
    <2>3. CASE i # j
      <3>1. Wallet(i) # Wallet(j) \/ Manager(i) # Manager(j)
        BY <1>3, <2>1, <2>3 DEF Lone, JobsOf, NotSending
      <3>2. receipt'[i] = receipt[i]
        BY <1>1, <1>3, <2>3, MinedTypes DEF FlowInv
      <3>3. StakeAhead(i) \/ ApprovalMined(i)
        BY <1>2, <3>2 DEF StakeAhead, ApprovalMined, Succeeded
      <3>4. EnoughAllowance(i)
        BY <2>1, <3>3 DEF FlowInv, AllowanceHeld
      <3>5. QED
        BY <1>1, <1>3, <3>1, <3>4, MinedAllowance DEF FlowInv
    <2>4. QED
      BY <2>2, <2>3
  <1>8. QED
    BY <1>4, <1>5, <1>6, <1>7 DEF FlowInv

\* What the owner of the token changes.
TokenTypes ==
    /\ tokens \in [Holders -> Nat]
    /\ blacklist \subseteq Holders /\ whitelist \subseteq Holders \X Holders

\* The gas price, and the lists and balances of the token.
LEMMA EnvironmentKeeps ==
    ASSUME FlowInv, RaiseGasPrice \/ OwnerTx \/ UNCHANGED flowVars
    PROVE  FlowInv'
  <1>1. UNCHANGED <<jobVars, pool, nonce, stakes, allowance>>
    BY DEF RaiseGasPrice, OwnerTx, TokenOwnerTx, MintTokens, Burn, AddBlacklist,
           RemoveBlacklist, AddWhitelist, RemoveWhitelist, flowVars, chainVars,
           tokenVars, listsVars
  <1>2. gasPrice' \in Nat
    BY DEF RaiseGasPrice, OwnerTx, flowVars, chainVars, FlowInv, FlowTypeOK
  <1>3. TokenTypes'
    <2>1. CASE RaiseGasPrice \/ UNCHANGED flowVars
      BY <2>1 DEF TokenTypes, RaiseGasPrice, flowVars, tokenVars, FlowInv, FlowTypeOK
    <2>2. CASE OwnerTx
      <3> USE DEF TokenTypes, FlowInv, FlowTypeOK, listsVars
      <3>1. Wallets \subseteq Holders
        BY JobsAssumption DEF Wallets
      <3>2. ASSUME NEW a \in Wallets, NEW n \in MintAmounts, MintTokens(a, n) \/ Burn(a, n)
            PROVE  TokenTypes'
        <4>1. a \in Holders /\ n \in Nat
          BY <3>1, TokenConstantsAssumption
        <4>2. CASE MintTokens(a, n)
          <5>1. tokens[a] + n \in Nat
            BY <4>1
          <5>2. QED
            BY <4>1, <4>2, <5>1 DEF MintTokens
        <4>3. CASE Burn(a, n)
          <5>1. tokens[a] - n \in Nat
            BY <4>1, <4>3 DEF Burn
          <5>2. QED
            BY <4>1, <4>3, <5>1 DEF Burn
        <4>4. QED
          BY <3>2, <4>2, <4>3
      <3>3. ASSUME NEW to \in ListTargets, AddBlacklist(to) \/ RemoveBlacklist(to)
            PROVE  TokenTypes'
        BY <3>3, TokenConstantsAssumption DEF AddBlacklist, RemoveBlacklist
      <3>4. ASSUME NEW from \in Wallets, NEW to \in ListTargets,
                   AddWhitelist(from, to) \/ RemoveWhitelist(from, to)
            PROVE  TokenTypes'
        BY <3>1, <3>4, TokenConstantsAssumption DEF AddWhitelist, RemoveWhitelist
      <3>5. QED
        BY <2>2, <3>2, <3>3, <3>4 DEF OwnerTx, TokenOwnerTx
    <2>3. QED
      BY <2>1, <2>2
  <1>4. FlowTypeOK'
    BY <1>1, <1>2, <1>3 DEF TokenTypes, jobVars, FlowInv, FlowTypeOK
  <1>5. PoolAwaited' /\ PoolNonces'
    BY <1>1 DEF jobVars, FlowInv, PoolAwaited, PoolNonces, Wallet
  <1>6. AllowanceHeld'
    BY <1>1 DEF jobVars, FlowInv, AllowanceHeld, StakeAhead, ApprovalMined, Succeeded, Lone,
                NotSending, JobsOf, EnoughAllowance, Wallet, Manager, Amount, Rounds
  <1>7. QED
    BY <1>4, <1>5, <1>6 DEF FlowInv

-----------------------------------------------------------------------------
\* The inductive invariant: types, what is in the mempool, and the allowance
\* of the jobs that are alone.
THEOREM FlowInvariant == FlowSpec => []FlowInv
  <1>1. FlowInv /\ [FlowNext]_flowVars => FlowInv'
    <2> SUFFICES ASSUME FlowInv, [FlowNext]_flowVars
                 PROVE  FlowInv'
      OBVIOUS
    <2>1. ASSUME NEW j \in Jobs, Start(j)
          PROVE  FlowInv'
      BY <2>1, StartKeeps
    <2>2. ASSUME NEW j \in Jobs, Answer(j)
          PROVE  FlowInv'
      BY <2>2, AnswerKeeps
    <2>3. ASSUME NEW j \in Jobs, LookupFails(j) \/ Break(j)
          PROVE  FlowInv'
      BY <2>3, GivingUpKeeps
    <2>4. ASSUME NEW j \in Jobs, JobStep(j)
          PROVE  FlowInv'
      BY <2>4, ReadAllowanceKeeps, PopulateKeeps, SendsKeeps, AwaitReceiptKeeps DEF JobStep
    <2>5. ASSUME NEW w \in Wallets, Mine(w)
          PROVE  FlowInv'
      BY <2>5, MineKeeps
    <2>6. CASE RaiseGasPrice \/ OwnerTx \/ UNCHANGED flowVars
      BY <2>6, EnvironmentKeeps
    <2>7. QED
      BY <2>1, <2>2, <2>3, <2>4, <2>5, <2>6 DEF FlowNext
  <1>2. QED
    BY <1>1, FlowInitially, PTL DEF FlowSpec

\* Allowances, balances, stakes and nonces never go below zero, for every
\* number of jobs and every order of their transactions.
THEOREM FlowTypeCorrect == FlowSpec => []FlowTypeOK
  BY FlowInvariant, PTL DEF FlowInv

\* The stake of a job that is alone with its wallet and manager is allowed,
\* from the check of the allowance until it is mined.
THEOREM LoneStakesAreAllowed == FlowSpec => []LoneStakeIsAllowed
  <1>1. FlowInv => LoneStakeIsAllowed
    BY DEF FlowInv, AllowanceHeld, LoneStakeIsAllowed
  <1>2. QED
    BY <1>1, FlowInvariant, PTL

-----------------------------------------------------------------------------
(***************************************************************************)
(* The books of the managers.                                              *)
(***************************************************************************)

\* The jobs whose stake is booked.  Of a job that broke off its own state does
\* not tell, hence the set.
Booked(P) ==
    /\ P \subseteq Jobs
    /\ \A j \in P :
        /\ j \notin pool /\ kind[j] = "stake" /\ receipt[j] = "ok"
        /\ pc[j] \in {"staked", "broken", "wait"}
    /\ \A j \in Jobs :
        \/ pc[j] = "staked"
        \/ pc[j] = "wait" /\ kind[j] = "stake" /\ receipt[j] = "ok"
        => j \in P
    /\ \A w \in Wallets, m \in Managers :
        stakes[w][m] = SumFunctionOnSet(AmountOf, P \cap JobsOf(w, m))

\* The jobs whose approval is mined: no other one adds to what may be spent.
Granted(Q) ==
    /\ Q \subseteq agreed
    /\ \A j \in Q :
        \/ kind[j] = "stake"
        \/ kind[j] = "approve" /\ receipt[j] = "ok" /\ pc[j] \in {"wait", "broken", "failed"}
    /\ \A j \in Jobs : kind[j] = "approve" => j \in agreed
    /\ \A j \in Jobs : pc[j] \in {"idle", "reading", "asking"} => kind[j] = "none"
    /\ \A w \in Wallets, m \in Managers :
        stakes[w][m] + allowance[w][m] <=
            InitialAllowance[w][m] + SumFunctionOnSet(AmountOf, Q \cap JobsOf(w, m))

FlowBooks == (\E P : Booked(P)) /\ (\E Q : Granted(Q))

\* The sums exist and are natural numbers.
LEMMA AmountSums ==
    ASSUME NEW P \in SUBSET Jobs
    PROVE  /\ IsFiniteSet(P)
           /\ SumFunctionOnSet(AmountOf, P) \in Nat
           /\ SumFunctionOnSet(Requested, P) \in Nat
           /\ SumFunctionOnSet(RoundingError, P) \in Nat
  <1>1. IsFiniteSet(P)
    BY JobsAssumption, FS_Subset
  <1>2. \A j \in P : AmountOf[j] \in Nat /\ Requested[j] \in Nat /\ RoundingError[j] \in Nat
    BY AmountIsNear
  <1>3. QED BY <1>1, <1>2, SumNat

\* What a job stakes of wallet w at manager m.
Share(j, w, m) == IF w = Wallet(j) /\ m = Manager(j) THEN Amount(j) ELSE 0

\* One more job adds its amount where it staked, and nothing elsewhere.
AddsShare(P, j, w, m) ==
    SumFunctionOnSet(AmountOf, (P \cup {j}) \cap JobsOf(w, m)) =
        SumFunctionOnSet(AmountOf, P \cap JobsOf(w, m)) + Share(j, w, m)

LEMMA OneMoreJob ==
    ASSUME NEW P \in SUBSET Jobs, NEW j \in Jobs \ P, NEW w \in Wallets, NEW m \in Managers
    PROVE  AddsShare(P, j, w, m)
  <1> DEFINE S == (P \cup {j}) \cap JobsOf(w, m)
             R == P \cap JobsOf(w, m)
  <1>1. S \in SUBSET Jobs /\ R \in SUBSET Jobs
    OBVIOUS
  <1>2. SumFunctionOnSet(AmountOf, R) \in Nat /\ IsFiniteSet(S) /\ Amount(j) \in Nat
    BY <1>1, AmountSums, JobTypes
  <1>3. CASE w = Wallet(j) /\ m = Manager(j)
    <2>1. j \in S /\ S \ {j} = R
      BY <1>3 DEF JobsOf
    <2> HIDE DEF S, R
    <2>2. \A x \in S : AmountOf[x] \in Int
      BY <1>1, AmountIsNear
    <2>3. SumFunctionOnSet(AmountOf, S) = AmountOf[j] + SumFunctionOnSet(AmountOf, R)
      BY <1>2, <2>1, <2>2, SumTakeOut
    <2>4. SumFunctionOnSet(AmountOf, S) = SumFunctionOnSet(AmountOf, R) + Amount(j)
      BY <1>2, <2>3 DEF Amount
    <2>5. QED BY <1>3, <2>4 DEF AddsShare, Share, S, R
  <1>4. CASE ~(w = Wallet(j) /\ m = Manager(j))
    <2>1. S = R
      BY <1>4 DEF JobsOf
    <2> HIDE DEF S, R
    <2>2. SumFunctionOnSet(AmountOf, S) = SumFunctionOnSet(AmountOf, R) + 0
      BY <1>2, <2>1
    <2>3. QED BY <1>4, <2>2 DEF AddsShare, Share, S, R
  <1>5. QED BY <1>3, <1>4

-----------------------------------------------------------------------------
(* Steps that leave the chain alone. *)

LEMMA JobStepBooks ==
    ASSUME FlowInv, NEW j \in Jobs,
           Start(j) \/ Answer(j) \/ LookupFails(j) \/ Break(j) \/ JobStep(j)
    PROVE  /\ stakes' = stakes /\ allowance' = allowance
           /\ agreed \subseteq agreed'
           /\ \A k \in Jobs \ {j} : /\ pc'[k] = pc[k] /\ kind'[k] = kind[k]
                                    /\ receipt'[k] = receipt[k]
                                    /\ k \in pool' => k \in pool
  BY DEF Start, Answer, LookupFails, Break, JobStep, ReadAllowance, Populate, Sends, Submit,
         SubmitUnderpriced, SubmitTooLate, AwaitReceipt, Prepared, GoOnTo, chainVars,
         tokenVars, FlowInv, FlowTypeOK

LEMMA JobStepBooked ==
    ASSUME FlowInv, NEW j \in Jobs, NEW P, Booked(P),
           Start(j) \/ Answer(j) \/ LookupFails(j) \/ Break(j) \/ JobStep(j)
    PROVE  Booked(P)'
  <1>1. /\ stakes' = stakes
        /\ \A k \in Jobs \ {j} : /\ pc'[k] = pc[k] /\ kind'[k] = kind[k]
                                 /\ receipt'[k] = receipt[k]
                                 /\ k \in pool' => k \in pool
    BY JobStepBooks
  <1>2. pc[j] \in Steps /\ receipt[j] \in {"none", "ok", "reverted"}
    BY DEF FlowInv, FlowTypeOK
  <1>3. ASSUME j \in P
        PROVE  /\ j \notin pool' /\ kind'[j] = "stake" /\ receipt'[j] = "ok"
               /\ pc'[j] \in {"staked", "broken", "wait"}
    <2>1. /\ j \notin pool /\ kind[j] = "stake" /\ receipt[j] = "ok"
          /\ pc[j] \in {"staked", "broken", "wait"}
      BY <1>3 DEF Booked
    <2>2. QED
      BY <2>1 DEF Start, Answer, LookupFails, Break, JobStep, ReadAllowance, Populate, Sends,
             Submit, SubmitUnderpriced, SubmitTooLate, AwaitReceipt, Prepared, GoOnTo,
             Succeeded, chainVars, Ended, FlowInv, FlowTypeOK
  <1>4. ASSUME \/ pc'[j] = "staked"
               \/ pc'[j] = "wait" /\ kind'[j] = "stake" /\ receipt'[j] = "ok"
        PROVE  \/ pc[j] = "staked"
               \/ pc[j] = "wait" /\ kind[j] = "stake" /\ receipt[j] = "ok"
    <2>1. CASE Start(j) \/ Answer(j) \/ LookupFails(j) \/ Break(j) \/ ReadAllowance(j) \/ Populate(j)
      BY <1>4, <2>1 DEF Start, Answer, LookupFails, Break, ReadAllowance, Populate, AfterError,
             Prepared, GoOnTo, Ended, FlowInv, FlowTypeOK
    <2>2. CASE Sends(j)
      BY <1>4, <2>2 DEF Sends, Submit, SubmitUnderpriced, SubmitTooLate, AfterPriceError,
             AfterError, FlowInv, FlowTypeOK, PoolAwaited
    <2>3. CASE AwaitReceipt(j)
      BY <1>4, <2>3 DEF AwaitReceipt, Prepared, GoOnTo, Succeeded, FlowInv, FlowTypeOK
    <2>4. QED BY <2>1, <2>2, <2>3 DEF JobStep
  <1>5. \A w, m : JobsOf(w, m)' = JobsOf(w, m)
    BY DEF JobsOf, Wallet, Manager
  <1>6. QED BY <1>1, <1>3, <1>4, <1>5 DEF Booked

LEMMA JobStepGranted ==
    ASSUME FlowInv, NEW j \in Jobs, NEW Q, Granted(Q),
           Start(j) \/ Answer(j) \/ LookupFails(j) \/ Break(j) \/ JobStep(j)
    PROVE  Granted(Q)'
  <1>1. /\ stakes' = stakes /\ allowance' = allowance
        /\ agreed \subseteq agreed'
        /\ \A k \in Jobs \ {j} : /\ pc'[k] = pc[k] /\ kind'[k] = kind[k]
                                 /\ receipt'[k] = receipt[k]
    BY JobStepBooks
  <1>2. kind[j] = "approve" => j \in agreed
    BY DEF Granted
  <1>3. kind'[j] = "approve" => j \in agreed'
    BY <1>1, <1>2 DEF Start, Answer, LookupFails, Break, JobStep, ReadAllowance, Populate, Sends,
           Submit, SubmitUnderpriced, SubmitTooLate, AwaitReceipt, Prepared, GoOnTo,
           FlowInv, FlowTypeOK
  <1>4. pc[j] \in {"idle", "reading", "asking"} => kind[j] = "none"
    BY DEF Granted
  <1>5. pc'[j] \in {"idle", "reading", "asking"} => kind'[j] = "none"
    BY <1>4 DEF Start, Answer, LookupFails, Break, JobStep, ReadAllowance, Populate, Sends,
           Submit, SubmitUnderpriced, SubmitTooLate, AwaitReceipt, Prepared, GoOnTo,
           AfterError, AfterPriceError, FlowInv, FlowTypeOK
  <1>6. ASSUME j \in Q
        PROVE  \/ kind'[j] = "stake"
               \/ kind'[j] = "approve" /\ receipt'[j] = "ok" /\ pc'[j] \in {"wait", "broken", "failed"}
    <2>1. CASE kind[j] = "stake"
      BY <1>4, <2>1 DEF Start, Answer, LookupFails, Break, JobStep, ReadAllowance, Populate, Sends,
             Submit, SubmitUnderpriced, SubmitTooLate, AwaitReceipt, Prepared, GoOnTo,
             FlowInv, FlowTypeOK
    <2>2. CASE kind[j] = "approve" /\ receipt[j] = "ok" /\ pc[j] \in {"wait", "broken", "failed"}
      BY <2>2 DEF Start, Answer, LookupFails, Break, JobStep, ReadAllowance, Populate, Sends,
             Submit, SubmitUnderpriced, SubmitTooLate, AwaitReceipt, Prepared, GoOnTo,
             Succeeded, FlowInv, FlowTypeOK
    <2>3. QED BY <1>6, <2>1, <2>2 DEF Granted
  <1>7. \A w, m : JobsOf(w, m)' = JobsOf(w, m)
    BY DEF JobsOf, Wallet, Manager
  <1>8. agreed \subseteq Jobs
    BY DEF FlowInv, FlowTypeOK
  <1>9. Q \subseteq agreed' /\ \A k \in Jobs : kind'[k] = "approve" => k \in agreed'
    BY <1>1, <1>3 DEF Granted
  <1>10. \A k \in Jobs : pc'[k] \in {"idle", "reading", "asking"} => kind'[k] = "none"
    BY <1>1, <1>5 DEF Granted
  <1>11. \A k \in Q :
            \/ kind'[k] = "stake"
            \/ kind'[k] = "approve" /\ receipt'[k] = "ok" /\ pc'[k] \in {"wait", "broken", "failed"}
    BY <1>1, <1>6, <1>8 DEF Granted
  <1>12. QED BY <1>1, <1>7, <1>9, <1>10, <1>11 DEF Granted

-----------------------------------------------------------------------------
-----------------------------------------------------------------------------
(* The chain. *)

\* What a mined transaction does to the books.
LEMMA MinedBooks ==
    ASSUME FlowTypeOK, NEW j \in Jobs, NEW w \in Wallets, NEW m \in Managers
    PROVE  /\ RevertedTx(j) => stakes' = stakes /\ allowance' = allowance
           /\ ApproveTx(j) =>
                /\ stakes' = stakes
                /\ allowance'[w][m] = IF w = Wallet(j) /\ m = Manager(j)
                                      THEN Amount(j) ELSE allowance[w][m]
           /\ StakeTx(j) =>
                /\ stakes'[w][m] = stakes[w][m] + Share(j, w, m)
                /\ allowance'[w][m] = allowance[w][m] - Share(j, w, m)
  <1> DEFINE a == Amount(j)
             v == Wallet(j)
             n == Manager(j)
  <1>1. v \in Wallets /\ n \in Managers /\ v \in Holders /\ n \in Holders /\ a \in Nat
    BY JobTypes
  <1>2. stakes[w][m] \in Nat /\ allowance[w][m] \in Nat
    BY DEF FlowTypeOK
  <1> HIDE DEF a, v, n
  <1>3. RevertedTx(j) => stakes' = stakes /\ allowance' = allowance
    BY DEF RevertedTx, tokenVars
  <1>4. ASSUME ApproveTx(j)
        PROVE  /\ stakes' = stakes
               /\ allowance'[w][m] = IF w = v /\ m = n THEN a ELSE allowance[w][m]
    BY <1>1, <1>4 DEF ApproveTx, Approve, Approves, FlowTypeOK, a, v, n
  <1>5. ASSUME StakeTx(j)
        PROVE  /\ stakes'[w][m] = stakes[w][m] + (IF w = v /\ m = n THEN a ELSE 0)
               /\ allowance'[w][m] = allowance[w][m] - (IF w = v /\ m = n THEN a ELSE 0)
    <2>1. /\ allowance' = [allowance EXCEPT ![v][n] = @ - a]
          /\ stakes' = [stakes EXCEPT ![v][n] = @ + a]
      BY <1>5 DEF StakeTx, TransferFrom, a, v, n
    <2>2. QED BY <1>1, <1>2, <2>1 DEF FlowTypeOK
  <1>6. QED BY <1>3, <1>4, <1>5 DEF Share, a, v, n

LEMMA MineBooked ==
    ASSUME FlowInv, NEW v \in Wallets, Mine(v), NEW P, Booked(P)
    PROVE  \E R : Booked(R)'
  <1>1. PICK j \in pool :
            /\ Wallet(j) = v /\ draft[j].nonce = nonce[v]
            /\ ApproveTx(j) \/ StakeTx(j) \/ RevertedTx(j)
            /\ pool' = pool \ {j}
    BY DEF Mine
  <1>2. UNCHANGED <<pc, kind>>
    BY DEF Mine
  <1>3. /\ j \in Jobs /\ pc[j] \in {"wait", "broken"} /\ receipt[j] = "none"
        /\ kind[j] \in {"none", "approve", "stake"}
        /\ receipt \in [Jobs -> {"none", "ok", "reverted"}]
        /\ stakes \in [Wallets -> [Managers -> Nat]]
    BY DEF FlowInv, FlowTypeOK, PoolAwaited
  <1>4. j \notin P /\ P \subseteq Jobs
    BY <1>1 DEF Booked
  <1>5. \A k \in Jobs \ {j} : receipt'[k] = receipt[k]
    BY <1>1, <1>3, MinedTypes DEF FlowInv
  <1>6. \A w, m : JobsOf(w, m)' = JobsOf(w, m)
    BY DEF JobsOf, Wallet, Manager
  <1>7. \A k \in P : k \notin pool' /\ kind'[k] = "stake" /\ receipt'[k] = "ok"
                     /\ pc'[k] \in {"staked", "broken", "wait"}
    BY <1>1, <1>2, <1>4, <1>5 DEF Booked
  <1>8. \A k \in Jobs \ {j} :
            \/ pc'[k] = "staked"
            \/ pc'[k] = "wait" /\ kind'[k] = "stake" /\ receipt'[k] = "ok"
            => k \in P
    BY <1>2, <1>5 DEF Booked
  <1>9. CASE StakeTx(j)
    <2> DEFINE R == P \cup {j}
    <2>1. kind'[j] = "stake" /\ receipt'[j] = "ok" /\ j \notin pool'
      BY <1>1, <1>2, <1>3, <1>9 DEF StakeTx
    <2>2. ASSUME NEW w \in Wallets, NEW m \in Managers
          PROVE  stakes'[w][m] = SumFunctionOnSet(AmountOf, R \cap JobsOf(w, m))
      <3>1. stakes[w][m] = SumFunctionOnSet(AmountOf, P \cap JobsOf(w, m))
        BY DEF Booked
      <3>2. stakes'[w][m] = stakes[w][m] + Share(j, w, m)
        BY <1>3, <1>9, MinedBooks DEF FlowInv
      <3>3. AddsShare(P, j, w, m)
        BY <1>3, <1>4, OneMoreJob
      <3>4. QED BY <3>1, <3>2, <3>3 DEF AddsShare
    <2>3. R \subseteq Jobs
      BY <1>3, <1>4
    <2>4. \A k \in R : k \notin pool' /\ kind'[k] = "stake" /\ receipt'[k] = "ok"
                       /\ pc'[k] \in {"staked", "broken", "wait"}
      BY <1>2, <1>3, <1>7, <2>1
    <2>5. \A k \in Jobs :
            \/ pc'[k] = "staked"
            \/ pc'[k] = "wait" /\ kind'[k] = "stake" /\ receipt'[k] = "ok"
            => k \in R
      BY <1>8
    <2> HIDE DEF R
    <2>6. \A w \in Wallets, m \in Managers :
            stakes'[w][m] = SumFunctionOnSet(AmountOf', R \cap JobsOf(w, m)')
      BY <1>6, <2>2 DEF AmountOf, Rounds
    <2>7. Booked(R)'
      BY <2>3, <2>4, <2>5, <2>6 DEF Booked
    <2>8. QED BY <2>7
  <1>10. CASE ApproveTx(j) \/ RevertedTx(j)
    <2>1. stakes' = stakes
      BY <1>10 DEF ApproveTx, RevertedTx
    <2>2. ~(kind'[j] = "stake" /\ receipt'[j] = "ok")
      BY <1>2, <1>3, <1>10 DEF ApproveTx, RevertedTx
    <2>3. \A k \in Jobs :
            \/ pc'[k] = "staked"
            \/ pc'[k] = "wait" /\ kind'[k] = "stake" /\ receipt'[k] = "ok"
            => k \in P
      BY <1>2, <1>3, <1>8, <2>2
    <2>4. Booked(P)'
      BY <1>4, <1>6, <1>7, <2>1, <2>3 DEF Booked
    <2>5. QED BY <2>4
  <1>11. QED BY <1>1, <1>9, <1>10

LEMMA MineGranted ==
    ASSUME FlowInv, NEW v \in Wallets, Mine(v), NEW Q, Granted(Q)
    PROVE  \E R : Granted(R)'
  <1>1. PICK j \in pool :
            /\ Wallet(j) = v /\ draft[j].nonce = nonce[v]
            /\ ApproveTx(j) \/ StakeTx(j) \/ RevertedTx(j)
            /\ pool' = pool \ {j}
    BY DEF Mine
  <1>2. UNCHANGED <<pc, kind, agreed>>
    BY DEF Mine
  <1>3. /\ j \in Jobs /\ pc[j] \in {"wait", "broken"} /\ receipt[j] = "none"
        /\ receipt \in [Jobs -> {"none", "ok", "reverted"}]
        /\ agreed \subseteq Jobs /\ Q \subseteq Jobs
    BY DEF FlowInv, FlowTypeOK, PoolAwaited, Granted
  <1>4. \A k \in Jobs \ {j} : receipt'[k] = receipt[k]
    BY <1>1, <1>3, MinedTypes DEF FlowInv
  <1>5. \A w, m : JobsOf(w, m)' = JobsOf(w, m)
    BY DEF JobsOf, Wallet, Manager
  <1>6. j \in Q => kind[j] = "stake"
    BY <1>3 DEF Granted
  <1>7. \A k \in Q :
            \/ kind'[k] = "stake"
            \/ kind'[k] = "approve" /\ receipt'[k] = "ok" /\ pc'[k] \in {"wait", "broken", "failed"}
    BY <1>2, <1>3, <1>4, <1>6 DEF Granted
  <1>8. /\ \A k \in Jobs : kind'[k] = "approve" => k \in agreed'
        /\ \A k \in Jobs : pc'[k] \in {"idle", "reading", "asking"} => kind'[k] = "none"
    BY <1>2 DEF Granted
  <1>9. ASSUME NEW w \in Wallets, NEW m \in Managers
        PROVE  /\ stakes[w][m] \in Nat /\ allowance[w][m] \in Nat
               /\ InitialAllowance[w][m] \in Nat
               /\ SumFunctionOnSet(AmountOf, Q \cap JobsOf(w, m)) \in Nat
               /\ stakes[w][m] + allowance[w][m] <=
                    InitialAllowance[w][m] + SumFunctionOnSet(AmountOf, Q \cap JobsOf(w, m))
    <2>1. Q \cap JobsOf(w, m) \in SUBSET Jobs
      BY <1>3
    <2>2. SumFunctionOnSet(AmountOf, Q \cap JobsOf(w, m)) \in Nat
      BY <2>1, AmountSums
    <2>3. stakes[w][m] \in Nat /\ allowance[w][m] \in Nat /\ InitialAllowance[w][m] \in Nat
      BY FlowConstantsAssumption DEF FlowInv, FlowTypeOK
    <2>4. QED BY <2>2, <2>3 DEF Granted
  <1>10. CASE ApproveTx(j)
    <2> DEFINE R == Q \cup {j}
    <2>1. kind[j] = "approve" /\ receipt'[j] = "ok"
      BY <1>3, <1>10 DEF ApproveTx
    <2>2. j \notin Q /\ j \in agreed
      BY <1>3, <1>6, <2>1 DEF Granted
    <2>3. ASSUME NEW w \in Wallets, NEW m \in Managers
          PROVE  stakes'[w][m] + allowance'[w][m] <=
                    InitialAllowance[w][m] + SumFunctionOnSet(AmountOf, R \cap JobsOf(w, m))
      <3> DEFINE a == Share(j, w, m)
                 s == SumFunctionOnSet(AmountOf, Q \cap JobsOf(w, m))
                 b == allowance'[w][m]
      <3>1. SumFunctionOnSet(AmountOf, R \cap JobsOf(w, m)) = s + a
        <4>1. AddsShare(Q, j, w, m)
          BY <1>3, <2>2, OneMoreJob
        <4>2. QED BY <4>1 DEF AddsShare
      <3>2. stakes' = stakes /\
            b = IF w = Wallet(j) /\ m = Manager(j) THEN Amount(j) ELSE allowance[w][m]
        BY <1>3, <1>10, MinedBooks DEF FlowInv
      <3>3. Amount(j) \in Nat
        BY <1>3, JobTypes
      <3>4. /\ stakes[w][m] \in Nat /\ allowance[w][m] \in Nat
            /\ InitialAllowance[w][m] \in Nat /\ s \in Nat
            /\ stakes[w][m] + allowance[w][m] <= InitialAllowance[w][m] + s
        BY <1>9
      <3> HIDE DEF s, b
      <3>5. stakes[w][m] + b <= InitialAllowance[w][m] + (s + a)
        BY <3>2, <3>3, <3>4 DEF Share
      <3>6. QED BY <3>1, <3>2, <3>5 DEF b
    <2>4. R \subseteq agreed'
      BY <1>2, <2>2 DEF Granted
    <2>5. \A k \in R :
            \/ kind'[k] = "stake"
            \/ kind'[k] = "approve" /\ receipt'[k] = "ok" /\ pc'[k] \in {"wait", "broken", "failed"}
      BY <1>2, <1>3, <1>7, <2>1
    <2> HIDE DEF R
    <2>6. \A w \in Wallets, m \in Managers :
            stakes'[w][m] + allowance'[w][m] <=
                InitialAllowance[w][m] + SumFunctionOnSet(AmountOf', R \cap JobsOf(w, m)')
      BY <1>5, <2>3 DEF AmountOf, Rounds
    <2>7. Granted(R)'
      BY <1>8, <2>4, <2>5, <2>6 DEF Granted
    <2>8. QED BY <2>7
  <1>11. CASE StakeTx(j) \/ RevertedTx(j)
    <2>1. ASSUME NEW w \in Wallets, NEW m \in Managers
          PROVE  stakes'[w][m] + allowance'[w][m] = stakes[w][m] + allowance[w][m]
      <3>1. CASE RevertedTx(j)
        BY <1>3, <3>1, MinedBooks DEF FlowInv
      <3>2. CASE StakeTx(j)
        <4> DEFINE a == Share(j, w, m)
                   s == stakes[w][m]
                   b == allowance[w][m]
        <4>1. stakes'[w][m] = s + a /\ allowance'[w][m] = b - a
          BY <1>3, <3>2, MinedBooks DEF FlowInv
        <4>2. a \in Nat
          BY <1>3, JobTypes DEF Share
        <4>3. s \in Nat /\ b \in Nat
          BY <1>9
        <4> HIDE DEF a, s, b
        <4>4. stakes'[w][m] + allowance'[w][m] = s + b
          BY <4>1, <4>2, <4>3
        <4>5. QED BY <4>4 DEF s, b
      <3>3. QED BY <1>11, <3>1, <3>2
    <2>2. \A w \in Wallets, m \in Managers :
            stakes'[w][m] + allowance'[w][m] <=
                InitialAllowance[w][m] + SumFunctionOnSet(AmountOf', Q \cap JobsOf(w, m)')
      BY <1>5, <1>9, <2>1 DEF AmountOf, Rounds
    <2>3. Q \subseteq agreed'
      BY <1>2 DEF Granted
    <2>4. Granted(Q)'
      BY <1>7, <1>8, <2>2, <2>3 DEF Granted
    <2>5. QED BY <2>4
  <1>12. QED BY <1>1, <1>10, <1>11

-----------------------------------------------------------------------------
LEMMA BooksInitially == FlowInit => FlowBooks
  <1> SUFFICES ASSUME FlowInit PROVE FlowBooks
    OBVIOUS
  <1>1. \A w, m : SumFunctionOnSet(AmountOf, {} \cap JobsOf(w, m)) = 0
    <2>1. \A w, m : {} \cap JobsOf(w, m) = {}
      OBVIOUS
    <2>2. QED BY <2>1, SumEmpty
  <1>2. \A w \in Wallets, m \in Managers :
            /\ stakes[w][m] = 0
            /\ allowance[w][m] = InitialAllowance[w][m] /\ allowance[w][m] \in Nat
    BY FlowConstantsAssumption DEF FlowInit
  <1>3. Booked({})
    BY <1>1, <1>2 DEF FlowInit, Booked
  <1>4. Granted({})
    BY <1>1, <1>2 DEF FlowInit, Granted
  <1>5. QED BY <1>3, <1>4 DEF FlowBooks

LEMMA BooksStep ==
    ASSUME FlowInv, FlowBooks, [FlowNext]_flowVars
    PROVE  FlowBooks'
  <1>1. PICK P : Booked(P)
    BY DEF FlowBooks
  <1>2. PICK Q : Granted(Q)
    BY DEF FlowBooks
  <1>3. ASSUME NEW j \in Jobs, Start(j) \/ Answer(j) \/ LookupFails(j) \/ Break(j) \/ JobStep(j)
        PROVE  FlowBooks'
    <2>1. Booked(P)'
      BY <1>1, <1>3, JobStepBooked
    <2>2. Granted(Q)'
      BY <1>2, <1>3, JobStepGranted
    <2>3. QED BY <2>1, <2>2 DEF FlowBooks
  <1>4. ASSUME NEW w \in Wallets, Mine(w)
        PROVE  FlowBooks'
    <2>1. \E R : Booked(R)'
      BY <1>1, <1>4, MineBooked
    <2>2. \E R : Granted(R)'
      BY <1>2, <1>4, MineGranted
    <2>3. QED BY <2>1, <2>2 DEF FlowBooks
  <1>5. CASE RaiseGasPrice \/ OwnerTx \/ UNCHANGED flowVars
    <2>1. UNCHANGED <<pc, kind, receipt, agreed, pool, stakes, allowance>>
      BY <1>5 DEF RaiseGasPrice, OwnerTx, TokenOwnerTx, MintTokens, Burn, AddBlacklist,
             RemoveBlacklist, AddWhitelist, RemoveWhitelist, flowVars, jobVars, chainVars,
             tokenVars, listsVars
    <2>2. \A w, m : JobsOf(w, m)' = JobsOf(w, m)
      BY DEF JobsOf, Wallet, Manager
    <2>3. Booked(P)'
      BY <1>1, <2>1, <2>2 DEF Booked
    <2>4. Granted(Q)'
      BY <1>2, <2>1, <2>2 DEF Granted
    <2>5. QED BY <2>3, <2>4 DEF FlowBooks
  <1>6. QED BY <1>3, <1>4, <1>5 DEF FlowNext

LEMMA BooksInvariant == FlowSpec => [](FlowInv /\ FlowBooks)
  <1>1. FlowInv /\ FlowBooks /\ [FlowNext]_flowVars => FlowBooks'
    BY BooksStep
  <1>2. QED BY <1>1, BooksInitially, FlowInvariant, PTL DEF FlowSpec

-----------------------------------------------------------------------------
\* What a part of the jobs was asked for is, but for the rounding, what they stake.
NearAmounts(P, jobs) ==
    /\ Total(P) <= SumFunctionOnSet(AmountOf, P) + Slack(jobs)
    /\ SumFunctionOnSet(AmountOf, P) <= Total(P) + Slack(jobs)

LEMMA AmountsNearTotal ==
    ASSUME NEW jobs \in SUBSET Jobs, NEW P \in SUBSET jobs
    PROVE  NearAmounts(P, jobs)
  <1> DEFINE more == [j \in Jobs |-> AmountOf[j] + RoundingError[j]]
             most == [j \in Jobs |-> Requested[j] + RoundingError[j]]
             A == SumFunctionOnSet(AmountOf, P)
             R == SumFunctionOnSet(Requested, P)
             E == SumFunctionOnSet(RoundingError, P)
  <1>1. \A j \in P :
            /\ AmountOf[j] \in Int /\ Requested[j] \in Int /\ RoundingError[j] \in Int
            /\ more[j] = AmountOf[j] + RoundingError[j] /\ more[j] \in Int
            /\ most[j] = Requested[j] + RoundingError[j] /\ most[j] \in Int
            /\ Requested[j] <= more[j] /\ AmountOf[j] <= most[j]
    BY AmountIsNear
  <1>2. P \in SUBSET Jobs
    OBVIOUS
  <1>3. IsFiniteSet(P) /\ A \in Nat /\ R \in Nat /\ E \in Nat
    BY <1>2, AmountSums
  <1>4. IsFiniteSet(jobs) /\ SumFunctionOnSet(RoundingError, jobs) \in Nat
    BY AmountSums
  <1>5. E <= SumFunctionOnSet(RoundingError, jobs)
    <2>1. \A j \in jobs : RoundingError[j] \in Nat
      BY AmountIsNear
    <2>2. QED BY <1>4, <2>1, SumPart
  <1> HIDE DEF more, most
  <1>6. SumFunctionOnSet(more, P) = A + E
    BY <1>1, <1>3, SumAdd
  <1>7. SumFunctionOnSet(most, P) = R + E
    BY <1>1, <1>3, SumAdd
  <1>8. R <= SumFunctionOnSet(more, P)
    BY <1>1, <1>3, SumMonotonic
  <1>9. A <= SumFunctionOnSet(most, P)
    BY <1>1, <1>3, SumMonotonic
  <1> HIDE DEF A, R, E
  <1>10. R <= A + SumFunctionOnSet(RoundingError, jobs) /\ A <= R + SumFunctionOnSet(RoundingError, jobs)
    BY <1>3, <1>4, <1>5, <1>6, <1>7, <1>8, <1>9
  <1>11. QED BY <1>10 DEF NearAmounts, Total, Slack, A, R

\* A part of the jobs was asked for no more than all of them.
LEMMA TotalOfPart ==
    ASSUME NEW P \in SUBSET Jobs, NEW R \in SUBSET P
    PROVE  Total(R) <= Total(P) /\ Total(R) \in Nat /\ Total(P) \in Nat
  <1>1. R \in SUBSET Jobs
    OBVIOUS
  <1>2. IsFiniteSet(P) /\ \A j \in P : Requested[j] \in Nat
    BY AmountSums, AmountIsNear
  <1>3. SumFunctionOnSet(Requested, R) <= SumFunctionOnSet(Requested, P)
    BY <1>2, SumPart
  <1>4. QED BY <1>1, <1>3, AmountSums DEF Total

\* What was reported as staked is staked and what was reported as failed is not,
\* for any number of jobs, wallets and managers.
THEOREM ReportedStakesAreMade == FlowSpec => []StakesMatchReports
  <1>1. ASSUME FlowInv, FlowBooks PROVE StakesMatchReports
    <2>1. PICK P : Booked(P)
      BY <1>1 DEF FlowBooks
    <2>2. SUFFICES ASSUME NEW w \in Wallets, NEW m \in Managers
                   PROVE  LET jobs == JobsOf(w, m)
                          IN  /\ Total({j \in jobs : pc[j] = "staked"}) <= stakes[w][m] + Slack(jobs)
                              /\ stakes[w][m] <= Slack(jobs) +
                                  Total({j \in jobs : pc[j] \in {"staked", "broken", "wait"}})
      BY DEF StakesMatchReports
    <2> DEFINE jobs == JobsOf(w, m)
               sure == {j \in jobs : pc[j] = "staked"}
               maybe == {j \in jobs : pc[j] \in {"staked", "broken", "wait"}}
               B == P \cap jobs
    <2>3. /\ jobs \in SUBSET Jobs /\ B \in SUBSET jobs /\ B \in SUBSET Jobs
          /\ sure \in SUBSET B /\ B \in SUBSET maybe /\ maybe \in SUBSET Jobs
      BY <2>1 DEF Booked, JobsOf
    <2>4. stakes[w][m] = SumFunctionOnSet(AmountOf, B)
      BY <2>1 DEF Booked
    <2> HIDE DEF jobs, sure, maybe, B
    <2>5. NearAmounts(B, jobs)
      BY <2>3, AmountsNearTotal
    <2>6. Total(sure) <= Total(B) /\ Total(sure) \in Nat /\ Total(B) \in Nat
      BY <2>3, TotalOfPart
    <2>7. Total(B) <= Total(maybe) /\ Total(maybe) \in Nat
      BY <2>3, TotalOfPart
    <2>8. Slack(jobs) \in Nat /\ SumFunctionOnSet(AmountOf, B) \in Nat
      BY <2>3, AmountSums DEF Slack
    <2>9. /\ Total(sure) <= stakes[w][m] + Slack(jobs)
          /\ stakes[w][m] <= Slack(jobs) + Total(maybe)
      BY <2>4, <2>5, <2>6, <2>7, <2>8 DEF NearAmounts
    <2>10. QED BY <2>9 DEF jobs, sure, maybe
  <1>2. QED BY <1>1, BooksInvariant, PTL

\* A manager takes, and may take, no more of a wallet than it was allowed before
\* and than the approvals agreed to are for, in every order of them.
THEOREM SpendingIsAgreed == FlowSpec => []SpendingWithinAgreed
  <1>1. ASSUME FlowInv, FlowBooks PROVE SpendingWithinAgreed
    <2>1. PICK Q : Granted(Q)
      BY <1>1 DEF FlowBooks
    <2>2. SUFFICES ASSUME NEW w \in Wallets, NEW m \in Managers
                   PROVE  stakes[w][m] + allowance[w][m] <=
                            InitialAllowance[w][m] + Total(JobsOf(w, m) \cap agreed)
                              + Slack(JobsOf(w, m))
      BY DEF SpendingWithinAgreed
    <2> DEFINE jobs == JobsOf(w, m)
               B == Q \cap jobs
               C == jobs \cap agreed
               old == InitialAllowance[w][m]
    <2>3. /\ jobs \in SUBSET Jobs /\ B \in SUBSET jobs /\ B \in SUBSET Jobs
          /\ B \in SUBSET C /\ C \in SUBSET Jobs
      BY <2>1 DEF Granted, JobsOf
    <2>4. stakes[w][m] + allowance[w][m] <= old + SumFunctionOnSet(AmountOf, B)
      BY <2>1 DEF Granted
    <2>5. stakes[w][m] \in Nat /\ allowance[w][m] \in Nat /\ old \in Nat
      BY <1>1, FlowConstantsAssumption DEF FlowInv, FlowTypeOK
    <2> HIDE DEF jobs, B, C, old
    <2>6. NearAmounts(B, jobs)
      BY <2>3, AmountsNearTotal
    <2>7. Total(B) <= Total(C) /\ Total(B) \in Nat /\ Total(C) \in Nat
      BY <2>3, TotalOfPart
    <2>8. Slack(jobs) \in Nat /\ SumFunctionOnSet(AmountOf, B) \in Nat
      BY <2>3, AmountSums DEF Slack
    <2>9. stakes[w][m] + allowance[w][m] <= old + Total(C) + Slack(jobs)
      BY <2>4, <2>5, <2>6, <2>7, <2>8 DEF NearAmounts
    <2>10. QED BY <2>9 DEF jobs, C, old
  <1>2. QED BY <1>1, BooksInvariant, PTL

-----------------------------------------------------------------------------
(***************************************************************************)
(* The stake of the heartbeat's stream, for any number of crashes.  The    *)
(* permission of the stream stands for the stake: the process is past the  *)
(* question whether to stake only with the permission given, and then the  *)
(* store was staked, is about to be staked, or a process was cut short.    *)
(***************************************************************************)

HeartbeatSteps == {"poll", "stream", "check", "grant", "stake", "start", "started"}

HeartbeatTypeOK ==
    /\ step \in HeartbeatSteps
    /\ interval \in BOOLEAN
    /\ beats \in Nat
    /\ open \in BOOLEAN
    /\ timesStaked \in {0, 1}
    /\ cutShort \in BOOLEAN

\* A stake is under way or made only on an open stream.
StakedIsOpen ==
    /\ timesStaked = 1 => open
    /\ step = "grant" => ~ open
    /\ step = "stake" => open /\ timesStaked = 0

\* An open stream is staked, about to be, or was given up by a process that ended.
OpenIsAccountedFor ==
    /\ open => timesStaked = 1 \/ step = "stake" \/ cutShort
    /\ step \in {"start", "started"} => open
    /\ interval \/ beats > 0 => step = "started" \/ (open /\ step # "stake")

HeartbeatInv == HeartbeatTypeOK /\ StakedIsOpen /\ OpenIsAccountedFor

-----------------------------------------------------------------------------
LEMMA HeartbeatInitInv == HeartbeatInit => HeartbeatInv
  <1> SUFFICES ASSUME HeartbeatInit PROVE HeartbeatInv
    OBVIOUS
  <1>1. ~ interval /\ ~ open /\ ~ cutShort
    BY Zenon DEF HeartbeatInit
  <1>2. interval \in BOOLEAN /\ open \in BOOLEAN /\ cutShort \in BOOLEAN
    BY Zenon DEF HeartbeatInit
  <1>3. step = "poll" /\ beats = 0 /\ timesStaked = 0
    BY DEF HeartbeatInit
  <1> QED
    BY <1>1, <1>2, <1>3
    DEF HeartbeatInv, HeartbeatTypeOK, StakedIsOpen, OpenIsAccountedFor, HeartbeatSteps

\* A restart, with what the transaction under way has made of the stream.
LEMMA RestartKeeps ==
    ASSUME NEW openAfter \in BOOLEAN, NEW stakedAfter \in {0, 1},
           stakedAfter = 1 => openAfter,
           openAfter => stakedAfter = 1 \/ cutShort' ,
           Restart(openAfter, stakedAfter), cutShort \in BOOLEAN
    PROVE  HeartbeatInv'
  <1>1. /\ ~ interval' /\ interval' \in BOOLEAN
        /\ open' = openAfter /\ cutShort' \in BOOLEAN
    BY Zenon DEF Restart
  <1>2. step' = "poll" /\ beats' = 0 /\ timesStaked' = stakedAfter
    BY DEF Restart
  <1> QED
    BY <1>1, <1>2
    DEF HeartbeatInv, HeartbeatTypeOK, StakedIsOpen, OpenIsAccountedFor, HeartbeatSteps

LEMMA CrashKeeps == HeartbeatInv /\ Crash => HeartbeatInv'
  <1> SUFFICES ASSUME HeartbeatInv, Crash PROVE HeartbeatInv'
    OBVIOUS
  <1> USE DEF HeartbeatInv, HeartbeatTypeOK, StakedIsOpen
  <1>1. CASE Restart(open, timesStaked)
    BY <1>1, RestartKeeps DEF Restart
  <1>2. CASE step = "grant" /\ Restart(TRUE, timesStaked)
    BY <1>2, RestartKeeps DEF Restart
  <1>3. CASE step = "stake" /\ Restart(open, timesStaked + 1)
    <2>1. timesStaked + 1 \in {0, 1} /\ open
      BY <1>3
    <2> QED
      BY <1>3, <2>1, RestartKeeps DEF Restart
  <1> QED
    BY <1>1, <1>2, <1>3 DEF Crash

LEMMA HeartbeatStepKeeps == HeartbeatInv /\ [HeartbeatNext]_heartbeatVars => HeartbeatInv'
  <1> SUFFICES ASSUME HeartbeatInv, [HeartbeatNext]_heartbeatVars PROVE HeartbeatInv'
    OBVIOUS
  <1> USE DEF HeartbeatInv, HeartbeatTypeOK, StakedIsOpen, OpenIsAccountedFor, HeartbeatSteps
  <1>1. CASE Bundle
    BY <1>1 DEF Bundle, processVars, streamState, historyVars
  <1>2. CASE Poll \/ CreateStream
    BY <1>2 DEF Poll, CreateStream, GoOn, streamState, historyVars
  <1>3. CASE CheckPermission
    BY <1>3 DEF CheckPermission, StakeNeeded, GoOn, streamState, historyVars
  <1>4. CASE Grant
    BY <1>4 DEF Grant, GoOn, historyVars
  <1>5. CASE StakeOnce
    BY <1>5 DEF StakeOnce, GoOn, historyVars
  <1>6. CASE StartBeating
    BY <1>6 DEF StartBeating, streamState, historyVars
  <1>7. CASE Beat \/ Published
    BY <1>7 DEF Beat, Published, streamState, historyVars
  <1>8. CASE Terminate
    BY <1>8 DEF Terminate, streamState, historyVars
  <1>9. CASE UNCHANGED heartbeatVars
    BY <1>9 DEF heartbeatVars, processVars, streamState, historyVars
  <1> QED
    BY <1>1, <1>2, <1>3, <1>4, <1>5, <1>6, <1>7, <1>8, <1>9, CrashKeeps DEF HeartbeatNext

\* The inductive invariant of the heartbeat's stream.
THEOREM HeartbeatInvariant == HeartbeatSpec => []HeartbeatInv
  BY HeartbeatInitInv, HeartbeatStepKeeps, PTL DEF HeartbeatSpec

\* The store is staked at most once, and a stream that is published to without
\* a stake is one whose permission was given by a process that ended, for any
\* number of crashes and restarts.
THEOREM StakedOnce == HeartbeatSpec => []StakedOnceOrCutShort
  <1>1. HeartbeatInv => StakedOnceOrCutShort
    BY DEF HeartbeatInv, HeartbeatTypeOK, StakedIsOpen, OpenIsAccountedFor,
           StakedOnceOrCutShort, HeartbeatSteps
  <1> QED
    BY <1>1, HeartbeatInvariant, PTL

-----------------------------------------------------------------------------
(***************************************************************************)
(* SystemMessages: what is written is read, for any messages, processes    *)
(* and arrays of a later release.                                          *)
(***************************************************************************)

OnTheWire(v) == IF v = Undefined THEN Null ELSE v

-----------------------------------------------------------------------------
(* One type after the other: fromArray finds what toArray put there. *)

LEMMA StoredIsRead ==
    ASSUME NEW m, IsMessage(m), m.messageType = ProofOfMessageStored
    PROVE  fromArray(Stringified(toArray(m))) = AsReceived(m)
  <1> DEFINE a == toArray(m)
             w == Stringified(a)
  <1>1. a = StoredToArray(m)
    BY DEF toArray, ProofOfMessageStored, QueryRequest, QueryResponse, ProofOfReport
  <1>2. /\ DOMAIN a = 1 .. 8 /\ a[1] = VERSION /\ a[2] = ProofOfMessageStored
        /\ a[3] = m.streamId
        /\ a[4] = m.partition
        /\ a[5] = m.timestamp
        /\ a[6] = m.sequenceNumber
        /\ a[7] = m.size
        /\ a[8] = m.hash
    BY <1>1 DEF StoredToArray
  <1>3. w = [i \in 1 .. 8 |-> OnTheWire(a[i])]
    BY <1>2 DEF Stringified, OnTheWire
  <1> HIDE DEF w, a
  <1>4. \A i \in 1 .. 8 : At(w, i) = OnTheWire(a[i])
    BY <1>3 DEF At
  <1>5. w[2] = ProofOfMessageStored
    BY <1>2, <1>3 DEF OnTheWire, ProofOfMessageStored, Undefined
  <1>6. fromArray(w) = StoredFromArray(w)
    BY <1>5 DEF fromArray, ProofOfMessageStored, QueryRequest, QueryResponse, ProofOfReport
  <1>7. m.version = VERSION /\ OnTheWire(VERSION) = VERSION /\ OnTheWire(ProofOfMessageStored) = ProofOfMessageStored
    BY DEF IsMessage, OnTheWire, VERSION, Undefined, ProofOfMessageStored
  <1>8. fromArray(w) =
         [version |-> OnTheWire(m.version), messageType |-> OnTheWire(m.messageType),
          streamId |-> OnTheWire(m.streamId),
          partition |-> OnTheWire(m.partition),
          timestamp |-> OnTheWire(m.timestamp),
          sequenceNumber |-> OnTheWire(m.sequenceNumber),
          size |-> OnTheWire(m.size),
          hash |-> OnTheWire(m.hash)]
    BY <1>2, <1>4, <1>6, <1>7 DEF StoredFromArray
  <1>9. DOMAIN m = {"version", "messageType", "streamId", "partition", "timestamp", "sequenceNumber", "size", "hash"}
    BY DEF IsMessage, HasFields, FieldsOf, ProofOfMessageStored, QueryRequest, QueryResponse, ProofOfReport
  <1>10. fromArray(w) = AsReceived(m)
    BY <1>8, <1>9 DEF AsReceived, OnTheWire
  <1>11. QED BY <1>10 DEF w, a

LEMMA ResponseIsRead ==
    ASSUME NEW m, IsMessage(m), m.messageType = QueryResponse
    PROVE  fromArray(Stringified(toArray(m))) = AsReceived(m)
  <1> DEFINE a == toArray(m)
             w == Stringified(a)
  <1>1. a = ResponseToArray(m)
    BY DEF toArray, ProofOfMessageStored, QueryRequest, QueryResponse, ProofOfReport
  <1>2. /\ DOMAIN a = 1 .. 6 /\ a[1] = VERSION /\ a[2] = QueryResponse
        /\ a[3] = m.requestId
        /\ a[4] = m.size
        /\ a[5] = m.hash
        /\ a[6] = m.signature
    BY <1>1 DEF ResponseToArray
  <1>3. w = [i \in 1 .. 6 |-> OnTheWire(a[i])]
    BY <1>2 DEF Stringified, OnTheWire
  <1> HIDE DEF w, a
  <1>4. \A i \in 1 .. 6 : At(w, i) = OnTheWire(a[i])
    BY <1>3 DEF At
  <1>5. w[2] = QueryResponse
    BY <1>2, <1>3 DEF OnTheWire, QueryResponse, Undefined
  <1>6. fromArray(w) = ResponseFromArray(w)
    BY <1>5 DEF fromArray, ProofOfMessageStored, QueryRequest, QueryResponse, ProofOfReport
  <1>7. m.version = VERSION /\ OnTheWire(VERSION) = VERSION /\ OnTheWire(QueryResponse) = QueryResponse
    BY DEF IsMessage, OnTheWire, VERSION, Undefined, QueryResponse
  <1>8. fromArray(w) =
         [version |-> OnTheWire(m.version), messageType |-> OnTheWire(m.messageType),
          requestId |-> OnTheWire(m.requestId),
          size |-> OnTheWire(m.size),
          hash |-> OnTheWire(m.hash),
          signature |-> OnTheWire(m.signature)]
    BY <1>2, <1>4, <1>6, <1>7 DEF ResponseFromArray
  <1>9. DOMAIN m = {"version", "messageType", "requestId", "size", "hash", "signature"}
    BY DEF IsMessage, HasFields, FieldsOf, ProofOfMessageStored, QueryRequest, QueryResponse, ProofOfReport
  <1>10. fromArray(w) = AsReceived(m)
    BY <1>8, <1>9 DEF AsReceived, OnTheWire
  <1>11. QED BY <1>10 DEF w, a

LEMMA ReportIsRead ==
    ASSUME NEW m, IsMessage(m), m.messageType = ProofOfReport
    PROVE  fromArray(Stringified(toArray(m))) = AsReceived(m)
  <1> DEFINE a == toArray(m)
             w == Stringified(a)
  <1>1. a = ReportToArray(m)
    BY DEF toArray, ProofOfMessageStored, QueryRequest, QueryResponse, ProofOfReport
  <1>2. /\ DOMAIN a = 1 .. 7 /\ a[1] = VERSION /\ a[2] = ProofOfReport
        /\ a[3] = m.address
        /\ a[4] = m.hash
        /\ a[5] = m.toth
        /\ a[6] = m.timestamp
        /\ a[7] = m.signature
    BY <1>1 DEF ReportToArray
  <1>3. w = [i \in 1 .. 7 |-> OnTheWire(a[i])]
    BY <1>2 DEF Stringified, OnTheWire
  <1> HIDE DEF w, a
  <1>4. \A i \in 1 .. 7 : At(w, i) = OnTheWire(a[i])
    BY <1>3 DEF At
  <1>5. w[2] = ProofOfReport
    BY <1>2, <1>3 DEF OnTheWire, ProofOfReport, Undefined
  <1>6. fromArray(w) = ReportFromArray(w)
    BY <1>5 DEF fromArray, ProofOfMessageStored, QueryRequest, QueryResponse, ProofOfReport
  <1>7. m.version = VERSION /\ OnTheWire(VERSION) = VERSION /\ OnTheWire(ProofOfReport) = ProofOfReport
    BY DEF IsMessage, OnTheWire, VERSION, Undefined, ProofOfReport
  <1>8. fromArray(w) =
         [version |-> OnTheWire(m.version), messageType |-> OnTheWire(m.messageType),
          address |-> OnTheWire(m.address),
          hash |-> OnTheWire(m.hash),
          toth |-> OnTheWire(m.toth),
          timestamp |-> OnTheWire(m.timestamp),
          signature |-> OnTheWire(m.signature)]
    <2>1. TimestampOrNow(OnTheWire(m.timestamp)) = OnTheWire(m.timestamp)
      BY DEF TimestampOrNow, OnTheWire, Undefined, Null
    <2>2. QED BY <1>2, <1>4, <1>6, <1>7, <2>1 DEF ReportFromArray
  <1>9. DOMAIN m = {"version", "messageType", "address", "hash", "toth", "timestamp", "signature"}
    BY DEF IsMessage, HasFields, FieldsOf, ProofOfMessageStored, QueryRequest, QueryResponse, ProofOfReport
  <1>10. fromArray(w) = AsReceived(m)
    BY <1>8, <1>9 DEF AsReceived, OnTheWire
  <1>11. QED BY <1>10 DEF w, a

\* A request with its options, as many as its query has.
LEMMA RequestIsRead ==
    ASSUME NEW m, IsMessage(m), m.messageType = QueryRequest
    PROVE  fromArray(Stringified(toArray(m))) = AsReceived(m)
  <1> DEFINE a == toArray(m)
             w == Stringified(a)
             o == m.queryOptions
             head == <<VERSION, QueryRequest, m.requestId, m.consumerId, m.streamId, m.partition,
                       m.queryType>>
             rest == OptionsToArray(m.queryType, o)
             options == OptionsFromArray(m.queryType, w)
  <1>1. a = head \o rest
    BY DEF toArray, RequestToArray, ProofOfMessageStored, QueryRequest, QueryResponse, ProofOfReport
  <1>2. m.queryType \in {"last", "from", "range"} /\ HasFields(o, OptionFields(m.queryType))
    BY DEF IsMessage, QueryTypes
  <1>3. \E v : \E n \in Nat : n <= 6 /\ DOMAIN rest = 1 .. n /\ Len(rest) = n /\ rest \in Seq(v)
    <2>1. CASE m.queryType = "last"
      <3>1. rest = <<o.last>>
        BY <2>1 DEF OptionsToArray
      <3> HIDE DEF rest, o
      <3>2. DOMAIN rest = 1 .. 1 /\ Len(rest) = 1 /\ rest \in Seq({o.last})
        BY <3>1
      <3>3. QED BY <3>2
    <2>2. CASE m.queryType = "from"
      <3>1. rest = <<o.fromTimestamp, o.fromSequence, o.publisherId>>
        BY <2>2 DEF OptionsToArray
      <3> HIDE DEF rest, o
      <3>2. DOMAIN rest = 1 .. 3 /\ Len(rest) = 3
            /\ rest \in Seq({o.fromTimestamp, o.fromSequence, o.publisherId})
        BY <3>1
      <3>3. QED BY <3>2
    <2>3. CASE m.queryType = "range"
      <3>1. rest = <<o.fromTimestamp, o.fromSequence, o.toTimestamp, o.toSequence,
                     o.msgChainId, o.publisherId>>
        BY <2>3 DEF OptionsToArray, RangeToArray
      <3> HIDE DEF rest, o
      <3>2. DOMAIN rest = 1 .. 6 /\ Len(rest) = 6
            /\ rest \in Seq({o.fromTimestamp, o.fromSequence, o.toTimestamp, o.toSequence,
                              o.msgChainId, o.publisherId})
        BY <3>1
      <3>3. QED BY <3>2
    <2>4. QED BY <1>2, <2>1, <2>2, <2>3
  <1> HIDE DEF rest
  <1>values. PICK v : \E n \in Nat : n <= 6 /\ DOMAIN rest = 1 .. n /\ Len(rest) = n /\ rest \in Seq(v)
    BY <1>3
  <1>4. PICK n \in Nat : n <= 6 /\ DOMAIN rest = 1 .. n /\ Len(rest) = n /\ rest \in Seq(v)
    BY <1>values
  <1>5. /\ DOMAIN a = 1 .. 7 + n
        /\ \A i \in 1 .. 7 : a[i] = head[i]
        /\ \A i \in 1 .. n : a[7 + i] = rest[i]
    <2> DEFINE u == {VERSION, QueryRequest, m.requestId, m.consumerId, m.streamId, m.partition,
                     m.queryType}
               S == u \cup v
    <2>1. head \in Seq(S) /\ Len(head) = 7
      OBVIOUS
    <2> HIDE DEF head, rest, a
    <2>2. rest \in Seq(S)
      <3>1. v \subseteq S
        OBVIOUS
      <3>2. QED BY <1>4, <3>1, SeqMonotonic
    <2> HIDE DEF S
    <2>3. /\ head \o rest \in Seq(S) /\ Len(head \o rest) = 7 + n
          /\ \A i \in 1 .. 7 + n :
                (head \o rest)[i] = IF i <= 7 THEN head[i] ELSE rest[i - 7]
      <3>1. /\ head \o rest \in Seq(S) /\ Len(head \o rest) = Len(head) + Len(rest)
            /\ \A i \in 1 .. Len(head) + Len(rest) :
                (head \o rest)[i] = IF i <= Len(head) THEN head[i] ELSE rest[i - Len(head)]
        BY <2>1, <2>2, ConcatProperties
      <3>2. Len(head) = 7 /\ Len(rest) = n
        BY <1>4, <2>1
      <3>3. QED BY <3>1, <3>2
    <2>4. DOMAIN a = 1 .. 7 + n
      BY <1>1, <1>4, <2>3
    <2>5. \A i \in 1 .. 7 + n : a[i] = IF i <= 7 THEN head[i] ELSE rest[i - 7]
      BY <1>1, <2>3
    <2>6. QED BY <1>4, <2>4, <2>5
  <1>6. w = [i \in 1 .. 7 + n |-> OnTheWire(a[i])]
    BY <1>5 DEF Stringified, OnTheWire
  <1>7. /\ head[1] = VERSION /\ head[2] = QueryRequest /\ head[3] = m.requestId
        /\ head[4] = m.consumerId /\ head[5] = m.streamId /\ head[6] = m.partition
        /\ head[7] = m.queryType
    OBVIOUS
  <1> HIDE DEF w, a, head
  <1>8. /\ \A i \in 1 .. 7 : At(w, i) = OnTheWire(head[i])
        /\ \A i \in 1 .. n : At(w, 7 + i) = OnTheWire(rest[i])
    <2>1. DOMAIN w = 1 .. 7 + n /\ Len(w) = 7 + n
          /\ \A i \in 1 .. 7 + n : w[i] = OnTheWire(a[i])
      BY <1>4, <1>6
    <2>2. \A i \in 1 .. 7 + n : At(w, i) = w[i]
      BY <2>1 DEF At
    <2>3. ASSUME NEW i \in 1 .. 7 PROVE At(w, i) = OnTheWire(head[i])
      BY <1>4, <1>5, <2>1, <2>2
    <2>4. ASSUME NEW i \in 1 .. n PROVE At(w, 7 + i) = OnTheWire(rest[i])
      <3>1. 7 + i \in 1 .. 7 + n
        BY <1>4
      <3>2. At(w, 7 + i) = OnTheWire(a[7 + i])
        BY <2>1, <2>2, <3>1
      <3>3. QED BY <1>5, <3>2
    <2>5. QED BY <2>3, <2>4
  <1>9. OnTheWire(m.queryType) = m.queryType /\ OnTheWire(QueryRequest) = QueryRequest
        /\ OnTheWire(VERSION) = VERSION
    BY <1>2 DEF OnTheWire, Undefined, QueryRequest, VERSION
  <1>10. w[2] = QueryRequest /\ At(w, 7) = m.queryType
    BY <1>4, <1>5, <1>6, <1>7, <1>8, <1>9
  <1>11. fromArray(w) = RequestFromArray(w)
    BY <1>10 DEF fromArray, ProofOfMessageStored, QueryRequest, QueryResponse, ProofOfReport
  <1>12. options = [f \in OptionFields(m.queryType) |-> OnTheWire(o[f])]
    <2>1. CASE m.queryType = "last"
      <3>1. rest = <<o.last>>
        BY <2>1 DEF rest, OptionsToArray
      <3>2. n = 1 /\ rest[1] = o.last
        BY <1>4, <3>1
      <3>3. At(w, 8) = OnTheWire(o.last)
        BY <1>8, <3>2
      <3>4. QED BY <2>1, <3>3 DEF OptionsFromArray, OptionFields
    <2>2. CASE m.queryType = "from"
      <3>1. rest = <<o.fromTimestamp, o.fromSequence, o.publisherId>>
        BY <2>2 DEF rest, OptionsToArray
      <3>2. n = 3 /\ rest[1] = o.fromTimestamp /\ rest[2] = o.fromSequence
            /\ rest[3] = o.publisherId
        BY <1>4, <3>1
      <3>3. /\ At(w, 8) = OnTheWire(o.fromTimestamp) /\ At(w, 9) = OnTheWire(o.fromSequence)
            /\ At(w, 10) = OnTheWire(o.publisherId)
        BY <1>8, <3>2
      <3>4. QED BY <2>2, <3>3 DEF OptionsFromArray, OptionFields
    <2>3. CASE m.queryType = "range"
      <3>1. rest = <<o.fromTimestamp, o.fromSequence, o.toTimestamp, o.toSequence,
                     o.msgChainId, o.publisherId>>
        BY <2>3 DEF rest, OptionsToArray, RangeToArray
      <3>2. n = 6 /\ rest[1] = o.fromTimestamp /\ rest[2] = o.fromSequence
            /\ rest[3] = o.toTimestamp /\ rest[4] = o.toSequence
            /\ rest[5] = o.msgChainId /\ rest[6] = o.publisherId
        BY <1>4, <3>1
      <3>3. /\ At(w, 8) = OnTheWire(o.fromTimestamp) /\ At(w, 9) = OnTheWire(o.fromSequence)
            /\ At(w, 10) = OnTheWire(o.toTimestamp) /\ At(w, 11) = OnTheWire(o.toSequence)
            /\ At(w, 12) = OnTheWire(o.msgChainId) /\ At(w, 13) = OnTheWire(o.publisherId)
        BY <1>8, <3>2
      <3>4. QED BY <2>3, <3>3 DEF OptionsFromArray, OptionFields
    <2>4. QED BY <1>2, <2>1, <2>2, <2>3
  <1>13. options = NullFor(o)
    <2>1. DOMAIN o = OptionFields(m.queryType)
      BY <1>2 DEF HasFields
    <2>2. QED BY <1>12, <2>1 DEF NullFor, OnTheWire
  <1> HIDE DEF options
  <1>14. fromArray(w) =
          [version |-> OnTheWire(m.version), messageType |-> OnTheWire(m.messageType),
           requestId |-> OnTheWire(m.requestId), consumerId |-> OnTheWire(m.consumerId),
           streamId |-> OnTheWire(m.streamId), partition |-> OnTheWire(m.partition),
           queryType |-> OnTheWire(m.queryType), queryOptions |-> options]
    <2>1. m.version = VERSION
      BY DEF IsMessage
    <2>2. QED BY <1>7, <1>8, <1>9, <1>10, <1>11, <2>1 DEF RequestFromArray, options
  <1>15. DOMAIN m = {"version", "messageType", "requestId", "consumerId", "streamId",
                     "partition", "queryType", "queryOptions"}
    BY DEF IsMessage, HasFields, FieldsOf, ProofOfMessageStored, QueryRequest, QueryResponse, ProofOfReport
  <1>16. fromArray(w) = AsReceived(m)
    BY <1>13, <1>14, <1>15 DEF AsReceived, OnTheWire
  <1>17. QED BY <1>16 DEF w, a

LEMMA IsRead ==
    ASSUME NEW m, IsMessage(m)
    PROVE  fromArray(Stringified(toArray(m))) = AsReceived(m)
  BY StoredIsRead, RequestIsRead, ResponseIsRead, ReportIsRead DEF IsMessage, Types

\* What was received can be published again, and is read as it was.
LEMMA ReceivedAgain ==
    ASSUME NEW m, IsMessage(m)
    PROVE  IsMessage(AsReceived(m)) /\ AsReceived(AsReceived(m)) = AsReceived(m)
  <1> DEFINE r == AsReceived(m)
             fields == FieldsOf(m.messageType)
  <1>1. /\ m.messageType \in Types /\ m.version = VERSION /\ DOMAIN m = fields
        /\ "messageType" \in fields /\ "version" \in fields
    BY DEF IsMessage, HasFields, FieldsOf
  <1>2. /\ m.messageType # Undefined /\ m.version # Undefined /\ Null # Undefined
    BY <1>1 DEF Types, ProofOfMessageStored, QueryRequest, QueryResponse, ProofOfReport, VERSION, Undefined, Null
  <1>3. r.messageType = m.messageType /\ r.version = m.version /\ DOMAIN r = fields
    BY <1>1, <1>2 DEF AsReceived
  <1>4. r = [f \in fields |-> r[f]]
    BY <1>1 DEF AsReceived
  <1>5. ASSUME m.messageType = QueryRequest
        PROVE  /\ r.queryType = m.queryType /\ m.queryType \in QueryTypes
               /\ r.queryOptions = NullFor(m.queryOptions)
               /\ HasFields(m.queryOptions, OptionFields(m.queryType))
    <2>1. "queryType" \in fields /\ "queryOptions" \in fields
      BY <1>5 DEF FieldsOf, ProofOfMessageStored, QueryRequest, QueryResponse, ProofOfReport
    <2>2. m.queryType \in QueryTypes /\ HasFields(m.queryOptions, OptionFields(m.queryType))
      BY <1>5 DEF IsMessage
    <2>3. m.queryType # Undefined
      BY <2>2 DEF QueryTypes, Undefined
    <2>4. QED BY <1>1, <2>1, <2>2, <2>3 DEF AsReceived
  <1>6. ASSUME NEW o, NEW s, HasFields(o, s)
        PROVE  HasFields(NullFor(o), s) /\ NullFor(NullFor(o)) = NullFor(o)
    BY <1>2, <1>6 DEF HasFields, NullFor
  <1>7. IsMessage(r)
    <2> HIDE DEF r
    <2>1. HasFields(r, FieldsOf(r.messageType))
      BY <1>3, <1>4 DEF HasFields
    <2>2. m.messageType = ProofOfReport => r.timestamp # Undefined
      <3>1. m.messageType = ProofOfReport => "timestamp" \in fields
        BY DEF FieldsOf, ProofOfMessageStored, QueryRequest, QueryResponse, ProofOfReport
      <3>2. QED BY <1>1, <1>2, <3>1 DEF r, AsReceived, NullFor, IsMessage
    <2>3. QED BY <1>1, <1>3, <1>5, <1>6, <2>1, <2>2 DEF IsMessage
  <1>8. "queryOptions" \in fields => m.messageType = QueryRequest
    BY <1>1 DEF FieldsOf, Types, ProofOfMessageStored, QueryRequest, QueryResponse, ProofOfReport
  <1>9. \A f \in fields : AsReceived(r)[f] = r[f]
    <2> SUFFICES ASSUME NEW f \in fields PROVE AsReceived(r)[f] = r[f]
      OBVIOUS
    <2>1. CASE f = "queryOptions"
      <3>1. m.messageType = QueryRequest
        BY <1>8, <2>1
      <3>2. AsReceived(r)[f] = NullFor(r[f])
        BY <1>3, <2>1 DEF AsReceived
      <3>3. r[f] = NullFor(m.queryOptions)
        BY <1>5, <2>1, <3>1
      <3>4. NullFor(NullFor(m.queryOptions)) = NullFor(m.queryOptions)
        BY <1>5, <1>6, <3>1
      <3>5. QED BY <3>2, <3>3, <3>4
    <2>2. CASE f # "queryOptions"
      <3>1. r[f] = OnTheWire(m[f])
        BY <1>1, <2>2 DEF AsReceived, OnTheWire
      <3>2. AsReceived(r)[f] = OnTheWire(r[f])
        BY <1>3, <2>2 DEF AsReceived, OnTheWire
      <3>3. QED BY <1>2, <3>1, <3>2 DEF OnTheWire
    <2>3. QED BY <2>1, <2>2
  <1>10. AsReceived(r) = [f \in fields |-> AsReceived(r)[f]]
    BY <1>3 DEF AsReceived
  <1>11. QED BY <1>4, <1>7, <1>9, <1>10

-----------------------------------------------------------------------------
\* What is on the stream is a message's array, as it was constructed or received,
\* or of a later release.
MessagesInv ==
    /\ DOMAIN serializers = Processes
    /\ \A p \in Processes : serializers[p] \in [{VERSION} -> SUBSET Types]
    /\ \A s \in stream \ Foreign :
         /\ IsMessage(s.of)
         /\ \E m \in {s.of, AsReceived(s.of)} : s.array = Stringified(toArray(m))
    /\ DOMAIN received = Processes
    /\ \A p \in Processes : \A r \in received[p] :
         IsMessage(r.of) /\ r.message = AsReceived(r.of)

LEMMA MessagesInitially == MessagesInit => MessagesInv
  <1> SUFFICES ASSUME MessagesInit PROVE MessagesInv
    OBVIOUS
  <1>1. serializers = [p \in Processes |-> [v \in {VERSION} |-> Types]]
    BY DEF MessagesInit
  <1>2. QED BY <1>1 DEF MessagesInit, MessagesInv

LEMMA PublishKeeps ==
    ASSUME MessagesInv, NEW p \in Processes, NEW of, IsMessage(of),
           NEW m \in {of, AsReceived(of)}, Publish(p, of, m)
    PROVE  MessagesInv'
  <1> DEFINE new == [of |-> of, array |-> Stringified(toArray(m))]
  <1>1. stream' = stream \union {new} /\ UNCHANGED <<serializers, received>>
    BY DEF Publish
  <1>2. new.of = of /\ new.array = Stringified(toArray(m))
    OBVIOUS
  <1> HIDE DEF new
  <1>3. ASSUME NEW s \in stream' \ Foreign
        PROVE  IsMessage(s.of) /\ \E x \in {s.of, AsReceived(s.of)} : s.array = Stringified(toArray(x))
    <2>1. CASE s = new
      BY <1>2, <2>1
    <2>2. CASE s # new
      BY <1>1, <1>3, <2>2 DEF MessagesInv
    <2>3. QED BY <2>1, <2>2
  <1>4. QED BY <1>1, <1>3 DEF MessagesInv

LEMMA ReceiveKeeps ==
    ASSUME MessagesInv, NEW p \in Processes, NEW s \in stream, Receive(p, s)
    PROVE  MessagesInv'
  <1> DEFINE verdict == SerializerOf(p, s.array[1], s.array[2])
             new == [of |-> s.of, message |-> fromArray(s.array)]
  <1>1. UNCHANGED <<serializers, stream>>
    BY DEF Receive
  <1>2. CASE verdict # Found
    BY <1>1, <1>2 DEF Receive, MessagesInv
  <1>3. CASE verdict = Found
    <2>1. s.array[1] = VERSION /\ s.array[2] \in Types
      BY <1>3 DEF SerializerOf, Found, MessagesInv
    <2>2. s \notin Foreign
      BY <2>1, MessagesAssumption
    <2>3. PICK m \in {s.of, AsReceived(s.of)} : s.array = Stringified(toArray(m))
      BY <2>2 DEF MessagesInv
    <2>4. IsMessage(s.of)
      BY <2>2 DEF MessagesInv
    <2>5. IsMessage(m) /\ AsReceived(m) = AsReceived(s.of)
      BY <2>4, ReceivedAgain
    <2>6. fromArray(s.array) = AsReceived(s.of)
      BY <2>3, <2>5, IsRead
    <2>7. new.of = s.of /\ new.message = AsReceived(s.of)
      BY <2>6
    <2>8. received' = [received EXCEPT ![p] = @ \union {new}]
      BY <1>3 DEF Receive
    <2> HIDE DEF new
    <2>9. ASSUME NEW q \in Processes, NEW r \in received'[q]
          PROVE  IsMessage(r.of) /\ r.message = AsReceived(r.of)
      <3>1. r \in received[q] \/ r = new
        BY <2>8, <2>9 DEF MessagesInv
      <3>2. QED BY <2>4, <2>7, <3>1 DEF MessagesInv
    <2>10. DOMAIN received' = Processes
      BY <2>8 DEF MessagesInv
    <2>11. QED BY <1>1, <2>9, <2>10 DEF MessagesInv
  <1>4. QED BY <1>2, <1>3

LEMMA MessagesStep == MessagesInv /\ [MessagesNext]_messageVars => MessagesInv'
  <1> SUFFICES ASSUME MessagesInv, [MessagesNext]_messageVars PROVE MessagesInv'
    OBVIOUS
  <1>1. CASE UNCHANGED messageVars
    BY <1>1 DEF messageVars, MessagesInv
  <1>2. ASSUME NEW p \in Processes, NEW type \in Types,
               RegisterSerializer(p, type) \/ UnregisterSerializer(p, type)
        PROVE  MessagesInv'
    <2>1. UNCHANGED <<stream, received>>
      BY <1>2 DEF RegisterSerializer, UnregisterSerializer
    <2>2. \E types \in SUBSET Types :
            serializers' = [serializers EXCEPT ![p] = [@ EXCEPT ![VERSION] = types]]
      <3>1. serializers[p][VERSION] \in SUBSET Types
        BY DEF MessagesInv
      <3>2. CASE RegisterSerializer(p, type)
        <4>1. serializers[p][VERSION] \union {type} \in SUBSET Types
          BY <3>1
        <4>2. QED BY <3>2, <4>1 DEF RegisterSerializer
      <3>3. CASE UnregisterSerializer(p, type)
        <4>1. serializers[p][VERSION] \ {type} \in SUBSET Types
          BY <3>1
        <4>2. QED BY <3>3, <4>1 DEF UnregisterSerializer
      <3>4. QED BY <1>2, <3>2, <3>3
    <2>3. QED BY <2>1, <2>2 DEF MessagesInv
  <1>3. ASSUME NEW p \in Processes, PublishOwn(p) PROVE MessagesInv'
    <2>1. PICK m \in Messages : Publish(p, m, m)
      BY <1>3 DEF PublishOwn
    <2>2. IsMessage(m)
      BY MessagesAssumption
    <2>3. QED BY <2>1, <2>2, PublishKeeps
  <1>4. ASSUME NEW p \in Processes, PublishAgain(p) PROVE MessagesInv'
    <2>1. PICK r \in received[p] : Publish(p, r.of, r.message)
      BY <1>4 DEF PublishAgain
    <2>2. IsMessage(r.of) /\ r.message = AsReceived(r.of)
      BY DEF MessagesInv
    <2>3. QED BY <2>1, <2>2, PublishKeeps
  <1>5. QED BY <1>1, <1>2, <1>3, <1>4, ReceiveKeeps DEF MessagesNext

\* A process reads what another wrote, however late and often it arrives, also
\* when it was published again by one that received it, for every message.
THEOREM MessagesAreRead == MessagesSpec => []DecodedAsSent
  <1>1. MessagesInv => DecodedAsSent
    BY DEF MessagesInv, DecodedAsSent
  <1>2. QED BY <1>1, MessagesInitially, MessagesStep, PTL DEF MessagesSpec

(***************************************************************************)
(* Proofs about SystemReports: that the two formattings of an amount, the  *)
(* one of the nodes and the one of the contract, write the same text, that *)
(* reports come back from JSON as they were, and which proofs the contract *)
(* verifies.                                                               *)
(***************************************************************************)

(***************************************************************************)
(* Hexadecimal digits.                                                     *)
(***************************************************************************)

DigitSet == {"0", "1", "2", "3", "4", "5", "6", "7", "8", "9",
             "a", "b", "c", "d", "e", "f"}

\* The characters of what is packed.
Chars == DigitSet \union STRING \union {"-", "0x"} \union {ToString(n) : n \in Nat}

LEMMA Parity ==
    ASSUME NEW l \in Nat, NEW m \in Nat, m % 2 = 0
    PROVE  /\ l = m => l % 2 = 0
           /\ l = m - 1 => l % 2 = 1
           /\ l % 2 = 0 => l # m - 1
  OBVIOUS

LEMMA DigitType ==
    ASSUME NEW d \in 0 .. 15
    PROVE  Digit(d) \in DigitSet
  BY DEF Digit, DigitSet

LEMMA DigitsDiffer ==
    ASSUME NEW d \in 0 .. 15, NEW e \in 0 .. 15, Digit(d) = Digit(e)
    PROVE  d = e
  BY DEF Digit

LEMMA Halves ==
    ASSUME NEW n \in Nat
    PROVE  /\ n \div 16 \in Nat /\ n % 16 \in 0 .. 15
           /\ n = 16 * (n \div 16) + (n % 16)
           /\ n < 16 <=> n \div 16 = 0
           /\ n >= 16 => n \div 16 < n
  OBVIOUS

LEMMA Bytes ==
    ASSUME NEW n \in Nat
    PROVE  /\ n \div 256 \in Nat
           /\ n \div 256 = (n \div 16) \div 16
           /\ n >= 256 => n \div 256 < n
           /\ n < 256 <=> n \div 16 < 16
  OBVIOUS

LEMMA OneMore ==
    ASSUME NEW S, NEW g \in Seq(S), NEW x \in S
    PROVE  /\ Len(g) \in Nat
           /\ Len(g \o <<x>>) = Len(g) + 1
           /\ \A i \in 1 .. Len(g) : (g \o <<x>>)[i] = g[i]
           /\ (g \o <<x>>)[Len(g) + 1] = x
  <1> DEFINE d == <<x>>
  <1>1. d \in Seq(S) /\ Len(d) = 1 /\ d[1] = x
    OBVIOUS
  <1>2. Len(g) \in Nat
    BY LenProperties
  <1> HIDE DEF d
  <1>3. /\ Len(g \o d) = Len(g) + Len(d)
        /\ \A i \in 1 .. Len(g) + Len(d) :
              (g \o d)[i] = IF i <= Len(g) THEN g[i] ELSE d[i - Len(g)]
    BY <1>1, ConcatProperties
  <1>4. (g \o d)[Len(g) + 1] = d[1]
    BY <1>1, <1>2, <1>3
  <1>5. \A i \in 1 .. Len(g) : (g \o d)[i] = g[i]
    BY <1>1, <1>2, <1>3
  <1> QED BY <1>1, <1>2, <1>3, <1>4, <1>5 DEF d

LEMMA OneBefore ==
    ASSUME NEW S, NEW g \in Seq(S), NEW x \in S
    PROVE  /\ Len(g) \in Nat
           /\ <<x>> \o g \in Seq(S)
           /\ Len(<<x>> \o g) = Len(g) + 1
           /\ (<<x>> \o g)[1] = x
           /\ \A i \in 1 .. Len(g) : (<<x>> \o g)[i + 1] = g[i]
  <1> DEFINE d == <<x>>
  <1>1. d \in Seq(S) /\ Len(d) = 1 /\ d[1] = x
    OBVIOUS
  <1>2. Len(g) \in Nat
    BY LenProperties
  <1> HIDE DEF d
  <1>3. /\ d \o g \in Seq(S)
        /\ Len(d \o g) = Len(d) + Len(g)
        /\ \A i \in 1 .. Len(d) + Len(g) :
              (d \o g)[i] = IF i <= Len(d) THEN d[i] ELSE g[i - Len(d)]
    BY <1>1, ConcatProperties
  <1>4. (d \o g)[1] = d[1]
    BY <1>1, <1>2, <1>3
  <1>5. ASSUME NEW i \in 1 .. Len(g) PROVE (d \o g)[i + 1] = g[i]
    <2>1. i + 1 \in 1 .. Len(d) + Len(g) /\ ~ (i + 1 <= Len(d)) /\ (i + 1) - Len(d) = i
      BY <1>1, <1>2
    <2> QED BY <1>3, <2>1
  <1> QED BY <1>1, <1>2, <1>3, <1>4, <1>5 DEF d

LEMMA HexDigitsUnfolded ==
    ASSUME NEW n \in Nat
    PROVE  /\ HexDigits[n] \in Seq(DigitSet)
           /\ HexDigits[n] = IF n < 16 THEN <<Digit(n)>>
                             ELSE HexDigits[n \div 16] \o <<Digit(n % 16)>>
  <1> DEFINE D == Seq(DigitSet)
             Stops == 0 .. 15
             base == [m \in Nat |-> <<Digit(m % 16)>>]
             before == [m \in Nat |-> m \div 16]
             advance == [x \in Nat \X D |-> x[2] \o <<Digit(x[1] % 16)>>]
             Writes(f) ==
                 f = [m \in Nat |-> IF m < 16 THEN <<Digit(m)>>
                                    ELSE f[m \div 16] \o <<Digit(m % 16)>>]
  <1>1. ASSUME NEW m \in Nat PROVE <<Digit(m % 16)>> \in D /\ m \div 16 \in Nat
    BY Halves, DigitType
  <1>2. base \in [Nat -> D] /\ before \in [Nat -> Nat]
    <2> HIDE DEF D
    <2> QED BY <1>1
  <1>3. advance \in [Nat \X D -> D]
    <2>1. ASSUME NEW m \in Nat, NEW d \in D PROVE d \o <<Digit(m % 16)>> \in D
      BY <1>1, ConcatProperties
    <2> HIDE DEF D
    <2> QED BY <2>1
  <1>4. \A m \in Nat : m \in Stops \/ before[m] < m
    BY Halves
  <1>5. PICK f : NatRecurs(f, D, Stops, base, before, advance)
    <2> HIDE DEF D, Stops, base, before, advance
    <2> QED BY <1>2, <1>3, <1>4, NatRecursion
  <1>6. Writes(f)
    <2>1. ASSUME NEW m \in Nat
          PROVE  f[m] = IF m < 16 THEN <<Digit(m)>> ELSE f[m \div 16] \o <<Digit(m % 16)>>
      <3>1. m < 16 => m % 16 = m /\ m \in Stops
        OBVIOUS
      <3>2. m >= 16 => m \notin Stops
        OBVIOUS
      <3>3. before[m] = m \div 16 /\ before[m] \in Nat
        BY <1>1
      <3>4. f[before[m]] \in D
        <4> HIDE DEF D, before
        <4> QED BY <1>5, <3>3 DEF NatRecurs
      <3>5. advance[<<m, f[before[m]]>>] = f[m \div 16] \o <<Digit(m % 16)>>
        <4> HIDE DEF D, before
        <4> QED BY <3>3, <3>4
      <3>6. base[m] = <<Digit(m % 16)>>
        OBVIOUS
      <3> HIDE DEF advance, base, Stops, before
      <3>7. f[m] = IF m \in Stops THEN base[m] ELSE advance[<<m, f[before[m]]>>]
        BY <1>5 DEF NatRecurs
      <3> QED BY <3>1, <3>2, <3>5, <3>6, <3>7
    <2>2. f \in [Nat -> D]
      BY <1>5 DEF NatRecurs
    <2> QED BY <2>1, <2>2
  <1>7. HexDigits = CHOOSE g : Writes(g)
    BY DEF HexDigits
  <1>8. Writes(HexDigits)
    <2> HIDE DEF Writes
    <2> QED BY <1>6, <1>7
  <1>9. \A m \in Nat : HexDigits[m] = IF m < 16 THEN <<Digit(m)>>
                                      ELSE HexDigits[m \div 16] \o <<Digit(m % 16)>>
    BY <1>8
  <1>10. Nat \subseteq {m \in Nat : HexDigits[m] \in D}
    <2> DEFINE T == {m \in Nat : HexDigits[m] \in D}
    <2>1. ASSUME NEW m \in Nat, \A k \in Nat : k < m => k \in T
          PROVE  m \in T
      <3>1. CASE m < 16
        <4>1. Digit(m) \in DigitSet
          BY <3>1, DigitType
        <4>2. <<Digit(m)>> \in D
          BY <4>1
        <4>3. HexDigits[m] = <<Digit(m)>>
          BY <1>9, <3>1
        <4> HIDE DEF D
        <4> QED BY <4>2, <4>3
      <3>2. CASE m >= 16
        <4>1. HexDigits[m \div 16] \in D /\ <<Digit(m % 16)>> \in D
          <5> HIDE DEF D
          <5> QED BY <1>1, <2>1, <3>2, Halves
        <4>2. HexDigits[m \div 16] \o <<Digit(m % 16)>> \in D
          BY <4>1, ConcatProperties
        <4>3. HexDigits[m] = HexDigits[m \div 16] \o <<Digit(m % 16)>>
          <5>1. ~ (m < 16)
            BY <3>2
          <5> QED BY <1>9, <5>1, Zenon
        <4> HIDE DEF D
        <4> QED BY <4>2, <4>3
      <3> QED BY <3>1, <3>2
    <2> HIDE DEF T
    <2>2. Nat \subseteq T
      BY <2>1, NatSetGeneralInduction
    <2> QED BY <2>2 DEF T
  <1> HIDE DEF D
  <1> QED BY <1>9, <1>10 DEF D


LEMMA Log256Unfolded ==
    ASSUME NEW n \in Nat
    PROVE  /\ Log256[n] \in Nat
           /\ Log256[n] = IF n < 256 THEN 0 ELSE 1 + Log256[n \div 256]
  <1> DEFINE Stops == 0 .. 255
             base == [m \in Nat |-> 0]
             before == [m \in Nat |-> m \div 256]
             advance == [x \in Nat \X Nat |-> 1 + x[2]]
             Counts(f) == f = [m \in Nat |-> IF m < 256 THEN 0 ELSE 1 + f[m \div 256]]
  <1>1. base \in [Nat -> Nat] /\ before \in [Nat -> Nat] /\ advance \in [Nat \X Nat -> Nat]
    BY Bytes
  <1>2. \A m \in Nat : m \in Stops \/ before[m] < m
    BY Bytes
  <1>3. PICK f : NatRecurs(f, Nat, Stops, base, before, advance)
    <2> HIDE DEF Stops, base, before, advance
    <2> QED BY <1>1, <1>2, NatRecursion
  <1>4. f \in [Nat -> Nat]
    BY <1>3 DEF NatRecurs
  <1>5. Counts(f)
    <2>1. ASSUME NEW m \in Nat
          PROVE  f[m] = IF m < 256 THEN 0 ELSE 1 + f[m \div 256]
      <3>1. m < 256 <=> m \in Stops
        OBVIOUS
      <3>2. before[m] = m \div 256 /\ before[m] \in Nat /\ base[m] = 0
        BY Bytes
      <3>3. advance[<<m, f[before[m]]>>] = 1 + f[m \div 256]
        <4> HIDE DEF before
        <4> QED BY <1>4, <3>2
      <3> HIDE DEF advance, base, Stops, before
      <3>4. f[m] = IF m \in Stops THEN base[m] ELSE advance[<<m, f[before[m]]>>]
        BY <1>3 DEF NatRecurs
      <3> QED BY <3>1, <3>2, <3>3, <3>4
    <2> QED BY <1>4, <2>1
  <1>6. Log256 = CHOOSE g : Counts(g)
    BY DEF Log256
  <1>7. Counts(Log256)
    <2> HIDE DEF Counts
    <2> QED BY <1>5, <1>6
  <1>8. \A m \in Nat : Log256[m] = IF m < 256 THEN 0 ELSE 1 + Log256[m \div 256]
    BY <1>7
  <1>9. Nat \subseteq {m \in Nat : Log256[m] \in Nat}
    <2> DEFINE T == {m \in Nat : Log256[m] \in Nat}
    <2>1. ASSUME NEW m \in Nat, \A k \in Nat : k < m => k \in T
          PROVE  m \in T
      <3>1. ~ (m < 256) => Log256[m \div 256] \in Nat
        BY <2>1, Bytes
      <3>2. Log256[m] = IF m < 256 THEN 0 ELSE 1 + Log256[m \div 256]
        BY <1>8, Zenon
      <3> QED BY <3>1, <3>2
    <2> HIDE DEF T
    <2>2. Nat \subseteq T
      BY <2>1, NatSetGeneralInduction
    <2> QED BY <2>2 DEF T
  <1> QED BY <1>8, <1>9

LEMMA ShiftedUnfolded ==
    ASSUME NEW n \in Nat
    PROVE  /\ Shifted(n) \in [Nat -> Nat]
           /\ Shifted(n)[0] = n
           /\ \A i \in Nat : Shifted(n)[i + 1] = Shifted(n)[i] \div 16
  <1> DEFINE Stops == {0}
             base == [i \in Nat |-> n]
             before == [i \in Nat |-> IF i = 0 THEN 0 ELSE i - 1]
             advance == [x \in Nat \X Nat |-> x[2] \div 16]
             Shifts(f) == f = [i \in Nat |-> IF i = 0 THEN n ELSE f[i - 1] \div 16]
  <1>1. base \in [Nat -> Nat] /\ before \in [Nat -> Nat] /\ advance \in [Nat \X Nat -> Nat]
    BY Halves
  <1>2. \A i \in Nat : i \in Stops \/ before[i] < i
    OBVIOUS
  <1>3. PICK f : NatRecurs(f, Nat, Stops, base, before, advance)
    <2> HIDE DEF Stops, base, before, advance
    <2> QED BY <1>1, <1>2, NatRecursion
  <1>4. f \in [Nat -> Nat]
    BY <1>3 DEF NatRecurs
  <1>5. Shifts(f)
    <2>1. ASSUME NEW i \in Nat
          PROVE  f[i] = IF i = 0 THEN n ELSE f[i - 1] \div 16
      <3>1. i = 0 <=> i \in Stops
        OBVIOUS
      <3>2. i # 0 => advance[<<i, f[before[i]]>>] = f[i - 1] \div 16
        <4>1. i # 0 => f[i - 1] \in Nat /\ before[i] = i - 1
          BY <1>4
        <4> HIDE DEF before
        <4> QED BY <4>1
      <3>3. base[i] = n
        OBVIOUS
      <3> HIDE DEF advance, base, Stops, before
      <3>4. f[i] = IF i \in Stops THEN base[i] ELSE advance[<<i, f[before[i]]>>]
        BY <1>3 DEF NatRecurs
      <3> QED BY <3>1, <3>2, <3>3, <3>4
    <2> QED BY <1>4, <2>1
  <1>6. Shifted(n) = CHOOSE g : Shifts(g)
    BY DEF Shifted
  <1>7. Shifts(Shifted(n))
    <2> HIDE DEF Shifts
    <2> QED BY <1>5, <1>6
  <1> DEFINE h == Shifted(n)
  <1>8. \A i \in Nat : h[i] = IF i = 0 THEN n ELSE h[i - 1] \div 16
    BY <1>7
  <1> HIDE DEF h
  <1>9. h[0] = n
    BY <1>8
  <1>10. ASSUME NEW i \in Nat PROVE h[i + 1] = h[i] \div 16
    <2>1. i + 1 \in Nat /\ i + 1 # 0 /\ (i + 1) - 1 = i
      OBVIOUS
    <2>2. h[i + 1] = IF i + 1 = 0 THEN n ELSE h[(i + 1) - 1] \div 16
      BY <1>8, <2>1
    <2> QED BY <2>1, <2>2
  <1>11. Nat \subseteq {i \in Nat : h[i] \in Nat}
    <2> DEFINE T == {i \in Nat : h[i] \in Nat}
    <2>1. 0 \in T
      BY <1>9
    <2>2. ASSUME NEW i \in Nat, i \in T PROVE i + 1 \in T
      BY <1>10, <2>2, Halves
    <2> HIDE DEF T
    <2>3. Nat \subseteq T
      BY <2>1, <2>2, NatSetInduction
    <2> QED BY <2>3 DEF T
  <1>12. h \in [Nat -> Nat]
    <2>1. DOMAIN h = Nat /\ h = [i \in Nat |-> h[i]]
      BY <1>7 DEF h
    <2> QED BY <1>11, <2>1
  <1> QED BY <1>9, <1>10, <1>12 DEF h

\* Shifting once more is shifting what was shifted once.
LEMMA ShiftedOnce ==
    ASSUME NEW n \in Nat, NEW i \in Nat
    PROVE  Shifted(n)[i + 1] = Shifted(n \div 16)[i]
  <1> DEFINE m == n \div 16
             T == {k \in Nat : Shifted(n)[k + 1] = Shifted(m)[k]}
  <1>1. m \in Nat
    BY Halves
  <1>2. 0 \in T
    <2>1. Shifted(n)[0 + 1] = n \div 16 /\ Shifted(m)[0] = m
      BY <1>1, ShiftedUnfolded
    <2> QED BY <2>1
  <1> HIDE DEF m
  <1>3. ASSUME NEW k \in Nat, k \in T PROVE k + 1 \in T
    <2>1. Shifted(n)[(k + 1) + 1] = Shifted(n)[k + 1] \div 16
      BY ShiftedUnfolded
    <2>2. Shifted(m)[k + 1] = Shifted(m)[k] \div 16
      BY <1>1, ShiftedUnfolded
    <2> QED BY <1>3, <2>1, <2>2
  <1>4. Nat \subseteq T
    <2> HIDE DEF T
    <2> QED BY <1>2, <1>3, NatSetInduction
  <1> QED BY <1>4 DEF m


\* The digits are those of the number shifted once less with each of them, and
\* nothing is left after the last.
LEMMA HexDigitsByShift ==
    ASSUME NEW n \in Nat
    PROVE  LET L == Len(HexDigits[n])
           IN /\ L \in Nat \ {0}
              /\ \A i \in 1 .. L : HexDigits[n][i] = Digit(Shifted(n)[L - i] % 16)
              /\ Shifted(n)[L] = 0
  <1> DEFINE ByShift(m, L) ==
                 /\ L \in Nat \ {0}
                 /\ \A i \in 1 .. L : HexDigits[m][i] = Digit(Shifted(m)[L - i] % 16)
                 /\ Shifted(m)[L] = 0
             T == {m \in Nat : ByShift(m, Len(HexDigits[m]))}
  <1>1. ASSUME NEW m \in Nat, \A k \in Nat : k < m => k \in T
        PROVE  ByShift(m, Len(HexDigits[m]))
    <2>1. CASE m < 16
      <3>1. HexDigits[m] = <<Digit(m)>>
        BY <2>1, HexDigitsUnfolded
      <3>2. m % 16 = m /\ m \div 16 = 0
        BY <2>1
      <3>3. Shifted(m)[0] = m /\ Shifted(m)[0 + 1] = Shifted(m)[0] \div 16
        BY ShiftedUnfolded
      <3>4. Len(HexDigits[m]) = 1 /\ HexDigits[m][1] = Digit(m)
        BY <3>1
      <3>5. ByShift(m, 1)
        BY <3>2, <3>3, <3>4
      <3> HIDE DEF ByShift
      <3> QED BY <3>4, <3>5
    <2>2. CASE m >= 16
      <3> DEFINE k == m \div 16
                 h == HexDigits[m]
                 g == HexDigits[k]
                 d == <<Digit(m % 16)>>
      <3>1. k \in Nat /\ k < m
        BY <2>2, Halves
      <3>2. ByShift(k, Len(g))
        BY <1>1, <3>1
      <3>3. h = g \o d
        <4>1. ~ (m < 16)
          BY <2>2
        <4>2. h = IF m < 16 THEN <<Digit(m)>> ELSE g \o d
          BY HexDigitsUnfolded
        <4> QED BY <4>1, <4>2, Zenon
      <3>4. g \in Seq(DigitSet)
        BY <3>1, HexDigitsUnfolded
      <3>5. Digit(m % 16) \in DigitSet
        BY Halves, DigitType
      <3> HIDE DEF g
      <3>6. /\ Len(h) = Len(g) + 1
            /\ \A i \in 1 .. Len(g) : h[i] = g[i]
            /\ h[Len(g) + 1] = Digit(m % 16)
        BY <3>3, <3>4, <3>5, OneMore
      <3> DEFINE L == Len(g)
      <3>7. \A j \in Nat : Shifted(m)[j + 1] = Shifted(k)[j]
        BY ShiftedOnce
      <3>8. Shifted(m)[0] = m
        BY ShiftedUnfolded
      <3> HIDE DEF k, h
      <3>9. L \in Nat \ {0} /\ Shifted(k)[L] = 0
        BY <3>2
      <3>10. ASSUME NEW i \in 1 .. L + 1
             PROVE  h[i] = Digit(Shifted(m)[L + 1 - i] % 16)
        <4>1. CASE i = L + 1
          <5>1. L + 1 - i = 0
            BY <3>9, <4>1
          <5> QED BY <3>6, <3>8, <4>1, <5>1
        <4>2. CASE i \in 1 .. L
          <5>1. g[i] = Digit(Shifted(k)[L - i] % 16)
            BY <3>2, <4>2 DEF g
          <5>2. L - i \in Nat /\ L + 1 - i = (L - i) + 1
            BY <3>9, <4>2
          <5>3. Shifted(m)[L + 1 - i] = Shifted(k)[L - i]
            BY <3>7, <5>2
          <5> QED BY <3>6, <4>2, <5>1, <5>3
        <4> QED BY <3>9, <4>1, <4>2
      <3>11. Shifted(m)[L + 1] = 0
        BY <3>7, <3>9
      <3> QED BY <3>6, <3>9, <3>10, <3>11 DEF h
    <2> QED BY <2>1, <2>2
  <1>2. Nat \subseteq T
    <2>1. \A m \in Nat : (\A k \in Nat : k < m => k \in T) => m \in T
      <3> HIDE DEF ByShift
      <3> QED BY <1>1
    <2> HIDE DEF T
    <2> QED BY <2>1, NatSetGeneralInduction
  <1> QED BY <1>2

\* As many digits as the bytes of the contract hold, or one less.
LEMMA HexLength ==
    ASSUME NEW n \in Nat
    PROVE  /\ Len(HexDigits[n]) \in Nat
           /\ Len(HexDigits[n]) \in {2 * Log256[n] + 1, 2 * Log256[n] + 2}
  <1> DEFINE T == {m \in Nat : Len(HexDigits[m]) \in {2 * Log256[m] + 1, 2 * Log256[m] + 2}}
  <1>1. ASSUME NEW m \in Nat
        PROVE  /\ Len(HexDigits[m]) \in Nat
               /\ Len(HexDigits[m]) = IF m < 16 THEN 1 ELSE Len(HexDigits[m \div 16]) + 1
    <2> DEFINE g == HexDigits[m \div 16]
               d == <<Digit(m % 16)>>
    <2>1. HexDigits[m] \in Seq(DigitSet)
      BY HexDigitsUnfolded
    <2>2. g \in Seq(DigitSet) /\ Digit(m % 16) \in DigitSet
      BY Halves, HexDigitsUnfolded, DigitType
    <2>3. HexDigits[m] = IF m < 16 THEN <<Digit(m)>> ELSE g \o d
      BY HexDigitsUnfolded
    <2> HIDE DEF g
    <2>4. Len(g \o d) = Len(g) + 1
      BY <2>2, OneMore
    <2> HIDE DEF d
    <2>5. Len(<<Digit(m)>>) = 1
      OBVIOUS
    <2> QED BY <2>1, <2>3, <2>4, <2>5, LenProperties DEF g
  <1>2. ASSUME NEW m \in Nat, \A k \in Nat : k < m => k \in T PROVE m \in T
    <2> DEFINE len(k) == Len(HexDigits[k])
    <2>1. len(m) = IF m < 16 THEN 1 ELSE len(m \div 16) + 1
      BY <1>1
    <2>2. len(m \div 16) = IF m \div 16 < 16 THEN 1 ELSE len((m \div 16) \div 16) + 1
      BY <1>1, Halves
    <2>3. Log256[m] = IF m < 256 THEN 0 ELSE 1 + Log256[m \div 256]
      BY Log256Unfolded
    <2>4. m \div 256 = (m \div 16) \div 16 /\ (m < 256 <=> m \div 16 < 16)
      BY Bytes
    <2>5. CASE m < 256
      <3>1. len(m) \in {1, 2} /\ Log256[m] = 0
        BY <2>1, <2>2, <2>3, <2>4, <2>5
      <3> HIDE DEF len
      <3>2. len(m) \in {2 * Log256[m] + 1, 2 * Log256[m] + 2}
        BY <3>1
      <3> QED BY <3>2 DEF len
    <2>6. CASE ~ (m < 256)
      <3>1. m \div 256 \in Nat /\ m \div 256 < m
        BY <2>6, Bytes
      <3>2. len(m \div 256) \in {2 * Log256[m \div 256] + 1, 2 * Log256[m \div 256] + 2}
        BY <1>2, <3>1
      <3>3. Log256[m \div 256] \in Nat /\ len(m \div 256) \in Nat
        BY <1>1, <3>1, Log256Unfolded
      <3>4. len(m) = (len(m \div 256) + 1) + 1 /\ Log256[m] = 1 + Log256[m \div 256]
        BY <2>1, <2>2, <2>3, <2>4, <2>6
      <3> HIDE DEF len
      <3>5. len(m) \in {2 * Log256[m] + 1, 2 * Log256[m] + 2}
        BY <3>2, <3>3, <3>4
      <3> QED BY <3>5 DEF len
    <2> QED BY <2>5, <2>6
  <1>3. Nat \subseteq T
    <2> HIDE DEF T
    <2> QED BY <1>2, NatSetGeneralInduction
  <1> QED BY <1>1, <1>3


(***************************************************************************)
(* The two formattings of an amount.                                       *)
(***************************************************************************)

\* What the contract's loop writes after the prefix.
LastOf(n) == 2 * (Log256[AbsOf(n)] + 1)
Bytes16(n) == [i \in 1 .. LastOf(n) |-> Digit(Shifted(AbsOf(n))[LastOf(n) - i] % 16)]

LEMMA ContractDigits ==
    ASSUME NEW n \in Int
    PROVE  /\ ContractHexString(BigNumber(n)) = SignOf(n) \o <<"0x">> \o Bytes16(n)
           /\ Bytes16(n) \in Seq(DigitSet)
           /\ Len(Bytes16(n)) = LastOf(n) /\ LastOf(n) \in Nat
           /\ LastOf(n) >= 2 /\ LastOf(n) % 2 = 0
           /\ AbsOf(n) \in Nat
  <1>1. AbsOf(n) \in Nat
    BY DEF AbsOf
  <1>2. Log256[AbsOf(n)] \in Nat
    BY <1>1, Log256Unfolded
  <1>3. LastOf(n) \in Nat /\ LastOf(n) >= 2 /\ LastOf(n) % 2 = 0
    BY <1>2 DEF LastOf
  <1>4. ASSUME NEW i \in 1 .. LastOf(n)
        PROVE  Digit(Shifted(AbsOf(n))[LastOf(n) - i] % 16) \in DigitSet
    <2>1. LastOf(n) - i \in Nat
      BY <1>3
    <2>2. Shifted(AbsOf(n))[LastOf(n) - i] \in Nat
      BY <1>1, <2>1, ShiftedUnfolded
    <2> QED BY <2>2, Halves, DigitType
  <1>5. Bytes16(n) \in Seq(DigitSet) /\ Len(Bytes16(n)) = LastOf(n)
    <2> DEFINE L == LastOf(n)
    <2> HIDE DEF L
    <2>1. Bytes16(n) \in [1 .. L -> DigitSet]
      BY <1>4 DEF Bytes16, L
    <2>2. L \in Nat
      BY <1>3 DEF L
    <2> QED BY <2>1, <2>2, IsASeq, LenProperties DEF L
  <1>6. NumberOf(BigNumber(n)) = n
    BY DEF NumberOf, BigNumber
  <1>7. ContractHexString(BigNumber(n)) = SignOf(n) \o <<"0x">> \o Bytes16(n)
    BY <1>6 DEF ContractHexString, Bytes16, LastOf
  <1> QED BY <1>1, <1>3, <1>5, <1>7

LEMMA TextsAssociate ==
    \A s, t, u \in Seq(Chars) : (s \o t) \o u = s \o (t \o u)
  BY ConcatAssociative

\* The nodes' formatting writes what the contract's writes.
LEMMA FormattedAlike ==
    ASSUME NEW n \in Int
    PROVE  ToHexString(BigNumber(n)) = ContractHexString(BigNumber(n))
  <1> DEFINE a == AbsOf(n)
             h == HexDigits[a]
             L == Len(h)
             pad == IF L % 2 = 1 THEN <<"0">> ELSE <<>>
             last == LastOf(n)
  <1>1. a \in Nat
    BY ContractDigits
  <1>2. NumberOf(BigNumber(n)) = n
    BY DEF NumberOf, BigNumber
  <1>3. ToHexString(BigNumber(n)) = SignOf(n) \o <<"0x">> \o pad \o h
    BY <1>2 DEF ToHexString
  <1> HIDE DEF a
  <1>4. /\ L \in Nat \ {0}
        /\ \A i \in 1 .. L : h[i] = Digit(Shifted(a)[L - i] % 16)
        /\ Shifted(a)[L] = 0
    BY <1>1, HexDigitsByShift
  <1>5. L \in {last - 1, last} /\ last \in Nat /\ last % 2 = 0
    <2> DEFINE k == Log256[a]
    <2>1. k \in Nat /\ last = 2 * (k + 1)
      BY <1>1, Log256Unfolded DEF LastOf, a
    <2>2. L \in {2 * k + 1, 2 * k + 2}
      BY <1>1, HexLength, Zenon
    <2> HIDE DEF k, L, last
    <2> QED BY <2>1, <2>2
  <1>6. h \in Seq(DigitSet) /\ "0" \in DigitSet /\ Digit(0) = "0"
    <2>1. "0" \in DigitSet /\ Digit(0) = "0"
      BY DEF DigitSet, Digit
    <2> QED BY <1>1, <2>1, HexDigitsUnfolded
  <1>7. Bytes16(n) = [i \in 1 .. last |-> Digit(Shifted(a)[last - i] % 16)]
    BY DEF Bytes16, a
  <1>8. pad \o h = Bytes16(n)
    <2>1. CASE L = last
      <3>1. pad = <<>>
        <4>1. L % 2 # 1
          BY <1>5, <2>1
        <4> QED BY <4>1, Zenon
      <3>2. pad \o h = h
        BY <1>6, <3>1, ConcatEmptySeq
      <3>3. h = [i \in 1 .. L |-> h[i]]
        BY <1>6, LenProperties
      <3> HIDE DEF h, pad, last
      <3> QED BY <1>4, <1>7, <2>1, <3>2, <3>3
    <2>2. CASE L = last - 1
      <3> DEFINE zero == <<"0">>
                 z == zero \o h
      <3>1. pad = zero
        <4>1. L % 2 = 1
          <5> HIDE DEF L, last
          <5> QED BY <1>4, <1>5, <2>2, Parity
        <4> QED BY <4>1
      <3> HIDE DEF h, pad
      <3>2. /\ z \in Seq(DigitSet) /\ Len(z) = L + 1
            /\ z[1] = "0"
            /\ \A i \in 1 .. L : z[i + 1] = h[i]
        BY <1>6, OneBefore
      <3> HIDE DEF z
      <3>3. Len(z) = last
        BY <1>4, <1>5, <2>2, <3>2
      <3>4. ASSUME NEW i \in 1 .. last
            PROVE  z[i] = Digit(Shifted(a)[last - i] % 16)
        <4>1. CASE i = 1
          <5>1. last - i = L
            BY <1>4, <1>5, <2>2, <4>1
          <5>2. Shifted(a)[last - i] % 16 = 0
            BY <1>4, <5>1
          <5> QED BY <1>6, <3>2, <4>1, <5>2
        <4>2. CASE i # 1
          <5> DEFINE j == i - 1
          <5>1. j \in 1 .. L /\ last - i = L - j /\ i = j + 1
            BY <1>4, <1>5, <2>2, <4>2
          <5> HIDE DEF j
          <5>2. z[j + 1] = h[j]
            BY <3>2, <5>1
          <5>3. h[j] = Digit(Shifted(a)[L - j] % 16)
            BY <1>4, <5>1
          <5> HIDE DEF L, last
          <5> QED BY <5>1, <5>2, <5>3
        <4> QED BY <4>1, <4>2
      <3>5. z = [i \in 1 .. last |-> z[i]]
        BY <3>2, <3>3, LenProperties
      <3> HIDE DEF last
      <3>6. z = Bytes16(n)
        BY <1>7, <3>4, <3>5
      <3> QED BY <3>1, <3>6 DEF z
    <2> QED BY <1>5, <2>1, <2>2
  <1>9. SignOf(n) \o <<"0x">> \o pad \o h = SignOf(n) \o <<"0x">> \o (pad \o h)
    <2>1. /\ SignOf(n) \o <<"0x">> \in Seq(Chars)
          /\ pad \in Seq(Chars) /\ h \in Seq(Chars)
      <3>1. DigitSet \subseteq Chars /\ {"0", "-", "0x"} \subseteq Chars
        BY DEF DigitSet, Chars
      <3>2. SignOf(n) \in Seq(Chars) /\ <<"0x">> \in Seq(Chars)
        BY <3>1 DEF SignOf
      <3>3. SignOf(n) \o <<"0x">> \in Seq(Chars)
        BY <3>2, ConcatProperties
      <3>4. pad \in Seq(Chars)
        <4>1. pad = <<"0">> \/ pad = <<>>
          BY Zenon
        <4>2. <<"0">> \in Seq(Chars) /\ <<>> \in Seq(Chars)
          BY <3>1
        <4> QED BY <4>1, <4>2, Zenon
      <3>5. h \in Seq(Chars)
        BY <1>6, <3>1, SeqMonotonic, Zenon
      <3> QED BY <3>3, <3>4, <3>5, Zenon
    <2> DEFINE front == SignOf(n) \o <<"0x">>
    <2> HIDE DEF front, pad, h
    <2>2. front \in Seq(Chars)
      BY <2>1, Zenon DEF front
    <2>3. (front \o pad) \o h = front \o (pad \o h)
      BY <2>1, <2>2, TextsAssociate, Zenon
    <2> QED BY <2>3, Zenon DEF front
  <1> QED BY <1>3, <1>8, <1>9, ContractDigits


\* The sign, the prefix and a positive, even number of digits.
LEMMA Formatted ==
    ASSUME NEW n \in Int
    PROVE  /\ ToHexString(BigNumber(n)) = SignOf(n) \o (<<"0x">> \o Bytes16(n))
           /\ <<"0x">> \o Bytes16(n) \in Seq(Chars)
           /\ SignOf(n) \in Seq(Chars)
           /\ ToHexString(BigNumber(n)) \in Seq(Chars)
  <1>1. DigitSet \subseteq Chars /\ "0x" \in Chars /\ "-" \in Chars
    BY DEF Chars
  <1>2. SignOf(n) \in Seq(Chars)
    BY <1>1 DEF SignOf
  <1>3. <<"0x">> \in Seq(Chars)
    BY <1>1
  <1>4. Bytes16(n) \in Seq(Chars)
    BY <1>1, ContractDigits, SeqMonotonic
  <1>5. ToHexString(BigNumber(n)) = SignOf(n) \o <<"0x">> \o Bytes16(n)
    BY FormattedAlike, ContractDigits
  <1>6. <<"0x">> \o Bytes16(n) \in Seq(Chars)
    BY <1>3, <1>4, ConcatProperties
  <1>7. SignOf(n) \o (<<"0x">> \o Bytes16(n)) \in Seq(Chars)
    BY <1>2, <1>6, ConcatProperties
  <1> QED BY <1>2, <1>3, <1>4, <1>5, <1>6, <1>7, ConcatAssociative

\* Numbers of the same digits are the same.
LEMMA DigitsTell ==
    ASSUME NEW a \in Nat, NEW b \in Nat, NEW last \in Nat,
           Shifted(a)[last] = 0, Shifted(b)[last] = 0,
           \A k \in 0 .. last - 1 : Digit(Shifted(a)[k] % 16) = Digit(Shifted(b)[k] % 16)
    PROVE  a = b
  <1> DEFINE T == {d \in Nat : d <= last => Shifted(a)[last - d] = Shifted(b)[last - d]}
  <1>1. 0 \in T
    OBVIOUS
  <1>2. ASSUME NEW d \in Nat, d \in T PROVE d + 1 \in T
    <2> SUFFICES ASSUME d + 1 <= last
                 PROVE  Shifted(a)[last - (d + 1)] = Shifted(b)[last - (d + 1)]
      OBVIOUS
    <2> DEFINE k == last - (d + 1)
    <2>1. k \in 0 .. last - 1 /\ k \in Nat /\ k + 1 = last - d /\ d <= last
      OBVIOUS
    <2> HIDE DEF k
    <2>2. Shifted(a)[k + 1] = Shifted(b)[k + 1]
      BY <1>2, <2>1
    <2> DEFINE x == Shifted(a)[k]
               y == Shifted(b)[k]
    <2>3. x \in Nat /\ y \in Nat /\ x \div 16 = y \div 16
      <3>1. x \in Nat /\ Shifted(a)[k + 1] = x \div 16
        BY <2>1, ShiftedUnfolded
      <3>2. y \in Nat /\ Shifted(b)[k + 1] = y \div 16
        BY <2>1, ShiftedUnfolded
      <3> HIDE DEF x, y
      <3> QED BY <2>2, <3>1, <3>2
    <2>4. Digit(x % 16) = Digit(y % 16)
      BY <2>1
    <2> HIDE DEF x, y
    <2>5. x % 16 = y % 16
      BY <2>3, <2>4, Halves, DigitsDiffer
    <2>6. x = 16 * (x \div 16) + (x % 16) /\ y = 16 * (y \div 16) + (y % 16)
      BY <2>3, Halves
    <2>7. x = y
      BY <2>3, <2>5, <2>6
    <2> QED BY <2>7 DEF x, y, k
  <1>3. Nat \subseteq T
    <2> HIDE DEF T
    <2> QED BY <1>1, <1>2, NatSetInduction
  <1>4. last \in T
    <2> HIDE DEF T
    <2> QED BY <1>3
  <1>5. Shifted(a)[0] = Shifted(b)[0]
    BY <1>4
  <1> QED BY <1>5, ShiftedUnfolded

LEMMA NothingLeft ==
    ASSUME NEW n \in Int
    PROVE  Shifted(AbsOf(n))[LastOf(n)] = 0
  <1> DEFINE a == AbsOf(n)
             L == Len(HexDigits[a])
             last == LastOf(n)
  <1>1. a \in Nat
    BY ContractDigits
  <1> HIDE DEF a
  <1>2. L \in Nat /\ Shifted(a)[L] = 0
    BY <1>1, HexDigitsByShift
  <1>3. L \in {last - 1, last} /\ last \in Nat
    <2> DEFINE k == Log256[a]
    <2>1. k \in Nat /\ last = 2 * (k + 1)
      BY <1>1, Log256Unfolded DEF LastOf, a
    <2>2. L \in {2 * k + 1, 2 * k + 2}
      BY <1>1, HexLength, Zenon
    <2> HIDE DEF k, L, last
    <2> QED BY <2>1, <2>2
  <1> HIDE DEF L, last
  <1>4. Shifted(a)[L + 1] = 0
    <2>1. Shifted(a)[L + 1] = Shifted(a)[L] \div 16
      BY <1>1, <1>2, ShiftedUnfolded
    <2> QED BY <1>2, <2>1
  <1>5. last = L \/ last = L + 1
    BY <1>2, <1>3
  <1> QED BY <1>2, <1>4, <1>5 DEF a, last

\* No two amounts have the same text.
LEMMA AmountsDiffer ==
    ASSUME NEW m \in Int, NEW n \in Int,
           ToHexString(BigNumber(m)) = ToHexString(BigNumber(n))
    PROVE  m = n
  <1> DEFINE s(k) == <<"0x">> \o Bytes16(k)
  <1>1. \A k \in {m, n} :
          /\ ToHexString(BigNumber(k)) = SignOf(k) \o s(k)
          /\ s(k) \in Seq(Chars) /\ Len(s(k)) >= 3 /\ s(k)[1] = "0x"
          /\ Len(s(k)) = LastOf(k) + 1
          /\ \A i \in 1 .. LastOf(k) : s(k)[i + 1] = Bytes16(k)[i]
    <2> TAKE k \in {m, n}
    <2>1. k \in Int
      OBVIOUS
    <2>2. "0x" \in Chars /\ Bytes16(k) \in Seq(Chars)
      <3>1. DigitSet \subseteq Chars /\ "0x" \in Chars
        BY DEF Chars
      <3> QED BY <2>1, <3>1, ContractDigits, SeqMonotonic
    <2>3. Len(Bytes16(k)) = LastOf(k) /\ LastOf(k) \in Nat /\ LastOf(k) >= 2
      BY <2>1, ContractDigits
    <2>4. ToHexString(BigNumber(k)) = SignOf(k) \o s(k)
      BY <2>1, Formatted
    <2>5. /\ s(k) \in Seq(Chars) /\ Len(s(k)) = Len(Bytes16(k)) + 1
          /\ s(k)[1] = "0x"
          /\ \A i \in 1 .. Len(Bytes16(k)) : s(k)[i + 1] = Bytes16(k)[i]
      BY <2>2, OneBefore
    <2> HIDE DEF s
    <2> QED BY <2>3, <2>4, <2>5
  <1> HIDE DEF s
  <1>2. \A k \in {m, n} :
          LET t == ToHexString(BigNumber(k))
          IN t[1] = "-" <=> k < 0
    <2> TAKE k \in {m, n}
    <2> DEFINE t == ToHexString(BigNumber(k))
    <2>1. CASE k < 0
      <3>1. SignOf(k) = <<"-">>
        BY <2>1 DEF SignOf
      <3>2. "-" \in Chars
        BY DEF Chars
      <3>3. (<<"-">> \o s(k))[1] = "-"
        BY <1>1, <3>2, OneBefore
      <3> QED BY <1>1, <2>1, <3>1, <3>3
    <2>2. CASE ~ (k < 0)
      <3>1. SignOf(k) = <<>>
        BY <2>2 DEF SignOf
      <3>2. <<>> \o s(k) = s(k)
        BY <1>1, ConcatEmptySeq
      <3>3. t[1] = "0x"
        BY <1>1, <3>1, <3>2
      <3> QED BY <2>2, <3>3
    <2> QED BY <2>1, <2>2
  <1>3. m < 0 <=> n < 0
    BY <1>2
  <1>4. SignOf(m) = SignOf(n) /\ SignOf(m) \in Seq(Chars)
    BY <1>3, Formatted DEF SignOf
  <1>5. s(m) = s(n)
    BY <1>1, <1>4, ConcatSimplifications
  <1>6. LastOf(m) = LastOf(n) /\ LastOf(m) \in Nat /\ LastOf(n) \in Nat
    <2>1. LastOf(m) \in Nat /\ LastOf(n) \in Nat
      BY ContractDigits
    <2>2. Len(s(m)) = LastOf(m) + 1 /\ Len(s(n)) = LastOf(n) + 1
      BY <1>1
    <2> QED BY <1>5, <2>1, <2>2
  <1>7. \A i \in 1 .. LastOf(m) : Bytes16(m)[i] = Bytes16(n)[i]
    BY <1>1, <1>5, <1>6
  <1> DEFINE last == LastOf(m)
             a == AbsOf(m)
             b == AbsOf(n)
  <1>8. a \in Nat /\ b \in Nat
    BY ContractDigits
  <1>9. ASSUME NEW k \in 0 .. last - 1
        PROVE  Digit(Shifted(a)[k] % 16) = Digit(Shifted(b)[k] % 16)
    <2> DEFINE i == last - k
    <2>1. i \in 1 .. last /\ last - i = k
      BY <1>6
    <2>2. Bytes16(m)[i] = Digit(Shifted(a)[last - i] % 16)
      BY <2>1 DEF Bytes16
    <2>3. Bytes16(n)[i] = Digit(Shifted(b)[last - i] % 16)
      BY <1>6, <2>1 DEF Bytes16
    <2> HIDE DEF i
    <2> QED BY <1>7, <2>1, <2>2, <2>3
  <1>10. Shifted(a)[last] = 0 /\ Shifted(b)[last] = 0
    BY <1>6, NothingLeft
  <1> HIDE DEF last, a, b
  <1>11. last \in Nat
    BY <1>6 DEF last
  <1>12. a = b
    BY <1>8, <1>9, <1>10, <1>11, DigitsTell
  <1> QED BY <1>3, <1>12 DEF a, b, AbsOf

\* A BigNumber is read from its text as it was written.
LEMMA AmountIsRead ==
    ASSUME NEW b \in BigNumbers
    PROVE  BigNumberFrom(ToHexString(b)) = b
  <1>1. \A c \in BigNumbers : ToHexString(c) = ToHexString(b) => c = b
    <2> TAKE c \in BigNumbers
    <2> HAVE ToHexString(c) = ToHexString(b)
    <2>1. PICK m \in Amounts : c = BigNumber(m)
      BY DEF BigNumbers
    <2>2. PICK n \in Amounts : b = BigNumber(n)
      BY DEF BigNumbers
    <2>3. m \in Int /\ n \in Int
      BY ReportsAssumption
    <2>4. m = n
      BY <2>1, <2>2, <2>3, AmountsDiffer
    <2> QED BY <2>1, <2>2, <2>4
  <1> QED BY <1>1 DEF BigNumberFrom


(***************************************************************************)
(* A report is read from its serialised form as it was.                    *)
(***************************************************************************)

LEMMA TextIsRead ==
    ASSUME NEW text \in Texts
    PROVE  hexToStr(strToHex(text)) = text
  <1> DEFINE x == <<"0x">> \o text
  <1>1. text \in Seq(Chars) /\ "0x" \in Chars
    <2>1. STRING \subseteq Chars /\ "0x" \in Chars
      BY DEF Chars
    <2> QED BY <2>1, SeqMonotonic DEF Texts
  <1>2. /\ x \in Seq(Chars) /\ Len(x) = Len(text) + 1 /\ Len(text) \in Nat
        /\ \A i \in 1 .. Len(text) : x[i + 1] = text[i]
    BY <1>1, OneBefore
  <1> HIDE DEF x
  <1>3. /\ x # <<>> => Tail(x) \in Seq(Chars) /\ Len(Tail(x)) = Len(x) - 1
        /\ x # <<>> => \A i \in 1 .. Len(Tail(x)) : Tail(x)[i] = x[i + 1]
    BY <1>2, HeadTailProperties
  <1>4. x # <<>>
    BY <1>2, EmptySeq
  <1>5. Tail(x) = text
    <2>1. Tail(x) \in Seq(Chars) /\ Len(Tail(x)) = Len(text)
      BY <1>2, <1>3, <1>4
    <2>2. \A i \in 1 .. Len(text) : Tail(x)[i] = text[i]
      BY <1>2, <1>3, <1>4, <2>1
    <2> QED BY <1>1, <2>1, <2>2, SeqEqual
  <1> QED BY <1>5 DEF x, hexToStr, strToHex

LEMMA EntryOfEntries ==
    ASSUME NEW K, NEW V, NEW entries \in Seq([key : K, value : V]), NEW i \in DOMAIN entries
    PROVE  /\ entries[i] \in [key : K, value : V]
           /\ entries[i] = [key |-> entries[i].key, value |-> entries[i].value]
  <1> DEFINE e == entries[i]
  <1>1. e \in [key : K, value : V]
    <2> DEFINE S == [key : K, value : V]
    <2>1. entries \in Seq(S)
      OBVIOUS
    <2> HIDE DEF S
    <2>2. entries[i] \in S
      BY <2>1
    <2> QED BY <2>2 DEF S
  <1> HIDE DEF e
  <1>2. e = [key |-> e.key, value |-> e.value]
    BY <1>1
  <1> QED BY <1>1, <1>2 DEF e

LEMMA NodesAreRead ==
    ASSUME NEW entries \in Entries(BigNumbers)
    PROVE  NodesFromHex(NodesToHex(entries)) = entries
  <1> DEFINE x == NodesToHex(entries)
             y == NodesFromHex(x)
  <1>1. \A i \in DOMAIN entries :
            /\ entries[i] \in [key : Texts, value : BigNumbers]
            /\ entries[i] = [key |-> entries[i].key, value |-> entries[i].value]
    <2>1. entries \in Seq([key : Texts, value : BigNumbers])
      BY DEF Entries
    <2> QED BY <2>1, EntryOfEntries
  <1>2. DOMAIN x = DOMAIN entries
    BY DEF NodesToHex, EachValue
  <1>3. ASSUME NEW i \in DOMAIN entries PROVE y[i] = entries[i]
    <2>1. x[i] = [key |-> entries[i].key, value |-> ToHexString(entries[i].value)]
      BY DEF NodesToHex, EachValue
    <2>2. x[i].key = entries[i].key /\ x[i].value = ToHexString(entries[i].value)
      BY <2>1
    <2>3. entries[i].value \in BigNumbers
      BY <1>1
    <2>4. BigNumberFrom(x[i].value) = entries[i].value
      BY <2>2, <2>3, AmountIsRead
    <2> HIDE DEF x
    <2>5. y[i] = [key |-> x[i].key, value |-> BigNumberFrom(x[i].value)]
      BY <1>2 DEF NodesFromHex, EachValue
    <2> QED BY <1>1, <2>2, <2>4, <2>5
  <1>4. y = [i \in DOMAIN entries |-> y[i]]
    <2> HIDE DEF x
    <2> QED BY <1>2 DEF NodesFromHex, EachValue
  <1>5. entries = [i \in DOMAIN entries |-> entries[i]]
    BY DEF Entries
  <1> HIDE DEF x, y
  <1> QED BY <1>3, <1>4, <1>5 DEF x, y

LEMMA DelegatesAreRead ==
    ASSUME NEW entries \in Entries(Entries(BigNumbers))
    PROVE  EachValue(EachValue(entries, NodesToHex), NodesFromHex) = entries
  <1> DEFINE x == EachValue(entries, NodesToHex)
             y == EachValue(x, NodesFromHex)
             values == Entries(BigNumbers)
  <1>1. \A i \in DOMAIN entries :
            /\ entries[i] \in [key : Texts, value : values]
            /\ entries[i] = [key |-> entries[i].key, value |-> entries[i].value]
    <2> HIDE DEF values
    <2>1. entries \in Seq([key : Texts, value : values])
      BY DEF Entries, values
    <2> QED BY <2>1, EntryOfEntries
  <1>2. DOMAIN x = DOMAIN entries
    BY DEF EachValue
  <1>3. ASSUME NEW i \in DOMAIN entries PROVE y[i] = entries[i]
    <2>1. x[i] = [key |-> entries[i].key, value |-> NodesToHex(entries[i].value)]
      BY DEF EachValue
    <2>2. x[i].key = entries[i].key /\ x[i].value = NodesToHex(entries[i].value)
      BY <2>1
    <2>3. entries[i].value \in values
      <3> HIDE DEF values
      <3> QED BY <1>1
    <2>4. NodesFromHex(x[i].value) = entries[i].value
      BY <2>2, <2>3, NodesAreRead
    <2> HIDE DEF x
    <2>5. y[i] = [key |-> x[i].key, value |-> NodesFromHex(x[i].value)]
      BY <1>2 DEF EachValue
    <2> QED BY <1>1, <2>2, <2>4, <2>5
  <1>4. y = [i \in DOMAIN entries |-> y[i]]
    <2> HIDE DEF x
    <2> QED BY <1>2 DEF EachValue
  <1>5. entries = [i \in DOMAIN entries |-> entries[i]]
    BY DEF Entries
  <1> HIDE DEF x, y
  <1> QED BY <1>3, <1>4, <1>5 DEF x, y

LEMMA StreamsAreRead ==
    ASSUME NEW q \in Seq(Usages)
    PROVE  StreamsFromHex(StreamsToHex(q)) = q
  <1> DEFINE x == StreamsToHex(q)
             y == StreamsFromHex(x)
  <1>1. ASSUME NEW i \in DOMAIN q PROVE y[i] = q[i]
    <2> DEFINE u == q[i]
    <2>1. u \in Usages
      OBVIOUS
    <2> HIDE DEF u
    <2>2. x[i] = [u EXCEPT !.id = strToHex(@), !.capture = ToHexString(@)] /\ DOMAIN x = DOMAIN q
      BY DEF StreamsToHex, u
    <2>3. y[i] = [x[i] EXCEPT !.id = hexToStr(@), !.capture = BigNumberFrom(@)]
      <3> HIDE DEF x
      <3> QED BY <2>2 DEF StreamsFromHex
    <2>4. hexToStr(strToHex(u.id)) = u.id /\ BigNumberFrom(ToHexString(u.capture)) = u.capture
      BY <2>1, TextIsRead, AmountIsRead DEF Usages
    <2> HIDE DEF x, y
    <2>5. y[i] = [id |-> hexToStr(strToHex(u.id)),
                  capture |-> BigNumberFrom(ToHexString(u.capture)), bytes |-> u.bytes]
      BY <2>1, <2>2, <2>3 DEF Usages
    <2>6. u = [id |-> u.id, capture |-> u.capture, bytes |-> u.bytes]
      BY <2>1 DEF Usages
    <2> QED BY <2>4, <2>5, <2>6 DEF u
  <1>2. y = [i \in DOMAIN q |-> y[i]]
    BY DEF StreamsFromHex, StreamsToHex
  <1>3. q = [i \in DOMAIN q |-> q[i]]
    OBVIOUS
  <1> HIDE DEF x, y
  <1> QED BY <1>1, <1>2, <1>3 DEF x, y

LEMMA ConsumersAreRead ==
    ASSUME NEW q \in Seq(Usages)
    PROVE  ConsumersFromHex(ConsumersToHex(q)) = q
  <1> DEFINE x == ConsumersToHex(q)
             y == ConsumersFromHex(x)
  <1>1. ASSUME NEW i \in DOMAIN q PROVE y[i] = q[i]
    <2> DEFINE u == q[i]
    <2>1. u \in Usages
      OBVIOUS
    <2> HIDE DEF u
    <2>2. x[i] = [u EXCEPT !.capture = ToHexString(@)] /\ DOMAIN x = DOMAIN q
      BY DEF ConsumersToHex, u
    <2>3. y[i] = [x[i] EXCEPT !.capture = BigNumberFrom(@)]
      <3> HIDE DEF x
      <3> QED BY <2>2 DEF ConsumersFromHex
    <2>4. BigNumberFrom(ToHexString(u.capture)) = u.capture
      BY <2>1, AmountIsRead DEF Usages
    <2> HIDE DEF x, y
    <2>5. y[i] = [id |-> u.id, capture |-> BigNumberFrom(ToHexString(u.capture)),
                  bytes |-> u.bytes]
      BY <2>1, <2>2, <2>3 DEF Usages
    <2>6. u = [id |-> u.id, capture |-> u.capture, bytes |-> u.bytes]
      BY <2>1 DEF Usages
    <2> QED BY <2>4, <2>5, <2>6 DEF u
  <1>2. y = [i \in DOMAIN q |-> y[i]]
    BY DEF ConsumersFromHex, ConsumersToHex
  <1>3. q = [i \in DOMAIN q |-> q[i]]
    OBVIOUS
  <1> HIDE DEF x, y
  <1> QED BY <1>1, <1>2, <1>3 DEF x, y

LEMMA EventsAreRead ==
    ASSUME NEW q \in Seq(Texts)
    PROVE  EventsFromHex(EventsToHex(q)) = q
  <1>1. \A i \in DOMAIN q : q[i] \in Texts
    OBVIOUS
  <1>2. \A i \in DOMAIN q : hexToStr(strToHex(q[i])) = q[i]
    BY <1>1, TextIsRead
  <1>3. EventsFromHex(EventsToHex(q)) = [i \in DOMAIN q |-> hexToStr(strToHex(q[i]))]
    BY DEF EventsFromHex, EventsToHex
  <1>4. q = [i \in DOMAIN q |-> q[i]]
    OBVIOUS
  <1> QED BY <1>2, <1>3, <1>4


ReportFields == {"s", "v", "id", "height", "treasury", "streams", "consumers", "nodes",
                 "delegates", "events"}

LEMMA SerializedFields ==
    ASSUME NEW r, DOMAIN r = ReportFields, r = [f \in ReportFields |-> r[f]]
    PROVE  LET x == serialize(r)
           IN /\ x.s = TRUE /\ x.v = V1 /\ x.id = r.id /\ x.height = r.height
              /\ x.treasury = ToHexString(r.treasury)
              /\ x.streams = StreamsToHex(r.streams)
              /\ x.consumers = ConsumersToHex(r.consumers)
              /\ x.nodes = NodesToHex(r.nodes)
              /\ x.delegates = EachValue(r.delegates, NodesToHex)
              /\ x.events = EventsToHex(r.events)
              /\ DOMAIN x = ReportFields /\ x = [f \in ReportFields |-> x[f]]
  BY DEF serialize, ReportFields

LEMMA DeserializedFields ==
    ASSUME NEW r, DOMAIN r = ReportFields, r = [f \in ReportFields |-> r[f]]
    PROVE  LET x == deserialize(r)
           IN /\ x.s = FALSE /\ x.v = V1 /\ x.id = r.id /\ x.height = r.height
              /\ x.treasury = BigNumberFrom(r.treasury)
              /\ x.streams = StreamsFromHex(r.streams)
              /\ x.consumers = ConsumersFromHex(r.consumers)
              /\ x.nodes = NodesFromHex(r.nodes)
              /\ x.delegates = EachValue(r.delegates, NodesFromHex)
              /\ x.events = EventsFromHex(r.events)
              /\ DOMAIN x = ReportFields /\ x = [f \in ReportFields |-> x[f]]
  BY DEF deserialize, ReportFields

LEMMA PlainFields ==
    ASSUME NEW r \in PlainReports
    PROVE  /\ DOMAIN r = ReportFields /\ r = [f \in ReportFields |-> r[f]]
           /\ r.s = FALSE /\ r.id \in Texts /\ r.height \in Nat /\ r.treasury \in BigNumbers
           /\ r.streams \in Seq(Usages) /\ r.consumers \in Seq(Usages)
           /\ r.nodes \in Entries(BigNumbers)
           /\ r.delegates \in Entries(Entries(BigNumbers))
           /\ r.events \in Seq(Texts)
  BY DEF PlainReports, ReportFields

\* What is read from the JSON of a report is the report.
LEMMA ReportsAreRead ==
    ASSUME NEW r \in PlainReports, r.v = V1
    PROVE  deserialize(serialize(r)) = r
  <1> DEFINE x == serialize(r)
             y == deserialize(x)
  <1>1. /\ DOMAIN r = ReportFields /\ r = [f \in ReportFields |-> r[f]]
        /\ r.s = FALSE /\ r.treasury \in BigNumbers
        /\ r.streams \in Seq(Usages) /\ r.consumers \in Seq(Usages)
        /\ r.nodes \in Entries(BigNumbers)
        /\ r.delegates \in Entries(Entries(BigNumbers))
        /\ r.events \in Seq(Texts)
    BY PlainFields
  <1>2. /\ x.id = r.id /\ x.height = r.height
        /\ x.treasury = ToHexString(r.treasury)
        /\ x.streams = StreamsToHex(r.streams)
        /\ x.consumers = ConsumersToHex(r.consumers)
        /\ x.nodes = NodesToHex(r.nodes)
        /\ x.delegates = EachValue(r.delegates, NodesToHex)
        /\ x.events = EventsToHex(r.events)
        /\ DOMAIN x = ReportFields /\ x = [f \in ReportFields |-> x[f]]
    BY <1>1, SerializedFields
  <1> HIDE DEF x
  <1>3. /\ y.s = FALSE /\ y.v = V1 /\ y.id = x.id /\ y.height = x.height
        /\ y.treasury = BigNumberFrom(x.treasury)
        /\ y.streams = StreamsFromHex(x.streams)
        /\ y.consumers = ConsumersFromHex(x.consumers)
        /\ y.nodes = NodesFromHex(x.nodes)
        /\ y.delegates = EachValue(x.delegates, NodesFromHex)
        /\ y.events = EventsFromHex(x.events)
        /\ DOMAIN y = ReportFields /\ y = [f \in ReportFields |-> y[f]]
    BY <1>2, DeserializedFields
  <1> HIDE DEF y
  <1>4. y.treasury = r.treasury
    BY <1>1, <1>2, <1>3, AmountIsRead
  <1>5. y.streams = r.streams
    BY <1>1, <1>2, <1>3, StreamsAreRead
  <1>6. y.consumers = r.consumers
    BY <1>1, <1>2, <1>3, ConsumersAreRead
  <1>7. y.nodes = r.nodes
    BY <1>1, <1>2, <1>3, NodesAreRead
  <1>8. y.delegates = r.delegates
    BY <1>1, <1>2, <1>3, DelegatesAreRead
  <1>9. y.events = r.events
    BY <1>1, <1>2, <1>3, EventsAreRead
  <1>10. \A f \in ReportFields : y[f] = r[f]
    BY <1>1, <1>2, <1>3, <1>4, <1>5, <1>6, <1>7, <1>8, <1>9 DEF ReportFields
  <1>11. y = r
    BY <1>1, <1>3, <1>10, Zenon
  <1> QED BY <1>11 DEF x, y


(***************************************************************************)
(* What the nodes and the contract pack.                                   *)
(***************************************************************************)

\* What is packed before the timestamp.
Packed(x) ==
    x.id \o Uint256(x.height)
    \o Pack(x.streams, PackStream)
    \o Pack(x.consumers, PackConsumer)
    \o Pack(x.nodes, PackNode)
    \o Pack(x.delegates, PackDelegate)
    \o x.treasury

LEMMA NodesPacked ==
    ASSUME NEW entries \in Entries(BigNumbers)
    PROVE  Pack(NodesToHex(entries), PackNode) =
             FlattenSeq([j \in DOMAIN Keys(entries) |->
                            Keys(entries)[j] \o ContractHexString(Values(entries)[j])])
  <1> DEFINE x == NodesToHex(entries)
             keys == Keys(entries)
             values == Values(entries)
  <1>1. DOMAIN x = DOMAIN entries /\ DOMAIN keys = DOMAIN entries
    BY DEF NodesToHex, EachValue, Keys
  <1>2. ASSUME NEW j \in DOMAIN entries
        PROVE  PackNode(x[j]) = keys[j] \o ContractHexString(values[j])
    <2>1. x[j] = [key |-> entries[j].key, value |-> ToHexString(entries[j].value)]
      BY DEF NodesToHex, EachValue
    <2>2. keys[j] = entries[j].key /\ values[j] = entries[j].value
      BY DEF Keys, Values
    <2>3. entries[j].value \in BigNumbers
      BY EntryOfEntries DEF Entries
    <2>4. ToHexString(entries[j].value) = ContractHexString(entries[j].value)
      BY <2>3, FormattedAlike, ReportsAssumption DEF BigNumbers
    <2>5. x[j].key = entries[j].key /\ x[j].value = ToHexString(entries[j].value)
      BY <2>1
    <2> HIDE DEF x, keys, values
    <2> QED BY <2>2, <2>4, <2>5 DEF PackNode
  <1> HIDE DEF x, keys, values
  <1>3. [j \in DOMAIN x |-> PackNode(x[j])] =
          [j \in DOMAIN keys |-> keys[j] \o ContractHexString(values[j])]
    BY <1>1, <1>2
  <1>4. Pack(x, PackNode) =
          FlattenSeq([j \in DOMAIN keys |-> keys[j] \o ContractHexString(values[j])])
    BY <1>3, Zenon DEF Pack
  <1> QED BY <1>4 DEF x, keys, values

LEMMA StreamsPacked ==
    ASSUME NEW q \in Seq(Usages)
    PROVE  [i \in DOMAIN StreamsToHex(q) |-> PackStream(StreamsToHex(q)[i])] =
             [i \in DOMAIN q |-> q[i].id \o ContractHexString(q[i].capture) \o Uint256(q[i].bytes)]
  <1> DEFINE x == StreamsToHex(q)
  <1>1. DOMAIN x = DOMAIN q
    BY DEF StreamsToHex
  <1>2. ASSUME NEW i \in DOMAIN q
        PROVE  PackStream(x[i]) =
                 q[i].id \o ContractHexString(q[i].capture) \o Uint256(q[i].bytes)
    <2> DEFINE u == q[i]
    <2>1. u \in Usages
      OBVIOUS
    <2>2. x[i] = [u EXCEPT !.id = strToHex(@), !.capture = ToHexString(@)]
      BY DEF StreamsToHex
    <2> HIDE DEF u, x
    <2>3. x[i].id = strToHex(u.id) /\ x[i].capture = ToHexString(u.capture) /\ x[i].bytes = u.bytes
      BY <2>1, <2>2 DEF Usages
    <2>4. hexToStr(x[i].id) = u.id
      BY <2>1, <2>3, TextIsRead DEF Usages
    <2>5. x[i].capture = ContractHexString(u.capture)
      BY <2>1, <2>3, FormattedAlike, ReportsAssumption DEF Usages, BigNumbers
    <2> QED BY <2>3, <2>4, <2>5 DEF PackStream, u
  <1> HIDE DEF x
  <1>3. [i \in DOMAIN x |-> PackStream(x[i])] =
          [i \in DOMAIN q |-> q[i].id \o ContractHexString(q[i].capture) \o Uint256(q[i].bytes)]
    BY <1>1, <1>2
  <1> QED BY <1>3 DEF x

LEMMA ConsumersPacked ==
    ASSUME NEW q \in Seq(Usages)
    PROVE  [i \in DOMAIN ConsumersToHex(q) |-> PackConsumer(ConsumersToHex(q)[i])] =
             [i \in DOMAIN q |-> q[i].id \o ContractHexString(q[i].capture) \o Uint256(q[i].bytes)]
  <1> DEFINE x == ConsumersToHex(q)
  <1>1. DOMAIN x = DOMAIN q
    BY DEF ConsumersToHex
  <1>2. ASSUME NEW i \in DOMAIN q
        PROVE  PackConsumer(x[i]) =
                 q[i].id \o ContractHexString(q[i].capture) \o Uint256(q[i].bytes)
    <2> DEFINE u == q[i]
    <2>1. u \in Usages
      OBVIOUS
    <2>2. x[i] = [u EXCEPT !.capture = ToHexString(@)]
      BY DEF ConsumersToHex
    <2> HIDE DEF u, x
    <2>3. x[i].id = u.id /\ x[i].capture = ToHexString(u.capture) /\ x[i].bytes = u.bytes
      BY <2>1, <2>2 DEF Usages
    <2>4. x[i].capture = ContractHexString(u.capture)
      BY <2>1, <2>3, FormattedAlike, ReportsAssumption DEF Usages, BigNumbers
    <2> QED BY <2>3, <2>4 DEF PackConsumer, u
  <1> HIDE DEF x
  <1>3. [i \in DOMAIN x |-> PackConsumer(x[i])] =
          [i \in DOMAIN q |-> q[i].id \o ContractHexString(q[i].capture) \o Uint256(q[i].bytes)]
    BY <1>1, <1>2
  <1> QED BY <1>3 DEF x

LEMMA DelegatesPacked ==
    ASSUME NEW entries \in Entries(Entries(BigNumbers))
    PROVE  [i \in DOMAIN EachValue(entries, NodesToHex) |->
               PackDelegate(EachValue(entries, NodesToHex)[i])] =
             [i \in DOMAIN entries |->
               entries[i].key
               \o FlattenSeq([j \in DOMAIN Keys(entries[i].value) |->
                      Keys(entries[i].value)[j]
                      \o ContractHexString(Values(entries[i].value)[j])])]
  <1> DEFINE x == EachValue(entries, NodesToHex)
             Nodes(e) == FlattenSeq([j \in DOMAIN Keys(e) |->
                                        Keys(e)[j] \o ContractHexString(Values(e)[j])])
  <1>1. DOMAIN x = DOMAIN entries
    BY DEF EachValue
  <1>2. ASSUME NEW i \in DOMAIN entries
        PROVE  PackDelegate(x[i]) = entries[i].key \o Nodes(entries[i].value)
    <2>1. x[i] = [key |-> entries[i].key, value |-> NodesToHex(entries[i].value)]
      BY DEF EachValue
    <2>2. entries[i].value \in Entries(BigNumbers)
      <3> DEFINE V == Entries(BigNumbers)
      <3>1. entries \in Seq([key : Texts, value : V])
        BY DEF Entries
      <3> HIDE DEF V
      <3>2. entries[i] \in [key : Texts, value : V]
        BY <3>1, EntryOfEntries
      <3> QED BY <3>2 DEF V
    <2>3. Pack(NodesToHex(entries[i].value), PackNode) = Nodes(entries[i].value)
      BY <2>2, NodesPacked
    <2>4. x[i].key = entries[i].key /\ x[i].value = NodesToHex(entries[i].value)
      BY <2>1
    <2> HIDE DEF x, Nodes
    <2>5. PackDelegate(x[i]) = x[i].key \o Pack(x[i].value, PackNode)
      BY DEF PackDelegate
    <2> QED BY <2>3, <2>4, <2>5
  <1> HIDE DEF x, Nodes
  <1>3. [i \in DOMAIN x |-> PackDelegate(x[i])] =
          [i \in DOMAIN entries |-> entries[i].key \o Nodes(entries[i].value)]
    BY <1>1, <1>2
  <1> QED BY <1>3 DEF x, Nodes

\* The hash of a report is the same in both forms.
LEMMA HashOfReport ==
    ASSUME NEW r \in PlainReports, NEW t
    PROVE  /\ toHash(r, t) = Packed(serialize(r)) \o PackTime(t)
           /\ toHash(serialize(r), t) = toHash(r, t)
  <1>1. r.s = FALSE /\ DOMAIN r = ReportFields /\ r = [f \in ReportFields |-> r[f]]
    BY PlainFields
  <1>2. serialize(r).s = TRUE
    BY <1>1, SerializedFields
  <1>3. Serialized(r) = serialize(r) /\ Serialized(serialize(r)) = serialize(r)
    BY <1>1, <1>2 DEF Serialized
  <1> QED BY <1>3 DEF toHash, Packed

\* The contract packs what the nodes packed, and the timestamp.
LEMMA ContractPacksAlike ==
    ASSUME NEW r \in PlainReports, NEW t
    PROVE  ContractHash(toContract(r), t) = Packed(serialize(r)) \o Uint256(t)
  <1> DEFINE x == serialize(r)
             c == toContract(r)
             Nodes(e) == FlattenSeq([j \in DOMAIN Keys(e) |->
                                        Keys(e)[j] \o ContractHexString(Values(e)[j])])
             Use(p) == p.id \o ContractHexString(p.capture) \o Uint256(p.bytes)
  <1>1. /\ DOMAIN r = ReportFields /\ r = [f \in ReportFields |-> r[f]]
        /\ r.s = FALSE /\ r.treasury \in BigNumbers
        /\ r.streams \in Seq(Usages) /\ r.consumers \in Seq(Usages)
        /\ r.nodes \in Entries(BigNumbers)
        /\ r.delegates \in Entries(Entries(BigNumbers))
    BY PlainFields
  <1>2. /\ x.id = r.id /\ x.height = r.height
        /\ x.treasury = ToHexString(r.treasury)
        /\ x.streams = StreamsToHex(r.streams)
        /\ x.consumers = ConsumersToHex(r.consumers)
        /\ x.nodes = NodesToHex(r.nodes)
        /\ x.delegates = EachValue(r.delegates, NodesToHex)
    BY <1>1, SerializedFields
  <1>3. Deserialized(r) = r
    BY <1>1 DEF Deserialized
  <1>4. /\ c.id = r.id /\ c.blockHeight = r.height
        /\ c.streams = r.streams /\ c.consumers = r.consumers
        /\ c.nodes = Keys(r.nodes) /\ c.nodeChanges = Values(r.nodes)
        /\ c.delegates = Keys(r.delegates)
        /\ c.delegateNodes = [i \in DOMAIN r.delegates |-> Keys(r.delegates[i].value)]
        /\ c.delegateNodeChanges = [i \in DOMAIN r.delegates |-> Values(r.delegates[i].value)]
        /\ c.treasurySupplyChange = r.treasury
    BY <1>3 DEF toContract
  <1> HIDE DEF x, c
  <1> DEFINE delegates == FlattenSeq([i \in DOMAIN c.delegates |->
                  c.delegates[i]
                  \o FlattenSeq([j \in DOMAIN c.delegateNodes[i] |->
                         c.delegateNodes[i][j]
                         \o ContractHexString(c.delegateNodeChanges[i][j])])])
  <1>5. Pack(x.streams, PackStream) = Pack(c.streams, Use)
    BY <1>1, <1>2, <1>4, StreamsPacked DEF Pack
  <1>6. Pack(x.consumers, PackConsumer) = Pack(c.consumers, Use)
    BY <1>1, <1>2, <1>4, ConsumersPacked DEF Pack
  <1>7. Pack(x.nodes, PackNode) =
          FlattenSeq([j \in DOMAIN c.nodes |-> c.nodes[j] \o ContractHexString(c.nodeChanges[j])])
    BY <1>1, <1>2, <1>4, NodesPacked
  <1>8. Pack(x.delegates, PackDelegate) = delegates
    <2> DEFINE d == r.delegates
    <2>1. [i \in DOMAIN x.delegates |-> PackDelegate(x.delegates[i])] =
            [i \in DOMAIN d |-> d[i].key \o Nodes(d[i].value)]
      BY <1>1, <1>2, DelegatesPacked
    <2>2. DOMAIN c.delegates = DOMAIN d /\ \A i \in DOMAIN d : c.delegates[i] = d[i].key
      BY <1>4 DEF Keys
    <2>3. \A i \in DOMAIN d : c.delegateNodes[i] = Keys(d[i].value)
                              /\ c.delegateNodeChanges[i] = Values(d[i].value)
      BY <1>4
    <2>4. [i \in DOMAIN c.delegates |->
              c.delegates[i]
              \o FlattenSeq([j \in DOMAIN c.delegateNodes[i] |->
                     c.delegateNodes[i][j] \o ContractHexString(c.delegateNodeChanges[i][j])])]
            = [i \in DOMAIN d |-> d[i].key \o Nodes(d[i].value)]
      <3> HIDE DEF d
      <3> QED BY <2>2, <2>3
    <2> HIDE DEF d
    <2> QED BY <2>1, <2>4 DEF Pack
  <1>9. x.treasury = ContractHexString(c.treasurySupplyChange)
    BY <1>1, <1>2, <1>4, FormattedAlike, ReportsAssumption DEF BigNumbers
  <1>10. ContractHash(c, t) =
           c.id \o Uint256(c.blockHeight)
           \o Pack(c.streams, Use)
           \o Pack(c.consumers, Use)
           \o FlattenSeq([j \in DOMAIN c.nodes |-> c.nodes[j] \o ContractHexString(c.nodeChanges[j])])
           \o delegates
           \o ContractHexString(c.treasurySupplyChange)
           \o Uint256(t)
    BY DEF ContractHash
  <1> HIDE DEF delegates, Use
  <1>11. ContractHash(c, t) = Packed(x) \o Uint256(t)
    BY <1>2, <1>4, <1>5, <1>6, <1>7, <1>8, <1>9, <1>10, Zenon DEF Packed
  <1> QED BY <1>11 DEF x, c


(***************************************************************************)
(* A timestamp of 0, which only the contract packs.                        *)
(***************************************************************************)

LEMMA FlattenType ==
    ASSUME NEW S, NEW seqs \in Seq(Seq(S))
    PROVE  FlattenSeq(seqs) \in Seq(S)
  <1> DEFINE n == Len(seqs)
             D == Seq(S)
             Stops == {0, 1}
             base == [i \in Nat |-> IF i \in 1 .. n THEN seqs[i] ELSE <<>>]
             before == [i \in Nat |-> IF i = 0 THEN 0 ELSE i - 1]
             advance == [x \in Nat \X D |-> x[2] \o base[x[1]]]
             Flattens(g) == g = [i \in 1 .. n |-> IF i = 1 THEN seqs[i] ELSE g[i - 1] \o seqs[i]]
             flatten == CHOOSE g : Flattens(g)
  <1>1. n \in Nat /\ \A i \in 1 .. n : seqs[i] \in D
    <2> HIDE DEF D
    <2>1. seqs \in Seq(D)
      BY DEF D
    <2> QED BY <2>1
  <1>2. base \in [Nat -> D] /\ before \in [Nat -> Nat]
    <2>1. <<>> \in D
      OBVIOUS
    <2> HIDE DEF D, n
    <2> QED BY <1>1, <2>1
  <1>3. advance \in [Nat \X D -> D]
    <2>1. ASSUME NEW i \in Nat, NEW d \in D PROVE d \o base[i] \in D
      <3>1. base[i] \in D
        <4> HIDE DEF base, D
        <4> QED BY <1>2
      <3> HIDE DEF base
      <3> QED BY <3>1, ConcatProperties
    <2> HIDE DEF base, D
    <2> QED BY <2>1
  <1>4. \A i \in Nat : i \in Stops \/ before[i] < i
    OBVIOUS
  <1>5. PICK f : NatRecurs(f, D, Stops, base, before, advance)
    <2> HIDE DEF D, Stops, base, before, advance
    <2> QED BY <1>2, <1>3, <1>4, NatRecursion
  <1>6. f \in [Nat -> D]
    BY <1>5 DEF NatRecurs
  <1> DEFINE g == [i \in 1 .. n |-> f[i]]
  <1>7. Flattens(g)
    <2>1. ASSUME NEW i \in 1 .. n
          PROVE  f[i] = IF i = 1 THEN seqs[i] ELSE f[i - 1] \o seqs[i]
      <3>1. i \in Nat /\ i # 0 /\ (i \in Stops <=> i = 1) /\ before[i] = i - 1 /\ i - 1 \in Nat
        BY <1>1
      <3>2. base[i] = seqs[i]
        BY <3>1
      <3>3. advance[<<i, f[before[i]]>>] = f[i - 1] \o seqs[i]
        <4>1. f[i - 1] \in D
          <5> HIDE DEF D
          <5> QED BY <1>6, <3>1
        <4> HIDE DEF D, base, before
        <4> QED BY <3>1, <3>2, <4>1
      <3> HIDE DEF D, Stops, base, before, advance
      <3>4. f[i] = IF i \in Stops THEN base[i] ELSE advance[<<i, f[before[i]]>>]
        BY <1>5, <3>1 DEF NatRecurs
      <3> QED BY <3>1, <3>2, <3>3, <3>4
    <2>2. ASSUME NEW i \in 1 .. n
          PROVE  g[i] = IF i = 1 THEN seqs[i] ELSE g[i - 1] \o seqs[i]
      <3>1. g[i] = f[i] /\ (i # 1 => g[i - 1] = f[i - 1])
        BY <1>1
      <3> HIDE DEF g
      <3> QED BY <2>1, <3>1
    <2>3. g = [i \in 1 .. n |-> g[i]]
      OBVIOUS
    <2> HIDE DEF g, n
    <2> QED BY <2>2, <2>3
  <1>8. Flattens(flatten)
    <2> HIDE DEF Flattens, g
    <2> QED BY <1>7
  <1>9. \A i \in 1 .. n : flatten[i] \in D
    <2> DEFINE T == {i \in Nat : i \in 1 .. n => flatten[i] \in D}
    <2>1. 0 \in T
      OBVIOUS
    <2>2. ASSUME NEW i \in Nat, i \in T PROVE i + 1 \in T
      <3> SUFFICES ASSUME i + 1 \in 1 .. n PROVE flatten[i + 1] \in D
        OBVIOUS
      <3> HIDE DEF flatten
      <3>1. flatten[i + 1] = IF i + 1 = 1 THEN seqs[i + 1]
                             ELSE flatten[(i + 1) - 1] \o seqs[i + 1]
        <4> HIDE DEF n
        <4> QED BY <1>8
      <3>2. seqs[i + 1] \in D
        <4> HIDE DEF D, n
        <4> QED BY <1>1
      <3>3. CASE i + 1 = 1
        <4> HIDE DEF D
        <4> QED BY <3>1, <3>2, <3>3
      <3>4. CASE i + 1 # 1
        <4>1. (i + 1) - 1 = i /\ i \in 1 .. n
          BY <1>1, <3>4
        <4>2. flatten[i] \in D
          <5> HIDE DEF D, n
          <5> QED BY <2>2, <4>1
        <4>3. flatten[i] \o seqs[i + 1] \in D
          BY <3>2, <4>2, ConcatProperties
        <4> HIDE DEF D
        <4> QED BY <3>1, <3>4, <4>1, <4>3
      <3> QED BY <3>3, <3>4
    <2> HIDE DEF T
    <2>3. Nat \subseteq T
      BY <2>1, <2>2, NatSetInduction
    <2> HIDE DEF flatten, D
    <2> QED BY <1>1, <2>3 DEF T
  <1>10. FlattenSeq(seqs) = IF n = 0 THEN seqs ELSE flatten[n]
    BY DEF FlattenSeq
  <1> HIDE DEF flatten
  <1>11. CASE n = 0
    <2>1. FlattenSeq(seqs) = seqs /\ seqs = <<>>
      BY <1>10, <1>11, EmptySeq
    <2> QED BY <2>1
  <1>12. CASE n # 0
    <2>1. n \in 1 .. n /\ FlattenSeq(seqs) = flatten[n]
      BY <1>1, <1>10, <1>12
    <2> HIDE DEF n
    <2> QED BY <1>9, <2>1
  <1> QED BY <1>11, <1>12


\* What is packed before the treasury's change.
PackedHead(x) ==
    x.id \o Uint256(x.height)
    \o Pack(x.streams, PackStream)
    \o Pack(x.consumers, PackConsumer)
    \o Pack(x.nodes, PackNode)
    \o Pack(x.delegates, PackDelegate)

LEMMA CharsOfTexts ==
    /\ Texts \subseteq Seq(Chars)
    /\ \A b \in BigNumbers : ContractHexString(b) \in Seq(Chars) /\ ToHexString(b) \in Seq(Chars)
    /\ \A n \in Nat : Uint256(n) \in Seq(Chars)
  <1>1. Texts \subseteq Seq(Chars)
    <2>1. STRING \subseteq Chars
      BY DEF Chars
    <2> QED BY <2>1, SeqMonotonic DEF Texts
  <1>2. ASSUME NEW b \in BigNumbers
        PROVE  ContractHexString(b) \in Seq(Chars) /\ ToHexString(b) \in Seq(Chars)
    <2>1. PICK n \in Int : b = BigNumber(n)
      BY ReportsAssumption DEF BigNumbers
    <2> QED BY <2>1, Formatted, FormattedAlike
  <1>3. ASSUME NEW n \in Nat PROVE Uint256(n) \in Seq(Chars)
    <2>1. ToString(n) \in Chars
      BY DEF Chars
    <2> QED BY <2>1 DEF Uint256
  <1> QED BY <1>1, <1>2, <1>3

LEMMA UsagesPackedType ==
    ASSUME NEW q \in Seq(Usages)
    PROVE  FlattenSeq([i \in DOMAIN q |->
               q[i].id \o ContractHexString(q[i].capture) \o Uint256(q[i].bytes)]) \in Seq(Chars)
  <1> DEFINE D == Seq(Chars)
             F(u) == u.id \o ContractHexString(u.capture) \o Uint256(u.bytes)
             seqs == [i \in DOMAIN q |-> F(q[i])]
  <1>1. ASSUME NEW u \in Usages PROVE F(u) \in D
    <2>1. u.id \in D /\ ContractHexString(u.capture) \in D /\ Uint256(u.bytes) \in D
      <3>1. u.id \in Texts /\ u.capture \in BigNumbers /\ u.bytes \in Nat
        BY DEF Usages
      <3> HIDE DEF D
      <3> QED BY <3>1, CharsOfTexts DEF D
    <2>2. u.id \o ContractHexString(u.capture) \in D
      BY <2>1, ConcatProperties
    <2> QED BY <2>1, <2>2, ConcatProperties
  <1>2. seqs \in Seq(D)
    <2>1. \A i \in DOMAIN q : q[i] \in Usages
      OBVIOUS
    <2>2. DOMAIN q = 1 .. Len(q) /\ Len(q) \in Nat
      BY LenProperties
    <2> HIDE DEF D, F
    <2>3. seqs \in [1 .. Len(q) -> D]
      BY <1>1, <2>1, <2>2
    <2> QED BY <2>2, <2>3, IsASeq
  <1> HIDE DEF seqs
  <1>3. FlattenSeq(seqs) \in Seq(Chars)
    BY <1>2, FlattenType
  <1> QED BY <1>3 DEF seqs

LEMMA NodesPackedType ==
    ASSUME NEW entries \in Entries(BigNumbers)
    PROVE  Pack(NodesToHex(entries), PackNode) \in Seq(Chars)
  <1> DEFINE D == Seq(Chars)
             x == NodesToHex(entries)
             seqs == [i \in DOMAIN x |-> PackNode(x[i])]
  <1>1. DOMAIN x = 1 .. Len(entries) /\ Len(entries) \in Nat
    BY LenProperties DEF NodesToHex, EachValue, Entries
  <1>2. ASSUME NEW i \in DOMAIN x PROVE PackNode(x[i]) \in D
    <2>1. i \in DOMAIN entries
      BY DEF NodesToHex, EachValue
    <2>2. entries[i].key \in Texts /\ entries[i].value \in BigNumbers
      BY <2>1, EntryOfEntries DEF Entries
    <2>3. entries[i].key \in D /\ ToHexString(entries[i].value) \in D
      BY <2>2, CharsOfTexts
    <2>4. x[i].key = entries[i].key /\ x[i].value = ToHexString(entries[i].value)
      BY <2>1 DEF NodesToHex, EachValue
    <2> HIDE DEF x
    <2> QED BY <2>3, <2>4, ConcatProperties DEF PackNode
  <1> HIDE DEF x, D
  <1>3. seqs \in [1 .. Len(entries) -> D]
    BY <1>1, <1>2
  <1>4. seqs \in Seq(Seq(Chars))
    BY <1>1, <1>3, IsASeq DEF D
  <1> HIDE DEF seqs
  <1>5. FlattenSeq(seqs) \in Seq(Chars)
    BY <1>4, FlattenType
  <1> QED BY <1>5 DEF seqs, x, Pack

LEMMA DelegatesPackedType ==
    ASSUME NEW entries \in Entries(Entries(BigNumbers))
    PROVE  Pack(EachValue(entries, NodesToHex), PackDelegate) \in Seq(Chars)
  <1> DEFINE D == Seq(Chars)
             V == Entries(BigNumbers)
             x == EachValue(entries, NodesToHex)
             seqs == [i \in DOMAIN x |-> PackDelegate(x[i])]
  <1>1. DOMAIN x = 1 .. Len(entries) /\ Len(entries) \in Nat
    BY LenProperties DEF EachValue, Entries
  <1>2. ASSUME NEW i \in DOMAIN x PROVE PackDelegate(x[i]) \in D
    <2>1. i \in DOMAIN entries
      BY DEF EachValue
    <2>2. entries[i] \in [key : Texts, value : V]
      <3>1. entries \in Seq([key : Texts, value : V])
        BY DEF Entries
      <3> HIDE DEF V
      <3> QED BY <2>1, <3>1, EntryOfEntries
    <2>3. entries[i].key \in Texts /\ entries[i].value \in V
      <3> HIDE DEF V
      <3> QED BY <2>2
    <2>4. entries[i].key \in D /\ Pack(NodesToHex(entries[i].value), PackNode) \in D
      BY <2>3, CharsOfTexts, NodesPackedType
    <2>5. x[i].key = entries[i].key /\ x[i].value = NodesToHex(entries[i].value)
      BY <2>1 DEF EachValue
    <2> HIDE DEF x
    <2>6. PackDelegate(x[i]) = entries[i].key \o Pack(NodesToHex(entries[i].value), PackNode)
      BY <2>5 DEF PackDelegate
    <2> QED BY <2>4, <2>6, ConcatProperties
  <1> HIDE DEF x, D
  <1>3. seqs \in [1 .. Len(entries) -> D]
    BY <1>1, <1>2
  <1>4. seqs \in Seq(Seq(Chars))
    BY <1>1, <1>3, IsASeq DEF D
  <1> HIDE DEF seqs
  <1>5. FlattenSeq(seqs) \in Seq(Chars)
    BY <1>4, FlattenType
  <1> QED BY <1>5 DEF seqs, x, Pack

LEMMA PackedType ==
    ASSUME NEW r \in PlainReports
    PROVE  LET x == serialize(r)
           IN /\ Packed(x) = PackedHead(x) \o x.treasury
              /\ PackedHead(x) \in Seq(Chars) /\ x.treasury \in Seq(Chars)
              /\ Packed(x) \in Seq(Chars)
              /\ \E n \in Int : x.treasury = SignOf(n) \o (<<"0x">> \o Bytes16(n))
  <1> DEFINE x == serialize(r)
             D == Seq(Chars)
  <1>1. /\ DOMAIN r = ReportFields /\ r = [f \in ReportFields |-> r[f]]
        /\ r.id \in Texts /\ r.height \in Nat
        /\ r.s = FALSE /\ r.treasury \in BigNumbers
        /\ r.streams \in Seq(Usages) /\ r.consumers \in Seq(Usages)
        /\ r.nodes \in Entries(BigNumbers)
        /\ r.delegates \in Entries(Entries(BigNumbers))
    BY PlainFields
  <1>2. /\ x.id = r.id /\ x.height = r.height
        /\ x.treasury = ToHexString(r.treasury)
        /\ x.streams = StreamsToHex(r.streams)
        /\ x.consumers = ConsumersToHex(r.consumers)
        /\ x.nodes = NodesToHex(r.nodes)
        /\ x.delegates = EachValue(r.delegates, NodesToHex)
    BY <1>1, SerializedFields
  <1> HIDE DEF x
  <1>3. x.id \in D /\ Uint256(x.height) \in D /\ x.treasury \in D
    BY <1>1, <1>2, CharsOfTexts
  <1>4. Pack(x.streams, PackStream) \in D
    <2> DEFINE q == r.streams
    <2>1. x.streams = StreamsToHex(q) /\ q \in Seq(Usages)
      BY <1>1, <1>2
    <2> HIDE DEF q
    <2>2. FlattenSeq([i \in DOMAIN StreamsToHex(q) |-> PackStream(StreamsToHex(q)[i])]) \in D
      BY <2>1, StreamsPacked, UsagesPackedType
    <2> QED BY <2>1, <2>2 DEF Pack
  <1>5. Pack(x.consumers, PackConsumer) \in D
    <2> DEFINE q == r.consumers
    <2>1. x.consumers = ConsumersToHex(q) /\ q \in Seq(Usages)
      BY <1>1, <1>2
    <2> HIDE DEF q
    <2>2. FlattenSeq([i \in DOMAIN ConsumersToHex(q) |-> PackConsumer(ConsumersToHex(q)[i])]) \in D
      BY <2>1, ConsumersPacked, UsagesPackedType
    <2> QED BY <2>1, <2>2 DEF Pack
  <1>6. Pack(x.nodes, PackNode) \in D
    BY <1>1, <1>2, NodesPackedType
  <1>7. Pack(x.delegates, PackDelegate) \in D
    BY <1>1, <1>2, DelegatesPackedType
  <1>8. PackedHead(x) \in D
    <2>1. \A a, b \in D : a \o b \in D
      BY ConcatProperties
    <2> HIDE DEF D
    <2>2. x.id \o Uint256(x.height) \in D
      BY <1>3, <2>1
    <2>3. x.id \o Uint256(x.height) \o Pack(x.streams, PackStream) \in D
      BY <1>4, <2>1, <2>2
    <2>4. x.id \o Uint256(x.height) \o Pack(x.streams, PackStream)
            \o Pack(x.consumers, PackConsumer) \in D
      BY <1>5, <2>1, <2>3
    <2>5. x.id \o Uint256(x.height) \o Pack(x.streams, PackStream)
            \o Pack(x.consumers, PackConsumer) \o Pack(x.nodes, PackNode) \in D
      BY <1>6, <2>1, <2>4
    <2> QED BY <1>7, <2>1, <2>5 DEF PackedHead
  <1>9. Packed(x) = PackedHead(x) \o x.treasury
    BY DEF Packed, PackedHead
  <1>10. Packed(x) \in D
    BY <1>3, <1>8, <1>9, ConcatProperties
  <1>11. \E n \in Int : x.treasury = SignOf(n) \o (<<"0x">> \o Bytes16(n))
    BY <1>1, <1>2, Formatted, ReportsAssumption DEF BigNumbers
  <1> QED BY <1>3, <1>8, <1>9, <1>10, <1>11 DEF x


\* Where the digits of the last amount begin.
PrefixAt(u, at) ==
    /\ u \in Seq(Chars) /\ Len(u) \in Nat /\ at \in 1 .. Len(u)
    /\ u[at] = "0x"
    /\ \A i \in at + 1 .. Len(u) : u[i] \in DigitSet
    /\ (Len(u) - at) % 2 = 0 /\ Len(u) - at >= 2

LEMMA LastPrefix ==
    ASSUME NEW h \in Seq(Chars), NEW n \in Int
    PROVE  \E at \in Nat : PrefixAt(h \o (SignOf(n) \o (<<"0x">> \o Bytes16(n))), at)
  <1> DEFINE y == <<"0x">> \o Bytes16(n)
             g == h \o SignOf(n)
             u == h \o (SignOf(n) \o y)
             last == LastOf(n)
  <1>1. y \in Seq(Chars) /\ SignOf(n) \in Seq(Chars)
    BY Formatted
  <1>2. /\ Bytes16(n) \in Seq(DigitSet) /\ Len(Bytes16(n)) = last /\ last \in Nat
        /\ last >= 2 /\ last % 2 = 0
    BY ContractDigits
  <1>3. /\ Len(y) = last + 1 /\ y[1] = "0x"
        /\ \A i \in 1 .. last : y[i + 1] = Bytes16(n)[i]
    <2>1. "0x" \in Chars /\ Bytes16(n) \in Seq(Chars)
      <3>1. DigitSet \subseteq Chars /\ "0x" \in Chars
        BY DEF Chars
      <3> QED BY <1>2, <3>1, SeqMonotonic
    <2> QED BY <1>2, <2>1, OneBefore
  <1>4. ASSUME NEW i \in 2 .. last + 1 PROVE y[i] \in DigitSet
    <2> DEFINE j == i - 1
    <2>1. j \in 1 .. last /\ i = j + 1
      BY <1>2
    <2> HIDE DEF j, y, last
    <2>2. Bytes16(n)[j] \in DigitSet
      BY <1>2, <2>1
    <2> QED BY <1>3, <2>1, <2>2
  <1> HIDE DEF y, last
  <1>5. g \in Seq(Chars) /\ u = g \o y
    <2> DEFINE sign == SignOf(n)
    <2> HIDE DEF sign
    <2>1. sign \in Seq(Chars) /\ y \in Seq(Chars)
      BY <1>1 DEF sign
    <2>2. h \o sign \in Seq(Chars) /\ h \o (sign \o y) = (h \o sign) \o y
      BY <2>1, ConcatProperties, ConcatAssociative
    <2> QED BY <2>2 DEF sign
  <1> HIDE DEF g, u
  <1>6. /\ u \in Seq(Chars) /\ Len(u) = Len(g) + Len(y)
        /\ \A i \in 1 .. Len(g) + Len(y) : u[i] = IF i <= Len(g) THEN g[i] ELSE y[i - Len(g)]
    BY <1>1, <1>5, ConcatProperties
  <1> DEFINE at == Len(g) + 1
  <1>7. Len(g) \in Nat
    BY <1>5, LenProperties
  <1>8. Len(u) = Len(g) + last + 1 /\ Len(u) \in Nat /\ Len(u) - at = last
    BY <1>2, <1>3, <1>6, <1>7
  <1>9. at \in 1 .. Len(u)
    BY <1>2, <1>7, <1>8
  <1>10. u[at] = "0x"
    <2>1. at \in 1 .. Len(g) + Len(y) /\ ~ (at <= Len(g)) /\ at - Len(g) = 1
      BY <1>2, <1>3, <1>7
    <2> QED BY <1>3, <1>6, <2>1
  <1>11. ASSUME NEW i \in at + 1 .. Len(u) PROVE u[i] \in DigitSet
    <2>1. /\ i \in 1 .. Len(g) + Len(y) /\ ~ (i <= Len(g))
          /\ i - Len(g) \in 2 .. last + 1
      BY <1>2, <1>3, <1>7, <1>8
    <2> QED BY <1>4, <1>6, <2>1
  <1>12. PrefixAt(u, at)
    <2> HIDE DEF at
    <2> QED BY <1>2, <1>6, <1>8, <1>9, <1>10, <1>11 DEF PrefixAt
  <1>13. at \in Nat
    BY <1>7
  <1> HIDE DEF at
  <1> QED BY <1>12, <1>13 DEF u, y

\* One character more never ends alike: the digits would be odd.
LEMMA EndsApart ==
    ASSUME NEW u, NEW w, NEW c \in Chars, NEW at \in Nat, NEW before \in Nat,
           PrefixAt(u, at), PrefixAt(w, before)
    PROVE  u # w \o <<c>>
  <1> DEFINE v == w \o <<c>>
  <1> SUFFICES ASSUME u = v PROVE FALSE
    OBVIOUS
  <1>1. /\ Len(v) = Len(w) + 1
        /\ \A i \in 1 .. Len(w) : v[i] = w[i]
    BY OneMore DEF PrefixAt
  <1> HIDE DEF v
  <1>2. "0x" \notin DigitSet
    BY DEF DigitSet
  <1>3. /\ Len(u) \in Nat /\ at \in 1 .. Len(u) /\ u[at] = "0x"
        /\ \A i \in at + 1 .. Len(u) : u[i] \in DigitSet
        /\ (Len(u) - at) % 2 = 0 /\ Len(u) - at >= 2
    BY DEF PrefixAt
  <1>4. /\ Len(w) \in Nat /\ before \in 1 .. Len(w) /\ w[before] = "0x"
        /\ \A i \in before + 1 .. Len(w) : w[i] \in DigitSet
        /\ (Len(w) - before) % 2 = 0
    BY DEF PrefixAt
  <1> DEFINE L == Len(w)
  <1>5. L \in Nat /\ Len(u) = L + 1
    BY <1>1, <1>4
  <1> HIDE DEF L
  <1>6. at # before
    <2>1. (L - before) % 2 = 0 /\ (L + 1 - at) % 2 = 0 /\ before \in 1 .. L /\ at \in 1 .. L + 1
      BY <1>3, <1>4, <1>5 DEF L
    <2> QED BY <1>5, <2>1
  <1>7. CASE before > at
    <2>1. before \in at + 1 .. Len(u) /\ before \in 1 .. Len(w)
      BY <1>3, <1>4, <1>5, <1>7 DEF L
    <2>2. u[before] = "0x"
      BY <1>1, <1>4, <2>1
    <2> QED BY <1>2, <1>3, <2>1, <2>2
  <1>8. CASE before < at
    <2>1. at \in before + 1 .. Len(w) /\ at \in 1 .. Len(w)
      BY <1>3, <1>4, <1>5, <1>8 DEF L
    <2>2. w[at] = "0x"
      BY <1>1, <1>3, <2>1
    <2> QED BY <1>2, <1>4, <2>1, <2>2
  <1> QED BY <1>6, <1>7, <1>8

\* Without a timestamp the hashes of the nodes and of the contract differ.
LEMMA NoTimestamp ==
    ASSUME NEW r1 \in PlainReports, NEW r2 \in PlainReports
    PROVE  ContractHash(toContract(r2), 0) # toHash(r1, 0)
  <1> DEFINE u == Packed(serialize(r1))
             w == Packed(serialize(r2))
  <1>1. /\ \E at \in Nat : PrefixAt(u, at) /\ u \in Seq(Chars)
        /\ \E at \in Nat : PrefixAt(w, at) /\ w \in Seq(Chars)
    <2>1. ASSUME NEW r \in PlainReports
          PROVE  /\ Packed(serialize(r)) \in Seq(Chars)
                 /\ \E at \in Nat : PrefixAt(Packed(serialize(r)), at)
      <3> DEFINE x == serialize(r)
      <3>1. /\ Packed(x) = PackedHead(x) \o x.treasury /\ Packed(x) \in Seq(Chars)
            /\ PackedHead(x) \in Seq(Chars)
            /\ \E n \in Int : x.treasury = SignOf(n) \o (<<"0x">> \o Bytes16(n))
        BY PackedType
      <3> HIDE DEF x
      <3>2. PICK n \in Int : x.treasury = SignOf(n) \o (<<"0x">> \o Bytes16(n))
        BY <3>1
      <3>3. \E at \in Nat : PrefixAt(PackedHead(x) \o (SignOf(n) \o (<<"0x">> \o Bytes16(n))), at)
        BY <3>1, <3>2, LastPrefix
      <3> QED BY <3>1, <3>2, <3>3 DEF x
    <2> QED BY <2>1
  <1>2. toHash(r1, 0) = u \o PackTime(0) /\ ContractHash(toContract(r2), 0) = w \o Uint256(0)
    BY HashOfReport, ContractPacksAlike
  <1>3. PackTime(0) = <<>> /\ Uint256(0) = <<ToString(0)>> /\ ToString(0) \in Chars
    BY DEF PackTime, Uint256, Chars
  <1> HIDE DEF u, w
  <1>4. u \o <<>> = u
    BY <1>1, ConcatEmptySeq
  <1>5. u # w \o <<ToString(0)>>
    BY <1>1, <1>3, EndsApart
  <1> QED BY <1>2, <1>3, <1>4, <1>5

\* Two reports have the same hash with a timestamp when they have it without.
LEMMA TimestampAdds ==
    ASSUME NEW r1 \in PlainReports, NEW r2 \in PlainReports, NEW t \in Nat, t # 0
    PROVE  ContractHash(toContract(r2), t) = toHash(r1, t) <=> toHash(r1, 0) = toHash(r2, 0)
  <1> DEFINE u == Packed(serialize(r1))
             w == Packed(serialize(r2))
             d == Uint256(t)
  <1>1. /\ toHash(r1, t) = u \o d /\ ContractHash(toContract(r2), t) = w \o d
        /\ toHash(r1, 0) = u \o <<>> /\ toHash(r2, 0) = w \o <<>>
    BY HashOfReport, ContractPacksAlike DEF PackTime
  <1>2. u \in Seq(Chars) /\ w \in Seq(Chars) /\ d \in Seq(Chars)
    BY PackedType, CharsOfTexts
  <1> HIDE DEF u, w, d
  <1>3. u \o <<>> = u /\ w \o <<>> = w
    BY <1>2, ConcatEmptySeq
  <1>4. w \o d = u \o d <=> w = u
    BY <1>2, ConcatSimplifications
  <1> QED BY <1>1, <1>3, <1>4


(***************************************************************************)
(* The reports of the nodes.                                               *)
(***************************************************************************)

ValidReports == {r \in Reports : r.v = V1}
FormsOf(r) == {r, serialize(r)}

\* What a node holds is a form of the report it goes back to, and so is the JSON;
\* a proof is of the hash of its report, and the verdict of that of the contract.
ReportsInv ==
    /\ DOMAIN copies = ReportNodes /\ DOMAIN builtFrom = ReportNodes
    /\ \A n \in ReportNodes :
          Holds(n) => builtFrom[n] \in ValidReports /\ copies[n] \in FormsOf(builtFrom[n])
    /\ wire # NoJSON => wire.of \in ValidReports /\ wire.json = serialize(wire.of)
    /\ \A p \in proofs :
          /\ p.of \in ValidReports /\ p.timestamp \in Timestamps
          /\ p.toth = toHash(p.of, p.timestamp)
    /\ outcome # Pending =>
          /\ outcome.of \in ValidReports
          /\ outcome.verified =
               {p \in proofs : ContractHash(toContract(outcome.of), p.timestamp) = p.toth}

LEMMA FormsOfReport ==
    ASSUME NEW r \in ValidReports
    PROVE  /\ r \in PlainReports /\ r.s = FALSE /\ r.v = V1
           /\ serialize(r).s = TRUE /\ serialize(r).v = V1
           /\ deserialize(serialize(r)) = r
           /\ \A c \in FormsOf(r) :
                /\ toJSON(c) = serialize(r)
                /\ toContract(c) = toContract(r)
                /\ \A t : toHash(c, t) = toHash(r, t)
  <1>1. r \in PlainReports /\ r.v = V1
    BY ReportsAssumption DEF ValidReports
  <1>2. r.s = FALSE /\ DOMAIN r = ReportFields /\ r = [f \in ReportFields |-> r[f]]
    BY <1>1, PlainFields
  <1>3. serialize(r).s = TRUE /\ serialize(r).v = V1
    BY <1>2, SerializedFields
  <1>4. deserialize(serialize(r)) = r
    BY <1>1, ReportsAreRead
  <1>5. ASSUME NEW c \in FormsOf(r)
        PROVE  /\ toJSON(c) = serialize(r)
               /\ toContract(c) = toContract(r)
               /\ \A t : toHash(c, t) = toHash(r, t)
    <2>1. c = r \/ c = serialize(r)
      BY DEF FormsOf
    <2>2. toJSON(c) = serialize(r)
      BY <1>2, <1>3, <2>1 DEF toJSON, Serialized
    <2>3. Deserialized(c) = r /\ Deserialized(r) = r
      BY <1>2, <1>3, <1>4, <2>1 DEF Deserialized
    <2>4. toContract(c) = toContract(r)
      BY <2>3 DEF toContract
    <2>5. \A t : toHash(c, t) = toHash(r, t)
      BY <1>1, <2>1, HashOfReport
    <2> QED BY <2>2, <2>4, <2>5
  <1> QED BY <1>1, <1>2, <1>3, <1>4, <1>5

LEMMA ReportsInitially == ReportsInit => ReportsInv
  <1> SUFFICES ASSUME ReportsInit PROVE ReportsInv
    OBVIOUS
  <1>1. \A n \in ReportNodes : ~Holds(n)
    BY DEF ReportsInit, Holds
  <1> QED BY <1>1 DEF ReportsInit, ReportsInv

LEMMA CopyKeeps ==
    ASSUME ReportsInv, Underway, NEW n \in ReportNodes,
           NEW of \in ValidReports, NEW c \in FormsOf(of),
           copies' = [copies EXCEPT ![n] = c], builtFrom'[n] = of,
           builtFrom' \in {builtFrom, [builtFrom EXCEPT ![n] = of]},
           UNCHANGED <<wire, proofs, outcome>>
    PROVE  ReportsInv'
  <1>1. ASSUME NEW m \in ReportNodes, Holds(m)'
        PROVE  builtFrom'[m] \in ValidReports /\ copies'[m] \in FormsOf(builtFrom'[m])
    <2>1. CASE m = n
      BY <2>1 DEF ReportsInv
    <2>2. CASE m # n
      BY <1>1, <2>2 DEF ReportsInv, Holds
    <2> QED BY <2>1, <2>2
  <1>2. DOMAIN copies' = ReportNodes /\ DOMAIN builtFrom' = ReportNodes
    BY DEF ReportsInv
  <1> QED BY <1>1, <1>2 DEF ReportsInv, Underway

LEMMA ReportsStep == ReportsInv /\ [ReportsNext]_reportVars => ReportsInv'
  <1> SUFFICES ASSUME ReportsInv, [ReportsNext]_reportVars PROVE ReportsInv'
    OBVIOUS
  <1>1. CASE UNCHANGED reportVars
    BY <1>1 DEF reportVars, ReportsInv, Holds
  <1>2. ASSUME NEW n \in ReportNodes, NEW r \in Reports, BuildReport(n, r) PROVE ReportsInv'
    <2>1. r \in ValidReports /\ r \in FormsOf(r)
      BY <1>2 DEF BuildReport, IsValidReport, ValidReports, FormsOf
    <2>2. builtFrom'[n] = r
      BY <1>2 DEF BuildReport, ReportsInv
    <2> QED BY <1>2, <2>1, <2>2, CopyKeeps DEF BuildReport
  <1>3. ASSUME NEW n \in ReportNodes, Serialize(n) PROVE ReportsInv'
    <2>1. builtFrom[n] \in ValidReports /\ copies[n] \in FormsOf(builtFrom[n])
      BY <1>3 DEF Serialize, ReportsInv
    <2>2. copies[n] = builtFrom[n]
      BY <1>3, <2>1, FormsOfReport DEF Serialize, FormsOf
    <2>3. serialize(copies[n]) \in FormsOf(builtFrom[n])
      BY <2>2 DEF FormsOf
    <2>4. builtFrom' = builtFrom
      BY <1>3 DEF Serialize
    <2> QED BY <1>3, <2>1, <2>3, <2>4, CopyKeeps DEF Serialize
  <1>4. ASSUME NEW n \in ReportNodes, Deserialize(n) PROVE ReportsInv'
    <2>1. builtFrom[n] \in ValidReports /\ copies[n] \in FormsOf(builtFrom[n])
      BY <1>4 DEF Deserialize, ReportsInv
    <2>2. copies[n] = serialize(builtFrom[n])
      BY <1>4, <2>1, FormsOfReport DEF Deserialize, FormsOf
    <2>3. deserialize(copies[n]) \in FormsOf(builtFrom[n])
      BY <2>1, <2>2, FormsOfReport DEF FormsOf
    <2>4. builtFrom' = builtFrom
      BY <1>4 DEF Deserialize
    <2> QED BY <1>4, <2>1, <2>3, <2>4, CopyKeeps DEF Deserialize
  <1>5. ASSUME NEW n \in ReportNodes, PublishReport(n) PROVE ReportsInv'
    <2>1. builtFrom[n] \in ValidReports /\ copies[n] \in FormsOf(builtFrom[n])
      BY <1>5 DEF PublishReport, ReportsInv
    <2>2. wire' = [of |-> builtFrom[n], json |-> serialize(builtFrom[n])]
      BY <1>5, <2>1, FormsOfReport DEF PublishReport
    <2>3. wire'.of \in ValidReports /\ wire'.json = serialize(wire'.of)
      BY <2>1, <2>2
    <2>4. UNCHANGED <<copies, builtFrom, proofs, outcome>>
      BY <1>5 DEF PublishReport
    <2> QED BY <2>3, <2>4 DEF ReportsInv, Holds
  <1>6. ASSUME NEW n \in ReportNodes, TakeReport(n) PROVE ReportsInv'
    <2>1. wire.of \in ValidReports /\ wire.json = serialize(wire.of)
      BY <1>6 DEF TakeReport, ReportsInv
    <2>2. wire.json \in FormsOf(wire.of)
      BY <2>1 DEF FormsOf
    <2>3. builtFrom'[n] = wire.of
      BY <1>6 DEF TakeReport, ReportsInv
    <2> QED BY <1>6, <2>1, <2>2, <2>3, CopyKeeps DEF TakeReport
  <1>7. ASSUME NEW n \in ReportNodes, NEW t \in Timestamps, toProof(n, t) PROVE ReportsInv'
    <2> DEFINE new == [address |-> n, timestamp |-> t, of |-> builtFrom[n],
                       hash |-> toHash(copies[n], 0), toth |-> toHash(copies[n], t)]
    <2>1. builtFrom[n] \in ValidReports /\ copies[n] \in FormsOf(builtFrom[n])
      BY <1>7 DEF toProof, ReportsInv
    <2>2. toHash(copies[n], t) = toHash(builtFrom[n], t)
      BY <2>1, FormsOfReport
    <2>3. /\ new.of \in ValidReports /\ new.timestamp \in Timestamps
          /\ new.toth = toHash(new.of, new.timestamp)
      BY <2>1, <2>2
    <2>4. proofs' = proofs \union {new} /\ UNCHANGED <<copies, builtFrom, wire, outcome>>
      BY <1>7 DEF toProof
    <2>5. outcome' = Pending
      BY <1>7 DEF toProof, Underway
    <2> HIDE DEF new
    <2> QED BY <2>3, <2>4, <2>5 DEF ReportsInv, Holds
  <1>8. ASSUME NEW n \in ReportNodes, SubmitReport(n) PROVE ReportsInv'
    <2> DEFINE params == toContract(builtFrom[n])
               of == builtFrom[n]
    <2>1. of \in ValidReports /\ copies[n] \in FormsOf(of)
      BY <1>8 DEF SubmitReport, ReportsInv
    <2>2. toContract(copies[n]) = toContract(of)
      BY <2>1, FormsOfReport
    <2>3. outcome' = [of |-> of, params |-> toContract(of),
                      verified |-> {p \in proofs :
                                      ContractHash(toContract(of), p.timestamp) = p.toth}]
      BY <1>8, <2>2 DEF SubmitReport
    <2>4. UNCHANGED <<copies, builtFrom, wire, proofs>>
      BY <1>8 DEF SubmitReport
    <2> HIDE DEF of
    <2>5. /\ outcome'.of = of
          /\ outcome'.verified =
               {p \in proofs' : ContractHash(toContract(outcome'.of), p.timestamp) = p.toth}
      BY <2>3, <2>4
    <2> QED BY <2>1, <2>4, <2>5 DEF ReportsInv, Holds
  <1> QED BY <1>1, <1>2, <1>3, <1>4, <1>5, <1>6, <1>7, <1>8 DEF ReportsNext

LEMMA ReportsInvariant == ReportsSpec => []ReportsInv
  BY ReportsInitially, ReportsStep, PTL DEF ReportsSpec

\* The proofs with a timestamp of the reports that are packed like the one that
\* was submitted.
ProofsOfPackedAlike ==
    outcome # Pending =>
        outcome.verified =
            {p \in proofs : toHash(p.of, 0) = toHash(outcome.of, 0) /\ p.timestamp # 0}

LEMMA VerifiedPackAlike == ReportsInv => ProofsOfPackedAlike
  <1> SUFFICES ASSUME ReportsInv, outcome # Pending
               PROVE  outcome.verified =
                        {p \in proofs : toHash(p.of, 0) = toHash(outcome.of, 0)
                                        /\ p.timestamp # 0}
    BY DEF ProofsOfPackedAlike
  <1> DEFINE of == outcome.of
  <1>1. /\ of \in ValidReports
        /\ outcome.verified =
             {p \in proofs : ContractHash(toContract(of), p.timestamp) = p.toth}
    BY DEF ReportsInv
  <1> HIDE DEF of
  <1>2. ASSUME NEW p \in proofs
        PROVE  ContractHash(toContract(of), p.timestamp) = p.toth
                 <=> toHash(p.of, 0) = toHash(of, 0) /\ p.timestamp # 0
    <2>1. p.of \in PlainReports /\ of \in PlainReports
      BY <1>1, FormsOfReport DEF ReportsInv
    <2>2. p.timestamp \in Nat /\ p.toth = toHash(p.of, p.timestamp)
      BY ReportsAssumption DEF ReportsInv
    <2>3. CASE p.timestamp = 0
      <3>1. ContractHash(toContract(of), 0) # toHash(p.of, 0)
        BY <2>1, NoTimestamp
      <3> QED BY <2>2, <2>3, <3>1
    <2>4. CASE p.timestamp # 0
      <3>1. ContractHash(toContract(of), p.timestamp) = toHash(p.of, p.timestamp)
              <=> toHash(p.of, 0) = toHash(of, 0)
        BY <2>1, <2>2, <2>4, TimestampAdds
      <3> QED BY <2>2, <2>4, <3>1
    <2> QED BY <2>3, <2>4
  <1> QED BY <1>1, <1>2 DEF of

\* The contract verifies exactly the proofs with a timestamp of the reports that
\* pack alike, whatever forms they took on their way, for every number of nodes,
\* every reports and every amounts (ReportManager report, SystemReport toProof).
THEOREM ProofsOfPackedAlikeVerify == ReportsSpec => []ProofsOfPackedAlike
  BY ReportsInvariant, VerifiedPackAlike, PTL

\* So when no two reports pack alike that differ in more than their events, the
\* contract verifies exactly the proofs of the report that was submitted.
THEOREM ProofsAreVerified ==
    ASSUME ReportsPackApart
    PROVE  ReportsSpec => []ProofsVerify
  <1>1. ASSUME NEW r1 \in PlainReports, NEW r2 \in PlainReports, Signed(r1) = Signed(r2)
        PROVE  toHash(r1, 0) = toHash(r2, 0)
    <2> DEFINE fields == ReportFields \ {"events"}
    <2>1. \A r \in {r1, r2} :
            /\ DOMAIN r = ReportFields /\ r = [f \in ReportFields |-> r[f]] /\ r.s = FALSE
            /\ \A f \in fields : Signed(r)[f] = r[f]
      BY PlainFields DEF Signed, ReportFields
    <2>2. \A f \in fields : r1[f] = r2[f]
      BY <1>1, <2>1
    <2>3. /\ r1.id = r2.id /\ r1.height = r2.height /\ r1.treasury = r2.treasury
          /\ r1.streams = r2.streams /\ r1.consumers = r2.consumers
          /\ r1.nodes = r2.nodes /\ r1.delegates = r2.delegates
      BY <2>2 DEF ReportFields
    <2> DEFINE x == serialize(r1)
               y == serialize(r2)
    <2>4. /\ x.id = y.id /\ x.height = y.height /\ x.treasury = y.treasury
          /\ x.streams = y.streams /\ x.consumers = y.consumers
          /\ x.nodes = y.nodes /\ x.delegates = y.delegates
      <3>1. /\ x.id = r1.id /\ x.height = r1.height
            /\ x.treasury = ToHexString(r1.treasury)
            /\ x.streams = StreamsToHex(r1.streams)
            /\ x.consumers = ConsumersToHex(r1.consumers)
            /\ x.nodes = NodesToHex(r1.nodes)
            /\ x.delegates = EachValue(r1.delegates, NodesToHex)
        BY <2>1, SerializedFields
      <3>2. /\ y.id = r2.id /\ y.height = r2.height
            /\ y.treasury = ToHexString(r2.treasury)
            /\ y.streams = StreamsToHex(r2.streams)
            /\ y.consumers = ConsumersToHex(r2.consumers)
            /\ y.nodes = NodesToHex(r2.nodes)
            /\ y.delegates = EachValue(r2.delegates, NodesToHex)
        BY <2>1, SerializedFields
      <3> HIDE DEF x, y
      <3> QED BY <2>3, <3>1, <3>2
    <2> HIDE DEF x, y
    <2>5. Packed(x) = Packed(y)
      BY <2>4, Zenon DEF Packed
    <2> QED BY <2>5, HashOfReport DEF x, y
  <1>2. ReportsInv => ProofsVerify
    <2> SUFFICES ASSUME ReportsInv, outcome # Pending
                 PROVE  outcome.verified =
                          {p \in proofs : Signed(p.of) = Signed(outcome.of)
                                          /\ p.timestamp # 0}
      BY DEF ProofsVerify
    <2>1. outcome.verified =
            {p \in proofs : toHash(p.of, 0) = toHash(outcome.of, 0) /\ p.timestamp # 0}
      BY VerifiedPackAlike DEF ProofsOfPackedAlike
    <2>2. outcome.of \in ValidReports /\ \A p \in proofs : p.of \in ValidReports
      BY DEF ReportsInv
    <2>3. \A r \in ValidReports : r \in Reports /\ r \in PlainReports
      BY ReportsAssumption DEF ValidReports
    <2>4. \A p \in proofs :
            toHash(p.of, 0) = toHash(outcome.of, 0) <=> Signed(p.of) = Signed(outcome.of)
      BY <1>1, <2>2, <2>3, ReportsPackApart DEF ReportsPackApart
    <2> QED BY <2>1, <2>4
  <1> QED BY <1>2, ReportsInvariant, PTL

=============================================================================

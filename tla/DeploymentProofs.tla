-------------------------- MODULE DeploymentProofs --------------------------
(***************************************************************************)
(* Proofs about Deployment, for any number of chains, of scripts and of    *)
(* accounts, whichever scripts fail and whenever.  A script's steps come   *)
(* in the order of Rank, so that what is still to do tells what was done.  *)
(***************************************************************************)
EXTENDS Deployment, FoldLemmas

Scripts == {"none", "deployment", "renewal", "workaround"}
AllSteps ==
    {"token", "node", "store", "query", "report", "mint", "registerQuery", "registerStore",
     "registerReport", "blacklist", "whitelist", "read", "write"}
Rank(s) ==
    CASE s = "token" -> 1 [] s = "node" -> 2 [] s = "store" -> 3 [] s = "query" -> 4
      [] s = "report" -> 5 [] s = "mint" -> 6 [] s = "registerQuery" -> 7
      [] s = "registerStore" -> 8 [] s = "registerReport" -> 9 [] s = "blacklist" -> 10
      [] s = "whitelist" -> 11 [] s = "read" -> 12 [] s = "write" -> 13

WiringSteps ==
    {"registerQuery", "registerStore", "registerReport", "blacklist", "whitelist", "read", "write"}
StepsOf(c, script) ==
    IF script = "deployment" THEN IF c \in DevChains THEN AllSteps ELSE AllSteps \ {"mint"}
    ELSE IF script = "renewal"
    THEN {"store", "query"} \cup (WiringSteps \ {"registerReport"})
    ELSE IF script = "workaround" THEN WiringSteps ELSE {}

ToDo(left, s) == \E i \in DOMAIN left : left[i] = s

\* What is left of the steps are the last ones, each once and in their order.
OnItsWay(left, steps) ==
    /\ left \in Seq(AllSteps)
    /\ \A i \in DOMAIN left : left[i] \in steps
    /\ \A i, j \in DOMAIN left : i < j => Rank(left[i]) < Rank(left[j])
    /\ left # << >> =>
         \A s \in steps : Rank(Head(left)) <= Rank(s) => ToDo(left, s)

LEMMA RankType == \A s \in AllSteps : Rank(s) \in 1 .. 13
  BY DEF Rank, AllSteps

LEMMA StepsType == \A c, script : StepsOf(c, script) \subseteq AllSteps
  BY DEF StepsOf, AllSteps, WiringSteps

\* What comes before the next step is done.
LEMMA EarlierIsDone ==
    ASSUME NEW left, NEW steps, OnItsWay(left, steps), left # << >>
    PROVE  /\ Head(left) \in steps /\ Head(left) \in AllSteps /\ ToDo(left, Head(left))
           /\ \A s \in AllSteps : ToDo(left, s) => Rank(Head(left)) <= Rank(s)
  <1>1. /\ left \in Seq(AllSteps) /\ 1 \in DOMAIN left /\ Head(left) = left[1]
        /\ \A i \in DOMAIN left : i = 1 \/ 1 < i
    BY DEF OnItsWay
  <1>2. ASSUME NEW i \in DOMAIN left
        PROVE  Rank(left[1]) <= Rank(left[i])
    <2>1. left[1] \in AllSteps /\ left[i] \in AllSteps
      BY <1>1
    <2>2. Rank(left[1]) \in Int /\ Rank(left[i]) \in Int
      BY <2>1, RankType
    <2>3. CASE i = 1
      BY <2>2, <2>3
    <2>4. CASE 1 < i
      BY <1>1, <2>2, <2>4 DEF OnItsWay
    <2>5. QED BY <1>1, <2>3, <2>4
  <1>3. left[1] \in steps /\ left[1] \in AllSteps
    BY <1>1 DEF OnItsWay
  <1>4. QED BY <1>1, <1>2, <1>3 DEF ToDo

LEMMA NextStep ==
    ASSUME NEW left, NEW steps, steps \subseteq AllSteps, OnItsWay(left, steps), left # << >>
    PROVE  /\ OnItsWay(Tail(left), steps)
           /\ \A s : ToDo(Tail(left), s) <=> ToDo(left, s) /\ s # Head(left)
           /\ Tail(left) # << >> => Rank(Head(left)) < Rank(Head(Tail(left)))
  <1> DEFINE t == Tail(left)
             h == Head(left)
             n == Len(left)
  <1>1. /\ left \in Seq(AllSteps) /\ n \in Nat /\ n >= 1 /\ DOMAIN left = 1 .. n
        /\ t \in Seq(AllSteps) /\ DOMAIN t = 1 .. n - 1 /\ h = left[1]
        /\ \A i \in 1 .. n - 1 : t[i] = left[i + 1]
        /\ t # << >> => Head(t) = left[2] /\ 2 \in 1 .. n /\ Head(t) \in AllSteps
    <2>1. left \in Seq(AllSteps)
      BY DEF OnItsWay
    <2>2. n \in Nat /\ n >= 1 /\ DOMAIN left = 1 .. n /\ h = left[1]
      BY <2>1
    <2>3. /\ t \in Seq(AllSteps) /\ Len(t) = n - 1 /\ DOMAIN t = 1 .. n - 1
          /\ \A i \in 1 .. n - 1 : t[i] = left[i + 1]
      BY <2>1, <2>2
    <2> HIDE DEF t, h, n
    <2>4. ASSUME t # << >>
          PROVE  Head(t) = left[2] /\ 2 \in 1 .. n /\ Head(t) \in AllSteps
      <3>1. Len(t) >= 1 /\ Head(t) = t[1] /\ t[1] \in AllSteps
        BY <2>3, <2>4
      <3>2. 1 \in 1 .. n - 1
        BY <2>2, <2>3, <3>1
      <3>3. t[1] = left[1 + 1]
        BY <2>3, <3>2
      <3>4. QED BY <2>2, <3>1, <3>2, <3>3
    <2>5. QED BY <2>1, <2>2, <2>3, <2>4
  <1> HIDE DEF t, h, n
  <1>2. \A i \in 1 .. n : left[i] \in AllSteps /\ Rank(left[i]) \in Int
    BY <1>1, RankType
  <1>3. \A i, j \in 1 .. n : i < j => Rank(left[i]) < Rank(left[j])
    BY <1>1 DEF OnItsWay
  <1>4. \A i \in 1 .. n - 1 : i + 1 \in 1 .. n /\ 1 < i + 1
    BY <1>1
  <1>5. ASSUME NEW s PROVE ToDo(t, s) <=> ToDo(left, s) /\ s # h
    <2>1. ASSUME ToDo(t, s) PROVE ToDo(left, s) /\ s # h
      <3>1. PICK i \in 1 .. n - 1 : left[i + 1] = s
        BY <1>1, <2>1 DEF ToDo
      <3>2. i + 1 \in 1 .. n /\ 1 < i + 1 /\ 1 \in 1 .. n
        BY <1>1, <1>4
      <3>3. Rank(left[1]) < Rank(left[i + 1])
        BY <1>3, <3>2
      <3>4. s # left[1]
        <4>1. Rank(left[1]) \in Int /\ Rank(s) \in Int /\ Rank(left[1]) < Rank(s)
          BY <1>2, <3>1, <3>2, <3>3
        <4>2. \A k, l \in Int : k < l => k # l
          OBVIOUS
        <4>3. QED BY <4>1, <4>2
      <3>5. QED BY <1>1, <3>1, <3>2, <3>4 DEF ToDo
    <2>2. ASSUME ToDo(left, s), s # h PROVE ToDo(t, s)
      <3>1. PICK i \in 1 .. n : left[i] = s
        BY <1>1, <2>2 DEF ToDo
      <3>2. i # 1
        BY <1>1, <2>2, <3>1
      <3>3. i - 1 \in 1 .. n - 1 /\ (i - 1) + 1 = i
        BY <1>1, <3>2
      <3>4. QED BY <1>1, <3>1, <3>3 DEF ToDo
    <2>3. QED BY <2>1, <2>2
  <1>6. t # << >> => Rank(h) < Rank(Head(t))
    BY <1>1, <1>3
  <1>7. OnItsWay(t, steps)
    <2>1. \A i \in DOMAIN t : t[i] \in steps
      BY <1>1, <1>4 DEF OnItsWay
    <2>2. \A i, j \in DOMAIN t : i < j => Rank(t[i]) < Rank(t[j])
      <3>1. \A i, j \in 1 .. n - 1 : i < j => i + 1 < j + 1
        BY <1>1
      <3>2. QED BY <1>1, <1>3, <1>4, <3>1
    <2>3. ASSUME t # << >>, NEW s \in steps, Rank(Head(t)) <= Rank(s) PROVE ToDo(t, s)
      <3>1. Rank(h) \in Int /\ Rank(Head(t)) \in Int /\ Rank(s) \in Int
        <4>1. h \in AllSteps /\ Head(t) \in AllSteps /\ s \in AllSteps
          <5>1. 1 \in 1 .. n
            BY <1>1
          <5>2. QED BY <1>1, <1>2, <2>3, <5>1
        <4>2. \A k \in 1 .. 13 : k \in Int
          OBVIOUS
        <4>3. QED BY <4>1, <4>2, RankType
      <3>2. Rank(h) <= Rank(s) /\ s # h
        BY <1>6, <2>3, <3>1
      <3>3. ToDo(left, s)
        BY <3>2 DEF OnItsWay, h
      <3>4. QED BY <1>5, <3>2, <3>3
    <2>4. QED BY <1>1, <2>1, <2>2, <2>3 DEF OnItsWay
  <1>8. QED BY <1>5, <1>6, <1>7 DEF t, h

\* The list has exactly these steps, in their order.
Lists(list, steps) ==
    /\ list \in Seq(AllSteps)
    /\ \A i \in DOMAIN list : list[i] \in steps
    /\ \A i, j \in DOMAIN list : i < j => Rank(list[i]) < Rank(list[j])
    /\ \A s \in steps : ToDo(list, s)

LEMMA ListsConcat ==
    ASSUME NEW a, NEW A, NEW b, NEW B, Lists(a, A), Lists(b, B),
           \A s \in A, r \in B : Rank(s) < Rank(r)
    PROVE  Lists(a \o b, A \cup B)
  <1> DEFINE m == Len(a)
             n == Len(b)
             d == a \o b
  <1>1. /\ a \in Seq(AllSteps) /\ m \in Nat /\ DOMAIN a = 1 .. m
        /\ b \in Seq(AllSteps) /\ n \in Nat /\ DOMAIN b = 1 .. n
    BY DEF Lists
  <1>2. /\ d \in Seq(AllSteps) /\ DOMAIN d = 1 .. m + n
        /\ \A i \in 1 .. m : d[i] = a[i]
        /\ \A i \in 1 .. n : d[m + i] = b[i]
    BY <1>1
  <1> HIDE DEF m, n, d
  <1>3. ASSUME NEW i \in 1 .. m + n
        PROVE  i \in 1 .. m \/ (i - m \in 1 .. n /\ m + (i - m) = i /\ i > m)
    BY <1>1
  <1>4. ASSUME NEW i \in 1 .. m + n
        PROVE  \/ i \in 1 .. m /\ d[i] = a[i] /\ a[i] \in A
               \/ i - m \in 1 .. n /\ i > m /\ d[i] = b[i - m] /\ b[i - m] \in B
    BY <1>1, <1>2, <1>3 DEF Lists
  <1>5. \A i \in DOMAIN d : d[i] \in A \cup B
    BY <1>2, <1>4
  <1>6. ASSUME NEW i \in DOMAIN d, NEW j \in DOMAIN d, i < j
        PROVE  Rank(d[i]) < Rank(d[j])
    <2>1. CASE i \in 1 .. m /\ j \in 1 .. m
      BY <1>1, <1>2, <1>6, <2>1 DEF Lists
    <2>2. CASE i \in 1 .. m /\ j > m
      <3>1. d[i] \in A /\ d[j] \in B
        BY <1>1, <1>2, <1>4, <2>2
      <3>2. QED BY <3>1
    <2>3. CASE i > m
      <3>1. /\ i - m \in 1 .. n /\ j - m \in 1 .. n /\ i - m < j - m
            /\ d[i] = b[i - m] /\ d[j] = b[j - m]
        BY <1>1, <1>2, <1>4, <1>6, <2>3
      <3>2. Rank(b[i - m]) < Rank(b[j - m])
        BY <1>1, <3>1 DEF Lists
      <3>3. QED BY <3>1, <3>2
    <2>4. QED BY <1>1, <1>2, <1>3, <2>1, <2>2, <2>3
  <1>7. ASSUME NEW s \in A \cup B PROVE ToDo(d, s)
    <2>1. CASE s \in A
      <3>1. PICK i \in 1 .. m : a[i] = s
        BY <1>1, <2>1 DEF Lists, ToDo
      <3>2. QED BY <1>1, <1>2, <3>1 DEF ToDo
    <2>2. CASE s \in B
      <3>1. PICK i \in 1 .. n : b[i] = s
        BY <1>1, <2>2 DEF Lists, ToDo
      <3>2. m + i \in 1 .. m + n
        BY <1>1
      <3>3. QED BY <1>2, <3>1, <3>2 DEF ToDo
    <2>3. QED BY <2>1, <2>2
  <1>8. QED BY <1>2, <1>5, <1>6, <1>7 DEF Lists, d

LEMMA ListsIsOnItsWay ==
    ASSUME NEW list, NEW steps, Lists(list, steps)
    PROVE  OnItsWay(list, steps)
  BY DEF Lists, OnItsWay

\* The three lists of steps.
LEMMA ScriptsAreOrdered ==
    ASSUME NEW c
    PROVE  /\ OnItsWay(DeploymentSteps(c), StepsOf(c, "deployment"))
           /\ DeploymentSteps(c) # << >> /\ Head(DeploymentSteps(c)) = "token"
           /\ OnItsWay(RenewalSteps, StepsOf(c, "renewal"))
           /\ RenewalSteps # << >> /\ Head(RenewalSteps) = "store"
           /\ OnItsWay(Wiring, StepsOf(c, "workaround"))
           /\ Wiring # << >> /\ Head(Wiring) = "registerQuery"
           /\ \A steps : OnItsWay(<< >>, steps)
  <1> DEFINE deploys == <<"token", "node", "store", "query", "report">>
             mints == IF c \in DevChains THEN <<"mint">> ELSE << >>
             ToMint == IF c \in DevChains THEN {"mint"} ELSE {}
             first == deploys \o mints
             d == first \o Wiring
  <1>1. Lists(deploys, Kinds) /\ deploys # << >> /\ Head(deploys) = "token"
    <2>1. /\ deploys \in Seq(AllSteps) /\ DOMAIN deploys = 1 .. 5
          /\ \A i \in 1 .. 5 : deploys[i] \in Kinds /\ Rank(deploys[i]) = i
          /\ \A s \in Kinds : \E i \in 1 .. 5 : deploys[i] = s
      BY DEF AllSteps, Kinds, Rank
    <2> HIDE DEF deploys
    <2>2. Lists(deploys, Kinds)
      BY <2>1 DEF Lists, ToDo
    <2>3. QED BY <2>2 DEF deploys
  <1>2. Lists(mints, ToMint)
    <2>1. CASE c \in DevChains
      <3>1. mints = <<"mint">> /\ ToMint = {"mint"} /\ "mint" \in AllSteps
        BY <2>1 DEF AllSteps
      <3> HIDE DEF mints, ToMint
      <3>2. mints \in Seq(AllSteps) /\ DOMAIN mints = 1 .. 1 /\ mints[1] = "mint"
        BY <3>1
      <3>3. QED BY <3>1, <3>2 DEF Lists, ToDo
    <2>2. CASE c \notin DevChains
      <3>1. mints = << >> /\ ToMint = {}
        BY <2>2
      <3> HIDE DEF mints, ToMint
      <3>2. QED BY <3>1 DEF Lists, ToDo
    <2>3. QED BY <2>1, <2>2
  <1>3. Lists(Wiring, WiringSteps) /\ Wiring # << >> /\ Head(Wiring) = "registerQuery"
    <2> DEFINE w == Wiring
    <2>1. /\ w \in Seq(AllSteps) /\ DOMAIN w = 1 .. 7 /\ w # << >> /\ Head(w) = "registerQuery"
          /\ \A i \in 1 .. 7 : w[i] \in WiringSteps /\ Rank(w[i]) = i + 6
          /\ \A s \in WiringSteps : \E i \in 1 .. 7 : w[i] = s
      BY DEF AllSteps, WiringSteps, Rank, Wiring
    <2> HIDE DEF w
    <2>2. Lists(w, WiringSteps)
      BY <2>1 DEF Lists, ToDo
    <2>3. QED BY <2>1, <2>2 DEF w
  <1>4. /\ \A s \in Kinds, r \in ToMint : Rank(s) < Rank(r)
        /\ \A s \in Kinds \cup ToMint, r \in WiringSteps : Rank(s) < Rank(r)
    <2>1. \A s \in Kinds : Rank(s) \in 1 .. 5
      BY DEF Kinds, Rank
    <2>2. \A s \in ToMint : Rank(s) = 6
      BY DEF Rank
    <2>3. \A s \in WiringSteps : Rank(s) \in 7 .. 13
      BY DEF WiringSteps, Rank
    <2> HIDE DEF ToMint
    <2>4. QED BY <2>1, <2>2, <2>3
  <1>5. first \in Seq(AllSteps) /\ first # << >> /\ Head(first) = "token"
    <2>1. deploys \in Seq(AllSteps) /\ mints \in Seq(AllSteps)
      BY <1>1, <1>2 DEF Lists
    <2> HIDE DEF deploys, mints
    <2>2. QED BY <1>1, <2>1
  <1>6. d # << >> /\ Head(d) = "token"
    <2>1. Wiring \in Seq(AllSteps)
      BY <1>3 DEF Lists
    <2> HIDE DEF first
    <2>2. QED BY <1>5, <2>1
  <1>7. Lists(d, (Kinds \cup ToMint) \cup WiringSteps)
    <2> HIDE DEF deploys, mints, ToMint
    <2>1. Lists(first, Kinds \cup ToMint)
      BY <1>1, <1>2, <1>4, ListsConcat
    <2> HIDE DEF first
    <2>2. QED BY <1>3, <1>4, <2>1, ListsConcat
  <1>8. (Kinds \cup ToMint) \cup WiringSteps = StepsOf(c, "deployment")
    BY DEF Kinds, WiringSteps, StepsOf, AllSteps
  <1>9. DeploymentSteps(c) = d
    BY DEF DeploymentSteps
  <1>10. /\ OnItsWay(RenewalSteps, StepsOf(c, "renewal"))
         /\ RenewalSteps # << >> /\ Head(RenewalSteps) = "store"
    <2> DEFINE w == RenewalSteps
    <2>1. /\ w \in Seq(AllSteps) /\ DOMAIN w = 1 .. 8 /\ w # << >> /\ Head(w) = "store"
          /\ \A i, j \in 1 .. 8 : i < j => Rank(w[i]) < Rank(w[j])
          /\ \A i \in 1 .. 8 : w[i] \in StepsOf(c, "renewal")
          /\ \A s \in StepsOf(c, "renewal") : \E i \in 1 .. 8 : w[i] = s
      BY DEF AllSteps, Rank, StepsOf, WiringSteps, RenewalSteps
    <2> HIDE DEF w
    <2>2. QED BY <2>1 DEF OnItsWay, ToDo, w
  <1>11. OnItsWay(Wiring, StepsOf(c, "workaround"))
    <2>1. StepsOf(c, "workaround") = WiringSteps
      BY DEF StepsOf
    <2>2. QED BY <1>3, <2>1, ListsIsOnItsWay
  <1>12. \A steps : OnItsWay(<< >>, steps)
    BY DEF OnItsWay
  <1>13. OnItsWay(d, StepsOf(c, "deployment"))
    <2> HIDE DEF d, ToMint
    <2>1. QED BY <1>7, <1>8, ListsIsOnItsWay
  <1> HIDE DEF d
  <1>14. QED BY <1>3, <1>6, <1>9, <1>10, <1>11, <1>12, <1>13

-----------------------------------------------------------------------------
Address == {None} \cup ({"contract"} \X (Nat \ {0}))
Entries ==
    [token : Address, node : Address, store : Address, query : Address, report : Address]
Registered == [store : Address, query : Address, report : Address]
Contract == [kind : Kinds, token : Address, parent : Address]
Batches == Seq({Groups[g] : g \in Nat} \X Nat)
RunTyped(r) ==
    r \in [script : Scripts, left : Seq(AllSteps), entry : Entries, failed : BOOLEAN,
           snapshot : {<< >>} \cup [Chains -> Entries],
           minting : [group : Nat, index : Nat, wallets : Batches, minted : BOOLEAN]]
NodesTyped(ms) == ms \in [DOMAIN ms -> Registered]
ListsTyped(l) == l = [black |-> l.black, white |-> l.white]

DeploymentTypeOK ==
    /\ file \in [Chains -> Entries]
    /\ DOMAIN contracts = Chains /\ \A c \in Chains : contracts[c] \in Seq(Contract)
    /\ DOMAIN managers = Chains /\ \A c \in Chains : NodesTyped(managers[c])
    /\ DOMAIN lists = Chains /\ \A c \in Chains : ListsTyped(lists[c])
    /\ DOMAIN run = Chains /\ \A c \in Chains : RunTyped(run[c])
    /\ DOMAIN unfinished = Chains /\ \A c \in Chains : unfinished[c] \in BOOLEAN
    /\ lost \in [Chains -> BOOLEAN]

\* The address a is one of the contracts cs.
In(cs, a) == a[1] = "contract" /\ a[2] \in 1 .. Len(cs)

\* What an entry e names was deployed, for the token and the node manager it names.
Placed(e, cs, ms) ==
    /\ \A k \in Kinds : e[k] # None => In(cs, e[k])
    /\ \A k \in Payers :
         e[k] # None => cs[e[k][2]] = [kind |-> k, token |-> e.token, parent |-> e.node]
    /\ e.node # None => e.node \in DOMAIN ms

\* An entry that a script has finished: all is deployed, its node manager calls
\* its report manager, and its managers can pay.
Good(e, cs, ms, l) ==
    /\ \A k \in Kinds : e[k] # None
    /\ Placed(e, cs, ms)
    /\ ms[e.node].report = e.report
    /\ <<e.token, e.node>> \in l.black
    /\ \A k \in Payers : <<e.token, e[k], e.node>> \in l.white

Registering(k) ==
    IF k = "store" THEN "registerStore" ELSE IF k = "query" THEN "registerQuery"
    ELSE "registerReport"

\* What the steps of a script that are done have done.
DoneSoFar(c, r, ms, l) ==
    /\ r.script = "deployment" => \A k \in Kinds : r.entry[k] = None <=> ToDo(r.left, k)
    /\ r.script # "deployment" => \A k \in Kinds : r.entry[k] # None
    /\ \A k \in ManagerKinds :
         Registering(k) \in StepsOf(c, r.script) /\ ~ ToDo(r.left, Registering(k)) =>
            ms[r.entry.node][k] = r.entry[k]
    /\ r.script = "renewal" => ms[r.entry.node].report = r.entry.report
    /\ ~ ToDo(r.left, "blacklist") => <<r.entry.token, r.entry.node>> \in l.black
    /\ ~ ToDo(r.left, "whitelist") =>
         \A k \in Payers : <<r.entry.token, r.entry[k], r.entry.node>> \in l.white
    /\ Head(r.left) = "write" => r.snapshot \in [Chains -> Entries]

RunOK(c, r, cs, ms, l) ==
    /\ OnItsWay(r.left, StepsOf(c, r.script))
    /\ r.failed => r.left = << >> /\ r.script # "none"
    /\ r.entry.report # None => \A k \in Kinds : r.entry[k] # None
    /\ Placed(r.entry, cs, ms)
    /\ r.left # << >> => DoneSoFar(c, r, ms, l)

\* No entry that can come into the file names the node manager of a script that
\* deployed it and has not written its own yet.
Fresh(r, x) ==
    r.script \in {"deployment", "workaround"} /\ (r.left # << >> \/ r.failed)
    /\ r.entry.node # None => x.node # r.entry.node

EntryOK(x, r, cs, ms, l) == (x = NoEntry \/ Good(x, cs, ms, l)) /\ Fresh(r, x)

WiringOK(c) ==
    file[c] # NoEntry /\ ~ unfinished[c] /\ ~ lost[c] =>
        \A k \in ManagerKinds : managers[c][file[c].node][k] = file[c][k]

\* Node managers and what may be paid to them were deployed.
Known(cs, ms, l) == (\A a \in DOMAIN ms : In(cs, a)) /\ \A w \in l.white : In(cs, w[1])

ChainOK(c) ==
    /\ RunOK(c, run[c], contracts[c], managers[c], lists[c])
    /\ Known(contracts[c], managers[c], lists[c])
    /\ WiringOK(c)
    /\ EntryOK(file[c], run[c], contracts[c], managers[c], lists[c])
    /\ \A d \in Chains :
         AtStep(d, "write") =>
            EntryOK(run[d].snapshot[c], run[c], contracts[c], managers[c], lists[c])

DeploymentInv == DeploymentTypeOK /\ \A c \in Chains : ChainOK(c)

-----------------------------------------------------------------------------
LEMMA DeploymentInitially == DeploymentInit => DeploymentInv
  <1> SUFFICES ASSUME DeploymentInit PROVE DeploymentInv
    OBVIOUS
  <1>1. NoEntry \in Entries /\ \A k \in Kinds : NoEntry[k] = None
    BY DEF NoEntry, Entries, Address, None, Kinds
  <1>2. \A steps : OnItsWay(<< >>, steps)
    BY ScriptsAreOrdered
  <1>3. DeploymentTypeOK
    <2>1. << >> \in Seq(AllSteps) /\ << >> \in Seq(Contract)
      OBVIOUS
    <2>2. \A c \in Chains : RunTyped(run[c])
      <3> TAKE c \in Chains
      <3>1. run[c] = [script |-> "none", left |-> << >>, entry |-> NoEntry, failed |-> FALSE,
                      snapshot |-> << >>, minting |-> StartOfMinting]
        BY DEF DeploymentInit
      <3>2. "none" \in Scripts /\ << >> \in Batches
        BY DEF Scripts, Batches
      <3>3. QED BY <1>1, <2>1, <3>1, <3>2 DEF RunTyped, StartOfMinting
    <2>3. \A c \in Chains : NodesTyped(managers[c]) /\ ListsTyped(lists[c])
      <3> TAKE c \in Chains
      <3>1. managers[c] \in [DOMAIN managers[c] -> Registered]
        BY DEF DeploymentInit
      <3>2. ListsTyped(lists[c])
        BY DEF DeploymentInit, ListsTyped
      <3>3. QED BY <3>1, <3>2 DEF NodesTyped
    <2>4. QED BY <1>1, <2>1, <2>2, <2>3 DEF DeploymentTypeOK, DeploymentInit
  <1>4. ASSUME NEW c \in Chains PROVE ChainOK(c)
    <2>1. /\ file[c] = NoEntry /\ run[c].left = << >> /\ run[c].entry = NoEntry /\ ~ run[c].failed
          /\ lists[c].white = {} /\ managers[c] = << >> /\ \A d \in Chains : run[d].left = << >>
      BY DEF DeploymentInit
    <2>2. Placed(NoEntry, contracts[c], managers[c])
      BY <1>1 DEF Placed, Payers, Kinds
    <2>3. RunOK(c, run[c], contracts[c], managers[c], lists[c])
      BY <1>1, <1>2, <2>1, <2>2 DEF RunOK, Kinds
    <2>4. EntryOK(file[c], run[c], contracts[c], managers[c], lists[c])
      BY <2>1 DEF EntryOK, Fresh
    <2>5. QED BY <2>1, <2>3, <2>4 DEF ChainOK, Known, WiringOK, AtStep, Idle
  <1>5. QED BY <1>3, <1>4 DEF DeploymentInv

\* Contracts are added to a chain, and nothing is taken from its lists.
Extends(cs, cs2) == Len(cs) <= Len(cs2) /\ \A i \in 1 .. Len(cs) : cs2[i] = cs[i]

LEMMA GoodStays ==
    ASSUME NEW x \in Entries, NEW cs, NEW cs2, NEW ms, NEW ms2, NEW l, NEW l2,
           Good(x, cs, ms, l), Len(cs) \in Nat, Len(cs2) \in Nat, Extends(cs, cs2),
           DOMAIN ms \subseteq DOMAIN ms2, ms2[x.node].report = ms[x.node].report,
           l.black \subseteq l2.black, l.white \subseteq l2.white
    PROVE  Good(x, cs2, ms2, l2)
  <1>1. ASSUME NEW a, In(cs, a) PROVE In(cs2, a) /\ cs2[a[2]] = cs[a[2]]
    BY <1>1 DEF In, Extends
  <1>2. Placed(x, cs2, ms2)
    <2>1. \A k \in Kinds : x[k] # None => In(cs2, x[k])
      BY <1>1 DEF Good, Placed
    <2>2. \A k \in Payers : k \in Kinds
      BY DEF Payers, Kinds
    <2>3. \A k \in Payers :
            x[k] # None => cs2[x[k][2]] = [kind |-> k, token |-> x.token, parent |-> x.node]
      <3> SUFFICES ASSUME NEW k \in Payers, x[k] # None
                   PROVE  cs2[x[k][2]] = [kind |-> k, token |-> x.token, parent |-> x.node]
        OBVIOUS
      <3>1. In(cs, x[k])
        BY <2>2 DEF Good, Placed
      <3>2. cs2[x[k][2]] = cs[x[k][2]]
        BY <1>1, <3>1
      <3>3. QED BY <3>2 DEF Good, Placed
    <2>4. QED BY <2>1, <2>3 DEF Good, Placed
  <1>3. QED BY <1>2 DEF Good

\* What a step of one chain's script has to establish when the file stays.
LEMMA OneChainMoves ==
    ASSUME DeploymentInv, DeploymentTypeOK', NEW c \in Chains,
           \A d \in Chains \ {c} :
              /\ run'[d] = run[d] /\ contracts'[d] = contracts[d] /\ managers'[d] = managers[d]
              /\ lists'[d] = lists[d] /\ unfinished'[d] = unfinished[d],
           file' = file, lost' = lost,
           AtStep(c, "write")' => run'[c].snapshot = file,
           RunOK(c, run'[c], contracts'[c], managers'[c], lists'[c]),
           Known(contracts'[c], managers'[c], lists'[c]), WiringOK(c)',
           \A x \in Entries : EntryOK(x, run[c], contracts[c], managers[c], lists[c])
              => EntryOK(x, run'[c], contracts'[c], managers'[c], lists'[c])
    PROVE  DeploymentInv'
  <1> SUFFICES ASSUME NEW d \in Chains PROVE ChainOK(d)'
    BY DEF DeploymentInv
  <1>1. ASSUME NEW x \in Entries, EntryOK(x, run[d], contracts[d], managers[d], lists[d])
        PROVE  EntryOK(x, run'[d], contracts'[d], managers'[d], lists'[d])
    <2>1. CASE d = c
      BY <1>1, <2>1
    <2>2. CASE d # c
      BY <1>1, <2>2
    <2>3. QED BY <2>1, <2>2
  <1>2. EntryOK(file'[d], run'[d], contracts'[d], managers'[d], lists'[d])
    BY <1>1 DEF DeploymentInv, DeploymentTypeOK, ChainOK
  <1>3. ASSUME NEW e \in Chains, AtStep(e, "write")'
        PROVE  EntryOK(run'[e].snapshot[d], run'[d], contracts'[d], managers'[d], lists'[d])
    <2>1. CASE e = c
      BY <1>2, <1>3, <2>1
    <2>2. CASE e # c
      <3>1. AtStep(e, "write") /\ run'[e] = run[e]
        BY <1>3, <2>2 DEF AtStep, Idle
      <3>2. run[e].snapshot \in [Chains -> Entries]
        BY <3>1 DEF DeploymentInv, ChainOK, RunOK, DoneSoFar, AtStep, Idle
      <3>3. EntryOK(run[e].snapshot[d], run[d], contracts[d], managers[d], lists[d])
        BY <3>1 DEF DeploymentInv, ChainOK
      <3>4. QED BY <1>1, <3>1, <3>2, <3>3
    <2>3. QED BY <2>1, <2>2
  <1>4. RunOK(d, run'[d], contracts'[d], managers'[d], lists'[d]) /\ Known(contracts'[d], managers'[d], lists'[d])
    <2>1. CASE d = c
      BY <2>1
    <2>2. CASE d # c
      BY <2>2 DEF DeploymentInv, ChainOK
    <2>3. QED BY <2>1, <2>2
  <1>5. WiringOK(d)'
    <2>1. CASE d = c
      BY <2>1
    <2>2. CASE d # c
      BY <2>2 DEF DeploymentInv, ChainOK, WiringOK
    <2>3. QED BY <2>1, <2>2
  <1>6. QED BY <1>2, <1>3, <1>4, <1>5 DEF ChainOK

-----------------------------------------------------------------------------
\* What a script that has not ended still has to do.
LEMMA StepsAhead ==
    ASSUME NEW c, NEW script, script \in Scripts, NEW left,
           OnItsWay(left, StepsOf(c, script)), left # << >>
    PROVE  /\ script # "none" /\ Head(left) \in StepsOf(c, script)
           /\ {"blacklist", "whitelist", "read", "write"} \subseteq StepsOf(c, script)
           /\ \A s \in StepsOf(c, script) :
                Rank(Head(left)) < Rank(s) => ToDo(left, s) /\ ToDo(Tail(left), s)
           /\ OnItsWay(Tail(left), StepsOf(c, script))
           /\ \A s : ToDo(Tail(left), s) <=> ToDo(left, s) /\ s # Head(left)
           /\ Tail(left) # << >> /\ Head(Tail(left)) = "write" => Head(left) = "read"
  <1> DEFINE steps == StepsOf(c, script)
             h == Head(left)
             t == Tail(left)
  <1>1. steps \subseteq AllSteps
    BY StepsType
  <1>2. h \in steps /\ h \in AllSteps
    BY EarlierIsDone
  <1>3. script # "none"
    BY <1>2 DEF StepsOf
  <1>4. {"blacklist", "whitelist", "read", "write"} \subseteq steps
    BY <1>3 DEF Scripts, StepsOf, AllSteps, WiringSteps
  <1> HIDE DEF steps
  <1>5. /\ OnItsWay(t, steps)
        /\ \A s : ToDo(t, s) <=> ToDo(left, s) /\ s # h
        /\ t # << >> => Rank(h) < Rank(Head(t))
    BY <1>1, NextStep DEF steps
  <1>6. ASSUME NEW s \in steps, Rank(h) < Rank(s) PROVE ToDo(left, s) /\ ToDo(t, s)
    <2>1. Rank(h) \in 1 .. 13 /\ Rank(s) \in 1 .. 13
      BY <1>1, <1>2, RankType
    <2>2. Rank(h) <= Rank(s) /\ s # h
      BY <1>6, <2>1
    <2>3. ToDo(left, s)
      BY <2>2 DEF OnItsWay, steps
    <2>4. QED BY <1>5, <2>2, <2>3
  <1>7. ASSUME t # << >>, Head(t) = "write" PROVE h = "read"
    <2>1. Rank("write") = 13 /\ Rank("read") = 12
      BY DEF Rank
    <2>2. Rank(h) \in 1 .. 13 /\ Rank(h) < 13
      BY <1>2, <1>5, <1>7, <2>1, RankType
    <2>3. SUFFICES ASSUME h # "read" PROVE FALSE
      OBVIOUS
    <2>4. Rank(h) <= 12
      BY <2>2
    <2>5. ToDo(left, "read")
      BY <1>4, <2>1, <2>4 DEF OnItsWay, steps
    <2>6. ToDo(t, "read")
      BY <1>5, <2>3, <2>5
    <2>7. Rank(Head(t)) <= Rank("read")
      BY <1>5, <1>7, <2>6, EarlierIsDone DEF AllSteps
    <2>8. QED BY <1>7, <2>1, <2>7
  <1>8. QED BY <1>2, <1>3, <1>4, <1>5, <1>6, <1>7 DEF steps

\* What the first step of r has to do, r2 has done; it deploys nothing.
Does(r, r2, ms, ms2, l, l2) ==
    /\ r.left # << >> /\ Head(r.left) \notin Kinds
    /\ r2.left = Tail(r.left) /\ r2.script = r.script /\ r2.entry = r.entry /\ r2.failed = r.failed
    /\ DOMAIN ms \subseteq DOMAIN ms2
    /\ \A k \in ManagerKinds :
         \/ ms2[r.entry.node][k] = ms[r.entry.node][k] /\ Head(r.left) # Registering(k)
         \/ ms2[r.entry.node][k] = r.entry[k]
    /\ l.black \subseteq l2.black /\ l.white \subseteq l2.white
    /\ Head(r.left) = "blacklist" => <<r.entry.token, r.entry.node>> \in l2.black
    /\ Head(r.left) = "whitelist" =>
         \A k \in Payers : <<r.entry.token, r.entry[k], r.entry.node>> \in l2.white
    /\ Head(r.left) = "read" => r2.snapshot \in [Chains -> Entries]

LEMMA StepDone ==
    ASSUME NEW c, NEW r, NEW r2, NEW cs, NEW ms, NEW ms2, NEW l, NEW l2,
           RunTyped(r), RunOK(c, r, cs, ms, l), Does(r, r2, ms, ms2, l, l2)
    PROVE  /\ RunOK(c, r2, cs, ms2, l2)
           /\ r2.left # << >> /\ Head(r2.left) = "write" => Head(r.left) = "read"
  <1> DEFINE h == Head(r.left)
             t == Tail(r.left)
  <1> USE DEF Does
  <1>1. OnItsWay(r.left, StepsOf(c, r.script)) /\ DoneSoFar(c, r, ms, l) /\ Placed(r.entry, cs, ms)
    BY DEF RunOK
  <1>2. /\ OnItsWay(t, StepsOf(c, r.script))
        /\ \A s : ToDo(t, s) <=> ToDo(r.left, s) /\ s # h
        /\ t # << >> /\ Head(t) = "write" => h = "read"
    BY <1>1, StepsAhead DEF RunTyped
  <1>3. ~ r2.failed
    BY DEF RunOK
  <1>4. Placed(r2.entry, cs, ms2)
    BY <1>1 DEF Placed
  <1>5. ASSUME t # << >> PROVE DoneSoFar(c, r2, ms2, l2)
    <2>1. r.script = "deployment" => \A k \in Kinds : r.entry[k] = None <=> ToDo(t, k)
      BY <1>1, <1>2 DEF DoneSoFar
    <2>2. r.script # "deployment" => \A k \in Kinds : r.entry[k] # None
      BY <1>1 DEF DoneSoFar
    <2>3. ASSUME NEW k \in ManagerKinds, Registering(k) \in StepsOf(c, r.script),
                 ~ ToDo(t, Registering(k))
          PROVE  ms2[r.entry.node][k] = r.entry[k]
      <3>1. ~ ToDo(r.left, Registering(k)) \/ h = Registering(k)
        BY <1>2, <2>3
      <3>2. CASE h = Registering(k)
        BY <3>2
      <3>3. CASE ~ ToDo(r.left, Registering(k))
        BY <1>1, <2>3, <3>3 DEF DoneSoFar
      <3>4. QED BY <3>1, <3>2, <3>3
    <2>4. r.script = "renewal" => ms2[r.entry.node].report = r.entry.report
      BY <1>1 DEF DoneSoFar, ManagerKinds
    <2>5. ~ ToDo(t, "blacklist") => <<r.entry.token, r.entry.node>> \in l2.black
      BY <1>1, <1>2 DEF DoneSoFar
    <2>6. ~ ToDo(t, "whitelist") =>
            \A k \in Payers : <<r.entry.token, r.entry[k], r.entry.node>> \in l2.white
      BY <1>1, <1>2 DEF DoneSoFar
    <2>7. QED BY <1>2, <1>5, <2>1, <2>2, <2>3, <2>4, <2>5, <2>6 DEF DoneSoFar
  <1>6. r.entry.report # None => \A k \in Kinds : r.entry[k] # None
    BY DEF RunOK
  <1>7. RunOK(c, r2, cs, ms2, l2)
    BY <1>2, <1>3, <1>4, <1>5, <1>6 DEF RunOK
  <1>8. QED BY <1>2, <1>7

\* So is a step that only goes on: of the minting, nothing is asked here.
LEMMA StepGoesOn ==
    ASSUME NEW c, NEW r, NEW r2, NEW cs, NEW ms, NEW l, NEW l2,
           RunOK(c, r, cs, ms, l), r2.left = r.left, r2.script = r.script,
           r2.entry = r.entry, r2.failed = r.failed, r2.snapshot = r.snapshot,
           l.black \subseteq l2.black, l.white \subseteq l2.white
    PROVE  RunOK(c, r2, cs, ms, l2)
  BY DEF RunOK, DoneSoFar

-----------------------------------------------------------------------------
\* The address of the contract that a chain gets next.
Next1(cs) == <<"contract", Len(cs) + 1>>

LEMMA NextAddress ==
    ASSUME NEW cs \in Seq(Contract), NEW x \in Contract
    PROVE  /\ Next1(cs) \in Address /\ Next1(cs) # None /\ ~ In(cs, Next1(cs))
           /\ Append(cs, x) \in Seq(Contract) /\ Extends(cs, Append(cs, x))
           /\ Len(cs) \in Nat /\ Len(Append(cs, x)) \in Nat
           /\ In(Append(cs, x), Next1(cs)) /\ Append(cs, x)[Next1(cs)[2]] = x
           /\ \A a : In(cs, a) => In(Append(cs, x), a) /\ Append(cs, x)[a[2]] = cs[a[2]]
  <1>1. Len(cs) \in Nat /\ Len(cs) + 1 \in Nat \ {0} /\ Len(cs) + 1 \notin 1 .. Len(cs)
    OBVIOUS
  <1>2. /\ Append(cs, x) \in Seq(Contract) /\ Len(Append(cs, x)) = Len(cs) + 1
        /\ Append(cs, x)[Len(cs) + 1] = x
        /\ \A i \in 1 .. Len(cs) : Append(cs, x)[i] = cs[i]
    OBVIOUS
  <1>3. Next1(cs)[1] = "contract" /\ Next1(cs)[2] = Len(cs) + 1
    BY DEF Next1
  <1>4. Next1(cs) \in Address /\ Next1(cs) # None
    BY <1>1 DEF Next1, Address, None
  <1> HIDE DEF Next1
  <1>5. Extends(cs, Append(cs, x)) /\ Len(Append(cs, x)) \in Nat
    BY <1>1, <1>2 DEF Extends
  <1>6. ~ In(cs, Next1(cs)) /\ In(Append(cs, x), Next1(cs))
    BY <1>1, <1>2, <1>3 DEF In
  <1>7. \A a : In(cs, a) => In(Append(cs, x), a) /\ Append(cs, x)[a[2]] = cs[a[2]]
    BY <1>1, <1>2 DEF In
  <1>8. QED BY <1>1, <1>2, <1>3, <1>4, <1>5, <1>6, <1>7

\* r2 has deployed a contract of kind k as the first step of r.
Deploys(k, r, r2, cs, cs2, ms, ms2) ==
    /\ r.left # << >> /\ Head(r.left) = k
    /\ r2.left = Tail(r.left) /\ r2.script = r.script /\ r2.failed = r.failed
    /\ r2.entry = [r.entry EXCEPT ![k] = Next1(cs)]
    /\ cs2 = Append(cs, [kind |-> k, token |-> r.entry.token, parent |-> r.entry.node])
    /\ DOMAIN ms \subseteq DOMAIN ms2 /\ \A n \in DOMAIN ms : ms2[n] = ms[n]
    /\ k = "node" => Next1(cs) \in DOMAIN ms2

LEMMA DeployRun ==
    ASSUME NEW c, NEW r, NEW r2, NEW cs \in Seq(Contract), NEW cs2, NEW ms, NEW ms2, NEW l,
           NEW k \in Kinds, RunTyped(r), RunOK(c, r, cs, ms, l), Deploys(k, r, r2, cs, cs2, ms, ms2)
    PROVE  /\ RunOK(c, r2, cs2, ms2, l)
           /\ ~ (r2.left # << >> /\ Head(r2.left) = "write")
  <1> USE DEF Deploys
  <1> DEFINE x == [kind |-> k, token |-> r.entry.token, parent |-> r.entry.node]
             e == r.entry
             f == r2.entry
             a == Next1(cs)
             t == Tail(r.left)
  <1>1. /\ OnItsWay(r.left, StepsOf(c, r.script)) /\ DoneSoFar(c, r, ms, l)
        /\ Placed(e, cs, ms) /\ ~ r.failed
    BY DEF RunOK
  <1>2. e \in Entries /\ r.script \in Scripts
    BY DEF RunTyped
  <1>3. x \in Contract
    BY <1>2 DEF Contract, Entries
  <1>4. \A i \in Kinds : f[i] = IF i = k THEN a ELSE e[i]
    BY <1>2 DEF Entries, Kinds
  <1>5. /\ a # None /\ In(cs2, a) /\ cs2[a[2]] = x
        /\ \A b : In(cs, b) => In(cs2, b) /\ cs2[b[2]] = cs[b[2]]
    <2>1. cs2 = Append(cs, x)
      OBVIOUS
    <2> HIDE DEF x
    <2>2. /\ a # None /\ In(Append(cs, x), a) /\ Append(cs, x)[a[2]] = x
          /\ \A b : In(cs, b) => In(Append(cs, x), b) /\ Append(cs, x)[b[2]] = cs[b[2]]
      BY <1>3, NextAddress
    <2>3. QED BY <2>1, <2>2
  <1>6. /\ r.script # "none" /\ k \in StepsOf(c, r.script)
        /\ {"blacklist", "whitelist", "read", "write"} \subseteq StepsOf(c, r.script)
        /\ \A s \in StepsOf(c, r.script) : Rank(k) < Rank(s) => ToDo(r.left, s) /\ ToDo(t, s)
        /\ OnItsWay(t, StepsOf(c, r.script))
        /\ \A s : ToDo(t, s) <=> ToDo(r.left, s) /\ s # k
        /\ t # << >> /\ Head(t) = "write" => k = "read"
    BY <1>1, <1>2, StepsAhead
  <1>7. /\ Rank("token") = 1 /\ Rank("node") = 2 /\ Rank("store") = 3 /\ Rank("query") = 4
        /\ Rank("report") = 5 /\ Rank("blacklist") = 10 /\ Rank("whitelist") = 11
    BY DEF Rank
  <1>8. \A m \in ManagerKinds : Rank(k) < Rank(Registering(m))
    BY DEF Rank, Kinds, ManagerKinds, Registering
  <1>9. Kinds \subseteq AllSteps /\ Payers \subseteq Kinds /\ Kinds = {"token", "node", "store", "query", "report"}
        /\ Payers = {"store", "query"}
    BY DEF Kinds, AllSteps, Payers
  <1>10. r.script \in {"deployment", "renewal"} /\ (r.script = "renewal" => k \in Payers)
    <2>1. r.script = "workaround" => k \in WiringSteps
      BY <1>6 DEF StepsOf
    <2>2. r.script = "renewal" => k \in {"store", "query"} \cup WiringSteps
      BY <1>6 DEF StepsOf
    <2>3. k \notin WiringSteps
      BY DEF WiringSteps, Kinds
    <2>4. QED BY <1>2, <1>6, <1>9, <2>1, <2>2, <2>3 DEF Scripts
  <1>11. r.script = "deployment" => Kinds \subseteq StepsOf(c, r.script)
    BY DEF StepsOf, AllSteps, Kinds
  <1> HIDE DEF x, e, f, a, t
  <1>12. f.report # None => \A i \in Kinds : f[i] # None
    <2>1. CASE r.script = "renewal"
      BY <1>1, <1>4, <1>5, <2>1 DEF DoneSoFar, e
    <2>2. CASE r.script = "deployment"
      <3>1. \A i \in Kinds : e[i] = None <=> ToDo(r.left, i)
        BY <1>1, <2>2 DEF DoneSoFar, e
      <3>2. ASSUME NEW i \in Kinds, k = "report", i # k PROVE e[i] # None
        <4>1. Rank(i) < Rank(k)
          BY <1>7, <1>9, <3>2
        <4>2. ToDo(r.left, i) => Rank(k) <= Rank(i)
          BY <1>1, <1>9, EarlierIsDone
        <4>3. Rank(i) \in 1 .. 13 /\ Rank(k) \in 1 .. 13
          BY <1>9, RankType
        <4>4. ~ ToDo(r.left, i)
          <5>1. \A n, m \in 1 .. 13 : n < m => ~ (m <= n)
            OBVIOUS
          <5>2. QED BY <4>1, <4>2, <4>3, <5>1
        <4>5. QED BY <3>1, <4>4
      <3>3. k # "report" => e.report = None
        <4>1. k # "report" => Rank(k) < Rank("report")
          BY <1>7, <1>9
        <4>2. k # "report" => ToDo(r.left, "report")
          BY <1>6, <1>9, <1>11, <2>2, <4>1
        <4>3. QED BY <1>9, <3>1, <4>2
      <3>4. k # "report" => f.report = None
        BY <1>4, <1>9, <3>3
      <3>5. k = "report" => \A i \in Kinds : f[i] # None
        BY <1>4, <1>5, <3>2
      <3>6. QED BY <3>4, <3>5
    <2>3. QED BY <1>10, <2>1, <2>2
  <1>13. k \in {"token", "node"} => \A i \in Payers : e[i] = None
    <2>1. ASSUME k \in {"token", "node"}, NEW i \in Payers PROVE e[i] = None
      <3>1. r.script = "deployment"
        BY <1>9, <1>10, <2>1
      <3>2. i \in Kinds /\ Rank(k) < Rank(i)
        BY <1>7, <1>9, <2>1
      <3>3. ToDo(r.left, i)
        BY <1>6, <1>11, <3>1, <3>2
      <3>4. QED BY <1>1, <3>1, <3>2, <3>3 DEF DoneSoFar, e
    <2>2. QED BY <2>1
  <1>14. Placed(f, cs2, ms2)
    <2>1. \A i \in Kinds : f[i] # None => In(cs2, f[i])
      BY <1>1, <1>4, <1>5 DEF Placed
    <2>2. ASSUME NEW i \in Payers, f[i] # None
          PROVE  cs2[f[i][2]] = [kind |-> i, token |-> f.token, parent |-> f.node]
      <3>1. CASE i = k
        <4>1. f[i] = a /\ f.token = e.token /\ f.node = e.node
          BY <1>4, <1>9, <2>2, <3>1
        <4>2. QED BY <1>5, <3>1, <4>1 DEF x, e
      <3>2. CASE i # k
        <4>1. f[i] = e[i] /\ e[i] # None
          BY <1>4, <1>9, <2>2, <3>2
        <4>2. f.token = e.token /\ f.node = e.node
          BY <1>4, <1>9, <1>13, <4>1
        <4>3. In(cs, e[i]) /\ cs[e[i][2]] = [kind |-> i, token |-> e.token, parent |-> e.node]
          BY <1>1, <1>9, <4>1 DEF Placed
        <4>4. cs2[e[i][2]] = cs[e[i][2]]
          BY <1>5, <4>3
        <4>5. QED BY <4>1, <4>2, <4>3, <4>4
      <3>3. QED BY <3>1, <3>2
    <2>3. f.node # None => f.node \in DOMAIN ms2
      <3>1. CASE k = "node"
        BY <1>4, <1>9, <3>1 DEF a
      <3>2. CASE k # "node"
        BY <1>1, <1>4, <1>9, <3>2 DEF Placed
      <3>3. QED BY <3>1, <3>2
    <2>4. QED BY <2>1, <2>2, <2>3 DEF Placed
  <1>15. ASSUME t # << >> PROVE DoneSoFar(c, r2, ms2, l)
    <2>1. r.script = "deployment" => \A i \in Kinds : f[i] = None <=> ToDo(t, i)
      BY <1>1, <1>4, <1>5, <1>6 DEF DoneSoFar, e
    <2>2. r.script # "deployment" => \A i \in Kinds : f[i] # None
      BY <1>1, <1>4, <1>5 DEF DoneSoFar, e
    <2>3. \A m \in ManagerKinds :
            Registering(m) \in StepsOf(c, r.script) => ToDo(t, Registering(m))
      BY <1>6, <1>8
    <2>4. Rank(k) < 10 /\ Rank(k) < 11
      BY <1>7, <1>9
    <2>5. ToDo(t, "blacklist") /\ ToDo(t, "whitelist")
      BY <1>6, <1>7, <2>4
    <2>6. r.script = "renewal" => ms2[f.node].report = f.report
      <3>1. SUFFICES ASSUME r.script = "renewal" PROVE ms2[f.node].report = f.report
        OBVIOUS
      <3>2. f.node = e.node /\ f.report = e.report /\ e.node # None
        BY <1>1, <1>4, <1>9, <1>10, <3>1 DEF DoneSoFar, e
      <3>3. ms[e.node].report = e.report /\ e.node \in DOMAIN ms
        BY <1>1, <3>1, <3>2 DEF DoneSoFar, Placed, e
      <3>4. QED BY <3>2, <3>3
    <2>7. Head(t) # "write"
      BY <1>6, <1>9, <1>15
    <2>8. QED BY <2>1, <2>2, <2>3, <2>5, <2>6, <2>7 DEF DoneSoFar, f, t
  <1>16. RunOK(c, r2, cs2, ms2, l)
    BY <1>1, <1>6, <1>12, <1>14, <1>15 DEF RunOK, f, t
  <1>17. ~ (t # << >> /\ Head(t) = "write")
    BY <1>6, <1>9
  <1>18. QED BY <1>16, <1>17 DEF t

-----------------------------------------------------------------------------
\* The function v2 is v but for y at c.
Becomes(v, c, y, v2) ==
    DOMAIN v2 = DOMAIN v /\ v2[c] = y /\ \A d \in DOMAIN v \ {c} : v2[d] = v[d]

LEMMA EntriesStay ==
    ASSUME NEW r, NEW r2, NEW cs, NEW cs2, NEW ms, NEW ms2, NEW l, NEW l2,
           Len(cs) \in Nat, Len(cs2) \in Nat, Extends(cs, cs2), DOMAIN ms \subseteq DOMAIN ms2,
           l.black \subseteq l2.black, l.white \subseteq l2.white,
           \A x \in Entries : Good(x, cs, ms, l) /\ Fresh(r, x) =>
             ms2[x.node].report = ms[x.node].report,
           \A x \in Entries : EntryOK(x, r, cs, ms, l) => Fresh(r2, x)
    PROVE  \A x \in Entries : EntryOK(x, r, cs, ms, l) => EntryOK(x, r2, cs2, ms2, l2)
  <1> SUFFICES ASSUME NEW x \in Entries, EntryOK(x, r, cs, ms, l)
               PROVE  EntryOK(x, r2, cs2, ms2, l2)
    OBVIOUS
  <1>1. Fresh(r2, x)
    OBVIOUS
  <1>2. CASE x = NoEntry
    BY <1>1, <1>2 DEF EntryOK
  <1>3. CASE x # NoEntry
    <2>1. Good(x, cs, ms, l) /\ Fresh(r, x)
      BY <1>3 DEF EntryOK
    <2>2. Good(x, cs2, ms2, l2)
      BY <2>1, GoodStays
    <2>3. QED BY <1>1, <2>2 DEF EntryOK
  <1>4. QED BY <1>2, <1>3

\* A step of the script of chain c that leaves the file alone.
\* The state after a step of c's script that leaves the file alone.
Moved(c, r2, cs2, ms2, l2, u) ==
    /\ Becomes(run, c, r2, run') /\ Becomes(contracts, c, cs2, contracts')
    /\ Becomes(managers, c, ms2, managers') /\ Becomes(lists, c, l2, lists')
    /\ Becomes(unfinished, c, u, unfinished') /\ file' = file /\ lost' = lost
    /\ RunTyped(r2) /\ cs2 \in Seq(Contract) /\ NodesTyped(ms2) /\ ListsTyped(l2)
    /\ u \in BOOLEAN

\* What such a step has to keep.
Keeps(c, r, r2, cs, cs2, ms, ms2, l, l2, u) ==
    /\ Extends(cs, cs2) /\ DOMAIN ms \subseteq DOMAIN ms2
    /\ l.black \subseteq l2.black /\ l.white \subseteq l2.white
    /\ RunOK(c, r2, cs2, ms2, l2)
    /\ r2.left # << >> /\ Head(r2.left) = "write" => r2.snapshot = file
    /\ Known(cs2, ms2, l2)
    /\ file[c] # NoEntry /\ ~ u /\ ~ lost[c] =>
         \A k \in ManagerKinds : ms2[file[c].node][k] = file[c][k]
    /\ \A x \in Entries : Good(x, cs, ms, l) /\ Fresh(r, x) =>
         ms2[x.node].report = ms[x.node].report
    /\ \A x \in Entries : EntryOK(x, r, cs, ms, l) => Fresh(r2, x)

LEMMA ScriptStep ==
    ASSUME DeploymentInv, NEW c \in Chains, NEW r2, NEW cs2, NEW ms2, NEW l2, NEW u,
           Moved(c, r2, cs2, ms2, l2, u),
           Keeps(c, run[c], r2, contracts[c], cs2, managers[c], ms2, lists[c], l2, u)
    PROVE  DeploymentInv'
  <1>1. DeploymentTypeOK
    BY DEF DeploymentInv
  <1>2. /\ run'[c] = r2 /\ contracts'[c] = cs2 /\ managers'[c] = ms2 /\ lists'[c] = l2
        /\ unfinished'[c] = u
        /\ \A d \in Chains \ {c} :
              /\ run'[d] = run[d] /\ contracts'[d] = contracts[d] /\ managers'[d] = managers[d]
              /\ lists'[d] = lists[d] /\ unfinished'[d] = unfinished[d]
        /\ DOMAIN run' = Chains /\ DOMAIN contracts' = Chains /\ DOMAIN managers' = Chains
        /\ DOMAIN lists' = Chains /\ DOMAIN unfinished' = Chains
    BY <1>1 DEF DeploymentTypeOK, Becomes, Moved
  <1>3. DeploymentTypeOK'
    <2>1. ASSUME NEW d \in Chains
          PROVE  /\ contracts'[d] \in Seq(Contract) /\ NodesTyped(managers'[d])
                 /\ ListsTyped(lists'[d]) /\ RunTyped(run'[d]) /\ unfinished'[d] \in BOOLEAN
      <3>1. CASE d = c
        BY <1>2, <3>1 DEF Moved
      <3>2. CASE d # c
        BY <1>1, <1>2, <3>2 DEF DeploymentTypeOK
      <3>3. QED BY <3>1, <3>2
    <2>2. file' \in [Chains -> Entries] /\ lost' \in [Chains -> BOOLEAN]
      BY <1>1 DEF DeploymentTypeOK, Moved
    <2>3. QED BY <1>2, <2>1, <2>2 DEF DeploymentTypeOK
  <1>4. Len(contracts[c]) \in Nat /\ Len(cs2) \in Nat
    BY <1>1 DEF DeploymentTypeOK, Moved
  <1>5. \A x \in Entries : EntryOK(x, run[c], contracts[c], managers[c], lists[c])
           => EntryOK(x, run'[c], contracts'[c], managers'[c], lists'[c])
    <2>1. \A x \in Entries : EntryOK(x, run[c], contracts[c], managers[c], lists[c])
             => EntryOK(x, r2, cs2, ms2, l2)
      BY <1>4, EntriesStay DEF Keeps
    <2>2. QED BY <1>2, <2>1
  <1>6. WiringOK(c)'
    BY <1>2 DEF WiringOK, Keeps, Moved
  <1>7. AtStep(c, "write")' => run'[c].snapshot = file
    BY <1>2 DEF AtStep, Idle, Keeps
  <1>8. /\ file' = file /\ lost' = lost
        /\ RunOK(c, run'[c], contracts'[c], managers'[c], lists'[c])
        /\ Known(contracts'[c], managers'[c], lists'[c])
    BY <1>2 DEF Moved, Keeps
  <1>9. QED BY <1>2, <1>3, <1>5, <1>6, <1>7, <1>8, OneChainMoves

\* What the invariant says of chain c.
LEMMA OfChain ==
    ASSUME DeploymentInv, NEW c \in Chains
    PROVE  /\ c \in DOMAIN run /\ c \in DOMAIN contracts /\ c \in DOMAIN managers
           /\ c \in DOMAIN lists /\ c \in DOMAIN unfinished /\ c \in DOMAIN file
           /\ contracts[c] \in Seq(Contract) /\ NodesTyped(managers[c])
           /\ ListsTyped(lists[c]) /\ RunTyped(run[c]) /\ unfinished[c] \in BOOLEAN
           /\ file[c] \in Entries /\ Len(contracts[c]) \in Nat
           /\ RunOK(c, run[c], contracts[c], managers[c], lists[c])
           /\ Known(contracts[c], managers[c], lists[c])
           /\ WiringOK(c) /\ EntryOK(file[c], run[c], contracts[c], managers[c], lists[c])
           /\ Extends(contracts[c], contracts[c])
  BY DEF DeploymentInv, DeploymentTypeOK, ChainOK, Extends

-----------------------------------------------------------------------------
LEMMA ScriptStarts ==
    ASSUME DeploymentInv, NEW c \in Chains, NEW script, script \in Scripts \ {"none"},
           NEW steps, NEW entry \in Entries, StartScript(c, script, steps, entry),
           OnItsWay(steps, StepsOf(c, script)), steps # << >>, Head(steps) # "write",
           \A s \in StepsOf(c, script) : Rank(Head(steps)) <= Rank(s),
           Placed(entry, contracts[c], managers[c]),
           script = "deployment" => \A k \in Kinds : entry[k] = None,
           script # "deployment" => \A k \in Kinds : entry[k] # None,
           script = "renewal" => managers[c][entry.node].report = entry.report,
           script = "workaround" =>
             run[c].failed /\ run[c].script # "renewal" /\ entry = run[c].entry
    PROVE  DeploymentInv'
  <1> DEFINE r2 == [run[c] EXCEPT !.script = script, !.left = steps, !.entry = entry,
                                  !.failed = FALSE, !.minting = StartOfMinting]
  <1>1. /\ RunTyped(run[c]) /\ DOMAIN run = Chains
        /\ RunOK(c, run[c], contracts[c], managers[c], lists[c])
    BY OfChain DEF DeploymentInv, DeploymentTypeOK
  <1>2. Becomes(run, c, r2, run')
    BY <1>1 DEF StartScript, Becomes
  <1>3. /\ file' = file /\ lost' = lost /\ unfinished' = unfinished
        /\ contracts' = contracts /\ managers' = managers /\ lists' = lists
    BY DEF StartScript, deployedVars, fileVars
  <1>4. /\ r2.script = script /\ r2.left = steps /\ r2.entry = entry /\ r2.failed = FALSE
    BY <1>1 DEF RunTyped
  <1>5. RunTyped(r2)
    <2>1. steps \in Seq(AllSteps) /\ << >> \in Batches
      BY DEF OnItsWay, Batches
    <2>2. QED BY <1>1, <2>1 DEF RunTyped, StartOfMinting
  <1> HIDE DEF r2
  <1>6. \A s \in StepsOf(c, script) : ToDo(steps, s)
    BY DEF OnItsWay
  <1>7. DoneSoFar(c, r2, managers[c], lists[c])
    <2>1. script = "deployment" => Kinds \subseteq StepsOf(c, script)
      BY DEF StepsOf, AllSteps, Kinds
    <2>2. script = "deployment" => \A k \in Kinds : entry[k] = None <=> ToDo(steps, k)
      BY <1>6, <2>1
    <2>3. {"blacklist", "whitelist"} \subseteq StepsOf(c, script)
      BY StepsAhead
    <2>4. ToDo(steps, "blacklist") /\ ToDo(steps, "whitelist")
      BY <1>6, <2>3
    <2>5. QED BY <1>4, <1>6, <2>2, <2>4 DEF DoneSoFar
  <1>8. RunOK(c, r2, contracts[c], managers[c], lists[c])
    <2>1. entry.report # None => \A k \in Kinds : entry[k] # None
      BY DEF Kinds
    <2>2. QED BY <1>4, <1>7, <2>1 DEF RunOK
  <1>9. ASSUME NEW x \in Entries, EntryOK(x, run[c], contracts[c], managers[c], lists[c])
        PROVE  Fresh(r2, x)
    <2>1. CASE script = "deployment"
      BY <1>4, <2>1 DEF Fresh, Kinds
    <2>2. CASE script = "renewal"
      BY <1>4, <2>2 DEF Fresh
    <2>3. CASE script = "workaround"
      <3>1. run[c].script \in {"deployment", "workaround"} /\ run[c].failed
        BY <1>1, <2>3 DEF RunOK, RunTyped, Scripts
      <3>2. entry.node # None => x.node # entry.node
        BY <1>9, <2>3, <3>1 DEF EntryOK, Fresh
      <3>3. QED BY <1>4, <3>2 DEF Fresh
    <2>4. QED BY <2>1, <2>2, <2>3 DEF Scripts
  <1>10. /\ Becomes(contracts, c, contracts[c], contracts')
         /\ Becomes(managers, c, managers[c], managers')
         /\ Becomes(lists, c, lists[c], lists')
         /\ Becomes(unfinished, c, unfinished[c], unfinished')
    BY <1>3 DEF Becomes
  <1>11. file[c] # NoEntry /\ ~ unfinished[c] /\ ~ lost[c] =>
           \A k \in ManagerKinds : managers[c][file[c].node][k] = file[c][k]
    BY OfChain DEF WiringOK
  <1>12. Moved(c, r2, contracts[c], managers[c], lists[c], unfinished[c])
    BY <1>2, <1>3, <1>5, <1>10, OfChain DEF Moved
  <1>13. Keeps(c, run[c], r2, contracts[c], contracts[c], managers[c], managers[c],
               lists[c], lists[c], unfinished[c])
    BY <1>4, <1>8, <1>9, <1>11, OfChain DEF Keeps
  <1>14. QED BY <1>12, <1>13, ScriptStep

LEMMA StartStep ==
    ASSUME DeploymentInv, NEW c \in Chains,
           StartDeployment(c) \/ StartRenewal(c) \/ StartWorkaround(c)
    PROVE  DeploymentInv'
  <1>1. CASE StartDeployment(c)
    <2>1. NoEntry \in Entries /\ \A k \in Kinds : NoEntry[k] = None
      BY DEF NoEntry, Entries, Address, None, Kinds
    <2>2. Placed(NoEntry, contracts[c], managers[c])
      BY <2>1 DEF Placed, Payers, Kinds
    <2>3. \A s \in StepsOf(c, "deployment") : Rank("token") <= Rank(s)
      <3>1. Rank("token") = 1 /\ \A k \in 1 .. 13 : 1 <= k
        BY DEF Rank
      <3>2. QED BY <3>1, RankType, StepsType
    <2>4. "deployment" \in Scripts \ {"none"}
      BY DEF Scripts
    <2>5. QED BY <1>1, <2>1, <2>2, <2>3, <2>4, ScriptsAreOrdered, ScriptStarts DEF StartDeployment
  <1>2. CASE StartRenewal(c)
    <2>1. Good(file[c], contracts[c], managers[c], lists[c])
      BY <1>2, OfChain DEF StartRenewal, Named, EntryOK
    <2>2. file[c] \in Entries
      BY OfChain
    <2>3. \A s \in StepsOf(c, "renewal") : Rank("store") <= Rank(s)
      BY DEF StepsOf, WiringSteps, Rank
    <2>4. "renewal" \in Scripts \ {"none"}
      BY DEF Scripts
    <2>5. QED BY <1>2, <2>1, <2>2, <2>3, <2>4, ScriptsAreOrdered, ScriptStarts DEF StartRenewal, Good
  <1>3. CASE StartWorkaround(c)
    <2>1. /\ run[c].entry \in Entries /\ Placed(run[c].entry, contracts[c], managers[c])
          /\ \A k \in Kinds : run[c].entry[k] # None
      BY <1>3, OfChain DEF StartWorkaround, RunOK, RunTyped
    <2>2. \A s \in StepsOf(c, "workaround") : Rank("registerQuery") <= Rank(s)
      BY DEF StepsOf, WiringSteps, Rank
    <2>3. "workaround" \in Scripts \ {"none"}
      BY DEF Scripts
    <2>4. QED BY <1>3, <2>1, <2>2, <2>3, ScriptsAreOrdered, ScriptStarts DEF StartWorkaround
  <1>4. QED BY <1>1, <1>2, <1>3

LEMMA FailStep == ASSUME DeploymentInv, NEW c \in Chains, Fail(c) PROVE DeploymentInv'
  <1> DEFINE r2 == [run[c] EXCEPT !.left = << >>, !.failed = TRUE, !.snapshot = << >>]
  <1>1. /\ RunTyped(run[c]) /\ DOMAIN run = Chains
        /\ RunOK(c, run[c], contracts[c], managers[c], lists[c])
    BY OfChain DEF DeploymentInv, DeploymentTypeOK
  <1>2. Becomes(run, c, r2, run')
    BY <1>1 DEF Fail, Becomes
  <1>3. /\ file' = file /\ lost' = lost /\ unfinished' = unfinished
        /\ contracts' = contracts /\ managers' = managers /\ lists' = lists
    BY DEF Fail, deployedVars
  <1>4. /\ r2.script = run[c].script /\ r2.left = << >> /\ r2.entry = run[c].entry
        /\ r2.failed = TRUE
    BY <1>1 DEF RunTyped
  <1>5. RunTyped(r2)
    <2>1. << >> \in Seq(AllSteps)
      OBVIOUS
    <2>2. QED BY <1>1, <2>1 DEF RunTyped
  <1> HIDE DEF r2
  <1>6. run[c].left # << >>
    BY DEF Fail, Idle
  <1>7. RunOK(c, r2, contracts[c], managers[c], lists[c])
    <2>1. OnItsWay(<< >>, StepsOf(c, run[c].script))
      BY ScriptsAreOrdered
    <2>2. run[c].script # "none"
      BY <1>1, <1>6, StepsAhead DEF RunOK, RunTyped
    <2>3. QED BY <1>1, <1>4, <2>1, <2>2 DEF RunOK
  <1>8. ASSUME NEW x \in Entries, EntryOK(x, run[c], contracts[c], managers[c], lists[c])
        PROVE  Fresh(r2, x)
    BY <1>4, <1>6, <1>8 DEF EntryOK, Fresh
  <1>9. /\ Becomes(contracts, c, contracts[c], contracts')
        /\ Becomes(managers, c, managers[c], managers')
        /\ Becomes(lists, c, lists[c], lists')
        /\ Becomes(unfinished, c, unfinished[c], unfinished')
    BY <1>3 DEF Becomes
  <1>10. file[c] # NoEntry /\ ~ unfinished[c] /\ ~ lost[c] =>
           \A k \in ManagerKinds : managers[c][file[c].node][k] = file[c][k]
    BY OfChain DEF WiringOK
  <1>11. Moved(c, r2, contracts[c], managers[c], lists[c], unfinished[c])
    BY <1>2, <1>3, <1>5, <1>9, OfChain DEF Moved
  <1>12. Keeps(c, run[c], r2, contracts[c], contracts[c], managers[c], managers[c],
               lists[c], lists[c], unfinished[c])
    BY <1>4, <1>7, <1>8, <1>10, OfChain DEF Keeps
  <1>13. QED BY <1>11, <1>12, ScriptStep

-----------------------------------------------------------------------------
\* A step h that deploys nothing, done or, in the minting, gone on with.
Other(h, r, r2, ms, ms2, l, l2, u) ==
    /\ r.left # << >> /\ h = Head(r.left) /\ h \notin Kinds
    /\ \/ r2.left = Tail(r.left)
       \/ r2.left = r.left /\ h = "mint" /\ r2.snapshot = r.snapshot /\ ms2 = ms
    /\ r2.script = r.script /\ r2.entry = r.entry /\ r2.failed = r.failed
    /\ DOMAIN ms2 = DOMAIN ms
    /\ \A n \in DOMAIN ms2 : n # r.entry.node => ms2[n] = ms[n]
    /\ \A k \in ManagerKinds :
         \/ ms2[r.entry.node][k] = ms[r.entry.node][k] /\ h # Registering(k)
         \/ ms2[r.entry.node][k] = r.entry[k]
    /\ \/ ms2 = ms
       \/ u /\ ms2[r.entry.node].report = ms[r.entry.node].report
       \/ r.script \in {"deployment", "workaround"}
    /\ l.black \subseteq l2.black /\ l.white \subseteq l2.white
    /\ \A w \in l2.white : w \in l.white \/ w[1] = r.entry.token
    /\ l2.white # l.white => r.entry.token # None
    /\ h = "blacklist" => <<r.entry.token, r.entry.node>> \in l2.black
    /\ h = "whitelist" =>
         \A k \in Payers : <<r.entry.token, r.entry[k], r.entry.node>> \in l2.white
    /\ h = "read" => r2.snapshot = file

LEMMA OtherStep ==
    ASSUME DeploymentInv, NEW c \in Chains, NEW r2, NEW ms2, NEW l2, NEW u, NEW h,
           Moved(c, r2, contracts[c], ms2, l2, u), unfinished[c] => u,
           Other(h, run[c], r2, managers[c], ms2, lists[c], l2, u)
    PROVE  DeploymentInv'
  <1> DEFINE cs == contracts[c]
             ms == managers[c]
             l == lists[c]
             r == run[c]
             e == run[c].entry
  <1>1. /\ RunTyped(r) /\ RunOK(c, r, cs, ms, l) /\ Known(cs, ms, l) /\ file[c] \in Entries
        /\ EntryOK(file[c], r, cs, ms, l) /\ cs \in Seq(Contract) /\ Extends(cs, cs)
        /\ WiringOK(c)
    BY OfChain
  <1>2. file \in [Chains -> Entries]
    BY DEF DeploymentInv, DeploymentTypeOK
  <1>3. /\ RunOK(c, r2, cs, ms2, l2)
        /\ r2.left # << >> /\ Head(r2.left) = "write" => r2.snapshot = file
    <2>1. CASE r2.left = Tail(r.left)
      <3>1. /\ Head(r.left) = "read" => r2.snapshot \in [Chains -> Entries]
            /\ Head(r.left) = "read" => r2.snapshot = file
        BY <1>2 DEF Other
      <3>2. Does(r, r2, ms, ms2, l, l2)
        BY <2>1, <3>1 DEF Does, Other
      <3> HIDE DEF cs, ms, l, r
      <3>3. /\ RunOK(c, r2, cs, ms2, l2)
            /\ r2.left # << >> /\ Head(r2.left) = "write" => Head(r.left) = "read"
        BY <1>1, <3>2, StepDone
      <3>4. QED BY <3>1, <3>3
    <2>2. CASE r2.left = r.left /\ h = "mint" /\ r2.snapshot = r.snapshot /\ ms2 = ms
      <3>1. /\ r2.script = r.script /\ r2.entry = r.entry /\ r2.failed = r.failed
            /\ l.black \subseteq l2.black /\ l.white \subseteq l2.white
            /\ h = Head(r.left)
        BY DEF Other
      <3>2. RunOK(c, r2, cs, ms, l2)
        BY <1>1, <2>2, <3>1, StepGoesOn
      <3>3. QED BY <2>2, <3>1, <3>2
    <2>3. QED BY <2>1, <2>2 DEF Other
  <1>4. Known(cs, ms2, l2)
    <2>1. l2.white # l.white => In(cs, e.token)
      BY <1>1 DEF RunOK, Placed, Kinds, Other
    <2>2. \A w \in l2.white : In(cs, w[1])
      BY <1>1, <2>1 DEF Known, Other
    <2>3. QED BY <1>1, <2>2 DEF Known, Other
  <1>5. ASSUME NEW x \in Entries, Good(x, cs, ms, l), Fresh(r, x)
        PROVE  /\ ms2[x.node].report = ms[x.node].report
               /\ ~ u => ms2[x.node] = ms[x.node]
    <2>1. x.node \in DOMAIN ms2 /\ x.node # None
      BY <1>5 DEF Good, Placed, Kinds, Other
    <2>2. CASE x.node # e.node
      BY <2>1, <2>2 DEF Other
    <2>3. CASE x.node = e.node
      <3>1. run[c].script \notin {"deployment", "workaround"}
        BY <1>5, <2>1, <2>3 DEF Fresh, Other
      <3>2. QED BY <2>3, <3>1 DEF Other
    <2>4. QED BY <2>2, <2>3
  <1>6. ASSUME file[c] # NoEntry, ~ u, ~ lost[c]
        PROVE  \A k \in ManagerKinds : ms2[file[c].node][k] = file[c][k]
    <2>1. ms2[file[c].node] = ms[file[c].node]
      BY <1>1, <1>5, <1>6 DEF EntryOK
    <2>2. \A k \in ManagerKinds : ms[file[c].node][k] = file[c][k]
      BY <1>1, <1>6 DEF WiringOK
    <2>3. QED BY <2>1, <2>2
  <1>7. ASSUME NEW x \in Entries, EntryOK(x, r, cs, ms, l)
        PROVE  Fresh(r2, x)
    BY <1>7 DEF EntryOK, Fresh, Other
  <1>8. /\ DOMAIN ms \subseteq DOMAIN ms2
        /\ l.black \subseteq l2.black /\ l.white \subseteq l2.white
    BY DEF Other
  <1> HIDE DEF cs, ms, l, r
  <1>9. Keeps(c, r, r2, cs, cs, ms, ms2, l, l2, u)
    BY <1>1, <1>3, <1>4, <1>5, <1>6, <1>7, <1>8 DEF Keeps
  <1>10. QED BY <1>9, ScriptStep DEF cs, ms, l, r

\* Of a script that deploys nothing any more, everything is there.
LEMMA AllDeployed ==
    ASSUME NEW c, NEW r, NEW cs, NEW ms, NEW l, RunTyped(r), RunOK(c, r, cs, ms, l),
           r.left # << >>, Head(r.left) \notin Kinds
    PROVE  /\ \A k \in Kinds : r.entry[k] # None
           /\ r.entry.node \in DOMAIN ms
           /\ r.script = "renewal" => Head(r.left) # "registerReport"
  <1>1. OnItsWay(r.left, StepsOf(c, r.script)) /\ DoneSoFar(c, r, ms, l)
    BY DEF RunOK
  <1>2. Head(r.left) \in AllSteps /\ Head(r.left) \in StepsOf(c, r.script)
    BY <1>1, EarlierIsDone
  <1>3. \A k \in Kinds : ~ ToDo(r.left, k)
    <2>1. TAKE k \in Kinds
    <2>2. Rank(k) \in 1 .. 5
      BY DEF Rank, Kinds
    <2>3. Rank(Head(r.left)) \in 6 .. 13
      BY <1>2 DEF Rank, Kinds, AllSteps
    <2>4. \A i \in 1 .. 5, j \in 6 .. 13 : ~ (j <= i)
      OBVIOUS
    <2>5. k \in AllSteps
      BY DEF Kinds, AllSteps
    <2>6. QED BY <1>1, <2>2, <2>3, <2>4, <2>5, EarlierIsDone
  <1>4. \A k \in Kinds : r.entry[k] # None
    BY <1>1, <1>3 DEF DoneSoFar
  <1>5. r.entry.node \in DOMAIN ms
    BY <1>4 DEF RunOK, Placed, Kinds
  <1>6. r.script = "renewal" => Head(r.left) # "registerReport"
    BY <1>2 DEF StepsOf, WiringSteps
  <1>7. QED BY <1>4, <1>5, <1>6

-----------------------------------------------------------------------------
LEMMA DeployStep ==
    ASSUME DeploymentInv, NEW c \in Chains, NEW k \in Kinds, Deploy(c, k)
    PROVE  DeploymentInv'
  <1> DEFINE cs == contracts[c]
             ms == managers[c]
             l == lists[c]
             r == run[c]
             a == Next1(cs)
             x == [kind |-> k, token |-> r.entry.token, parent |-> r.entry.node]
             cs2 == Append(cs, x)
             ms2 == IF k = "node"
                    THEN [n \in DOMAIN ms \cup {a} |-> IF n = a THEN NoManagers ELSE ms[n]]
                    ELSE ms
             r2 == [[r EXCEPT !.left = Tail(@)] EXCEPT !.entry[k] = a]
  <1>1. /\ RunTyped(r) /\ RunOK(c, r, cs, ms, l) /\ Known(cs, ms, l) /\ file[c] \in Entries
        /\ EntryOK(file[c], r, cs, ms, l) /\ cs \in Seq(Contract)
        /\ WiringOK(c) /\ NodesTyped(ms) /\ ListsTyped(l) /\ unfinished[c] \in BOOLEAN
    BY OfChain
  <1>2. DOMAIN run = Chains /\ DOMAIN contracts = Chains /\ DOMAIN managers = Chains
    BY DEF DeploymentInv, DeploymentTypeOK
  <1>3. /\ Becomes(run, c, r2, run') /\ Becomes(contracts, c, cs2, contracts')
        /\ Becomes(managers, c, ms2, managers') /\ Becomes(lists, c, l, lists')
        /\ Becomes(unfinished, c, unfinished[c], unfinished') /\ file' = file /\ lost' = lost
    BY <1>2 DEF Deploy, Becomes, Done, Next1, fileVars
  <1>4. r.left # << >> /\ Head(r.left) = k
    BY DEF Deploy, AtStep, Idle
  <1>5. x \in Contract
    BY <1>1 DEF RunTyped, Contract, Entries
  <1>6. /\ a \in Address /\ a # None /\ ~ In(cs, a) /\ cs2 \in Seq(Contract) /\ Extends(cs, cs2)
        /\ In(cs2, a) /\ \A b : In(cs, b) => In(cs2, b)
    <2> HIDE DEF x, cs
    <2>1. QED BY <1>1, <1>5, NextAddress DEF cs
  <1>7. /\ r2.left = Tail(r.left) /\ r2.script = r.script /\ r2.failed = r.failed
        /\ r2.entry = [r.entry EXCEPT ![k] = a] /\ r2.snapshot = r.snapshot
    BY <1>1 DEF RunTyped
  <1>8. RunTyped(r2)
    <2>1. r2.entry \in Entries
      BY <1>1, <1>6, <1>7 DEF RunTyped, Entries, Kinds
    <2>2. r2.left \in Seq(AllSteps)
      BY <1>1, <1>4, <1>7 DEF RunTyped
    <2> HIDE DEF a
    <2>3. QED BY <1>1, <2>1, <2>2 DEF RunTyped
  <1>9. /\ DOMAIN ms \subseteq DOMAIN ms2 /\ DOMAIN ms2 \subseteq DOMAIN ms \cup {a}
        /\ \A n \in DOMAIN ms : ms2[n] = ms[n]
        /\ k = "node" => a \in DOMAIN ms2
    <2>1. a \notin DOMAIN ms
      BY <1>1, <1>6 DEF Known
    <2> HIDE DEF a, ms
    <2>2. QED BY <2>1
  <1>10. NodesTyped(ms2)
    <2>1. NoManagers \in Registered
      BY DEF NoManagers, Registered, Address, None
    <2> HIDE DEF a, ms
    <2>2. QED BY <1>1, <2>1 DEF NodesTyped
  <1> HIDE DEF cs, ms, l, r, a, ms2, r2
  <1>11. RunOK(c, r2, cs2, ms2, l) /\ ~ (r2.left # << >> /\ Head(r2.left) = "write")
    <2>1. Deploys(k, r, r2, cs, cs2, ms, ms2)
      BY <1>4, <1>7, <1>9 DEF Deploys, a
    <2> HIDE DEF cs2
    <2>2. QED BY <1>1, <2>1, DeployRun
  <1> HIDE DEF cs2, x
  <1>12. Known(cs2, ms2, l)
    BY <1>1, <1>6, <1>9 DEF Known
  <1>13. ASSUME NEW y \in Entries, Good(y, cs, ms, l)
         PROVE  ms2[y.node] = ms[y.node] /\ y.node # a
    <2>1. y.node \in DOMAIN ms /\ In(cs, y.node)
      BY <1>13 DEF Good, Placed, Kinds
    <2>2. QED BY <1>6, <1>9, <2>1
  <1>14. ASSUME file[c] # NoEntry, ~ unfinished[c], ~ lost[c]
         PROVE  \A m \in ManagerKinds : ms2[file[c].node][m] = file[c][m]
    <2>1. ms2[file[c].node] = ms[file[c].node]
      BY <1>1, <1>13, <1>14 DEF EntryOK
    <2>2. \A m \in ManagerKinds : ms[file[c].node][m] = file[c][m]
      BY <1>1, <1>14 DEF WiringOK, ms
    <2>3. QED BY <2>1, <2>2
  <1>15. ASSUME NEW y \in Entries, EntryOK(y, r, cs, ms, l)
         PROVE  Fresh(r2, y)
    <2>1. r2.entry.node = r.entry.node \/ r2.entry.node = a
      BY <1>1, <1>7 DEF RunTyped, Entries, Kinds
    <2>2. y.node # a
      BY <1>6, <1>13, <1>15 DEF EntryOK, NoEntry
    <2>3. QED BY <1>4, <1>7, <1>15, <2>1, <2>2 DEF EntryOK, Fresh
  <1>16. Moved(c, r2, cs2, ms2, l, unfinished[c])
    BY <1>1, <1>3, <1>6, <1>8, <1>10 DEF Moved
  <1>17. Keeps(c, r, r2, cs, cs2, ms, ms2, l, l, unfinished[c])
    BY <1>6, <1>9, <1>11, <1>12, <1>13, <1>14, <1>15 DEF Keeps
  <1>18. QED BY <1>16, <1>17, ScriptStep DEF cs, ms, l, r

\* A step that registers no manager either.
Goes(h, r, r2, l, l2) ==
    /\ r.left # << >> /\ h = Head(r.left) /\ h \notin Kinds /\ \A k \in ManagerKinds : h # Registering(k)
    /\ \/ r2.left = Tail(r.left)
       \/ r2.left = r.left /\ h = "mint" /\ r2.snapshot = r.snapshot
    /\ r2.script = r.script /\ r2.entry = r.entry /\ r2.failed = r.failed
    /\ l.black \subseteq l2.black /\ l.white \subseteq l2.white
    /\ \A w \in l2.white : w \in l.white \/ w[1] = r.entry.token
    /\ h = "blacklist" => <<r.entry.token, r.entry.node>> \in l2.black
    /\ h = "whitelist" =>
         \A k \in Payers : <<r.entry.token, r.entry[k], r.entry.node>> \in l2.white
    /\ h = "read" => r2.snapshot = file

LEMMA RunStep ==
    ASSUME DeploymentInv, NEW c \in Chains, NEW h, NEW r2, RunTyped(r2), NEW l2, ListsTyped(l2),
           Becomes(run, c, r2, run'), Becomes(lists, c, l2, lists'),
           contracts' = contracts, managers' = managers, unfinished' = unfinished,
           file' = file, lost' = lost, Goes(h, run[c], r2, lists[c], l2)
    PROVE  DeploymentInv'
  <1> USE DEF Goes
  <1>2. /\ Becomes(managers, c, managers[c], managers')
        /\ Becomes(unfinished, c, unfinished[c], unfinished')
    BY DEF Becomes
  <1>3. /\ RunTyped(run[c]) /\ RunOK(c, run[c], contracts[c], managers[c], lists[c])
        /\ NodesTyped(managers[c]) /\ unfinished[c] \in BOOLEAN
    BY OfChain
  <1>4. run[c].entry.token # None
    BY <1>3, AllDeployed DEF Kinds
  <1>5. Other(h, run[c], r2, managers[c], managers[c], lists[c], l2, unfinished[c])
    BY <1>4 DEF Other
  <1>6. Moved(c, r2, contracts[c], managers[c], l2, unfinished[c])
    <2>1. Becomes(contracts, c, contracts[c], contracts') /\ contracts[c] \in Seq(Contract)
      BY OfChain DEF Becomes
    <2>2. QED BY <1>2, <1>3, <2>1 DEF Moved
  <1>7. QED BY <1>5, <1>6, OtherStep

-----------------------------------------------------------------------------
\* The run after the batch at hand.
NextBatch(r) ==
    LET m == r.minting
        last == m.index = GroupSize[Groups[m.group]]
        after == [m EXCEPT !.wallets = Flushed(@), !.minted = FALSE,
                           !.group = IF last THEN @ + 1 ELSE @,
                           !.index = IF last THEN 0 ELSE @]
    IN IF last /\ m.group = Len(Groups)
       THEN [[r EXCEPT !.left = Tail(@)] EXCEPT !.minting = StartOfMinting]
       ELSE [r EXCEPT !.minting = after]

LEMMA NextBatchGoes ==
    ASSUME NEW r, RunTyped(r), r.left # << >>, Head(r.left) = "mint"
    PROVE  /\ RunTyped(NextBatch(r))
           /\ NextBatch(r).left \in {r.left, Tail(r.left)} /\ NextBatch(r).snapshot = r.snapshot
           /\ NextBatch(r).script = r.script /\ NextBatch(r).entry = r.entry
           /\ NextBatch(r).failed = r.failed
  <1> DEFINE m == r.minting
             last == m.index = GroupSize[Groups[m.group]]
             after == [m EXCEPT !.wallets = Flushed(@), !.minted = FALSE,
                                !.group = IF last THEN @ + 1 ELSE @,
                                !.index = IF last THEN 0 ELSE @]
             done == [[r EXCEPT !.left = Tail(@)] EXCEPT !.minting = StartOfMinting]
             goes == [r EXCEPT !.minting = after]
  <1>1. << >> \in Batches
    BY DEF Batches
  <1>2. after \in [group : Nat, index : Nat, wallets : Batches, minted : BOOLEAN]
    <2>1. m \in [group : Nat, index : Nat, wallets : Batches, minted : BOOLEAN]
      BY DEF RunTyped
    <2> DEFINE g == IF last THEN m.group + 1 ELSE m.group
               i == IF last THEN 0 ELSE m.index
    <2>2. g \in Nat /\ i \in Nat
      BY <2>1
    <2>3. after = [m EXCEPT !.wallets = << >>, !.minted = FALSE, !.group = g, !.index = i]
      BY DEF Flushed
    <2> HIDE DEF m, last, g, i, after
    <2>4. QED BY <1>1, <2>1, <2>2, <2>3
  <1>3. StartOfMinting \in [group : Nat, index : Nat, wallets : Batches, minted : BOOLEAN]
    BY <1>1 DEF StartOfMinting
  <1>4. Tail(r.left) \in Seq(AllSteps)
    BY DEF RunTyped
  <1> HIDE DEF last, after, m
  <1>5. /\ RunTyped(goes) /\ goes.left = r.left /\ goes.snapshot = r.snapshot
        /\ goes.script = r.script /\ goes.entry = r.entry /\ goes.failed = r.failed
    BY <1>2 DEF RunTyped
  <1>6. /\ RunTyped(done) /\ done.left = Tail(r.left) /\ done.snapshot = r.snapshot
        /\ done.script = r.script /\ done.entry = r.entry /\ done.failed = r.failed
    BY <1>3, <1>4 DEF RunTyped
  <1>7. NextBatch(r) = IF last /\ m.group = Len(Groups) THEN done ELSE goes
    BY DEF NextBatch, last, m, after
  <1> HIDE DEF done, goes
  <1>8. QED BY <1>5, <1>6, <1>7

LEMMA MintStep ==
    ASSUME DeploymentInv, NEW c \in Chains, AddAccount(c) \/ MintBatch(c) \/ WhitelistBatch(c)
    PROVE  DeploymentInv'
  <1> DEFINE r == run[c]
             l == lists[c]
  <1>1. /\ RunTyped(r) /\ ListsTyped(l) /\ DOMAIN run = Chains /\ DOMAIN lists = Chains
    BY OfChain DEF DeploymentInv, DeploymentTypeOK
  <1>2. r.left # << >> /\ Head(r.left) = "mint"
    BY DEF AddAccount, MintBatch, WhitelistBatch, AtStep, Idle
  <1>3. /\ "mint" \notin Kinds /\ \A k \in ManagerKinds : "mint" # Registering(k)
        /\ "mint" \notin {"blacklist", "whitelist", "read"}
    BY DEF Kinds, ManagerKinds, Registering
  <1>4. /\ contracts' = contracts /\ managers' = managers /\ unfinished' = unfinished
        /\ file' = file /\ lost' = lost
    BY DEF AddAccount, MintBatch, WhitelistBatch, deployedVars, fileVars
  <1>5. NextAccount(c) = NextBatch(r)
    BY DEF NextAccount, NextBatch, GroupAt, Done
  <1>6. /\ RunTyped(NextBatch(r))
        /\ NextBatch(r).left \in {r.left, Tail(r.left)} /\ NextBatch(r).snapshot = r.snapshot
        /\ NextBatch(r).script = r.script /\ NextBatch(r).entry = r.entry
        /\ NextBatch(r).failed = r.failed
    BY <1>1, <1>2, NextBatchGoes
  <1>7. CASE AddAccount(c)
    <2> DEFINE m == [r.minting EXCEPT !.index = @ + 1,
                       !.wallets = Append(@, <<GroupAt(c), r.minting.index + 1>>)]
               r2 == [r EXCEPT !.minting = m]
    <2>1. run' = [run EXCEPT ![c] = r2] /\ lists' = lists
      <3>1. lists' = lists
        BY <1>7 DEF AddAccount, deployedVars, fileVars
      <3>2. run' = [run EXCEPT ![c].minting.index = @ + 1,
                     ![c].minting.wallets =
                        Append(@, <<GroupAt(c), run[c].minting.index + 1>>)]
        BY <1>7 DEF AddAccount
      <3>3. QED BY <3>1, <3>2
    <2>2. m \in [group : Nat, index : Nat, wallets : Batches, minted : BOOLEAN]
      <3>1. r.minting \in [group : Nat, index : Nat, wallets : Batches, minted : BOOLEAN]
        BY <1>1 DEF RunTyped
      <3>2. <<GroupAt(c), r.minting.index + 1>> \in {Groups[g] : g \in Nat} \X Nat
        BY <3>1 DEF GroupAt
      <3> DEFINE n == r.minting
                 w == <<GroupAt(c), n.index + 1>>
                 S == {Groups[g] : g \in Nat} \X Nat
      <3>3. w \in S /\ n.wallets \in Seq(S)
        BY <3>1, <3>2 DEF Batches
      <3>4. Append(n.wallets, w) \in Batches
        <4> HIDE DEF S, w
        <4>1. Append(n.wallets, w) \in Seq(S)
          BY <3>3
        <4>2. QED BY <4>1 DEF Batches, S
      <3> HIDE DEF n, w
      <3>5. m = [n EXCEPT !.index = @ + 1, !.wallets = Append(@, w)]
        BY DEF n, w
      <3> HIDE DEF m
      <3> DEFINE i == n.index + 1
      <3>6. i \in Nat /\ n \in [group : Nat, index : Nat, wallets : Batches, minted : BOOLEAN]
        BY <3>1 DEF n
      <3>7. m = [n EXCEPT !.index = i, !.wallets = Append(n.wallets, w)]
        BY <3>5
      <3> HIDE DEF i
      <3>8. QED BY <3>4, <3>6, <3>7
    <2> HIDE DEF m
    <2>3. /\ RunTyped(r2) /\ r2.left = r.left /\ r2.snapshot = r.snapshot
          /\ r2.script = r.script /\ r2.entry = r.entry /\ r2.failed = r.failed
      BY <1>1, <2>2 DEF RunTyped
    <2> HIDE DEF r2
    <2>4. Goes("mint", r, r2, l, l)
      BY <1>2, <1>3, <2>3 DEF Goes
    <2>5. Becomes(run, c, r2, run') /\ Becomes(lists, c, l, lists')
      BY <1>1, <2>1 DEF Becomes
    <2>6. QED BY <1>1, <1>4, <2>3, <2>4, <2>5, RunStep
  <1>8. CASE MintBatch(c)
    <2> DEFINE r2 == IF GroupAt(c) = Brokers THEN [r EXCEPT !.minting.minted = TRUE]
                     ELSE NextBatch(r)
    <2>1. run' = [run EXCEPT ![c] = r2] /\ lists' = lists
      BY <1>1, <1>5, <1>8 DEF MintBatch, deployedVars, fileVars
    <2>2. RunTyped(r2) /\ Goes("mint", r, r2, l, l)
      <3>1. CASE GroupAt(c) = Brokers
        <4>1. /\ RunTyped(r2) /\ r2.left = r.left /\ r2.snapshot = r.snapshot
              /\ r2.script = r.script /\ r2.entry = r.entry /\ r2.failed = r.failed
          BY <1>1, <3>1 DEF RunTyped
        <4>2. QED BY <1>2, <1>3, <4>1 DEF Goes
      <3>2. CASE GroupAt(c) # Brokers
        BY <1>2, <1>3, <1>6, <3>2 DEF Goes
      <3>3. QED BY <3>1, <3>2
    <2> HIDE DEF r2
    <2>3. Becomes(run, c, r2, run') /\ Becomes(lists, c, l, lists')
      BY <1>1, <2>1 DEF Becomes
    <2>4. QED BY <1>1, <1>4, <2>2, <2>3, RunStep
  <1>9. CASE WhitelistBatch(c)
    <2> DEFINE e == r.entry
               wallets == r.minting.wallets
               l2 == [l EXCEPT !.white =
                         @ \cup {<<e.token, wallets[i], e.node>> : i \in DOMAIN wallets}]
               r2 == NextBatch(r)
    <2>1. run' = [run EXCEPT ![c] = r2] /\ lists' = [lists EXCEPT ![c] = l2]
      BY <1>1, <1>5, <1>9 DEF WhitelistBatch
    <2>2. /\ ListsTyped(l2) /\ l2.black = l.black /\ l.white \subseteq l2.white
          /\ \A w \in l2.white : w \in l.white \/ w[1] = e.token
      <3> DEFINE added == {<<e.token, wallets[i], e.node>> : i \in DOMAIN wallets}
      <3>1. l2 = [l EXCEPT !.white = @ \cup added] /\ \A w \in added : w[1] = e.token
        OBVIOUS
      <3> HIDE DEF added, l2
      <3>2. QED BY <1>1, <3>1 DEF ListsTyped
    <2> HIDE DEF l2
    <2>3. Goes("mint", r, r2, l, l2)
      BY <1>2, <1>3, <1>6, <2>2 DEF Goes
    <2> HIDE DEF r2
    <2>4. Becomes(run, c, r2, run') /\ Becomes(lists, c, l2, lists')
      BY <1>1, <2>1 DEF Becomes
    <2>5. QED BY <1>1, <1>4, <1>6, <2>2, <2>3, <2>4, RunStep DEF r2
  <1>10. QED BY <1>7, <1>8, <1>9

-----------------------------------------------------------------------------
LEMMA DoneRun ==
    ASSUME NEW r, RunTyped(r), r.left # << >>, NEW x, x = [r EXCEPT !.left = Tail(@)]
    PROVE  /\ RunTyped(x) /\ x.left = Tail(r.left) /\ x.snapshot = r.snapshot
           /\ x.script = r.script /\ x.entry = r.entry /\ x.failed = r.failed
  <1>1. Tail(r.left) \in Seq(AllSteps)
    BY DEF RunTyped
  <1>2. QED BY <1>1 DEF RunTyped

LEMMA RegisterStep ==
    ASSUME DeploymentInv, NEW c \in Chains, NEW k \in ManagerKinds, NEW step,
           step = Registering(k), Register(c, k, step)
    PROVE  DeploymentInv'
  <1> DEFINE r == run[c]
             ms == managers[c]
             l == lists[c]
             e == r.entry
             u == unfinished[c] \/ r.script = "renewal"
             r2 == [r EXCEPT !.left = Tail(@)]
             ms2 == [ms EXCEPT ![e.node][k] = e[k]]
  <1>1. /\ RunTyped(r) /\ ListsTyped(l) /\ NodesTyped(ms) /\ unfinished[c] \in BOOLEAN
        /\ DOMAIN run = Chains /\ DOMAIN managers = Chains /\ DOMAIN unfinished = Chains
        /\ RunOK(c, r, contracts[c], ms, l)
    BY OfChain DEF DeploymentInv, DeploymentTypeOK
  <1>2. r.left # << >> /\ Head(r.left) = step
    BY DEF Register, AtStep, Idle
  <1>3. /\ step \notin Kinds /\ step \notin {"blacklist", "whitelist", "read", "mint"}
        /\ \A m \in ManagerKinds : m # k => step # Registering(m)
    BY DEF Kinds, ManagerKinds, Registering
  <1>4. /\ \A m \in Kinds : e[m] # None
        /\ e.node \in DOMAIN ms
        /\ r.script = "renewal" => step # "registerReport"
    BY <1>1, <1>2, <1>3, AllDeployed
  <1>5. /\ run' = [run EXCEPT ![c] = r2] /\ managers' = [managers EXCEPT ![c] = ms2]
        /\ unfinished' = [unfinished EXCEPT ![c] = u]
        /\ contracts' = contracts /\ lists' = lists /\ file' = file /\ lost' = lost
    BY DEF Register, Done, fileVars
  <1>6. /\ RunTyped(r2) /\ r2.left = Tail(r.left) /\ r2.snapshot = r.snapshot
        /\ r2.script = r.script /\ r2.entry = r.entry /\ r2.failed = r.failed
    BY <1>1, <1>2, DoneRun
  <1> HIDE DEF r2
  <1>7. /\ DOMAIN ms2 = DOMAIN ms /\ NodesTyped(ms2)
        /\ \A n \in DOMAIN ms2 : n # e.node => ms2[n] = ms[n]
        /\ ms2[e.node][k] = e[k]
        /\ \A m \in ManagerKinds : m # k => ms2[e.node][m] = ms[e.node][m]
    <2>1. e[k] \in Address
      BY <1>1 DEF RunTyped, Entries, ManagerKinds
    <2>2. ms[e.node] \in Registered
      BY <1>1, <1>4 DEF NodesTyped
    <2>3. [ms[e.node] EXCEPT ![k] = e[k]] \in Registered
      BY <2>1, <2>2 DEF Registered, ManagerKinds
    <2> DEFINE a == e.node
               b == e[k]
               reg == [ms[a] EXCEPT ![k] = b]
    <2>4. ms2 = [ms EXCEPT ![a] = reg]
      OBVIOUS
    <2>5. \A m \in ManagerKinds : reg[m] = IF m = k THEN b ELSE ms[a][m]
      BY <2>2 DEF Registered, ManagerKinds
    <2> HIDE DEF ms2, reg, ms, a
    <2>6. DOMAIN ms2 = DOMAIN ms /\ ms2[a] = reg /\ \A n \in DOMAIN ms : n # a => ms2[n] = ms[n]
      BY <1>4, <2>4 DEF a
    <2>7. NodesTyped(ms2)
      BY <1>1, <1>4, <2>3, <2>4 DEF NodesTyped, a, reg
    <2>8. QED BY <2>5, <2>6, <2>7 DEF a
  <1> HIDE DEF ms2
  <1>8. \/ u /\ ms2[e.node].report = ms[e.node].report
        \/ r.script \in {"deployment", "workaround"}
    <2>1. CASE r.script = "renewal"
      <3>1. k # "report"
        BY <1>4, <2>1 DEF Registering
      <3>2. QED BY <1>7, <2>1, <3>1 DEF ManagerKinds
    <2>2. CASE r.script # "renewal"
      <3>1. r.script # "none"
        BY <1>1, <1>2, StepsAhead DEF RunOK, RunTyped
      <3>2. QED BY <1>1, <2>2, <3>1 DEF RunTyped, Scripts
    <2>3. QED BY <2>1, <2>2
  <1>9. Other(step, r, r2, ms, ms2, l, l, u)
    BY <1>2, <1>3, <1>6, <1>7, <1>8 DEF Other
  <1>10. /\ Becomes(run, c, r2, run') /\ Becomes(managers, c, ms2, managers')
         /\ Becomes(lists, c, l, lists') /\ Becomes(unfinished, c, u, unfinished')
    BY <1>1, <1>5 DEF Becomes
  <1>11. (unfinished[c] => u) /\ u \in BOOLEAN
    OBVIOUS
  <1> HIDE DEF u
  <1>12. Moved(c, r2, contracts[c], ms2, l, u)
    <2>1. Becomes(contracts, c, contracts[c], contracts') /\ contracts[c] \in Seq(Contract)
      BY <1>5, OfChain DEF Becomes
    <2>2. QED BY <1>1, <1>5, <1>6, <1>7, <1>10, <1>11, <2>1 DEF Moved
  <1>13. QED BY <1>9, <1>11, <1>12, OtherStep

LEMMA ListingStep ==
    ASSUME DeploymentInv, NEW c \in Chains, Blacklist(c) \/ Whitelist(c) \/ ReadFile(c)
    PROVE  DeploymentInv'
  <1> DEFINE r == run[c]
             l == lists[c]
             e == r.entry
             done == [r EXCEPT !.left = Tail(@)]
  <1>1. /\ RunTyped(r) /\ ListsTyped(l) /\ DOMAIN run = Chains /\ DOMAIN lists = Chains
        /\ file \in [Chains -> Entries]
    BY OfChain DEF DeploymentInv, DeploymentTypeOK
  <1>2. r.left # << >>
    BY DEF Blacklist, Whitelist, ReadFile, AtStep, Idle
  <1>3. \A h \in {"blacklist", "whitelist", "read"} :
            h \notin Kinds /\ \A k \in ManagerKinds : h # Registering(k)
    BY DEF Kinds, ManagerKinds, Registering
  <1>4. /\ contracts' = contracts /\ managers' = managers /\ unfinished' = unfinished
        /\ lost' = lost /\ file' = file
    BY DEF Blacklist, Whitelist, ReadFile, deployedVars, fileVars
  <1>5. /\ RunTyped(done) /\ done.left = Tail(r.left) /\ done.snapshot = r.snapshot
        /\ done.script = r.script /\ done.entry = r.entry /\ done.failed = r.failed
    BY <1>1, <1>2, DoneRun
  <1>6. CASE Blacklist(c)
    <2> DEFINE l2 == [l EXCEPT !.black = @ \cup {<<e.token, e.node>>}]
    <2>1. run' = [run EXCEPT ![c] = done] /\ lists' = [lists EXCEPT ![c] = l2]
      BY <1>1, <1>6 DEF Blacklist, Done
    <2>2. /\ ListsTyped(l2) /\ l.black \subseteq l2.black /\ l2.white = l.white
          /\ <<e.token, e.node>> \in l2.black
      BY <1>1 DEF ListsTyped
    <2>3. Head(r.left) = "blacklist"
      BY <1>6 DEF Blacklist, AtStep
    <2> HIDE DEF l2, done
    <2>4. Goes("blacklist", r, done, l, l2)
      BY <1>2, <1>3, <1>5, <2>2, <2>3 DEF Goes
    <2>5. Becomes(run, c, done, run') /\ Becomes(lists, c, l2, lists')
      BY <1>1, <2>1 DEF Becomes
    <2>6. QED BY <1>1, <1>4, <1>5, <2>2, <2>4, <2>5, RunStep
  <1>7. CASE Whitelist(c)
    <2> DEFINE l2 == [l EXCEPT !.white = @ \cup {<<e.token, e[k], e.node>> : k \in Payers}]
    <2>1. run' = [run EXCEPT ![c] = done] /\ lists' = [lists EXCEPT ![c] = l2]
      BY <1>1, <1>7 DEF Whitelist, Done
    <2>2. /\ ListsTyped(l2) /\ l2.black = l.black /\ l.white \subseteq l2.white
          /\ \A w \in l2.white : w \in l.white \/ w[1] = e.token
          /\ \A k \in Payers : <<e.token, e[k], e.node>> \in l2.white
      BY <1>1 DEF ListsTyped
    <2>3. Head(r.left) = "whitelist"
      BY <1>7 DEF Whitelist, AtStep
    <2> HIDE DEF l2, done
    <2>4. Goes("whitelist", r, done, l, l2)
      BY <1>2, <1>3, <1>5, <2>2, <2>3 DEF Goes
    <2>5. Becomes(run, c, done, run') /\ Becomes(lists, c, l2, lists')
      BY <1>1, <2>1 DEF Becomes
    <2>6. QED BY <1>1, <1>4, <1>5, <2>2, <2>4, <2>5, RunStep
  <1>8. CASE ReadFile(c)
    <2> DEFINE r2 == [done EXCEPT !.snapshot = file]
    <2>1. run' = [run EXCEPT ![c] = r2] /\ lists' = lists
      BY <1>1, <1>8 DEF ReadFile, Done, deployedVars, fileVars
    <2>2. /\ RunTyped(r2) /\ r2.left = Tail(r.left) /\ r2.snapshot = file
          /\ r2.script = r.script /\ r2.entry = r.entry /\ r2.failed = r.failed
      <3> HIDE DEF done
      <3>1. QED BY <1>1, <1>5 DEF RunTyped
    <2>3. Head(r.left) = "read"
      BY <1>8 DEF ReadFile, AtStep
    <2> HIDE DEF r2
    <2>4. Goes("read", r, r2, l, l)
      BY <1>2, <1>3, <2>2, <2>3 DEF Goes
    <2>5. Becomes(run, c, r2, run') /\ Becomes(lists, c, l, lists')
      BY <1>1, <2>1 DEF Becomes
    <2>6. QED BY <1>1, <1>4, <2>2, <2>4, <2>5, RunStep
  <1>9. QED BY <1>6, <1>7, <1>8

-----------------------------------------------------------------------------
\* At its last step a script has deployed, registered and listed everything.
LEMMA AllButTheFile ==
    ASSUME NEW c, NEW r, NEW cs, NEW ms, NEW l, RunTyped(r), RunOK(c, r, cs, ms, l),
           r.left # << >>, Head(r.left) = "write"
    PROVE  /\ Tail(r.left) = << >> /\ ~ r.failed /\ r.snapshot \in [Chains -> Entries]
           /\ \A k \in Kinds : r.entry[k] # None
           /\ \A k \in ManagerKinds : ms[r.entry.node][k] = r.entry[k]
           /\ Good(r.entry, cs, ms, l)
  <1>1. /\ OnItsWay(r.left, StepsOf(c, r.script)) /\ DoneSoFar(c, r, ms, l)
        /\ Placed(r.entry, cs, ms) /\ ~ r.failed
    BY DEF RunOK
  <1>2. \A s \in AllSteps : s # "write" => Rank(s) \in 1 .. 12
    BY DEF AllSteps, Rank
  <1>3. Rank("write") = 13
    BY DEF Rank
  <1>4. \A s \in AllSteps : s # "write" => ~ ToDo(r.left, s)
    <2>1. TAKE s \in AllSteps
    <2>2. HAVE s # "write"
    <2>3. ~ (Rank("write") <= Rank(s))
      BY <1>2, <1>3, <2>2
    <2>4. QED BY <1>1, <2>3, EarlierIsDone
  <1>5. Tail(r.left) = << >>
    <2> SUFFICES ASSUME Tail(r.left) # << >> PROVE FALSE
      OBVIOUS
    <2>1. OnItsWay(Tail(r.left), StepsOf(c, r.script)) /\ 13 < Rank(Head(Tail(r.left)))
      BY <1>1, <1>3, NextStep, StepsType
    <2>2. Head(Tail(r.left)) \in AllSteps
      BY <2>1, EarlierIsDone
    <2>3. Rank(Head(Tail(r.left))) \in 1 .. 13
      BY <2>2, RankType
    <2>4. QED BY <2>1, <2>3
  <1>6. \A k \in Kinds : r.entry[k] # None
    BY AllDeployed DEF Kinds
  <1>7. ASSUME NEW k \in ManagerKinds PROVE ms[r.entry.node][k] = r.entry[k]
    <2>1. Registering(k) \in AllSteps /\ Registering(k) # "write"
      BY DEF Registering, AllSteps
    <2>2. r.script # "none"
      BY <1>1, StepsAhead DEF RunTyped
    <2>3. CASE Registering(k) \in StepsOf(c, r.script)
      BY <1>1, <1>4, <2>1, <2>3 DEF DoneSoFar
    <2>4. CASE Registering(k) \notin StepsOf(c, r.script)
      <3>1. r.script = "renewal" /\ k = "report"
        BY <2>2, <2>4 DEF RunTyped, Scripts, StepsOf, AllSteps, WiringSteps, Registering, ManagerKinds
      <3>2. QED BY <1>1, <3>1 DEF DoneSoFar
    <2>5. QED BY <2>3, <2>4
  <1>8. /\ <<r.entry.token, r.entry.node>> \in l.black
        /\ \A k \in Payers : <<r.entry.token, r.entry[k], r.entry.node>> \in l.white
    <2>1. ~ ToDo(r.left, "blacklist") /\ ~ ToDo(r.left, "whitelist")
      BY <1>4 DEF AllSteps
    <2>2. QED BY <1>1, <2>1 DEF DoneSoFar
  <1>9. ms[r.entry.node].report = r.entry.report
    BY <1>7 DEF ManagerKinds
  <1>10. Good(r.entry, cs, ms, l)
    BY <1>1, <1>6, <1>8, <1>9 DEF Good
  <1>11. r.snapshot \in [Chains -> Entries]
    BY <1>1 DEF DoneSoFar
  <1>12. QED BY <1>1, <1>5, <1>6, <1>7, <1>10, <1>11

LEMMA WriteStep == ASSUME DeploymentInv, NEW c \in Chains, WriteFile(c) PROVE DeploymentInv'
  <1> DEFINE r == run[c]
             snap == r.snapshot
             r2 == [[r EXCEPT !.left = Tail(@)] EXCEPT !.snapshot = << >>]
  <1>1. /\ RunTyped(r) /\ DOMAIN run = Chains /\ DOMAIN unfinished = Chains
        /\ RunOK(c, r, contracts[c], managers[c], lists[c]) /\ file \in [Chains -> Entries]
        /\ lost \in [Chains -> BOOLEAN] /\ r.entry \in Entries
    BY OfChain DEF DeploymentInv, DeploymentTypeOK, RunTyped
  <1>2. r.left # << >> /\ Head(r.left) = "write"
    BY DEF WriteFile, AtStep, Idle
  <1>3. /\ Tail(r.left) = << >> /\ ~ r.failed /\ snap \in [Chains -> Entries]
        /\ \A k \in Kinds : r.entry[k] # None
        /\ \A k \in ManagerKinds : managers[c][r.entry.node][k] = r.entry[k]
        /\ Good(r.entry, contracts[c], managers[c], lists[c])
    BY <1>1, <1>2, AllButTheFile
  <1>4. /\ file' = [snap EXCEPT ![c] = r.entry]
        /\ lost' = [d \in Chains |-> d # c /\ (lost[d] \/ snap[d] # file[d])]
        /\ unfinished' = [unfinished EXCEPT ![c] = FALSE]
        /\ run' = [run EXCEPT ![c] = r2]
        /\ contracts' = contracts /\ managers' = managers /\ lists' = lists
    BY DEF WriteFile, Done, deployedVars
  <1>5. /\ RunTyped(r2) /\ r2.left = << >> /\ r2.entry = r.entry /\ r2.script = r.script
        /\ r2.failed = r.failed
    <2>1. << >> \in Seq(AllSteps)
      OBVIOUS
    <2> DEFINE x == [r EXCEPT !.left = Tail(@)]
    <2>2. /\ RunTyped(x) /\ x.left = Tail(r.left) /\ x.script = r.script /\ x.entry = r.entry
          /\ x.failed = r.failed
      BY <1>1, <1>2, DoneRun
    <2>3. r2 = [x EXCEPT !.snapshot = << >>]
      OBVIOUS
    <2> HIDE DEF x, r2
    <2>4. QED BY <1>3, <2>2, <2>3 DEF RunTyped
  <1> HIDE DEF r2
  <1>6. /\ file' \in [Chains -> Entries] /\ file'[c] = r.entry
        /\ \A d \in Chains : d # c => file'[d] = snap[d]
        /\ run'[c] = r2 /\ \A d \in Chains : d # c => run'[d] = run[d]
        /\ DOMAIN run' = Chains /\ DOMAIN unfinished' = Chains
        /\ unfinished'[c] = FALSE /\ \A d \in Chains : d # c => unfinished'[d] = unfinished[d]
        /\ lost' \in [Chains -> BOOLEAN]
    <2>1. /\ file' \in [Chains -> Entries] /\ file'[c] = r.entry
          /\ \A d \in Chains : d # c => file'[d] = snap[d]
      BY <1>1, <1>3, <1>4
    <2>2. /\ run'[c] = r2 /\ \A d \in Chains : d # c => run'[d] = run[d]
          /\ DOMAIN run' = Chains /\ DOMAIN unfinished' = Chains
          /\ unfinished'[c] = FALSE /\ \A d \in Chains : d # c => unfinished'[d] = unfinished[d]
      BY <1>1, <1>4
    <2>3. lost' \in [Chains -> BOOLEAN]
      BY <1>4
    <2>4. QED BY <2>1, <2>2, <2>3
  <1>7. DeploymentTypeOK'
    <2>1. \A d \in Chains : RunTyped(run'[d])
      BY <1>5, <1>6 DEF DeploymentInv, DeploymentTypeOK
    <2>2. \A d \in Chains : unfinished'[d] \in BOOLEAN
      BY <1>6 DEF DeploymentInv, DeploymentTypeOK
    <2>3. QED BY <1>4, <1>6, <2>1, <2>2 DEF DeploymentInv, DeploymentTypeOK
  <1>8. ASSUME NEW d \in Chains, NEW x, EntryOK(x, run[d], contracts[d], managers[d], lists[d])
        PROVE  EntryOK(x, run'[d], contracts[d], managers[d], lists[d])
    <2>1. CASE d = c
      <3>1. Fresh(r2, x)
        BY <1>3, <1>5 DEF Fresh
      <3>2. QED BY <1>6, <1>8, <2>1, <3>1 DEF EntryOK
    <2>2. CASE d # c
      BY <1>6, <1>8, <2>2
    <2>3. QED BY <2>1, <2>2
  <1>9. ASSUME NEW d \in Chains PROVE ChainOK(d)'
    <2>0. /\ ChainOK(d)
          /\ contracts'[d] = contracts[d] /\ managers'[d] = managers[d] /\ lists'[d] = lists[d]
      BY <1>4 DEF DeploymentInv
    <2>1. RunOK(d, run'[d], contracts[d], managers[d], lists[d])
      <3>1. CASE d = c
        <4>1. OnItsWay(<< >>, StepsOf(c, r.script))
          BY ScriptsAreOrdered
        <4>2. QED BY <1>1, <1>3, <1>5, <1>6, <3>1, <4>1 DEF RunOK
      <3>2. CASE d # c
        BY <1>6, <2>0, <3>2 DEF ChainOK
      <3>3. QED BY <3>1, <3>2
    <2>2. EntryOK(file'[d], run'[d], contracts[d], managers[d], lists[d])
      <3>1. CASE d = c
        <4>1. Fresh(r2, r.entry)
          BY <1>3, <1>5 DEF Fresh
        <4>2. QED BY <1>3, <1>6, <3>1, <4>1 DEF EntryOK
      <3>2. CASE d # c
        <4>1. AtStep(c, "write")
          BY DEF WriteFile
        <4>2. EntryOK(snap[d], run[d], contracts[d], managers[d], lists[d])
          BY <2>0, <4>1 DEF ChainOK
        <4>3. QED BY <1>6, <1>8, <3>2, <4>2
      <3>3. QED BY <3>1, <3>2
    <2>3. WiringOK(d)'
      <3>1. CASE d = c
        BY <1>3, <1>4, <1>6, <3>1 DEF WiringOK
      <3>2. CASE d # c
        <4>1. ~ lost'[d] => ~ lost[d] /\ file'[d] = file[d]
          BY <1>4, <1>6, <3>2
        <4>2. WiringOK(d)
          BY <2>0 DEF ChainOK
        <4>3. QED BY <1>4, <1>6, <3>2, <4>1, <4>2 DEF WiringOK
      <3>3. QED BY <3>1, <3>2
    <2>4. ASSUME NEW e \in Chains, AtStep(e, "write")'
          PROVE  EntryOK(run'[e].snapshot[d], run'[d], contracts[d], managers[d], lists[d])
      <3>1. e # c
        BY <1>5, <1>6, <2>4 DEF AtStep, Idle
      <3>2. run'[e] = run[e] /\ AtStep(e, "write")
        BY <1>6, <2>4, <3>1 DEF AtStep, Idle
      <3>3. EntryOK(run[e].snapshot[d], run[d], contracts[d], managers[d], lists[d])
        BY <2>0, <3>2 DEF ChainOK
      <3>4. QED BY <1>8, <3>2, <3>3
    <2>5. Known(contracts[d], managers[d], lists[d])
      BY <2>0 DEF ChainOK
    <2>6. QED BY <2>0, <2>1, <2>2, <2>3, <2>4, <2>5 DEF ChainOK
  <1>10. QED BY <1>7, <1>9 DEF DeploymentInv

-----------------------------------------------------------------------------
\* What the file names stays what a script left there, and the scripts that run
\* are on their way to it (the three scripts and writeJSONToFileOutside).
THEOREM DeploymentIsInOrder == DeploymentSpec => []DeploymentInv
  <1>1. DeploymentInv /\ [DeploymentNext]_deploymentVars => DeploymentInv'
    <2> SUFFICES ASSUME DeploymentInv, [DeploymentNext]_deploymentVars PROVE DeploymentInv'
      OBVIOUS
    <2>1. CASE UNCHANGED deploymentVars
      BY <2>1 DEF deploymentVars, deployedVars, fileVars, DeploymentInv, DeploymentTypeOK, ChainOK,
                  WiringOK, AtStep, Idle
    <2>2. CASE DeploymentNext
      <3> PICK c \in Chains :
            \/ StartDeployment(c) \/ StartRenewal(c) \/ StartWorkaround(c) \/ Fail(c)
            \/ \E kind \in Kinds : Deploy(c, kind)
            \/ AddAccount(c) \/ MintBatch(c) \/ WhitelistBatch(c)
            \/ Register(c, "query", "registerQuery") \/ Register(c, "store", "registerStore")
            \/ Register(c, "report", "registerReport")
            \/ Blacklist(c) \/ Whitelist(c) \/ ReadFile(c) \/ OpenFile(c) \/ WriteFile(c)
        BY <2>2 DEF DeploymentNext
      <3>1. CASE StartDeployment(c) \/ StartRenewal(c) \/ StartWorkaround(c)
        BY <3>1, StartStep
      <3>2. CASE Fail(c)
        BY <3>2, FailStep
      <3>3. CASE \E kind \in Kinds : Deploy(c, kind)
        BY <3>3, DeployStep
      <3>4. CASE AddAccount(c) \/ MintBatch(c) \/ WhitelistBatch(c)
        BY <3>4, MintStep
      <3>5. CASE \/ Register(c, "query", "registerQuery") \/ Register(c, "store", "registerStore")
                 \/ Register(c, "report", "registerReport")
        <4>1. /\ "registerQuery" = Registering("query") /\ "registerStore" = Registering("store")
              /\ "registerReport" = Registering("report")
              /\ "query" \in ManagerKinds /\ "store" \in ManagerKinds /\ "report" \in ManagerKinds
          BY DEF Registering, ManagerKinds
        <4>2. QED BY <3>5, <4>1, RegisterStep
      <3>6. CASE Blacklist(c) \/ Whitelist(c) \/ ReadFile(c)
        BY <3>6, ListingStep
      <3>7. CASE OpenFile(c)
        BY <3>7 DEF OpenFile, deployedVars, DeploymentInv, DeploymentTypeOK, ChainOK,
                    WiringOK, AtStep, Idle
      <3>8. CASE WriteFile(c)
        BY <3>8, WriteStep
      <3>9. QED BY <3>1, <3>2, <3>3, <3>4, <3>5, <3>6, <3>7, <3>8
    <2>3. QED BY <2>1, <2>2
  <1>2. QED BY <1>1, DeploymentInitially, PTL DEF DeploymentSpec

\* Whatever scripts ran, and wherever they failed, the managers that the file
\* names are those the node manager calls, but while a renewal has yet to write
\* and after the unawaited write of another chain's script undid the entry.
THEOREM WiringIsNamed == DeploymentSpec => []FileNamesWiring
  <1>1. DeploymentInv => FileNamesWiring
    <2> SUFFICES ASSUME DeploymentInv, NEW c \in Chains, Named(c), ~ unfinished[c], ~ lost[c]
                 PROVE  managers[c][file[c].node] = [k \in ManagerKinds |-> file[c][k]]
      BY DEF FileNamesWiring
    <2>1. \A k \in ManagerKinds : managers[c][file[c].node][k] = file[c][k]
      BY OfChain DEF WiringOK, Named
    <2>2. managers[c][file[c].node] \in Registered
      BY OfChain DEF EntryOK, Good, Placed, NodesTyped, Kinds, Named
    <2> DEFINE m == managers[c][file[c].node]
               f == file[c]
    <2>3. m \in Registered /\ \A k \in ManagerKinds : m[k] = f[k]
      BY <2>1, <2>2
    <2>4. m = [k \in ManagerKinds |-> m[k]]
      BY <2>3 DEF Registered, ManagerKinds
    <2> HIDE DEF m, f
    <2>5. m = [k \in ManagerKinds |-> f[k]]
      BY <2>3, <2>4
    <2>6. QED BY <2>5 DEF m, f
  <1>2. QED BY <1>1, DeploymentIsInOrder, PTL

\* The file never names a store or query manager that was made for another
\* token or node manager, or that the token would not let pay it.
THEOREM NamedManagersMayPay == DeploymentSpec => []NamedManagersPay
  <1>1. DeploymentInv => NamedManagersPay
    <2> SUFFICES ASSUME DeploymentInv, NEW c \in Chains, NEW k \in Payers, Named(c)
                 PROVE  /\ contracts[c][file[c][k][2]] =
                             [kind |-> k, token |-> file[c].token, parent |-> file[c].node]
                        /\ <<file[c].token, file[c].node>> \in lists[c].black
                        /\ <<file[c].token, file[c][k], file[c].node>> \in lists[c].white
      BY DEF NamedManagersPay
    <2>1. Good(file[c], contracts[c], managers[c], lists[c])
      BY OfChain DEF EntryOK, Named
    <2>2. k \in Kinds
      BY DEF Kinds, Payers
    <2>3. QED BY <2>1, <2>2 DEF Good, Placed
  <1>2. QED BY <1>1, DeploymentIsInOrder, PTL

-----------------------------------------------------------------------------
(***************************************************************************)
(* The minting: each account once.                                         *)
(***************************************************************************)

\* The numbers of the accounts of group g.
Numbers(g) == 1 .. GroupSize[Groups[g]]
Account(g, i) == <<Groups[g], i>>

\* The account was added to a batch, and the batch is the one at hand.
Added(m, g, i) == g < m.group \/ (g = m.group /\ i <= m.index)
InBatch(m, g, i) == g = m.group /\ m.index - Len(m.wallets) < i /\ i <= m.index

Complete(m) == m.index = GroupSize[Groups[m.group]] \/ Len(m.wallets) = BatchSize

\* A batch has the last accounts that were added, all of them of one group.
Batching(m) ==
    /\ m.group \in 1 .. Len(Groups) /\ m.index \in Nat /\ m.index <= GroupSize[Groups[m.group]]
    /\ Len(m.wallets) \in Nat /\ Len(m.wallets) <= m.index
    /\ DOMAIN m.wallets = 1 .. Len(m.wallets)
    /\ \A i \in DOMAIN m.wallets :
         m.wallets[i] = Account(m.group, m.index - Len(m.wallets) + i)
    /\ Len(m.wallets) = 0 => m.index < GroupSize[Groups[m.group]] /\ ~ m.minted
    /\ m.minted => Groups[m.group] = Brokers /\ Complete(m)

\* The accounts that got tokens are those of earlier batches, and of the one at
\* hand once it was minted for.
Served(m, count) ==
    \A g \in DOMAIN Groups : \A i \in Numbers(g) :
        count[Account(g, i)] =
            IF Added(m, g, i) /\ (InBatch(m, g, i) => m.minted) THEN 1 ELSE 0

\* The brokers of earlier batches may pay their stakes.
Admitted(m, e, l) ==
    \A g \in DOMAIN Groups : \A i \in Numbers(g) :
        <<e.token, Account(g, i), e.node>> \in l.white <=>
            Groups[g] = Brokers /\ Added(m, g, i) /\ ~ InBatch(m, g, i)

\* All accounts have tokens, and all brokers may pay.
AllServed(e, l, count) ==
    \A g \in DOMAIN Groups : \A i \in Numbers(g) :
        /\ count[Account(g, i)] = 1
        /\ <<e.token, Account(g, i), e.node>> \in l.white <=> Groups[g] = Brokers

MintOK(r, l, count) ==
    /\ count \in [Accounts -> {0, 1}]
    /\ r.script = "deployment" /\ ToDo(r.left, "mint") =>
         /\ Batching(r.minting) /\ Served(r.minting, count)
         /\ IF Head(r.left) = "mint" THEN Admitted(r.minting, r.entry, l)
            ELSE /\ r.minting = StartOfMinting
                 /\ \A w \in l.white : w[1] # r.entry.token
    /\ r.script = "deployment" /\ r.left # << >> /\ Head(r.left) = "registerQuery" =>
         AllServed(r.entry, l, count)

MintInv ==
    DOMAIN mintedTo = Chains /\ \A c \in DevChains : MintOK(run[c], lists[c], mintedTo[c])

-----------------------------------------------------------------------------
LEMMA GroupsType ==
    /\ Len(Groups) \in Nat /\ Len(Groups) >= 1 /\ DOMAIN Groups = 1 .. Len(Groups)
    /\ \A g \in DOMAIN Groups : GroupSize[Groups[g]] \in Nat /\ GroupSize[Groups[g]] >= 1
    /\ \A g, h \in DOMAIN Groups : Groups[g] = Groups[h] => g = h
    /\ \A g \in DOMAIN Groups : \A i \in Numbers(g) : Account(g, i) \in Accounts
    /\ \A a \in Accounts : \E g \in DOMAIN Groups : \E i \in Numbers(g) : a = Account(g, i)
  <1>1. Groups \in Seq({Groups[i] : i \in DOMAIN Groups}) /\ Groups # << >>
    BY DeploymentAssumption
  <1>2. Len(Groups) \in Nat /\ Len(Groups) >= 1 /\ DOMAIN Groups = 1 .. Len(Groups)
    <2> DEFINE S == {Groups[i] : i \in DOMAIN Groups}
    <2>1. Groups \in Seq(S)
      BY <1>1
    <2> HIDE DEF S
    <2>2. QED BY <1>1, <2>1
  <1>3. /\ \A g \in DOMAIN Groups : GroupSize[Groups[g]] \in Nat /\ GroupSize[Groups[g]] >= 1
        /\ \A g, h \in DOMAIN Groups : Groups[g] = Groups[h] => g = h
    BY DeploymentAssumption
  <1>4. /\ \A g \in DOMAIN Groups : \A i \in Numbers(g) : Account(g, i) \in Accounts
        /\ \A a \in Accounts : \E g \in DOMAIN Groups : \E i \in Numbers(g) : a = Account(g, i)
    BY DEF Accounts, Account, Numbers
  <1>5. QED BY <1>2, <1>3, <1>4

\* Before the first account.
LEMMA MintingStarts ==
    /\ Batching(StartOfMinting)
    /\ \A g \in DOMAIN Groups : \A i \in Numbers(g) :
         ~ Added(StartOfMinting, g, i) /\ ~ InBatch(StartOfMinting, g, i)
  <1>1. Len(<< >>) = 0 /\ DOMAIN << >> = {}
    OBVIOUS
  <1>2. /\ StartOfMinting.group = 1 /\ StartOfMinting.index = 0 /\ StartOfMinting.minted = FALSE
        /\ StartOfMinting.wallets = << >>
    BY DEF StartOfMinting
  <1>3. \A g \in DOMAIN Groups : g >= 1 /\ \A i \in Numbers(g) : i >= 1
    BY GroupsType DEF Numbers
  <1>4. \A g \in DOMAIN Groups : \A i \in Numbers(g) :
          ~ Added(StartOfMinting, g, i) /\ ~ InBatch(StartOfMinting, g, i)
    <2> TAKE g \in DOMAIN Groups
    <2>1. TAKE i \in Numbers(g)
    <2>2. g \in Int /\ i \in Int /\ g >= 1 /\ i >= 1
      BY <1>3, GroupsType DEF Numbers
    <2>3. QED BY <1>2, <2>2 DEF Added, InBatch
  <1>5. 1 \in DOMAIN Groups
    BY GroupsType
  <1>6. Batching(StartOfMinting)
    BY <1>1, <1>2, <1>5, GroupsType DEF Batching
  <1>7. QED BY <1>4, <1>6

\* Where an account is in the batch at hand.
LEMMA InTheBatch ==
    ASSUME NEW m, Batching(m), NEW g \in DOMAIN Groups, NEW i \in Numbers(g)
    PROVE  /\ (\E j \in DOMAIN m.wallets : m.wallets[j] = Account(g, i)) <=> InBatch(m, g, i)
           /\ InBatch(m, g, i) => Added(m, g, i)
  <1> DEFINE n == Len(m.wallets)
             x == m.index
  <1>1. /\ m.group \in DOMAIN Groups /\ x \in Nat /\ n \in Nat /\ n <= x
        /\ DOMAIN m.wallets = 1 .. n /\ i \in Nat
        /\ \A j \in 1 .. n : m.wallets[j] = Account(m.group, x - n + j)
    <2>1. m.group \in DOMAIN Groups
      BY GroupsType DEF Batching
    <2>2. i \in Nat
      <3>1. GroupSize[Groups[g]] \in Nat
        BY GroupsType
      <3>2. QED BY <3>1 DEF Numbers
    <2>3. /\ x \in Nat /\ n \in Nat /\ n <= x /\ DOMAIN m.wallets = 1 .. n
          /\ \A j \in 1 .. n : m.wallets[j] = Account(m.group, x - n + j)
      BY DEF Batching
    <2>4. QED BY <2>1, <2>2, <2>3
  <1> HIDE DEF n, x
  <1>2. \A j \in 1 .. n : m.wallets[j] = Account(g, i) <=> m.group = g /\ x - n + j = i
    <2>1. TAKE j \in 1 .. n
    <2>2. Account(m.group, x - n + j) = Account(g, i) <=>
            Groups[m.group] = Groups[g] /\ x - n + j = i
      BY DEF Account
    <2>3. Groups[m.group] = Groups[g] <=> m.group = g
      BY <1>1, GroupsType
    <2>4. QED BY <1>1, <2>2, <2>3
  <1>3. ASSUME m.group = g, x - n < i, i <= x PROVE \E j \in 1 .. n : x - n + j = i
    <2>1. i - (x - n) \in 1 .. n /\ x - n + (i - (x - n)) = i
      BY <1>1, <1>3
    <2>2. QED BY <2>1
  <1>4. ASSUME NEW j \in 1 .. n, x - n + j = i PROVE x - n < i /\ i <= x
    BY <1>1, <1>4
  <1>5. InBatch(m, g, i) <=> m.group = g /\ x - n < i /\ i <= x
    BY DEF InBatch, n, x
  <1>6. (\E j \in DOMAIN m.wallets : m.wallets[j] = Account(g, i)) <=> InBatch(m, g, i)
    BY <1>1, <1>2, <1>3, <1>4, <1>5
  <1>7. InBatch(m, g, i) => Added(m, g, i)
    BY DEF InBatch, Added
  <1>8. QED BY <1>6, <1>7

\* An account joins the batch, or begins one.
LEMMA AccountIsAdded ==
    ASSUME NEW m, NEW m2, NEW count, Batching(m), Served(m, count),
           ~ (Len(m.wallets) # 0 /\ Complete(m)),
           m2.group = m.group, m2.index = m.index + 1, m2.minted = m.minted,
           Len(m2.wallets) = Len(m.wallets) + 1, DOMAIN m2.wallets = 1 .. Len(m2.wallets),
           \A j \in 1 .. Len(m.wallets) : m2.wallets[j] = m.wallets[j],
           m2.wallets[Len(m2.wallets)] = Account(m.group, m.index + 1)
    PROVE  /\ Batching(m2) /\ Served(m2, count)
           /\ \A e, l : Admitted(m, e, l) => Admitted(m2, e, l)
  <1> DEFINE n == Len(m.wallets)
             x == m.index
             G == m.group
             size == GroupSize[Groups[G]]
  <1>1. /\ G \in 1 .. Len(Groups) /\ x \in Nat /\ n \in Nat /\ n <= x /\ x <= size
        /\ DOMAIN m.wallets = 1 .. n
        /\ n = 0 => x < size /\ ~ m.minted
        /\ \A j \in 1 .. n : m.wallets[j] = Account(G, x - n + j)
    BY DEF Batching
  <1>2. G \in DOMAIN Groups /\ size \in Nat
    BY <1>1, GroupsType
  <1>3. x < size /\ ~ m.minted
    <2>1. n # 0 => x # size /\ ~ m.minted
      BY DEF Complete, Batching
    <2> HIDE DEF n, x, size
    <2>2. QED BY <1>1, <1>2, <2>1
  <1>4. Batching(m2)
    <2>1. \A j \in 1 .. n + 1 : m2.wallets[j] = Account(G, (x + 1) - (n + 1) + j)
      <3>1. TAKE j \in 1 .. n + 1
      <3>2. (x + 1) - (n + 1) + j = x - n + j /\ (j \in 1 .. n \/ j = n + 1)
        BY <1>1
      <3>3. x - n + (n + 1) = x + 1
        BY <1>1
      <3>4. QED BY <1>1, <3>2, <3>3
    <2>2. x + 1 \in Nat /\ x + 1 <= size /\ n + 1 \in Nat /\ n + 1 <= x + 1 /\ n + 1 # 0
      <3>1. x \in Nat /\ n \in Nat /\ size \in Nat /\ n <= x /\ x < size
        BY <1>1, <1>2, <1>3
      <3> HIDE DEF x, n, size
      <3>2. QED BY <3>1
    <2>3. QED BY <1>1, <1>3, <2>1, <2>2 DEF Batching
  <1>5. ASSUME NEW g \in DOMAIN Groups, NEW i \in Numbers(g)
        PROVE  (Added(m2, g, i) /\ ~ InBatch(m2, g, i)) <=> (Added(m, g, i) /\ ~ InBatch(m, g, i))
    <2>1. i \in Int /\ g \in Int
      <3>1. GroupSize[Groups[g]] \in Nat /\ g \in Int
        BY GroupsType
      <3>2. QED BY <3>1 DEF Numbers
    <2>2. /\ (x + 1) - (n + 1) = x - n /\ (i <= x => i <= x + 1)
          /\ (i <= x + 1 /\ ~ (x - n < i) => i <= x)
      BY <1>1, <2>1
    <2>3. /\ Added(m, g, i) <=> g < G \/ (g = G /\ i <= x)
          /\ Added(m2, g, i) <=> g < G \/ (g = G /\ i <= x + 1)
          /\ InBatch(m, g, i) <=> g = G /\ x - n < i /\ i <= x
          /\ InBatch(m2, g, i) <=> g = G /\ (x + 1) - (n + 1) < i /\ i <= x + 1
      BY DEF Added, InBatch
    <2>4. CASE g = G
      <3>1. ~ (g < G)
        BY <2>1, <2>4
      <3>2. QED BY <2>2, <2>3, <2>4, <3>1
    <2>5. CASE g # G
      BY <2>3, <2>5
    <2>6. QED BY <2>4, <2>5
  <1>6. Served(m2, count)
    BY <1>3, <1>5 DEF Served
  <1>7. \A e, l : Admitted(m, e, l) => Admitted(m2, e, l)
    BY <1>5 DEF Admitted
  <1>8. QED BY <1>4, <1>6, <1>7

\* Those of the batch get tokens once.
LEMMA BatchIsServed ==
    ASSUME NEW m, Batching(m), ~ m.minted, NEW count \in [Accounts -> {0, 1}], Served(m, count),
           NEW count2,
           count2 = [a \in Accounts |-> IF \E j \in DOMAIN m.wallets : m.wallets[j] = a
                                        THEN count[a] + 1 ELSE count[a]]
    PROVE  /\ count2 \in [Accounts -> {0, 1}]
           /\ \A g \in DOMAIN Groups : \A i \in Numbers(g) :
                count2[Account(g, i)] = IF Added(m, g, i) THEN 1 ELSE 0
  <1>1. ASSUME NEW g \in DOMAIN Groups, NEW i \in Numbers(g)
        PROVE  count2[Account(g, i)] = IF Added(m, g, i) THEN 1 ELSE 0
    <2>1. Account(g, i) \in Accounts
      BY GroupsType
    <2>2. count[Account(g, i)] = IF Added(m, g, i) /\ ~ InBatch(m, g, i) THEN 1 ELSE 0
      BY DEF Served
    <2>3. /\ (\E j \in DOMAIN m.wallets : m.wallets[j] = Account(g, i)) <=> InBatch(m, g, i)
          /\ InBatch(m, g, i) => Added(m, g, i)
      BY InTheBatch
    <2>4. count2[Account(g, i)] = IF InBatch(m, g, i) THEN count[Account(g, i)] + 1
                                  ELSE count[Account(g, i)]
      BY <2>1, <2>3
    <2>5. QED BY <2>2, <2>3, <2>4
  <1>2. \A a \in Accounts : count2[a] \in {0, 1}
    <2>1. TAKE a \in Accounts
    <2>2. PICK g \in DOMAIN Groups : \E i \in Numbers(g) : a = Account(g, i)
      BY GroupsType
    <2>3. QED BY <1>1, <2>2
  <1>3. QED BY <1>1, <1>2

\* The batch that is dealt with is behind, and after the last one all accounts are.
LEMMA BatchIsBehind ==
    ASSUME NEW m, NEW m2, NEW count, NEW e, NEW l, Batching(m), Len(m.wallets) # 0, Complete(m),
           \A g \in DOMAIN Groups : \A i \in Numbers(g) :
             /\ count[Account(g, i)] = IF Added(m, g, i) THEN 1 ELSE 0
             /\ <<e.token, Account(g, i), e.node>> \in l.white <=>
                  Groups[g] = Brokers /\ Added(m, g, i),
           m2.wallets = << >>, m2.minted = FALSE,
           m2.group = IF m.index = GroupSize[Groups[m.group]] THEN m.group + 1 ELSE m.group,
           m2.index = IF m.index = GroupSize[Groups[m.group]] THEN 0 ELSE m.index
    PROVE  IF m.index = GroupSize[Groups[m.group]] /\ m.group = Len(Groups)
           THEN AllServed(e, l, count)
           ELSE Batching(m2) /\ Served(m2, count) /\ Admitted(m2, e, l)
  <1> DEFINE x == m.index
             G == m.group
             size == GroupSize[Groups[G]]
             N == Len(Groups)
  <1>1. /\ G \in 1 .. N /\ N \in Nat /\ x \in Nat /\ x <= size /\ size \in Nat
        /\ G \in DOMAIN Groups /\ DOMAIN Groups = 1 .. N
    BY GroupsType DEF Batching
  <1>2. \A g \in DOMAIN Groups : g \in Int /\ \A i \in Numbers(g) : i \in Int /\ i >= 1
    <2>1. TAKE g \in DOMAIN Groups
    <2>2. GroupSize[Groups[g]] \in Nat /\ g \in Int
      BY GroupsType
    <2>3. QED BY <2>2 DEF Numbers
  <1>3. ASSUME x = size, NEW g \in DOMAIN Groups, NEW i \in Numbers(g)
        PROVE  Added(m, g, i) <=> g <= G
    <2>1. g = G => i <= size
      BY <1>1 DEF Numbers
    <2>2. Added(m, g, i) <=> g < G \/ (g = G /\ i <= x)
      BY DEF Added
    <2> HIDE DEF G, x, size
    <2>3. QED BY <1>1, <1>2, <1>3, <2>1, <2>2
  <1>4. CASE x = size /\ G = N
    <2>1. \A g \in DOMAIN Groups : g <= G
      BY <1>1, <1>4
    <2>2. \A g \in DOMAIN Groups : \A i \in Numbers(g) : Added(m, g, i)
      BY <1>3, <1>4, <2>1
    <2>3. QED BY <1>4, <2>2 DEF AllServed
  <1>5. CASE ~ (x = size /\ G = N)
    <2>0. Len(<< >>) = 0 /\ DOMAIN << >> = {}
      OBVIOUS
    <2>1. ASSUME NEW g \in DOMAIN Groups, NEW i \in Numbers(g)
          PROVE  (Added(m2, g, i) <=> Added(m, g, i)) /\ ~ InBatch(m2, g, i)
      <3>1. /\ Added(m2, g, i) <=> g < m2.group \/ (g = m2.group /\ i <= m2.index)
            /\ InBatch(m2, g, i) <=> g = m2.group /\ m2.index - 0 < i /\ i <= m2.index
        BY <2>0 DEF Added, InBatch
      <3>2. CASE x = size
        <4>1. m2.group = G + 1 /\ m2.index = 0
          BY <3>2
        <4>2. Added(m, g, i) <=> g <= G
          BY <1>3, <3>2
        <4> HIDE DEF G
        <4>3. g \in Int /\ i \in Int /\ i >= 1 /\ G \in Int
          BY <1>1, <1>2
        <4>4. QED BY <3>1, <4>1, <4>2, <4>3
      <3>3. CASE x # size
        <4>1. m2.group = G /\ m2.index = x
          BY <3>3
        <4>2. i \in Int /\ x \in Int
          BY <1>1, <1>2
        <4>3. QED BY <3>1, <4>1, <4>2 DEF Added
      <3>4. QED BY <3>2, <3>3
    <2>2. Batching(m2)
      <3>1. CASE x = size
        <4>1. m2.group = G + 1 /\ m2.index = 0 /\ G + 1 \in 1 .. N
          BY <1>1, <1>5, <3>1
        <4>2. GroupSize[Groups[m2.group]] \in Nat /\ GroupSize[Groups[m2.group]] >= 1
          BY <1>1, <4>1, GroupsType
        <4>3. QED BY <2>0, <4>1, <4>2 DEF Batching
      <3>2. CASE x # size
        <4>1. m2.group = G /\ m2.index = x /\ x < size
          BY <1>1, <3>2
        <4>2. QED BY <1>1, <2>0, <4>1 DEF Batching
      <3>3. QED BY <3>1, <3>2
    <2>3. Served(m2, count)
      BY <2>1 DEF Served
    <2>4. Admitted(m2, e, l)
      BY <2>1 DEF Admitted
    <2>5. QED BY <1>5, <2>2, <2>3, <2>4
  <1>6. QED BY <1>4, <1>5

-----------------------------------------------------------------------------
\* A step of one chain's script leaves the minting of the others alone.
LEMMA OthersMint ==
    ASSUME DeploymentInv, MintInv, NEW c \in Chains, NEW r2, NEW l2, NEW count2,
           Becomes(run, c, r2, run'), Becomes(lists, c, l2, lists'),
           Becomes(mintedTo, c, count2, mintedTo'),
           c \in DevChains => MintOK(r2, l2, count2)
    PROVE  MintInv'
  <1>1. DOMAIN run = Chains /\ DOMAIN lists = Chains /\ DOMAIN mintedTo = Chains
    BY DEF DeploymentInv, DeploymentTypeOK, MintInv
  <1>2. ASSUME NEW d \in DevChains PROVE MintOK(run'[d], lists'[d], mintedTo'[d])
    <2>1. d \in Chains
      BY DeploymentAssumption
    <2>2. CASE d = c
      BY <1>1, <2>1, <2>2 DEF Becomes
    <2>3. CASE d # c
      BY <1>1, <2>1, <2>3 DEF MintInv, Becomes
    <2>4. QED BY <2>2, <2>3
  <1>3. DOMAIN mintedTo' = Chains
    BY <1>1 DEF Becomes
  <1>4. QED BY <1>2, <1>3 DEF MintInv

\* After the minting nothing is asked of it.
LEMMA MintingIsOver ==
    ASSUME NEW c, NEW r, NEW r2, NEW cs, NEW ms, NEW l, NEW l2, NEW count, MintOK(r, l, count),
           RunTyped(r), RunOK(c, r, cs, ms, l), r.left # << >>,
           Head(r.left) \notin Kinds \cup {"mint"},
           r2.left = Tail(r.left) \/ r2.left = << >>
    PROVE  MintOK(r2, l2, count)
  <1>1. OnItsWay(r.left, StepsOf(c, r.script))
    BY DEF RunOK
  <1>2. Head(r.left) \in AllSteps
    BY <1>1, EarlierIsDone
  <1>3. Rank(Head(r.left)) \in 7 .. 13 /\ Rank("mint") = 6 /\ Rank("registerQuery") = 7
    BY <1>2 DEF Rank, AllSteps, Kinds
  <1>4. ~ ToDo(r.left, "mint")
    <2>1. ~ (Rank(Head(r.left)) <= Rank("mint"))
      BY <1>3
    <2>2. QED BY <1>1, <2>1, EarlierIsDone DEF AllSteps
  <1>5. ~ ToDo(r2.left, "mint") /\ ~ (r2.left # << >> /\ Head(r2.left) = "registerQuery")
    <2>1. CASE r2.left = << >>
      BY <2>1 DEF ToDo
    <2>2. CASE r2.left = Tail(r.left)
      <3>1. /\ ~ ToDo(Tail(r.left), "mint")
            /\ Tail(r.left) # << >> => Rank(Head(r.left)) < Rank(Head(Tail(r.left)))
        BY <1>1, <1>4, NextStep, StepsType
      <3>2. Rank(Head(r.left)) < 7 => FALSE
        BY <1>3
      <3>3. Tail(r.left) # << >> => Head(Tail(r.left)) # "registerQuery"
        BY <1>3, <3>1, <3>2
      <3>4. QED BY <2>2, <3>1, <3>3
    <2>3. QED BY <2>1, <2>2
  <1>6. QED BY <1>5 DEF MintOK

LEMMA StartMints ==
    ASSUME DeploymentInv, MintInv, NEW c \in Chains,
           StartDeployment(c) \/ StartRenewal(c) \/ StartWorkaround(c)
    PROVE  MintInv'
  <1> DEFINE Begun(script, steps, entry) ==
               [run[c] EXCEPT !.script = script, !.left = steps, !.entry = entry,
                              !.failed = FALSE, !.minting = StartOfMinting]
             l == lists[c]
  <1>1. RunTyped(run[c]) /\ DOMAIN lists = Chains /\ Known(contracts[c], managers[c], l)
    BY OfChain DEF DeploymentInv, DeploymentTypeOK
  <1>2. Becomes(lists, c, l, lists') /\ DOMAIN run = Chains /\ DOMAIN mintedTo = Chains
    BY DEF Becomes, StartDeployment, StartRenewal, StartWorkaround, StartScript, deployedVars, fileVars,
           DeploymentInv, DeploymentTypeOK, MintInv
  <1>3. CASE StartDeployment(c)
    <2> DEFINE r2 == Begun("deployment", DeploymentSteps(c), NoEntry)
               count2 == [a \in Accounts |-> 0]
    <2>1. Becomes(run, c, r2, run') /\ Becomes(mintedTo, c, count2, mintedTo')
      BY <1>2, <1>3 DEF StartDeployment, StartScript, Becomes
    <2>2. /\ r2.script = "deployment" /\ r2.left = DeploymentSteps(c) /\ r2.entry = NoEntry
          /\ r2.minting = StartOfMinting
      BY <1>1 DEF RunTyped
    <2>3. r2.left # << >> /\ Head(r2.left) = "token"
      BY <2>2, ScriptsAreOrdered
    <2>4. Served(StartOfMinting, count2) /\ Batching(StartOfMinting)
      <3>1. \A g \in DOMAIN Groups : \A i \in Numbers(g) : count2[Account(g, i)] = 0
        BY GroupsType
      <3>2. QED BY <3>1, MintingStarts DEF Served
    <2>5. \A w \in l.white : w[1] # NoEntry.token
      BY <1>1 DEF Known, In, NoEntry, None
    <2>6. count2 \in [Accounts -> {0, 1}]
      OBVIOUS
    <2> HIDE DEF r2, count2, Begun, l
    <2>7. MintOK(r2, l, count2)
      BY <2>2, <2>3, <2>4, <2>5, <2>6 DEF MintOK
    <2>8. QED BY <1>2, <2>1, <2>7, OthersMint
  <1>4. CASE StartRenewal(c) \/ StartWorkaround(c)
    <2> DEFINE r2 == IF StartRenewal(c) THEN Begun("renewal", RenewalSteps, file[c])
                     ELSE Begun("workaround", Wiring, run[c].entry)
    <2>1. Becomes(run, c, r2, run') /\ mintedTo' = mintedTo
      BY <1>2, <1>4 DEF StartRenewal, StartWorkaround, StartScript, Becomes
    <2>2. r2.script # "deployment"
      BY <1>1 DEF RunTyped
    <2>3. Becomes(mintedTo, c, mintedTo[c], mintedTo')
      BY <2>1 DEF Becomes
    <2> HIDE DEF r2, Begun, l
    <2>4. c \in DevChains => MintOK(r2, l, mintedTo[c])
      BY <2>2 DEF MintOK, MintInv
    <2>5. QED BY <1>2, <2>1, <2>3, <2>4, OthersMint
  <1>5. QED BY <1>3, <1>4

LEMMA FailMints ==
    ASSUME DeploymentInv, MintInv, NEW c \in Chains, Fail(c)
    PROVE  MintInv'
  <1> DEFINE r2 == [run[c] EXCEPT !.left = << >>, !.failed = TRUE, !.snapshot = << >>]
  <1>1. RunTyped(run[c]) /\ DOMAIN run = Chains
    BY OfChain DEF DeploymentInv, DeploymentTypeOK
  <1>2. /\ Becomes(run, c, r2, run') /\ Becomes(lists, c, lists[c], lists')
        /\ Becomes(mintedTo, c, mintedTo[c], mintedTo')
    BY <1>1 DEF Fail, deployedVars, Becomes
  <1>3. r2.left = << >>
    BY <1>1 DEF RunTyped
  <1> HIDE DEF r2
  <1>4. c \in DevChains => MintOK(r2, lists[c], mintedTo[c])
    BY <1>3 DEF MintOK, MintInv, ToDo
  <1>5. QED BY <1>2, <1>4, OthersMint

LEMMA LaterMints ==
    ASSUME DeploymentInv, MintInv, NEW c \in Chains,
           \/ \E k \in ManagerKinds : Register(c, k, Registering(k))
           \/ Blacklist(c) \/ Whitelist(c) \/ ReadFile(c) \/ WriteFile(c)
    PROVE  MintInv'
  <1> DEFINE r == run[c]
  <1>1. /\ RunTyped(r) /\ DOMAIN run = Chains /\ DOMAIN lists = Chains /\ DOMAIN mintedTo = Chains
        /\ RunOK(c, r, contracts[c], managers[c], lists[c])
    BY OfChain DEF DeploymentInv, DeploymentTypeOK, MintInv
  <1>2. PICK step \in {"registerStore", "registerQuery", "registerReport", "blacklist",
                       "whitelist", "read", "write"} : AtStep(c, step)
    BY DEF Register, Registering, Blacklist, Whitelist, ReadFile, WriteFile
  <1>3. r.left # << >> /\ Head(r.left) \notin Kinds \cup {"mint"}
    BY <1>2 DEF AtStep, Idle, Kinds
  <1>4. Becomes(mintedTo, c, mintedTo[c], mintedTo')
    BY DEF Register, Blacklist, Whitelist, ReadFile, WriteFile, Becomes
  <1>5. \E r2, l2 :
          /\ Becomes(run, c, r2, run') /\ Becomes(lists, c, l2, lists')
          /\ r2.left = Tail(r.left)
    <2> DEFINE done == [r EXCEPT !.left = Tail(@)]
    <2>1. done.left = Tail(r.left)
      BY <1>1 DEF RunTyped
    <2>2. CASE \E k \in ManagerKinds : Register(c, k, Registering(k))
      <3>1. Becomes(run, c, done, run') /\ Becomes(lists, c, lists[c], lists')
        BY <1>1, <2>2 DEF Register, Done, Becomes
      <3>2. QED BY <2>1, <3>1
    <2>3. CASE Blacklist(c)
      <3> DEFINE l2 == [lists[c] EXCEPT
                          !.black = @ \cup {<<r.entry.token, r.entry.node>>}]
      <3>1. Becomes(run, c, done, run') /\ Becomes(lists, c, l2, lists')
        BY <1>1, <2>3 DEF Blacklist, Done, Becomes
      <3> HIDE DEF l2
      <3>2. QED BY <2>1, <3>1
    <2>4. CASE Whitelist(c)
      <3> DEFINE l2 == [lists[c] EXCEPT
                          !.white = @ \cup {<<r.entry.token, r.entry[k], r.entry.node>> : k \in Payers}]
      <3>1. Becomes(run, c, done, run') /\ Becomes(lists, c, l2, lists')
        BY <1>1, <2>4 DEF Whitelist, Done, Becomes
      <3> HIDE DEF l2
      <3>2. QED BY <2>1, <3>1
    <2>5. CASE ReadFile(c)
      <3> DEFINE r2 == [done EXCEPT !.snapshot = file]
      <3>1. Becomes(run, c, r2, run') /\ Becomes(lists, c, lists[c], lists')
        BY <1>1, <2>5 DEF ReadFile, Done, deployedVars, fileVars, Becomes
      <3>2. r2.left = Tail(r.left)
        BY <1>1 DEF RunTyped
      <3> HIDE DEF r2
      <3>3. QED BY <3>1, <3>2
    <2>6. CASE WriteFile(c)
      <3> DEFINE r2 == [done EXCEPT !.snapshot = << >>]
      <3>1. Becomes(run, c, r2, run') /\ Becomes(lists, c, lists[c], lists')
        BY <1>1, <2>6 DEF WriteFile, Done, deployedVars, Becomes
      <3>2. r2.left = Tail(r.left)
        BY <1>1 DEF RunTyped
      <3> HIDE DEF r2
      <3>3. QED BY <3>1, <3>2
    <2>7. QED BY <2>2, <2>3, <2>4, <2>5, <2>6
  <1>6. PICK r2, l2 :
          /\ Becomes(run, c, r2, run') /\ Becomes(lists, c, l2, lists')
          /\ r2.left = Tail(r.left)
    BY <1>5
  <1>7. c \in DevChains => MintOK(r2, l2, mintedTo[c])
    BY <1>1, <1>3, <1>6, MintingIsOver DEF MintInv
  <1>8. QED BY <1>4, <1>6, <1>7, OthersMint

-----------------------------------------------------------------------------
LEMMA DeployMints ==
    ASSUME DeploymentInv, MintInv, NEW c \in Chains, NEW k \in Kinds, Deploy(c, k)
    PROVE  MintInv'
  <1> DEFINE r == run[c]
             l == lists[c]
             a == Next1(contracts[c])
             r2 == [[r EXCEPT !.left = Tail(@)] EXCEPT !.entry[k] = a]
             m == r.minting
  <1>1. /\ RunTyped(r) /\ DOMAIN run = Chains /\ contracts[c] \in Seq(Contract)
        /\ RunOK(c, r, contracts[c], managers[c], l) /\ Known(contracts[c], managers[c], l)
    BY OfChain DEF DeploymentInv, DeploymentTypeOK
  <1>2. /\ Becomes(run, c, r2, run') /\ Becomes(lists, c, l, lists')
        /\ Becomes(mintedTo, c, mintedTo[c], mintedTo')
    BY <1>1 DEF Deploy, Becomes, Done, Next1
  <1>3. r.left # << >> /\ Head(r.left) = k
    BY DEF Deploy, AtStep, Idle
  <1>4. /\ r2.left = Tail(r.left) /\ r2.script = r.script /\ r2.minting = m
        /\ r2.entry.token \in {r.entry.token, a}
    BY <1>1 DEF RunTyped, Entries, Kinds
  <1> HIDE DEF r2
  <1>5. ASSUME NEW w \in l.white PROVE w[1] # a
    <2>1. In(contracts[c], w[1])
      BY <1>1 DEF Known
    <2>2. ~ In(contracts[c], a)
      <3>1. PICK x : x \in Contract
        <4>1. [kind |-> "token", token |-> None, parent |-> None] \in Contract
          BY DEF Contract, Kinds, Address
        <4>2. QED BY <4>1
      <3>2. QED BY <1>1, <3>1, NextAddress
    <2>3. QED BY <2>1, <2>2
  <1>6. ASSUME c \in DevChains PROVE MintOK(r2, l, mintedTo[c])
    <2>1. MintOK(r, l, mintedTo[c])
      BY <1>6 DEF MintInv
    <2>2. CASE r.script # "deployment"
      BY <1>4, <2>1, <2>2 DEF MintOK
    <2>3. CASE r.script = "deployment"
      <3>1. OnItsWay(r.left, StepsOf(c, r.script)) /\ "mint" \in StepsOf(c, r.script)
        BY <1>1, <1>6, <2>3 DEF RunOK, StepsOf, AllSteps
      <3>2. Rank(k) \in 1 .. 5 /\ Rank("mint") = 6 /\ k # "mint"
        BY DEF Rank, Kinds
      <3>3. ToDo(r.left, "mint")
        <4>1. Rank(Head(r.left)) <= Rank("mint")
          BY <1>3, <3>2
        <4>2. QED BY <1>3, <3>1, <4>1 DEF OnItsWay
      <3>4. /\ OnItsWay(Tail(r.left), StepsOf(c, r.script)) /\ ToDo(Tail(r.left), "mint")
        BY <1>3, <3>1, <3>2, <3>3, NextStep, StepsType
      <3>5. Head(r2.left) # "registerQuery"
        <4>1. Tail(r.left) # << >>
          BY <3>4 DEF ToDo
        <4>2. Rank(Head(Tail(r.left))) <= Rank("mint")
          BY <3>4, <4>1, EarlierIsDone DEF AllSteps
        <4>3. Rank("registerQuery") = 7
          BY DEF Rank
        <4>4. Head(Tail(r.left)) # "registerQuery"
          <5> DEFINE next == Head(Tail(r.left))
          <5>1. Rank(next) <= 6
            BY <3>2, <4>2
          <5> HIDE DEF next
          <5>2. next # "registerQuery"
            BY <4>3, <5>1
          <5>3. QED BY <5>2 DEF next
        <4>5. QED BY <1>4, <4>4
      <3>6. /\ Batching(m) /\ Served(m, mintedTo[c]) /\ m = StartOfMinting
            /\ \A w \in l.white : w[1] # r.entry.token
            /\ mintedTo[c] \in [Accounts -> {0, 1}]
        BY <1>3, <2>1, <2>3, <3>2, <3>3 DEF MintOK
      <3>7. \A w \in l.white : w[1] # r2.entry.token
        BY <1>4, <1>5, <3>6
      <3>8. Admitted(m, r2.entry, l)
        <4>1. \A g \in DOMAIN Groups : \A i \in Numbers(g) :
                 <<r2.entry.token, Account(g, i), r2.entry.node>> \notin l.white
          BY <3>7
        <4>2. QED BY <3>6, <4>1, MintingStarts DEF Admitted
      <3>9. QED BY <1>4, <3>5, <3>6, <3>7, <3>8 DEF MintOK
    <2>4. QED BY <2>2, <2>3
  <1>7. QED BY <1>2, <1>6, OthersMint

\* Where the script stands when it mints.
LEMMA AtTheMinting ==
    ASSUME DeploymentInv, MintInv, NEW c \in Chains, AtStep(c, "mint")
    PROVE  /\ RunTyped(run[c]) /\ run[c].left # << >> /\ Head(run[c].left) = "mint"
           /\ c \in DevChains => /\ mintedTo[c] \in [Accounts -> {0, 1}]
                                 /\ Batching(run[c].minting)
                                 /\ Served(run[c].minting, mintedTo[c])
                                 /\ Admitted(run[c].minting, run[c].entry, lists[c])
                                 /\ run[c].script = "deployment"
                                 /\ ToDo(run[c].left, "mint")
                                 /\ ~ ToDo(Tail(run[c].left), "mint")
  <1> DEFINE r == run[c]
  <1>1. RunTyped(r) /\ RunOK(c, r, contracts[c], managers[c], lists[c])
    BY OfChain
  <1>2. r.left # << >> /\ Head(r.left) = "mint"
    BY DEF AtStep, Idle
  <1>3. OnItsWay(r.left, StepsOf(c, r.script))
    BY <1>1 DEF RunOK
  <1>4. ToDo(r.left, "mint") /\ "mint" \in StepsOf(c, r.script)
    BY <1>2, <1>3, EarlierIsDone
  <1>5. r.script = "deployment"
    BY <1>4 DEF StepsOf, WiringSteps
  <1>6. ~ ToDo(Tail(r.left), "mint")
    BY <1>2, <1>3, NextStep, StepsType
  <1>7. c \in DevChains => MintOK(r, lists[c], mintedTo[c])
    BY DEF MintInv
  <1>8. QED BY <1>1, <1>2, <1>4, <1>5, <1>6, <1>7 DEF MintOK

LEMMA AddMints ==
    ASSUME DeploymentInv, MintInv, NEW c \in Chains, AddAccount(c)
    PROVE  MintInv'
  <1> DEFINE r == run[c]
             m == r.minting
             w == <<GroupAt(c), m.index + 1>>
             i == m.index + 1
             ws == Append(m.wallets, w)
             m2 == [m EXCEPT !.index = i, !.wallets = ws]
             r2 == [r EXCEPT !.minting = m2]
  <1>1. AtStep(c, "mint") /\ DOMAIN run = Chains
    BY DEF AddAccount, DeploymentInv, DeploymentTypeOK
  <1>2. m \in [group : Nat, index : Nat, wallets : Batches, minted : BOOLEAN]
    BY <1>1, AtTheMinting DEF RunTyped
  <1>3. /\ Becomes(run, c, r2, run') /\ Becomes(lists, c, lists[c], lists')
        /\ Becomes(mintedTo, c, mintedTo[c], mintedTo')
    <2>1. run' = [run EXCEPT ![c].minting.index = @ + 1,
                    ![c].minting.wallets = Append(@, <<GroupAt(c), run[c].minting.index + 1>>)]
      BY DEF AddAccount
    <2>2. run' = [run EXCEPT ![c] = r2]
      BY <2>1
    <2>3. lists' = lists /\ mintedTo' = mintedTo
      BY DEF AddAccount, deployedVars, fileVars
    <2> HIDE DEF r2
    <2>4. QED BY <1>1, <2>2, <2>3 DEF Becomes
  <1>4. /\ r2.minting = m2 /\ r2.script = r.script /\ r2.left = r.left /\ r2.entry = r.entry
    BY <1>1, AtTheMinting DEF RunTyped
  <1>5. /\ m2.group = m.group /\ m2.index = m.index + 1 /\ m2.minted = m.minted
        /\ m2.wallets = Append(m.wallets, w)
    <2> HIDE DEF w, i, ws
    <2>1. m2.group = m.group /\ m2.index = i /\ m2.minted = m.minted /\ m2.wallets = ws
      BY <1>2
    <2>2. QED BY <2>1 DEF i, ws
  <1>6. /\ Len(m2.wallets) = Len(m.wallets) + 1 /\ DOMAIN m2.wallets = 1 .. Len(m2.wallets)
        /\ \A j \in 1 .. Len(m.wallets) : m2.wallets[j] = m.wallets[j]
        /\ m2.wallets[Len(m2.wallets)] = w
        /\ Len(m.wallets) # 0 <=> m.wallets # << >>
    <2> DEFINE S == {Groups[g] : g \in Nat} \X Nat
    <2>1. w \in S /\ m.wallets \in Seq(S)
      BY <1>2 DEF GroupAt, Batches
    <2> HIDE DEF S, w, m2
    <2>2. QED BY <1>5, <2>1
  <1> HIDE DEF r2, m2
  <1>7. ASSUME c \in DevChains PROVE MintOK(r2, lists[c], mintedTo[c])
    <2>1. ~ (Len(m.wallets) # 0 /\ Complete(m))
      BY <1>6 DEF AddAccount, BatchDue, Complete, GroupAt
    <2>2. w = Account(m.group, m.index + 1)
      BY DEF Account, GroupAt
    <2> HIDE DEF w
    <2>3. /\ mintedTo[c] \in [Accounts -> {0, 1}] /\ Batching(m) /\ Served(m, mintedTo[c])
          /\ Admitted(m, r.entry, lists[c]) /\ Head(r.left) = "mint"
      BY <1>1, <1>7, AtTheMinting
    <2>4. /\ Batching(m2) /\ Served(m2, mintedTo[c]) /\ Admitted(m2, r.entry, lists[c])
      BY <1>5, <1>6, <2>1, <2>2, <2>3, AccountIsAdded
    <2>5. QED BY <1>4, <2>3, <2>4 DEF MintOK
  <1>8. QED BY <1>3, <1>7, OthersMint

-----------------------------------------------------------------------------
\* The batch at hand is dealt with.
LEMMA NextBatchMints ==
    ASSUME NEW r, NEW l, NEW count \in [Accounts -> {0, 1}], RunTyped(r),
           r.script = "deployment", r.left # << >>, Head(r.left) = "mint",
           ToDo(r.left, "mint"), ~ ToDo(Tail(r.left), "mint"),
           Batching(r.minting), Len(r.minting.wallets) # 0, Complete(r.minting),
           \A g \in DOMAIN Groups : \A i \in Numbers(g) :
             /\ count[Account(g, i)] = IF Added(r.minting, g, i) THEN 1 ELSE 0
             /\ <<r.entry.token, Account(g, i), r.entry.node>> \in l.white <=>
                  Groups[g] = Brokers /\ Added(r.minting, g, i)
    PROVE  MintOK(NextBatch(r), l, count)
  <1> DEFINE m == r.minting
             last == m.index = GroupSize[Groups[m.group]]
             m2 == [m EXCEPT !.wallets = Flushed(@), !.minted = FALSE,
                             !.group = IF last THEN @ + 1 ELSE @,
                             !.index = IF last THEN 0 ELSE @]
             done == [[r EXCEPT !.left = Tail(@)] EXCEPT !.minting = StartOfMinting]
             goes == [r EXCEPT !.minting = m2]
             r2 == NextBatch(r)
  <1>1. m \in [group : Nat, index : Nat, wallets : Batches, minted : BOOLEAN]
    BY DEF RunTyped
  <1>2. /\ m2.wallets = << >> /\ m2.minted = FALSE
        /\ m2.group = IF last THEN m.group + 1 ELSE m.group
        /\ m2.index = IF last THEN 0 ELSE m.index
    <2> DEFINE g == IF last THEN m.group + 1 ELSE m.group
               i == IF last THEN 0 ELSE m.index
    <2>1. m2 = [m EXCEPT !.wallets = << >>, !.minted = FALSE, !.group = g, !.index = i]
      BY DEF Flushed
    <2> HIDE DEF m, last, g, i, m2
    <2>2. m2.wallets = << >> /\ m2.minted = FALSE /\ m2.group = g /\ m2.index = i
      BY <1>1, <2>1
    <2>3. QED BY <2>2 DEF g, i
  <1>3. r2 = IF last /\ m.group = Len(Groups) THEN done ELSE goes
    BY DEF NextBatch
  <1>4. IF last /\ m.group = Len(Groups) THEN AllServed(r.entry, l, count)
        ELSE Batching(m2) /\ Served(m2, count) /\ Admitted(m2, r.entry, l)
    <2> HIDE DEF m2
    <2>1. QED BY <1>2, BatchIsBehind
  <1> HIDE DEF m2
  <1>5. CASE last /\ m.group = Len(Groups)
    <2>1. r2.left = Tail(r.left) /\ r2.script = r.script /\ r2.entry = r.entry
      BY <1>3, <1>5 DEF RunTyped
    <2>2. AllServed(r2.entry, l, count) /\ ~ ToDo(r2.left, "mint")
      BY <1>4, <1>5, <2>1
    <2> HIDE DEF r2, done, goes, last, m
    <2>3. MintOK(r2, l, count)
      BY <2>2 DEF MintOK
    <2>4. QED BY <2>3 DEF r2
  <1>6. CASE ~ (last /\ m.group = Len(Groups))
    <2>1. /\ r2.left = r.left /\ r2.script = r.script /\ r2.entry = r.entry /\ r2.minting = m2
      BY <1>3, <1>6 DEF RunTyped
    <2>2. Batching(m2) /\ Served(m2, count) /\ Admitted(m2, r2.entry, l)
      BY <1>4, <1>6, <2>1
    <2>3. Head(r2.left) = "mint"
      BY <2>1
    <2> HIDE DEF r2, done, goes, last, m
    <2>4. MintOK(r2, l, count)
      BY <2>1, <2>2, <2>3 DEF MintOK
    <2>5. QED BY <2>4 DEF r2
  <1>7. QED BY <1>5, <1>6

LEMMA BatchMints ==
    ASSUME DeploymentInv, MintInv, NEW c \in Chains, MintBatch(c) \/ WhitelistBatch(c)
    PROVE  MintInv'
  <1> DEFINE r == run[c]
             m == r.minting
             l == lists[c]
             e == r.entry
             count == mintedTo[c]
  <1>1. /\ AtStep(c, "mint") /\ DOMAIN run = Chains /\ DOMAIN lists = Chains
        /\ DOMAIN mintedTo = Chains
    BY DEF MintBatch, WhitelistBatch, DeploymentInv, DeploymentTypeOK, MintInv
  <1>2. /\ RunTyped(r) /\ r.left # << >> /\ Head(r.left) = "mint"
        /\ c \in DevChains => /\ count \in [Accounts -> {0, 1}]
                              /\ Batching(m) /\ Served(m, count) /\ Admitted(m, e, l)
                              /\ r.script = "deployment"
                              /\ ToDo(r.left, "mint") /\ ~ ToDo(Tail(r.left), "mint")
    BY <1>1, AtTheMinting
  <1>3. NextAccount(c) = NextBatch(r)
    BY DEF NextAccount, NextBatch, GroupAt, Done
  <1>4. BatchDue(c) => Len(m.wallets) # 0 /\ Complete(m)
    <2>1. m.wallets \in Batches
      BY <1>2 DEF RunTyped
    <2>2. m.wallets # << >> => Len(m.wallets) # 0
      <3> DEFINE S == {Groups[g] : g \in Nat} \X Nat
      <3>1. m.wallets \in Seq(S)
        BY <2>1 DEF Batches
      <3> HIDE DEF S
      <3>2. QED BY <3>1
    <2>3. QED BY <2>2 DEF BatchDue, Complete, GroupAt
  <1>5. ASSUME c \in DevChains, NEW g \in DOMAIN Groups, NEW i \in Numbers(g)
        PROVE  InBatch(m, g, i) => Added(m, g, i) /\ g = m.group
    BY DEF InBatch, Added
  <1>6. CASE MintBatch(c)
    <2> DEFINE count2 == [a \in Accounts |-> IF \E i \in DOMAIN m.wallets : m.wallets[i] = a
                                             THEN count[a] + 1 ELSE count[a]]
               r2 == IF GroupAt(c) = Brokers THEN [r EXCEPT !.minting.minted = TRUE]
                     ELSE NextBatch(r)
    <2>1. /\ Becomes(run, c, r2, run') /\ Becomes(lists, c, l, lists')
          /\ Becomes(mintedTo, c, count2, mintedTo')
      BY <1>1, <1>3, <1>6 DEF MintBatch, deployedVars, fileVars, Becomes
    <2>2. BatchDue(c) /\ ~ m.minted
      BY <1>6 DEF MintBatch
    <2>3. ASSUME c \in DevChains PROVE MintOK(r2, l, count2)
      <3>1. /\ count2 \in [Accounts -> {0, 1}]
            /\ \A g \in DOMAIN Groups : \A i \in Numbers(g) :
                 count2[Account(g, i)] = IF Added(m, g, i) THEN 1 ELSE 0
        <4>1. Batching(m) /\ ~ m.minted /\ count \in [Accounts -> {0, 1}] /\ Served(m, count)
          BY <1>2, <2>2, <2>3
        <4> DEFINE mm == run[c].minting
                   cc == mintedTo[c]
        <4>2. count2 = [a \in Accounts |-> IF \E i \in DOMAIN mm.wallets : mm.wallets[i] = a
                                           THEN cc[a] + 1 ELSE cc[a]]
          OBVIOUS
        <4> HIDE DEF mm, cc, count2
        <4>3. /\ count2 \in [Accounts -> {0, 1}]
              /\ \A g \in DOMAIN Groups : \A i \in Numbers(g) :
                   count2[Account(g, i)] = IF Added(mm, g, i) THEN 1 ELSE 0
          BY <4>1, <4>2, BatchIsServed DEF mm, cc
        <4>4. QED BY <4>3 DEF mm
      <3>2. CASE GroupAt(c) = Brokers
        <4> DEFINE m2 == [m EXCEPT !.minted = TRUE]
        <4>1. /\ r2.left = r.left /\ r2.script = r.script /\ r2.entry = e /\ r2.minting = m2
          BY <1>2, <3>2 DEF RunTyped
        <4>2. /\ m2.group = m.group /\ m2.index = m.index /\ m2.wallets = m.wallets
              /\ m2.minted = TRUE
          BY <1>2 DEF RunTyped
        <4> HIDE DEF count2, r2, m2
        <4>3. /\ \A g, i : Added(m2, g, i) <=> Added(m, g, i)
              /\ \A g, i : InBatch(m2, g, i) <=> InBatch(m, g, i)
          BY <4>2 DEF Added, InBatch
        <4>4. Batching(m2)
          BY <1>2, <1>4, <2>2, <2>3, <3>2, <4>2 DEF Batching, Complete, GroupAt
        <4>5. Served(m2, count2)
          BY <3>1, <4>2, <4>3 DEF Served
        <4>6. Admitted(m2, e, l)
          BY <1>2, <2>3, <4>3 DEF Admitted
        <4>7. QED BY <1>2, <2>3, <3>1, <4>1, <4>4, <4>5, <4>6 DEF MintOK
      <3>3. CASE GroupAt(c) # Brokers
        <4>1. ASSUME NEW g \in DOMAIN Groups, NEW i \in Numbers(g)
              PROVE  <<e.token, Account(g, i), e.node>> \in l.white <=>
                        Groups[g] = Brokers /\ Added(m, g, i)
          BY <1>2, <1>5, <2>3, <3>3 DEF Admitted, GroupAt
        <4> HIDE DEF count2
        <4>2. MintOK(NextBatch(r), l, count2)
          BY <1>2, <1>4, <2>2, <2>3, <3>1, <4>1, NextBatchMints
        <4>3. QED BY <3>3, <4>2
      <3>4. QED BY <3>2, <3>3
    <2> HIDE DEF r2, count2
    <2>4. QED BY <2>1, <2>3, OthersMint
  <1>7. CASE WhitelistBatch(c)
    <2> DEFINE l2 == [l EXCEPT !.white =
                         @ \cup {<<e.token, m.wallets[i], e.node>> : i \in DOMAIN m.wallets}]
               r2 == NextBatch(r)
    <2>1. /\ Becomes(run, c, r2, run') /\ Becomes(lists, c, l2, lists')
          /\ Becomes(mintedTo, c, count, mintedTo')
      BY <1>1, <1>3, <1>7 DEF WhitelistBatch, Becomes
    <2>2. m.minted
      BY <1>7 DEF WhitelistBatch
    <2>3. \A x : x \in l2.white <=>
            x \in l.white \/ \E i \in DOMAIN m.wallets : x = <<e.token, m.wallets[i], e.node>>
      BY OfChain DEF ListsTyped
    <2> HIDE DEF l2
    <2>4. ASSUME c \in DevChains PROVE MintOK(r2, l2, count)
      <3>1. Batching(m) /\ Len(m.wallets) # 0 /\ Complete(m) /\ Groups[m.group] = Brokers
        BY <1>2, <2>2, <2>4 DEF Batching
      <3>2. ASSUME NEW g \in DOMAIN Groups, NEW i \in Numbers(g)
            PROVE  /\ count[Account(g, i)] = IF Added(m, g, i) THEN 1 ELSE 0
                   /\ <<e.token, Account(g, i), e.node>> \in l2.white <=>
                        Groups[g] = Brokers /\ Added(m, g, i)
        <4>1. /\ (\E j \in DOMAIN m.wallets : m.wallets[j] = Account(g, i)) <=> InBatch(m, g, i)
              /\ InBatch(m, g, i) => Added(m, g, i) /\ g = m.group
          BY <1>5, <2>4, <3>1, InTheBatch
        <4>2. count[Account(g, i)] = IF Added(m, g, i) THEN 1 ELSE 0
          BY <1>2, <2>2, <2>4 DEF Served
        <4>3. <<e.token, Account(g, i), e.node>> \in l2.white <=>
                <<e.token, Account(g, i), e.node>> \in l.white \/ InBatch(m, g, i)
          <5> HIDE DEF m, e, l
          <5>1. \A j \in DOMAIN m.wallets :
                  <<e.token, Account(g, i), e.node>> = <<e.token, m.wallets[j], e.node>>
                    <=> m.wallets[j] = Account(g, i)
            OBVIOUS
          <5>2. QED BY <2>3, <4>1, <5>1
        <4>4. <<e.token, Account(g, i), e.node>> \in l.white <=>
                Groups[g] = Brokers /\ Added(m, g, i) /\ ~ InBatch(m, g, i)
          BY <1>2, <2>4 DEF Admitted
        <4>5. QED BY <3>1, <4>1, <4>2, <4>3, <4>4
      <3>3. QED BY <1>2, <2>4, <3>1, <3>2, NextBatchMints
    <2> HIDE DEF r2
    <2>5. QED BY <2>1, <2>4, OthersMint
  <1>8. QED BY <1>6, <1>7

\* No account gets tokens twice, and a deployment that goes on from the minting
\* gave to each and admitted the brokers, whatever the sizes of the groups and
\* of the batches are.
THEOREM AccountsAreServedOnce == DeploymentSpec => []EachAccountOnce
  <1>1. DeploymentInit => MintInv
    <2> SUFFICES ASSUME DeploymentInit PROVE MintInv
      OBVIOUS
    <2>1. DOMAIN mintedTo = Chains
      BY DEF DeploymentInit
    <2>2. ASSUME NEW c \in DevChains PROVE MintOK(run[c], lists[c], mintedTo[c])
      <3>1. c \in Chains
        BY DeploymentAssumption
      <3>2. /\ mintedTo[c] = [a \in Accounts |-> 0] /\ run[c].script = "none"
        BY <3>1 DEF DeploymentInit
      <3>3. QED BY <3>2 DEF MintOK
    <2>3. QED BY <2>1, <2>2 DEF MintInv
  <1>2. DeploymentInv /\ MintInv /\ [DeploymentNext]_deploymentVars => MintInv'
    <2> SUFFICES ASSUME DeploymentInv, MintInv, [DeploymentNext]_deploymentVars PROVE MintInv'
      OBVIOUS
    <2>1. CASE UNCHANGED deploymentVars
      BY <2>1 DEF deploymentVars, deployedVars, fileVars, MintInv
    <2>2. CASE DeploymentNext
      <3> PICK c \in Chains :
            \/ StartDeployment(c) \/ StartRenewal(c) \/ StartWorkaround(c) \/ Fail(c)
            \/ \E kind \in Kinds : Deploy(c, kind)
            \/ AddAccount(c) \/ MintBatch(c) \/ WhitelistBatch(c)
            \/ Register(c, "query", "registerQuery") \/ Register(c, "store", "registerStore")
            \/ Register(c, "report", "registerReport")
            \/ Blacklist(c) \/ Whitelist(c) \/ ReadFile(c) \/ OpenFile(c) \/ WriteFile(c)
        BY <2>2 DEF DeploymentNext
      <3>1. CASE StartDeployment(c) \/ StartRenewal(c) \/ StartWorkaround(c)
        BY <3>1, StartMints
      <3>2. CASE Fail(c)
        BY <3>2, FailMints
      <3>3. CASE \E kind \in Kinds : Deploy(c, kind)
        BY <3>3, DeployMints
      <3>4. CASE AddAccount(c)
        BY <3>4, AddMints
      <3>5. CASE MintBatch(c) \/ WhitelistBatch(c)
        BY <3>5, BatchMints
      <3>6. CASE \/ Register(c, "query", "registerQuery") \/ Register(c, "store", "registerStore")
                 \/ Register(c, "report", "registerReport")
        <4>1. /\ "registerQuery" = Registering("query") /\ "registerStore" = Registering("store")
              /\ "registerReport" = Registering("report")
              /\ "query" \in ManagerKinds /\ "store" \in ManagerKinds /\ "report" \in ManagerKinds
          BY DEF Registering, ManagerKinds
        <4>2. \E k \in ManagerKinds : Register(c, k, Registering(k))
          BY <3>6, <4>1
        <4>3. QED BY <4>2, LaterMints
      <3>7. CASE Blacklist(c) \/ Whitelist(c) \/ ReadFile(c) \/ WriteFile(c)
        BY <3>7, LaterMints
      <3>8. CASE OpenFile(c)
        BY <3>8 DEF OpenFile, deployedVars, MintInv
      <3>9. QED BY <3>1, <3>2, <3>3, <3>4, <3>5, <3>6, <3>7, <3>8
    <2>3. QED BY <2>1, <2>2
  <1>3. DeploymentInv /\ MintInv => EachAccountOnce
    <2> SUFFICES ASSUME DeploymentInv, MintInv, NEW c \in DevChains
                 PROVE  /\ \A a \in Accounts : mintedTo[c][a] <= 1
                        /\ AtStep(c, "registerQuery") /\ run[c].script = "deployment" =>
                             /\ \A a \in Accounts : mintedTo[c][a] = 1
                             /\ \A a \in Accounts : a[1] = Brokers <=>
                                  <<run[c].entry.token, a, run[c].entry.node>> \in lists[c].white
      BY DEF EachAccountOnce
    <2>1. MintOK(run[c], lists[c], mintedTo[c])
      BY DEF MintInv
    <2>2. \A a \in Accounts : mintedTo[c][a] <= 1
      BY <2>1 DEF MintOK
    <2>3. ASSUME AtStep(c, "registerQuery"), run[c].script = "deployment", NEW a \in Accounts
          PROVE  /\ mintedTo[c][a] = 1
                 /\ a[1] = Brokers <=>
                      <<run[c].entry.token, a, run[c].entry.node>> \in lists[c].white
      <3>1. AllServed(run[c].entry, lists[c], mintedTo[c])
        BY <2>1, <2>3 DEF MintOK, AtStep, Idle
      <3>2. PICK g \in DOMAIN Groups : \E i \in Numbers(g) : a = Account(g, i)
        BY GroupsType
      <3>3. PICK i \in Numbers(g) : a = Account(g, i)
        BY <3>2
      <3>4. a[1] = Groups[g]
        BY <3>3 DEF Account
      <3>5. QED BY <3>1, <3>3, <3>4 DEF AllServed
    <2>4. QED BY <2>2, <2>3
  <1>4. QED BY <1>1, <1>2, <1>3, DeploymentIsInOrder, PTL DEF DeploymentSpec

=============================================================================

----------------------------- MODULE StakingFlow -----------------------------
(***************************************************************************)
(* Staking from outside the contracts: prepareStake and                    *)
(* ensureEnoughAllowance (shared), stakeOrCreateStore and queryStake of    *)
(* the client, "store stake" and "query stake" of the CLI, and withRetry.  *)
(*                                                                         *)
(* A job is one such call.  Jobs of one wallet run at the same time, in    *)
(* one process or in several, and share the wallet's nonces and            *)
(* allowances.  Between two awaits of a job anything else may happen: what *)
(* it read (an allowance, a nonce, a gas price) may be stale when used.    *)
(*                                                                         *)
(* Nodes, mempool and ethers are external and modelled by the outcomes the *)
(* code reacts to.  Streams that are staked on exist, amounts are tokens   *)
(* (after the conversion from USD) and no allowance is unlimited.          *)
(***************************************************************************)
EXTENDS Token, SequencesExt

CONSTANTS
    Jobs,
    JobOf,             \* [wallet, manager, requested, flow] of each job
    ExactLimit,        \* 2^53: above it a number of JavaScript loses digits
    InitialTokens, InitialAllowance,
    MaxGasPrice        \* bound of the model: the gas price rises up to it

\* "cli" prompts before it approves, "cliYes" is -y, "store" and "query" are
\* the client's stakeOrCreateStore and queryStake.
Flows == {"cli", "cliYes", "store", "query"}

Wallets == {JobOf[j].wallet : j \in Jobs}
Managers == {JobOf[j].manager : j \in Jobs}
Wallet(j) == JobOf[j].wallet
Manager(j) == JobOf[j].manager
Asks(j) == JobOf[j].flow = "cli"
Retries(j) == JobOf[j].flow \in {"cli", "cliYes"}
Rounds(j) == JobOf[j].flow = "query"

\* The numbers around n are multiples of Ulp(n), a power of two: 1, doubled
\* until n is within ExactLimit of them.
Widened(n, u) == IF n <= ExactLimit * u THEN u ELSE 2 * u
Ulp(n) == FoldLeft(LAMBDA u, i : Widened(n, u), 1, [i \in 1 .. n |-> i])

\* Number(n): the nearest of them, the even one of two.
Number(n) ==
    LET u == Ulp(n)
        down == n \div u
        rest == n - down * u
    IN  IF 2 * rest > u \/ (2 * rest = u /\ down % 2 = 1) THEN (down + 1) * u ELSE down * u

\* What a job approves and stakes.
AmountOf ==
    [j \in Jobs |-> IF Rounds(j) THEN Number(JobOf[j].requested) ELSE JobOf[j].requested]
Amount(j) == AmountOf[j]

ASSUME JobsAssumption ==
  /\ IsFiniteSet(Jobs)
  /\ \A j \in Jobs :
        /\ JobOf[j].flow \in Flows
        /\ JobOf[j].requested \in Nat
        /\ JobOf[j].wallet \in Holders
        /\ JobOf[j].manager \in Holders
ASSUME WalletsAssumption == Wallets \cap Managers = {}
ASSUME FlowConstantsAssumption ==
    /\ ExactLimit \in Nat \ {0}
    /\ InitialTokens \in [Holders -> Nat]
    /\ InitialAllowance \in [Wallets -> [Managers -> Nat]]
    /\ MaxGasPrice \in Nat \ {0}

VARIABLES
    pc,          \* where a job is
    kind,        \* the transaction it is at
    draft,       \* the nonce and the gas price it was given
    receipt,     \* what became of it on the chain
    orphans,     \* jobs whose caller was told of a failure while preparing
    agreed,      \* history: jobs that went on to approve
    pool,        \* jobs whose transaction is in the mempool
    nonce,       \* transactions mined, per wallet
    gasPrice,    \* what provider.getGasPrice returns
    stakes       \* stakes[w][m]: balanceOf of the managers

jobVars == <<pc, kind, draft, receipt, orphans, agreed>>
chainVars == <<pool, nonce, gasPrice, stakes>>
flowVars == <<jobVars, chainVars, tokenVars>>

Steps == {"idle", "reading", "asking", "populate", "submit", "wait",
          "staked", "failed", "broken"}
Ended == {"staked", "failed", "broken"}

-----------------------------------------------------------------------------
(* Mutants: what a slip in the definition of the same shape below would do. *)

\* Only what is missing is approved, which replaces what there was.
ApprovesMissing(j) ==
    LET current == allowance[Wallet(j)][Manager(j)]
    IN  IF current < Amount(j) THEN Amount(j) - current ELSE 0
\* Every error of a stake is retried, not only the two about gas prices.
AllRetried(j) == IF kind[j] = "stake" /\ Retries(j) THEN "populate" ELSE "failed"
\* A receipt is a success whatever its status is.
ReceiptIgnored(j) == receipt[j] # "none"

-----------------------------------------------------------------------------
(* prepareStake and ensureEnoughAllowance. *)

Start(j) ==
    /\ pc[j] = "idle"
    /\ pc' = [pc EXCEPT ![j] = IF Amount(j) > 0 THEN "reading" ELSE "failed"]
    /\ UNCHANGED <<kind, draft, receipt, orphans, agreed, chainVars, tokenVars>>

\* The job goes on to the transaction k.
GoOnTo(j, k) ==
    /\ pc' = [pc EXCEPT ![j] = "populate"]
    /\ kind' = [kind EXCEPT ![j] = k]

\* prepareStake has returned: the stake follows, unless the call was given up.
Prepared(j) ==
    IF j \in orphans
    THEN pc' = [pc EXCEPT ![j] = "failed"] /\ UNCHANGED kind
    ELSE GoOnTo(j, "stake")

EnoughAllowance(j) == allowance[Wallet(j)][Manager(j)] >= Amount(j)

ReadAllowance(j) ==
    /\ pc[j] = "reading"
    /\ \/ EnoughAllowance(j) /\ Prepared(j) /\ UNCHANGED agreed
       \/ /\ ~EnoughAllowance(j) /\ Asks(j)
          /\ pc' = [pc EXCEPT ![j] = "asking"]
          /\ UNCHANGED <<kind, agreed>>
       \/ /\ ~EnoughAllowance(j) /\ ~Asks(j)
          /\ GoOnTo(j, "approve")
          /\ agreed' = agreed \cup {j}
    /\ UNCHANGED <<draft, receipt, orphans, chainVars, tokenVars>>

\* The answer to the CLI's prompt.
Answer(j) ==
    /\ pc[j] = "asking"
    /\ \/ GoOnTo(j, "approve") /\ agreed' = agreed \cup {j}
       \/ pc' = [pc EXCEPT ![j] = "failed"] /\ UNCHANGED <<kind, agreed>>
    /\ UNCHANGED <<draft, receipt, orphans, chainVars, tokenVars>>

\* queryStake does not await its preparation: when the contract's address is
\* not found the caller is told so, and the preparation runs on.
LookupFails(j) ==
    /\ JobOf[j].flow = "query"
    /\ pc[j] \notin Ended \cup {"idle"}
    /\ kind[j] # "stake"
    /\ orphans' = orphans \cup {j}
    /\ UNCHANGED <<pc, kind, draft, receipt, agreed, chainVars, tokenVars>>

-----------------------------------------------------------------------------
(* Sending a transaction.  ethers fills in the nonce and the price and lets *)
(* the stake be tried (estimateGas); then it sends.                         *)

NextNonce(w) == nonce[w] + Cardinality({j \in pool : Wallet(j) = w})

WouldSucceed(j) ==
    kind[j] = "stake" =>
        TransferFromAllowed(Manager(j), Wallet(j), Manager(j), Amount(j))

\* What an error about a gas price leads to: only the CLI's stake is retried.
AfterPriceError(j) == IF kind[j] = "stake" /\ Retries(j) THEN "populate" ELSE "failed"
\* Any other error is thrown.
AfterError(j) == "failed"

Populate(j) ==
    /\ pc[j] = "populate"
    /\ \/ /\ WouldSucceed(j)
          /\ draft' = [draft EXCEPT ![j] = [nonce |-> NextNonce(Wallet(j)), price |-> gasPrice]]
          /\ receipt' = [receipt EXCEPT ![j] = "none"]
          /\ pc' = [pc EXCEPT ![j] = "submit"]
       \/ /\ ~WouldSucceed(j)
          /\ pc' = [pc EXCEPT ![j] = AfterError(j)]
          /\ UNCHANGED <<draft, receipt>>
    /\ UNCHANGED <<kind, orphans, agreed, chainVars, tokenVars>>

\* The transactions in the mempool with the same wallet and nonce.
Rivals(j) ==
    {k \in pool : Wallet(k) = Wallet(j) /\ draft[k].nonce = draft[j].nonce}

\* The node takes it, instead of one that pays less.
Submit(j) ==
    /\ pc[j] = "submit"
    /\ draft[j].nonce >= nonce[Wallet(j)]
    /\ \A k \in Rivals(j) : draft[j].price > draft[k].price
    /\ pool' = (pool \ Rivals(j)) \cup {j}
    /\ pc' = [pc EXCEPT ![j] = "wait"]
    /\ UNCHANGED <<kind, draft, receipt, orphans, agreed, nonce, gasPrice, stakes, tokenVars>>

\* "transaction gas price too low" or "replacement transaction underpriced".
SubmitUnderpriced(j) ==
    /\ pc[j] = "submit"
    /\ draft[j].nonce >= nonce[Wallet(j)]
    /\ draft[j].price < gasPrice \/ \E k \in Rivals(j) : draft[j].price <= draft[k].price
    /\ pc' = [pc EXCEPT ![j] = AfterPriceError(j)]
    /\ UNCHANGED <<kind, draft, receipt, orphans, agreed, chainVars, tokenVars>>

\* "nonce too low"
SubmitTooLate(j) ==
    /\ pc[j] = "submit"
    /\ draft[j].nonce < nonce[Wallet(j)]
    /\ pc' = [pc EXCEPT ![j] = AfterError(j)]
    /\ UNCHANGED <<kind, draft, receipt, orphans, agreed, chainVars, tokenVars>>

\* tx.wait(): the receipt, or that another transaction took the nonce.
Succeeded(j) == receipt[j] = "ok"
Replaced(j) == receipt[j] = "none" /\ nonce[Wallet(j)] > draft[j].nonce

AwaitReceipt(j) ==
    /\ pc[j] = "wait"
    /\ \/ Succeeded(j) /\ kind[j] = "approve" /\ Prepared(j)
       \/ /\ Succeeded(j) /\ kind[j] = "stake"
          /\ pc' = [pc EXCEPT ![j] = "staked"] /\ UNCHANGED kind
       \/ /\ ~Succeeded(j) /\ (receipt[j] = "reverted" \/ Replaced(j))
          /\ pc' = [pc EXCEPT ![j] = "failed"] /\ UNCHANGED kind
    /\ UNCHANGED <<draft, receipt, orphans, agreed, chainVars, tokenVars>>

\* The process ends, or a call to the provider fails, at any point.
Break(j) ==
    /\ pc[j] \notin Ended \cup {"idle"}
    /\ pc' = [pc EXCEPT ![j] = "broken"]
    /\ UNCHANGED <<kind, draft, receipt, orphans, agreed, chainVars, tokenVars>>

-----------------------------------------------------------------------------
(* The chain. *)

\* What ensureEnoughAllowance approves: all of the amount.
Approves(j) == Amount(j)

ApproveTx(j) ==
    /\ kind[j] = "approve"
    /\ Approve(Wallet(j), Manager(j), Approves(j))
    /\ receipt' = [receipt EXCEPT ![j] = "ok"]
    /\ UNCHANGED stakes

\* stake() of the store or the query manager.
StakeTx(j) ==
    /\ kind[j] = "stake"
    /\ TransferFromAllowed(Manager(j), Wallet(j), Manager(j), Amount(j))
    /\ TransferFrom(Manager(j), Wallet(j), Manager(j), Amount(j))
    /\ stakes' = [stakes EXCEPT ![Wallet(j)][Manager(j)] = @ + Amount(j)]
    /\ receipt' = [receipt EXCEPT ![j] = "ok"]

RevertedTx(j) ==
    /\ ~WouldSucceed(j)
    /\ receipt' = [receipt EXCEPT ![j] = "reverted"]
    /\ UNCHANGED <<stakes, tokenVars>>

Mine(w) ==
    /\ \E j \in pool :
        /\ Wallet(j) = w /\ draft[j].nonce = nonce[w]
        /\ ApproveTx(j) \/ StakeTx(j) \/ RevertedTx(j)
        /\ pool' = pool \ {j}
    /\ nonce' = [nonce EXCEPT ![w] = @ + 1]
    /\ UNCHANGED <<pc, kind, draft, orphans, agreed, gasPrice>>

RaiseGasPrice ==
    /\ gasPrice < MaxGasPrice
    /\ gasPrice' = gasPrice + 1
    /\ UNCHANGED <<jobVars, pool, nonce, stakes, tokenVars>>

OwnerTx ==
    /\ TokenOwnerTx(Wallets)
    /\ UNCHANGED <<jobVars, chainVars>>

-----------------------------------------------------------------------------
FlowInit ==
    /\ pc = [j \in Jobs |-> "idle"]
    /\ kind = [j \in Jobs |-> "none"]
    /\ draft = [j \in Jobs |-> [nonce |-> 0, price |-> 0]]
    /\ receipt = [j \in Jobs |-> "none"]
    /\ orphans = {} /\ agreed = {}
    /\ pool = {}
    /\ nonce = [w \in Wallets |-> 0]
    /\ gasPrice = 1
    /\ stakes = [w \in Wallets |-> [m \in Managers |-> 0]]
    /\ tokens = InitialTokens
    /\ allowance = InitialAllowance
    /\ blacklist = {} /\ whitelist = {}

Sends(j) == Submit(j) \/ SubmitUnderpriced(j) \/ SubmitTooLate(j)
JobStep(j) == ReadAllowance(j) \/ Populate(j) \/ Sends(j) \/ AwaitReceipt(j)

FlowNext ==
    \/ \E j \in Jobs : Start(j) \/ Answer(j) \/ LookupFails(j) \/ Break(j) \/ JobStep(j)
    \/ \E w \in Wallets : Mine(w)
    \/ RaiseGasPrice
    \/ OwnerTx

FlowSpec == FlowInit /\ [][FlowNext]_flowVars

\* Node runs the continuation of an await that is settled; somebody answers
\* the prompt; the chain mines what is in the mempool.
FlowFairness ==
    /\ \A j \in Jobs : WF_flowVars(JobStep(j)) /\ WF_flowVars(Answer(j))
    /\ \A w \in Wallets : WF_flowVars(Mine(w))
FlowFairSpec == FlowSpec /\ FlowFairness

-----------------------------------------------------------------------------
(* Properties *)

FlowTypeOK ==
    /\ pc \in [Jobs -> Steps]
    /\ kind \in [Jobs -> {"none", "approve", "stake"}]
    /\ draft \in [Jobs -> [nonce : Nat, price : Nat]]
    /\ receipt \in [Jobs -> {"none", "ok", "reverted"}]
    /\ orphans \subseteq Jobs /\ agreed \subseteq Jobs /\ pool \subseteq Jobs
    /\ nonce \in [Wallets -> Nat]
    /\ gasPrice \in Nat
    /\ stakes \in [Wallets -> [Managers -> Nat]]
    /\ tokens \in [Holders -> Nat]
    /\ allowance \in [Wallets -> [Managers -> Nat]]
    /\ blacklist \subseteq Holders
    /\ whitelist \subseteq Holders \X Holders

JobsOf(w, m) == {j \in Jobs : Wallet(j) = w /\ Manager(j) = m}
Requested == [j \in Jobs |-> JobOf[j].requested]
Total(jobs) == SumFunctionOnSet(Requested, jobs)
\* By how much the rounding of queryStake may be off.
RoundingError == [j \in Jobs |-> IF Rounds(j) THEN Ulp(JobOf[j].requested) \div 2 ELSE 0]
Slack(jobs) == SumFunctionOnSet(RoundingError, jobs)

\* Through replaced, refused and retried transactions and processes that end:
\* what was reported as staked is staked, once, and what was reported as
\* failed is not; only of a job that broke off or waits one cannot tell.
StakesMatchReports ==
    \A w \in Wallets, m \in Managers :
        LET jobs == JobsOf(w, m)
        IN  /\ Total({j \in jobs : pc[j] = "staked"}) <= stakes[w][m] + Slack(jobs)
            /\ stakes[w][m] <= Slack(jobs) +
                Total({j \in jobs : pc[j] \in {"staked", "broken", "wait"}})

\* What a manager has taken from a wallet and may still take is within what it
\* was allowed before and what the approvals agreed to are for, in whatever
\* order approvals overwrite each other between the stakes.
SpendingWithinAgreed ==
    \A w \in Wallets, m \in Managers :
        stakes[w][m] + allowance[w][m] <=
            InitialAllowance[w][m] + Total(JobsOf(w, m) \cap agreed) + Slack(JobsOf(w, m))

\* Jobs that have not begun to send.
NotSending == {j \in Jobs : pc[j] \in {"idle", "reading", "asking"}}

\* No other job of the wallet and the manager has begun to.
Lone(j) == JobsOf(Wallet(j), Manager(j)) \ {j} \subseteq NotSending
\* The stake is prepared and not mined.
StakeAhead(j) ==
    /\ kind[j] = "stake"
    /\ pc[j] \in {"populate", "submit"} \/ (pc[j] = "wait" /\ ~Succeeded(j))

\* A job that no other job of its wallet and manager comes in between has the
\* allowance its stake needs, from the check until the stake is mined.
LoneStakeIsAllowed == \A j \in Jobs : StakeAhead(j) /\ Lone(j) => EnoughAllowance(j)

\* A call that began ends, also when its transactions are refused and retried.
EveryJobEnds == \A j \in Jobs : pc[j] = "reading" ~> pc[j] \in Ended

=============================================================================

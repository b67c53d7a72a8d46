# Log Store: a TLA+ model of the contracts, the client and the services around them

The Log Store network stores the messages of Streamr streams. Its core is four
Solidity contracts (`src/packages/contracts/src`): they keep the list of nodes
and what everyone has staked, and they decide which reports of storage and
query fees are accepted and how these are paid. Around them are a TypeScript
client, the protocol of the nodes, shared helpers, a command line, a heartbeat,
a subgraph and the deployment scripts. This directory models the contracts as a
whole, the parts of the client that run concurrently or can fail, and the
services around them, checks them with TLC on small instances and proves the
most important results with TLAPS for every value of the constants.

## Inventory

Paths are below `src/packages`. "Hard" names what makes a part hard to test.

| part | state | operations | talks to | hard | correct when |
|---|---|---|---|---|---|
| node list, `contracts/src/NodeManager.sol` | `nodes` (next, prev, index, lastSeen), `headNode`, `tailNode`, `totalNodes`, `startBlockNumber`, `whitelist`, `requiresWhitelist` | `upsertNode(Admin)`, `removeNode(Admin)`, `kickNode`, `whitelistApprove/RejectNode`, `setRequiresWhitelist`, `nodeAddresses` | read by the report manager | long histories of a pointer structure | the pointers form one list of the registered nodes, in order of joining |
| node manager, the same file | `nodes[].stake`, `balanceOf`, `delegatesOf`, `totalSupply`, `treasurySupply` | `stake`, `delegate`, `undelegate`, `withdraw`, `join`, `leave`, their combinations, `treasuryWithdraw`, `processReport` | token, store, query and report managers, Streamr's registry | four hand-kept sums, removal of nodes with delegations, clamping | what is owed is what is held; permission follows stake |
| store manager, `StoreManager.sol` | `stores`, `storeStakeholders`, `balanceOf`, `storeBalanceOf`, `totalSupply` | `stake`, `capture` | token; called by the node manager | overflows, integer division, a list rebuilt inside a loop over it | a capture takes from its stream alone and transfers what it takes |
| query manager, `QueryManager.sol` | `balanceOf`, `totalSupply` | `stake`, `capture` | token; called by the node manager | overflows | the same, per consumer |
| report manager, `ReportManager.sol` | `reports`, `reportProofs`, `lastReportId`, `reputationOf`, `reportTimeBuffer` | `report`, `processReport`, `setReportTimeBuffer`, `getReporters`, `canReport` | node manager | two orders of signers, turns in time, ids sent again | half of the nodes agreed, one node at a time may report, nothing processed changes |
| LSAN token, `alpha/Token.sol` | balances, allowances, blacklist, whitelist | ERC-20, `mint`, `burn`, `addBlacklist` and others | used by all managers | lists and balances change while a stake is under way | no spending beyond an allowance |
| `lib/VerifySignature.sol`, `lib/StringsUpgradeable.sol` | none | verify, formatting | report manager | two libraries that format the same numbers | the contract packs what the nodes signed |
| synchronized queries, `client/src/utils/SynchronizedGraphQLClient.ts` | `requiredBlockNumber`, `blockNumber`, `gates` | `updateRequiredBlockNumber`, `sendQuery`, the polling loop | The Graph | two loops, answers that overtake each other, time-outs, failing polls | no query before its block is indexed; waiting queries are served |
| GraphQL client, `client/src/utils/GraphQLClient.ts` | the last page | `sendQuery`, pagination | The Graph | page limits, pages of different blocks | every item once, up to the block that is returned |
| promises, `client/src/utils/promises.ts` | `currentCall`, queues | `pOnce`, `pOne`, `pOrderedResolve`, `pLimitFn` | exported helpers | resets that race calls, functions that throw at once | one call at a time; results in the order of the calls, and each of them |
| events, `client/src/events.ts` | listeners, producer | `on`, `once`, `off`, gateway | registries | listeners that add, remove and throw while they are called | the producer runs exactly while someone listens |
| queries, `client/src/Queries.ts`, `HttpUtil.ts`, `registry/NodeManager.ts` | streams of messages | `query`, HTTP | node manager contract, nodes | stale lists of nodes, refused, broken and aborted answers | the messages that were asked for; every query ends and releases its connection |
| registries, `client/src/registry/*` | cached contracts | stake, read | contracts, shared helpers | un-awaited preparation, rounded amounts | what is reported is what is staked |
| shared helpers, `shared/src/*` | allowance on the chain | `prepareStake`, `ensureEnoughAllowance`, prices | token, price API | an allowance read, compared and overwritten in three steps | the stake that follows is allowed; nothing is approved beyond what was agreed to |
| command line, `cli/src/*` | none | commands, `withRetry` | shared helpers | refused, replaced and retried transactions | no stake is made twice; every command ends |
| heartbeat, `heartbeat/src/*` | permission and stake on the chain | `init`, `start`, `beat`, `stop` | client, Kyve pool | a restart between two steps of `init` | the stream is staked once before beats |
| protocol reports, `protocol/src/report/*` | a report, plain or serialised | `serialize`, `deserialize`, `toHash`, `toProof`, `toContract` | contracts (the hash) | agreement with the packing on the chain | the contract verifies exactly the proofs of the report it is sent |
| protocol messages, `protocol/src/system/*` | registered serialisers | `serialize`, `deserialize` | the system stream | versions, optional fields in the middle of arrays | what is read is what was written |
| subgraph, `subgraph/src/log-store-manager.ts` | entities | one handler per event | store manager's events | several events of one transaction | an entity per event |
| deployment, `contracts/scripts/*`, `contracts/utils/functions.ts` | `address.json`, the registered managers, the token's lists | the three scripts | contracts | failures between transactions, scripts that write the file together | the file names the contracts that work together |
| benchmarks, `broker` and `validator` (empty submodules) | | | | | |

The contracts interact synchronously, in transactions. `report()` (report
manager) reads the node list and the stakes; `processReport()` (node manager)
reads a report, calls `capture` of the store and query managers for each bill,
changes stakes, delegations and the treasury, sets permissions at Streamr's
registry and marks the report processed. A failing call reverts all of it.

## Modules

| module | models | state and actions |
|---|---|---|
| `NodeList` | what the node list promises | a sequence; `Join`, `Leave` |
| `NodeRegistry` | the linked list, whitelist and start block | the fields of `nodes` as functions; an action per transaction; `Upsert` and `Unlink` are `_upsertNode` and `_removeNode` |
| `NodeManager` | the whole node manager; extends `NodeRegistry` | balances, delegations, supplies, permission, tokens; actions ending in `Tx`, one per external function; an accepted report is what it changes |
| `StoreLedger` | the storage of the store manager | one record; `Stake` and `Capture` are operators on it |
| `StoreManager` | stakes on streams and their capture, over `StoreLedger` | the record and the tokens; an action per transaction |
| `QueryManager` | the same for consumers | the same |
| `ReportManager` | accepting reports | the reports and reputations; the node manager is two variables, `members` and `staked`, which change at will |
| `LogStoreNetwork` | the four contracts together | instances of the four modules; `members` and `staked` are now the node manager's, and `ProcessTx` folds the captures of a report |
| `IndexingState` | the client's synchronized queries | each call and each polling loop has a program counter; an action is what runs between two awaits |
| `Token` | the stake token with its allowances and lists | an operator per function |
| `StakingFlow` | staking by the client and the CLI over `Token`: jobs of one wallet at the same time | each job has a program counter; an action is what runs between two awaits; mempool, nonces and gas price are external; `Mine` executes the next transaction of a wallet |
| `ClientEvents` | the observable emitter, the event gateway and `addToLogStore` | registrations per event, the producer, the emission under way; an action per call of the application, per task and per step of an emission |
| `SharedCalls` | `pOne` over `pOnce` | call objects, their status and who waits for them; an action per step between awaits |
| `OrderedCalls` | `pOrderedResolve` | the queue of deferred results; an action per call, settlement and step of the queue |
| `HttpQueries` | queries of stored messages, from the options to the last line | a program counter per query; an action is what runs between two awaits; nodes join, leave and change their metadata meanwhile |
| `StoredStreams` | events of the store manager, the subgraph's handlers and `getStoredStreams` | the chain's log, the entities, the pages of one call |
| `SystemReports` | reports on their way between the nodes and the contract | the copy each node holds, in the form it holds it, what was published and the proofs; `serialize`, `toHash`, `toContract` and the contract's packing are operators |
| `SystemMessages` | the messages of the system stream | the serialisers each process has registered, the arrays on the stream; `toArray`, `fromArray` are operators |
| `Deployment` | the deployment scripts and the address file | the steps that are left to the script of each chain; an action per kind of step, `Fail` at each |
| `Heartbeat` | the heartbeat service | the step of the process, the permission and the stake; `Crash` at every step, also after a transaction that was made |
| `FoldLemmas` | facts about folds, loops and sums that the proofs use | |
| `NodeManagerProofs` | theorems about `NodeRegistry` and `NodeManager` | |
| `StoreLedgerProofs` | lemmas about `StoreLedger` | |
| `ManagerProofs` | theorems about `StoreManager` and `ReportManager` | |
| `NetworkProofs` | theorems about `LogStoreNetwork` | |
| `ClientProofs` | theorems about `ClientEvents`, `SharedCalls`, `IndexingState`, `OrderedCalls`, `HttpQueries`, `StoredStreams` | |
| `ServicesProofs` | theorems about `StakingFlow`, `Heartbeat`, `SystemMessages`, `SystemReports` | |
| `DeploymentProofs` | theorems about `Deployment` | |
| `MC*` | instances for TLC | constants, and for `MCClient` and `MCServices` which component a behaviour is of |

How they compose. `LogStoreNetwork` composes the four contract modules;
`NodeManager` extends `NodeRegistry`, which implements `NodeList`; `StakingFlow` runs
over `Token`. `StoredStreams` uses of `IndexingState` what that module establishes: the
first page is not asked for before the required block is indexed. `SystemReports`
gives the meaning of the flag `valid` that proofs have in `ReportManager`. The other
client and service modules share no state: `MCClient` and `MCServices` run them
in one instance each, where a behaviour is of one component.

Conventions. A transaction is one step; one that reverts changes nothing, so
each `require`, each checked subtraction and each failing sub-call is a conjunct
of the guard. A value that is only formatted, hashed or logged is left out.
Next to the definitions are a few named *mutants*: slips of the same shape,
each of which one of the properties detects when it takes the definition's
place. They are no part of the specifications.

### Abstractions

- **Tokens**, except in `StakingFlow`, are an ERC-20 whose transfers succeed when the sender has the
  amount; allowances are always there. Amounts are natural numbers: the 256 bits
  of the contracts are out of reach of the supply of any token.
- **`NodeRegistry`** keeps of `lastSeen` only that it is not 0, and no metadata.
- **Reports** give each node and each delegation one change; in `NodeManager`
  they are records of these, in `LogStoreNetwork` they also list the bills.
- **`ReportManager`**: the proofs come in three arrays, as in the code, whose lengths
  may differ; of a signature only whether it verifies (`valid`);
  of a report's billing one value. A block is mined per unit of time, so that
  `block` is the block number and gives the timestamp. `Precision` stands for
  `MATH_PRECISION`; with 6 the divisions by 2 and by up to 3 proofs are exact, as
  they are, for practical purposes, with 10^10.
- **`getReporters`** on an empty list reverts by underflow, and `_canReport` with a
  buffer of 0 by running out of gas; both are guards.
- **`IndexingState`**: the retry interval and the time-out are steps that may
  happen at any time. A rejected poll is `PollFails`: the promise of
  `startPolling` is awaited by nobody. In a browser that is reported and
  nothing more; in Node it may end the process, in which case nothing of the
  model's remaining behaviours happens.
- **`StakingFlow`**: the nonce, the gas price and the trial of a transaction
  (`estimateGas`) are read in one step, before it is sent. A node takes a
  transaction unless its nonce is used up or another one with the same nonce
  pays as much; it may refuse one below its gas price. Errors are those the
  code tells apart: about prices, and all others. `Break` stands for a process
  that ends and for a provider that fails, at any point after the start; what
  is in the mempool then is still mined. `Number()` in `queryStake` rounds as a
  double does, with `ExactLimit` for 2^53. Streams that are staked on exist.
- **`ClientEvents`**: the emitter of the library is a set of numbered registrations
  that are called in their order; a listener is between its call and its return
  when it adds and removes others. One gateway; the other event has none.
- **`SharedCalls`** and **`OrderedCalls`**: a function settles at any time after its
  call. In the first it does not matter whether it succeeds.
- **`HttpQueries`**: the node that answers is external. It sends the stored messages
  that its query string asks for, both ends included, which is what the
  client's own defaults assume. A message is its timestamp, its sequence number
  and its publisher; the chain id of messages, decryption and the ordering by the
  streamr client are left out. Options are missing or null where the code tests for it;
  a sequence number is a number or missing, as its type says. Every error before the first line is the same to
  the caller, as it is in the code.
- **`StoredStreams`**: a stream id is its rank in the order of strings, among which
  `Undefined` marks where "undefined" lies. The subgraph indexes whole blocks. The gate is for
  the block that was required when the call began, and may time out at any time. A page gives
  streams only, so it is described by how many updates there are of streams before each.
- **`SystemReports`**: a text is the sequence of its characters, a name counts as
  one. What is packed is a sequence without the ends of its parts, as bytes are;
  Keccak is injective. The numbers are written digit by digit by both libraries,
  since that they agree is what matters.
- **`SystemMessages`**: values are texts; the stream may deliver an array late,
  repeatedly or never. A time that the constructor of a proof takes from the clock is `Now`.
- **`Deployment`**: one script at a time on each chain. Contracts are numbers, and only what
  they were made with and registered is kept. `Fail` ends the script at any step. Writing the file
  empties it first and then writes, as `fs.writeFile` does; of a file that was torn
  by two writes or by one that failed only that nobody can parse it is kept.
- **`Heartbeat`**: creating the stream is repeatable (`getOrCreateStream`). The pool has a
  bundle at some time and keeps it.

## Runs

| run | instance | shows |
|---|---|---|
| `registry` | 3 addresses, blocks 1 to 3 | the list is well formed (`ListWellFormed`), `NodeRegistry` implements `NodeList` (`RefinesNodeList`) |
| `registry_index` | the same | *violation*: `index` is not the position (finding below) |
| `manager` | 2 accounts with 2 and 1 tokens, stake required 2, one rewarding report | ledger, access, wealth; every step is a step of the list (`RegistrySpec`) |
| `store` | 3 holders, 2 streams, stakes of 1 and 2, fees 0 to 3 | streams are covered by tokens (`StoresHoldTokens`), the list of a stream names exactly its holders until a fee finishes one of several (`ListFollowsStakes`) |
| `store_fees` | the same | *violation*: fees are not proportional |
| `reports` | 3 nodes, 5 node lists, 8 lists of proofs and 2 whose arrays differ in length, 2 ids, blocks to 3 | turns, heights, consensus, finality, reputation |
| `reports_bad_proofs` | the same | *violation*: the wrong reputation is reset |
| `network` | 2 accounts that are nodes and clients, 1 stream, 2 reports, one that may overflow | custody of tokens over all contracts, payments only for accepted reports and once |
| `client` | `ClientEvents`: 1 callback, 3 registrations, 2 events. `SharedCalls`: 4 callers. `OrderedCalls`: 3 callers. `HttpQueries`: 1 query, 2 nodes, 4 messages, 56 options, 7 answers, 1 change of the nodes. `StoredStreams`: 3 events, pages of 2. `IndexingState`: 2 calls, 2 loops, blocks to 2, 1 failing poll | the gateway serves its listeners and stops without them; one outstanding call; results in order, and each of them (liveness); an ended query is complete, connections are released, queries settle (liveness); an entity per event, nothing missed on the first page, calls settle (liveness); no stale query, no forgotten gate, waiting calls are served (liveness) |
| `client_streams` | the same | *violation*: streams beyond the first page are missed |
| `indexing_resumes` | `IndexingState` with blocks to 1 | *violation*: a failed poll strands later calls |
| `services` | `StakingFlow`: 2 jobs of one wallet for one manager, of the CLI with a prompt (2 tokens) and of the client (5, rounded to 4); 6 tokens, an initial allowance of 1. `SystemReports`: 2 nodes, 3 reports, 2 proofs. `SystemMessages`: 2 processes, 6 messages, 2 of a later release. `Deployment`: 2 chains, 2 scripts on one of them. `Heartbeat`: 2 crashes, 2 beats | what is reported is what is staked, spending is within what was agreed to, a stake alone is allowed, every job ends (liveness); exactly the right proofs verify; messages are read as sent; the file names contracts that are wired and may pay, every account gets its tokens once; the heartbeat stakes once |

**Bounds.** Three addresses give a list a head, a middle and a tail; removal
touches a node and its two neighbours, so longer lists add no new case (and the
proofs cover all lengths). Two accounts are a node and its delegator in either
role, and tokens 2 and 1 with a required stake of 2 make both the own and the
delegated stake decide about access. In `store` three holders let a list that is rebuilt
for one of them have the wrong one in place of two others, and two streams let a holder have a stake
elsewhere, where it must not count; fees reach beyond a stream's stake. In
`reports` buffers 0 and 1 with three nodes and blocks to 3 reach the end of a
cycle, and the proof lists contain the same signer twice, a bad signature
before and after good ones, and means that are not whole. Of the arrays of unequal
length one has lengths whose sum is right, so that it reverts only by reading beyond the shorter one, and only when that is for a node. `network` is cut by
a state constraint (`Bounded` in `MCLogStoreNetwork`): no whitelist, no tokens that
are staked without being delegated, the first node in the first block, one content for each id, and nothing after
both reports are processed; these parts have runs of their own. `store` is run
without the deadlock check: all tokens may be captured, and then nothing is left
to do. Of the components in `client` and `services`: two staking
jobs are the least that can approve over each other, spend each other's
allowance and take, replace and reject each other's nonce; the tokens are enough
for both until the owner burns them, and the gas price takes two values. A
callback that is registered three times has its wrapper of `once` left when `off`
removes the others. Four callers of `pOne` are what its late return needs: one that
returns late, two that share the call it resets, one that starts the next.
The messages of `HttpQueries` include two at one time and a gap in the sequence
numbers; the options have every combination of ends with and without sequence
numbers; the answers every kind of failure, and consensus of none, one, two
and two that differ. Two nodes make the second choice after a first that left or
cannot be read. Pages of two with three updates make a full page and one more,
on either side of "undefined". The reports have amounts of one digit, two, more
than a byte, zero and below zero, a delegate without nodes, and the same entries in another
order. The batches of the deployment leave a smaller last one; two scripts on
one chain are a deployment and what follows it, a renewal, a repair or a second one,
beside one on the other chain. Two crashes of the heartbeat cut `init` short twice.
No deadlock is checked in these two runs, because calls, jobs and scripts end.

**Fairness.** `IndexingState` states weak fairness of each polling
loop's steps: a poll that does not fail is answered, and the timer of the retry
interval fires. Nothing is assumed of the callers or of The Graph: what is
indexed may stay behind for ever. `TimedIndexingSpec`, used by the violation
only, adds that the time-outs of `withTimeout` fire, so that the counterexample
is not due to a timer that stands still. `OrderedCalls` states weak fairness of the
queue's tasks, which the event loop runs, and of each function's settling: without it nothing could be
promised of the results behind it. `HttpQueries` states it of what goes on with a query
that was asked: awaits of the contract and of the node come back, as an answer or an error,
and a reader reads on; none of asking, stopping, breaking or of changes to the nodes. `StoredStreams`
states it of the gate, which opens or whose timer ends the wait, and of
the answers of The Graph. It is not assumed that blocks are indexed: a call whose block is not
indexed ends with the `TimeoutError`.
None of these steps is enabled before a call is made, so that in the runs of several
components those that are not exercised demand nothing. `StakingFlow` states weak fairness of the
steps of each job that has begun (node runs the continuation of a settled await),
of the answer to the prompt and of mining; none of starting a job, of breaking
off or of the token's owner. That the gas price rises only `MaxGasPrice` times
matters for `EveryJobEnds`: were it to rise for ever between each estimate and
its use, `withRetry` would retry for ever. Nobody is bound to send transactions, so
no liveness is claimed of the contracts; scripts and services may fail at any step, so none of them.

## Findings

- `NodeManager.sol:360` The renumbering loop of `_removeNode` reads `next` after the
  delete and never runs; the comment above it says what it should do
  (`registry_index`).
- `StoreManager.sol:99` The share of a stakeholder is an integer division, 0 for
  everyone but a sole holder; the comment at line 96 says fees are proportional
  (`store_fees`).
- `ReportManager.sol:279` The reset for a bad proof uses a rank as an index into the
  sender's array of addresses (`reports_bad_proofs`).
- `LogStoreRegistry.ts:228` The stored streams are selected without the `id` that
  the pagination continues from: the second page asks for the streams after
  "undefined". Those between the last of a full page and that string are
  missed, and when a full page lies after it, it is read over and over
  (`client_streams`; `MissesOnlyPastAPage` and `CallSettles` say that nothing else goes
  wrong).
- `SynchronizedGraphQLClient.ts:90` A poll that rejects ends the polling loop and
  leaves its gates; queries made while such a gate is there are never served,
  against the comment on the class (`indexing_resumes`).

Weaknesses that are part of the properties that hold, each as the exception it
makes:

- `AccessFollowsStake`: a node that is removed keeps its Publish permission
  (`NodeManager.sol:354`; so does `leave()` when others delegate enough), though the
  comment at line 233 says that nodes do not participate unless staked.
- `CustodyExact`: the node manager's `totalSupply` grows by the whole fee also when the
  client had less (`NodeManager.sol:183`), and it then owes more than it holds.
- `OneOutstanding`: the return of a caller may reset a call of `pOne` that has begun since
  (`promises.ts:58`), after which two calls run.
- `SettledReturn`: a function that throws before it gives a promise blocks the queue of
  `pOrderedResolve` for good (`promises.ts:16`).
- `GatewayStopsWhenIdle`: a once-listener that throws leaves the gateway running
  (`events.ts:40`).
- `QueriesSettle`: a connection that breaks within the body leaves the reader
  waiting (`HttpUtil.ts:145`).
- `ConnectionsReleased`: an answer without consensus is never aborted
  (`HttpUtil.ts:131`).
- `FileNamesWiring`: scripts on two chains that end together lose an entry of
  `address.json` or leave a file that nobody can parse, as does a write that fails
  (`functions.ts:98`, `:117`), and a renewal that fails after registering leaves
  the file behind the contracts.
- `ListFollowsStakes`: the loop that removes a finished holder from a stream's list pushes
  that holder once for each of the others (`StoreManager.sol:116`), though the comment
  at line 111 says that the finished one is removed; an overflow then clears none of
  the others' stakes. It takes a holder that has as much on the stream as the stream itself
  has left, after fees that were charged to nobody (line 99).
- `StakesMatchReports`, `SpendingWithinAgreed`: the amount of `queryStake` is rounded by
  `Number()` (`LogStoreRegistry.ts:201`), so that above 2^53 wei another amount is
  approved and staked than the one given, though `client/README.md:23` says "Stakes the
  specified amount of funds in order to perform queries". The properties allow that difference and no more.
- `ProofsVerify`: a proof of timestamp 0 never verifies, and the events of a report are
  not signed.
- `StakedOnceOrCutShort`: a heartbeat that ends between opening its stream and staking
  never stakes (`heartbeat.ts:50`).

## Proofs

The theorems are for every value of the constants: every set of accounts, nodes, streams, callers,
jobs or messages, all amounts, and histories of any length. A component's proof has an
inductive invariant (named `...Inv`), lemmas for the operators, a lemma per action where
that is more than a line, and then the theorem.

**Folds and sums** (`FoldLemmas`). The loops of the code are folds, and most of what the contracts
promise is about sums. The provers cannot instantiate an induction theorem whose
parameter is an operator, so the induction is stated over sets: a set that has 0 and with each
number its successor has all natural numbers (`NatSetInduction`), likewise for the subsets of a finite
set. `SetRecursion` and `LoopRecursion` give the recursive function that a fold chooses, whatever the
step is, and `NatRecursion` the one a definition by recursion on numbers chooses; `LoopInvariant` carries a
property through the rounds of a loop. From these follow the facts
about sums: taking out an element, adding, changing one value, bounds and parts.

### The contracts

**The list.** The inductive invariant is `NodeRegistryTypeOK /\ ListWellFormed`: types alone
are not inductive, because that the count does not go below zero and that no link leads
to a deleted node both need the list to be a list. `ListWellFormed` says that there is a sequence the
pointers chain; the proof names the sequence after an append and after a removal and shows
it is chained again, field by field. `StartBlockStable` follows from it, since the head is none
exactly when there are no nodes. `RefinesNodeList` is proved from it: the walk of
`nodeAddresses()` over a chained list returns the sequence that is chained, which is unique, so that an
append is a `Join` and a removal, wherever in the list, a `Leave` of the abstract one; by
`ManagerImplementsRegistry` this holds of the whole contract. Assumed: `NoAddress` is no address, `MaxBlock` is positive.

**The node manager.** Each transaction implies a step of `RegistryNext` or leaves the list's variables, hence
`ManagerSpec => RegistrySpec` (`ManagerImplementsRegistry`), and the list's theorems hold of the
whole contract. Type correctness is the proof that no counter goes below zero, for all amounts
and all reports; `AccessFollowsStake` is proved with it, one step per transaction. Assumed: the
accounts are as declared, the required stake is positive, reports have the form `ReportEffect`.

Its books are `LedgerBalances` (supply, debts and tokens), `StrandsByRemovalOnly` (what each stake has
behind it) and `MovesOwnValue` (nobody's value becomes another's); one lemma per transaction keeps all three.
The last holds of every report's history (`ValueStaysWithItsOwner`). The other two speak of what
reports do, and the contract does not check that a report pays out what it bills: it may pay more, and then the
ledger does not balance. `LedgerAlwaysBalances` and `StrandedByRemovalOnly` therefore assume
`PaysWhatItBills` of each report, which is what the broker's arithmetic is for, and the first that
the contract starts without tokens.

**The store manager.** `StoreLedgerProofs` shows of `Stake` and `Capture` what they do to a storage:
to the sum of the streams (by what is transferred), and that a holder's balance stays within the sum of its stakes
through both loops over the stakeholders, whatever list they leave (`WithinStakes`). The invariant of
`StoreManager` is then these facts, and gives `StreamsHoldTheirTokens` and `HoldersWithinStakes`.
`ListsNameHolders` needs no more of the state before than that the list names the holders: the loops then meet each of them
once, in rounds of which each changes one holder's stakes and the list (`Rounds`). The loop that clears leaves nobody with a stake, and an empty list after it. The one that charges leaves the list as it is
unless a holder is finished, and that one has as much as the stream (`WholeStake`): either it is the only one, and
the list is then empty (`EmptiesLast`), or one of several, which is the exception (`FinishesOne`).

**The report manager.** `ReportsInv` adds to the types of the stored reports that
`lastReportId` is an id and no stored report is higher than the one it names; a report that is accepted is higher than
the last, hence than all, also when it is stored over a report that was sent again.
`ProcessedIsFinal` is an action property of the same invariant. `TurnsAreDisjoint`, `SomeTurn` and
`TurnPassesToNext` are about `HasTurn`, the arithmetic of `_canReport`, for every positive buffer, number
of reporters, mean timestamp and time. The prover does not multiply variables, so the products are
hidden behind two lemmas, `ProductMonotone` and `QuotientIs`.

The bubble sort of `getReporters` is proved to sort (`ReportersRanked`): a pass moves the least of what
is left to its end, and the list stays an arrangement of the members. With the turns
this gives `OneReporterAtAnyTime`; what that needs of the stored proofs is that their mean is a
number. The fold over the reporters in `report()` has the invariant `TallyInv`, which says for each position
who was counted, what it earned, and where the sender stood; from it follow `HalfMustSign` (proofs are counted
by signer, so that half of the members signed) and `ReputationIsEarned`. Assumed: the empty id is an
id, `Precision` is above 1 (with 1 a rounded half would be none), lists of nodes have no node twice.

**The network.** `CustodyExact` is inductive with the types, once the folds of `processReport` over a
report's streams and consumers are shown to move tokens as they reduce what is owed: one loop invariant for each. Every other
transaction moves tokens between two accounts (`TransferKeepsSum`) or none. `FeesForReportsOnly` is proved
per transaction. Assumed: accounts of contracts are apart from those of users and hold nothing at the
start, contents are lists of bills.

### The client

**Synchronized queries.** `IndexingInv` adds to the types that gates and waiting calls are the same, that closed gates are above the known
number, that some loop runs for them until a poll fails, and `NothingAhead`: every answer under way, the
known number and the gates of calls that were let through are not ahead of what is indexed. The last
part is what makes "let through" imply "indexed" with several loops and answers in any order.

**Events.** The two properties of the gateway are nearly inductive together with `OneProducer`: the contract
has the gateway's producer and no other. One lemma for the observer's reaction to an added listener,
one for a removed one, then one step per action.

**Calls.** `OneOutstanding` follows from: a call's function runs exactly while the call is pending, callers
join calls that were created, and, as long as no pending call was reset, only the current call is
pending. `ReturnsInOrder` follows from `InCallOrder`: what was returned, what is being returned
and what is in the queue are, one after the other, in the order of the calls.

**Queries.** `EndedIsComplete` compares what was read with a fold over all stored messages that takes those the
options ask for. The proof shows that the node, asked by the query string, takes the same ones
(`StringAsksForThem`, where defaults and ends of windows matter), and that what was read and what is still to be read are together
what was taken (`ReadInOrder`). A connection is open only of a query that reads or was refused
(`OpenWhileReading`), which gives `ConnectionsReleased`.

**Stored streams.** `EntityPerEvent` needs that the entities are those of the events up to the indexed block, and that
no two events have one transaction and one index (`LogsApart`), so that a handler replaces nothing; the handling of a block
is a fold over its events. For `MissesOnlyPastAPage` the page is described as what
it is, the least streams after `lastId` as often as they were updated (`PageHas`: a
stream that was updated is on the page or after the last one of a full page). The invariant `PagingInv` follows
the call from page to page: once a page was read, `lastId` is "undefined", what the first page had is
kept, and the blocks the pages are of do not go back.

### The services

**Staking.** That a stake which no other job comes in between is allowed is not inductive: `FlowInv` adds
that the approval of such a job, once mined, covers the stake; that what is in the mempool is awaited or
its process is gone (`PoolAwaited`); and that nonces in the mempool are unused and there once
(`PoolNonces`), so that a job learns of a replacement only when it has been replaced. A step of
another job is a step of another wallet or manager, or the job is not alone.
The books (`StakesMatchReports`, `SpendingWithinAgreed`) are kept by `FlowBooks`: there is a set of jobs whose
stakes were mined, and one of jobs whose approvals were, and sums over these are what managers have and what
allowances were raised by. `AmountIsNear` bounds what `Number()` takes from or adds to an amount. Assumed:
jobs are as declared, wallets are no managers.

**Heartbeat.** The permission stands for the stake: `StakedIsOpen` and `OpenIsAccountedFor` say at which step of
`init` which of the two is there, and that an open stream without a stake means a process that was cut short.

**Messages.** For each type `fromArray` finds what `toArray` put where, and what is received is itself a message that is written as
the one it came from (`ReceivedAgain`), so that `DecodedAsSent` survives publishing again. Assumed: a later release adds
versions and types and leaves those there are as they are.

**Reports.** The contract verifies a proof when the text that it packs from the arguments
is the one the node hashed from its copy. Three facts about texts of any length make up the proof. The two libraries write a
number alike (`FormattedAlike`): one halves the number into bytes and pads what it has, the other counts the bytes first and
fills them from the last digit; `HexLength` and `HexDigitsByShift` say which digits and how many these are, for every integer. A
report that was serialised and read back is the one that was serialised (`FormsOfReport`), because no two amounts are written
alike. And a proof of timestamp 0 verifies for no report (`NoTimestamp`): what is left after the prefix of the last amount
would have to be digits of whole bytes in the text that ends there, and such digits with the word of the timestamp behind them
in the other. (The model's word is one character, and the argument is that of even and odd; on the chain a word is 32 bytes, and one
of 0 ends with a byte that is no digit.)
The invariant `ReportsInv` says that every copy is a form of the report it goes back to, and every proof one of such a copy.
Without a further assumption this gives `ProofsOfPackedAlikeVerify`: exactly the proofs of reports that pack alike
verify. That these are the proofs of the same report is not so for all reports, since what is packed does not tell where a
name or an amount ends: `ProofsAreVerified` assumes of the set of reports that those which differ in what is signed pack apart
(`ReportsPackApart`), which TLC evaluates for the reports of the `services` run.

**Deployment.** A script's steps have ranks, and what is left of a script is the end of its list
(`OnItsWay`), so that a step that is not left was done (`DoneSoFar`: which contracts are deployed, registered and listed).
An entry of the file, or of the copy of the file that a script has read and will write back, is either none
or names contracts that work together (`Good`), and never the node manager of a deployment under way
(`Fresh`): hence a script that is at work or fails cannot spoil what the file says. This gives
`WiringIsNamed` and `NamedManagersMayPay`. The minting has an invariant of its own, `MintInv`: a batch has the last
accounts that were added, all of one group (`Batching`); those with tokens are those of earlier batches, and of this one once it was
minted for (`Served`); those on the list are the brokers among them (`Admitted`).

### Only model-checked

- **Liveness** (`WaitersServed`, `EveryJobEnds`, `SettledReturn`, `QueriesSettle`, `CallSettles`): out of the prover's reach.
- **The violations**: what does not hold is shown by a counterexample.
- **`ReportsPackApart`**: a fact about the reports at hand.

## Not modelled

- **Upgrades and setters of the contracts** (`setParent`, `_authorizeUpgrade`, ownership): one
  assignment each, by the owner.
- **Token**: minting for ether and its price, withdrawing ether; nothing else uses them.
- **Field validation** of protocol messages: type tests without state.
- **Plain reads** of the client, the CLI and the shared helpers (balances, prices, lookups of
  addresses), the conversion from USD, and the CLI's stream command.
- **`pLimitFn`, `withThrottling`, `tryInSequence`**: they hand their work to a library.
- **Decryption, ordering and gap filling** of messages: in the vendored streamr client.
- **Signatures and hashes**: ECDSA and Keccak are taken as perfect.
- **Broker and validator**: submodules whose contents are not part of the repository.
- **Benchmarks**: measurements.

What is left beyond the liveness properties is the functions of the library that are taken as external:
the drawing of digits from a `BigNumber`, and the emitter.

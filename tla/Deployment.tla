----------------------------- MODULE Deployment -----------------------------
(***************************************************************************)
(* The deployment scripts of the contracts (contracts/scripts) and the     *)
(* address file they share (contracts/utils/functions.ts).                 *)
(*                                                                         *)
(* 0_deployNodeManager.ts deploys a system, 1_deployStoreManager.ts        *)
(* replaces the store and query managers of the one the file names, and    *)
(* the workaround script finishes a deployment that failed once all of its *)
(* contracts were there.  Every step is a transaction that may fail, which *)
(* ends the script.  At most one script runs on each chain, but scripts on *)
(* different chains run together and write the same file: the script that  *)
(* is done reads it, adds the entry of its chain, empties it and writes it *)
(* back in callbacks that nobody waits for.                                *)
(***************************************************************************)
EXTENDS Integers, Sequences

CONSTANTS
    Chains,             \* the networks of the hardhat configuration
    DevChains,          \* those where the accounts of developers get tokens
    Groups,             \* the groups of accounts, in the order they are served
    GroupSize,          \* how many accounts there are of each
    BatchSize,          \* NUM_ACCOUNTS_IN_BATCH
    MaxRuns             \* bound of the model: scripts started on each chain

ASSUME DeploymentAssumption ==
    /\ DevChains \subseteq Chains
    /\ Groups # <<>> /\ Groups \in Seq({Groups[i] : i \in DOMAIN Groups})
    /\ \A i \in DOMAIN Groups : GroupSize[Groups[i]] \in Nat \ {0} /\ Groups[i] # "contract"
    /\ \A i, j \in DOMAIN Groups : Groups[i] = Groups[j] => i = j
    /\ BatchSize \in Nat \ {0}
    /\ MaxRuns \in [Chains -> Nat]

VARIABLES
    file,           \* what was last written to address.json: the entry of each
                    \* chain, or NoEntry
    readable,       \* whether that is what address.json has now
    opened,         \* how the file looks to a script that has opened it to write
    contracts,      \* the contracts of each chain in the order of their deployment
    managers,       \* the managers registered with each node manager
    lists,          \* the token's blacklist and whitelist
    run,            \* the script that runs on each chain
    runs,           \* how many there were
    mintedTo,       \* how often each account got tokens from the last script 0
    unfinished,     \* managers were registered that the file does not name yet
    lost            \* a write of another chain's script undid the entry

deployedVars == <<contracts, managers, lists>>
fileVars == <<file, readable, opened>>
deploymentVars == <<fileVars, deployedVars, run, runs, mintedTo, unfinished, lost>>

Brokers == "brokers"
None == <<"none", 0>>
NoEntry == [token |-> None, node |-> None, store |-> None, query |-> None,
            report |-> None]
NoManagers == [store |-> None, query |-> None, report |-> None]
Kinds == {"token", "node", "store", "query", "report"}
ManagerKinds == {"store", "query", "report"}
Payers == {"store", "query"}
Accounts == UNION {{<<Groups[g], i>> : i \in 1..GroupSize[Groups[g]]} : g \in DOMAIN Groups}
StartOfMinting == [group |-> 1, index |-> 0, wallets |-> <<>>, minted |-> FALSE]

-----------------------------------------------------------------------------
(* The scripts, as the steps that are left to them.                        *)

\* Mutant: the file is written before the lists of the token are changed.
WritesEarly ==
    <<"store", "query", "registerQuery", "registerStore", "read", "write",
      "blacklist", "whitelist">>
\* Mutant: the store manager is not registered again.
KeepsOldStore ==
    <<"store", "query", "registerQuery", "blacklist", "whitelist", "read", "write">>
\* Mutant: the wallets of a batch stay in the list.
KeepsWallets(wallets) == wallets

Wiring ==
    <<"registerQuery", "registerStore", "registerReport", "blacklist", "whitelist",
      "read", "write">>
DeploymentSteps(c) ==
    <<"token", "node", "store", "query", "report">>
    \o (IF c \in DevChains THEN <<"mint">> ELSE <<>>) \o Wiring
RenewalSteps ==
    <<"store", "query", "registerQuery", "registerStore", "blacklist", "whitelist",
      "read", "write">>

Idle(c) == run[c].left = <<>>
AtStep(c, step) == ~Idle(c) /\ Head(run[c].left) = step
Done(c) == [run[c] EXCEPT !.left = Tail(@)]

-----------------------------------------------------------------------------
DeploymentInit ==
    /\ file = [c \in Chains |-> NoEntry]
    /\ readable = TRUE
    /\ opened = [c \in Chains |-> "closed"]
    /\ contracts = [c \in Chains |-> <<>>]
    /\ managers = [c \in Chains |-> <<>>]
    /\ lists = [c \in Chains |-> [black |-> {}, white |-> {}]]
    /\ run = [c \in Chains |-> [script |-> "none", left |-> <<>>, entry |-> NoEntry,
                                failed |-> FALSE, snapshot |-> <<>>,
                                minting |-> StartOfMinting]]
    /\ runs = [c \in Chains |-> 0]
    /\ mintedTo = [c \in Chains |-> [a \in Accounts |-> 0]]
    /\ unfinished = [c \in Chains |-> FALSE]
    /\ lost = [c \in Chains |-> FALSE]

StartScript(c, script, steps, entry) ==
    /\ Idle(c) /\ runs[c] < MaxRuns[c]
    /\ runs' = [runs EXCEPT ![c] = @ + 1]
    /\ run' = [run EXCEPT ![c] =
           [@ EXCEPT !.script = script, !.left = steps, !.entry = entry,
                     !.failed = FALSE, !.minting = StartOfMinting]]
    /\ UNCHANGED <<fileVars, deployedVars, unfinished, lost>>

StartDeployment(c) ==
    /\ StartScript(c, "deployment", DeploymentSteps(c), NoEntry)
    /\ mintedTo' = [mintedTo EXCEPT ![c] = [a \in Accounts |-> 0]]

Named(c) == readable /\ file[c] # NoEntry

\* The file is read when the script is loaded; without an entry it throws.
StartRenewal(c) ==
    /\ Named(c)
    /\ StartScript(c, "renewal", RenewalSteps, file[c])
    /\ UNCHANGED mintedTo

\* The addresses of the contracts that were deployed are written into the script.
StartWorkaround(c) ==
    /\ run[c].failed /\ run[c].script # "renewal" /\ run[c].entry.report # None
    /\ StartScript(c, "workaround", Wiring, run[c].entry)
    /\ UNCHANGED mintedTo

\* A transaction or a request fails, or reading, parsing or writing the file
\* does.  What was written of the file by then may spoil what it had.
Fail(c) ==
    /\ ~Idle(c)
    /\ readable' \in IF opened[c] = "closed" THEN {readable} ELSE {readable, FALSE}
    /\ opened' = [opened EXCEPT ![c] = "closed"]
    /\ run' = [run EXCEPT ![c] = [@ EXCEPT !.left = <<>>, !.failed = TRUE,
                                           !.snapshot = <<>>]]
    /\ UNCHANGED <<file, deployedVars, runs, mintedTo, unfinished, lost>>

\* A contract is deployed with the token and the parent of the script's.
Deploy(c, kind) ==
    /\ AtStep(c, kind)
    /\ LET address == <<"contract", Len(contracts[c]) + 1>>
           entry == run[c].entry
       IN /\ contracts' = [contracts EXCEPT ![c] =
                 Append(@, [kind |-> kind, token |-> entry.token, parent |-> entry.node])]
          /\ managers' = IF kind = "node"
                         THEN [managers EXCEPT ![c] =
                                 [a \in DOMAIN @ \union {address} |->
                                     IF a = address THEN NoManagers ELSE @[a]]]
                         ELSE managers
          /\ run' = [run EXCEPT ![c] = [Done(c) EXCEPT !.entry[kind] = address]]
    /\ UNCHANGED <<fileVars, lists, runs, mintedTo, unfinished, lost>>

-----------------------------------------------------------------------------
(* Tokens for the developers: an account at a time, a batch when it is due. *)

Flushed(wallets) == <<>>

GroupAt(c) == Groups[run[c].minting.group]
BatchDue(c) ==
    LET m == run[c].minting
    IN /\ m.wallets # <<>>
       /\ m.index = GroupSize[GroupAt(c)] \/ Len(m.wallets) = BatchSize

\* The batch is dealt with: on to the next account, of the next group after
\* the last, or to what follows the minting.
NextAccount(c) ==
    LET m == run[c].minting
        last == m.index = GroupSize[GroupAt(c)]
        after == [m EXCEPT !.wallets = Flushed(@), !.minted = FALSE,
                           !.group = IF last THEN @ + 1 ELSE @,
                           !.index = IF last THEN 0 ELSE @]
    IN IF last /\ m.group = Len(Groups)
       THEN [Done(c) EXCEPT !.minting = StartOfMinting]
       ELSE [run[c] EXCEPT !.minting = after]

AddAccount(c) ==
    /\ AtStep(c, "mint") /\ ~BatchDue(c)
    /\ run' = [run EXCEPT
           ![c].minting.index = @ + 1,
           ![c].minting.wallets = Append(@, <<GroupAt(c), run[c].minting.index + 1>>)]
    /\ UNCHANGED <<fileVars, deployedVars, runs, mintedTo, unfinished, lost>>

MintBatch(c) ==
    /\ AtStep(c, "mint") /\ BatchDue(c) /\ ~run[c].minting.minted
    /\ LET wallets == run[c].minting.wallets
       IN mintedTo' = [mintedTo EXCEPT ![c] =
              [a \in Accounts |-> IF \E i \in DOMAIN wallets : wallets[i] = a
                                  THEN @[a] + 1 ELSE @[a]]]
    /\ run' = [run EXCEPT ![c] =
           IF GroupAt(c) = Brokers THEN [@ EXCEPT !.minting.minted = TRUE]
           ELSE NextAccount(c)]
    /\ UNCHANGED <<fileVars, deployedVars, runs, unfinished, lost>>

\* The brokers may then send tokens to the node manager.
WhitelistBatch(c) ==
    /\ AtStep(c, "mint") /\ run[c].minting.minted
    /\ LET wallets == run[c].minting.wallets
           entry == run[c].entry
       IN lists' = [lists EXCEPT ![c].white =
              @ \union {<<entry.token, wallets[i], entry.node>> : i \in DOMAIN wallets}]
    /\ run' = [run EXCEPT ![c] = NextAccount(c)]
    /\ UNCHANGED <<fileVars, contracts, managers, runs, mintedTo, unfinished, lost>>

-----------------------------------------------------------------------------
(* The wiring.                                                             *)

\* A renewal that has registered a manager has to tell it to the file.
Register(c, kind, step) ==
    /\ AtStep(c, step)
    /\ managers' = [managers EXCEPT ![c][run[c].entry.node][kind] = run[c].entry[kind]]
    /\ run' = [run EXCEPT ![c] = Done(c)]
    /\ unfinished' = [unfinished EXCEPT ![c] = @ \/ run[c].script = "renewal"]
    /\ UNCHANGED <<fileVars, contracts, lists, runs, mintedTo, lost>>

Blacklist(c) ==
    /\ AtStep(c, "blacklist")
    /\ lists' = [lists EXCEPT ![c].black = @ \union {<<run[c].entry.token, run[c].entry.node>>}]
    /\ run' = [run EXCEPT ![c] = Done(c)]
    /\ UNCHANGED <<fileVars, contracts, managers, runs, mintedTo, unfinished, lost>>

Whitelist(c) ==
    /\ AtStep(c, "whitelist")
    /\ LET entry == run[c].entry
       IN lists' = [lists EXCEPT ![c].white =
              @ \union {<<entry.token, entry[k], entry.node>> : k \in Payers}]
    /\ run' = [run EXCEPT ![c] = Done(c)]
    /\ UNCHANGED <<fileVars, contracts, managers, runs, mintedTo, unfinished, lost>>

\* writeJSONToFileOutside has returned; its callbacks run one after the other.
\* What cannot be parsed throws.
ReadFile(c) ==
    /\ AtStep(c, "read") /\ readable
    /\ run' = [run EXCEPT ![c] = [Done(c) EXCEPT !.snapshot = file]]
    /\ UNCHANGED <<fileVars, deployedVars, runs, mintedTo, unfinished, lost>>

\* fs.writeFile opens the file, which empties it, also for those that have
\* opened it before and not written yet.
OpenFile(c) ==
    /\ AtStep(c, "write") /\ opened[c] = "closed"
    /\ readable' = FALSE
    /\ opened' = [d \in Chains |->
           IF d = c \/ opened[d] # "closed" THEN "empty" ELSE "closed"]
    /\ UNCHANGED <<file, deployedVars, run, runs, mintedTo, unfinished, lost>>

\* It then writes from the start.  Over what another script wrote meanwhile,
\* the end of that is left when it is longer, and nobody can parse it.
WriteFile(c) ==
    /\ AtStep(c, "write") /\ opened[c] # "closed"
    /\ readable' \in IF opened[c] = "empty" THEN {TRUE} ELSE BOOLEAN
    /\ opened' = [d \in Chains |->
           IF d = c \/ opened[d] = "closed" THEN "closed" ELSE "written"]
    /\ file' = [run[c].snapshot EXCEPT ![c] = run[c].entry]
    /\ lost' = [d \in Chains |-> d # c /\ (lost[d] \/ run[c].snapshot[d] # file[d])]
    /\ unfinished' = [unfinished EXCEPT ![c] = FALSE]
    /\ run' = [run EXCEPT ![c] = [Done(c) EXCEPT !.snapshot = <<>>]]
    /\ UNCHANGED <<deployedVars, runs, mintedTo>>

DeploymentNext ==
    \E c \in Chains :
        \/ StartDeployment(c)
        \/ StartRenewal(c)
        \/ StartWorkaround(c)
        \/ Fail(c)
        \/ \E kind \in Kinds : Deploy(c, kind)
        \/ AddAccount(c)
        \/ MintBatch(c)
        \/ WhitelistBatch(c)
        \/ Register(c, "query", "registerQuery")
        \/ Register(c, "store", "registerStore")
        \/ Register(c, "report", "registerReport")
        \/ Blacklist(c)
        \/ Whitelist(c)
        \/ ReadFile(c)
        \/ OpenFile(c)
        \/ WriteFile(c)

DeploymentSpec == DeploymentInit /\ [][DeploymentNext]_deploymentVars

-----------------------------------------------------------------------------
(* Properties.                                                             *)

\* The managers the file names for a chain, when it can be read, are those its
\* node manager calls, unless a renewal that registered new ones is under way
\* or failed before it wrote them, or the unawaited write of another chain's
\* script put an older entry back (0_deployNodeManager.ts,
\* 1_deployStoreManager.ts, writeJSONToFileOutside).
FileNamesWiring ==
    \A c \in Chains :
        Named(c) /\ ~unfinished[c] /\ ~lost[c] =>
            managers[c][file[c].node] = [k \in ManagerKinds |-> file[c][k]]

\* Through failed scripts, renewals and lost writes, the store and query
\* managers of an entry were made for the entry's token and node manager and
\* may pay it, though nobody else may: the file never points a client at a
\* manager whose reports cannot be captured (the lists and deployProxy's
\* arguments in the three scripts).
NamedManagersPay ==
    \A c \in Chains : \A k \in Payers :
        Named(c) =>
            /\ contracts[c][file[c][k][2]] =
                   [kind |-> k, token |-> file[c].token, parent |-> file[c].node]
            /\ <<file[c].token, file[c].node>> \in lists[c].black
            /\ <<file[c].token, file[c][k], file[c].node>> \in lists[c].white

\* A deployment never mints twice for an account, and one that goes on to the
\* wiring has minted for each, also for those of the last, smaller batch of a
\* group, and lets every broker pay its stake (the batches of
\* 0_deployNodeManager.ts).
EachAccountOnce ==
    \A c \in DevChains :
        /\ \A a \in Accounts : mintedTo[c][a] <= 1
        /\ AtStep(c, "registerQuery") /\ run[c].script = "deployment" =>
            /\ \A a \in Accounts : mintedTo[c][a] = 1
            /\ \A a \in Accounts :
                   a[1] = Brokers <=>
                       <<run[c].entry.token, a, run[c].entry.node>> \in lists[c].white

=============================================================================

---------------------------- MODULE NodeRegistry ----------------------------
(***************************************************************************)
(* The node list of LogStoreNodeManager (contracts/src/NodeManager.sol):   *)
(* a doubly linked list threaded through the mapping `nodes`, its head and *)
(* tail, the whitelist, and the block at which the network started.        *)
(*                                                                         *)
(* A transaction is one atomic step; one that reverts changes nothing, so  *)
(* each `require` and each failing sub-call is a conjunct of the guard.    *)
(* The zero address is NoAddress.  The struct Node is split by field, and  *)
(* `registered` holds the addresses whose lastSeen is not 0.               *)
(***************************************************************************)
EXTENDS Naturals, FiniteSets, Sequences

CONSTANTS
    Addresses,   \* the accounts that may become nodes
    NoAddress,   \* address(0), which also ends the list
    MaxBlock     \* bound of the model: the last block that is mined

ASSUME NoAddressAssumption == NoAddress \notin Addresses
ASSUME MaxBlockAssumption == MaxBlock \in Nat \ {0}

VARIABLES
    next, prev, index, registered,     \* nodes[a].next, .prev, .index, .lastSeen
    headNode, tailNode, totalNodes,
    startBlockNumber, blockNumber,     \* blockNumber is block.number
    whitelist, requiresWhitelist

listVars == <<next, prev, index, registered, headNode, tailNode, totalNodes,
              startBlockNumber>>
accessVars == <<whitelist, requiresWhitelist>>
registryVars == <<listVars, accessVars, blockNumber>>

AddressOrNone == Addresses \cup {NoAddress}
WhitelistState == {"None", "Approved", "Rejected"}

-----------------------------------------------------------------------------
\* The walk of nodeAddresses(): position i of the list as `next` gives it from
\* the head, NoAddress past its end.
Walk ==
    LET w[i \in 1 .. totalNodes + 1] ==
            IF i = 1 THEN headNode
            ELSE IF w[i - 1] = NoAddress THEN NoAddress
            ELSE next[w[i - 1]]
    IN  w

\* nodeAddresses(): the array of totalNodes entries the walk fills.  The walk
\* panics on the array's bound unless it ends within totalNodes entries.
NodeAddresses == [i \in 1 .. totalNodes |-> Walk[i]]
NodeAddressesReturns == Walk[totalNodes + 1] = NoAddress

-----------------------------------------------------------------------------
\* modifier onlyWhitelist
OnlyWhitelist(a) == requiresWhitelist => whitelist[a] = "Approved"

\* Mutant: _upsertNode appends a node that is in the list already.
AlwaysNew(a) == TRUE
\* Mutant: the tail is not moved back when the last node goes.
TailKept(a) == tailNode

\* _upsertNode's isNew, and _removeNode's require: lastSeen tells both.
IsNew(a) == a \notin registered
Found(a) == a \in registered

\* The isNew branch of _upsertNode: the node goes to the end of the list.
AddLast(a) ==
    /\ IF headNode = NoAddress
       THEN /\ headNode' = a
            /\ startBlockNumber' = blockNumber
            /\ UNCHANGED <<next, prev, index>>
       ELSE /\ next' = [next EXCEPT ![tailNode] = a]
            /\ prev' = [prev EXCEPT ![a] = tailNode]
            /\ index' = [index EXCEPT ![a] = totalNodes]
            /\ UNCHANGED <<headNode, startBlockNumber>>
    /\ tailNode' = a
    /\ totalNodes' = totalNodes + 1
    /\ registered' = registered \cup {a}

\* _upsertNode.  The metadata and lastSeen it always writes say no more here
\* than that the node is registered.
Upsert(a) == IF IsNew(a) THEN AddLast(a) ELSE UNCHANGED listVars

TailAfterRemoval(a) == IF tailNode = a THEN prev[a] ELSE tailNode
HeadAfterRemoval(a) == IF headNode = a THEN next[a] ELSE headNode

\* The end of _removeNode: startBlockNumber is reset once no node is left.
StartAfterRemoval(a) ==
    IF HeadAfterRemoval(a) = NoAddress THEN 0 ELSE startBlockNumber

\* _removeNode.  The node is unlinked, then deleted; the loop that renumbers
\* its successors starts from removedNode.next, a storage reference read after
\* the delete, hence from address(0): it never runs, and no index changes but
\* the deleted one.
Unlink(a) ==
    /\ Found(a)
    /\ next' = [x \in Addresses |-> IF x = a THEN NoAddress
                                    ELSE IF x = prev[a] THEN next[a] ELSE next[x]]
    /\ prev' = [x \in Addresses |-> IF x = a THEN NoAddress
                                    ELSE IF x = next[a] THEN prev[a] ELSE prev[x]]
    /\ index' = [index EXCEPT ![a] = 0]
    /\ headNode' = HeadAfterRemoval(a)
    /\ tailNode' = TailAfterRemoval(a)
    /\ totalNodes' = totalNodes - 1
    /\ registered' = registered \ {a}
    /\ startBlockNumber' = StartAfterRemoval(a)

-----------------------------------------------------------------------------
\* The transactions.  Those ending in Admin, KickNode, the whitelist's and
\* SetRequiresWhitelist are the owner's; the others are sent by node a.
UpsertNode(a) ==
    /\ OnlyWhitelist(a)
    /\ Upsert(a)
    /\ UNCHANGED <<accessVars, blockNumber>>

UpsertNodeAdmin(a) ==
    /\ Upsert(a)
    /\ UNCHANGED <<accessVars, blockNumber>>

\* removeNode (sent by a) and removeNodeAdmin (sent by the owner) are one step.
RemoveNode(a) ==
    /\ Unlink(a)
    /\ UNCHANGED <<accessVars, blockNumber>>

KickNode(a) ==
    /\ whitelist' = [whitelist EXCEPT ![a] = "Rejected"]
    /\ Unlink(a)
    /\ UNCHANGED <<requiresWhitelist, blockNumber>>

WhitelistApproveNode(a) ==
    /\ whitelist' = [whitelist EXCEPT ![a] = "Approved"]
    /\ UNCHANGED <<listVars, requiresWhitelist, blockNumber>>

WhitelistRejectNode(a) ==
    /\ whitelist' = [whitelist EXCEPT ![a] = "Rejected"]
    /\ UNCHANGED <<listVars, requiresWhitelist, blockNumber>>

SetRequiresWhitelist(value) ==
    /\ requiresWhitelist' = value
    /\ UNCHANGED <<listVars, whitelist, blockNumber>>

MineBlock ==
    /\ blockNumber < MaxBlock
    /\ blockNumber' = blockNumber + 1
    /\ UNCHANGED <<listVars, accessVars>>

-----------------------------------------------------------------------------
\* After initialize() with no initial nodes; initial nodes are added by the
\* same upsertNodeAdmin.
RegistryInit ==
    /\ next = [a \in Addresses |-> NoAddress]
    /\ prev = [a \in Addresses |-> NoAddress]
    /\ index = [a \in Addresses |-> 0]
    /\ registered = {}
    /\ headNode = NoAddress
    /\ tailNode = NoAddress
    /\ totalNodes = 0
    /\ startBlockNumber = 0
    /\ blockNumber = 1
    /\ whitelist = [a \in Addresses |-> "None"]
    /\ requiresWhitelist \in BOOLEAN

RegistryNext ==
    \/ \E a \in Addresses :
        \/ UpsertNode(a)
        \/ UpsertNodeAdmin(a)
        \/ RemoveNode(a)
        \/ KickNode(a)
        \/ WhitelistApproveNode(a)
        \/ WhitelistRejectNode(a)
    \/ \E value \in BOOLEAN : SetRequiresWhitelist(value)
    \/ MineBlock

RegistrySpec == RegistryInit /\ [][RegistryNext]_registryVars

-----------------------------------------------------------------------------
(* Properties *)

NodeRegistryTypeOK ==
    /\ next \in [Addresses -> AddressOrNone]
    /\ prev \in [Addresses -> AddressOrNone]
    /\ index \in [Addresses -> Nat]
    /\ registered \subseteq Addresses
    /\ headNode \in AddressOrNone
    /\ tailNode \in AddressOrNone
    /\ totalNodes \in Nat
    /\ startBlockNumber \in Nat
    /\ blockNumber \in Nat \ {0}
    /\ whitelist \in [Addresses -> WhitelistState]
    /\ requiresWhitelist \in BOOLEAN

\* s lists the registered nodes in the order in which head, next, prev and
\* tail chain them.
IsChain(s) ==
    /\ \A i, j \in 1 .. totalNodes : s[i] = s[j] => i = j
    /\ \A i \in 1 .. totalNodes : s[i] \in registered
    /\ \A a \in registered : \E i \in 1 .. totalNodes : s[i] = a
    /\ headNode = IF totalNodes = 0 THEN NoAddress ELSE s[1]
    /\ tailNode = IF totalNodes = 0 THEN NoAddress ELSE s[totalNodes]
    /\ \A i \in 1 .. totalNodes :
        /\ next[s[i]] = IF i = totalNodes THEN NoAddress ELSE s[i + 1]
        /\ prev[s[i]] = IF i = 1 THEN NoAddress ELSE s[i - 1]

\* The pointers form one doubly linked list of exactly the registered nodes:
\* no cycle, no node out of reach, no link into a deleted node, a correct
\* count; a node that is out has no links, and the start block is set exactly
\* while there are nodes.
ListWellFormed ==
    /\ \E s \in [1 .. totalNodes -> Addresses] : IsChain(s)
    /\ \A a \in Addresses \ registered : next[a] = NoAddress /\ prev[a] = NoAddress
    /\ startBlockNumber = 0 <=> headNode = NoAddress

\* Whatever joins, leaves and kicks are interleaved, the contract's list is a
\* list: nodeAddresses() is the sequence of the nodes in order of joining.
Abstract == INSTANCE NodeList WITH list <- NodeAddresses
RefinesNodeList == Abstract!Spec

\* The network's start block does not move while there are nodes, whoever
\* leaves and whichever node is the head.
StartBlockStable ==
    [][headNode # NoAddress /\ headNode' # NoAddress
        => startBlockNumber' = startBlockNumber]_registryVars

\* What _removeNode's comment on its last loop says: the nodes after a removed
\* one are renumbered, so that index is a node's position in the list.
IndexIsPosition ==
    \A i \in 1 .. totalNodes : index[NodeAddresses[i]] = i - 1

=============================================================================

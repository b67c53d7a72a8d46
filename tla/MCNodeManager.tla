--------------------------- MODULE MCNodeManager ----------------------------
(***************************************************************************)
(* Instance of NodeManager for TLC: two accounts that are each a node and  *)
(* a delegator, and two reports that reward.                               *)
(***************************************************************************)
EXTENDS NodeManager, TLC

CONSTANTS a1, a2, r1

MCAddresses == {a1, a2}
MCAccounts == MCAddresses \cup {NodeManagerAccount, OwnerAccount}
MCTokens == a1 :> 2 @@ a2 :> 1 @@ NodeManagerAccount :> 0 @@ OwnerAccount :> 0

\* A reward of 1 to a2's delegation to a1 and 1 for the treasury, all of it
\* billed and captured.
Reward ==
    [id |-> r1, nodes |-> a1 :> 1, delegates |-> <<a2, a1>> :> 1, treasury |-> 1,
     billed |-> 2, captured |-> 2]

MCReports == {Reward}

ASSUME \A r \in Reports : PaysWhatItBills(r)

=============================================================================

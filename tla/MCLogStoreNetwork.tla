------------------------- MODULE MCLogStoreNetwork --------------------------
(***************************************************************************)
(* Instance of LogStoreNetwork for TLC: two accounts that are nodes and    *)
(* clients at once, one stream, and two reports, one of which may bill     *)
(* more than its clients have staked.                                      *)
(***************************************************************************)
EXTENDS LogStoreNetwork, TLC

CONSTANTS a1, a2, s1, r1

MCAddresses == {a1, a2}
MCAccounts == MCAddresses \cup
    {NodeManagerAccount, OwnerAccount, StoreManagerAccount, QueryManagerAccount}
MCTokens == [a \in MCAccounts |-> CASE a = a1 -> 1 [] a = a2 -> 2 [] OTHER -> 0]
MCStreams == {s1}
MCIds == {EmptyId, r1}

\* A fee of 1 on the stream, paid as a reward to a1.
Stored == [streams |-> <<[id |-> s1, amount |-> 1, bytes |-> 1]>>, consumers |-> << >>,
           nodes |-> a1 :> 1, delegates |-> <<a1, a1>> :> 1, treasury |-> 0]
\* A fee of 2 on the consumer and a bill for no bytes, paid to the treasury.
Queried == [streams |-> <<[id |-> s1, amount |-> 1, bytes |-> 0]>>,
            consumers |-> <<[id |-> a2, amount |-> 2, bytes |-> 1]>>,
            nodes |-> [n \in {} |-> 0], delegates |-> [d \in {} |-> 0], treasury |-> 2]
MCContents == {Stored, Queried}

\* a1 signs, a2's signature is no good.
MCProofs == {[addresses |-> <<a1, a2>>, timestamps |-> <<1, 1>>,
              signatures |-> <<TRUE, FALSE>>]}

\* Bounds of the instance: the whitelist is not used, nobody leaves tokens
\* staked that are not delegated, the first node joins in the first block,
\* each id names one of the two reports, and nothing follows once both are
\* processed.
Bounded ==
    /\ ~requiresWhitelist
    /\ \A a \in Addresses : whitelist[a] = "None"
    /\ \A a \in Addresses : balanceOf[a] = 0
    /\ startBlockNumber < 2
    /\ \E id \in Ids : ~reports[id].processed
    /\ reports[EmptyId].content \in {NoContent, Queried}
    /\ reports[r1].content \in {NoContent, Stored}

=============================================================================

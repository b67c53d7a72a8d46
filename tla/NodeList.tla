------------------------------ MODULE NodeList ------------------------------
(***************************************************************************)
(* What LogStoreNodeManager promises about its membership list, free of    *)
(* pointers: a sequence of distinct node addresses, in order of joining.   *)
(* NodeRegistry, the linked list of the contract, implements it.           *)
(***************************************************************************)
EXTENDS Naturals, SequencesExt

CONSTANTS Addresses

VARIABLES list

Members == {list[i] : i \in DOMAIN list}

Init == list = << >>

Join(a) ==
    /\ a \notin Members
    /\ list' = Append(list, a)

Leave(a) ==
    \E k \in DOMAIN list :
        /\ list[k] = a
        /\ list' = RemoveAt(list, k)

Next == \E a \in Addresses : Join(a) \/ Leave(a)

Spec == Init /\ [][Next]_list

=============================================================================

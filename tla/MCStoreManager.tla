--------------------------- MODULE MCStoreManager ---------------------------
(* Instance of StoreManager for TLC: three stakeholders and two streams. *)
EXTENDS StoreManager, TLC

CONSTANTS u1, u2, u3, s1, s2

MCUsers == {u1, u2, u3}
MCStreams == {s1, s2}
MCAccounts == MCUsers \cup {StoreManagerAccount, ParentAccount}
MCTokens == [a \in MCAccounts |->
    CASE a = u1 -> 3 [] a = u2 -> 2 [] a = u3 -> 1 [] OTHER -> 0]

=============================================================================

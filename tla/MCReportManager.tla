-------------------------- MODULE MCReportManager ---------------------------
(***************************************************************************)
(* Instance of ReportManager for TLC: up to three members, two ids besides *)
(* the empty one, and proofs by one to three signers, the same one twice   *)
(* and good and bad signatures among them.                                 *)
(***************************************************************************)
EXTENDS ReportManager, TLC

CONSTANTS n1, n2, n3, r1, billing

MCNodes == {n1, n2, n3}
MCIds == {EmptyId, r1}
MCContents == {billing}
View(list, stakers) == [members |-> list, staked |-> stakers]
MCViews == {
    View(<< >>, {}),
    View(<<n2, n1>>, {n1}),
    View(<<n2, n1>>, {n1, n2}),
    View(<<n1, n2, n3>>, {n1, n2, n3}),
    View(<<n1, n2, n3>>, {n2})}

Signed(n, t) == [signer |-> n, timestamp |-> t, valid |-> TRUE]
Forged(n, t) == [signer |-> n, timestamp |-> t, valid |-> FALSE]

InArrays(proofs) ==
    [addresses |-> [i \in DOMAIN proofs |-> proofs[i].signer],
     timestamps |-> [i \in DOMAIN proofs |-> proofs[i].timestamp],
     signatures |-> [i \in DOMAIN proofs |-> proofs[i].valid]]

\* Arrays of other lengths than their addresses: the first has a timestamp too
\* many and is good as long as n3, for whom it has no signature, is no node;
\* the second lacks a signature.
UnequalArrays == {
    [addresses |-> <<n1, n3>>, timestamps |-> <<1, 1, 2>>, signatures |-> <<TRUE>>],
    [addresses |-> <<n1>>, timestamps |-> <<1>>, signatures |-> << >>]}

\* The mean timestamps are 1, 3/2 and 4/3.
EqualArrays == {
    << >>,
    <<Signed(n1, 1)>>,
    <<Forged(n1, 1), Signed(n1, 1)>>,
    <<Signed(n1, 1), Signed(n2, 2)>>,
    <<Signed(n2, 1), Signed(n2, 1), Forged(n3, 1)>>,
    <<Signed(n1, 1), Signed(n2, 1), Signed(n3, 2)>>,
    <<Forged(n3, 1), Signed(n2, 1), Signed(n1, 1)>>,
    <<Forged(n3, 1), Forged(n1, 1), Signed(n2, 1)>>}

MCProofs == UnequalArrays \cup {InArrays(proofs) : proofs \in EqualArrays}

=============================================================================

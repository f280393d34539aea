----------------------------- MODULE MCBackfill -----------------------------
(***************************************************************************)
(* A small instance of Backfill.  Transactions 1 and 2 spend a genesis     *)
(* output each; 2 also spends the output of 3, and 3 that of 1.  The node  *)
(* has the genesis transaction; peers vouch for the outputs of 3 and 1,    *)
(* and the bootstrap peer sends that of 3.                                 *)
(***************************************************************************)
EXTENDS Backfill

Id(h, i) == [transaction_hash |-> h, output_index |-> i]

FamilyUtxoIds == {Id(0, 1)} \cup {Id(h, 0) : h \in 0..3}
FamilyHashOf == [r \in Requests |-> r]
FamilyInputs == <<<<Id(0, 1)>>, <<Id(0, 0), Id(3, 0)>>, <<Id(1, 0)>>>>
FamilyOutputs == [h \in 1..3 |-> <<Id(h, 0)>>]
FamilyPeerValid == {Id(1, 0), Id(3, 0)}
FamilySnapshot == {Id(3, 0)}
FamilyUnspent == {Id(0, 0), Id(0, 1)}
=============================================================================

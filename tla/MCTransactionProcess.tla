------------------------ MODULE MCTransactionProcess ------------------------
(***************************************************************************)
(* Small instances of TransactionProcess.  Hash 0 is the genesis           *)
(* transaction; requests are named by numbers.                             *)
(***************************************************************************)
EXTENDS TransactionProcess

Id(h, i) == [transaction_hash |-> h, output_index |-> i]

(* Contention: three transactions, the second contends with both others.   *)
(* The fourth would as well; it comes with the metadata of a peer.         *)
ContentionHash == 1..4
ContentionUtxoIds == {Id(0, 0), Id(0, 1)} \cup {Id(h, 0) : h \in ContentionHash}
ContentionHashOf == [r \in 1..4 |-> r]
ContentionInputs == <<<<Id(0, 0)>>, <<Id(0, 0), Id(0, 1)>>, <<Id(0, 1)>>, <<Id(0, 0)>>>>
ContentionOutputs == [h \in ContentionHash |-> <<Id(h, 0)>>]
GenesisUnspent == {Id(0, 0), Id(0, 1)}

(* Chain: transaction 1 spends the genesis output, 2 and 3 spend its       *)
(* output.  So do the fourth and fifth, of which one does not balance and  *)
(* one is malformed.                                                       *)
ChainUtxoIds == {Id(h, 0) : h \in 0..5}
ChainHashOf == [r \in 1..5 |-> r]
ChainInputs == <<<<Id(0, 0)>>, <<Id(1, 0)>>, <<Id(1, 0)>>, <<Id(1, 0)>>, <<Id(1, 0)>>>>
ChainOutputs == [h \in 1..5 |-> <<Id(h, 0)>>]
ChainUnspent == {Id(0, 0)}
ChainPeerValid == {Id(1, 0)}

(* Two contenders for one output. *)
DuelHashOf == [r \in {1, 2} |-> r]
=============================================================================

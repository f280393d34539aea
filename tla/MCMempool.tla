------------------------------ MODULE MCMempool ------------------------------
(***************************************************************************)
(* Small instances of the mempool in front of the processor.               *)
(***************************************************************************)
EXTENDS Mempool

Id(h, i) == [transaction_hash |-> h, output_index |-> i]

(* Three copies of one transaction: while one is processed, the second is  *)
(* refused, which lets the third past the duplicate check.                 *)
CopiesUtxoIds == {Id(0, 0), Id(1, 0)}
CopiesHashOf == [r \in 1..3 |-> 1]
CopiesInputs == <<<<Id(0, 0)>>>>
CopiesOutputs == <<<<Id(1, 0)>>>>
CopiesUnspent == {Id(0, 0)}
CopiesAmount == <<1>>
=============================================================================

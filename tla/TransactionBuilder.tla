-------------------------- MODULE TransactionBuilder --------------------------
(***************************************************************************)
(* TransactionBuilder (src/core/transact/tx_builder_supports.rs): wallets, *)
(* the faucet and the deposit watcher collect unspent outputs and wanted   *)
(* outputs, and build selects the inputs and adds the remainder.  One step *)
(* is one call on the builder, or one turn of the loop of build.           *)
(*                                                                         *)
(* An unspent output or a wanted output is its amount.                     *)
(***************************************************************************)
EXTENDS Integers, Sequences, Functions

CONSTANTS
    UtxoAmounts,     \* amounts of the unspent outputs; 0 is one without currency
    OutputAmounts,   \* amounts of the outputs
    MaxUtxos,        \* bounds of the two lists
    MaxOutputs

ASSUME BuilderAssumption == UtxoAmounts \subseteq Nat /\ OutputAmounts \subseteq Nat

VARIABLES
    utxos,     \* TransactionBuilder.utxos
    inputs,    \* transaction.inputs
    outputs,   \* transaction.outputs
    wanted,    \* the outputs asked for, before a remainder
    next_utxo, \* the loop variable of build
    builder    \* where the builder is

builderVars == <<utxos, inputs, outputs, wanted, next_utxo, builder>>

SumOf(s) == SumFunction(s)

BuilderInit ==
    /\ utxos = <<>>
    /\ inputs = <<>>
    /\ outputs = <<>>
    /\ wanted = <<>>
    /\ next_utxo = 1
    /\ builder = "open"

(* with_maybe_currency_utxo: an output without an amount is passed over. *)
with_utxo(a) ==
    /\ builder = "open"
    /\ Len(utxos) < MaxUtxos
    /\ utxos' = IF a = 0 THEN utxos ELSE Append(utxos, a)
    /\ UNCHANGED <<inputs, outputs, wanted, next_utxo, builder>>

with_output(a) ==
    /\ builder = "open"
    /\ Len(outputs) < MaxOutputs
    /\ outputs' = Append(outputs, a)
    /\ wanted' = Append(wanted, a)
    /\ UNCHANGED <<utxos, inputs, next_utxo, builder>>

BalanceOf(ins, outs) == SumOf(ins) - SumOf(outs)

(* build sorts the unspent outputs, smallest first ... *)
Build ==
    /\ builder = "open"
    /\ \E p \in Bijection(DOMAIN utxos, DOMAIN utxos) :
          utxos' = [i \in DOMAIN utxos |-> utxos[p[i]]]
    /\ \A i \in DOMAIN utxos' : \A j \in 1..i : utxos'[j] <= utxos'[i]
    /\ next_utxo' = 1
    /\ builder' = "select"
    /\ UNCHANGED <<inputs, outputs, wanted>>

(* ... spends them until more than the outputs is there ... *)
SelectInput ==
    /\ builder = "select"
    /\ next_utxo <= Len(utxos)
    /\ inputs' = Append(inputs, utxos[next_utxo])
    /\ next_utxo' = IF BalanceOf(inputs', outputs) > 0 THEN Len(utxos) + 1 ELSE next_utxo + 1
    /\ UNCHANGED <<utxos, outputs, wanted, builder>>

(* Mutant: the remainder is what the last input leaves. *)
LastRemainder ==
    /\ builder = "select"
    /\ next_utxo > Len(utxos)
    /\ IF BalanceOf(inputs, outputs) < 0
       THEN builder' = "insufficient" /\ UNCHANGED outputs
       ELSE /\ builder' = "built"
            /\ outputs' = IF BalanceOf(inputs, outputs) > 0
                          THEN Append(outputs, inputs[Len(inputs)]) ELSE outputs
    /\ UNCHANGED <<utxos, inputs, wanted, next_utxo>>

(* ... and fails without enough, or returns what is left with with_remainder. *)
FinishBuild ==
    /\ builder = "select"
    /\ next_utxo > Len(utxos)
    /\ IF BalanceOf(inputs, outputs) < 0
       THEN builder' = "insufficient" /\ UNCHANGED outputs
       ELSE /\ builder' = "built"
            /\ outputs' = IF BalanceOf(inputs, outputs) > 0
                          THEN Append(outputs, BalanceOf(inputs, outputs)) ELSE outputs
    /\ UNCHANGED <<utxos, inputs, wanted, next_utxo>>

BuilderNext ==
    \/ \E a \in UtxoAmounts : with_utxo(a)
    \/ \E a \in OutputAmounts : with_output(a)
    \/ Build
    \/ SelectInput
    \/ FinishBuild

BuilderSpec == BuilderInit /\ [][BuilderNext]_builderVars

-----------------------------------------------------------------------------
(* build fails exactly when all the unspent outputs together do not cover  *)
(* the outputs, although it stops at the first inputs that do; and what it *)
(* builds pays every output asked for and spends exactly what it pays,     *)
(* remainder included, as the validation of its receivers demands; the     *)
(* remainder is never void.                                                *)
BuildCorrect ==
    /\ builder = "insufficient" => SumOf(utxos) < SumOf(wanted)
    /\ builder = "built" => /\ SumOf(utxos) >= SumOf(wanted)
                            /\ SumOf(inputs) = SumOf(outputs)
                            /\ \A i \in DOMAIN wanted : outputs[i] = wanted[i]
                            /\ \A i \in DOMAIN outputs \ DOMAIN wanted : outputs[i] > 0

=============================================================================

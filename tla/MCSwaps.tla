------------------------------- MODULE MCSwaps -------------------------------
(***************************************************************************)
(* Small instances of the deposit watcher, of the order book it prices its *)
(* orders with and of the transaction builder it pays with.  They share no *)
(* state: a behaviour is one of the part in focus, and the others stay in  *)
(* one initial state.                                                      *)
(***************************************************************************)
EXTENDS Watcher, OrderBook, TransactionBuilder, TLC

VARIABLE focus

vars == <<focus, watcherVars, bookVars, builderVars>>

(* Everybody has an address of their own, and no step tells the            *)
(* withdrawals apart.                                                      *)
OwnAddress == [w \in Withdrawals |-> w]
WithdrawalSymmetry == Permutations(Withdrawals)

(* A unit costs less than one unit of the other currency, one, or more. *)
CenterPrices == {<<1, 4>>, <<1, 1>>, <<3, 2>>}

-----------------------------------------------------------------------------
Init ==
    /\ focus \in {"watcher", "book", "builder"}
    /\ WatcherInit
    /\ BookInit /\ (focus = "book" \/ (balance = 0 /\ center = <<1, 1>> /\ side = "asks"))
    /\ BuilderInit

(* The step A of the part f. *)
In(f, A) == focus = f /\ A /\ UNCHANGED focus

Next ==
    \/ In("watcher", WatcherNext) /\ UNCHANGED <<bookVars, builderVars>>
    \/ In("book", BookNext) /\ UNCHANGED <<watcherVars, builderVars>>
    \/ In("builder", BuilderNext) /\ UNCHANGED <<watcherVars, bookVars>>

Spec == Init /\ [][Next]_vars
=============================================================================

---------------------------- MODULE ContractState ----------------------------
(***************************************************************************)
(* Contract requests (src/core/contract/contract_state_manager.rs).  After *)
(* its commit the processor of a transaction stores the first state of     *)
(* every contract the transaction deploys, and sends every request output  *)
(* to the manager task of its contention key, where it waits for the       *)
(* resulting state marker.  The manager collects requests per key and, on  *)
(* its interval, executes them on the most recent state of the key.        *)
(*                                                                         *)
(* Below is one manager task (one bucket of keys), cut where it awaits the *)
(* state table.  A contract's state is named by the transaction that made  *)
(* it (marker); base is the state that it was computed from.               *)
(***************************************************************************)
EXTENDS Naturals, Sequences, FiniteSets, Functions

CONSTANTS
    Calls,       \* request outputs of committed transactions
    Deploys,     \* deploy outputs of committed transactions
    AddressOf,   \* the contract address of a call or deploy
    SelectorOf,  \* the state selector of a call, NoSelector when it has none
    NoSelector,
    TimeOf       \* the time of the transaction of a call

ASSUME CallAssumption ==
    /\ Calls \cap Deploys = {}
    /\ TimeOf \in [Calls -> Nat]
    /\ DOMAIN AddressOf = Calls \cup Deploys
    /\ DOMAIN SelectorOf = Calls

VARIABLES
    call,         \* where each call of the processor is
    answer,       \* the marker each call was answered with
    deployed,     \* deploys whose state is inserted
    messages,     \* the manager's channel
    unordered,    \* requests per contention key
    subscribers,  \* response channels per contention key
    manager,      \* the task: waiting, in a tick, or ended
    keys,         \* keys the current tick has still to visit
    batch,        \* the calls of the current key not executed yet
    idx,          \* how many of them were executed
    most_recent,  \* the state they are executed on
    state,        \* data store: table state
    node          \* the main thread: starting, running or stopped

contractVars == <<call, answer, deployed, messages, unordered, subscribers, manager,
                  keys, batch, idx, most_recent, state, node>>
tick == <<keys, batch, idx, most_recent>>

KeyOf(c) == [address |-> AddressOf[c], selector |-> SelectorOf[c]]
Keys == {KeyOf(c) : c \in Calls}

Row(address, selector, nonce, marker, base) ==
    [address |-> address, selector |-> selector, nonce |-> nonce,
     marker |-> marker, base |-> base]

NoRow == Row("none", "none", 0, "none", "none")

ContractInit ==
    /\ call = [c \in Calls |-> "committing"]
    /\ answer = [c \in Calls |-> NoRow]
    /\ deployed = {}
    /\ messages = <<>>
    /\ unordered = [k \in Keys |-> <<>>]
    /\ subscribers = [k \in Keys |-> <<>>]
    /\ manager = "waiting"
    /\ keys = {}
    /\ batch = {}
    /\ idx = 0
    /\ most_recent = NoRow
    /\ state = {}
    /\ node = "starting"

-----------------------------------------------------------------------------
(* INSERT OR REPLACE with the primary key (address, selector_hash).  A     *)
(* NULL selector is never equal to another, so such rows add up.           *)
insert_state(row) ==
    state' = {row} \cup
        {s \in state : \/ row.selector = NoSelector
                       \/ s.selector # row.selector
                       \/ s.address # row.address}

(* The rows query_recent_state may find first: the highest nonce of the    *)
(* address, among those of the selector if one is given.                   *)
query_recent_state(k) ==
    LET rows == {s \in state : /\ s.address = k.address
                               /\ k.selector # NoSelector => s.selector = k.selector}
    IN  {s \in rows : \A t \in rows : t.nonce <= s.nonce}

(* Mutant: a deploy goes on from the last state. *)
DeployOnTop(d) ==
    /\ node # "stopped"
    /\ d \notin deployed
    /\ deployed' = deployed \cup {d}
    /\ insert_state(Row(AddressOf[d], NoSelector,
                        Cardinality({s \in state : s.address = AddressOf[d]}), d, d))
    /\ UNCHANGED <<call, answer, messages, unordered, subscribers, manager,
                   tick, node>>

(* The processor of a deploying transaction runs the code and inserts its  *)
(* first state.                                                            *)
Deploy(d) ==
    /\ node # "stopped"
    /\ d \notin deployed
    /\ deployed' = deployed \cup {d}
    /\ insert_state(Row(AddressOf[d], NoSelector, 0, d, d))
    /\ UNCHANGED <<call, answer, messages, unordered, subscribers, manager,
                   tick, node>>

send_contract_ordering_message(c) ==
    /\ node # "stopped"
    /\ call[c] = "committing"
    /\ call' = [call EXCEPT ![c] = "waiting"]
    /\ messages' = Append(messages, c)
    /\ UNCHANGED <<answer, deployed, unordered, subscribers, manager, tick,
                   state, node>>

(* The caller sends request outputs only, so process_tx finds no error. *)
process_tx ==
    /\ manager = "waiting"
    /\ messages # <<>>
    /\ LET c == Head(messages)
           k == KeyOf(c)
       IN  /\ unordered' = [unordered EXCEPT ![k] = Append(@, c)]
           /\ subscribers' = [subscribers EXCEPT ![k] = Append(@, c)]
    /\ messages' = Tail(messages)
    /\ UNCHANGED <<call, answer, deployed, manager, tick, state, node>>

(* The interval elapses; the keys come in any order. *)
Interval ==
    /\ manager = "waiting"
    /\ \E k \in Keys : unordered[k] # <<>>
    /\ manager' = "tick"
    /\ keys' = {k \in Keys : unordered[k] # <<>>}
    /\ UNCHANGED <<call, answer, deployed, messages, unordered, subscribers,
                   batch, idx, most_recent, state, node>>

(* The most recent state is read, and then the code of the contract. *)
ReadState(k) ==
    /\ manager = "tick"
    /\ batch = {}
    /\ k \in keys
    /\ \E row \in query_recent_state(k) : most_recent' = row
    /\ batch' = Range(unordered[k])
    /\ idx' = 0
    /\ UNCHANGED <<call, answer, deployed, messages, unordered, subscribers,
                   manager, keys, state, node>>

(* The task returns an error or panics.  Its subscribers are dropped with  *)
(* it, and the calls waiting on them fail; messages still in the channel   *)
(* stay there, since the relay holds a receiver of its own.                *)
EndTask ==
    /\ manager' = "ended"
    /\ call' = [c \in Calls |->
                  IF \E k \in Keys : c \in Range(subscribers[k])
                  THEN "failed" ELSE call[c]]
    /\ subscribers' = [k \in Keys |-> <<>>]
    /\ unordered' = [k \in Keys |-> <<>>]

(* There is no state yet, there never is one for a new selector, or a      *)
(* query fails: the error is not the call's but the task's.                *)
ReadFails(k) ==
    /\ manager = "tick"
    /\ batch = {}
    /\ k \in keys
    /\ EndTask
    /\ UNCHANGED <<answer, deployed, messages, tick, state, node>>

(* sort_by the transaction time. *)
Earliest == {c \in batch : \A d \in batch : TimeOf[c] <= TimeOf[d]}

Key == KeyOf(CHOOSE c \in batch : TRUE)

(* csm: the state after c. *)
Marker(c) == Row(Key.address, Key.selector, most_recent.nonce + 1, c, most_recent.marker)

(* Mutant: the right entry is taken out of the list. *)
RemoveFirst == TRUE

(* v.remove(idx), v being one shorter after each round: in bounds? *)
RemoveInBounds == idx < Len(unordered[Key]) - idx

(* Mutant: the answer goes out first, and then the insertion fails. *)
AnswerFirst(c) ==
    /\ manager = "tick"
    /\ c \in Earliest
    /\ answer' = [d \in Calls |->
                    IF d \in Range(subscribers[Key]) THEN Marker(c) ELSE answer[d]]
    /\ call' = [d \in Calls |->
                  IF d \in Range(subscribers[Key]) THEN "answered" ELSE call[d]]
    /\ manager' = "ended"
    /\ UNCHANGED <<deployed, messages, unordered, subscribers, tick, state, node>>

(* One round of the loop over v2: run the code, insert the state, answer   *)
(* every subscriber of the key (in the first round; after that none are    *)
(* left), and remove an entry from the list by its index in another.       *)
Execute(c) ==
    /\ manager = "tick"
    /\ c \in Earliest
    /\ insert_state(Marker(c))
    /\ answer' = [d \in Calls |->
                    IF d \in Range(subscribers[Key]) THEN Marker(c) ELSE answer[d]]
    /\ IF RemoveInBounds
       THEN /\ call' = [d \in Calls |->
                          IF d \in Range(subscribers[Key]) THEN "answered" ELSE call[d]]
            /\ subscribers' = [subscribers EXCEPT ![Key] = <<>>]
            /\ batch' = batch \ {c}
            /\ idx' = IF batch' = {} THEN 0 ELSE idx + 1
            /\ keys' = IF batch' = {} THEN keys \ {Key} ELSE keys
            /\ UNCHANGED <<manager, unordered>>
       ELSE /\ manager' = "ended"
            /\ call' = [d \in Calls |->
                          IF \E k \in Keys \ {Key} : d \in Range(subscribers[k])
                          THEN "failed"
                          ELSE IF d \in Range(subscribers[Key]) THEN "answered"
                          ELSE call[d]]
            /\ subscribers' = [k \in Keys |-> <<>>]
            /\ unordered' = [k \in Keys |-> <<>>]
            /\ UNCHANGED <<keys, batch, idx>>
    /\ UNCHANGED <<deployed, messages, most_recent, node>>

(* The code fails, or the insertion does. *)
ExecuteFails ==
    /\ manager = "tick"
    /\ batch # {}
    /\ EndTask
    /\ UNCHANGED <<answer, deployed, messages, tick, state, node>>

(* Every key of the tick is finished and removed. *)
TickDone ==
    /\ manager = "tick"
    /\ keys = {}
    /\ manager' = "waiting"
    /\ unordered' = [k \in Keys |-> <<>>]
    /\ UNCHANGED <<call, answer, deployed, messages, subscribers, tick, state, node>>

(* from_config returns; only then does the main thread wait for its tasks. *)
Started ==
    /\ node = "starting"
    /\ node' = "running"
    /\ UNCHANGED <<call, answer, deployed, messages, unordered, subscribers,
                   manager, tick, state>>

(* Mutant: the end of a task goes unnoticed. *)
KeepRunning ==
    /\ node = "running"
    /\ manager = "ended"
    /\ UNCHANGED contractVars

(* The first task that ends, ends the node. *)
NodeStops ==
    /\ node = "running"
    /\ manager = "ended"
    /\ node' = "stopped"
    /\ UNCHANGED <<call, answer, deployed, messages, unordered, subscribers,
                   manager, tick, state>>

Manage ==
    \/ process_tx
    \/ Interval
    \/ \E k \in Keys : ReadState(k) \/ ReadFails(k)
    \/ \E c \in Calls : Execute(c)
    \/ TickDone

ContractNext ==
    \/ \E d \in Deploys : Deploy(d)
    \/ \E c \in Calls : send_contract_ordering_message(c)
    \/ Manage
    \/ ExecuteFails
    \/ Started
    \/ NodeStops

ContractSpec == ContractInit /\ [][ContractNext]_contractVars

-----------------------------------------------------------------------------
(* The states of a contract are a tree that grows from its deploys: every  *)
(* state was computed from a stored one whose nonce is one less, although  *)
(* deploys of the same code come in between at any time.                   *)
StatesFollow ==
    \A s \in state :
        \/ s.nonce = 0 /\ s.marker \in deployed
        \/ \E t \in state : /\ t.address = s.address
                            /\ t.marker = s.base
                            /\ t.nonce + 1 = s.nonce

(* No update is lost silently: of two states computed from the same one,   *)
(* the second was stored in a tick that ends the task and with it the      *)
(* node.  (All requests of a tick are executed on the state read before    *)
(* the first of them; the removal by index fails as soon as a key has two.) *)
ForkEndsTask ==
    manager = "waiting" =>
        \A s, t \in state :
            /\ s.address = t.address
            /\ s.nonce = t.nonce
            /\ s.nonce > 0
            => s = t

(* A call is answered with a state of its own contract that is stored and  *)
(* that was computed by a call of the same tick, so at least as new as any *)
(* state the call could have known of.                                     *)
AnswerStored ==
    \A c \in Calls : call[c] = "answered" =>
        /\ answer[c] \in state
        /\ answer[c].address = AddressOf[c]
        /\ call[answer[c].marker] \notin {"committing", "failed"}

(* Every call that was sent gets its answer or an error, or the node has   *)
(* stopped: nothing waits for ever on a manager that is gone.              *)
CallAnswered ==
    \A c \in Calls :
        call[c] = "waiting" ~> \/ call[c] \in {"answered", "failed"}
                               \/ node = "stopped"

=============================================================================

------------------------- MODULE TransactionProcess -------------------------
(***************************************************************************)
(* The transaction processor of a node (src/core/process_transaction.rs):  *)
(* the life of every request taken from the transaction_process channel,   *)
(* from the schema checks to the commit to the data store.                 *)
(*                                                                         *)
(* The node runs ONE TransactionProcessContext task, which polls the       *)
(* futures of up to Concurrency requests (try_for_each_concurrent), so     *)
(* requests interleave only where their code awaits.  One action below is  *)
(* the code between two awaits; a database call is the instant at which    *)
(* the statement runs.  The inputs of one request are resolved by tasks of *)
(* their own and are read one by one.                                      *)
(***************************************************************************)
EXTENDS Naturals, Sequences, FiniteSets

CONSTANTS
    Requests,         \* TransactionMessages put on transaction_process
    Hash,             \* transaction hashes, ordered as their bytes are
    UtxoIds,          \* records with the fields transaction_hash, output_index
    HashOf,           \* the hash of a request's transaction
    Inputs,           \* fixed_utxo_ids_of_inputs of a transaction
    Outputs,          \* the utxo ids a transaction's outputs get
    Invalid,          \* hashes that prevalidate or validate_network refuse
    Unbalanced,       \* hashes whose inputs and outputs do not add up
    PeerTransactions, \* hashes of node or peer metadata transactions
    PeerValid,        \* utxo ids that peers may vouch for
    Stored,           \* transactions in the data store at start up
    Unspent,          \* utxo table at start up
    Concurrency       \* tx_config.concurrency

ASSUME HashAssumption == Hash \subseteq Nat

ASSUME TransactionAssumption ==
    /\ HashOf \in [Requests -> Hash]
    /\ Inputs \in [Hash -> Seq(UtxoIds)]
    /\ Outputs \in [Hash -> Seq(UtxoIds)]
    /\ Stored \subseteq Nat
    /\ Unspent \subseteq UtxoIds

(* UtxoEntry::from_transaction numbers the outputs of a transaction and    *)
(* names them by its hash; at start up, the store has the transaction of   *)
(* every unspent output.                                                   *)
ASSUME LedgerAssumption ==
    /\ \A h \in Hash : \A i, j \in DOMAIN Outputs[h] :
          /\ Outputs[h][i].transaction_hash = h
          /\ Outputs[h][i] = Outputs[h][j] => i = j
    /\ \A u \in Unspent : u.transaction_hash \in Stored

VARIABLES
    pc,                       \* where each request is in its code
    response,                 \* what was answered on its response channel
    transaction_channels,     \* Relay: hashes being processed
    utxo_channels,            \* Relay: active_requests of each contention pool
    inbox,                    \* RequestProcessor: the Conflict channel
    conflicts,                \* the conflicts a request has collected
    resolution,               \* the outcome of resolve_input, input by input
    todo,                     \* rows its current commit loop still has to write
    observation,              \* states this node's observation buffer signed
    transactions,             \* data store: table transactions
    utxo,                     \* data store: table utxo
    transaction_edge,         \* data store: table transaction_edge, the row or {}
    unknown_resolved_inputs   \* Relay: inputs for the recent download task

store == <<transactions, utxo, transaction_edge>>
vars == <<pc, response, transaction_channels, utxo_channels, inbox, conflicts,
          resolution, todo, observation, transactions, utxo, transaction_edge,
          unknown_resolved_inputs>>

Labels == {"idle", "validate", "resolve", "revalidate", "pending", "gossip",
           "wait", "decide", "accept", "insert", "outputs", "edges", "delete",
           "collect", "done"}

Answers == {"none", "known", "ok", "invalid", "duplicate", "unresolved",
            "unbalanced", "aborted", "lost", "error"}

Outcomes == {"none", "internal", "peers", "err"}

Messages == [from : Requests, abort : BOOLEAN]

InputsOf(r) == Inputs[HashOf[r]]
OutputsOf(r) == Outputs[HashOf[r]]
SetOf(s) == {s[i] : i \in DOMAIN s}

(* The requests registered in the contention pool of utxo id u.  A key of  *)
(* the map is never removed once inserted, so a vacant entry is the empty  *)
(* pool.                                                                   *)
Pool(u) == SetOf(utxo_channels[u])

(* r and s are both in the contention pool of u, r before s. *)
Before(r, s, u) ==
    \E i, j \in DOMAIN utxo_channels[u] :
        i < j /\ utxo_channels[u][i] = r /\ utxo_channels[u][j] = s

Active == {r \in Requests : pc[r] \notin {"idle", "done"}}

Init ==
    /\ pc = [r \in Requests |-> "idle"]
    /\ response = [r \in Requests |-> "none"]
    /\ transaction_channels = {}
    /\ utxo_channels = [u \in UtxoIds |-> <<>>]
    /\ inbox = [r \in Requests |-> <<>>]
    /\ conflicts = [r \in Requests |-> {}]
    /\ resolution = [r \in Requests |-> [u \in UtxoIds |-> "none"]]
    /\ todo = [r \in Requests |-> <<>>]
    /\ observation = {}
    /\ transactions = Stored
    /\ utxo = Unspent
    /\ transaction_edge = [u \in UtxoIds |-> {}]
    /\ unknown_resolved_inputs = {}

-----------------------------------------------------------------------------
(* transaction() returns: cleanup removes the entry of the hash, whichever *)
(* request made it, and leaves the contention pools alone (its             *)
(* request_processor is never set); the answer goes to the response        *)
(* channel.  There is no await between the error and the answer.           *)
Finish(r, answer) ==
    /\ pc' = [pc EXCEPT ![r] = "done"]
    /\ response' = [response EXCEPT ![r] = answer]
    /\ transaction_channels' = transaction_channels \ {HashOf[r]}

Goto(r, label) ==
    /\ pc' = [pc EXCEPT ![r] = label]
    /\ UNCHANGED <<response, transaction_channels>>

(* The stream hands a message to a new future.  Metadata transactions of   *)
(* peers are dropped without an answer and without cleanup.                *)
Receive(r) ==
    /\ pc[r] = "idle"
    /\ Cardinality(Active) < Concurrency
    /\ Goto(r, IF HashOf[r] \in PeerTransactions THEN "done" ELSE "validate")
    /\ UNCHANGED <<utxo_channels, inbox, conflicts, resolution, todo,
                   observation, store, unknown_resolved_inputs>>

(* prevalidate and validate_network.  A transaction that passes has inputs, *)
(* no two of them the same, and outputs.                                   *)
Prevalidates(r) == HashOf[r] \notin Invalid

AlreadyProcessing(r) == HashOf[r] \in transaction_channels

(* immediate_validation has read the store (no caller ever stores a        *)
(* rejection reason); then prevalidate, validate_network and               *)
(* create_receiver_or_err run without an await.                            *)
Validate(r) ==
    /\ pc[r] = "validate"
    /\ \/ /\ ~Prevalidates(r)
          /\ Finish(r, "invalid")
       \/ /\ Prevalidates(r)
          /\ AlreadyProcessing(r)
          /\ Finish(r, "duplicate")
       \/ /\ Prevalidates(r)
          /\ ~AlreadyProcessing(r)
          /\ transaction_channels' = transaction_channels \cup {HashOf[r]}
          /\ pc' = [pc EXCEPT ![r] = "resolve"]
          /\ UNCHANGED response
    /\ UNCHANGED <<utxo_channels, inbox, conflicts, resolution, todo,
                   observation, store, unknown_resolved_inputs>>

(* Mutant: a spent output resolves. *)
SpentOutcomes(u) ==
    {IF u.transaction_hash \in transactions THEN "internal" ELSE "err"}

(* Mutant: an unknown parent is taken on faith. *)
OrphanOutcomes(u) ==
    IF u.transaction_hash \in transactions /\ u \notin utxo
    THEN {"err"} ELSE {"internal"}

query_maybe_transaction(h) == h \in transactions

query_utxo_id_valid(u) == u \in utxo

(* Peers near the parent's hash answer with the transaction and their      *)
(* proofs, and no more of them call the output invalid than valid.         *)
PeersVouch(u) == u \in PeerValid

(* What resolve_input may answer for u.  A parent in the store decides by  *)
(* the utxo table alone; otherwise it is up to the peers.  Any of its      *)
(* queries may fail.                                                       *)
ResolveOutcomes(u) ==
    {"err"} \cup
    IF query_maybe_transaction(u.transaction_hash)
    THEN {o \in {"internal"} : query_utxo_id_valid(u)}
    ELSE {o \in {"peers"} : PeersVouch(u)}

ResolveInput(r, u) ==
    /\ pc[r] \in {"resolve", "revalidate"}
    /\ u \in SetOf(InputsOf(r))
    /\ resolution[r][u] = "none"
    /\ \E outcome \in ResolveOutcomes(u) :
          resolution' = [resolution EXCEPT ![r][u] = outcome]
    /\ UNCHANGED <<pc, response, transaction_channels, utxo_channels, inbox,
                   conflicts, todo, observation, store, unknown_resolved_inputs>>

(* join_all: every input of r has its outcome. *)
Joined(r) == \A u \in SetOf(InputsOf(r)) : resolution[r][u] # "none"

Resolves(r) == \A u \in SetOf(InputsOf(r)) : resolution[r][u] # "err"

(* The results are walked in input order up to the first error; each input *)
(* that peers vouched for is queued for the recent download task.          *)
QueueUnknown(r) ==
    unknown_resolved_inputs' = unknown_resolved_inputs \cup
        {<<r, pc[r], InputsOf(r)[i]>> : i \in
            {k \in DOMAIN InputsOf(r) :
                /\ resolution[r][InputsOf(r)[k]] = "peers"
                /\ \A j \in 1..(k - 1) : resolution[r][InputsOf(r)[j]] # "err"}}

(* ResolvedTransaction.validate: the parents' amounts are the outputs'. *)
Balanced(r) == HashOf[r] \notin Unbalanced

ForgetResolution(r) ==
    resolution' = [resolution EXCEPT ![r] = [u \in UtxoIds |-> "none"]]

(* A resolution fails, in resolve_input or in validate. *)
ResolveFails(r) ==
    /\ pc[r] \in {"resolve", "revalidate"}
    /\ Joined(r)
    /\ \/ ~Resolves(r) /\ Finish(r, "unresolved")
       \/ /\ Resolves(r)
          /\ ~Balanced(r)
          /\ Finish(r, "unbalanced")
    /\ QueueUnknown(r)
    /\ ForgetResolution(r)
    /\ UNCHANGED <<utxo_channels, inbox, conflicts, todo, observation, store>>

(* The requests already in a pool of one of r's inputs. *)
Rivals(r) == UNION {Pool(u) : u \in SetOf(InputsOf(r))}

Conflict(r, abort) == [from |-> r, abort |-> abort]

(* Mutant: only aborts are sent. *)
SendAborts(receivers, message) ==
    inbox' = [q \in Requests |->
                IF q \in receivers /\ message.abort
                THEN Append(inbox[q], message) ELSE inbox[q]]

Send(receivers, message) ==
    inbox' = [q \in Requests |->
                IF q \in receivers THEN Append(inbox[q], message) ELSE inbox[q]]

(* The loop over the inputs' utxo_channels entries, which has no await: r  *)
(* collects every request it finds, tells each about itself, and joins.    *)
(* (A rival met on two inputs is told twice; the second copy adds nothing  *)
(* to the conflicts and is left out.)                                      *)
Register(r) ==
    /\ pc[r] = "resolve"
    /\ Joined(r)
    /\ Resolves(r)
    /\ Balanced(r)
    /\ QueueUnknown(r)
    /\ ForgetResolution(r)
    /\ conflicts' = [conflicts EXCEPT ![r] = Rivals(r)]
    /\ Send(Rivals(r), Conflict(r, FALSE))
    /\ utxo_channels' = [u \in UtxoIds |->
                           IF u \in SetOf(InputsOf(r))
                           THEN Append(utxo_channels[u], r)
                           ELSE utxo_channels[u]]
    /\ Goto(r, "revalidate")
    /\ UNCHANGED <<todo, observation, store>>

(* Mutant: conflict_detected is ignored. *)
SignAnyway(r) == "pending"

(* conflict_detected is conflicts # {} here: the channel is not read       *)
(* before the wait loop.                                                   *)
SignUnlessConflict(r) == IF conflicts[r] = {} THEN "pending" ELSE "gossip"

(* The second resolution succeeds. *)
Revalidate(r) ==
    /\ pc[r] = "revalidate"
    /\ Joined(r)
    /\ Resolves(r)
    /\ Balanced(r)
    /\ QueueUnknown(r)
    /\ ForgetResolution(r)
    /\ Goto(r, SignUnlessConflict(r))
    /\ UNCHANGED <<utxo_channels, inbox, conflicts, todo, observation, store>>

(* The observation buffer signs the state and answers in time. *)
Observe(r, state) == observation' = observation \cup {<<r, state>>}

ObservePending(r) ==
    /\ pc[r] = "pending"
    /\ Observe(r, "Pending")
    /\ Goto(r, "gossip")
    /\ UNCHANGED <<utxo_channels, inbox, conflicts, resolution, todo, store,
                   unknown_resolved_inputs>>

Gossip(r) ==
    /\ pc[r] = "gossip"
    /\ Goto(r, "wait")
    /\ UNCHANGED <<utxo_channels, inbox, conflicts, resolution, todo,
                   observation, store, unknown_resolved_inputs>>

(* One receive in the wait loop. *)
ReceiveConflict(r) ==
    /\ pc[r] = "wait"
    /\ inbox[r] # <<>>
    /\ inbox' = [inbox EXCEPT ![r] = Tail(@)]
    /\ \/ /\ Head(inbox[r]).abort
          /\ Finish(r, "aborted")
          /\ UNCHANGED conflicts
       \/ /\ ~Head(inbox[r]).abort
          /\ conflicts' = [conflicts EXCEPT ![r] = @ \cup {Head(inbox[r]).from}]
          /\ UNCHANGED <<pc, response, transaction_channels>>
    /\ UNCHANGED <<utxo_channels, resolution, todo, observation, store,
                   unknown_resolved_inputs>>

(* transaction_finalization_time has elapsed since the request started.    *)
(* The clock is read between receives, so messages may be left unread, all *)
(* of them when the pending observation alone took that long.              *)
CloseWindow(r) ==
    /\ pc[r] = "wait"
    /\ Goto(r, IF conflicts[r] = {} THEN "accept" ELSE "decide")
    /\ UNCHANGED <<utxo_channels, inbox, conflicts, resolution, todo,
                   observation, store, unknown_resolved_inputs>>

(* Mutant: the largest hash wins. *)
WinsByLargest(r) == \A q \in conflicts[r] : HashOf[r] >= HashOf[q]

(* resolve_conflict sums up the trust behind each side and then sorts by   *)
(* the hash alone: r wins when no conflict has a smaller hash.             *)
Wins(r) == \A q \in conflicts[r] : HashOf[r] <= HashOf[q]

Decide(r) ==
    /\ pc[r] = "decide"
    /\ \/ /\ ~Wins(r)
          /\ Finish(r, "lost")
          /\ UNCHANGED inbox
       \/ /\ Wins(r)
          /\ Send(conflicts[r], Conflict(r, TRUE))
          /\ Goto(r, "accept")
    /\ UNCHANGED <<utxo_channels, conflicts, resolution, todo, observation,
                   store, unknown_resolved_inputs>>

ObserveAccepted(r) ==
    /\ pc[r] = "accept"
    /\ Observe(r, "Accepted")
    /\ Goto(r, "insert")
    /\ UNCHANGED <<utxo_channels, inbox, conflicts, resolution, todo, store,
                   unknown_resolved_inputs>>

-----------------------------------------------------------------------------
(* The commit: the transaction row, a row per output, an edge per input,   *)
(* and then the deletion of every input, each a statement of its own.      *)

(* Mutant: the row is not written before the outputs. *)
RowLater(r) ==
    /\ pc[r] = "insert"
    /\ todo' = [todo EXCEPT ![r] = OutputsOf(r)]
    /\ Goto(r, "outputs")
    /\ UNCHANGED <<utxo_channels, inbox, conflicts, resolution, observation,
                   store, unknown_resolved_inputs>>

(* Mutant: update_utxo is false. *)
NoOutputs(r) ==
    /\ pc[r] = "insert"
    /\ transactions' = transactions \cup {HashOf[r]}
    /\ todo' = [todo EXCEPT ![r] = InputsOf(r)]
    /\ Goto(r, "edges")
    /\ UNCHANGED <<utxo_channels, inbox, conflicts, resolution, observation,
                   utxo, transaction_edge, unknown_resolved_inputs>>

InsertTransactionRaw(r) ==
    /\ pc[r] = "insert"
    /\ transactions' = transactions \cup {HashOf[r]}
    /\ todo' = [todo EXCEPT ![r] = OutputsOf(r)]
    /\ Goto(r, "outputs")
    /\ UNCHANGED <<utxo_channels, inbox, conflicts, resolution, observation,
                   utxo, transaction_edge, unknown_resolved_inputs>>

(* Mutant: INSERT OR REPLACE. *)
ReplaceUtxo(r) ==
    /\ pc[r] = "outputs"
    /\ todo[r] # <<>>
    /\ utxo' = utxo \cup {Head(todo[r])}
    /\ todo' = [todo EXCEPT ![r] = Tail(@)]
    /\ UNCHANGED <<pc, response, transaction_channels, utxo_channels, inbox,
                   conflicts, resolution, observation, transactions,
                   transaction_edge, unknown_resolved_inputs>>

(* A plain INSERT: an output that is already in the table is an error, and *)
(* the commit stops there.                                                 *)
InsertUtxo(r) ==
    /\ pc[r] = "outputs"
    /\ todo[r] # <<>>
    /\ \/ /\ Head(todo[r]) \in utxo
          /\ Finish(r, "error")
          /\ todo' = [todo EXCEPT ![r] = <<>>]
          /\ UNCHANGED utxo
       \/ /\ Head(todo[r]) \notin utxo
          /\ utxo' = utxo \cup {Head(todo[r])}
          /\ todo' = [todo EXCEPT ![r] = Tail(@)]
          /\ UNCHANGED <<pc, response, transaction_channels>>
    /\ UNCHANGED <<utxo_channels, inbox, conflicts, resolution, observation,
                   transactions, transaction_edge, unknown_resolved_inputs>>

(* Mutant: the edge names the parent instead of the child. *)
EdgeToParent(r) == Head(todo[r]).transaction_hash

EdgeTo(r) == HashOf[r]

(* INSERT OR REPLACE: the edge names the last transaction that spent it. *)
InsertTransactionEdge(r) ==
    /\ pc[r] = "edges"
    /\ todo[r] # <<>>
    /\ transaction_edge' = [transaction_edge EXCEPT ![Head(todo[r])] = {EdgeTo(r)}]
    /\ todo' = [todo EXCEPT ![r] = Tail(@)]
    /\ UNCHANGED <<pc, response, transaction_channels, utxo_channels, inbox,
                   conflicts, resolution, observation, transactions, utxo,
                   unknown_resolved_inputs>>

DeleteUtxo(r) ==
    /\ pc[r] = "delete"
    /\ todo[r] # <<>>
    /\ utxo' = utxo \ {Head(todo[r])}
    /\ todo' = [todo EXCEPT ![r] = Tail(@)]
    /\ UNCHANGED <<pc, response, transaction_channels, utxo_channels, inbox,
                   conflicts, resolution, observation, transactions,
                   transaction_edge, unknown_resolved_inputs>>

(* A loop of the commit has run out of rows and the next one begins. *)
NextLoop(r) ==
    /\ todo[r] = <<>>
    /\ \/ /\ pc[r] = "outputs"
          /\ todo' = [todo EXCEPT ![r] = InputsOf(r)]
          /\ Goto(r, "edges")
       \/ /\ pc[r] = "edges"
          /\ todo' = [todo EXCEPT ![r] = InputsOf(r)]
          /\ Goto(r, "delete")
       \/ /\ pc[r] = "delete"
          /\ Goto(r, "collect")
          /\ UNCHANGED todo
    /\ UNCHANGED <<utxo_channels, inbox, conflicts, resolution, observation,
                   store, unknown_resolved_inputs>>

(* Proofs have been collected from peers; the request is answered. *)
Respond(r) ==
    /\ pc[r] = "collect"
    /\ Finish(r, "ok")
    /\ UNCHANGED <<utxo_channels, inbox, conflicts, resolution, todo,
                   observation, store, unknown_resolved_inputs>>

-----------------------------------------------------------------------------
(* An awaited call fails: a database statement, the gossip, a contract     *)
(* call after the commit, or the wait for the observation, which may time  *)
(* out before or after the buffer signs.  The error ends the request; what *)
(* it has written and registered stays.                                    *)
MayFail == Labels \ {"idle", "wait", "done"}

Fault(r) ==
    /\ pc[r] \in MayFail
    /\ Finish(r, "error")
    /\ \/ UNCHANGED observation
       \/ pc[r] = "pending" /\ Observe(r, "Pending")
       \/ pc[r] = "accept" /\ Observe(r, "Accepted")
    /\ ForgetResolution(r)
    /\ todo' = [todo EXCEPT ![r] = <<>>]
    /\ UNCHANGED <<utxo_channels, inbox, conflicts, store,
                   unknown_resolved_inputs>>

Progress(r) ==
    \/ Validate(r)
    \/ \E u \in UtxoIds : ResolveInput(r, u)
    \/ ResolveFails(r)
    \/ Register(r)
    \/ Revalidate(r)
    \/ ObservePending(r)
    \/ Gossip(r)
    \/ ReceiveConflict(r)
    \/ CloseWindow(r)
    \/ Decide(r)
    \/ ObserveAccepted(r)
    \/ InsertTransactionRaw(r)
    \/ InsertUtxo(r)
    \/ InsertTransactionEdge(r)
    \/ DeleteUtxo(r)
    \/ NextLoop(r)
    \/ Respond(r)

(* Every request has been answered: the node waits for more. *)
Idle ==
    /\ \A r \in Requests : pc[r] = "done"
    /\ UNCHANGED vars

Next ==
    \/ \E r \in Requests : Receive(r) \/ Progress(r) \/ Fault(r)
    \/ Idle

Spec == Init /\ [][Next]_vars

(* The task is polled whenever one of its futures is ready, and timers     *)
(* expire: a request that can go on does.  Nothing forces a fault.         *)
FairSpec ==
    /\ Spec
    /\ \A r \in Requests : WF_vars(Receive(r)) /\ WF_vars(Progress(r))

-----------------------------------------------------------------------------
TypeOK ==
    /\ pc \in [Requests -> Labels]
    /\ response \in [Requests -> Answers]
    /\ transaction_channels \subseteq Hash
    /\ utxo_channels \in [UtxoIds -> Seq(Requests)]
    /\ inbox \in [Requests -> Seq(Messages)]
    /\ conflicts \in [Requests -> SUBSET Requests]
    /\ resolution \in [Requests -> [UtxoIds -> Outcomes]]
    /\ todo \in [Requests -> Seq(UtxoIds)]
    /\ observation \subseteq Requests \X {"Pending", "Accepted"}
    /\ transactions \subseteq Nat
    /\ utxo \subseteq UtxoIds
    /\ transaction_edge \in [UtxoIds -> SUBSET Hash]
    /\ unknown_resolved_inputs \subseteq
         Requests \X {"resolve", "revalidate"} \X UtxoIds

(* r and s are requests for different transactions that spend u. *)
Contend(r, s, u) ==
    /\ HashOf[r] # HashOf[s]
    /\ u \in SetOf(InputsOf(r))
    /\ u \in SetOf(InputsOf(s))

Signed(r, state) == <<r, state>> \in observation

(* At most one request in a contention pool is ever signed Pending by this *)
(* node: process observes Pending only when it found every pool of its     *)
(* inputs vacant, so the signature goes to the first request seen.         *)
OnePendingPerUtxo ==
    \A r, s \in Requests : \A u \in SetOf(InputsOf(r)) \cap SetOf(InputsOf(s)) :
        Signed(r, "Pending") /\ Signed(s, "Pending") => r = s

(* How far conflict resolution protects an output.  When two contenders of *)
(* u are both signed Accepted, the one that registered later has the       *)
(* smaller hash and the earlier one decided without having read its        *)
(* notice.  In every other case resolve_conflict let at most one through.  *)
AcceptedDescending ==
    \A r, s \in Requests, u \in UtxoIds :
        /\ Contend(r, s, u)
        /\ Before(r, s, u)
        /\ Signed(r, "Accepted")
        /\ Signed(s, "Accepted")
        => HashOf[s] < HashOf[r] /\ s \notin conflicts[r]

(* A request learns of every rival that registers on one of its inputs:    *)
(* the rival that came later is among its conflicts, or its notice is in   *)
(* the channel, unless the wait loop is over.                              *)
NoticeDelivered ==
    \A r, s \in Requests, u \in UtxoIds :
        Before(r, s, u) =>
            \/ s \in conflicts[r]
            \/ Conflict(s, FALSE) \in SetOf(inbox[r])
            \/ pc[r] \notin {"revalidate", "pending", "gossip", "wait"}

(* A double spend is held against a request only when a rival that shares  *)
(* a contention pool with it has a hash as small: the request with the     *)
(* smallest hash is neither aborted nor made to lose by the others.        *)
RejectionJustified ==
    \A r \in Requests : response[r] \in {"aborted", "lost"} =>
        \E s \in Requests \ {r}, u \in SetOf(InputsOf(r)) :
            /\ r \in Pool(u)
            /\ s \in Pool(u)
            /\ HashOf[s] <= HashOf[r]

(* An accepted answer means that the transaction is in the store and that  *)
(* none of its inputs can be spent again: no other commit, running in      *)
(* between, has put one of them back into the utxo table.                  *)
AcceptedInputsSpent ==
    \A r \in Requests : response[r] = "ok" =>
        /\ HashOf[r] \in transactions
        /\ \A u \in SetOf(InputsOf(r)) :
              u \notin utxo /\ transaction_edge[u] # {}

(* A transaction is answered as accepted twice only when each of its       *)
(* outputs was spent in between, even when transaction_channels failed to  *)
(* keep its copies apart: while an output is unspent, the copy that        *)
(* commits second fails on the primary key of the utxo table.              *)
AnsweredOkOnce ==
    \A r, s \in Requests :
        /\ response[r] = "ok"
        /\ response[s] = "ok"
        /\ HashOf[r] = HashOf[s]
        /\ r # s
        => \A u \in SetOf(OutputsOf(r)) : transaction_edge[u] # {}

(* Once an output of a stored transaction has been deleted by a commit, a  *)
(* request that has not yet passed its first resolution is never accepted: *)
(* the two rounds of resolve_transaction keep late double spends out.      *)
LateSpendRejected ==
    \A r \in Requests : \A u \in SetOf(InputsOf(r)) :
        []( /\ pc[r] \in {"idle", "validate"}
            /\ u.transaction_hash \in transactions
            /\ u \notin utxo
            /\ transaction_edge[u] # {}
            => []~Signed(r, "Accepted"))

(* "Because UTXOs are consumed once only, conflicts are easily detected":  *)
(* two different transactions that spend the same output are never both    *)
(* signed Accepted.                                                        *)
NoDoubleSpend ==
    \A r, s \in Requests, u \in UtxoIds :
        Contend(r, s, u) => ~(Signed(r, "Accepted") /\ Signed(s, "Accepted"))

(* "If we are storing this transaction, then we should also know the       *)
(* UTXOs": when no request is being processed, every output of a           *)
(* transaction committed by this node is unspent or has an edge.           *)
StoredOutputsKnown ==
    Active = {} =>
        \A r \in Requests : HashOf[r] \in transactions =>
            \A u \in SetOf(OutputsOf(r)) : u \in utxo \/ transaction_edge[u] # {}

-----------------------------------------------------------------------------
(* The inductive strengthening of the invariants above. *)

Unregistered == {"idle", "validate", "resolve"}
Waiting == {"revalidate", "pending", "gossip", "wait"}
Won == {"accept", "insert", "outputs", "edges", "delete", "collect"}

(* Only registered requests are in a pool, and only in those of their      *)
(* inputs.                                                                 *)
PoolsSound ==
    \A u \in UtxoIds : \A r \in Pool(u) :
        u \in SetOf(InputsOf(r)) /\ pc[r] \notin Unregistered

(* A request holds every rival that registered before it. *)
EarlierKnown ==
    \A r, s \in Requests, u \in UtxoIds : Before(r, s, u) => r \in conflicts[s]

(* Who is past the decision, or signed Accepted, won against the conflicts *)
(* it held, and holds no others since.                                     *)
WinnersOnly ==
    \A r \in Requests :
        /\ pc[r] \in Won \/ Signed(r, "Accepted") => Wins(r)
        /\ Signed(r, "Accepted") => pc[r] \in (Won \ {"accept"}) \cup {"done"}

(* Who may sign Pending came first on every input. *)
FirstComer(r) ==
    \A u \in SetOf(InputsOf(r)) :
        utxo_channels[u] # <<>> /\ utxo_channels[u][1] = r

PendingFirst ==
    \A r \in Requests :
        \/ pc[r] = "pending"
        \/ Signed(r, "Pending")
        \/ pc[r] = "revalidate" /\ conflicts[r] = {}
        => FirstComer(r)

Share(r, s) == \E u \in UtxoIds : r \in Pool(u) /\ s \in Pool(u)

(* Conflicts and notices come from other requests of a shared pool, and    *)
(* aborts from hashes that are as small.                                   *)
ConflictsShare ==
    \A r \in Requests :
        /\ \A q \in conflicts[r] : q # r /\ Share(r, q)
        /\ \A m \in SetOf(inbox[r]) :
              /\ m.from # r
              /\ Share(r, m.from)
              /\ m.abort => HashOf[m.from] <= HashOf[r]

Inductive ==
    /\ PoolsSound
    /\ EarlierKnown
    /\ WinnersOnly
    /\ PendingFirst
    /\ ConflictsShare
    /\ NoticeDelivered
    /\ RejectionJustified

=============================================================================

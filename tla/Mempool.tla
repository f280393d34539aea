------------------------------- MODULE Mempool -------------------------------
(***************************************************************************)
(* The mempool task (src/core/mempool.rs) in front of the transaction      *)
(* processor.  Submissions and gossip enter the mempool channel; on every  *)
(* interval the task drains it, drops the transactions it knows, and feeds *)
(* the others to the bounded transaction_process channel, smallest total   *)
(* output amount first.  The task runs in parallel with the processor, so  *)
(* the steps of this module and of TransactionProcess interleave.          *)
(***************************************************************************)
EXTENDS TransactionProcess

CONSTANTS
    TotalOutputAmount,  \* of a transaction
    MempoolBound,       \* mempool.channel_bound
    ProcessBound        \* tx_config.channel_bound

ASSUME MempoolAssumption ==
    /\ TotalOutputAmount \in [Hash -> Nat]
    /\ MempoolBound \in Nat \ {0}
    /\ ProcessBound \in Nat \ {0}

VARIABLES
    submitted,            \* requests that were ever sent to the node
    mempool,              \* Relay: the channel of submissions
    stage,                \* where interval_fold is
    messages,             \* the drained messages it has still to look at
    heap,                 \* Mempool: the entries
    mempool_entries,      \* Relay: hashes of the entries
    transaction_process   \* Relay: the channel to the processor

mempoolVars == <<submitted, mempool, stage, messages, heap, mempool_entries,
                 transaction_process>>
nodeVars == <<vars, mempoolVars>>

NodeInit ==
    /\ Init
    /\ submitted = {}
    /\ mempool = <<>>
    /\ stage = "sleep"
    /\ messages = <<>>
    /\ heap = {}
    /\ mempool_entries = {}
    /\ transaction_process = <<>>

(* submit_transaction and the gossip and discovery handlers: a send that   *)
(* waits for room in the channel.                                          *)
Submit(r) ==
    /\ r \notin submitted
    /\ Len(mempool) < MempoolBound
    /\ submitted' = submitted \cup {r}
    /\ mempool' = Append(mempool, r)
    /\ UNCHANGED <<vars, stage, messages, heap, mempool_entries,
                   transaction_process>>

(* The interval ticks and recv_while empties the channel. *)
Drain ==
    /\ stage = "sleep"
    /\ messages' = mempool
    /\ mempool' = <<>>
    /\ stage' = "maps"
    /\ UNCHANGED <<vars, submitted, heap, mempool_entries, transaction_process>>

(* "Transaction already in process or known": the message is dropped and   *)
(* its sender told so.                                                     *)
Drop(r) ==
    /\ pc' = [pc EXCEPT ![r] = "done"]
    /\ response' = [response EXCEPT ![r] = "known"]
    /\ messages' = Tail(messages)
    /\ stage' = "maps"
    /\ UNCHANGED <<transaction_channels, utxo_channels, inbox, conflicts,
                   resolution, todo, observation, store,
                   unknown_resolved_inputs, submitted, mempool, heap,
                   mempool_entries, transaction_process>>

(* transaction_known looks into the two maps first. *)
KnownToMaps(r) == HashOf[r] \in mempool_entries \cup transaction_channels

CheckMaps ==
    /\ stage = "maps"
    /\ messages # <<>>
    /\ \/ /\ KnownToMaps(Head(messages))
          /\ Drop(Head(messages))
       \/ /\ ~KnownToMaps(Head(messages))
          /\ stage' = "store"
          /\ UNCHANGED <<vars, submitted, mempool, messages, heap,
                         mempool_entries, transaction_process>>

(* Mutant: the store is not asked. *)
NeverStored(r) == FALSE

KnownToStore(r) == HashOf[r] \in transactions

Push(r) ==
    /\ heap' = heap \cup {r}
    /\ mempool_entries' = mempool_entries \cup {HashOf[r]}

(* Then it asks the data store; an unknown transaction is pushed. *)
CheckStore ==
    /\ stage = "store"
    /\ \/ /\ KnownToStore(Head(messages))
          /\ Drop(Head(messages))
       \/ /\ ~KnownToStore(Head(messages))
          /\ Push(Head(messages))
          /\ messages' = Tail(messages)
          /\ stage' = "maps"
          /\ UNCHANGED <<vars, submitted, mempool, transaction_process>>

StartDispatch ==
    /\ stage = "maps"
    /\ messages = <<>>
    /\ stage' = "dispatch"
    /\ UNCHANGED <<vars, submitted, mempool, messages, heap, mempool_entries,
                   transaction_process>>

(* The order of MempoolEntry is reversed, so the max-heap yields an entry  *)
(* of the smallest amount.                                                 *)
Smallest(r) ==
    \A q \in heap : TotalOutputAmount[HashOf[r]] <= TotalOutputAmount[HashOf[q]]

(* Mutant: the entry's hash stays behind. *)
PopKeepingHash(r) ==
    /\ r \in heap
    /\ Smallest(r)
    /\ heap' = heap \ {r}
    /\ UNCHANGED mempool_entries

(* Mutant: the entry is looked at and not taken. *)
Peek(r) ==
    /\ r \in heap
    /\ Smallest(r)
    /\ UNCHANGED <<heap, mempool_entries>>

Pop(r) ==
    /\ r \in heap
    /\ Smallest(r)
    /\ heap' = heap \ {r}
    /\ mempool_entries' = mempool_entries \ {HashOf[r]}

(* One turn of the dispatch loop: pop and try_send. *)
DispatchOne ==
    /\ stage = "dispatch"
    /\ Len(transaction_process) < ProcessBound
    /\ \E r \in heap :
          /\ Pop(r)
          /\ transaction_process' = Append(transaction_process, r)
    /\ UNCHANGED <<vars, submitted, mempool, messages, stage>>

(* Mutant: the entry that found no room is forgotten. *)
ForgetEntry == \E r \in heap : Pop(r)

PushBack == UNCHANGED <<heap, mempool_entries>>

(* The channel is full: the popped entry is pushed back, and the loop ends *)
(* until the next tick.                                                    *)
DispatchFull ==
    /\ stage = "dispatch"
    /\ heap # {}
    /\ Len(transaction_process) = ProcessBound
    /\ PushBack
    /\ stage' = "sleep"
    /\ UNCHANGED <<vars, submitted, mempool, messages, transaction_process>>

DispatchDone ==
    /\ stage = "dispatch"
    /\ heap = {}
    /\ stage' = "sleep"
    /\ UNCHANGED <<vars, submitted, mempool, messages, heap, mempool_entries,
                   transaction_process>>

(* interval_fold returns an error and the task ends; the main thread ends  *)
(* the node when it notices, and until then the processor goes on.  The    *)
(* store cannot be read, or the sender of a known transaction no longer    *)
(* waits for the answer.                                                   *)
MempoolFault ==
    /\ \/ stage = "store"
       \/ stage = "maps" /\ messages # <<>> /\ KnownToMaps(Head(messages))
    /\ stage' = "stopped"
    /\ UNCHANGED <<vars, submitted, mempool, messages, heap, mempool_entries,
                   transaction_process>>

(* A node whose mempool task has ended may have nothing left to do. *)
Stopped ==
    /\ stage = "stopped"
    /\ UNCHANGED nodeVars

MempoolTask ==
    \/ Drain
    \/ CheckMaps
    \/ CheckStore
    \/ StartDispatch
    \/ DispatchOne
    \/ DispatchFull
    \/ DispatchDone

(* The processor's stream takes the next message. *)
NodeReceive ==
    /\ transaction_process # <<>>
    /\ Receive(Head(transaction_process))
    /\ transaction_process' = Tail(transaction_process)
    /\ UNCHANGED <<submitted, mempool, stage, messages, heap, mempool_entries>>

NodeProgress(r) == Progress(r) /\ UNCHANGED mempoolVars

NodeFault(r) == Fault(r) /\ UNCHANGED mempoolVars

NodeNext ==
    \/ \E r \in Requests : Submit(r) \/ NodeProgress(r) \/ NodeFault(r)
    \/ MempoolTask
    \/ MempoolFault
    \/ NodeReceive
    \/ Stopped

NodeSpec == NodeInit /\ [][NodeNext]_nodeVars

(* The interval keeps ticking, the channel is polled, futures are polled.  *)
NodeFairSpec ==
    /\ NodeSpec
    /\ WF_nodeVars(MempoolTask)
    /\ WF_nodeVars(NodeReceive)
    /\ \A r \in Requests : WF_nodeVars(NodeProgress(r))

-----------------------------------------------------------------------------
(* The heap never holds two entries of one transaction, and                *)
(* mempool_entries, which is kept beside it, is exactly its hashes: pop    *)
(* never hides a transaction that is still waiting from transaction_known. *)
EntriesMatchHeap ==
    /\ mempool_entries = {HashOf[r] : r \in heap}
    /\ \A r, s \in heap : HashOf[r] = HashOf[s] => r = s

(* A submission is in exactly one place of the pipeline until it is        *)
(* answered: none is lost between two channels and none is taken twice.    *)
OnePlace ==
    \A r \in submitted : pc[r] = "idle" =>
        Cardinality({<<"mempool", i>> : i \in {i \in DOMAIN mempool : mempool[i] = r}}
            \cup {<<"messages", i>> : i \in {i \in DOMAIN messages : messages[i] = r}}
            \cup {<<"heap", q>> : q \in heap \cap {r}}
            \cup {<<"process", i>> : i \in {i \in DOMAIN transaction_process :
                                            transaction_process[i] = r}}) = 1

(* A transaction whose row is in the store when a copy of it is submitted  *)
(* is never processed again: the mempool check and the processor together  *)
(* keep a replayed transaction from being accepted a second time.          *)
ReplayRefused ==
    \A r \in Requests :
        [](HashOf[r] \in transactions /\ r \notin submitted
            => []~Signed(r, "Accepted"))

(* Every submission is answered, unless the mempool task has stopped: full *)
(* channels delay a transaction, they do not starve it.                    *)
SubmissionAnswered ==
    \A r \in Requests : HashOf[r] \notin PeerTransactions =>
        (r \in submitted ~> response[r] # "none" \/ stage = "stopped")

=============================================================================

------------------------------- MODULE Backfill -------------------------------
(***************************************************************************)
(* What writes the transaction tables beside the processor, and what       *)
(* empties its maps:                                                       *)
(*  - the recent download task (src/core/recent_download.rs), which stores *)
(*    the parents that the processor's resolutions took from peers;        *)
(*  - the bootstrap download (src/data/download.rs), which runs while the  *)
(*    services are already processing transactions;                        *)
(*  - the end of the process, by a crash or because a task has ended, and  *)
(*    the start of the next one on the same data store.                    *)
(* Both downloads are cut at each statement they await.                    *)
(***************************************************************************)
EXTENDS TransactionProcess

CONSTANTS
    Snapshot,      \* utxo entries of the bootstrap peer
    History,       \* transactions of the bootstrap peer
    MaxRestarts

ASSUME SnapshotAssumption ==
    /\ Snapshot \subseteq UtxoIds
    /\ History \subseteq Hash
    /\ MaxRestarts \in Nat

(* Peers that vouch for an output send the transaction it belongs to, and  *)
(* the inputs of the transactions in the store are spent at start up.      *)
ASSUME ParentAssumption ==
    /\ \A u \in PeerValid \cap UtxoIds : u.transaction_hash \in Hash
    /\ \A h \in Stored \cap Hash : SetOf(Inputs[h]) \cap Unspent = {}

VARIABLES
    recent,      \* where interval_fold of RecentDownload is
    updates,     \* the drained inputs it has still to process
    update,      \* the input whose parent it is storing
    rows,        \* inputs or outputs of that parent still to visit
    dropped,     \* inputs whose parent was not stored
    download,    \* where the bootstrap download is
    entries,     \* utxo entries received and not inserted yet
    fetched,     \* transactions received and not inserted yet
    item,        \* the entry or transaction in its hands, as a set
    edges,       \* inputs of that transaction still to be indexed
    restarts     \* how often the process was started again

recentVars == <<recent, updates, update, rows, dropped>>
downloadVars == <<download, entries, fetched, item, edges>>
backfillVars == <<vars, recentVars, downloadVars, restarts>>

NoUpdate == <<>>
ParentOf(m) == m[3].transaction_hash

BackfillInit ==
    /\ Init
    /\ recent = "sleep"
    /\ updates = {}
    /\ update = NoUpdate
    /\ rows = <<>>
    /\ dropped = {}
    /\ download = "utxos"
    /\ entries = {}
    /\ fetched = {}
    /\ item = {}
    /\ edges = <<>>
    /\ restarts = 0

live == <<pc, response, transaction_channels, utxo_channels, inbox, conflicts,
          resolution, todo, observation>>

-----------------------------------------------------------------------------
(* The interval ticks and recv_while empties the channel. *)
DrainUnknown ==
    /\ recent = "sleep"
    /\ unknown_resolved_inputs # {}
    /\ updates' = unknown_resolved_inputs
    /\ unknown_resolved_inputs' = {}
    /\ recent' = "next"
    /\ UNCHANGED <<live, store, update, rows, dropped, downloadVars, restarts>>

(* The parent is too far from this node, or no peer that signed it is      *)
(* trusted.                                                                *)
Decline(m) ==
    /\ recent = "next"
    /\ m \in updates
    /\ updates' = updates \ {m}
    /\ dropped' = dropped \cup {m}
    /\ UNCHANGED <<live, store, unknown_resolved_inputs, recent, update, rows,
                   downloadVars, restarts>>

(* insert_transaction_raw: the row is replaced if there is one. *)
StoreParent(m) ==
    /\ recent = "next"
    /\ m \in updates
    /\ updates' = updates \ {m}
    /\ update' = m
    /\ transactions' = transactions \cup {ParentOf(m)}
    /\ rows' = Inputs[ParentOf(m)]
    /\ recent' = "edges"
    /\ UNCHANGED <<live, utxo, transaction_edge, unknown_resolved_inputs,
                   dropped, downloadVars, restarts>>

(* insert_transaction_indexes.  update_utxo is false: neither the outputs  *)
(* nor the inputs of the parent are touched in the utxo table.             *)
StoreParentEdge ==
    /\ recent = "edges"
    /\ \/ /\ rows # <<>>
          /\ transaction_edge' =
               [transaction_edge EXCEPT ![Head(rows)] = {ParentOf(update)}]
          /\ rows' = Tail(rows)
          /\ UNCHANGED recent
       \/ /\ rows = <<>>
          /\ rows' = Outputs[ParentOf(update)]
          /\ recent' = "outputs"
          /\ UNCHANGED transaction_edge
    /\ UNCHANGED <<live, transactions, utxo, unknown_resolved_inputs, updates,
                   update, dropped, downloadVars, restarts>>

NextOutput(label) ==
    /\ rows' = Tail(rows)
    /\ recent' = label

utxo_used(u) == transaction_edge[u] # {}

(* utxo_used, and when nobody has spent the output here, a question to the *)
(* peers: they call it unspent, or name the transaction that spent it.     *)
CheckOutput ==
    /\ recent = "outputs"
    /\ rows # <<>>
    /\ \/ /\ utxo_used(Head(rows))
          /\ NextOutput("outputs")
       \/ /\ ~utxo_used(Head(rows))
          /\ recent' = "valid"
          /\ UNCHANGED rows
    /\ UNCHANGED <<live, store, unknown_resolved_inputs, updates, update,
                   dropped, downloadVars, restarts>>

PeersAnswer ==
    /\ recent = "valid"
    /\ \/ NextOutput("outputs")
       \/ recent' = "insert" /\ UNCHANGED rows
    /\ UNCHANGED <<live, store, unknown_resolved_inputs, updates, update,
                   dropped, downloadVars, restarts>>

(* A plain INSERT; a row that is there already is an error that ends the   *)
(* task.  It runs again when no request has used the output.               *)
InsertOutput ==
    /\ recent \in {"insert", "again"}
    /\ \/ /\ Head(rows) \in utxo
          /\ recent' = "ended"
          /\ UNCHANGED <<utxo, rows>>
       \/ /\ Head(rows) \notin utxo
          /\ utxo' = utxo \cup {Head(rows)}
          /\ IF recent = "insert" THEN recent' = "contains" /\ UNCHANGED rows
                                  ELSE NextOutput("outputs")
    /\ UNCHANGED <<live, transactions, transaction_edge, unknown_resolved_inputs,
                   updates, update, dropped, downloadVars, restarts>>

(* utxo_channels.contains_key: an entry is never removed. *)
HasChannel(u) == utxo_channels[u] # <<>>

CheckChannel ==
    /\ recent = "contains"
    /\ IF HasChannel(Head(rows)) THEN NextOutput("outputs")
                                 ELSE recent' = "again" /\ UNCHANGED rows
    /\ UNCHANGED <<live, store, unknown_resolved_inputs, updates, update,
                   dropped, downloadVars, restarts>>

(* The inputs of the parent whose own parents are not in the store are     *)
(* resolved and queued in turn; one that does not resolve is only counted. *)
QueueAncestors ==
    /\ recent = "outputs"
    /\ rows = <<>>
    /\ \E found \in SUBSET {u \in SetOf(Inputs[ParentOf(update)]) :
                              /\ u.transaction_hash \notin transactions
                              /\ "peers" \in ResolveOutcomes(u)} :
          unknown_resolved_inputs' = unknown_resolved_inputs \cup
              {<<update[1], update[2], u>> : u \in found}
    /\ update' = NoUpdate
    /\ recent' = "next"
    /\ UNCHANGED <<live, store, updates, rows, dropped, downloadVars, restarts>>

TickDone ==
    /\ recent = "next"
    /\ updates = {}
    /\ recent' = "sleep"
    /\ UNCHANGED <<live, store, unknown_resolved_inputs, updates, update, rows,
                   dropped, downloadVars, restarts>>

(* Mutant: the error of one update is logged and the next one is taken. *)
SkipOnError ==
    /\ recent = "next"
    /\ \E m \in updates : updates' = updates \ {m}
    /\ UNCHANGED <<live, store, unknown_resolved_inputs, recent, update, rows,
                   dropped, downloadVars, restarts>>

(* A statement or a request to peers fails. *)
RecentFault ==
    /\ recent \notin {"sleep", "contains", "ended"}
    /\ recent' = "ended"
    /\ UNCHANGED <<live, store, unknown_resolved_inputs, updates, update, rows,
                   dropped, downloadVars, restarts>>

RecentDownload ==
    \/ DrainUnknown
    \/ \E m \in updates : Decline(m) \/ StoreParent(m)
    \/ StoreParentEdge
    \/ CheckOutput
    \/ PeersAnswer
    \/ InsertOutput
    \/ CheckChannel
    \/ QueueAncestors
    \/ TickDone

-----------------------------------------------------------------------------
(* The two tables that matter here, of one time window.  A request to the  *)
(* peer may fail, and the download goes on with what it has.               *)
FetchUtxos ==
    /\ download = "utxos"
    /\ entries' \in {Snapshot, {}}
    /\ download' = "entries"
    /\ UNCHANGED <<vars, recentVars, fetched, item, edges, restarts>>

(* An entry that a request has used since the start is left alone. *)
CheckEntry(u) ==
    /\ download = "entries"
    /\ item = {}
    /\ entries' = entries \ {u}
    /\ item' = {u} \ {v \in {u} : HasChannel(v)}
    /\ UNCHANGED <<vars, recentVars, download, fetched, edges, restarts>>

(* The error of a row that is there already is ignored. *)
InsertEntry ==
    /\ download = "entries"
    /\ item # {}
    /\ utxo' = utxo \cup item
    /\ item' = {}
    /\ UNCHANGED <<live, transactions, transaction_edge, unknown_resolved_inputs,
                   recentVars, download, entries, fetched, edges, restarts>>

FetchTransactions ==
    /\ download = "entries"
    /\ entries = {}
    /\ item = {}
    /\ fetched' \in {History, {}}
    /\ download' = "transactions"
    /\ UNCHANGED <<vars, recentVars, entries, item, edges, restarts>>

(* transaction_known looks into the processor's map and the store. *)
KnownHere(h) == h \in transaction_channels \cup transactions

(* As above, the utxo table is not touched. *)
InsertHistory(h) ==
    /\ download = "transactions"
    /\ edges = <<>>
    /\ fetched' = fetched \ {h}
    /\ \/ KnownHere(h) /\ UNCHANGED <<transactions, item, edges>>
       \/ /\ ~KnownHere(h)
          /\ transactions' = transactions \cup {h}
          /\ item' = {h}
          /\ edges' = Inputs[h]
    /\ UNCHANGED <<live, utxo, transaction_edge, unknown_resolved_inputs,
                   recentVars, download, entries, restarts>>

InsertHistoryEdge ==
    /\ edges # <<>>
    /\ transaction_edge' = [transaction_edge EXCEPT ![Head(edges)] = item]
    /\ edges' = Tail(edges)
    /\ item' = IF edges' = <<>> THEN {} ELSE item
    /\ UNCHANGED <<live, transactions, utxo, unknown_resolved_inputs, recentVars,
                   download, entries, fetched, restarts>>

(* An error of a statement here ends the node as well: see Restart. *)
DownloadDone ==
    /\ download = "transactions"
    /\ fetched = {}
    /\ edges = <<>>
    /\ download' = "done"
    /\ UNCHANGED <<vars, recentVars, entries, fetched, item, edges, restarts>>

Download ==
    \/ FetchUtxos
    \/ \E u \in entries : CheckEntry(u)
    \/ InsertEntry
    \/ FetchTransactions
    \/ \E h \in fetched : InsertHistory(h)
    \/ InsertHistoryEdge
    \/ DownloadDone

-----------------------------------------------------------------------------
(* The process ends, wherever its tasks are, and another starts: the data  *)
(* store is what the statements so far made of it, everything else is as   *)
(* at the first start.  The requests in hand are lost; those that were not *)
(* sent yet go to the new process.                                         *)
Restart ==
    /\ restarts < MaxRestarts
    /\ restarts' = restarts + 1
    /\ pc' = [r \in Requests |-> IF pc[r] = "idle" THEN "idle" ELSE "done"]
    /\ response' = [r \in Requests |-> IF r \in Active THEN "error" ELSE response[r]]
    /\ transaction_channels' = {}
    /\ utxo_channels' = [u \in UtxoIds |-> <<>>]
    /\ inbox' = [r \in Requests |-> <<>>]
    /\ conflicts' = [r \in Requests |-> {}]
    /\ resolution' = [r \in Requests |-> [u \in UtxoIds |-> "none"]]
    /\ todo' = [r \in Requests |-> <<>>]
    /\ dropped' = dropped \cup unknown_resolved_inputs \cup updates
                    \cup ({update} \ {NoUpdate})
    /\ unknown_resolved_inputs' = {}
    /\ recent' = "sleep"
    /\ updates' = {}
    /\ update' = NoUpdate
    /\ rows' = <<>>
    /\ download' = "utxos"
    /\ entries' = {}
    /\ fetched' = {}
    /\ item' = {}
    /\ edges' = <<>>
    /\ UNCHANGED <<observation, store>>

(* A statement of a request that fails while the process goes on is in     *)
(* TransactionProcess; here the process ends as a whole.                   *)
Process ==
    /\ \E r \in Requests : Receive(r) \/ Progress(r)
    /\ UNCHANGED <<recentVars, downloadVars, restarts>>

(* Nothing is left to do. *)
Rest ==
    /\ \A r \in Requests : pc[r] = "done"
    /\ recent \in {"sleep", "ended"}
    /\ download = "done"
    /\ UNCHANGED backfillVars

BackfillNext ==
    \/ Process
    \/ RecentDownload
    \/ RecentFault
    \/ Download
    \/ Restart
    \/ Rest

BackfillSpec == BackfillInit /\ [][BackfillNext]_backfillVars

-----------------------------------------------------------------------------
(* Nothing signed Accepted on the word of peers is forgotten: the parent   *)
(* of each of its inputs is in the store, or on its way through the recent *)
(* download task, unless the task declined it or the process ended with it *)
(* in its hands.                                                           *)
ParentsAccountedFor ==
    \A r \in Requests : Signed(r, "Accepted") =>
        \A u \in SetOf(InputsOf(r)) :
            \/ u.transaction_hash \in transactions
            \/ \E m \in unknown_resolved_inputs \cup updates \cup dropped
                          \cup ({update} \ {NoUpdate}) :
                  m[1] = r /\ m[3] = u

(* Nothing refers to what is not there, wherever the statements of the     *)
(* three writers were cut off: the parent of an input that was signed for  *)
(* is in the store or peers vouched for the output, every edge names a     *)
(* stored transaction, and so does every row of the utxo table that the    *)
(* bootstrap peer did not send.                                            *)
AncestryStored ==
    /\ \A r \in Requests : Signed(r, "Accepted") =>
          \A u \in SetOf(InputsOf(r)) :
             u.transaction_hash \in transactions \/ u \in PeerValid
    /\ \A u \in UtxoIds : transaction_edge[u] \subseteq transactions
    /\ \A u \in utxo \ Snapshot : u.transaction_hash \in transactions

(* A crash destroys no value: an output that was in the table at the start *)
(* and is gone was spent by a stored transaction all of whose outputs are  *)
(* known, unspent or with an edge.                                         *)
ValueKept ==
    \A u \in Unspent \ utxo :
        \E h \in transactions \ Stored :
            /\ u \in SetOf(Inputs[h])
            /\ \A v \in SetOf(Outputs[h]) : v \in utxo \/ transaction_edge[v] # {}

=============================================================================

--------------------------- MODULE BackfillProofs ---------------------------
(***************************************************************************)
(* What the tables of the data store say at any time, whatever the         *)
(* processor, the recent download and the bootstrap download have written, *)
(* statement by statement, and whenever the process ends and starts again. *)
(***************************************************************************)
EXTENDS Backfill, TransactionProcessTypes

(* The downloads. *)

(* Inputs that peers vouched for, as the processor queues them. *)
Queue == Requests \X {"resolve", "revalidate"} \X (UtxoIds \cap PeerValid)

Storing == {"edges", "outputs", "valid", "insert", "contains", "again"}

(* The recent download task stores the parent of an input in its hands     *)
(* before it visits the parent's outputs.                                  *)
RecentSound ==
    /\ unknown_resolved_inputs \cup updates \cup dropped \subseteq Queue
    /\ update \in Queue \cup {NoUpdate}
    /\ rows \in Seq(UtxoIds)
    /\ update # NoUpdate => ParentOf(update) \in transactions
    /\ recent = "sleep" => updates = {}
    /\ recent \in Storing => update # NoUpdate
    /\ recent \in Storing \ {"edges"} => SetOf(rows) \subseteq SetOf(Outputs[ParentOf(update)])
    /\ recent \in Storing \ {"edges", "outputs"} => rows # <<>>

(* The bootstrap download indexes a transaction after it has stored it. *)
DownloadSound ==
    /\ entries \subseteq Snapshot
    /\ fetched \subseteq Hash
    /\ edges \in Seq(UtxoIds)
    /\ download \in {"utxos", "entries"} => edges = <<>> /\ item \subseteq Snapshot
    /\ edges # <<>> => \E h \in Hash \cap transactions : item = {h}

(* Rows name stored transactions, or came from the bootstrap peer. *)
TablesSound ==
    /\ transactions \subseteq Stored \cup Hash
    /\ \A u \in UtxoIds : transaction_edge[u] \subseteq transactions
    /\ \A u \in utxo \ Snapshot : u.transaction_hash \in transactions

(* The parent of u is stored, or its input is with the recent download. *)
Tracked == unknown_resolved_inputs \cup updates \cup dropped \cup ({update} \ {NoUpdate})

Accounted(r, u) ==
    \/ u.transaction_hash \in transactions
    \/ \E m \in Tracked : m[1] = r /\ m[3] = u

(* Resolutions are true when they are made, and stay so. *)
ResolutionsSound ==
    \A r \in Requests : \A u \in SetOf(InputsOf(r)) :
        /\ resolution[r][u] = "internal" => u.transaction_hash \in transactions
        /\ resolution[r][u] = "peers" => u \in PeerValid
        /\ pc[r] \in Resolved \/ Signed(r, "Accepted") => Accounted(r, u)

BackfillInv ==
    /\ TypeOK
    /\ CommitRows
    /\ RecentSound
    /\ DownloadSound
    /\ TablesSound
    /\ ResolutionsSound
    /\ ValueKept

(* An input in the queue has a parent with inputs and outputs. *)
LEMMA QueueFacts ==
    ASSUME NEW m \in Queue
    PROVE  /\ m \in Requests \X {"resolve", "revalidate"} \X UtxoIds
           /\ m # NoUpdate
           /\ m[1] \in Requests /\ m[2] \in {"resolve", "revalidate"}
           /\ m[3] \in UtxoIds /\ m[3] \in PeerValid
           /\ ParentOf(m) \in Hash /\ ParentOf(m) \in Nat
           /\ Inputs[ParentOf(m)] \in Seq(UtxoIds)
           /\ Outputs[ParentOf(m)] \in Seq(UtxoIds)
<1>1. /\ m \in Requests \X {"resolve", "revalidate"} \X UtxoIds
      /\ m[1] \in Requests /\ m[2] \in {"resolve", "revalidate"}
      /\ m[3] \in UtxoIds /\ m[3] \in PeerValid
  BY DEF Queue
<1>2. m # NoUpdate
  BY DEF Queue, NoUpdate
<1>3. ParentOf(m) \in Hash
  BY <1>1, ParentAssumption DEF ParentOf
<1> QED
  BY <1>1, <1>2, <1>3, HashAssumption, TransactionAssumption

(* What a request queues was vouched for. *)
LEMMA StepQueue ==
    ASSUME TypeOK, ResolutionsSound, unknown_resolved_inputs \subseteq Queue,
           NEW r \in Requests, Receive(r) \/ Progress(r)
    PROVE  /\ unknown_resolved_inputs' \subseteq Queue
           /\ unknown_resolved_inputs \subseteq unknown_resolved_inputs'
<1>1. CASE UNCHANGED unknown_resolved_inputs
  BY <1>1
<1>2. CASE QueueUnknown(r) /\ pc[r] \in {"resolve", "revalidate"}
  <2>1. \A k \in DOMAIN InputsOf(r) :
           /\ InputsOf(r)[k] \in SetOf(InputsOf(r))
           /\ InputsOf(r)[k] \in UtxoIds
    BY RequestFacts DEF SetOf
  <2>2. \A k \in DOMAIN InputsOf(r) : resolution[r][InputsOf(r)[k]] = "peers" =>
           <<r, pc[r], InputsOf(r)[k]>> \in Queue
    BY <1>2, <2>1 DEF ResolutionsSound, Queue
  <2> QED
    BY <1>2, <2>2 DEF QueueUnknown
<1> QED
  BY <1>1, <1>2
  DEF Progress, Receive, Validate, ResolveInput, ResolveFails, Register, Revalidate,
      ObservePending, Gossip, ReceiveConflict, CloseWindow, Decide, ObserveAccepted,
      InsertTransactionRaw, InsertUtxo, InsertTransactionEdge, DeleteUtxo, NextLoop, Respond

(* The steps of the two downloads, by the tables they write. *)
LEMMA DownloadTables ==
    ASSUME TypeOK, RecentSound, DownloadSound, TablesSound,
           RecentDownload \/ RecentFault \/ Download
    PROVE  /\ UNCHANGED live
           /\ transactions \subseteq transactions' /\ transactions' \subseteq Nat
           /\ utxo \subseteq utxo' /\ utxo' \subseteq UtxoIds
           /\ transaction_edge' \in [UtxoIds -> SUBSET Hash]
           /\ \A u \in UtxoIds : transaction_edge[u] # {} => transaction_edge'[u] # {}
           /\ TablesSound'
<1> USE DEF store, TypeOK
<1>1. CASE UNCHANGED <<live, store>>
  BY <1>1 DEF TablesSound
<1>2. ASSUME NEW m \in updates, StoreParent(m)
      PROVE  /\ UNCHANGED <<live, utxo, transaction_edge>>
             /\ transactions \subseteq transactions' /\ transactions' \subseteq Nat
             /\ transactions' \subseteq Stored \cup Hash
  BY <1>2, QueueFacts DEF StoreParent, RecentSound, TablesSound
<1>3. CASE StoreParentEdge
  <2>1. CASE rows # <<>>
    <3>1. /\ transaction_edge' = [transaction_edge EXCEPT ![Head(rows)] = {ParentOf(update)}]
          /\ UNCHANGED <<live, transactions, utxo>>
      BY <1>3, <2>1 DEF StoreParentEdge
    <3>2. ParentOf(update) \in transactions /\ ParentOf(update) \in Hash
      BY <1>3, QueueFacts DEF StoreParentEdge, RecentSound, Storing
    <3>3. transaction_edge' \in [UtxoIds -> SUBSET Hash]
      BY <3>1, <3>2
    <3>4. \A u \in UtxoIds : transaction_edge'[u] \in {transaction_edge[u], {ParentOf(update)}}
      BY <3>1
    <3> QED
      BY <3>1, <3>2, <3>3, <3>4 DEF TablesSound
  <2>2. CASE rows = <<>>
    BY <1>1, <1>3, <2>2 DEF StoreParentEdge
  <2> QED
    BY <2>1, <2>2
<1>4. CASE InsertOutput
  <2>1. CASE UNCHANGED utxo
    BY <1>1, <1>4, <2>1 DEF InsertOutput
  <2>2. CASE utxo' = utxo \cup {Head(rows)}
    <3>1. /\ update # NoUpdate /\ rows # <<>> /\ update \in Queue
          /\ SetOf(rows) \subseteq SetOf(Outputs[ParentOf(update)])
          /\ ParentOf(update) \in transactions
      BY <1>4 DEF InsertOutput, RecentSound, Storing
    <3>2. Head(rows) \in UtxoIds /\ Head(rows) \in SetOf(Outputs[ParentOf(update)])
      BY <3>1, SetOfTail DEF RecentSound
    <3>3. Head(rows).transaction_hash = ParentOf(update)
      BY <3>1, <3>2, QueueFacts, OutputFacts
    <3> QED
      BY <1>4, <2>2, <3>1, <3>2, <3>3 DEF InsertOutput, TablesSound
  <2> QED
    BY <1>4, <2>1, <2>2 DEF InsertOutput
<1>5. CASE InsertEntry
  <2>1. utxo' = utxo \cup item /\ item \subseteq Snapshot
    BY <1>5 DEF InsertEntry, DownloadSound
  <2> QED
    BY <1>5, <2>1, SnapshotAssumption DEF InsertEntry, TablesSound
<1>6. ASSUME NEW h \in fetched, InsertHistory(h)
      PROVE  /\ UNCHANGED <<live, utxo, transaction_edge>>
             /\ transactions \subseteq transactions' /\ transactions' \subseteq Nat
             /\ transactions' \subseteq Stored \cup Hash
  BY <1>6, HashAssumption DEF InsertHistory, DownloadSound, TablesSound
<1>7. CASE InsertHistoryEdge
  <2>1. PICK h \in Hash \cap transactions : item = {h}
    BY <1>7 DEF InsertHistoryEdge, DownloadSound
  <2>2. /\ transaction_edge' = [transaction_edge EXCEPT ![Head(edges)] = {h}]
        /\ UNCHANGED <<live, transactions, utxo>>
    BY <1>7, <2>1 DEF InsertHistoryEdge
  <2>3. \A u \in UtxoIds : transaction_edge'[u] \in {transaction_edge[u], {h}}
    BY <2>2
  <2>4. transaction_edge' \in [UtxoIds -> SUBSET Hash]
    BY <2>2
  <2> QED
    BY <2>2, <2>3, <2>4 DEF TablesSound
<1>8. ASSUME UNCHANGED <<utxo, transaction_edge>>, transactions \subseteq transactions',
             transactions' \subseteq Stored \cup Hash
      PROVE  TablesSound'
  BY <1>8 DEF TablesSound
<1> QED
  BY <1>1, <1>2, <1>3, <1>4, <1>5, <1>6, <1>7, <1>8
  DEF RecentDownload, RecentFault, Download, DrainUnknown, Decline, CheckOutput, PeersAnswer,
      CheckChannel, QueueAncestors, TickDone, FetchUtxos, CheckEntry, FetchTransactions,
      DownloadDone, vars, live

(* The recent download task, step by step. *)
LEMMA StepRecent ==
    ASSUME RecentSound, transactions \subseteq transactions', RecentDownload \/ RecentFault
    PROVE  RecentSound'
<1> USE DEF Storing
<1>1. CASE DrainUnknown
  BY <1>1 DEF DrainUnknown, RecentSound
<1>2. ASSUME NEW m \in updates, Decline(m)
      PROVE  RecentSound'
  BY <1>2 DEF Decline, RecentSound
<1>3. ASSUME NEW m \in updates, StoreParent(m)
      PROVE  RecentSound'
  BY <1>3, QueueFacts DEF StoreParent, RecentSound
<1>4. CASE StoreParentEdge
  <2>1. update \in Queue
    BY <1>4 DEF StoreParentEdge, RecentSound
  <2>2. CASE rows # <<>>
    BY <1>4, <2>1, <2>2, SetOfTail DEF StoreParentEdge, RecentSound
  <2>3. CASE rows = <<>>
    BY <1>4, <2>1, <2>3, QueueFacts DEF StoreParentEdge, RecentSound
  <2> QED
    BY <2>2, <2>3
<1>5. ASSUME rows # <<>>
      PROVE  Tail(rows) \in Seq(UtxoIds) /\ SetOf(Tail(rows)) \subseteq SetOf(rows)
  BY <1>5, SetOfTail DEF RecentSound
<1>6. CASE CheckOutput
  BY <1>5, <1>6 DEF CheckOutput, NextOutput, RecentSound
<1>7. CASE PeersAnswer
  BY <1>5, <1>7 DEF PeersAnswer, NextOutput, RecentSound
<1>8. CASE InsertOutput
  BY <1>5, <1>8 DEF InsertOutput, NextOutput, RecentSound
<1>9. CASE CheckChannel
  BY <1>5, <1>9 DEF CheckChannel, NextOutput, RecentSound
<1>10. CASE QueueAncestors
  <2>1. update \in Queue
    BY <1>10 DEF QueueAncestors, RecentSound
  <2>2. PICK found \in SUBSET {u \in SetOf(Inputs[ParentOf(update)]) :
                                /\ u.transaction_hash \notin transactions
                                /\ "peers" \in ResolveOutcomes(u)} :
          unknown_resolved_inputs' = unknown_resolved_inputs \cup
              {<<update[1], update[2], u>> : u \in found}
    BY <1>10 DEF QueueAncestors
  <2>3. \A u \in found : u \in UtxoIds /\ u \in PeerValid
    BY <2>1, <2>2, QueueFacts, SetOfSeq DEF ResolveOutcomes, query_maybe_transaction, PeersVouch
  <2>4. \A u \in found : <<update[1], update[2], u>> \in Queue
    BY <2>1, <2>3, QueueFacts DEF Queue
  <2>5. unknown_resolved_inputs' \subseteq Queue
    BY <2>2, <2>4 DEF RecentSound
  <2> QED
    BY <1>10, <2>5 DEF QueueAncestors, RecentSound
<1>11. CASE TickDone \/ RecentFault
  BY <1>11 DEF TickDone, RecentFault, RecentSound
<1> QED
  BY <1>1, <1>2, <1>3, <1>4, <1>6, <1>7, <1>8, <1>9, <1>10, <1>11 DEF RecentDownload

(* The bootstrap download, step by step. *)
LEMMA StepDownload ==
    ASSUME DownloadSound, transactions \subseteq transactions', Download
    PROVE  DownloadSound'
<1>1. CASE FetchUtxos
  BY <1>1 DEF FetchUtxos, DownloadSound
<1>2. ASSUME NEW u \in entries, CheckEntry(u)
      PROVE  DownloadSound'
  BY <1>2 DEF CheckEntry, DownloadSound
<1>3. CASE InsertEntry
  BY <1>3 DEF InsertEntry, DownloadSound
<1>4. CASE FetchTransactions
  BY <1>4, SnapshotAssumption DEF FetchTransactions, DownloadSound
<1>5. ASSUME NEW h \in fetched, InsertHistory(h)
      PROVE  DownloadSound'
  <2>1. h \in Hash /\ Inputs[h] \in Seq(UtxoIds)
    BY TransactionAssumption DEF DownloadSound
  <2>2. CASE UNCHANGED <<transactions, item, edges>>
    BY <1>5, <2>2 DEF InsertHistory, DownloadSound
  <2>3. CASE h \in transactions' /\ item' = {h} /\ edges' = Inputs[h]
    BY <1>5, <2>1, <2>3 DEF InsertHistory, DownloadSound
  <2> QED
    BY <1>5, <2>2, <2>3 DEF InsertHistory
<1>6. CASE InsertHistoryEdge
  <2>1. Tail(edges) \in Seq(UtxoIds) /\ edges # <<>> /\ edges' = Tail(edges)
    BY <1>6, SetOfTail DEF InsertHistoryEdge, DownloadSound
  <2>2. download \notin {"utxos", "entries"} /\ download' = download
    BY <1>6 DEF InsertHistoryEdge, DownloadSound
  <2>3. edges' # <<>> => item' = item
    BY <1>6 DEF InsertHistoryEdge
  <2> QED
    BY <1>6, <2>1, <2>2, <2>3 DEF InsertHistoryEdge, DownloadSound
<1>7. CASE DownloadDone
  BY <1>7 DEF DownloadDone, vars, DownloadSound
<1> QED
  BY <1>1, <1>2, <1>3, <1>4, <1>5, <1>6, <1>7 DEF Download

-----------------------------------------------------------------------------
(* The processor beside the downloads. *)

(* A commit names its own transaction in every row it writes. *)
LEMMA StepTables ==
    ASSUME TypeOK, CommitRows, TablesSound, NEW r \in Requests,
           Receive(r) \/ Progress(r) \/ Fault(r)
    PROVE  TablesSound'
<1> USE DEF store
<1>1. Grows
  BY StepGrows
<1>2. transactions' \subseteq Stored \cup Hash
  <2>1. transactions' \in {transactions, transactions \cup {HashOf[r]}}
    BY StepKinds
    DEF Begins, Looks, Passes, Waits, Ends, ObserveAccepted, InsertTransactionRaw, Inserts,
        InsertUtxo, InsertTransactionEdge, DeleteUtxo, NextLoop, Respond
  <2> QED
    BY <2>1, RequestFacts DEF TablesSound
<1>3. \A u \in UtxoIds : transaction_edge'[u] \subseteq transactions'
  <2>1. CASE UNCHANGED transaction_edge
    BY <1>1, <2>1 DEF Grows, TablesSound
  <2>2. CASE InsertTransactionEdge(r)
    <3>1. HashOf[r] \in transactions'
      BY <1>1, <2>2 DEF InsertTransactionEdge, CommitRows, RowsOf, Grows
    <3>2. \A u \in UtxoIds : transaction_edge'[u] \in {transaction_edge[u], {HashOf[r]}}
      BY <2>2 DEF InsertTransactionEdge, EdgeTo, TypeOK
    <3> QED
      BY <1>1, <3>1, <3>2 DEF Grows, TablesSound
  <2> QED
    BY <2>1, <2>2, StepKinds
    DEF Begins, Looks, Passes, Waits, Ends, ObserveAccepted, InsertTransactionRaw, Inserts,
        InsertUtxo, DeleteUtxo, NextLoop, Respond
<1>4. ASSUME NEW u \in utxo' \ Snapshot
      PROVE  u.transaction_hash \in transactions'
  <2>1. CASE u \in utxo
    BY <1>1, <1>4, <2>1 DEF Grows, TablesSound
  <2>2. CASE u \notin utxo
    <3>1. pc[r] = "outputs" /\ u \in SetOf(OutputsOf(r))
      BY <1>4, <2>2, NewRow
    <3>2. u.transaction_hash = HashOf[r]
      BY <3>1, RequestFacts, OutputFacts DEF OutputsOf
    <3> QED
      BY <1>1, <3>1, <3>2 DEF Grows, CommitRows, RowsOf
  <2> QED
    BY <2>1, <2>2
<1> QED
  BY <1>2, <1>3, <1>4 DEF TablesSound

(* What is accounted for stays so, when tracked inputs are kept or stored. *)
LEMMA AccountedStays ==
    ASSUME transactions \subseteq transactions', NEW r, NEW u, Accounted(r, u),
           \A m \in Tracked : m \in Tracked' \/ ParentOf(m) \in transactions'
    PROVE  Accounted(r, u)'
<1>1. CASE u.transaction_hash \in transactions
  BY <1>1 DEF Accounted
<1>2. CASE \E m \in Tracked : m[1] = r /\ m[3] = u
  <2>1. PICK m \in Tracked : m[1] = r /\ m[3] = u
    BY <1>2
  <2>2. ParentOf(m) = u.transaction_hash
    BY <2>1 DEF ParentOf
  <2> QED
    BY <2>1, <2>2 DEF Accounted
<1> QED
  BY <1>1, <1>2 DEF Accounted

(* A resolution that succeeds leaves the parents stored or queued. *)
LEMMA StepResolutions ==
    ASSUME TypeOK, CommitRows, ResolutionsSound, unknown_resolved_inputs \subseteq Queue,
           UNCHANGED recentVars, NEW r \in Requests, Receive(r) \/ Progress(r)
    PROVE  ResolutionsSound'
<1>1. /\ transactions \subseteq transactions'
      /\ Tracked \subseteq Tracked'
  <2>1. transactions \subseteq transactions'
    BY StepGrows DEF Grows
  <2>2. unknown_resolved_inputs \subseteq unknown_resolved_inputs'
    BY StepQueue
  <2> QED
    BY <2>1, <2>2 DEF Tracked, recentVars
<1>2. \A q, u : Accounted(q, u) => Accounted(q, u)'
  BY <1>1, AccountedStays
<1>3. OthersKept(r)
  BY StepKinds
<1>4. ASSUME NEW q \in Requests \ {r}, NEW u \in SetOf(InputsOf(q))
      PROVE  /\ resolution'[q][u] = "internal" => u.transaction_hash \in transactions'
             /\ resolution'[q][u] = "peers" => u \in PeerValid
             /\ pc'[q] \in Resolved \/ Signed(q, "Accepted")' => Accounted(q, u)'
  BY <1>1, <1>2, <1>3 DEF OthersKept, ResolutionsSound
<1>5. ASSUME NEW u \in SetOf(InputsOf(r))
      PROVE  /\ resolution'[r][u] = "internal" => u.transaction_hash \in transactions'
             /\ resolution'[r][u] = "peers" => u \in PeerValid
             /\ pc'[r] \in Resolved \/ Signed(r, "Accepted")' => Accounted(r, u)'
  <2>0. u \in UtxoIds
    BY RowTypes
  <2>1. /\ resolution[r][u] = "internal" => u.transaction_hash \in transactions
        /\ resolution[r][u] = "peers" => u \in PeerValid
        /\ pc[r] \in Resolved \/ Signed(r, "Accepted") => Accounted(r, u)
    BY DEF ResolutionsSound
  <2>2. CASE Begins(r)
    BY <1>1, <1>2, <2>1, <2>2 DEF Begins, Resolved, Signed
  <2>3. CASE Looks(r)
    <3>1. /\ pc' = pc /\ (Signed(r, "Accepted")' <=> Signed(r, "Accepted"))
          /\ \/ resolution'[r][u] = resolution[r][u]
             \/ resolution'[r][u] \in ResolveOutcomes(u)
      BY <2>0, <2>3 DEF Looks, Signed
    <3>2. resolution'[r][u] \in ResolveOutcomes(u) =>
            /\ resolution'[r][u] = "internal" => u.transaction_hash \in transactions
            /\ resolution'[r][u] = "peers" => u \in PeerValid
      BY DEF ResolveOutcomes, query_maybe_transaction, PeersVouch
    <3> QED
      BY <1>1, <1>2, <2>1, <3>1, <3>2
  <2>4. CASE Passes(r)
    <3>1. resolution'[r][u] = "none"
      BY <2>0, <2>4 DEF Passes
    <3>2. CASE resolution[r][u] = "internal"
      BY <1>1, <2>1, <3>1, <3>2 DEF Accounted
    <3>3. CASE <<r, pc[r], u>> \in unknown_resolved_inputs'
      <4>1. <<r, pc[r], u>> \in Tracked'
        BY <3>3 DEF Tracked
      <4>2. <<r, pc[r], u>>[1] = r /\ <<r, pc[r], u>>[3] = u
        OBVIOUS
      <4>3. Accounted(r, u)'
        BY <4>1, <4>2 DEF Accounted
      <4> QED
        BY <3>1, <4>3
    <3> QED
      BY <2>4, <3>2, <3>3 DEF Passes
  <2>5. CASE Waits(r)
    BY <1>1, <1>2, <2>1, <2>5 DEF Waits, Resolved
  <2>6. CASE Ends(r)
    <3>1. /\ pc'[r] = "done" /\ resolution'[r][u] \in {"none", resolution[r][u]}
          /\ Signed(r, "Accepted")' => Signed(r, "Accepted") \/ pc[r] = "accept"
      BY <2>0, <2>6 DEF Ends
    <3> QED
      BY <1>1, <1>2, <2>1, <3>1 DEF Resolved
  <2>7. CASE \/ ObserveAccepted(r) \/ InsertTransactionRaw(r) \/ Inserts(r)
             \/ InsertTransactionEdge(r) \/ DeleteUtxo(r) \/ NextLoop(r) \/ Respond(r)
    <3>1. pc[r] \in Resolved /\ UNCHANGED resolution
      BY <2>7 DEF ObserveAccepted, InsertTransactionRaw, Inserts, InsertUtxo,
                  InsertTransactionEdge, DeleteUtxo, NextLoop, Respond, Resolved
    <3> QED
      BY <1>1, <1>2, <2>1, <3>1
  <2> QED
    BY <2>2, <2>3, <2>4, <2>5, <2>6, <2>7, StepKinds
<1> QED
  BY <1>4, <1>5 DEF ResolutionsSound

(* What is known stays known, so a spent output keeps its excuse. *)
LEMMA ValueStays ==
    ASSUME Grows, TablesSound, ValueKept, NEW u \in Unspent, u \notin utxo
    PROVE  \E h \in transactions' \ Stored :
              /\ u \in SetOf(Inputs[h])
              /\ \A v \in SetOf(Outputs[h]) : v \in utxo' \/ transaction_edge'[v] # {}
<1>1. PICK h \in transactions \ Stored :
        /\ u \in SetOf(Inputs[h])
        /\ \A v \in SetOf(Outputs[h]) : Known(v)
  BY DEF ValueKept, Known
<1>2. SetOf(Outputs[h]) \subseteq UtxoIds
  BY TransactionAssumption, SetOfSeq DEF TablesSound
<1>3. \A v \in SetOf(Outputs[h]) : v \in utxo' \/ transaction_edge'[v] # {}
  BY <1>1, <1>2 DEF Grows, Known
<1> QED
  BY <1>1, <1>3 DEF Grows

(* An output is deleted when all that its transaction pays is known. *)
LEMMA StepValue ==
    ASSUME TypeOK, CommitRows, TablesSound, ValueKept, NEW r \in Requests,
           Receive(r) \/ Progress(r) \/ Fault(r)
    PROVE  ValueKept'
<1>1. Grows
  BY StepGrows
<1> SUFFICES ASSUME NEW u \in Unspent, u \notin utxo'
             PROVE  \E h \in transactions' \ Stored :
                       /\ u \in SetOf(Inputs[h])
                       /\ \A v \in SetOf(Outputs[h]) : v \in utxo' \/ transaction_edge'[v] # {}
  BY DEF ValueKept
<1>2. CASE u \notin utxo
  BY <1>1, <1>2, ValueStays
<1>3. CASE u \in utxo
  <2>1. ~Inserts(r)
    BY <1>3 DEF Inserts
  <2>2. DeleteUtxo(r)
    BY <1>3, <2>1, StepKinds
    DEF store, Begins, Looks, Passes, Waits, Ends, ObserveAccepted, InsertTransactionRaw,
        InsertTransactionEdge, NextLoop, Respond
  <2>3. u = Head(todo[r]) /\ u \in SetOf(todo[r]) /\ pc[r] = "delete"
    BY <1>3, <2>2, SetOfTail DEF DeleteUtxo, TypeOK
  <2>4. /\ u \in SetOf(InputsOf(r)) /\ HashOf[r] \in transactions
        /\ \A v \in SetOf(OutputsOf(r)) : Known(v)
    BY <2>3 DEF CommitRows, RowsOf
  <2>5. HashOf[r] \in transactions' \ Stored
    BY <1>1, <2>4, RequestFacts, ParentAssumption DEF Grows, InputsOf
  <2>6. \A v \in SetOf(OutputsOf(r)) : v \in utxo' \/ transaction_edge'[v] # {}
    BY <1>1, <2>4, RowTypes DEF Grows, Known
  <2> QED
    BY <2>4, <2>5, <2>6 DEF InputsOf, OutputsOf
<1> QED
  BY <1>2, <1>3

-----------------------------------------------------------------------------
(* All steps together. *)

(* A step of the processor. *)
LEMMA StepProcess ==
    ASSUME BackfillInv, Process
    PROVE  BackfillInv'
<1> USE DEF BackfillInv
<1>1. PICK r \in Requests : Receive(r) \/ Progress(r)
  BY DEF Process
<1>2. UNCHANGED <<recentVars, downloadVars>>
  BY DEF Process
<1>3. TypeOK' /\ CommitRows' /\ TablesSound' /\ ValueKept'
  BY <1>1, NextTypeOK, StepCommitRows, StepTables, StepValue DEF Next
<1>4. transactions \subseteq transactions'
  BY <1>1, StepGrows DEF Grows
<1>5. unknown_resolved_inputs \subseteq Queue
  BY DEF RecentSound
<1>6. ResolutionsSound'
  BY <1>1, <1>2, <1>5, StepResolutions
<1>7. unknown_resolved_inputs' \subseteq Queue
  BY <1>1, <1>5, StepQueue
<1>8. RecentSound'
  BY <1>2, <1>4, <1>7 DEF RecentSound, recentVars
<1>9. DownloadSound'
  BY <1>2, <1>4 DEF DownloadSound, downloadVars
<1> QED
  BY <1>3, <1>6, <1>8, <1>9

(* The recent download task loses no input before its parent is stored. *)
LEMMA TrackedStays ==
    ASSUME RecentSound, RecentDownload \/ RecentFault
    PROVE  \A m \in Tracked : m \in Tracked' \/ ParentOf(m) \in transactions'
<1>1. update # NoUpdate => ParentOf(update) \in transactions
  BY DEF RecentSound
<1>2. CASE DrainUnknown
  BY <1>2 DEF DrainUnknown, RecentSound, Tracked
<1>3. ASSUME NEW m \in updates, Decline(m)
      PROVE  Tracked \subseteq Tracked'
  BY <1>3 DEF Decline, Tracked
<1>4. ASSUME NEW m \in updates, StoreParent(m), NEW n \in Tracked
      PROVE  n \in Tracked' \/ ParentOf(n) \in transactions'
  BY <1>1, <1>4 DEF StoreParent, Tracked
<1>5. CASE QueueAncestors
  <2>1. /\ update' = NoUpdate /\ UNCHANGED <<updates, dropped, transactions>>
        /\ unknown_resolved_inputs \subseteq unknown_resolved_inputs'
    BY <1>5 DEF QueueAncestors, store
  <2> QED
    BY <1>1, <2>1 DEF Tracked
<1>6. CASE UNCHANGED <<unknown_resolved_inputs, updates, update, dropped>>
  BY <1>6 DEF Tracked
<1> QED
  BY <1>2, <1>3, <1>4, <1>5, <1>6
  DEF RecentDownload, RecentFault, StoreParentEdge, CheckOutput, PeersAnswer, InsertOutput,
      CheckChannel, TickDone

(* A step of one of the downloads. *)
LEMMA StepDownloads ==
    ASSUME BackfillInv, RecentDownload \/ RecentFault \/ Download
    PROVE  BackfillInv'
<1> USE DEF BackfillInv
<1>1. /\ UNCHANGED live
      /\ transactions \subseteq transactions' /\ transactions' \subseteq Nat
      /\ utxo \subseteq utxo' /\ utxo' \subseteq UtxoIds
      /\ transaction_edge' \in [UtxoIds -> SUBSET Hash]
      /\ \A u \in UtxoIds : transaction_edge[u] # {} => transaction_edge'[u] # {}
      /\ TablesSound'
  BY DownloadTables
<1>2. Grows
  BY <1>1 DEF Grows, Known
<1>3. RecentSound' /\ DownloadSound'
        /\ \A m \in Tracked : m \in Tracked' \/ ParentOf(m) \in transactions'
  <2>1. CASE RecentDownload \/ RecentFault
    <3>1. UNCHANGED downloadVars
      BY <2>1
      DEF RecentDownload, RecentFault, DrainUnknown, Decline, StoreParent, StoreParentEdge,
          CheckOutput, PeersAnswer, InsertOutput, CheckChannel, QueueAncestors, TickDone
    <3>2. DownloadSound'
      BY <1>1, <3>1 DEF downloadVars, DownloadSound
    <3> QED
      BY <1>1, <2>1, <3>2, StepRecent, TrackedStays
  <2>2. CASE Download
    <3>1. UNCHANGED <<unknown_resolved_inputs, recentVars>>
      BY <2>2
      DEF Download, FetchUtxos, CheckEntry, InsertEntry, FetchTransactions, InsertHistory,
          InsertHistoryEdge, DownloadDone, vars
    <3>2. RecentSound' /\ Tracked' = Tracked
      BY <1>1, <3>1 DEF recentVars, RecentSound, Tracked
    <3> QED
      BY <1>1, <2>2, <3>2, StepDownload
  <2> QED
    BY <2>1, <2>2
<1>4. TypeOK'
  <2>1. \A m \in unknown_resolved_inputs' :
           m \in Requests \X {"resolve", "revalidate"} \X UtxoIds
    BY <1>3, QueueFacts DEF RecentSound
  <2> QED
    BY <1>1, <2>1 DEF TypeOK, live
<1>5. CommitRows'
  BY <1>1, <1>2, RowsStay DEF CommitRows, live
<1>6. ValueKept'
  BY <1>1, <1>2, ValueStays DEF ValueKept
<1>7. ResolutionsSound'
  <2>1. \A q, u : Accounted(q, u) => Accounted(q, u)'
    BY <1>1, <1>3, AccountedStays
  <2> QED
    BY <1>1, <2>1 DEF live, ResolutionsSound, Signed
<1> QED
  BY <1>1, <1>3, <1>4, <1>5, <1>6, <1>7

(* The process ends anywhere and another starts on the same tables. *)
LEMMA StepRestart ==
    ASSUME BackfillInv, Restart
    PROVE  BackfillInv'
<1> USE DEF BackfillInv, store
<1>1. /\ UNCHANGED <<observation, transactions, utxo, transaction_edge>>
      /\ \A r \in Requests : pc'[r] \in {"idle", "done"}
      /\ \A r \in Requests : response'[r] = "ok" => response[r] = "ok"
      /\ \A r \in Requests : pc[r] = "done" => pc'[r] = "done"
      /\ \A r \in Requests : \A u \in UtxoIds : resolution'[r][u] = "none"
  BY DEF Restart
<1>2. TypeOK'
  BY DEF Restart, TypeOK, Labels, Answers, Outcomes
<1>3. CommitRows'
  BY <1>1 DEF CommitRows, RowsOf, Known
<1>4. Tracked \subseteq Tracked'
  BY DEF Restart, Tracked
<1>5. RecentSound'
  <2>1. dropped' \subseteq Queue
    BY DEF Restart, RecentSound
  <2>2. /\ unknown_resolved_inputs' = {} /\ updates' = {} /\ update' = NoUpdate
        /\ rows' = <<>> /\ recent' = "sleep"
    BY DEF Restart
  <2>3. /\ unknown_resolved_inputs' \cup updates' \cup dropped' \subseteq Queue
        /\ rows' \in Seq(UtxoIds)
        /\ recent' \notin Storing
    BY <2>1, <2>2 DEF Storing
  <2> QED
    BY <2>2, <2>3 DEF RecentSound
<1>6. DownloadSound'
  BY DEF Restart, DownloadSound
<1>7. TablesSound' /\ ValueKept'
  BY <1>1 DEF TablesSound, ValueKept
<1>8. ResolutionsSound'
  <2>1. \A q, u : Accounted(q, u) => Accounted(q, u)'
    BY <1>1, <1>4, AccountedStays
  <2>2. ASSUME NEW r \in Requests, NEW u \in SetOf(InputsOf(r))
        PROVE  /\ resolution'[r][u] = "none" /\ pc'[r] \notin Resolved
               /\ Signed(r, "Accepted")' => Signed(r, "Accepted")
    BY <1>1, RowTypes DEF Resolved, Signed
  <2> QED
    BY <2>1, <2>2 DEF ResolutionsSound
<1> QED
  BY <1>2, <1>3, <1>5, <1>6, <1>7, <1>8

(* At the start the tables are consistent and nobody is at work. *)
LEMMA InitBackfillInv == BackfillInit => BackfillInv
<1> SUFFICES ASSUME BackfillInit PROVE BackfillInv
  OBVIOUS
<1>1. TypeOK /\ CommitRows
  BY InitTypeOK, InitCommitRows DEF BackfillInit
<1>2. RecentSound /\ DownloadSound
  BY DEF BackfillInit, Init, RecentSound, Storing, DownloadSound
<1>3. TablesSound /\ ValueKept
  BY LedgerAssumption DEF BackfillInit, Init, TablesSound, ValueKept
<1>4. ResolutionsSound
  <2>1. ASSUME NEW r \in Requests, NEW u \in SetOf(InputsOf(r))
        PROVE  resolution[r][u] = "none" /\ pc[r] = "idle" /\ ~Signed(r, "Accepted")
    BY RowTypes DEF BackfillInit, Init, Signed
  <2> QED
    BY <2>1 DEF ResolutionsSound, Resolved
<1> QED
  BY <1>1, <1>2, <1>3, <1>4 DEF BackfillInv

(* The invariant of the tables, the downloads and the commits. *)
LEMMA AlwaysBackfillInv == BackfillSpec => []BackfillInv
<1>1. BackfillInv /\ [BackfillNext]_backfillVars => BackfillInv'
  <2> SUFFICES ASSUME BackfillInv, [BackfillNext]_backfillVars PROVE BackfillInv'
    OBVIOUS
  <2>1. CASE UNCHANGED backfillVars
    <3>1. UNCHANGED <<pc, response, transaction_channels, utxo_channels, inbox, conflicts,
                      resolution, todo, observation, transactions, utxo, transaction_edge,
                      unknown_resolved_inputs, recent, updates, update, rows, dropped,
                      download, entries, fetched, item, edges>>
      BY <2>1 DEF backfillVars, vars, recentVars, downloadVars
    <3>2. TypeOK' /\ CommitRows'
      BY <3>1 DEF BackfillInv, TypeOK, CommitRows, RowsOf, Known
    <3>3. RecentSound' /\ DownloadSound' /\ TablesSound' /\ ValueKept'
      BY <3>1 DEF BackfillInv, RecentSound, DownloadSound, TablesSound, ValueKept
    <3>4. ResolutionsSound'
      BY <3>1 DEF BackfillInv, ResolutionsSound, Accounted, Tracked, Signed
    <3> QED
      BY <3>2, <3>3, <3>4 DEF BackfillInv
  <2> QED
    BY <2>1, StepProcess, StepDownloads, StepRestart DEF BackfillNext, Rest
<1> QED
  BY <1>1, InitBackfillInv, PTL DEF BackfillSpec

(* Nothing refers to what is not there: parents are stored or vouched for, *)
(* and the rows of the tables name stored transactions, over any number of *)
(* crashes.                                                                *)
THEOREM AncestryAlwaysStored == BackfillSpec => []AncestryStored
<1>1. BackfillInv => AncestryStored
  <2> SUFFICES ASSUME BackfillInv, NEW r \in Requests, Signed(r, "Accepted"),
                      NEW u \in SetOf(InputsOf(r))
               PROVE  u.transaction_hash \in transactions \/ u \in PeerValid
    BY DEF BackfillInv, TablesSound, AncestryStored
  <2>1. Accounted(r, u)
    BY DEF BackfillInv, ResolutionsSound
  <2>2. \A m \in Tracked : m[3] \in PeerValid
    BY QueueFacts DEF BackfillInv, RecentSound, Tracked
  <2> QED
    BY <2>1, <2>2 DEF Accounted
<1> QED
  BY <1>1, AlwaysBackfillInv, PTL

(* No parent of a signed transaction is forgotten, unless the recent       *)
(* download declined it or the process ended with it in its hands.         *)
THEOREM ParentsAlwaysAccounted == BackfillSpec => []ParentsAccountedFor
<1>1. BackfillInv => ParentsAccountedFor
  <2> SUFFICES ASSUME BackfillInv, NEW r \in Requests, Signed(r, "Accepted"),
                      NEW u \in SetOf(InputsOf(r)), u.transaction_hash \notin transactions
               PROVE  \E m \in unknown_resolved_inputs \cup updates \cup dropped
                                 \cup ({update} \ {NoUpdate}) : m[1] = r /\ m[3] = u
    BY DEF ParentsAccountedFor
  <2> QED
    BY DEF BackfillInv, ResolutionsSound, Accounted, Tracked
<1> QED
  BY <1>1, AlwaysBackfillInv, PTL

(* A crash destroys no value: what was unspent at the start and is gone    *)
(* was spent by a stored transaction whose outputs are known.              *)
THEOREM CrashesKeepValue == BackfillSpec => []ValueKept
<1>1. BackfillInv => ValueKept
  BY DEF BackfillInv
<1> QED
  BY <1>1, AlwaysBackfillInv, PTL

=============================================================================

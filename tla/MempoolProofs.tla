---------------------------- MODULE MempoolProofs ----------------------------
(***************************************************************************)
(* Proofs about Mempool, for any requests, bounds and interleaving with    *)
(* the processor: the map of entries matches the heap, a submission is in  *)
(* one place, and a transaction of the store is not processed again.       *)
(***************************************************************************)
EXTENDS Mempool, TransactionProcessTypes, FiniteSetTheorems

(* Types of the variables of the mempool and its channels. *)
NodeTyped ==
    /\ TypeOK
    /\ submitted \subseteq Requests
    /\ mempool \in Seq(Requests)
    /\ messages \in Seq(Requests)
    /\ heap \subseteq Requests
    /\ transaction_process \in Seq(Requests)

(* The map matches the heap, also between the two checks of a message. *)
EntriesSound ==
    /\ EntriesMatchHeap
    /\ stage = "store" =>
          messages # <<>> /\ HashOf[Head(messages)] \notin mempool_entries
    /\ stage \in {"sleep", "dispatch"} => messages = <<>>

(* The four places a submission passes through. *)
Placed == SetOf(mempool) \cup SetOf(messages) \cup heap \cup SetOf(transaction_process)

(* Each place has a submission once, and no two places have the same.      *)
PlacesApart ==
    /\ Once(mempool) /\ Once(messages) /\ Once(transaction_process)
    /\ SetOf(mempool) \cap SetOf(messages) = {}
    /\ SetOf(mempool) \cap heap = {}
    /\ SetOf(mempool) \cap SetOf(transaction_process) = {}
    /\ SetOf(messages) \cap heap = {}
    /\ SetOf(messages) \cap SetOf(transaction_process) = {}
    /\ heap \cap SetOf(transaction_process) = {}

(* What is placed is what was submitted and not taken by the processor.    *)
PlacedIdle ==
    /\ \A r \in Requests : r \in Placed <=> r \in submitted /\ pc[r] = "idle"
    /\ \A r \in Requests \ submitted : pc[r] = "idle"
    /\ \A r \in Requests : pc[r] = "idle" => ~Signed(r, "Accepted")

NodeInv == NodeTyped /\ EntriesSound /\ PlacesApart /\ PlacedIdle

-----------------------------------------------------------------------------
(* What the processor does, seen from the mempool. *)

(* A request in progress was taken before, and touches only itself and the *)
(* store, where transactions are only added.                               *)
LEMMA ProgressEffect ==
    ASSUME TypeOK, NEW r \in Requests, Progress(r) \/ Fault(r)
    PROVE  /\ pc[r] \notin {"idle", "done"}
           /\ pc'[r] # "idle"
           /\ \A q \in Requests : q # r => pc'[q] = pc[q]
           /\ transactions \subseteq transactions'
           /\ \A q \in Requests : q # r => (Signed(q, "Accepted")' <=> Signed(q, "Accepted"))
<1> USE DEF store, TypeOK
<1>1. CASE Validate(r) \/ ResolveFails(r)
  BY <1>1 DEF Validate, ResolveFails, Finish, Signed
<1>2. ASSUME NEW u \in UtxoIds, ResolveInput(r, u)
      PROVE  /\ pc[r] \notin {"idle", "done"} /\ UNCHANGED <<pc, transactions, observation>>
  BY <1>2 DEF ResolveInput
<1>3. CASE Register(r) \/ Revalidate(r) \/ Gossip(r) \/ CloseWindow(r)
  BY <1>3 DEF Register, Revalidate, Gossip, CloseWindow, Goto, SignUnlessConflict, Signed
<1>4. CASE ObservePending(r) \/ ObserveAccepted(r)
  BY <1>4 DEF ObservePending, ObserveAccepted, Observe, Goto, Signed
<1>5. CASE ReceiveConflict(r) \/ Decide(r)
  BY <1>5 DEF ReceiveConflict, Decide, Finish, Goto, Signed
<1>6. CASE InsertTransactionRaw(r) \/ NextLoop(r) \/ Respond(r)
  BY <1>6 DEF InsertTransactionRaw, NextLoop, Respond, Finish, Goto, Signed
<1>7. CASE InsertUtxo(r) \/ InsertTransactionEdge(r) \/ DeleteUtxo(r)
  BY <1>7 DEF InsertUtxo, InsertTransactionEdge, DeleteUtxo, Finish, Signed
<1>8. CASE Fault(r)
  BY <1>8 DEF Fault, MayFail, Finish, Observe, Signed
<1> QED
  BY <1>1, <1>2, <1>3, <1>4, <1>5, <1>6, <1>7, <1>8 DEF Progress, Signed

(* A request that is taken from the channel was idle. *)
LEMMA ReceiveEffect ==
    ASSUME TypeOK, NEW r \in Requests, Receive(r)
    PROVE  /\ pc[r] = "idle" /\ pc'[r] # "idle"
           /\ \A q \in Requests : q # r => pc'[q] = pc[q]
           /\ UNCHANGED <<transactions, observation>>
  BY DEF Receive, Goto, TypeOK, store

(* A known transaction is dropped: only its own message is affected. *)
LEMMA DropEffect ==
    ASSUME NodeTyped, NEW r \in Requests, Drop(r)
    PROVE  /\ TypeOK'
           /\ pc'[r] = "done"
           /\ \A q \in Requests : q # r => pc'[q] = pc[q]
           /\ messages' = Tail(messages) /\ stage' = "maps"
           /\ UNCHANGED <<transactions, observation, submitted, mempool, heap,
                          mempool_entries, transaction_process>>
<1>1. TypeOK'
  BY DEF NodeTyped, TypeOK, Drop, store, Labels, Answers
<1> QED
  BY <1>1 DEF NodeTyped, TypeOK, Drop, store

(* The steps of the node, by what they do to the places. *)
LEMMA NodeSteps ==
    ASSUME NodeTyped, EntriesSound, [NodeNext]_nodeVars
    PROVE  \/ \E r \in Requests : Submit(r)
           \/ Drain
           \/ /\ stage \in {"maps", "store"} /\ messages # <<>>
              /\ Drop(Head(messages))
           \/ /\ stage = "store" /\ messages # <<>>
              /\ ~KnownToStore(Head(messages))
              /\ Push(Head(messages))
              /\ messages' = Tail(messages)
              /\ stage' = "maps"
              /\ UNCHANGED <<vars, submitted, mempool, transaction_process>>
           \/ DispatchOne
           \/ NodeReceive
           \/ \E r \in Requests : NodeProgress(r) \/ NodeFault(r)
           \/ /\ UNCHANGED <<vars, submitted, mempool, messages, heap,
                             mempool_entries, transaction_process>>
              /\ \/ stage' \in {stage, "stopped"}
                 \/ stage' = "dispatch" /\ messages = <<>>
                 \/ stage' = "sleep" /\ stage = "dispatch"
                 \/ stage' = "store" /\ messages # <<>> /\ ~KnownToMaps(Head(messages))
<1>1. CASE CheckMaps
  BY <1>1 DEF CheckMaps
<1>2. CASE CheckStore
  BY <1>2 DEF CheckStore, EntriesSound
<1>3. CASE StartDispatch \/ DispatchFull \/ DispatchDone \/ MempoolFault
  BY <1>3 DEF StartDispatch, DispatchFull, PushBack, DispatchDone, MempoolFault
<1>4. CASE Stopped \/ UNCHANGED nodeVars
  BY <1>4 DEF Stopped, nodeVars, mempoolVars
<1> QED
  BY <1>1, <1>2, <1>3, <1>4 DEF NodeNext, MempoolTask

-----------------------------------------------------------------------------
(* Each part of the invariant is kept by each step. *)

(* Every step of the node keeps the types. *)
LEMMA StepNodeTyped ==
    ASSUME NodeTyped, EntriesSound, [NodeNext]_nodeVars
    PROVE  NodeTyped'
<1>1. ASSUME UNCHANGED vars PROVE TypeOK'
  BY <1>1, NextTypeOK DEF NodeTyped
<1>2. ASSUME NEW r \in Requests, Submit(r)
      PROVE  NodeTyped'
  BY <1>1, <1>2 DEF Submit, NodeTyped
<1>3. CASE Drain
  BY <1>1, <1>3 DEF Drain, NodeTyped
<1>4. ASSUME messages # <<>>
      PROVE  Head(messages) \in Requests /\ Tail(messages) \in Seq(Requests)
  BY <1>4, SetOfTail DEF NodeTyped
<1>5. CASE messages # <<>> /\ Drop(Head(messages))
  BY <1>4, <1>5, DropEffect DEF NodeTyped
<1>6. CASE /\ messages # <<>> /\ Push(Head(messages)) /\ messages' = Tail(messages)
           /\ UNCHANGED <<vars, submitted, mempool, transaction_process>>
  BY <1>1, <1>4, <1>6 DEF Push, NodeTyped
<1>7. CASE DispatchOne
  BY <1>1, <1>7 DEF DispatchOne, Pop, NodeTyped
<1>8. CASE NodeReceive
  <2>1. /\ Head(transaction_process) \in Requests
        /\ Tail(transaction_process) \in Seq(Requests)
    BY <1>8, SetOfTail DEF NodeReceive, NodeTyped
  <2>2. TypeOK'
    BY <1>8, <2>1, NextTypeOK DEF NodeReceive, Next, NodeTyped
  <2> QED
    BY <1>8, <2>1, <2>2 DEF NodeReceive, NodeTyped
<1>9. ASSUME NEW r \in Requests, NodeProgress(r) \/ NodeFault(r)
      PROVE  NodeTyped'
  <2>1. TypeOK'
    BY <1>9, NextTypeOK DEF NodeProgress, NodeFault, Next, NodeTyped
  <2> QED
    BY <1>9, <2>1 DEF NodeProgress, NodeFault, mempoolVars, NodeTyped
<1>10. CASE UNCHANGED <<vars, submitted, mempool, messages, heap,
                        mempool_entries, transaction_process>>
  BY <1>1, <1>10 DEF NodeTyped
<1> QED
  BY <1>2, <1>3, <1>5, <1>6, <1>7, <1>8, <1>9, <1>10, NodeSteps

(* push and pop keep the map in step with the heap. *)
LEMMA StepEntriesSound ==
    ASSUME NodeTyped, EntriesSound, [NodeNext]_nodeVars
    PROVE  EntriesSound'
<1>1. ASSUME UNCHANGED <<heap, mempool_entries>> PROVE EntriesMatchHeap'
  BY <1>1 DEF EntriesSound, EntriesMatchHeap
<1>2. ASSUME NEW r \in Requests, Submit(r) \/ NodeProgress(r) \/ NodeFault(r)
      PROVE  EntriesSound'
  <2>1. UNCHANGED <<stage, messages, heap, mempool_entries>>
    BY <1>2 DEF Submit, NodeProgress, NodeFault, mempoolVars
  <2> QED
    BY <1>1, <2>1 DEF EntriesSound
<1>3. CASE Drain
  BY <1>1, <1>3 DEF Drain, EntriesSound
<1>4. CASE messages # <<>> /\ Drop(Head(messages))
  BY <1>1, <1>4 DEF Drop, EntriesSound
<1>5. CASE /\ stage = "store" /\ Push(Head(messages)) /\ stage' = "maps"
  <2> DEFINE r == Head(messages)
  <2>1. /\ heap' = heap \cup {r}
        /\ mempool_entries' = mempool_entries \cup {HashOf[r]}
        /\ HashOf[r] \notin mempool_entries
    BY <1>5 DEF Push, EntriesSound
  <2> HIDE DEF r
  <2>2. EntriesMatchHeap'
    BY <2>1 DEF EntriesSound, EntriesMatchHeap
  <2> QED
    BY <1>5, <2>2 DEF EntriesSound
<1>6. CASE DispatchOne
  <2>1. PICK r \in heap : Pop(r)
    BY <1>6 DEF DispatchOne
  <2>2. EntriesMatchHeap'
    BY <2>1 DEF Pop, EntriesSound, EntriesMatchHeap
  <2> QED
    BY <1>6, <2>2 DEF DispatchOne, EntriesSound
<1>7. CASE NodeReceive
  BY <1>1, <1>7 DEF NodeReceive, EntriesSound
<1>8. CASE /\ UNCHANGED <<messages, heap, mempool_entries>>
           /\ \/ stage' \in {stage, "stopped"}
              \/ stage' = "dispatch" /\ messages = <<>>
              \/ stage' = "sleep" /\ stage = "dispatch"
              \/ stage' = "store" /\ messages # <<>> /\ ~KnownToMaps(Head(messages))
  BY <1>1, <1>8 DEF KnownToMaps, EntriesSound
<1> QED
  BY <1>2, <1>3, <1>4, <1>5, <1>6, <1>7, <1>8, NodeSteps

(* A submission moves from place to place. *)
LEMMA StepPlaces ==
    ASSUME NodeInv, [NodeNext]_nodeVars
    PROVE  PlacesApart' /\ PlacedIdle'
<1> USE DEF NodeInv
<1>1. /\ SetOf(mempool) \subseteq Requests
      /\ SetOf(messages) \subseteq Requests
      /\ SetOf(transaction_process) \subseteq Requests
      /\ heap \subseteq Requests
  BY SetOfSeq DEF NodeTyped
<1>2. ASSUME NEW r \in Requests, Submit(r)
      PROVE  PlacesApart' /\ PlacedIdle'
  <2>1. /\ r \notin submitted /\ submitted' = submitted \cup {r}
        /\ mempool' = Append(mempool, r)
        /\ UNCHANGED <<pc, observation, messages, heap, transaction_process>>
    BY <1>2 DEF Submit, vars
  <2>2. r \notin Placed /\ pc[r] = "idle"
    BY <2>1 DEF PlacedIdle
  <2>3. SetOf(mempool') = SetOf(mempool) \cup {r} /\ Once(mempool')
    BY <2>1, <2>2, SetOfAppend, OnceAppend DEF NodeTyped, PlacesApart, Placed
  <2>4. PlacesApart'
    BY <2>1, <2>2, <2>3 DEF PlacesApart, Placed
  <2>5. Placed' = Placed \cup {r}
    BY <2>1, <2>3 DEF Placed
  <2> HIDE DEF NodeInv
  <2>6. PlacedIdle'
    BY <2>1, <2>2, <2>5 DEF NodeInv, PlacedIdle, Signed
  <2> QED
    BY <2>4, <2>6
<1>3. CASE Drain
  <2>1. /\ messages' = mempool /\ mempool' = <<>> /\ messages = <<>>
        /\ UNCHANGED <<pc, observation, submitted, heap, transaction_process>>
    BY <1>3 DEF Drain, vars, EntriesSound
  <2>2. PlacesApart' /\ Placed' = Placed
    BY <2>1, EmptyChannel DEF PlacesApart, Placed
  <2> QED
    BY <2>1, <2>2 DEF PlacedIdle, Signed
<1>4. ASSUME messages # <<>>
      PROVE  /\ Head(messages) \in Requests
             /\ Head(messages) \in SetOf(messages)
             /\ Once(Tail(messages))
             /\ SetOf(Tail(messages)) = SetOf(messages) \ {Head(messages)}
  BY <1>4, SetOfTail, OnceTail DEF NodeTyped, PlacesApart
<1>5. CASE messages # <<>> /\ Drop(Head(messages))
  <2> DEFINE r == Head(messages)
  <2>1. /\ r \in Requests /\ r \in SetOf(messages)
        /\ pc'[r] = "done"
        /\ \A q \in Requests : q # r => pc'[q] = pc[q]
        /\ Once(messages') /\ SetOf(messages') = SetOf(messages) \ {r}
        /\ UNCHANGED <<observation, submitted, mempool, heap, transaction_process>>
    BY <1>4, <1>5, DropEffect
  <2> HIDE DEF r
  <2>2. PlacesApart'
    BY <2>1 DEF PlacesApart
  <2>3. Placed' = Placed \ {r} /\ r \in Placed
    BY <2>1 DEF Placed, PlacesApart
  <2>4. PlacedIdle'
    BY <2>1, <2>3 DEF PlacedIdle, Signed
  <2> QED
    BY <2>2, <2>4
<1>6. CASE /\ messages # <<>> /\ Push(Head(messages)) /\ messages' = Tail(messages)
           /\ UNCHANGED <<vars, submitted, mempool, transaction_process>>
  <2> DEFINE r == Head(messages)
  <2>1. /\ r \in Requests /\ r \in SetOf(messages)
        /\ Once(messages') /\ SetOf(messages') = SetOf(messages) \ {r}
        /\ heap' = heap \cup {r}
        /\ UNCHANGED <<pc, observation, submitted, mempool, transaction_process>>
    BY <1>4, <1>6 DEF Push, vars
  <2> HIDE DEF r
  <2>2. PlacesApart'
    BY <2>1 DEF PlacesApart
  <2>3. Placed' = Placed
    BY <2>1 DEF Placed
  <2> QED
    BY <2>1, <2>2, <2>3 DEF PlacedIdle, Signed
<1>7. CASE DispatchOne
  <2>1. PICK r \in heap :
          /\ heap' = heap \ {r}
          /\ transaction_process' = Append(transaction_process, r)
          /\ UNCHANGED <<pc, observation, submitted, mempool, messages>>
    BY <1>7 DEF DispatchOne, Pop, vars
  <2>2. /\ SetOf(transaction_process') = SetOf(transaction_process) \cup {r}
        /\ Once(transaction_process')
    BY <1>1, <2>1, SetOfAppend, OnceAppend DEF NodeTyped, PlacesApart
  <2>3. PlacesApart'
    BY <2>1, <2>2 DEF PlacesApart
  <2>4. Placed' = Placed
    BY <2>1, <2>2 DEF Placed
  <2> QED
    BY <2>1, <2>3, <2>4 DEF PlacedIdle, Signed
<1>8. CASE NodeReceive
  <2> DEFINE r == Head(transaction_process)
  <2>1. /\ r \in Requests /\ r \in SetOf(transaction_process)
        /\ Once(transaction_process')
        /\ SetOf(transaction_process') = SetOf(transaction_process) \ {r}
        /\ UNCHANGED <<submitted, mempool, messages, heap>>
    BY <1>8, SetOfTail, OnceTail DEF NodeReceive, NodeTyped, PlacesApart
  <2>2. /\ pc'[r] # "idle"
        /\ \A q \in Requests : q # r => pc'[q] = pc[q]
        /\ UNCHANGED observation
    BY <1>8, <2>1, ReceiveEffect DEF NodeReceive, NodeTyped
  <2> HIDE DEF r
  <2>3. PlacesApart'
    BY <2>1 DEF PlacesApart
  <2>4. Placed' = Placed \ {r} /\ r \in Placed
    BY <2>1 DEF Placed, PlacesApart
  <2>5. PlacedIdle'
    BY <2>1, <2>2, <2>4 DEF PlacedIdle, Signed
  <2> QED
    BY <2>3, <2>5
<1>9. ASSUME NEW r \in Requests, NodeProgress(r) \/ NodeFault(r)
      PROVE  PlacesApart' /\ PlacedIdle'
  <2>1. UNCHANGED <<submitted, mempool, messages, heap, transaction_process>>
    BY <1>9 DEF NodeProgress, NodeFault, mempoolVars
  <2>2. /\ pc[r] # "idle" /\ pc'[r] # "idle"
        /\ \A q \in Requests : q # r => pc'[q] = pc[q]
        /\ \A q \in Requests : q # r => (Signed(q, "Accepted")' <=> Signed(q, "Accepted"))
    BY <1>9, ProgressEffect DEF NodeProgress, NodeFault, NodeTyped
  <2>3. PlacesApart' /\ Placed' = Placed
    BY <2>1 DEF PlacesApart, Placed
  <2> QED
    BY <2>1, <2>2, <2>3 DEF PlacedIdle
<1>10. CASE UNCHANGED <<vars, submitted, mempool, messages, heap,
                        mempool_entries, transaction_process>>
  BY <1>10 DEF vars, PlacesApart, PlacedIdle, Placed, Signed
<1> QED
  BY <1>2, <1>3, <1>5, <1>6, <1>7, <1>8, <1>9, <1>10, NodeSteps

(* At the start nothing was submitted. *)
LEMMA InitNodeInv == NodeInit => NodeInv
<1> SUFFICES ASSUME NodeInit PROVE NodeInv
  OBVIOUS
<1>1. NodeTyped
  BY InitTypeOK DEF NodeInit, NodeTyped
<1>2. EntriesSound
  BY DEF NodeInit, EntriesSound, EntriesMatchHeap
<1>3. PlacesApart
  BY EmptyChannel DEF NodeInit, PlacesApart
<1>4. PlacedIdle
  BY EmptyChannel DEF NodeInit, Init, PlacedIdle, Placed, Signed
<1> QED
  BY <1>1, <1>2, <1>3, <1>4 DEF NodeInv

(* The four parts are an inductive invariant of mempool and processor. *)
LEMMA AlwaysNodeInv == NodeSpec => []NodeInv
<1>1. NodeInv /\ [NodeNext]_nodeVars => NodeInv'
  BY StepNodeTyped, StepEntriesSound, StepPlaces DEF NodeInv
<1> QED
  BY <1>1, InitNodeInv, PTL DEF NodeSpec

-----------------------------------------------------------------------------
(* The theorems. *)

(* mempool_entries is exactly the hashes of the heap, which has one entry  *)
(* per transaction, however submissions, ticks and the processor           *)
(* interleave.                                                             *)
THEOREM EntriesAlwaysMatch == NodeSpec => []EntriesMatchHeap
<1>1. NodeInv => EntriesMatchHeap
  BY DEF NodeInv, EntriesSound
<1> QED
  BY <1>1, AlwaysNodeInv, PTL

(* A submission that the processor has not taken is in one place once. *)
THEOREM SubmissionsInOnePlace == NodeSpec => []OnePlace
<1>1. ASSUME NodeInv, NEW r \in submitted, pc[r] = "idle"
      PROVE  Cardinality({<<"mempool", i>> : i \in {i \in DOMAIN mempool : mempool[i] = r}}
               \cup {<<"messages", i>> : i \in {i \in DOMAIN messages : messages[i] = r}}
               \cup {<<"heap", q>> : q \in heap \cap {r}}
               \cup {<<"process", i>> : i \in {i \in DOMAIN transaction_process :
                                               transaction_process[i] = r}}) = 1
  <2> DEFINE A == {i \in DOMAIN mempool : mempool[i] = r}
             B == {i \in DOMAIN messages : messages[i] = r}
             C == heap \cap {r}
             D == {i \in DOMAIN transaction_process : transaction_process[i] = r}
             All(a, b, c, d) == {<<"mempool", i>> : i \in a} \cup {<<"messages", i>> : i \in b}
                                  \cup {<<"heap", q>> : q \in c} \cup {<<"process", i>> : i \in d}
  <2>1. r \in Placed
    BY <1>1 DEF NodeInv, NodeTyped, PlacedIdle
  <2>2. /\ r \notin SetOf(mempool) => A = {}
        /\ r \notin SetOf(messages) => B = {}
        /\ r \notin heap => C = {}
        /\ r \notin SetOf(transaction_process) => D = {}
    BY DEF SetOf
  <2>3. /\ r \in SetOf(mempool) => \E i : A = {i}
        /\ r \in SetOf(messages) => \E i : B = {i}
        /\ r \in heap => C = {r}
        /\ r \in SetOf(transaction_process) => \E i : D = {i}
    <3>1. Once(mempool) /\ Once(messages) /\ Once(transaction_process)
      BY <1>1 DEF NodeInv, PlacesApart
    <3>2. r \in SetOf(mempool) => \E i : A = {i}
      BY <3>1, OnceAt
    <3>3. r \in SetOf(messages) => \E i : B = {i}
      BY <3>1, OnceAt
    <3>4. r \in SetOf(transaction_process) => \E i : D = {i}
      BY <3>1, OnceAt
    <3> QED
      BY <3>2, <3>3, <3>4
  <2> HIDE DEF A, B, C, D
  <2>4. \E x : All(A, B, C, D) = {x}
    <3>1. CASE r \in SetOf(mempool)
      <4>1. B = {} /\ C = {} /\ D = {} /\ \E i : A = {i}
        BY <1>1, <2>2, <2>3, <3>1 DEF NodeInv, PlacesApart
      <4>2. PICK i : A = {i}
        BY <4>1
      <4>3. All(A, B, C, D) = {<<"mempool", i>>}
        BY <4>1, <4>2
      <4> QED
        BY <4>3
    <3>2. CASE r \in SetOf(messages)
      <4>1. A = {} /\ C = {} /\ D = {} /\ \E i : B = {i}
        BY <1>1, <2>2, <2>3, <3>2 DEF NodeInv, PlacesApart
      <4>2. PICK i : B = {i}
        BY <4>1
      <4>3. All(A, B, C, D) = {<<"messages", i>>}
        BY <4>1, <4>2
      <4> QED
        BY <4>3
    <3>3. CASE r \in heap
      <4>1. A = {} /\ B = {} /\ D = {} /\ C = {r}
        BY <1>1, <2>2, <2>3, <3>3 DEF NodeInv, PlacesApart
      <4>2. All(A, B, C, D) = {<<"heap", r>>}
        BY <4>1
      <4> QED
        BY <4>2
    <3>4. CASE r \in SetOf(transaction_process)
      <4>1. A = {} /\ B = {} /\ C = {} /\ \E i : D = {i}
        BY <1>1, <2>2, <2>3, <3>4 DEF NodeInv, PlacesApart
      <4>2. PICK i : D = {i}
        BY <4>1
      <4>3. All(A, B, C, D) = {<<"process", i>>}
        BY <4>1, <4>2
      <4> QED
        BY <4>3
    <3> QED
      BY <2>1, <3>1, <3>2, <3>3, <3>4 DEF Placed
  <2>5. Cardinality(All(A, B, C, D)) = 1
    <3> HIDE DEF All
    <3> QED
      BY <2>4, FS_Singleton
  <2> QED
    BY <2>5 DEF A, B, C, D
<1>2. NodeInv => OnePlace
  BY <1>1 DEF OnePlace
<1> QED
  BY <1>2, AlwaysNodeInv, PTL

(* The transaction of r is stored, and no copy of r has been let past the  *)
(* store's check.                                                          *)
TurnedAway(r) ==
    /\ HashOf[r] \in transactions
    /\ pc[r] \in {"idle", "done"}
    /\ r \notin heap \cup SetOf(transaction_process)
    /\ ~Signed(r, "Accepted")

(* Who is turned away stays so: the store forgets no transaction. *)
LEMMA TurnedAwayStays ==
    ASSUME NodeInv, NodeInv', [NodeNext]_nodeVars, NEW r \in Requests, TurnedAway(r)
    PROVE  TurnedAway(r)'
<1> USE DEF NodeInv
<1>1. ASSUME NEW q \in Requests, Submit(q)
      PROVE  TurnedAway(r)'
  BY <1>1 DEF Submit, vars, TurnedAway, Signed
<1>2. CASE Drain
  BY <1>2 DEF Drain, vars, TurnedAway, Signed
<1>3. CASE messages # <<>> /\ Drop(Head(messages))
  <2>1. Head(messages) \in Requests
    BY <1>3, SetOfTail DEF NodeTyped
  <2>2. /\ pc'[r] \in {"done", pc[r]}
        /\ UNCHANGED <<transactions, observation, heap, transaction_process>>
    BY <1>3, <2>1, DropEffect
  <2> QED
    BY <2>2 DEF TurnedAway, Signed
<1>4. CASE /\ ~KnownToStore(Head(messages)) /\ Push(Head(messages))
           /\ UNCHANGED <<vars, transaction_process>>
  <2>1. r # Head(messages)
    BY <1>4 DEF KnownToStore, TurnedAway
  <2> QED
    BY <1>4, <2>1 DEF Push, vars, TurnedAway, Signed
<1>5. CASE DispatchOne
  <2>1. PICK q \in heap :
          /\ heap' = heap \ {q}
          /\ transaction_process' = Append(transaction_process, q)
          /\ UNCHANGED <<pc, observation, transactions>>
    BY <1>5 DEF DispatchOne, Pop, vars
  <2>2. SetOf(transaction_process') = SetOf(transaction_process) \cup {q}
    BY <2>1, SetOfAppend DEF NodeTyped
  <2> QED
    BY <2>1, <2>2 DEF TurnedAway, Signed
<1>6. CASE NodeReceive
  <2> DEFINE q == Head(transaction_process)
  <2>1. /\ q \in Requests /\ q \in SetOf(transaction_process)
        /\ SetOf(transaction_process') \subseteq SetOf(transaction_process)
        /\ UNCHANGED heap
    BY <1>6, SetOfTail DEF NodeReceive, NodeTyped
  <2>2. /\ \A p \in Requests : p # q => pc'[p] = pc[p]
        /\ UNCHANGED <<transactions, observation>>
    BY <1>6, <2>1, ReceiveEffect DEF NodeReceive, NodeTyped
  <2> HIDE DEF q
  <2> QED
    BY <2>1, <2>2 DEF TurnedAway, Signed
<1>7. ASSUME NEW q \in Requests, NodeProgress(q) \/ NodeFault(q)
      PROVE  TurnedAway(r)'
  <2>1. UNCHANGED <<heap, transaction_process>>
    BY <1>7 DEF NodeProgress, NodeFault, mempoolVars
  <2>2. /\ pc[q] \notin {"idle", "done"}
        /\ \A p \in Requests : p # q => pc'[p] = pc[p]
        /\ transactions \subseteq transactions'
        /\ \A p \in Requests : p # q => (Signed(p, "Accepted")' <=> Signed(p, "Accepted"))
    BY <1>7, ProgressEffect DEF NodeProgress, NodeFault, NodeTyped
  <2> QED
    BY <2>1, <2>2 DEF TurnedAway
<1>8. CASE UNCHANGED <<vars, submitted, mempool, messages, heap,
                       mempool_entries, transaction_process>>
  BY <1>8 DEF vars, TurnedAway, Signed
<1> QED
  BY <1>1, <1>2, <1>3, <1>4, <1>5, <1>6, <1>7, <1>8, NodeSteps

(* A copy submitted after the row of its transaction is in the store is    *)
(* never signed Accepted.                                                  *)
THEOREM ReplaysRefused == NodeSpec => ReplayRefused
<1>1. SUFFICES ASSUME NEW r \in Requests
               PROVE  NodeSpec => [](HashOf[r] \in transactions /\ r \notin submitted
                                      => []~Signed(r, "Accepted"))
  BY DEF ReplayRefused
<1>2. NodeInv /\ HashOf[r] \in transactions /\ r \notin submitted => TurnedAway(r)
  BY DEF NodeInv, PlacedIdle, Placed, TurnedAway
<1>3. NodeInv /\ NodeInv' /\ [NodeNext]_nodeVars /\ TurnedAway(r) => TurnedAway(r)'
  BY TurnedAwayStays
<1>4. TurnedAway(r) => ~Signed(r, "Accepted")
  BY DEF TurnedAway
<1> QED
  BY <1>2, <1>3, <1>4, AlwaysNodeInv, PTL DEF NodeSpec

=============================================================================

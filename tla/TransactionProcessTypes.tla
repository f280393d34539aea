---------------------- MODULE TransactionProcessTypes -----------------------
(***************************************************************************)
(* Type correctness of TransactionProcess, the facts about sequences and   *)
(* constants that the other proofs use, and what each step of a request    *)
(* does to the data store.                                                 *)
(***************************************************************************)
EXTENDS TransactionProcess, TLAPS

(* What Append and Tail do to the set of a sequence's elements. *)
LEMMA SetOfAppend ==
    ASSUME NEW S, NEW s \in Seq(S), NEW x \in S
    PROVE  SetOf(Append(s, x)) = SetOf(s) \cup {x}
<1>1. /\ DOMAIN Append(s, x) = 1..(Len(s) + 1)
      /\ DOMAIN s = 1..Len(s)
      /\ Len(s) \in Nat
  OBVIOUS
<1>2. /\ Append(s, x)[Len(s) + 1] = x
      /\ \A i \in 1..Len(s) : Append(s, x)[i] = s[i]
  OBVIOUS
<1>3. SetOf(Append(s, x)) \subseteq SetOf(s) \cup {x}
  BY <1>1, <1>2 DEF SetOf
<1>4. SetOf(s) \cup {x} \subseteq SetOf(Append(s, x))
  BY <1>1, <1>2 DEF SetOf
<1> QED
  BY <1>3, <1>4

(* Receiving a message takes at most that message from a channel. *)
LEMMA SetOfTail ==
    ASSUME NEW S, NEW s \in Seq(S), s # <<>>
    PROVE  /\ SetOf(s) = SetOf(Tail(s)) \cup {Head(s)}
           /\ Head(s) \in S
           /\ Tail(s) \in Seq(S)
<1>1. /\ DOMAIN Tail(s) = 1..(Len(s) - 1)
      /\ DOMAIN s = 1..Len(s)
      /\ Len(s) \in Nat \ {0}
      /\ Head(s) = s[1]
      /\ \A i \in 1..(Len(s) - 1) : Tail(s)[i] = s[i + 1]
  OBVIOUS
<1>2. SetOf(Tail(s)) \cup {Head(s)} \subseteq SetOf(s)
  BY <1>1 DEF SetOf
<1>3. ASSUME NEW i \in DOMAIN s
      PROVE  s[i] \in SetOf(Tail(s)) \cup {Head(s)}
  <2>1. CASE i = 1
    BY <1>1, <2>1
  <2>2. CASE i # 1
    <3>1. i - 1 \in DOMAIN Tail(s) /\ Tail(s)[i - 1] = s[i]
      BY <1>1, <2>2
    <3> QED
      BY <3>1 DEF SetOf
  <2> QED
    BY <2>1, <2>2
<1>4. SetOf(s) \subseteq SetOf(Tail(s)) \cup {Head(s)}
  BY <1>3 DEF SetOf
<1> QED
  BY <1>2, <1>4

(* The elements of a channel are requests when the channel's type says so. *)
LEMMA SetOfSeq ==
    ASSUME NEW S, NEW s \in Seq(S)
    PROVE  SetOf(s) \subseteq S
  BY DEF SetOf

(* An empty channel has no message. *)
LEMMA SetOfEmpty ==
    ASSUME NEW S, NEW s \in Seq(S), SetOf(s) = {}
    PROVE  s = <<>>
<1>1. DOMAIN s = 1..Len(s) /\ Len(s) \in Nat
  OBVIOUS
<1>2. DOMAIN s = {}
  BY Zenon DEF SetOf
<1>3. Len(s) = 0
  <2>1. 1 \notin 1..Len(s)
    BY <1>1, <1>2
  <2> QED
    BY <1>1, <2>1
<1> QED
  BY <1>3

(* No message is in a channel twice, no row in a list. *)
Once(s) == \A i, j \in DOMAIN s : s[i] = s[j] => i = j

(* A message that was not in the channel is there once. *)
LEMMA OnceAppend ==
    ASSUME NEW S, NEW s \in Seq(S), NEW x \in S, Once(s), x \notin SetOf(s)
    PROVE  Once(Append(s, x))
<1>1. /\ DOMAIN Append(s, x) = 1..(Len(s) + 1)
      /\ DOMAIN s = 1..Len(s)
      /\ Len(s) \in Nat
      /\ Append(s, x)[Len(s) + 1] = x
      /\ \A i \in 1..Len(s) : Append(s, x)[i] = s[i] /\ s[i] # x
  BY DEF SetOf
<1>2. ASSUME NEW i \in DOMAIN Append(s, x), NEW j \in DOMAIN Append(s, x),
             Append(s, x)[i] = Append(s, x)[j]
      PROVE  i = j
  <2>1. CASE i = Len(s) + 1 \/ j = Len(s) + 1
    BY <1>1, <1>2, <2>1
  <2>2. CASE i # Len(s) + 1 /\ j # Len(s) + 1
    BY <1>1, <1>2, <2>2 DEF Once
  <2> QED
    BY <2>1, <2>2
<1> QED
  BY <1>2 DEF Once

(* The message that is taken is gone, when it was there once. *)
LEMMA OnceTail ==
    ASSUME NEW S, NEW s \in Seq(S), s # <<>>, Once(s)
    PROVE  /\ Once(Tail(s))
           /\ SetOf(Tail(s)) = SetOf(s) \ {Head(s)}
<1>1. /\ DOMAIN Tail(s) = 1..(Len(s) - 1)
      /\ DOMAIN s = 1..Len(s)
      /\ Len(s) \in Nat \ {0}
      /\ Head(s) = s[1]
      /\ \A i \in 1..(Len(s) - 1) : Tail(s)[i] = s[i + 1]
  OBVIOUS
<1>2. \A i, j \in 1..Len(s) : s[i] = s[j] => i = j
  BY <1>1 DEF Once
<1>3. \A i \in 1..(Len(s) - 1) : Tail(s)[i] # Head(s)
  BY <1>1, <1>2
<1>4. Once(Tail(s))
  BY <1>1, <1>2 DEF Once
<1>5. Head(s) \notin SetOf(Tail(s))
  BY <1>1, <1>3 DEF SetOf
<1> QED
  BY <1>4, <1>5, SetOfTail

(* An element that is there once has one place. *)
LEMMA OnceAt ==
    ASSUME NEW s, NEW x, Once(s), x \in SetOf(s)
    PROVE  \E i : {j \in DOMAIN s : s[j] = x} = {i}
<1>1. PICK i \in DOMAIN s : s[i] = x
  BY DEF SetOf
<1>2. \A j \in DOMAIN s : s[j] = x => j = i
  BY <1>1 DEF Once
<1> QED
  BY <1>1, <1>2

(* An empty channel. *)
LEMMA EmptyChannel == SetOf(<<>>) = {} /\ Once(<<>>)
  BY DEF SetOf, Once

-----------------------------------------------------------------------------
(* The type invariant. *)

(* The node's maps, channels and tables start empty and well typed. *)
LEMMA InitTypeOK == Init => TypeOK
  BY HashAssumption, TransactionAssumption
  DEF Init, TypeOK, Labels, Answers, Outcomes

(* Facts about the transactions that the constants' assumptions give. *)
LEMMA RequestFacts ==
    ASSUME NEW r \in Requests
    PROVE  /\ HashOf[r] \in Hash
           /\ HashOf[r] \in Nat
           /\ InputsOf(r) \in Seq(UtxoIds)
           /\ OutputsOf(r) \in Seq(UtxoIds)
           /\ SetOf(InputsOf(r)) \subseteq UtxoIds
  BY HashAssumption, TransactionAssumption, SetOfSeq, Zenon DEF InputsOf, OutputsOf

(* The outputs of a transaction are different, and carry its hash. *)
LEMMA OutputFacts ==
    ASSUME NEW h \in Hash
    PROVE  /\ Once(Outputs[h])
           /\ \A u \in SetOf(Outputs[h]) : u.transaction_hash = h
<1>1. \A i \in DOMAIN Outputs[h] : Outputs[h][i].transaction_hash = h
  BY LedgerAssumption
<1>2. Once(Outputs[h])
  BY LedgerAssumption DEF Once
<1> QED
  BY <1>1, <1>2 DEF SetOf

(* The conflicts a request meets on its inputs are requests. *)
LEMMA RivalsAreRequests ==
    ASSUME TypeOK, NEW r \in Requests
    PROVE  /\ Rivals(r) \subseteq Requests
           /\ \A u \in UtxoIds : Pool(u) \subseteq Requests
<1>1. \A u \in UtxoIds : Pool(u) \subseteq Requests
  BY SetOfSeq DEF TypeOK, Pool
<1> QED
  BY <1>1, RequestFacts DEF Rivals

(* send_err to the channels of some requests keeps the channels' type. *)
LEMMA SendType ==
    ASSUME TypeOK, NEW receivers, NEW m \in Messages, Send(receivers, m)
    PROVE  inbox' \in [Requests -> Seq(Messages)]
  BY DEF TypeOK, Send

(* Queueing the inputs that only peers knew keeps the queue's type. *)
LEMMA QueueUnknownType ==
    ASSUME TypeOK, NEW r \in Requests, pc[r] \in {"resolve", "revalidate"},
           QueueUnknown(r)
    PROVE  unknown_resolved_inputs' \subseteq
             Requests \X {"resolve", "revalidate"} \X UtxoIds
<1>1. \A i \in DOMAIN InputsOf(r) : InputsOf(r)[i] \in UtxoIds
  BY RequestFacts
<1> QED
  BY <1>1 DEF TypeOK, QueueUnknown

(* Answering a request keeps the types of pc, response and channels. *)
LEMMA FinishType ==
    ASSUME TypeOK, NEW r \in Requests, NEW answer \in Answers, Finish(r, answer)
    PROVE  /\ pc' \in [Requests -> Labels]
           /\ response' \in [Requests -> Answers]
           /\ transaction_channels' \subseteq Hash
  BY DEF TypeOK, Finish, Labels

(* Moving a request to its next await keeps the type of pc. *)
LEMMA GotoType ==
    ASSUME TypeOK, NEW r \in Requests, NEW label \in Labels, Goto(r, label)
    PROVE  /\ pc' \in [Requests -> Labels]
           /\ response' \in [Requests -> Answers]
           /\ transaction_channels' \subseteq Hash
  BY DEF TypeOK, Goto

(* Every step of a request keeps every variable's type. *)
LEMMA NextTypeOK == TypeOK /\ [Next]_vars => TypeOK'
<1> SUFFICES ASSUME TypeOK, [Next]_vars
             PROVE  TypeOK'
  OBVIOUS
<1> USE DEF store
<1>1. ASSUME NEW r \in Requests, Receive(r)
      PROVE  TypeOK'
  BY <1>1, GotoType DEF Receive, TypeOK, Labels
<1>2. ASSUME NEW r \in Requests, Validate(r)
      PROVE  TypeOK'
  BY <1>2, FinishType, RequestFacts, Zenon DEF Validate, TypeOK, Labels, Answers
<1>3. ASSUME NEW r \in Requests, NEW u \in UtxoIds, ResolveInput(r, u)
      PROVE  TypeOK'
  BY <1>3 DEF ResolveInput, ResolveOutcomes, TypeOK, Outcomes
<1>4. ASSUME NEW r \in Requests, ResolveFails(r)
      PROVE  TypeOK'
  BY <1>4, FinishType, QueueUnknownType, Zenon
  DEF ResolveFails, ForgetResolution, TypeOK, Answers, Outcomes
<1>5. ASSUME NEW r \in Requests, Register(r)
      PROVE  TypeOK'
  <2>1. Conflict(r, FALSE) \in Messages
    BY DEF Conflict, Messages
  <2>2. utxo_channels' \in [UtxoIds -> Seq(Requests)]
    BY <1>5 DEF Register, TypeOK
  <2> QED
    BY <1>5, <2>1, <2>2, GotoType, QueueUnknownType, SendType, RivalsAreRequests, Zenon
    DEF Register, ForgetResolution, TypeOK, Labels, Outcomes
<1>6. ASSUME NEW r \in Requests, Revalidate(r)
      PROVE  TypeOK'
  BY <1>6, GotoType, QueueUnknownType, Zenon
  DEF Revalidate, SignUnlessConflict, ForgetResolution, TypeOK, Labels, Outcomes
<1>7. ASSUME NEW r \in Requests, ObservePending(r)
      PROVE  TypeOK'
  BY <1>7, GotoType DEF ObservePending, Observe, TypeOK, Labels
<1>8. ASSUME NEW r \in Requests, Gossip(r)
      PROVE  TypeOK'
  BY <1>8, GotoType DEF Gossip, TypeOK, Labels
<1>9. ASSUME NEW r \in Requests, ReceiveConflict(r)
      PROVE  TypeOK'
  <2>1. /\ Head(inbox[r]) \in Messages
        /\ Tail(inbox[r]) \in Seq(Messages)
    BY <1>9, SetOfTail DEF ReceiveConflict, TypeOK
  <2>2. Head(inbox[r]).from \in Requests
    BY <2>1 DEF Messages
  <2>3. inbox' \in [Requests -> Seq(Messages)]
    BY <1>9, <2>1 DEF ReceiveConflict, TypeOK
  <2>4. CASE Head(inbox[r]).abort
    BY <1>9, <2>3, <2>4, FinishType, Zenon DEF ReceiveConflict, TypeOK, Answers
  <2>5. CASE ~Head(inbox[r]).abort
    <3>1. conflicts' = [conflicts EXCEPT ![r] = @ \cup {Head(inbox[r]).from}]
      BY <1>9, <2>5 DEF ReceiveConflict
    <3>2. conflicts' \in [Requests -> SUBSET Requests]
      BY <2>2, <3>1 DEF TypeOK
    <3>3. UNCHANGED <<pc, response, transaction_channels>>
      BY <1>9, <2>5 DEF ReceiveConflict
    <3> QED
      BY <1>9, <2>3, <3>2, <3>3 DEF ReceiveConflict, TypeOK
  <2> QED
    BY <2>4, <2>5
<1>10. ASSUME NEW r \in Requests, CloseWindow(r)
       PROVE  TypeOK'
  BY <1>10, GotoType DEF CloseWindow, TypeOK, Labels
<1>11. ASSUME NEW r \in Requests, Decide(r)
       PROVE  TypeOK'
  <2>1. Conflict(r, TRUE) \in Messages
    BY DEF Conflict, Messages
  <2> QED
    BY <1>11, <2>1, FinishType, GotoType, SendType, Zenon DEF Decide, TypeOK, Labels, Answers
<1>12. ASSUME NEW r \in Requests, ObserveAccepted(r)
       PROVE  TypeOK'
  BY <1>12, GotoType DEF ObserveAccepted, Observe, TypeOK, Labels
<1>13. ASSUME NEW r \in Requests, InsertTransactionRaw(r)
       PROVE  TypeOK'
  BY <1>13, GotoType, RequestFacts, Zenon DEF InsertTransactionRaw, TypeOK, Labels
<1>14. ASSUME NEW r \in Requests, InsertUtxo(r)
       PROVE  TypeOK'
  <2>1. Head(todo[r]) \in UtxoIds /\ Tail(todo[r]) \in Seq(UtxoIds)
    BY <1>14, SetOfTail DEF InsertUtxo, TypeOK
  <2>2. CASE Head(todo[r]) \in utxo
    <3>1. /\ Finish(r, "error")
          /\ todo' = [todo EXCEPT ![r] = <<>>]
          /\ UNCHANGED utxo
      BY <1>14, <2>2 DEF InsertUtxo
    <3>2. todo' \in [Requests -> Seq(UtxoIds)]
      BY <3>1 DEF TypeOK
    <3> QED
      BY <1>14, <3>1, <3>2, FinishType DEF InsertUtxo, TypeOK, Answers
  <2>3. CASE Head(todo[r]) \notin utxo
    <3>1. /\ utxo' = utxo \cup {Head(todo[r])}
          /\ todo' = [todo EXCEPT ![r] = Tail(@)]
          /\ UNCHANGED <<pc, response, transaction_channels>>
      BY <1>14, <2>3 DEF InsertUtxo
    <3>2. todo' \in [Requests -> Seq(UtxoIds)] /\ utxo' \subseteq UtxoIds
      BY <2>1, <3>1 DEF TypeOK
    <3> QED
      BY <1>14, <3>1, <3>2 DEF InsertUtxo, TypeOK
  <2> QED
    BY <2>2, <2>3
<1>15. ASSUME NEW r \in Requests, InsertTransactionEdge(r)
       PROVE  TypeOK'
  <2>1. Head(todo[r]) \in UtxoIds /\ Tail(todo[r]) \in Seq(UtxoIds)
    BY <1>15, SetOfTail DEF InsertTransactionEdge, TypeOK
  <2> QED
    BY <1>15, <2>1, RequestFacts DEF InsertTransactionEdge, EdgeTo, TypeOK
<1>16. ASSUME NEW r \in Requests, DeleteUtxo(r)
       PROVE  TypeOK'
  <2>1. Tail(todo[r]) \in Seq(UtxoIds)
    BY <1>16, SetOfTail DEF DeleteUtxo, TypeOK
  <2> QED
    BY <1>16, <2>1 DEF DeleteUtxo, TypeOK
<1>17. ASSUME NEW r \in Requests, NextLoop(r)
       PROVE  TypeOK'
  BY <1>17, GotoType, RequestFacts, Zenon DEF NextLoop, TypeOK, Labels
<1>18. ASSUME NEW r \in Requests, Respond(r)
       PROVE  TypeOK'
  BY <1>18, FinishType, Zenon DEF Respond, TypeOK, Answers
<1>19. ASSUME NEW r \in Requests, Fault(r)
       PROVE  TypeOK'
  BY <1>19, FinishType DEF Fault, Observe, ForgetResolution, TypeOK, Answers, Outcomes
<1>20. CASE UNCHANGED vars
  BY <1>20 DEF vars, TypeOK
<1> QED
  BY <1>1, <1>2, <1>3, <1>4, <1>5, <1>6, <1>7, <1>8, <1>9, <1>10, <1>11, <1>12,
     <1>13, <1>14, <1>15, <1>16, <1>17, <1>18, <1>19, <1>20
  DEF Next, Progress, Idle

(* Every variable keeps its type. *)
THEOREM TypeCorrect == Spec => []TypeOK
  BY InitTypeOK, NextTypeOK, PTL DEF Spec

-----------------------------------------------------------------------------
(* What a step of r leaves alone. *)
OthersKept(r) ==
    \A q \in Requests \ {r} :
        /\ pc'[q] = pc[q]
        /\ response'[q] = response[q]
        /\ resolution'[q] = resolution[q]
        /\ todo'[q] = todo[q]
        /\ Signed(q, "Accepted")' <=> Signed(q, "Accepted")

(* The steps of a request before its commit, by what they do to it. *)
Begins(r) ==
    /\ pc[r] \in {"idle", "validate"}
    /\ pc'[r] \in {"validate", "resolve"}
    /\ UNCHANGED <<response, resolution, todo, observation, store, unknown_resolved_inputs>>

Looks(r) ==
    /\ pc[r] \in {"resolve", "revalidate"}
    /\ UNCHANGED <<pc, response, todo, observation, store, unknown_resolved_inputs>>
    /\ \E u \in SetOf(InputsOf(r)) :
          /\ resolution'[r][u] \in ResolveOutcomes(u)
          /\ \A v \in UtxoIds \ {u} : resolution'[r][v] = resolution[r][v]

Passes(r) ==
    /\ pc[r] \in {"resolve", "revalidate"}
    /\ pc'[r] \in {"revalidate", "pending", "gossip"}
    /\ \A u \in SetOf(InputsOf(r)) :
          \/ resolution[r][u] = "internal"
          \/ resolution[r][u] = "peers" /\ <<r, pc[r], u>> \in unknown_resolved_inputs'
    /\ \A u \in UtxoIds : resolution'[r][u] = "none"
    /\ unknown_resolved_inputs \subseteq unknown_resolved_inputs'
    /\ UNCHANGED <<response, todo, observation, store>>

Waits(r) ==
    /\ pc[r] \in {"pending", "gossip", "wait", "decide"}
    /\ pc'[r] \in {"gossip", "wait", "decide", "accept"}
    /\ Signed(r, "Accepted")' <=> Signed(r, "Accepted")
    /\ UNCHANGED <<response, resolution, todo, store, unknown_resolved_inputs>>

(* A request ends without an accepted answer. *)
Ends(r) ==
    /\ pc[r] # "done"
    /\ pc'[r] = "done"
    /\ response'[r] # "ok" \/ UNCHANGED response
    /\ Signed(r, "Accepted")' => Signed(r, "Accepted") \/ pc[r] = "accept"
    /\ \A u \in UtxoIds : resolution'[r][u] \in {"none", resolution[r][u]}
    /\ unknown_resolved_inputs \subseteq unknown_resolved_inputs'
    /\ UNCHANGED store

Inserts(r) ==
    /\ InsertUtxo(r)
    /\ Head(todo[r]) \notin utxo
    /\ utxo' = utxo \cup {Head(todo[r])}
    /\ todo'[r] = Tail(todo[r])
    /\ UNCHANGED <<pc, response>>

(* The steps of a request, and that each touches only its own state. *)
LEMMA StepKinds ==
    ASSUME TypeOK, NEW r \in Requests, Receive(r) \/ Progress(r) \/ Fault(r)
    PROVE  /\ OthersKept(r)
           /\ \/ Begins(r) \/ Looks(r) \/ Passes(r) \/ Waits(r) \/ Ends(r)
              \/ ObserveAccepted(r) \/ InsertTransactionRaw(r) \/ Inserts(r)
              \/ InsertTransactionEdge(r) \/ DeleteUtxo(r) \/ NextLoop(r) \/ Respond(r)
<1> USE DEF TypeOK, store
<1>0. SetOf(InputsOf(r)) \subseteq UtxoIds
  BY RequestFacts
<1>1. CASE Receive(r)
  BY <1>1 DEF Receive, Goto, OthersKept, Begins, Ends, Signed
<1>2. CASE Validate(r)
  <2>1. CASE Finish(r, "invalid") \/ Finish(r, "duplicate")
    <3>1. OthersKept(r)
      BY <1>2, <2>1 DEF Validate, Finish, OthersKept, Signed
    <3>2. Ends(r)
      BY <1>2, <2>1 DEF Validate, Finish, Ends, Signed
    <3> QED
      BY <3>1, <3>2
  <2>2. CASE pc' = [pc EXCEPT ![r] = "resolve"] /\ UNCHANGED response
    BY <1>2, <2>2 DEF Validate, OthersKept, Begins, Signed
  <2> QED
    BY <1>2, <2>1, <2>2 DEF Validate
<1>3. ASSUME NEW u \in UtxoIds, ResolveInput(r, u)
      PROVE  OthersKept(r) /\ Looks(r)
  <2>1. PICK outcome \in ResolveOutcomes(u) :
          resolution' = [resolution EXCEPT ![r][u] = outcome]
    BY <1>3 DEF ResolveInput
  <2>2. /\ resolution'[r][u] = outcome
        /\ \A v \in UtxoIds \ {u} : resolution'[r][v] = resolution[r][v]
        /\ \A q \in Requests \ {r} : resolution'[q] = resolution[q]
    BY <2>1
  <2>3. OthersKept(r)
    BY <1>3, <2>2 DEF ResolveInput, OthersKept, Signed
  <2>4. Looks(r)
    BY <1>3, <2>2 DEF ResolveInput, Looks
  <2> QED
    BY <2>3, <2>4
<1>4. ASSUME ForgetResolution(r)
      PROVE  /\ \A u \in UtxoIds : resolution'[r][u] = "none"
             /\ \A q \in Requests \ {r} : resolution'[q] = resolution[q]
  BY <1>4 DEF ForgetResolution
<1>5. CASE ResolveFails(r)
  <2>1. OthersKept(r)
    BY <1>4, <1>5 DEF ResolveFails, Finish, OthersKept, Signed
  <2>2. Ends(r)
    BY <1>4, <1>5 DEF ResolveFails, Finish, QueueUnknown, Ends, Signed
  <2> QED
    BY <2>1, <2>2
<1>6. ASSUME pc[r] \in {"resolve", "revalidate"}, Joined(r), Resolves(r), QueueUnknown(r)
      PROVE  /\ unknown_resolved_inputs \subseteq unknown_resolved_inputs'
             /\ \A u \in SetOf(InputsOf(r)) :
                   \/ resolution[r][u] = "internal"
                   \/ resolution[r][u] = "peers" /\ <<r, pc[r], u>> \in unknown_resolved_inputs'
  <2>1. unknown_resolved_inputs \subseteq unknown_resolved_inputs'
    BY <1>6 DEF QueueUnknown
  <2>2. ASSUME NEW u \in SetOf(InputsOf(r)), resolution[r][u] # "internal"
        PROVE  resolution[r][u] = "peers" /\ <<r, pc[r], u>> \in unknown_resolved_inputs'
    <3>1. resolution[r][u] = "peers"
      BY <1>0, <1>6, <2>2 DEF Joined, Resolves, Outcomes
    <3>2. PICK k \in DOMAIN InputsOf(r) : InputsOf(r)[k] = u
      BY DEF SetOf
    <3>3. \A j \in 1..(k - 1) : resolution[r][InputsOf(r)[j]] # "err"
      <4>1. DOMAIN InputsOf(r) = 1..Len(InputsOf(r)) /\ Len(InputsOf(r)) \in Nat
        BY RequestFacts
      <4>2. \A j \in 1..(k - 1) : j \in DOMAIN InputsOf(r)
        BY <4>1
      <4> QED
        BY <1>6, <4>2 DEF Resolves, SetOf
    <3> QED
      BY <1>6, <3>1, <3>2, <3>3 DEF QueueUnknown
  <2> QED
    BY <2>1, <2>2
<1>7. CASE Register(r) \/ Revalidate(r)
  <2>1. OthersKept(r)
    BY <1>4, <1>7 DEF Register, Revalidate, Goto, OthersKept, Signed
  <2>2. pc[r] \in {"resolve", "revalidate"} /\ pc'[r] \in {"revalidate", "pending", "gossip"}
    BY <1>7 DEF Register, Revalidate, Goto, SignUnlessConflict
  <2>3. Joined(r) /\ Resolves(r) /\ QueueUnknown(r) /\ ForgetResolution(r)
    BY <1>7 DEF Register, Revalidate
  <2>4. UNCHANGED <<response, todo, observation, store>>
    BY <1>7 DEF Register, Revalidate, Goto
  <2>5. Passes(r)
    BY <1>4, <1>6, <2>2, <2>3, <2>4 DEF Passes
  <2> QED
    BY <2>1, <2>5
<1>8. CASE ObservePending(r) \/ Gossip(r) \/ CloseWindow(r)
  <2>1. OthersKept(r)
    BY <1>8 DEF ObservePending, Observe, Gossip, CloseWindow, Goto, OthersKept, Signed
  <2>2. Waits(r)
    BY <1>8 DEF ObservePending, Observe, Gossip, CloseWindow, Goto, Waits, Signed
  <2> QED
    BY <2>1, <2>2
<1>9. CASE ReceiveConflict(r)
  <2>1. UNCHANGED <<resolution, todo, observation, store, unknown_resolved_inputs>> /\ pc[r] = "wait"
    BY <1>9 DEF ReceiveConflict
  <2>2. CASE Finish(r, "aborted")
    BY <2>1, <2>2 DEF Finish, OthersKept, Ends, Signed
  <2>3. CASE UNCHANGED <<pc, response>>
    BY <2>1, <2>3 DEF OthersKept, Waits, Signed
  <2> QED
    BY <1>9, <2>2, <2>3 DEF ReceiveConflict
<1>10. CASE Decide(r)
  <2>1. UNCHANGED <<resolution, todo, observation, store, unknown_resolved_inputs>> /\ pc[r] = "decide"
    BY <1>10 DEF Decide
  <2>2. CASE Finish(r, "lost")
    BY <2>1, <2>2 DEF Finish, OthersKept, Ends, Signed
  <2>3. CASE Goto(r, "accept")
    BY <2>1, <2>3 DEF Goto, OthersKept, Waits, Signed
  <2> QED
    BY <1>10, <2>2, <2>3 DEF Decide
<1>11. CASE ObserveAccepted(r)
  BY <1>11 DEF ObserveAccepted, Observe, Goto, OthersKept, Signed
<1>12. CASE InsertTransactionRaw(r) \/ InsertTransactionEdge(r) \/ DeleteUtxo(r)
  BY <1>12 DEF InsertTransactionRaw, InsertTransactionEdge, DeleteUtxo, Goto, OthersKept, Signed
<1>13. CASE NextLoop(r) \/ Respond(r)
  BY <1>13 DEF NextLoop, Respond, Goto, Finish, OthersKept, Signed
<1>14. CASE InsertUtxo(r)
  <2>1. UNCHANGED <<resolution, observation, transactions, transaction_edge,
                    unknown_resolved_inputs>> /\ pc[r] = "outputs"
    BY <1>14 DEF InsertUtxo
  <2>2. CASE Head(todo[r]) \in utxo
    <3>1. Finish(r, "error") /\ todo' = [todo EXCEPT ![r] = <<>>] /\ UNCHANGED utxo
      BY <1>14, <2>2 DEF InsertUtxo
    <3> QED
      BY <2>1, <3>1 DEF Finish, OthersKept, Ends, Signed
  <2>3. CASE Head(todo[r]) \notin utxo
    <3>1. /\ utxo' = utxo \cup {Head(todo[r])}
          /\ todo' = [todo EXCEPT ![r] = Tail(@)]
          /\ UNCHANGED <<pc, response>>
      BY <1>14, <2>3 DEF InsertUtxo
    <3>2. OthersKept(r)
      BY <2>1, <3>1 DEF OthersKept, Signed
    <3>3. Inserts(r)
      BY <1>14, <2>1, <2>3, <3>1 DEF Inserts
    <3> QED
      BY <3>2, <3>3
  <2> QED
    BY <2>2, <2>3
<1>15. CASE Fault(r)
  <2>1. OthersKept(r)
    <3>1. \A q \in Requests \ {r} : Signed(q, "Accepted")' <=> Signed(q, "Accepted")
      BY <1>15 DEF Fault, Observe, Signed
    <3>2. \A q \in Requests \ {r} : /\ pc'[q] = pc[q] /\ response'[q] = response[q]
                                    /\ todo'[q] = todo[q] /\ resolution'[q] = resolution[q]
      BY <1>4, <1>15 DEF Fault, Finish
    <3> QED
      BY <3>1, <3>2 DEF OthersKept
  <2>2. Ends(r)
    BY <1>4, <1>15 DEF Fault, MayFail, Finish, Observe, Ends, Signed
  <2> QED
    BY <2>1, <2>2
<1> QED
  BY <1>1, <1>2, <1>3, <1>5, <1>7, <1>8, <1>9, <1>10, <1>11, <1>12, <1>13, <1>14, <1>15
  DEF Progress

-----------------------------------------------------------------------------
(* The loops of the commit. *)

(* The output v is in the utxo table, or an edge says who spent it. *)
Known(v) == v \in utxo \/ transaction_edge[v] # {}

(* What the commit of r has written so far. *)
RowsOf(r) ==
    /\ pc[r] \in {"outputs", "edges", "delete", "collect"} => HashOf[r] \in transactions
    /\ pc[r] = "outputs" => /\ SetOf(todo[r]) \subseteq SetOf(OutputsOf(r))
                            /\ \A v \in SetOf(OutputsOf(r)) \ SetOf(todo[r]) : Known(v)
    /\ pc[r] \in {"edges", "delete", "collect"} => \A v \in SetOf(OutputsOf(r)) : Known(v)
    /\ pc[r] \in {"edges", "delete"} => SetOf(todo[r]) \subseteq SetOf(InputsOf(r))
    /\ pc[r] = "edges" =>
          \A u \in SetOf(InputsOf(r)) \ SetOf(todo[r]) : transaction_edge[u] # {}
    /\ pc[r] \in {"delete", "collect"} =>
          \A u \in SetOf(InputsOf(r)) : transaction_edge[u] # {}
    /\ response[r] = "ok" => /\ pc[r] = "done"
                             /\ HashOf[r] \in transactions
                             /\ \A v \in SetOf(OutputsOf(r)) : Known(v)
                             /\ \A u \in SetOf(InputsOf(r)) : transaction_edge[u] # {}

CommitRows == \A r \in Requests : RowsOf(r)

(* The tables of a step lose nothing, except unspent rows with an edge. *)
Grows ==
    /\ transactions \subseteq transactions'
    /\ \A u \in UtxoIds : transaction_edge[u] # {} => transaction_edge'[u] # {}
    /\ \A u \in UtxoIds : Known(u) => Known(u)'

(* The rows of a transaction are utxo ids. *)
LEMMA RowTypes ==
    ASSUME NEW r \in Requests
    PROVE  /\ SetOf(InputsOf(r)) \subseteq UtxoIds
           /\ SetOf(OutputsOf(r)) \subseteq UtxoIds
  BY RequestFacts, SetOfSeq

(* A step of a request only adds to the tables: a row that it deletes has  *)
(* an edge by then.                                                        *)
LEMMA StepGrows ==
    ASSUME TypeOK, CommitRows, NEW r \in Requests, Receive(r) \/ Progress(r) \/ Fault(r)
    PROVE  Grows
<1> USE DEF store
<1>1. CASE UNCHANGED store
  BY <1>1 DEF Grows, Known
<1>2. CASE InsertTransactionRaw(r) \/ Inserts(r)
  BY <1>2 DEF InsertTransactionRaw, Inserts, InsertUtxo, Grows, Known
<1>3. CASE InsertTransactionEdge(r)
  <2>1. \A u \in UtxoIds : transaction_edge'[u] \in {transaction_edge[u], {EdgeTo(r)}}
    BY <1>3 DEF InsertTransactionEdge, TypeOK
  <2> QED
    BY <1>3, <2>1 DEF InsertTransactionEdge, Grows, Known
<1>4. CASE DeleteUtxo(r)
  <2>1. Head(todo[r]) \in SetOf(todo[r])
    BY <1>4, SetOfTail DEF DeleteUtxo, TypeOK
  <2>2. transaction_edge[Head(todo[r])] # {}
    BY <1>4, <2>1 DEF DeleteUtxo, CommitRows, RowsOf
  <2> QED
    BY <1>4, <2>2 DEF DeleteUtxo, Grows, Known
<1> QED
  BY <1>1, <1>2, <1>3, <1>4, StepKinds
  DEF Begins, Looks, Passes, Waits, Ends, ObserveAccepted, NextLoop, Respond

(* What a commit has written stays when the tables only grow. *)
LEMMA RowsStay ==
    ASSUME NEW q \in Requests, Grows, RowsOf(q),
           pc'[q] = pc[q], response'[q] = response[q], todo'[q] = todo[q]
    PROVE  RowsOf(q)'
<1>1. /\ \A v \in SetOf(OutputsOf(q)) : Known(v) => Known(v)'
      /\ \A u \in SetOf(InputsOf(q)) : transaction_edge[u] # {} => transaction_edge'[u] # {}
      /\ transactions \subseteq transactions'
  BY RowTypes DEF Grows
<1> QED
  BY <1>1 DEF RowsOf

(* Each statement of a commit does its part of it. *)
LEMMA StepCommitRows ==
    ASSUME TypeOK, CommitRows, NEW r \in Requests, Receive(r) \/ Progress(r) \/ Fault(r)
    PROVE  CommitRows'
<1> USE DEF store
<1>1. Grows /\ OthersKept(r)
  BY StepGrows, StepKinds
<1>2. ASSUME NEW q \in Requests \ {r} PROVE RowsOf(q)'
  BY <1>1, <1>2, RowsStay DEF OthersKept, CommitRows
<1> SUFFICES RowsOf(r)'
  BY <1>2 DEF CommitRows
<1>3. RowsOf(r)
  BY DEF CommitRows
<1>4. /\ \A v \in SetOf(OutputsOf(r)) : Known(v) => Known(v)'
      /\ \A u \in SetOf(InputsOf(r)) : transaction_edge[u] # {} => transaction_edge'[u] # {}
      /\ transactions \subseteq transactions'
  BY <1>1, RowTypes DEF Grows
<1>5. CASE Begins(r) \/ Looks(r) \/ Passes(r) \/ Waits(r)
  BY <1>3, <1>5 DEF Begins, Looks, Passes, Waits, RowsOf
<1>6. CASE Ends(r)
  BY <1>3, <1>4, <1>6 DEF Ends, RowsOf
<1>7. CASE ObserveAccepted(r)
  BY <1>3, <1>7 DEF ObserveAccepted, Goto, TypeOK, RowsOf
<1>8. CASE InsertTransactionRaw(r)
  <2>1. /\ pc[r] = "insert" /\ pc'[r] = "outputs" /\ UNCHANGED response
        /\ HashOf[r] \in transactions' /\ todo'[r] = OutputsOf(r)
    BY <1>8 DEF InsertTransactionRaw, Goto, TypeOK
  <2> QED
    BY <1>3, <2>1 DEF RowsOf
<1>9. CASE Inserts(r)
  <2>1. /\ pc[r] = "outputs" /\ UNCHANGED <<pc, response>>
        /\ Head(todo[r]) \in utxo' /\ todo'[r] = Tail(todo[r])
        /\ SetOf(todo[r]) = SetOf(Tail(todo[r])) \cup {Head(todo[r])}
    BY <1>9, SetOfTail DEF Inserts, InsertUtxo, TypeOK
  <2>2. \A v \in SetOf(OutputsOf(r)) \ SetOf(todo'[r]) : Known(v)'
    BY <1>3, <1>4, <2>1 DEF RowsOf, Known
  <2> QED
    BY <1>3, <1>4, <2>1, <2>2 DEF RowsOf
<1>10. CASE InsertTransactionEdge(r)
  <2>1. /\ pc[r] = "edges" /\ UNCHANGED <<pc, response>>
        /\ todo'[r] = Tail(todo[r])
        /\ SetOf(todo[r]) = SetOf(Tail(todo[r])) \cup {Head(todo[r])}
    BY <1>10, SetOfTail DEF InsertTransactionEdge, TypeOK
  <2>2. transaction_edge'[Head(todo[r])] # {}
    <3>1. Head(todo[r]) \in UtxoIds
      BY <1>10, SetOfTail DEF InsertTransactionEdge, TypeOK
    <3> QED
      BY <1>10, <3>1 DEF InsertTransactionEdge, TypeOK
  <2>3. \A u \in SetOf(InputsOf(r)) \ SetOf(todo'[r]) : transaction_edge'[u] # {}
    BY <1>3, <1>4, <2>1, <2>2 DEF RowsOf
  <2> QED
    BY <1>3, <1>4, <2>1, <2>3 DEF RowsOf
<1>11. CASE DeleteUtxo(r)
  <2>1. /\ pc[r] = "delete" /\ UNCHANGED <<pc, response>>
        /\ todo'[r] = Tail(todo[r])
        /\ SetOf(todo[r]) = SetOf(Tail(todo[r])) \cup {Head(todo[r])}
    BY <1>11, SetOfTail DEF DeleteUtxo, TypeOK
  <2> QED
    BY <1>3, <1>4, <2>1 DEF RowsOf
<1>12. CASE NextLoop(r)
  <2>1. todo[r] = <<>> /\ SetOf(todo[r]) = {} /\ UNCHANGED response
    BY <1>12, EmptyChannel DEF NextLoop, Goto
  <2>2. \/ pc[r] = "outputs" /\ pc'[r] = "edges" /\ todo'[r] = InputsOf(r)
        \/ pc[r] = "edges" /\ pc'[r] = "delete" /\ todo'[r] = InputsOf(r)
        \/ pc[r] = "delete" /\ pc'[r] = "collect"
    BY <1>12 DEF NextLoop, Goto, TypeOK
  <2> QED
    BY <1>3, <1>4, <2>1, <2>2 DEF RowsOf
<1>13. CASE Respond(r)
  <2>1. pc[r] = "collect" /\ pc'[r] = "done"
    BY <1>13 DEF Respond, Finish, TypeOK
  <2> QED
    BY <1>3, <1>4, <2>1 DEF RowsOf
<1> QED
  BY <1>5, <1>6, <1>7, <1>8, <1>9, <1>10, <1>11, <1>12, <1>13, StepKinds

(* At the start nothing is being committed. *)
LEMMA InitCommitRows == Init => CommitRows
  BY DEF Init, CommitRows, RowsOf

(* The commits' rows are an invariant of the processor. *)
LEMMA AlwaysCommitRows == Spec => [](TypeOK /\ CommitRows)
<1>1. TypeOK /\ CommitRows /\ [Next]_vars => CommitRows'
  <2> SUFFICES ASSUME TypeOK, CommitRows, [Next]_vars PROVE CommitRows'
    OBVIOUS
  <2>1. CASE UNCHANGED vars
    BY <2>1 DEF vars, CommitRows, RowsOf, Known
  <2> QED
    BY <2>1, StepCommitRows DEF Next, Idle
<1> QED
  BY <1>1, InitTypeOK, InitCommitRows, NextTypeOK, PTL DEF Spec

(* A row that is new in the utxo table is an output of the request. *)
LEMMA NewRow ==
    ASSUME TypeOK, CommitRows, NEW r \in Requests, Receive(r) \/ Progress(r) \/ Fault(r),
           NEW u \in utxo', u \notin utxo
    PROVE  /\ Inserts(r)
           /\ u = Head(todo[r])
           /\ pc[r] = "outputs" /\ u \in SetOf(todo[r])
           /\ u \in SetOf(OutputsOf(r))
<1>1. utxo' # utxo
  OBVIOUS
<1>2. ~DeleteUtxo(r)
  BY DEF DeleteUtxo
<1>3. Inserts(r)
  BY <1>1, <1>2, StepKinds
  DEF store, Begins, Looks, Passes, Waits, Ends, ObserveAccepted, InsertTransactionRaw,
      InsertTransactionEdge, NextLoop, Respond
<1>4. u = Head(todo[r])
  BY <1>3 DEF Inserts
<1>5. pc[r] = "outputs" /\ u \in SetOf(todo[r])
  BY <1>3, <1>4, SetOfTail DEF Inserts, InsertUtxo, TypeOK
<1> QED
  BY <1>3, <1>4, <1>5 DEF CommitRows, RowsOf

(* The inputs of r have been resolved once. *)
Resolved == {"revalidate", "pending", "gossip", "wait", "decide", "accept", "insert",
             "outputs", "edges", "delete", "collect"}

=============================================================================

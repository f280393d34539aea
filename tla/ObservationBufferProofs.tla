----------------------- MODULE ObservationBufferProofs -----------------------
(***************************************************************************)
(* Proofs about the observation buffer, for any calls, hashes, restarts    *)
(* and root length: the node's own observations never fork, the buffer     *)
(* implements Signer, an answer has its edge, no call is forgotten, each   *)
(* observation is under one root, and only timeouts make the task fail.    *)
(***************************************************************************)
EXTENDS ObservationBuffer, FiniteSetTheorems, TLAPS

(* The elements of an observation that the results depend on. *)
Row(o) ==
    /\ o.height \in Nat
    /\ o.parent \in Nat
    /\ o.observations \in Seq(Calls)

(* Types, as far as the results depend on them. *)
Typed ==
    /\ call \in [Calls -> {"idle", "waiting", "answered", "timed_out", "lost"}]
    /\ reply \in [Calls -> Seq(Calls)]
    /\ observation_metadata \in Seq(Calls)
    /\ data \in Seq(Calls)
    /\ subscribers \in [Hash -> SUBSET Calls]
    /\ latest \in Nat
    /\ stage \in Stages
    /\ todo \in Seq(Calls)
    /\ Row(forming)
    /\ \A o \in observation : Row(o)

(* The stages between the tick and the answers. *)
Working == {"insert", "edges", "verify", "gossip", "respond"}

(* The chain reaches up to latest, or one further once the observation     *)
(* being formed is stored; of a task that ended, one or the other.         *)
Chain ==
    /\ \A o, p \in observation : o.height = p.height => o = p
    /\ \A o \in observation : o.height = o.parent + 1
    /\ Heights = 1..latest \/ Heights = 1..(latest + 1)
    /\ stage \in {"recv", "insert", "gossip", "respond"} => Heights = 1..latest
    /\ stage \in {"edges", "verify"} => Heights = 1..(latest + 1)
    /\ stage \in {"insert", "edges", "verify"} =>
          /\ forming.height = latest + 1
          /\ forming.parent = latest

(* Whatever moves through the buffer was asked for. *)
OnlyAsked ==
    \A c \in Range(observation_metadata) \cup Range(data)
               \cup Range(forming.observations) \cup Signed :
        call[c] # "idle"

(* A subscriber's metadata is waiting to be signed, or signed; so is that  *)
(* of a call with a proof in its channel, once it is there.                *)
SubscribersSigned ==
    /\ stage \in Working => data = <<>>
    /\ stage \in Working \ {"insert"} => Range(forming.observations) \subseteq Signed
    /\ \A h \in Hash : \A c \in subscribers[h] :
          \/ c \in Range(data) \cup Signed
          \/ stage \in {"insert"} \cup Ended /\ c \in Range(forming.observations)
    /\ \A c \in Calls : reply[c] # <<>> => c \in Signed

Inductive == Typed /\ Chain /\ OnlyAsked /\ SubscribersSigned

-----------------------------------------------------------------------------
(* Facts about sequences. *)

(* Buffering metadata adds it to what the buffer holds. *)
LEMMA RangeAppend ==
    ASSUME NEW S, NEW s \in Seq(S), NEW x \in S
    PROVE  Range(Append(s, x)) = Range(s) \cup {x}
<1>1. /\ DOMAIN Append(s, x) = 1..(Len(s) + 1)
      /\ DOMAIN s = 1..Len(s)
      /\ Len(s) \in Nat
  OBVIOUS
<1>2. /\ Append(s, x)[Len(s) + 1] = x
      /\ \A i \in 1..Len(s) : Append(s, x)[i] = s[i]
  OBVIOUS
<1>3. Range(Append(s, x)) \subseteq Range(s) \cup {x}
  BY <1>1, <1>2 DEF Range
<1>4. Range(s) \cup {x} \subseteq Range(Append(s, x))
  BY <1>1, <1>2 DEF Range
<1> QED
  BY <1>3, <1>4

(* Taking the first message leaves a part of the others. *)
LEMMA RangeTail ==
    ASSUME NEW S, NEW s \in Seq(S), s # <<>>
    PROVE  /\ Head(s) \in Range(s)
           /\ Head(s) \in S
           /\ Tail(s) \in Seq(S)
           /\ Range(Tail(s)) \subseteq Range(s)
<1>1. /\ DOMAIN Tail(s) = 1..(Len(s) - 1)
      /\ DOMAIN s = 1..Len(s)
      /\ Len(s) \in Nat \ {0}
      /\ Head(s) = s[1]
      /\ \A i \in 1..(Len(s) - 1) : Tail(s)[i] = s[i + 1]
  OBVIOUS
<1>2. Head(s) \in Range(s)
  BY <1>1 DEF Range
<1>3. Range(Tail(s)) \subseteq Range(s)
  BY <1>1 DEF Range
<1> QED
  BY <1>2, <1>3

(* What is taken first is in no other place, if nothing is there twice. *)
LEMMA RestTail ==
    ASSUME NEW S, NEW s \in Seq(S), s # <<>>
    PROVE  /\ \A x \in Range(s) : x = Head(s) \/ x \in Range(Tail(s))
           /\ IsInjective(s) => IsInjective(Tail(s)) /\ Head(s) \notin Range(Tail(s))
<1>1. /\ DOMAIN Tail(s) = 1..(Len(s) - 1)
      /\ DOMAIN s = 1..Len(s)
      /\ Len(s) \in Nat \ {0}
      /\ Head(s) = s[1]
      /\ \A i \in 1..(Len(s) - 1) : Tail(s)[i] = s[i + 1]
  OBVIOUS
<1>2. ASSUME NEW i \in 1..Len(s), i # 1
      PROVE  i - 1 \in 1..(Len(s) - 1) /\ s[i] = Tail(s)[i - 1]
  BY <1>1, <1>2
<1>3. ASSUME NEW x \in Range(s), x # Head(s)
      PROVE  x \in Range(Tail(s))
  <2>1. PICK i \in 1..Len(s) : x = s[i]
    BY <1>1, <1>3 DEF Range
  <2>2. i - 1 \in DOMAIN Tail(s) /\ x = Tail(s)[i - 1]
    BY <1>1, <1>2, <1>3, <2>1
  <2> QED
    BY <2>2 DEF Range
<1>4. ASSUME IsInjective(s)
      PROVE  IsInjective(Tail(s)) /\ Head(s) \notin Range(Tail(s))
  <2>1. \A i, j \in 1..Len(s) : s[i] = s[j] => i = j
    BY <1>1, <1>4 DEF IsInjective
  <2>2. \A i, j \in 1..(Len(s) - 1) : Tail(s)[i] = Tail(s)[j] => i = j
    BY <1>1, <2>1
  <2>3. \A i \in 1..(Len(s) - 1) : Tail(s)[i] # Head(s)
    BY <1>1, <2>1
  <2> QED
    BY <1>1, <2>2, <2>3 DEF IsInjective, Range
<1> QED
  BY <1>3, <1>4

(* Nothing is in an empty buffer, and only calls in a buffer of calls. *)
LEMMA RangeType ==
    /\ Range(<<>>) = {}
    /\ \A S : \A s \in Seq(S) : Range(s) \subseteq S
  BY DEF Range

(* A channel that a proof was sent to is not empty. *)
LEMMA AppendSome ==
    ASSUME NEW S, NEW s \in Seq(S), NEW x \in S
    PROVE  Append(s, x) # <<>>
  BY RangeAppend, RangeType

(* What is new is there once. *)
LEMMA AppendOnce ==
    ASSUME NEW S, NEW s \in Seq(S), NEW x \in S, IsInjective(s), x \notin Range(s)
    PROVE  IsInjective(Append(s, x))
<1>1. /\ DOMAIN Append(s, x) = 1..(Len(s) + 1)
      /\ DOMAIN s = 1..Len(s)
      /\ Len(s) \in Nat
      /\ Append(s, x)[Len(s) + 1] = x
      /\ \A i \in 1..Len(s) : Append(s, x)[i] = s[i] /\ s[i] # x
  BY DEF Range
<1>2. ASSUME NEW i \in DOMAIN Append(s, x), NEW j \in DOMAIN Append(s, x),
             Append(s, x)[i] = Append(s, x)[j]
      PROVE  i = j
  <2>1. CASE i = Len(s) + 1 \/ j = Len(s) + 1
    BY <1>1, <1>2, <2>1
  <2>2. CASE i # Len(s) + 1 /\ j # Len(s) + 1
    <3>1. i \in DOMAIN s /\ j \in DOMAIN s /\ s[i] = s[j]
      BY <1>1, <1>2, <2>2
    <3> QED
      BY <3>1 DEF IsInjective
  <2> QED
    BY <2>1, <2>2
<1> QED
  BY <1>2 DEF IsInjective

-----------------------------------------------------------------------------
(* Each part of the invariant is kept by each step. *)

(* Storing an observation signs what it holds, and only that. *)
LEMMA InsertSigns ==
    ASSUME Typed, insert_observation
    PROVE  Signed' = Signed \cup Range(forming.observations)
<1>1. Range(forming.observations) \subseteq Calls
  BY RangeType DEF Typed, Row
<1> QED
  BY <1>1 DEF insert_observation, Signed

(* ObservationBuffer::new finds the end of the chain. *)
LEMMA LatestIsLast ==
    ASSUME NEW n \in Nat, Heights = 1..n
    PROVE  LatestStored = n
<1>1. /\ n \in Heights \cup {0}
      /\ \A g \in Heights : g <= n
  OBVIOUS
<1>2. \A h \in Heights \cup {0} : (\A g \in Heights : g <= h) => h = n
  <2>1. SUFFICES ASSUME NEW h \in Heights \cup {0}, \A g \in Heights : g <= h
                 PROVE  h = n
    OBVIOUS
  <2>2. CASE n = 0
    BY <2>1, <2>2
  <2>3. CASE n # 0
    <3>1. n \in Heights
      BY <2>3
    <3> QED
      BY <2>1, <3>1
  <2> QED
    BY <2>2, <2>3
<1> QED
  BY <1>1, <1>2 DEF LatestStored

(* Every step keeps the types. *)
LEMMA StepTyped ==
    ASSUME Typed, Chain, [Next]_vars
    PROVE  Typed'
<1> USE BufferAssumption
<1>1. ASSUME NEW c \in Calls, Observe(c) \/ ReceiveProof(c) \/ TimeOut(c)
      PROVE  Typed'
  <2>1. CASE Observe(c)
    BY <2>1 DEF Observe, Typed, Row, bufferVars, tableVars
  <2>2. CASE ReceiveProof(c)
    BY <2>2 DEF ReceiveProof, Typed, Row, bufferVars, tableVars
  <2>3. CASE TimeOut(c)
    BY <2>3 DEF TimeOut, Typed, Row, bufferVars, tableVars
  <2> QED
    BY <1>1, <2>1, <2>2, <2>3
<1>2. CASE process_incoming
  <2>1. /\ Head(observation_metadata) \in Calls
        /\ Tail(observation_metadata) \in Seq(Calls)
    BY <1>2, RangeTail DEF process_incoming, Typed
  <2> QED
    BY <1>2, <2>1 DEF process_incoming, Typed, Row, callVars, tableVars
<1>3. CASE form_observation
  BY <1>3 DEF form_observation, Typed, Row, callVars, tableVars, Stages
<1>4. CASE insert_observation
  BY <1>4 DEF insert_observation, Typed, Row, callVars, bufferVars, Stages
<1>5. CASE insert_observation_edge
  <2>1. Tail(todo) \in Seq(Calls)
    BY <1>5, RangeTail DEF insert_observation_edge, Typed
  <2> QED
    BY <1>5, <2>1 DEF insert_observation_edge, Typed, Row, callVars, bufferVars
<1>6. CASE InsertDone \/ VerifyStored \/ gossip_req \/ RespondDone \/ Stop
  BY <1>6 DEF InsertDone, VerifyStored, gossip_req, RespondDone, Stop, Typed,
              Row, callVars, bufferVars, tableVars, Stages
<1>7. CASE Respond
  <2>1. /\ Head(todo) \in Calls
        /\ Tail(todo) \in Seq(Calls)
    BY <1>7, RangeTail DEF Respond, Typed
  <2>2. reply' \in [Calls -> Seq(Calls)] /\ todo' \in Seq(Calls)
    <3>1. \A c \in Calls : Append(reply[c], Head(todo)) \in Seq(Calls)
      BY <2>1 DEF Typed
    <3>2. PICK subs : \/ /\ reply' = [c \in Calls |-> IF c \in subs
                                                  THEN Append(reply[c], Head(todo))
                                                  ELSE reply[c]]
                         /\ todo' = Tail(todo)
                      \/ UNCHANGED <<reply, todo>>
      BY <1>7, Zenon DEF Respond
    <3>3. \A c \in Calls : reply[c] \in Seq(Calls)
      BY DEF Typed
    <3> QED
      BY <2>1, <3>1, <3>2, <3>3 DEF Typed
  <2>3. stage' \in Stages
    BY <1>7 DEF Respond, Typed, Stages
  <2> QED
    BY <1>7, <2>2, <2>3 DEF Respond, Typed, Row, bufferVars, tableVars
<1>8. CASE Restart
  <2>1. LatestStored \in Nat
    BY LatestIsLast DEF Chain, Typed
  <2> QED
    BY <1>8, <2>1 DEF Restart, Typed, Row, NoObservation, tableVars, Stages
<1>9. CASE UNCHANGED vars
  BY <1>9 DEF vars, Typed, Row, callVars, bufferVars, tableVars
<1> QED
  BY <1>1, <1>2, <1>3, <1>4, <1>5, <1>6, <1>7, <1>8, <1>9
  DEF Next, Task, IdleTick, Halted

(* The chain grows by one observation on top of its last. *)
LEMMA StepChain ==
    ASSUME Typed, Chain, [Next]_vars
    PROVE  Chain'
<1>1. ASSUME UNCHANGED <<observation, latest, forming, stage>>
      PROVE  Chain'
  BY <1>1 DEF Chain, Heights
<1>2. CASE form_observation
  <2>1. /\ UNCHANGED <<observation, latest>>
        /\ stage = "recv" /\ stage' = "insert"
        /\ forming'.height = latest + 1 /\ forming'.parent = latest
    BY <1>2 DEF form_observation, tableVars
  <2> QED
    BY <2>1 DEF Chain, Heights
<1>3. CASE insert_observation
  <2>1. /\ observation' = observation \cup {forming}
        /\ UNCHANGED <<latest, forming>>
        /\ stage = "insert" /\ stage' = "edges"
    BY <1>3 DEF insert_observation, bufferVars
  <2>2. /\ Heights = 1..latest
        /\ forming.height = latest + 1 /\ forming.parent = latest
        /\ latest \in Nat
    BY <2>1 DEF Chain, Typed
  <2>3. Heights' = Heights \cup {latest + 1}
    BY <2>1, <2>2 DEF Heights
  <2>4. Heights' = 1..(latest + 1)
    BY <2>2, <2>3
  <2>5. \A o \in observation : o.height # latest + 1
    <3>1. latest + 1 \notin Heights
      BY <2>2
    <3> QED
      BY <3>1 DEF Heights
  <2>6. \A o, p \in observation' : o.height = p.height => o = p
    BY <2>1, <2>2, <2>5 DEF Chain
  <2>7. \A o \in observation' : o.height = o.parent + 1
    BY <2>1, <2>2 DEF Chain
  <2> QED
    BY <2>1, <2>2, <2>4, <2>6, <2>7 DEF Chain
<1>4. CASE VerifyStored
  <2>1. /\ UNCHANGED <<observation, forming>>
        /\ latest' = latest + 1
        /\ stage = "verify" /\ stage' = "gossip"
    BY <1>4 DEF VerifyStored, Chain, tableVars
  <2>2. Heights' = 1..latest'
    BY <2>1 DEF Chain, Heights
  <2> QED
    BY <2>1, <2>2 DEF Chain
<1>5. CASE Restart
  <2>1. /\ UNCHANGED observation
        /\ latest' = LatestStored
        /\ stage' = "recv"
    BY <1>5 DEF Restart, tableVars
  <2>2. Heights = 1..LatestStored
    BY LatestIsLast DEF Chain, Typed
  <2>3. Heights' = 1..latest'
    BY <2>1, <2>2 DEF Heights
  <2> QED
    BY <2>1, <2>3 DEF Chain
<1>6. CASE InsertDone \/ gossip_req \/ RespondDone \/ Stop
  <2>1. /\ UNCHANGED <<observation, latest, forming>>
        /\ \/ stage = "edges" /\ stage' = "verify"
           \/ stage = "gossip" /\ stage' = "respond"
           \/ stage = "respond" /\ stage' = "recv"
           \/ stage' = "stopped"
    BY <1>6 DEF InsertDone, gossip_req, RespondDone, Stop, bufferVars, tableVars
  <2> QED
    BY <2>1 DEF Chain, Heights
<1>7. CASE Respond
  <2>1. /\ UNCHANGED <<observation, latest, forming>>
        /\ stage' \in {stage, "failed"}
    BY <1>7 DEF Respond, bufferVars, tableVars
  <2> QED
    BY <2>1 DEF Chain, Heights
<1>8. CASE process_incoming \/ insert_observation_edge \/ UNCHANGED vars
  BY <1>1, <1>8 DEF process_incoming, insert_observation_edge, vars,
                    bufferVars, tableVars
<1>9. ASSUME NEW c \in Calls, Observe(c) \/ ReceiveProof(c) \/ TimeOut(c)
      PROVE  Chain'
  BY <1>1, <1>9 DEF Observe, ReceiveProof, TimeOut, bufferVars, tableVars
<1> QED
  BY <1>2, <1>3, <1>4, <1>5, <1>6, <1>7, <1>8, <1>9
  DEF Next, Task, IdleTick, Halted

(* Nothing but what was asked for enters buffer and tables. *)
LEMMA StepOnlyAsked ==
    ASSUME Typed, OnlyAsked, [Next]_vars
    PROVE  OnlyAsked'
<1> DEFINE Moving == Range(observation_metadata) \cup Range(data)
                       \cup Range(forming.observations) \cup Signed
<1>1. ASSUME NEW c \in Calls, Observe(c)
      PROVE  OnlyAsked'
  <2>1. Moving' = Moving \cup {c}
    BY <1>1, RangeAppend DEF Observe, Typed, Signed, bufferVars, tableVars
  <2>2. \A d \in Calls : call'[d] = "idle" => call[d] = "idle" /\ d # c
    BY <1>1 DEF Observe, Typed
  <2>3. Moving' \subseteq Calls
    BY <2>1, RangeType DEF Typed, Row, Signed
  <2> QED
    BY <2>1, <2>2, <2>3 DEF OnlyAsked
<1>2. ASSUME Moving' \subseteq Moving,
             \A d \in Calls : call'[d] = "idle" => call[d] = "idle"
      PROVE  OnlyAsked'
  <2>1. Moving' \subseteq Calls
    BY <1>2, RangeType DEF Typed, Row, Signed
  <2> QED
    BY <1>2, <2>1 DEF OnlyAsked
<1>3. ASSUME NEW c \in Calls, ReceiveProof(c) \/ TimeOut(c)
      PROVE  OnlyAsked'
  <2>1. Moving' = Moving
    BY <1>3 DEF ReceiveProof, TimeOut, Signed, bufferVars, tableVars
  <2>2. \A d \in Calls : call'[d] = "idle" => call[d] = "idle"
    BY <1>3 DEF ReceiveProof, TimeOut, Typed
  <2> QED
    BY <1>2, <2>1, <2>2
<1>4. CASE process_incoming
  <2>1. /\ Head(observation_metadata) \in Range(observation_metadata)
        /\ Head(observation_metadata) \in Calls
        /\ Range(Tail(observation_metadata)) \subseteq Range(observation_metadata)
    BY <1>4, RangeTail DEF process_incoming, Typed
  <2>2. Range(data)' = Range(data) \cup {Head(observation_metadata)}
    BY <1>4, <2>1, RangeAppend DEF process_incoming, Typed
  <2>3. Moving' \subseteq Moving
    BY <1>4, <2>1, <2>2 DEF process_incoming, Signed, tableVars
  <2> QED
    BY <1>2, <1>4, <2>3 DEF process_incoming, callVars
<1>5. CASE form_observation
  <2>1. Moving' \subseteq Moving
    BY <1>5, RangeType DEF form_observation, Signed, tableVars
  <2> QED
    BY <1>2, <1>5, <2>1 DEF form_observation, callVars
<1>6. CASE insert_observation
  <2>1. Moving' \subseteq Moving
    BY <1>6, InsertSigns DEF insert_observation, bufferVars
  <2> QED
    BY <1>2, <1>6, <2>1 DEF insert_observation, callVars
<1>7. CASE Restart
  <2>1. Moving' \subseteq Moving
    BY <1>7, RangeType DEF Restart, NoObservation, Signed, tableVars
  <2>2. \A d \in Calls : call'[d] = "idle" => call[d] = "idle"
    BY <1>7 DEF Restart
  <2> QED
    BY <1>2, <2>1, <2>2
<1>8. ASSUME UNCHANGED <<call, observation_metadata, data, forming, observation>>
      PROVE  OnlyAsked'
  BY <1>8 DEF OnlyAsked, Signed
<1>9. CASE \/ insert_observation_edge \/ InsertDone \/ VerifyStored
           \/ gossip_req \/ Respond \/ RespondDone \/ Stop \/ UNCHANGED vars
  BY <1>8, <1>9 DEF insert_observation_edge, InsertDone, VerifyStored,
                    gossip_req, Respond, RespondDone, Stop, vars, callVars,
                    bufferVars, tableVars
<1> QED
  BY <1>1, <1>3, <1>4, <1>5, <1>6, <1>7, <1>9
  DEF Next, Task, IdleTick, Halted

(* A proof is sent only to a subscriber whose own metadata is signed. *)
LEMMA StepSubscribersSigned ==
    ASSUME Typed, SubscribersSigned, [Next]_vars
    PROVE  SubscribersSigned'
<1> USE BufferAssumption
<1>1. ASSUME UNCHANGED <<data, subscribers, reply, stage, forming, observation>>
      PROVE  SubscribersSigned'
  BY <1>1 DEF SubscribersSigned, Signed
<1>2. ASSUME NEW c \in Calls, Observe(c) \/ ReceiveProof(c) \/ TimeOut(c)
      PROVE  SubscribersSigned'
  BY <1>1, <1>2 DEF Observe, ReceiveProof, TimeOut, bufferVars, tableVars
<1>3. CASE process_incoming
  <2> DEFINE c == Head(observation_metadata)
  <2>1. c \in Calls
    BY <1>3, RangeTail DEF process_incoming, Typed
  <2>2. /\ stage = "recv"
        /\ UNCHANGED <<reply, stage, forming, observation>>
        /\ subscribers' = [subscribers EXCEPT ![HashOf[c]] = {c}]
        /\ data' = Append(data, c)
    BY <1>3 DEF process_incoming, callVars, tableVars
  <2>3. Range(data)' = Range(data) \cup {c}
    BY <2>1, <2>2, RangeAppend DEF Typed
  <2>4. Signed' = Signed
    BY <2>2 DEF Signed
  <2> HIDE DEF c
  <2>5. ASSUME NEW h \in Hash, NEW d \in subscribers'[h]
        PROVE  d \in (Range(data) \cup Signed)'
    <3>1. d = c \/ d \in subscribers[h]
      BY <2>2, <2>5 DEF Typed
    <3> QED
      BY <2>2, <2>3, <2>4, <3>1 DEF SubscribersSigned, Ended
  <2> QED
    BY <2>2, <2>4, <2>5 DEF SubscribersSigned, Working
<1>4. CASE form_observation
  <2>1. /\ stage = "recv" /\ stage' = "insert"
        /\ UNCHANGED <<subscribers, reply, observation>>
        /\ data' = <<>>
        /\ forming'.observations = data
    BY <1>4 DEF form_observation, callVars, tableVars
  <2>2. Signed' = Signed
    BY <2>1 DEF Signed
  <2> QED
    BY <2>1, <2>2 DEF SubscribersSigned, Working, Ended
<1>5. CASE insert_observation
  <2>1. /\ stage = "insert" /\ stage' = "edges"
        /\ UNCHANGED <<subscribers, reply, data, forming>>
    BY <1>5 DEF insert_observation, callVars, bufferVars
  <2>2. Signed' = Signed \cup Range(forming.observations)
    BY <1>5, InsertSigns
  <2> QED
    BY <2>1, <2>2 DEF SubscribersSigned, Working, Ended
<1>6. CASE Respond
  <2>1. /\ stage = "respond" /\ stage' \in {"respond", "failed"}
        /\ UNCHANGED <<subscribers, data, forming, observation>>
    BY <1>6 DEF Respond, bufferVars, tableVars
  <2>2. Signed' = Signed
    BY <2>1 DEF Signed
  <2>3. Range(data) = {}
    BY <2>1, RangeType DEF SubscribersSigned, Working
  <2>4. \A h \in Hash : subscribers[h] \subseteq Signed
    BY <2>1, <2>3 DEF SubscribersSigned, Ended
  <2>5. HashOf[Head(todo)] \in Hash
    BY <1>6, RangeTail DEF Respond, Typed
  <2>6. ASSUME NEW c \in Calls, reply'[c] # <<>>
        PROVE  c \in Signed
    <3>1. c \in subscribers[HashOf[Head(todo)]] \/ reply'[c] = reply[c]
      BY <1>6 DEF Respond
    <3> QED
      BY <2>4, <2>5, <2>6, <3>1 DEF SubscribersSigned
  <2> QED
    BY <2>1, <2>2, <2>4, <2>6 DEF SubscribersSigned, Working, Ended
<1>7. CASE InsertDone \/ VerifyStored \/ gossip_req \/ RespondDone \/ Stop
  <2>1. /\ UNCHANGED <<data, subscribers, reply, forming, observation>>
        /\ \/ stage = "edges" /\ stage' = "verify"
           \/ stage = "verify" /\ stage' = "gossip"
           \/ stage = "gossip" /\ stage' = "respond"
           \/ stage = "respond" /\ stage' = "recv"
           \/ stage' = "stopped"
    BY <1>7 DEF InsertDone, VerifyStored, gossip_req, RespondDone, Stop,
                callVars, bufferVars, tableVars
  <2>2. Signed' = Signed
    BY <2>1 DEF Signed
  <2> QED
    BY <2>1, <2>2 DEF SubscribersSigned, Working, Ended
<1>8. CASE Restart
  <2>1. /\ stage' = "recv"
        /\ subscribers' = [h \in Hash |-> {}]
        /\ reply' = [c \in Calls |-> <<>>]
    BY <1>8 DEF Restart
  <2> QED
    BY <2>1 DEF SubscribersSigned, Working
<1>9. CASE insert_observation_edge \/ UNCHANGED vars
  BY <1>1, <1>9 DEF insert_observation_edge, vars, callVars, bufferVars, tableVars
<1> QED
  BY <1>2, <1>3, <1>4, <1>5, <1>6, <1>7, <1>8, <1>9
  DEF Next, Task, IdleTick, Halted

-----------------------------------------------------------------------------
(* The theorems. *)

(* The buffer starts with no data, no subscribers and no observations. *)
LEMMA InitInductive == Init => Inductive
<1>1. SUFFICES ASSUME Init PROVE Inductive
  OBVIOUS
<1>2. Typed
  BY <1>1 DEF Init, Typed, Row, NoObservation, Stages
<1>3. Heights = {} /\ Signed = {}
  BY <1>1 DEF Init, Heights, Signed
<1>4. Chain
  BY <1>1, <1>3 DEF Init, Chain
<1>5. OnlyAsked
  BY <1>1, <1>3, RangeType DEF Init, OnlyAsked, NoObservation
<1>6. SubscribersSigned
  BY <1>1 DEF Init, SubscribersSigned, Working
<1> QED
  BY <1>2, <1>4, <1>5, <1>6 DEF Inductive

(* The four parts are an inductive invariant. *)
LEMMA StepInductive == Inductive /\ [Next]_vars => Inductive'
  BY StepTyped, StepChain, StepOnlyAsked, StepSubscribersSigned DEF Inductive

(* The invariant holds whatever the callers, the store and the restarts do. *)
LEMMA AlwaysInductive == Spec => []Inductive
  BY InitInductive, StepInductive, PTL DEF Spec

(* The observations a node signs are one chain: form_observation builds on *)
(* what ObservationBuffer::new or the last tick left, also when the task   *)
(* ended between the insert and the update of latest.                      *)
THEOREM ObservationsNeverFork == Spec => []ChainUnforked
<1>1. Inductive => ChainUnforked
  <2>1. SUFFICES ASSUME Inductive, NEW o \in observation, o.parent > 0
                 PROVE  \E p \in observation : p.height = o.parent
    BY DEF Inductive, Chain, ChainUnforked
  <2>2. /\ o.parent \in Nat
        /\ o.height = o.parent + 1
        /\ o.height \in Heights
    BY <2>1 DEF Inductive, Typed, Row, Chain, Heights
  <2>3. PICK n \in Nat : Heights = 1..n
    BY <2>1 DEF Inductive, Typed, Chain
  <2>4. o.parent \in Heights
    BY <2>1, <2>2, <2>3
  <2> QED
    BY <2>4 DEF Heights
<1> QED
  BY <1>1, AlwaysInductive, PTL

(* Each step of the buffer is a step of Signer or changes nothing of it. *)
LEMMA StepSigner ==
    ASSUME Inductive, [Next]_vars
    PROVE  [Abstract!Next]_Abstract!vars
<1> DEFINE waiting == {c \in Calls : call[c] = "waiting"}
           answered == {c \in Calls : call[c] = "answered"}
           gone == {c \in Calls : call[c] \in {"timed_out", "lost"}}
<1> USE DEF Abstract!Next, Abstract!vars
<1>1. Typed /\ OnlyAsked /\ SubscribersSigned
  BY DEF Inductive
<1>2. ASSUME UNCHANGED <<call, observation>>
      PROVE  UNCHANGED Abstract!vars
  BY <1>2 DEF Signed
<1>3. ASSUME NEW c \in Calls, Observe(c)
      PROVE  Abstract!Ask(c)
  <2>1. /\ call[c] = "idle"
        /\ call' = [call EXCEPT ![c] = "waiting"]
        /\ UNCHANGED observation
    BY <1>3 DEF Observe, tableVars
  <2> QED
    BY <1>1, <2>1 DEF Abstract!Ask, Abstract!Asked, Typed, Signed
<1>4. ASSUME NEW c \in Calls, ReceiveProof(c)
      PROVE  Abstract!Answer(c)
  <2>1. /\ call[c] = "waiting"
        /\ call' = [call EXCEPT ![c] = "answered"]
        /\ UNCHANGED observation
        /\ c \in Signed
    BY <1>1, <1>4 DEF ReceiveProof, SubscribersSigned, tableVars
  <2>2. Signed' = Signed
    BY <2>1 DEF Signed
  <2> QED
    BY <1>1, <2>1, <2>2 DEF Abstract!Answer, Typed
<1>5. ASSUME NEW c \in Calls, TimeOut(c)
      PROVE  Abstract!GiveUp({c})
  <2>1. /\ call[c] = "waiting"
        /\ call' = [call EXCEPT ![c] = "timed_out"]
        /\ UNCHANGED observation
    BY <1>5 DEF TimeOut, tableVars
  <2>2. Signed' = Signed
    BY <2>1 DEF Signed
  <2> QED
    BY <1>1, <2>1, <2>2 DEF Abstract!GiveUp, Typed
<1>6. CASE insert_observation
  <2> DEFINE C == Range(forming.observations)
  <2>1. /\ C \subseteq Calls
        /\ \A c \in C : call[c] # "idle"
    BY <1>1, RangeType DEF Typed, Row, OnlyAsked
  <2>2. UNCHANGED call /\ Signed' = Signed \cup C
    BY <1>1, <1>6, InsertSigns DEF insert_observation, callVars
  <2> HIDE DEF C
  <2>3. \A c \in C : c \in waiting \cup answered \cup gone
    BY <1>1, <2>1 DEF Typed
  <2>4. Abstract!Sign(C)
    BY <2>2, <2>3 DEF Abstract!Sign, Abstract!Asked
  <2> QED
    BY <2>1, <2>4, Zenon
<1>7. CASE Restart
  <2>1. /\ call' = [c \in Calls |-> IF call[c] = "waiting" THEN "lost" ELSE call[c]]
        /\ UNCHANGED observation
    BY <1>7 DEF Restart, tableVars
  <2>2. Signed' = Signed
    BY <2>1 DEF Signed
  <2>3. waiting' = {} /\ answered' = answered /\ gone' = gone \cup waiting
    BY <1>1, <2>1 DEF Typed
  <2>4. PICK C \in SUBSET Calls : C = waiting
    BY Zenon
  <2>5. Abstract!GiveUp(C)
    BY <2>2, <2>3, <2>4 DEF Abstract!GiveUp
  <2> QED
    BY <2>5, Zenon
<1>8. CASE \/ process_incoming \/ form_observation \/ insert_observation_edge
           \/ InsertDone \/ VerifyStored \/ gossip_req \/ Respond
           \/ RespondDone \/ Stop \/ UNCHANGED vars
  <2>1. UNCHANGED <<call, observation>>
    BY <1>8 DEF process_incoming, form_observation, insert_observation_edge,
                InsertDone, VerifyStored, gossip_req, Respond, RespondDone,
                Stop, vars, callVars, tableVars
  <2> QED
    BY <1>2, <2>1
<1> QED
  BY <1>3, <1>4, <1>5, <1>6, <1>7, <1>8 DEF Next, Task, IdleTick, Halted

(* The buffer implements Signer: a call is answered only after its own     *)
(* metadata was signed, although subscribers are kept per hash, calls of   *)
(* one hash overtake each other and the node restarts.                     *)
THEOREM BufferImplementsSigner == Spec => ImplementsSigner
<1>1. Init => Abstract!Init
  BY DEF Init, Abstract!Init, Signed
<1>2. Inductive /\ [Next]_vars => [Abstract!Next]_Abstract!vars
  BY StepSigner
<1> QED
  BY <1>1, <1>2, AlwaysInductive, PTL DEF Spec, ImplementsSigner, Abstract!Spec

-----------------------------------------------------------------------------
(* An answer has its edge. *)

(* The metadata of c is in a stored observation that has its edge. *)
HasEdge(c) ==
    \E o \in observation :
        c \in Range(o.observations) /\ <<o.height, c>> \in observation_edge

(* The loop over the edges is through before the observation is read back. *)
EdgesWritten ==
    /\ stage = "edges" =>
          /\ forming \in observation
          /\ \A c \in Range(forming.observations) :
                c \in Range(todo) \/ <<forming.height, c>> \in observation_edge
    /\ stage \in {"verify", "gossip", "respond"} =>
          \A c \in Range(forming.observations) : HasEdge(c)

(* What a subscriber may be sent, it has an edge for by then. *)
SubscribersHaveEdge ==
    /\ \A h \in Hash : \A c \in subscribers[h] :
          \/ c \in Range(data)
          \/ HasEdge(c)
          \/ stage \in {"insert", "edges"} \cup Ended /\ c \in Range(forming.observations)
    /\ \A c \in Calls : reply[c] # <<>> \/ call[c] = "answered" => HasEdge(c)

(* Rows are never taken out of the tables. *)
LEMMA EdgesStay ==
    ASSUME [Next]_vars
    PROVE  /\ observation \subseteq observation'
           /\ observation_edge \subseteq observation_edge'
           /\ \A c : HasEdge(c) => HasEdge(c)'
<1>1. /\ observation \subseteq observation'
      /\ observation_edge \subseteq observation_edge'
  <2>1. CASE insert_observation \/ insert_observation_edge
    BY <2>1 DEF insert_observation, insert_observation_edge
  <2>2. CASE \/ process_incoming \/ form_observation \/ InsertDone \/ VerifyStored
             \/ gossip_req \/ Respond \/ RespondDone \/ Stop \/ Restart
             \/ (\E c \in Calls : Observe(c) \/ ReceiveProof(c) \/ TimeOut(c))
             \/ UNCHANGED vars
    <3>1. UNCHANGED tableVars
      BY <2>2 DEF process_incoming, form_observation, InsertDone, VerifyStored,
                  gossip_req, Respond, RespondDone, Stop, Restart, Observe,
                  ReceiveProof, TimeOut, vars
    <3> QED
      BY <3>1 DEF tableVars
  <2> QED
    BY <2>1, <2>2 DEF Next, Task, IdleTick, Halted
<1> QED
  BY <1>1 DEF HasEdge

(* The loop takes the metadata one by one, and misses none. *)
LEMMA StepEdgesWritten ==
    ASSUME Typed, EdgesWritten, [Next]_vars
    PROVE  EdgesWritten'
<1>1. ASSUME UNCHANGED <<stage, forming, todo>>
      PROVE  EdgesWritten'
  BY <1>1, EdgesStay DEF EdgesWritten
<1>2. CASE insert_observation
  BY <1>2 DEF insert_observation, EdgesWritten
<1>3. CASE insert_observation_edge
  <2>1. /\ stage = "edges" /\ stage' = "edges"
        /\ todo # <<>> /\ todo' = Tail(todo)
        /\ observation_edge' = observation_edge \cup {<<forming.height, Head(todo)>>}
        /\ UNCHANGED <<forming, observation>>
    BY <1>3 DEF insert_observation_edge
  <2>2. \A c \in Range(todo) : c = Head(todo) \/ c \in Range(todo')
    BY <2>1, RestTail DEF Typed
  <2> QED
    BY <2>1, <2>2 DEF EdgesWritten
<1>4. CASE InsertDone
  <2>1. /\ stage = "edges" /\ stage' = "verify" /\ Range(todo) = {}
        /\ UNCHANGED <<forming, observation, observation_edge>>
    BY <1>4, RangeType DEF InsertDone, tableVars
  <2>2. \A c \in Range(forming.observations) : HasEdge(c)
    BY <2>1 DEF EdgesWritten, HasEdge
  <2> QED
    BY <2>1, <2>2, EdgesStay DEF EdgesWritten
<1>5. CASE VerifyStored \/ gossip_req \/ Respond
  <2>1. /\ stage \in {"verify", "gossip", "respond"}
        /\ stage' # "edges"
        /\ UNCHANGED forming
    BY <1>5 DEF VerifyStored, gossip_req, Respond
  <2> QED
    BY <2>1, EdgesStay DEF EdgesWritten
<1>6. CASE form_observation \/ RespondDone \/ Stop \/ Restart
  <2>1. stage' \in {"insert", "recv", "stopped"}
    BY <1>6 DEF form_observation, RespondDone, Stop, Restart
  <2> QED
    BY <2>1 DEF EdgesWritten
<1>7. CASE \/ process_incoming \/ UNCHANGED vars
           \/ \E c \in Calls : Observe(c) \/ ReceiveProof(c) \/ TimeOut(c)
  <2>1. UNCHANGED <<stage, forming, todo>>
    BY <1>7 DEF process_incoming, Observe, ReceiveProof, TimeOut, vars
  <2> QED
    BY <1>1, <2>1
<1> QED
  BY <1>2, <1>3, <1>4, <1>5, <1>6, <1>7 DEF Next, Task, IdleTick, Halted

(* A proof is sent when the edge is there. *)
LEMMA StepSubscribersHaveEdge ==
    ASSUME Typed, SubscribersSigned, EdgesWritten, SubscribersHaveEdge, [Next]_vars
    PROVE  SubscribersHaveEdge'
<1> USE BufferAssumption
<1>1. \A c : HasEdge(c) => HasEdge(c)'
  BY EdgesStay
<1>2. ASSUME UNCHANGED <<call, reply, data, subscribers, stage, forming>>
      PROVE  SubscribersHaveEdge'
  BY <1>1, <1>2 DEF SubscribersHaveEdge
<1>3. ASSUME NEW c \in Calls, Observe(c) \/ ReceiveProof(c) \/ TimeOut(c)
      PROVE  SubscribersHaveEdge'
  <2>1. /\ UNCHANGED <<reply, data, subscribers, stage, forming>>
        /\ \A d \in Calls : call'[d] = "answered" => call[d] = "answered" \/ reply[d] # <<>>
    <3>1. CASE Observe(c)
      BY <3>1 DEF Observe, bufferVars, Typed
    <3>2. CASE ReceiveProof(c)
      BY <3>2 DEF ReceiveProof, bufferVars, Typed
    <3>3. CASE TimeOut(c)
      BY <3>3 DEF TimeOut, bufferVars, Typed
    <3> QED
      BY <1>3, <3>1, <3>2, <3>3
  <2> QED
    BY <1>1, <2>1 DEF SubscribersHaveEdge
<1>4. CASE process_incoming
  <2> DEFINE c == Head(observation_metadata)
  <2>1. c \in Calls
    BY <1>4, RangeTail DEF process_incoming, Typed
  <2>2. /\ stage = "recv"
        /\ UNCHANGED <<call, reply, stage, forming>>
        /\ subscribers' = [subscribers EXCEPT ![HashOf[c]] = {c}]
        /\ data' = Append(data, c)
    BY <1>4 DEF process_incoming, callVars
  <2>3. Range(data)' = Range(data) \cup {c}
    BY <2>1, <2>2, RangeAppend DEF Typed
  <2> HIDE DEF c
  <2>4. ASSUME NEW h \in Hash, NEW d \in subscribers'[h]
        PROVE  d \in Range(data)' \/ HasEdge(d)'
    <3>1. d = c \/ d \in subscribers[h]
      BY <2>2, <2>4 DEF Typed
    <3> QED
      BY <1>1, <2>2, <2>3, <3>1 DEF SubscribersHaveEdge, Ended
  <2> QED
    BY <1>1, <2>2, <2>4 DEF SubscribersHaveEdge
<1>5. CASE form_observation
  <2>1. /\ stage = "recv" /\ stage' = "insert"
        /\ UNCHANGED <<call, reply, subscribers>>
        /\ forming'.observations = data
    BY <1>5 DEF form_observation, callVars
  <2> QED
    BY <1>1, <2>1 DEF SubscribersHaveEdge, Ended
<1>6. CASE insert_observation
  <2>1. /\ stage = "insert" /\ stage' = "edges"
        /\ UNCHANGED <<call, reply, subscribers, data, forming>>
    BY <1>6 DEF insert_observation, callVars, bufferVars
  <2> QED
    BY <1>1, <2>1 DEF SubscribersHaveEdge
<1>7. CASE InsertDone
  <2>1. /\ stage = "edges" /\ stage' = "verify"
        /\ UNCHANGED <<call, reply, subscribers, data, forming>>
    BY <1>7 DEF InsertDone, callVars, bufferVars
  <2>2. \A c \in Range(forming.observations) : HasEdge(c)'
    BY <2>1, StepEdgesWritten DEF EdgesWritten
  <2> QED
    BY <1>1, <2>1, <2>2 DEF SubscribersHaveEdge, Ended
<1>8. CASE Respond
  <2>1. /\ stage = "respond"
        /\ UNCHANGED <<call, subscribers, data, forming>>
    BY <1>8 DEF Respond, bufferVars
  <2>2. Range(data) = {}
    BY <2>1, RangeType DEF SubscribersSigned, Working
  <2>3. \A h \in Hash : \A c \in subscribers[h] : HasEdge(c)'
    BY <1>1, <2>1, <2>2 DEF SubscribersHaveEdge, Ended
  <2>4. HashOf[Head(todo)] \in Hash
    BY <1>8, RangeTail DEF Respond, Typed
  <2>5. ASSUME NEW c \in Calls, reply'[c] # <<>>
        PROVE  HasEdge(c)'
    <3>1. c \in subscribers[HashOf[Head(todo)]] \/ reply'[c] = reply[c]
      BY <1>8 DEF Respond
    <3> QED
      BY <1>1, <2>3, <2>4, <2>5, <3>1 DEF SubscribersHaveEdge
  <2> QED
    BY <1>1, <2>1, <2>3, <2>5 DEF SubscribersHaveEdge
<1>9. CASE VerifyStored \/ gossip_req \/ RespondDone \/ Stop
  <2>1. /\ UNCHANGED <<call, reply, subscribers, data, forming>>
        /\ stage' \in Ended \/ stage \notin {"insert", "edges"} \cup Ended
    BY <1>9 DEF VerifyStored, gossip_req, RespondDone, Stop, callVars, bufferVars, Ended
  <2> QED
    BY <1>1, <2>1 DEF SubscribersHaveEdge
<1>10. CASE Restart
  <2>1. /\ subscribers' = [h \in Hash |-> {}]
        /\ reply' = [c \in Calls |-> <<>>]
        /\ \A c \in Calls : call'[c] = "answered" => call[c] = "answered"
    BY <1>10 DEF Restart
  <2> QED
    BY <1>1, <2>1 DEF SubscribersHaveEdge
<1>11. CASE insert_observation_edge \/ UNCHANGED vars
  BY <1>2, <1>11 DEF insert_observation_edge, vars, callVars, bufferVars
<1> QED
  BY <1>3, <1>4, <1>5, <1>6, <1>7, <1>8, <1>9, <1>10, <1>11
  DEF Next, Task, IdleTick, Halted

(* When Relay::observe returns, the observation and the edge of its own    *)
(* metadata are stored, also when the task ends or the node restarts       *)
(* between its proof and its return.                                       *)
THEOREM AnswersHaveEdges == Spec => []AnsweredHasEdge
<1>1. Init => EdgesWritten /\ SubscribersHaveEdge
  BY DEF Init, EdgesWritten, SubscribersHaveEdge
<1>2. Inductive /\ EdgesWritten /\ SubscribersHaveEdge /\ [Next]_vars
        => EdgesWritten' /\ SubscribersHaveEdge'
  BY StepEdgesWritten, StepSubscribersHaveEdge DEF Inductive
<1>3. SubscribersHaveEdge => AnsweredHasEdge
  BY DEF SubscribersHaveEdge, HasEdge, AnsweredHasEdge
<1> QED
  BY <1>1, <1>2, <1>3, AlwaysInductive, PTL DEF Spec

-----------------------------------------------------------------------------
(* No call is forgotten, and only timeouts make the task fail. *)

(* The metadata that the task has received and not yet answered. *)
InHand ==
    CASE stage = "recv" -> data
      [] stage \in {"insert", "edges", "verify", "gossip"} -> forming.observations
      [] stage = "respond" -> todo
      [] OTHER -> <<>>

(* A call's metadata is in one place, once. *)
PassesOnce ==
    /\ IsInjective(observation_metadata)
    /\ IsInjective(InHand)
    /\ \A c \in Range(observation_metadata) : c \notin Range(InHand)
    /\ \A c \in Range(observation_metadata) \cup Range(InHand) : call[c] # "idle"

TimedOut(h) == \E c \in Calls : HashOf[c] = h /\ call[c] = "timed_out"

(* As long as no call for a hash has timed out, who is on the way through  *)
(* the buffer still waits, has no proof yet, and is the subscriber of its  *)
(* hash once received.                                                     *)
Turns ==
    Exclusive =>
        /\ \A c, d \in Calls :
              HashOf[c] = HashOf[d] /\ call[c] = "waiting" /\ call[d] = "waiting" => c = d
        /\ \A c \in Range(observation_metadata) \cup Range(InHand) :
              ~TimedOut(HashOf[c]) => call[c] = "waiting" /\ reply[c] = <<>>
        /\ \A c \in Range(InHand) :
              ~TimedOut(HashOf[c]) => subscribers[HashOf[c]] = {c}
        /\ \A h \in Hash : \A c \in subscribers[h] : HashOf[c] = h
        /\ stage = "failed" => TimedOut(HashOf[Head(todo)])

(* What a step does to the metadata on its way. *)
LEMMA InHandStep ==
    ASSUME Typed, SubscribersSigned, [Next]_vars
    PROVE  \/ \E c \in Calls : Observe(c) /\ InHand' = InHand
           \/ \E c \in Calls : (ReceiveProof(c) \/ TimeOut(c)) /\ InHand' = InHand
           \/ process_incoming /\ InHand' = Append(InHand, Head(observation_metadata))
           \/ /\ UNCHANGED <<callVars, observation_metadata, subscribers, InHand>>
              /\ stage \notin Ended /\ stage' \notin Ended
           \/ Respond /\ stage' = "respond" /\ InHand' = Tail(InHand)
           \/ Respond /\ stage' = "failed" /\ InHand' = <<>>
           \/ Stop /\ InHand' = <<>>
           \/ Restart /\ InHand' = <<>>
           \/ UNCHANGED vars /\ InHand' = InHand
<1>1. ASSUME NEW c \in Calls, Observe(c) \/ ReceiveProof(c) \/ TimeOut(c)
      PROVE  InHand' = InHand
  BY <1>1 DEF Observe, ReceiveProof, TimeOut, InHand, bufferVars
<1>2. CASE process_incoming
  BY <1>2 DEF process_incoming, InHand
<1>3. CASE form_observation
  BY <1>3 DEF form_observation, InHand, Ended
<1>4. CASE insert_observation \/ insert_observation_edge \/ InsertDone \/ VerifyStored
  BY <1>4 DEF insert_observation, insert_observation_edge, InsertDone, VerifyStored,
              InHand, bufferVars, Ended
<1>5. CASE gossip_req
  BY <1>5 DEF gossip_req, InHand, bufferVars, Ended
<1>6. CASE Respond
  <2>1. stage = "respond" /\ InHand = todo
    BY <1>6 DEF Respond, InHand
  <2>2. \/ stage' = "respond" /\ todo' = Tail(todo)
        \/ stage' = "failed"
    BY <1>6, <2>1, Zenon DEF Respond
  <2> QED
    BY <1>6, <2>1, <2>2 DEF InHand
<1>7. CASE RespondDone
  BY <1>7 DEF RespondDone, InHand, bufferVars, Ended, SubscribersSigned, Working
<1>8. CASE Stop
  BY <1>8 DEF Stop, InHand
<1>9. CASE Restart
  BY <1>9 DEF Restart, InHand
<1>10. CASE UNCHANGED vars
  BY <1>10 DEF vars, InHand, bufferVars
<1> QED
  BY <1>1, <1>2, <1>3, <1>4, <1>5, <1>6, <1>7, <1>8, <1>9, <1>10
  DEF Next, Task, IdleTick, Halted, bufferVars

(* Only calls are in hand. *)
LEMMA InHandType ==
    ASSUME Typed
    PROVE  InHand \in Seq(Calls) /\ Range(InHand) \subseteq Calls
<1>1. InHand \in Seq(Calls)
  BY DEF InHand, Typed, Row
<1> QED
  BY <1>1, RangeType

(* A waiting call is on its way, unless it is superseded or has its proof. *)
LEMMA StepCallAttended ==
    ASSUME Typed, SubscribersSigned, CallAttended, [Next]_vars
    PROVE  CallAttended'
<1> USE BufferAssumption
<1> DEFINE Attended(c) ==
      \/ stage \in Ended
      \/ c \in Range(observation_metadata)
      \/ Superseded(c)
      \/ c \in Range(InHand)
      \/ reply[c] # <<>>
<1>1. ASSUME NEW c \in Calls, call[c] = "waiting"
      PROVE  Attended(c)
  <2>1. CASE stage \in Working /\ c \in Range(data)
    BY <2>1, RangeType DEF SubscribersSigned
  <2>2. CASE stage \notin Working \/ c \notin Range(data)
    BY <1>1, <2>2 DEF CallAttended, InHand, Typed, Stages, Ended, Working
  <2> QED
    BY <2>1, <2>2
<1>2. SUFFICES ASSUME NEW c \in Calls, call'[c] = "waiting"
               PROVE  Attended(c)'
  <2>1. ASSUME NEW c \in Calls, c \in Range(InHand)'
        PROVE  \/ c \in Range(data)'
               \/ stage' \in {"insert", "edges", "verify", "gossip"}
                     /\ c \in Range(forming.observations)'
               \/ stage' = "respond" /\ c \in Range(todo)'
    BY <2>1, RangeType DEF InHand
  <2> QED
    BY <2>1 DEF CallAttended
<1>3. ASSUME call[c] = "waiting",
             Range(observation_metadata) \subseteq Range(observation_metadata)',
             Range(InHand) \subseteq Range(InHand)',
             UNCHANGED <<subscribers, reply, stage>>
      PROVE  Attended(c)'
  BY <1>1, <1>3 DEF Superseded
<1>4. ASSUME NEW d \in Calls, Observe(d), InHand' = InHand
      PROVE  Attended(c)'
  <2>1. Range(observation_metadata)' = Range(observation_metadata) \cup {d}
    BY <1>4, RangeAppend DEF Observe, Typed
  <2>2. c = d \/ call[c] = "waiting"
    BY <1>2, <1>4 DEF Observe, Typed
  <2> QED
    BY <1>3, <1>4, <2>1, <2>2 DEF Observe, bufferVars
<1>5. ASSUME NEW d \in Calls, ReceiveProof(d) \/ TimeOut(d), InHand' = InHand
      PROVE  Attended(c)'
  <2>1. call[c] = "waiting"
    BY <1>2, <1>5 DEF ReceiveProof, TimeOut, Typed
  <2> QED
    BY <1>3, <1>5, <2>1 DEF ReceiveProof, TimeOut, bufferVars
<1>6. CASE process_incoming /\ InHand' = Append(InHand, Head(observation_metadata))
  <2> DEFINE d == Head(observation_metadata)
  <2>1. /\ d \in Calls
        /\ \A x \in Range(observation_metadata) : x = d \/ x \in Range(observation_metadata)'
    BY <1>6, RangeTail, RestTail DEF process_incoming, Typed
  <2>2. /\ subscribers' = [subscribers EXCEPT ![HashOf[d]] = {d}]
        /\ UNCHANGED <<call, reply, stage>>
    BY <1>6 DEF process_incoming, callVars
  <2>3. Range(InHand)' = Range(InHand) \cup {d}
    BY <1>6, <2>1, RangeAppend, InHandType
  <2> HIDE DEF d
  <2>4. c # d /\ Superseded(c) => Superseded(c)'
    BY <2>1, <2>2 DEF Superseded, Typed
  <2> QED
    BY <1>1, <1>2, <2>1, <2>2, <2>3, <2>4
<1>7. CASE /\ UNCHANGED <<callVars, observation_metadata, subscribers, InHand>>
           /\ stage \notin Ended /\ stage' \notin Ended
  BY <1>1, <1>2, <1>7 DEF callVars, Superseded
<1>8. CASE Respond /\ stage' = "respond" /\ InHand' = Tail(InHand)
  <2> DEFINE d == Head(todo)
  <2>1. /\ stage = "respond" /\ todo # <<>> /\ InHand = todo
        /\ UNCHANGED <<call, observation_metadata, subscribers>>
        /\ reply' = [x \in Calls |-> IF x \in subscribers[HashOf[d]]
                                     THEN Append(reply[x], d) ELSE reply[x]]
    BY <1>8 DEF Respond, InHand, bufferVars
  <2>2. /\ d \in Calls
        /\ \A x \in Range(todo) : x = d \/ x \in Range(InHand)'
    BY <1>8, <2>1, RangeTail, RestTail DEF Typed
  <2>3. \A x \in Calls : reply[x] # <<>> => reply'[x] # <<>>
    <3>1. \A x \in Calls : Append(reply[x], d) # <<>>
      BY <2>2, AppendSome DEF Typed
    <3> QED
      BY <2>1, <3>1
  <2>4. c = d /\ ~Superseded(c) => reply'[c] # <<>>
    <3>1. Append(reply[c], d) # <<>>
      BY <2>2, AppendSome DEF Typed
    <3> QED
      BY <2>1, <3>1 DEF Superseded
  <2> HIDE DEF d
  <2> QED
    BY <1>1, <1>2, <2>1, <2>2, <2>3, <2>4 DEF Superseded, Ended
<1>9. CASE (Respond /\ stage' = "failed") \/ Stop
  BY <1>9 DEF Stop, Ended
<1>10. CASE Restart
  <2>1. call'[c] # "waiting"
    BY <1>10 DEF Restart
  <2> QED
    BY <1>2, <2>1
<1>11. CASE UNCHANGED vars /\ InHand' = InHand
  <2>1. UNCHANGED <<call, observation_metadata, subscribers, reply, stage>>
    BY <1>11 DEF vars, callVars, bufferVars
  <2> QED
    BY <1>2, <1>3, <1>11, <2>1
<1> QED
  BY <1>4, <1>5, <1>6, <1>7, <1>8, <1>9, <1>10, <1>11, InHandStep

(* No call is forgotten: while it waits, its metadata is on the way or its *)
(* proof is in its channel, unless a later call took its subscription or   *)
(* the task has ended.                                                     *)
THEOREM CallsAttended == Spec => []CallAttended
<1>1. Init => CallAttended
  BY DEF Init, CallAttended
<1>2. Inductive /\ CallAttended /\ [Next]_vars => CallAttended'
  BY StepCallAttended DEF Inductive
<1> QED
  BY <1>1, <1>2, AlwaysInductive, PTL DEF Spec

(* Metadata moves on without being copied. *)
LEMMA StepPassesOnce ==
    ASSUME Typed, SubscribersSigned, PassesOnce, [Next]_vars
    PROVE  PassesOnce'
<1> USE BufferAssumption
<1>1. Range(InHand) \subseteq Calls /\ Range(observation_metadata) \subseteq Calls
  BY InHandType, RangeType DEF Typed
<1>2. \A c \in Calls : call[c] # "idle" => call'[c] # "idle"
  <2>1. ASSUME NEW c \in Calls, Observe(c) \/ ReceiveProof(c) \/ TimeOut(c)
        PROVE  \A d \in Calls : call[d] # "idle" => call'[d] # "idle"
    BY <2>1 DEF Observe, ReceiveProof, TimeOut, Typed
  <2>2. CASE Restart
    BY <2>2 DEF Restart
  <2>3. CASE process_incoming \/ Respond \/ Stop \/ UNCHANGED callVars \/ UNCHANGED vars
    BY <2>3 DEF process_incoming, Respond, Stop, callVars, vars
  <2> QED
    BY <2>1, <2>2, <2>3, InHandStep
<1>3. ASSUME UNCHANGED observation_metadata,
             InHand' = InHand \/ InHand' = <<>> \/ (InHand # <<>> /\ InHand' = Tail(InHand))
      PROVE  PassesOnce'
  <2>1. IsInjective(InHand') /\ Range(InHand') \subseteq Range(InHand)
    <3>1. CASE InHand' = InHand
      BY <3>1 DEF PassesOnce
    <3>2. CASE InHand' = <<>>
      BY <3>2, RangeType DEF IsInjective
    <3>3. CASE InHand # <<>> /\ InHand' = Tail(InHand)
      BY <3>3, InHandType, RangeTail, RestTail DEF PassesOnce
    <3> QED
      BY <1>3, <3>1, <3>2, <3>3
  <2> QED
    BY <1>1, <1>2, <1>3, <2>1 DEF PassesOnce
<1>4. ASSUME NEW c \in Calls, Observe(c), InHand' = InHand
      PROVE  PassesOnce'
  <2>1. /\ observation_metadata' = Append(observation_metadata, c)
        /\ call[c] = "idle" /\ call'[c] # "idle"
    BY <1>4 DEF Observe, Typed
  <2>2. c \notin Range(observation_metadata) \cup Range(InHand)
    BY <2>1 DEF PassesOnce
  <2>3. /\ Range(observation_metadata') = Range(observation_metadata) \cup {c}
        /\ IsInjective(observation_metadata')
    BY <2>1, <2>2, RangeAppend, AppendOnce DEF Typed, PassesOnce
  <2> QED
    BY <1>1, <1>2, <1>4, <2>1, <2>2, <2>3 DEF PassesOnce
<1>5. CASE process_incoming /\ InHand' = Append(InHand, Head(observation_metadata))
  <2> DEFINE c == Head(observation_metadata)
  <2>1. /\ c \in Calls /\ c \in Range(observation_metadata)
        /\ observation_metadata' = Tail(observation_metadata)
        /\ Range(observation_metadata') \subseteq Range(observation_metadata)
        /\ IsInjective(observation_metadata')
        /\ c \notin Range(observation_metadata')
    BY <1>5, RangeTail, RestTail DEF process_incoming, Typed, PassesOnce
  <2>2. c \notin Range(InHand)
    BY <2>1 DEF PassesOnce
  <2>3. Range(InHand') = Range(InHand) \cup {c} /\ IsInjective(InHand')
    BY <1>5, <2>1, <2>2, InHandType, RangeAppend, AppendOnce DEF PassesOnce
  <2> HIDE DEF c
  <2> QED
    BY <1>1, <1>2, <2>1, <2>2, <2>3 DEF PassesOnce
<1>6. CASE Restart /\ InHand' = <<>>
  <2>1. observation_metadata' = <<>>
    BY <1>6 DEF Restart
  <2> QED
    BY <1>6, <2>1, RangeType DEF PassesOnce, IsInjective
<1>7. CASE Respond /\ InHand' = Tail(InHand)
  <2>1. UNCHANGED observation_metadata /\ InHand # <<>>
    BY <1>7 DEF Respond, InHand
  <2> QED
    BY <1>3, <1>7, <2>1
<1>8. CASE \/ (Respond \/ Stop) /\ InHand' = <<>>
           \/ UNCHANGED vars /\ InHand' = InHand
           \/ UNCHANGED <<callVars, observation_metadata, subscribers, InHand>>
           \/ \E c \in Calls : (ReceiveProof(c) \/ TimeOut(c)) /\ InHand' = InHand
  <2>1. UNCHANGED observation_metadata
    BY <1>8 DEF Respond, Stop, vars, ReceiveProof, TimeOut
  <2>2. InHand' = InHand \/ InHand' = <<>>
    BY <1>8
  <2> QED
    BY <1>3, <2>1, <2>2
<1> QED
  BY <1>4, <1>5, <1>6, <1>7, <1>8, InHandStep

(* With one caller per hash at a time, a proof that is sent finds its own  *)
(* call waiting, or a call for the hash has timed out before.              *)
LEMMA StepTurns ==
    ASSUME Inductive, PassesOnce, Turns, [Next]_vars
    PROVE  Turns'
<1> USE BufferAssumption
<1>1. SUFFICES ASSUME Exclusive PROVE Turns'
  BY DEF Turns
<1> DEFINE Way == Range(observation_metadata) \cup Range(InHand)
           OneWaits == \A c, d \in Calls :
              HashOf[c] = HashOf[d] /\ call[c] = "waiting" /\ call[d] = "waiting" => c = d
           WayWaits == \A c \in Way :
              ~TimedOut(HashOf[c]) => call[c] = "waiting" /\ reply[c] = <<>>
           HandSubscribes == \A c \in Range(InHand) :
              ~TimedOut(HashOf[c]) => subscribers[HashOf[c]] = {c}
           OwnHash == \A h \in Hash : \A c \in subscribers[h] : HashOf[c] = h
           FailedTimeout == stage = "failed" => TimedOut(HashOf[Head(todo)])
<1>2. OneWaits /\ WayWaits /\ HandSubscribes /\ OwnHash /\ FailedTimeout
  BY <1>1 DEF Turns
<1>3. SUFFICES OneWaits' /\ WayWaits' /\ HandSubscribes' /\ OwnHash' /\ FailedTimeout'
  BY DEF Turns
<1>4. Typed /\ OnlyAsked /\ SubscribersSigned
  BY DEF Inductive
<1>5. /\ Range(InHand) \subseteq Calls /\ Range(observation_metadata) \subseteq Calls
      /\ \A c \in Calls : HashOf[c] \in Hash
  BY <1>4, InHandType, RangeType DEF Typed
<1>6. ASSUME UNCHANGED call PROVE \A h : TimedOut(h)' <=> TimedOut(h)
  BY <1>6 DEF TimedOut
<1> HIDE DEF Way, OneWaits, WayWaits, HandSubscribes, OwnHash, FailedTimeout
<1>7. ASSUME UNCHANGED <<call, reply, subscribers>>, Way' \subseteq Way,
             Range(InHand)' \subseteq Range(InHand)
      PROVE  OneWaits' /\ WayWaits' /\ HandSubscribes' /\ OwnHash'
  <2>1. OneWaits' /\ OwnHash'
    BY <1>2, <1>7 DEF OneWaits, OwnHash
  <2>2. WayWaits'
    BY <1>2, <1>6, <1>7 DEF WayWaits
  <2>3. HandSubscribes'
    BY <1>2, <1>6, <1>7 DEF HandSubscribes
  <2> QED
    BY <2>1, <2>2, <2>3
<1>8. ASSUME NEW d \in Calls, Observe(d), InHand' = InHand
      PROVE  OneWaits' /\ WayWaits' /\ HandSubscribes' /\ OwnHash' /\ FailedTimeout'
  <2>1. /\ call[d] = "idle"
        /\ \A c \in Calls : HashOf[c] = HashOf[d] => call[c] # "waiting"
        /\ call' = [call EXCEPT ![d] = "waiting"]
        /\ observation_metadata' = Append(observation_metadata, d)
        /\ UNCHANGED <<reply, subscribers, stage, todo>>
    BY <1>1, <1>8 DEF Observe, bufferVars
  <2>2. Way' = Way \cup {d} /\ Way \subseteq Calls
    BY <1>4, <1>5, <1>8, <2>1, RangeAppend DEF Way, Typed
  <2>3. \A h : TimedOut(h)' <=> TimedOut(h)
    BY <1>4, <2>1 DEF TimedOut, Typed
  <2>4. reply[d] = <<>>
    BY <1>4, <2>1 DEF SubscribersSigned, OnlyAsked
  <2>5. OneWaits'
    BY <1>2, <1>4, <2>1 DEF OneWaits, Typed
  <2>6. WayWaits'
    BY <1>2, <1>4, <2>1, <2>2, <2>3, <2>4 DEF WayWaits, Typed
  <2>7. HandSubscribes' /\ OwnHash' /\ FailedTimeout'
    BY <1>2, <1>8, <2>1, <2>3 DEF HandSubscribes, OwnHash, FailedTimeout
  <2> QED
    BY <2>5, <2>6, <2>7
<1>9. ASSUME NEW d \in Calls, ReceiveProof(d) \/ TimeOut(d), InHand' = InHand
      PROVE  OneWaits' /\ WayWaits' /\ HandSubscribes' /\ OwnHash' /\ FailedTimeout'
  <2>1. /\ UNCHANGED <<reply, subscribers, stage, todo>>
        /\ Way' = Way
        /\ \A c \in Calls : c # d => call'[c] = call[c]
        /\ call[d] = "waiting" /\ call'[d] # "waiting"
        /\ reply[d] # <<>> \/ call'[d] = "timed_out"
    BY <1>4, <1>9 DEF ReceiveProof, TimeOut, bufferVars, Way, Typed
  <2>2. \A h : TimedOut(h) => TimedOut(h)'
    BY <2>1 DEF TimedOut
  <2>3. call'[d] = "timed_out" => TimedOut(HashOf[d])'
    BY DEF TimedOut
  <2>4. Way \subseteq Calls
    BY <1>5 DEF Way
  <2>5. OneWaits'
    BY <1>2, <2>1 DEF OneWaits
  <2>6. WayWaits'
    BY <1>2, <2>1, <2>2, <2>3, <2>4 DEF WayWaits
  <2>7. HandSubscribes' /\ OwnHash' /\ FailedTimeout'
    BY <1>2, <1>9, <2>1, <2>2 DEF HandSubscribes, OwnHash, FailedTimeout
  <2> QED
    BY <2>5, <2>6, <2>7
<1>10. CASE process_incoming /\ InHand' = Append(InHand, Head(observation_metadata))
  <2> DEFINE c == Head(observation_metadata)
  <2>1. /\ c \in Calls /\ c \in Range(observation_metadata)
        /\ Range(observation_metadata)' \subseteq Range(observation_metadata)
        /\ Range(InHand)' = Range(InHand) \cup {c}
    BY <1>4, <1>10, RangeTail, RangeAppend, InHandType DEF process_incoming, Typed
  <2>2. /\ subscribers' = [subscribers EXCEPT ![HashOf[c]] = {c}]
        /\ UNCHANGED <<call, reply, stage, todo>>
    BY <1>10 DEF process_incoming, callVars
  <2> HIDE DEF c
  <2>3. Way' \subseteq Way /\ c \in Way /\ Range(InHand) \subseteq Way
    BY <2>1 DEF Way
  <2>4. \A h : TimedOut(h)' <=> TimedOut(h)
    BY <1>6, <2>2
  <2>5. WayWaits' /\ OneWaits' /\ FailedTimeout'
    BY <1>2, <2>2, <2>3, <2>4 DEF WayWaits, OneWaits, FailedTimeout
  <2>6. ASSUME NEW x \in Range(InHand)', ~TimedOut(HashOf[x])'
        PROVE  subscribers'[HashOf[x]] = {x}
    <3>1. CASE x = c
      BY <1>4, <1>5, <2>1, <2>2, <3>1 DEF Typed
    <3>2. CASE x # c
      <4>1. x \in Range(InHand) /\ x \in Calls
        BY <1>5, <2>1, <2>6, <3>2
      <4>2. HashOf[x] # HashOf[c]
        <5>1. SUFFICES ASSUME HashOf[x] = HashOf[c] PROVE FALSE
          OBVIOUS
        <5>2. call[x] = "waiting" /\ call[c] = "waiting"
          BY <1>2, <2>3, <2>4, <2>6, <4>1, <5>1 DEF WayWaits
        <5> QED
          BY <1>2, <2>1, <3>2, <4>1, <5>1, <5>2 DEF OneWaits
      <4>3. subscribers[HashOf[x]] = {x}
        BY <1>2, <2>4, <2>6, <4>1 DEF HandSubscribes
      <4> QED
        BY <1>4, <1>5, <2>2, <4>1, <4>2, <4>3 DEF Typed
    <3> QED
      BY <3>1, <3>2
  <2>7. OwnHash'
    <3>1. SUFFICES ASSUME NEW h \in Hash, NEW x \in subscribers'[h]
                   PROVE  HashOf[x] = h
      BY DEF OwnHash
    <3>2. (h = HashOf[c] /\ x = c) \/ x \in subscribers[h]
      BY <1>4, <2>2, <3>1 DEF Typed
    <3> QED
      BY <1>2, <3>2 DEF OwnHash
  <2> QED
    BY <2>5, <2>6, <2>7 DEF HandSubscribes
<1>11. CASE Respond
  <2> DEFINE d == Head(todo)
  <2>1. /\ stage = "respond" /\ todo # <<>> /\ InHand = todo
        /\ UNCHANGED <<call, observation_metadata, subscribers>>
    BY <1>11 DEF Respond, InHand, bufferVars
  <2>2. d \in Calls /\ d \in Range(InHand) /\ d \in Way
    BY <1>4, <2>1, RangeTail DEF Typed, Way
  <2>3. ~TimedOut(HashOf[d]) => subscribers[HashOf[d]] = {d} /\ call[d] = "waiting"
    BY <1>2, <2>2 DEF HandSubscribes, WayWaits
  <2>4. CASE stage' = "failed" /\ InHand' = <<>>
    <3>1. /\ \E s \in subscribers[HashOf[d]] : call[s] # "waiting"
          /\ UNCHANGED <<reply, todo>>
      BY <1>11, <2>1, <2>4 DEF Respond
    <3>2. FailedTimeout'
      BY <1>6, <2>1, <2>3, <3>1 DEF FailedTimeout
    <3>3. Way' \subseteq Way /\ Range(InHand)' \subseteq Range(InHand)
      BY <2>1, <2>4, RangeType DEF Way
    <3> QED
      BY <1>7, <2>1, <3>1, <3>2, <3>3
  <2>5. CASE stage' = "respond" /\ InHand' = Tail(InHand)
    <3>1. reply' = [x \in Calls |-> IF x \in subscribers[HashOf[d]]
                                    THEN Append(reply[x], d) ELSE reply[x]]
      BY <1>11, <2>1, <2>5 DEF Respond
    <3>2. /\ Range(InHand)' \subseteq Range(InHand)
          /\ d \notin Range(InHand)'
          /\ d \notin Range(observation_metadata)
      BY <1>4, <2>1, <2>2, <2>5, RangeTail, RestTail DEF PassesOnce, Typed
    <3>3. Way' \subseteq Way /\ d \notin Way' /\ Way \subseteq Calls
      BY <1>5, <2>1, <3>2 DEF Way
    <3>4. \A h : TimedOut(h)' <=> TimedOut(h)
      BY <1>6, <2>1
    <3>5. ASSUME NEW x \in Way', ~TimedOut(HashOf[x])'
          PROVE  call'[x] = "waiting" /\ reply'[x] = <<>>
      <4>1. x \in Calls /\ x # d /\ call[x] = "waiting" /\ reply[x] = <<>>
        BY <1>2, <3>3, <3>4, <3>5 DEF WayWaits
      <4>2. x \notin subscribers[HashOf[d]]
        <5>1. SUFFICES ASSUME x \in subscribers[HashOf[d]] PROVE FALSE
          OBVIOUS
        <5>2. HashOf[x] = HashOf[d]
          BY <1>2, <1>5, <2>2, <5>1 DEF OwnHash
        <5> QED
          BY <2>3, <3>4, <3>5, <4>1, <5>1, <5>2
      <4> QED
        BY <2>1, <3>1, <4>1, <4>2
    <3>6. OneWaits' /\ OwnHash' /\ FailedTimeout'
      BY <1>2, <2>1, <2>5 DEF OneWaits, OwnHash, FailedTimeout
    <3>7. HandSubscribes'
      BY <1>2, <2>1, <3>2, <3>4 DEF HandSubscribes
    <3> QED
      BY <3>5, <3>6, <3>7 DEF WayWaits
  <2> QED
    <3>1. \/ stage' = "respond" /\ InHand' = Tail(InHand)
          \/ stage' = "failed" /\ InHand' = <<>>
      <4>1. \/ stage' = "respond" /\ todo' = Tail(todo)
            \/ stage' = "failed"
        BY <1>11, <2>1, Zenon DEF Respond
      <4> QED
        BY <2>1, <4>1 DEF InHand
    <3> QED
      BY <2>4, <2>5, <3>1
<1>12. CASE Stop /\ InHand' = <<>>
  <2>1. /\ UNCHANGED <<call, reply, subscribers, observation_metadata>>
        /\ stage' = "stopped"
    BY <1>12 DEF Stop, callVars, bufferVars
  <2>2. Way' \subseteq Way /\ Range(InHand)' \subseteq Range(InHand)
    BY <1>12, <2>1, RangeType DEF Way
  <2> QED
    BY <1>7, <2>1, <2>2 DEF FailedTimeout
<1>13. CASE Restart /\ InHand' = <<>>
  <2>1. /\ stage' = "recv"
        /\ call' = [c \in Calls |-> IF call[c] = "waiting" THEN "lost" ELSE call[c]]
        /\ observation_metadata' = <<>>
        /\ subscribers' = [h \in Hash |-> {}]
    BY <1>13 DEF Restart
  <2>2. Way' = {} /\ Range(InHand)' = {}
    BY <1>13, <2>1, RangeType DEF Way
  <2>3. \A c \in Calls : call'[c] # "waiting"
    BY <2>1
  <2> QED
    BY <2>1, <2>2, <2>3 DEF OneWaits, WayWaits, HandSubscribes, OwnHash, FailedTimeout
<1>14. CASE /\ UNCHANGED <<callVars, observation_metadata, subscribers, InHand>>
            /\ stage \notin Ended /\ stage' \notin Ended
  <2>1. UNCHANGED <<call, reply, subscribers>> /\ Way' = Way
    BY <1>14 DEF callVars, Way
  <2> QED
    BY <1>7, <1>14, <2>1 DEF FailedTimeout, Ended
<1>15. CASE UNCHANGED vars /\ InHand' = InHand
  <2>1. UNCHANGED <<call, reply, subscribers, observation_metadata, stage, todo>>
    BY <1>15 DEF vars, callVars, bufferVars
  <2>2. Way' = Way
    BY <1>15, <2>1 DEF Way
  <2>3. FailedTimeout'
    BY <1>2, <1>6, <2>1 DEF FailedTimeout
  <2> QED
    BY <1>7, <1>15, <2>1, <2>2, <2>3
<1> QED
  BY <1>4, <1>8, <1>9, <1>10, <1>11, <1>12, <1>13, <1>14, <1>15, InHandStep

(* With one caller per hash at a time, the send that ends the task follows *)
(* a timeout of a call for that hash: without timeouts no receiver is      *)
(* dropped before its own proof is sent.                                   *)
THEOREM OnlyTimeoutsFail == Spec => []FailsOnlyAfterTimeout
<1>1. Init => PassesOnce /\ Turns
  BY RangeType DEF Init, PassesOnce, Turns, InHand, IsInjective
<1>2. Inductive /\ PassesOnce /\ Turns /\ [Next]_vars => PassesOnce' /\ Turns'
  BY StepPassesOnce, StepTurns DEF Inductive
<1>3. Turns => FailsOnlyAfterTimeout
  BY DEF Turns, TimedOut, FailsOnlyAfterTimeout
<1> QED
  BY <1>1, <1>2, <1>3, AlwaysInductive, PTL DEF Spec

-----------------------------------------------------------------------------
(* Each own observation is under one root. *)

OwnAncestor == {Own(h) : h \in Nat}

(* The observation being formed is stored, or about to be, or none was     *)
(* formed since the start.                                                 *)
FormingStored ==
    stage \in {"recv", "edges", "verify", "gossip", "respond"} =>
        forming \in observation \cup {NoObservation}

(* Up to the first restart the ancestors are own observations up to the    *)
(* latest, each in one root or in the list, and never in both.             *)
RootsOnce ==
    /\ restarts \in Nat
    /\ restarts = 0 =>
          /\ ancestors \in Seq(OwnAncestor)
          /\ \A h \in Nat : Own(h) \in Range(ancestors) =>
                /\ h \in 1..latest
                /\ \A o \in observation \cup {forming} :
                      Own(h) \notin Range(o.ancestor_merkle_roots)
          /\ \A h \in Nat : \A o \in observation \cup {forming} :
                Own(h) \in Range(o.ancestor_merkle_roots) => h \in 1..latest
          /\ \A h \in Nat : \A o, p \in observation \cup {forming} :
                /\ Own(h) \in Range(o.ancestor_merkle_roots)
                /\ Own(h) \in Range(p.ancestor_merkle_roots)
                => o = p
          /\ \A h \in 1..latest :
                \/ Own(h) \in Range(ancestors)
                \/ \E o \in observation \cup {forming} :
                      Own(h) \in Range(o.ancestor_merkle_roots)

(* The stages pass the observation on to the table. *)
LEMMA StepFormingStored ==
    ASSUME FormingStored, [Next]_vars
    PROVE  FormingStored'
<1>1. CASE insert_observation
  BY <1>1 DEF insert_observation, FormingStored
<1>2. CASE form_observation \/ Stop
  BY <1>2 DEF form_observation, Stop, FormingStored
<1>3. CASE Restart
  BY <1>3 DEF Restart, FormingStored
<1>4. CASE Respond
  <2>1. /\ stage = "respond" /\ stage' \in {"respond", "failed"}
        /\ UNCHANGED <<forming, observation>>
    BY <1>4 DEF Respond, tableVars
  <2> QED
    BY <2>1 DEF FormingStored
<1>5. CASE InsertDone \/ VerifyStored \/ gossip_req \/ RespondDone
  <2>1. /\ stage \in {"edges", "verify", "gossip", "respond"}
        /\ UNCHANGED <<forming, observation>>
    BY <1>5 DEF InsertDone, VerifyStored, gossip_req, RespondDone, tableVars
  <2> QED
    BY <2>1 DEF FormingStored
<1>6. CASE \/ process_incoming \/ insert_observation_edge \/ UNCHANGED vars
           \/ \E c \in Calls : Observe(c) \/ ReceiveProof(c) \/ TimeOut(c)
  <2>1. UNCHANGED <<stage, forming, observation>>
    BY <1>6 DEF process_incoming, insert_observation_edge, vars, Observe,
                ReceiveProof, TimeOut, tableVars
  <2> QED
    BY <2>1 DEF FormingStored
<1> QED
  BY <1>1, <1>2, <1>3, <1>4, <1>5, <1>6 DEF Next, Task, IdleTick, Halted

(* A root takes all ancestors or none; a new ancestor is above all. *)
LEMMA StepRootsOnce ==
    ASSUME Typed, Chain, FormingStored, RootsOnce, [Next]_vars
    PROVE  RootsOnce'
<1> DEFINE Rows == observation \cup {forming}
           Has(o, h) == Own(h) \in Range(o.ancestor_merkle_roots)
<1>1. ASSUME UNCHANGED <<restarts, ancestors, latest>>, Rows' = Rows
      PROVE  RootsOnce'
  BY <1>1 DEF RootsOnce
<1>2. CASE form_observation
  <2>1. /\ stage = "recv"
        /\ forming'.ancestor_merkle_roots = AncestorRoots
        /\ ancestors' = RemainingAncestors
        /\ UNCHANGED <<restarts, latest, observation>>
    BY <1>2 DEF form_observation, tableVars
  <2>2. \A h : ~Has(NoObservation, h)
    BY RangeType DEF NoObservation
  <2>3. \A o \in Rows \cup {forming'} : \A h : Has(o, h) =>
             o \in Rows' /\ (o = forming' \/ o \in observation)
    BY <2>1, <2>2 DEF FormingStored
  <2>4. Rows' \subseteq Rows \cup {forming'}
    BY <2>1
  <2>5. SUFFICES ASSUME restarts = 0 PROVE RootsOnce'
    BY <2>1 DEF RootsOnce
  <2>6. CASE Len(ancestors) = ANCESTOR_MERKLE_ROOT_LENGTH
    <3>1. /\ Range(ancestors') = {}
          /\ ancestors' \in Seq(OwnAncestor)
          /\ Range(forming'.ancestor_merkle_roots) = Range(ancestors)
      BY <2>1, <2>6, RangeType DEF RemainingAncestors, AncestorRoots
    <3>2. \A o \in observation : \A h \in Nat : Has(o, h) =>
               h \in 1..latest /\ Own(h) \notin Range(ancestors)
      BY <2>5 DEF RootsOnce
    <3>3. \A h \in Nat : Own(h) \in Range(ancestors) => h \in 1..latest
      BY <2>5 DEF RootsOnce
    <3>4. \A h \in Nat : \A o, p \in observation : Has(o, h) /\ Has(p, h) => o = p
      BY <2>5 DEF RootsOnce
    <3>5. \A h \in 1..latest : Own(h) \in Range(ancestors) \/ \E o \in Rows : Has(o, h)
      BY <2>5 DEF RootsOnce
    <3>6. \A h \in Nat : \A o \in Rows' : Has(o, h) => h \in 1..latest
      BY <2>1, <3>1, <3>2, <3>3
    <3>7. \A h \in Nat : \A o, p \in Rows' : Has(o, h) /\ Has(p, h) => o = p
      BY <2>1, <3>1, <3>2, <3>4
    <3>8. \A h \in 1..latest : \E o \in Rows' : Has(o, h)
      BY <2>3, <3>1, <3>5
    <3> QED
      BY <2>1, <3>1, <3>6, <3>7, <3>8 DEF RootsOnce
  <2>7. CASE Len(ancestors) # ANCESTOR_MERKLE_ROOT_LENGTH
    <3>1. /\ ancestors' = ancestors
          /\ \A h : ~Has(forming', h)
      BY <2>1, <2>7, RangeType DEF RemainingAncestors, AncestorRoots
    <3>2. \A o \in Rows' : \A h : Has(o, h) => o \in Rows
      BY <2>1, <3>1
    <3>3. \A o \in Rows : \A h : Has(o, h) => o \in Rows'
      BY <2>3
    <3>4. /\ ancestors' \in Seq(OwnAncestor)
          /\ \A h \in Nat : Own(h) \in Range(ancestors) =>
                h \in 1..latest /\ \A o \in Rows' : ~Has(o, h)
      BY <2>5, <3>1, <3>2 DEF RootsOnce
    <3>5. \A h \in Nat : \A o \in Rows' : Has(o, h) => h \in 1..latest
      BY <2>5, <3>2 DEF RootsOnce
    <3>6. \A h \in Nat : \A o, p \in Rows' : Has(o, h) /\ Has(p, h) => o = p
      BY <2>5, <3>2 DEF RootsOnce
    <3>7. \A h \in 1..latest : Own(h) \in Range(ancestors) \/ \E o \in Rows' : Has(o, h)
      BY <2>5, <3>3 DEF RootsOnce
    <3> QED
      BY <2>1, <3>1, <3>4, <3>5, <3>6, <3>7 DEF RootsOnce
  <2> QED
    BY <2>6, <2>7
<1>3. CASE insert_observation
  <2>1. UNCHANGED <<restarts, ancestors, latest, forming>> /\ Rows' = Rows
    BY <1>3 DEF insert_observation, bufferVars
  <2> QED
    BY <1>1, <2>1
<1>4. CASE VerifyStored
  <2>1. /\ latest' = latest + 1
        /\ ancestors' = Append(ancestors, Own(latest + 1))
        /\ UNCHANGED <<restarts, forming, observation>>
        /\ latest \in Nat
    BY <1>4 DEF VerifyStored, Chain, Typed, tableVars
  <2>2. Rows' = Rows
    BY <2>1
  <2>3. SUFFICES ASSUME restarts = 0 PROVE RootsOnce'
    BY <2>1 DEF RootsOnce
  <2>4. Own(latest + 1) \in OwnAncestor /\ ancestors \in Seq(OwnAncestor)
    BY <2>1, <2>3 DEF OwnAncestor, RootsOnce
  <2>5. /\ Range(ancestors') = Range(ancestors) \cup {Own(latest + 1)}
        /\ ancestors' \in Seq(OwnAncestor)
    BY <2>1, <2>4, RangeAppend
  <2>6. \A g, h : Own(g) = Own(h) => g = h
    BY DEF Own
  <2>7. 1..latest' = (1..latest) \cup {latest + 1}
    BY <2>1
  <2>8. \A h \in Nat : \A o \in Rows : Has(o, h) => h \in 1..latest /\ h # latest + 1
    BY <2>1, <2>3 DEF RootsOnce
  <2>9. \A h \in Nat : Own(h) \in Range(ancestors') =>
            h \in 1..latest' /\ \A o \in Rows : ~Has(o, h)
    BY <2>3, <2>5, <2>6, <2>7, <2>8 DEF RootsOnce
  <2>10. \A h \in 1..latest' :
            Own(h) \in Range(ancestors') \/ \E o \in Rows : Has(o, h)
    BY <2>3, <2>5, <2>7 DEF RootsOnce
  <2>11. \A h \in Nat : \A o, p \in Rows : Has(o, h) /\ Has(p, h) => o = p
    BY <2>3 DEF RootsOnce
  <2>12. \A h \in Nat : \A o \in Rows : Has(o, h) => h \in 1..latest'
    BY <2>7, <2>8
  <2> HIDE DEF Has
  <2> QED
    BY <2>1, <2>2, <2>5, <2>9, <2>10, <2>11, <2>12 DEF RootsOnce, Has
<1>5. CASE Restart
  <2>1. restarts' = restarts + 1
    BY <1>5 DEF Restart
  <2> QED
    BY <2>1 DEF RootsOnce
<1>6. CASE \/ process_incoming \/ insert_observation_edge \/ InsertDone \/ gossip_req
           \/ Respond \/ RespondDone \/ Stop \/ UNCHANGED vars
           \/ \E c \in Calls : Observe(c) \/ ReceiveProof(c) \/ TimeOut(c)
  <2>1. UNCHANGED <<restarts, ancestors, latest, forming, observation>>
    BY <1>6 DEF process_incoming, insert_observation_edge, InsertDone, gossip_req,
                Respond, RespondDone, Stop, vars, Observe, ReceiveProof, TimeOut,
                bufferVars, tableVars
  <2> QED
    BY <1>1, <2>1
<1> QED
  BY <1>2, <1>3, <1>4, <1>5, <1>6 DEF Next, Task, IdleTick, Halted

(* Until the first restart, each own observation is an ancestor under      *)
(* exactly one root or waits for the next one.                             *)
THEOREM AncestorsUnderOneRoot == Spec => []AncestorsOnce
<1>1. Init => FormingStored /\ RootsOnce
  BY RangeType DEF Init, FormingStored, RootsOnce, NoObservation
<1>2. Inductive /\ FormingStored /\ RootsOnce /\ [Next]_vars => FormingStored' /\ RootsOnce'
  BY StepFormingStored, StepRootsOnce DEF Inductive
<1>3. Inductive /\ RootsOnce => AncestorsOnce
  <2>1. SUFFICES ASSUME Inductive, RootsOnce, restarts = 0, NEW h \in 1..latest
                 PROVE  Cardinality({o \in observation \cup {forming} :
                                       Own(h) \in Range(o.ancestor_merkle_roots)})
                          + (IF Own(h) \in Range(ancestors) THEN 1 ELSE 0) = 1
    BY DEF AncestorsOnce
  <2> DEFINE Roots == {o \in observation \cup {forming} :
                         Own(h) \in Range(o.ancestor_merkle_roots)}
  <2>2. h \in Nat
    BY <2>1 DEF Inductive, Typed
  <2>3. CASE Own(h) \in Range(ancestors)
    <3>1. Roots = {}
      BY <2>1, <2>2, <2>3 DEF RootsOnce
    <3>2. Cardinality(Roots) = 0
      BY <3>1, FS_EmptySet
    <3> QED
      BY <2>3, <3>2
  <2>4. CASE Own(h) \notin Range(ancestors)
    <3>1. PICK o \in observation \cup {forming} :
               Own(h) \in Range(o.ancestor_merkle_roots)
      BY <2>1, <2>4 DEF RootsOnce
    <3>2. Roots = {o}
      BY <2>1, <2>2, <3>1 DEF RootsOnce
    <3>3. Cardinality(Roots) = 1
      BY <3>2, FS_Singleton
    <3> QED
      BY <2>4, <3>3
  <2> QED
    BY <2>3, <2>4
<1> QED
  BY <1>1, <1>2, <1>3, AlwaysInductive, PTL DEF Spec

=============================================================================

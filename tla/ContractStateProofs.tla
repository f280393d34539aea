------------------------- MODULE ContractStateProofs -------------------------
(***************************************************************************)
(* Proofs about ContractState, for any calls, deploys, contracts and       *)
(* selectors: the states of a contract form a tree, a fork ends the        *)
(* manager task, and an answer is a stored state.                          *)
(***************************************************************************)
EXTENDS ContractState, FiniteSetTheorems, TLAPS

(* Types, as far as the results depend on them. *)
Typed ==
    /\ call \in [Calls -> {"committing", "waiting", "answered", "failed"}]
    /\ DOMAIN answer = Calls
    /\ messages \in Seq(Calls)
    /\ unordered \in [Keys -> Seq(Calls)]
    /\ subscribers \in [Keys -> Seq(Calls)]
    /\ manager \in {"waiting", "tick", "ended"}
    /\ keys \subseteq Keys
    /\ batch \subseteq Calls
    /\ idx \in Nat

(* A call is sent once: it is in the channel or in the list of its key,    *)
(* and there once.                                                         *)
SentOnce ==
    /\ IsInjective(messages)
    /\ \A c \in Range(messages) : call[c] # "committing"
    /\ \A k \in Keys :
          /\ IsInjective(unordered[k])
          /\ \A c \in Range(unordered[k]) : /\ KeyOf(c) = k
                                            /\ call[c] # "committing"
                                            /\ c \notin Range(messages)

(* Who subscribes to a key, or is about to, waits for a state of it.        *)
(* Before a key is executed its subscribers are the calls in its list;     *)
(* afterwards it has none until the next tick.                             *)
SubscribersWait ==
    /\ \A k \in Keys : \A c \in Range(subscribers[k]) :
          call[c] = "waiting" /\ KeyOf(c) = k
    /\ \A c \in Range(messages) : call[c] = "waiting"
    /\ manager = "waiting" => subscribers = unordered /\ batch = {}
    /\ manager = "tick" => \A k \in Keys :
          subscribers[k] = IF k \in keys /\ ~(batch # {} /\ k = Key /\ idx > 0)
                           THEN unordered[k] ELSE <<>>

(* Only deploys make the first state of a selector, and they have none:    *)
(* every row is without selector, so no row is ever replaced.              *)
RowsAddUp ==
    /\ \A s \in state : s.nonce \in Nat /\ s.selector = NoSelector
    /\ StatesFollow

(* The batch of a key in hand: what was executed of the key's list and     *)
(* what was not, and the state that all of it is executed on.              *)
BatchSound ==
    manager = "tick" /\ batch # {} =>
        /\ Key \in keys
        /\ \A c \in batch : KeyOf(c) = Key
        /\ batch \subseteq Range(unordered[Key])
        /\ IsFiniteSet(batch)
        /\ Cardinality(batch) + idx = Len(unordered[Key])
        /\ most_recent \in state
        /\ most_recent.address = Key.address
        /\ Key.selector = NoSelector
        /\ idx = 0 =>
              /\ batch = Range(unordered[Key])
              /\ \A s \in state : s.address = Key.address => s.nonce <= most_recent.nonce

(* No two states of a contract have the same nonce, except in the middle   *)
(* of a batch of several calls.                                            *)
Unforked ==
    manager # "ended" /\ ~(manager = "tick" /\ batch # {} /\ idx > 0) =>
        \A s, t \in state :
            s.address = t.address /\ s.nonce = t.nonce /\ s.nonce > 0 => s = t

(* An answer is a stored state, computed by a call that was itself         *)
(* answered with it.                                                       *)
AnswersStored ==
    \A c \in Calls : call[c] = "answered" =>
        /\ answer[c] \in state
        /\ answer[c].address = AddressOf[c]
        /\ answer[c].marker \in Calls
        /\ call[answer[c].marker] = "answered"

ContractInv ==
    /\ Typed
    /\ SentOnce
    /\ SubscribersWait
    /\ RowsAddUp
    /\ BatchSound
    /\ Unforked
    /\ AnswersStored

-----------------------------------------------------------------------------
(* Facts about sequences. *)

(* A call appended to a list is in it, and once if it was not there. *)
LEMMA AppendOnce ==
    ASSUME NEW S, NEW s \in Seq(S), NEW x \in S
    PROVE  /\ Append(s, x) \in Seq(S)
           /\ Range(Append(s, x)) = Range(s) \cup {x}
           /\ IsInjective(s) /\ x \notin Range(s) => IsInjective(Append(s, x))
<1>1. /\ DOMAIN Append(s, x) = 1..(Len(s) + 1)
      /\ DOMAIN s = 1..Len(s)
      /\ Len(s) \in Nat
      /\ Append(s, x)[Len(s) + 1] = x
      /\ \A i \in 1..Len(s) : Append(s, x)[i] = s[i]
  OBVIOUS
<1>2. Range(Append(s, x)) = Range(s) \cup {x}
  BY <1>1 DEF Range
<1>3. ASSUME IsInjective(s), x \notin Range(s),
             NEW i \in DOMAIN Append(s, x), NEW j \in DOMAIN Append(s, x),
             Append(s, x)[i] = Append(s, x)[j]
      PROVE  i = j
  <2>1. \A k \in 1..Len(s) : s[k] # x
    BY <1>1, <1>3 DEF Range
  <2>2. CASE i = Len(s) + 1 \/ j = Len(s) + 1
    BY <1>1, <1>3, <2>1, <2>2
  <2>3. CASE i # Len(s) + 1 /\ j # Len(s) + 1
    <3>1. i \in DOMAIN s /\ j \in DOMAIN s /\ s[i] = s[j]
      BY <1>1, <1>3, <2>3
    <3> QED
      BY <1>3, <3>1 DEF IsInjective
  <2> QED
    BY <2>2, <2>3
<1> QED
  BY <1>2, <1>3 DEF IsInjective

(* Taking the first message of the channel takes that message out. *)
LEMMA TailOnce ==
    ASSUME NEW S, NEW s \in Seq(S), s # <<>>
    PROVE  /\ Head(s) \in S
           /\ Head(s) \in Range(s)
           /\ Tail(s) \in Seq(S)
           /\ Range(Tail(s)) \subseteq Range(s)
           /\ IsInjective(s) => IsInjective(Tail(s)) /\ Head(s) \notin Range(Tail(s))
<1>1. /\ DOMAIN Tail(s) = 1..(Len(s) - 1)
      /\ DOMAIN s = 1..Len(s)
      /\ Len(s) \in Nat \ {0}
      /\ Head(s) = s[1]
      /\ \A i \in 1..(Len(s) - 1) : Tail(s)[i] = s[i + 1]
  OBVIOUS
<1>2. Head(s) \in Range(s) /\ Range(Tail(s)) \subseteq Range(s)
  BY <1>1 DEF Range
<1>3. ASSUME IsInjective(s), NEW i \in DOMAIN Tail(s)
      PROVE  /\ Tail(s)[i] # Head(s)
             /\ \A j \in DOMAIN Tail(s) : Tail(s)[i] = Tail(s)[j] => i = j
  <2>1. /\ i + 1 \in DOMAIN s /\ i + 1 # 1 /\ 1 \in DOMAIN s
        /\ \A j \in DOMAIN Tail(s) : j + 1 \in DOMAIN s /\ (i + 1 = j + 1 => i = j)
    BY <1>1
  <2> QED
    BY <1>1, <1>3, <2>1 DEF IsInjective
<1> QED
  BY <1>2, <1>3 DEF IsInjective, Range

(* A list without repetitions has as many calls as it is long. *)
LEMMA RangeCardinality ==
    ASSUME NEW S, NEW s \in Seq(S), IsInjective(s)
    PROVE  IsFiniteSet(Range(s)) /\ Cardinality(Range(s)) = Len(s)
<1>1. Len(s) \in Nat /\ s \in [1..Len(s) -> Range(s)]
  BY DEF Range
<1>2. s \in Bijection(1..Len(s), Range(s))
  BY <1>1 DEF Bijection, Injection, Surjection, Range
<1>3. ExistsBijection(1..Len(s), Range(s))
  BY <1>2, Zenon DEF ExistsBijection
<1> QED
  BY <1>1, <1>3, FS_NatBijection, FS_CountingElements, Zenon

(* Nothing is in an empty list, and only calls in a list of calls. *)
LEMMA RangeType ==
    /\ Range(<<>>) = {}
    /\ IsInjective(<<>>)
    /\ \A S : \A s \in Seq(S) : Range(s) \subseteq S /\ (Range(s) = {} => s = <<>>)
<1>1. ASSUME NEW S, NEW s \in Seq(S), s # <<>>
      PROVE  Range(s) # {}
  BY <1>1, TailOnce
<1> QED
  BY <1>1 DEF Range, IsInjective

(* The key of a call is one of the manager's keys. *)
LEMMA KeyOfKeys == \A c \in Calls : KeyOf(c) \in Keys
  BY DEF Keys

(* The key in hand is that of the calls of the batch. *)
LEMMA BatchKey ==
    ASSUME Typed, batch # {}
    PROVE  \E c \in batch : Key = KeyOf(c)
  BY DEF Key

-----------------------------------------------------------------------------
(* Each part of the invariant is kept by each step. *)

(* The task ends: waiting subscribers fail, all others stay as they are. *)
LEMMA EndTaskEffect ==
    ASSUME Typed, SubscribersWait, EndTask
    PROVE  /\ manager' = "ended"
           /\ call' \in [Calls -> {"committing", "waiting", "answered", "failed"}]
           /\ \A c \in Calls : call'[c] = call[c] \/ (call[c] = "waiting" /\ call'[c] = "failed")
           /\ \A k \in Keys : subscribers'[k] = <<>> /\ unordered'[k] = <<>>
           /\ subscribers' \in [Keys -> Seq(Calls)]
           /\ unordered' \in [Keys -> Seq(Calls)]
  BY DEF EndTask, Typed, SubscribersWait

(* Every step keeps the types. *)
LEMMA StepTyped ==
    ASSUME Typed, SubscribersWait, [ContractNext]_contractVars
    PROVE  Typed'
<1> USE DEF tick
<1>1. ASSUME NEW d \in Deploys, Deploy(d)
      PROVE  Typed'
  BY <1>1 DEF Deploy, Typed
<1>2. ASSUME NEW c \in Calls, send_contract_ordering_message(c)
      PROVE  Typed'
  BY <1>2 DEF send_contract_ordering_message, Typed
<1>3. CASE process_tx
  <2>1. Head(messages) \in Calls /\ Tail(messages) \in Seq(Calls)
    BY <1>3, TailOnce DEF process_tx, Typed
  <2> QED
    BY <1>3, <2>1, KeyOfKeys DEF process_tx, Typed
<1>4. CASE Interval
  BY <1>4 DEF Interval, Typed
<1>5. ASSUME NEW k \in Keys, ReadState(k)
      PROVE  Typed'
  <2>1. Range(unordered[k]) \subseteq Calls
    BY RangeType DEF Typed
  <2> QED
    BY <1>5, <2>1 DEF ReadState, Typed
<1>6. CASE ExecuteFails \/ \E k \in Keys : ReadFails(k)
  BY <1>6, EndTaskEffect DEF ExecuteFails, ReadFails, Typed
<1>7. ASSUME NEW c \in Calls, Execute(c)
      PROVE  Typed'
  <2>1. DOMAIN answer' = Calls /\ UNCHANGED messages
    BY <1>7 DEF Execute
  <2>2. CASE RemoveInBounds
    <3>1. /\ call' = [d \in Calls |->
                        IF d \in Range(subscribers[Key]) THEN "answered" ELSE call[d]]
          /\ subscribers' = [subscribers EXCEPT ![Key] = <<>>]
          /\ UNCHANGED <<manager, unordered>>
      BY <1>7, <2>2 DEF Execute
    <3>2. keys' \subseteq keys /\ batch' \subseteq batch /\ idx' \in {0, idx + 1}
      BY <1>7, <2>2 DEF Execute
    <3>3. call' \in [Calls -> {"committing", "waiting", "answered", "failed"}]
      BY <3>1 DEF Typed
    <3>4. subscribers' \in [Keys -> Seq(Calls)]
      <4>1. subscribers \in [Keys -> Seq(Calls)] /\ <<>> \in Seq(Calls)
        BY DEF Typed
      <4> QED
        BY <3>1, <4>1, Zenon
    <3> QED
      BY <2>1, <3>1, <3>2, <3>3, <3>4 DEF Typed
  <2>3. CASE ~RemoveInBounds
    <3>1. /\ manager' = "ended"
          /\ call' \in [Calls -> {"committing", "waiting", "answered", "failed"}]
          /\ subscribers' = [k \in Keys |-> <<>>]
          /\ unordered' = [k \in Keys |-> <<>>]
          /\ UNCHANGED <<keys, batch, idx>>
      BY <1>7, <2>3 DEF Execute, Typed
    <3> QED
      BY <2>1, <3>1 DEF Typed
  <2> QED
    BY <2>2, <2>3
<1>8. CASE TickDone
  BY <1>8 DEF TickDone, Typed
<1>9. CASE Started \/ NodeStops \/ UNCHANGED contractVars
  <2>1. UNCHANGED <<call, answer, messages, unordered, subscribers, manager, keys,
                    batch, idx>>
    BY <1>9 DEF Started, NodeStops, contractVars
  <2> QED
    BY <2>1 DEF Typed
<1> QED
  BY <1>1, <1>2, <1>3, <1>4, <1>5, <1>6, <1>7, <1>8,
     <1>9 DEF ContractNext, Manage

(* A call that was sent is not sent again. *)
LEMMA SentStays ==
    ASSUME Typed, SubscribersWait, [ContractNext]_contractVars
    PROVE  \A c \in Calls : call[c] # "committing" => call'[c] # "committing"
<1> USE DEF tick
<1>1. CASE ExecuteFails \/ \E k \in Keys : ReadFails(k)
  BY <1>1, EndTaskEffect DEF ExecuteFails, ReadFails
<1>2. ASSUME NEW c \in Calls, Execute(c)
      PROVE  \A d \in Calls : call[d] # "committing" => call'[d] # "committing"
  <2>1. CASE RemoveInBounds
    BY <1>2, <2>1 DEF Execute
  <2>2. CASE ~RemoveInBounds
    BY <1>2, <2>2 DEF Execute
  <2> QED
    BY <2>1, <2>2
<1>3. ASSUME NEW c \in Calls, send_contract_ordering_message(c)
      PROVE  \A d \in Calls : call[d] # "committing" => call'[d] # "committing"
  BY <1>3 DEF send_contract_ordering_message, Typed
<1>4. CASE UNCHANGED call
  BY <1>4
<1>5. CASE \/ \E d \in Deploys : Deploy(d)
           \/ process_tx \/ Interval
           \/ \E k \in Keys : ReadState(k)
           \/ TickDone \/ Started \/ NodeStops \/ UNCHANGED contractVars
  BY <1>4, <1>5, Zenon DEF Deploy, process_tx, Interval, ReadState, TickDone, Started,
                    NodeStops, contractVars
<1> QED
  BY <1>1, <1>2, <1>3, <1>5 DEF ContractNext, Manage

(* No call enters the lists a second time. *)
LEMMA StepSentOnce ==
    ASSUME Typed, SentOnce, SubscribersWait, [ContractNext]_contractVars
    PROVE  SentOnce'
<1> USE DEF tick
<1>1. \A c \in Calls : call[c] # "committing" => call'[c] # "committing"
  BY SentStays
<1>2. /\ Range(messages) \subseteq Calls
      /\ \A k \in Keys : Range(unordered[k]) \subseteq Calls
  BY RangeType DEF Typed
<1>3. ASSUME messages' = messages,
             \A k \in Keys : unordered'[k] \in {unordered[k], <<>>}
      PROVE  SentOnce'
  <2>1. IsInjective(messages') /\ \A c \in Range(messages') : call'[c] # "committing"
    BY <1>1, <1>2, <1>3 DEF SentOnce
  <2>2. ASSUME NEW k \in Keys
        PROVE  /\ IsInjective(unordered'[k])
               /\ \A c \in Range(unordered'[k]) : /\ KeyOf(c) = k
                                                  /\ call'[c] # "committing"
                                                  /\ c \notin Range(messages')
    <3>1. CASE unordered'[k] = unordered[k]
      BY <1>1, <1>2, <1>3, <3>1 DEF SentOnce
    <3>2. CASE unordered'[k] = <<>>
      BY <3>2, RangeType
    <3> QED
      BY <1>3, <3>1, <3>2
  <2> QED
    BY <2>1, <2>2 DEF SentOnce, KeyOf
<1>4. ASSUME NEW c \in Calls, send_contract_ordering_message(c)
      PROVE  SentOnce'
  <2>1. /\ call[c] = "committing" /\ call'[c] # "committing"
        /\ messages' = Append(messages, c)
        /\ UNCHANGED unordered
    BY <1>4 DEF send_contract_ordering_message, Typed
  <2>2. c \notin Range(messages) /\ \A k \in Keys : c \notin Range(unordered[k])
    BY <2>1 DEF SentOnce
  <2>3. /\ Range(messages') = Range(messages) \cup {c}
        /\ IsInjective(messages')
    BY <2>1, <2>2, AppendOnce DEF Typed, SentOnce
  <2>4. \A d \in Range(messages') : call'[d] # "committing"
    BY <1>1, <1>2, <2>1, <2>3 DEF SentOnce
  <2>5. \A k \in Keys : \A d \in Range(unordered[k]) :
            /\ KeyOf(d) = k
            /\ call'[d] # "committing"
            /\ d \notin Range(messages')
    BY <1>1, <1>2, <2>2, <2>3 DEF SentOnce
  <2> QED
    BY <2>1, <2>3, <2>4, <2>5 DEF SentOnce, KeyOf
<1>5. CASE process_tx
  <2> DEFINE c == Head(messages)
  <2>1. /\ messages # <<>>
        /\ messages' = Tail(messages)
        /\ unordered' = [unordered EXCEPT ![KeyOf(c)] = Append(@, c)]
        /\ UNCHANGED call
    BY <1>5 DEF process_tx
  <2>2. /\ c \in Calls /\ c \in Range(messages)
        /\ Range(messages') \subseteq Range(messages)
        /\ IsInjective(messages')
        /\ c \notin Range(messages')
    BY <2>1, TailOnce DEF Typed, SentOnce
  <2> HIDE DEF c
  <2>3. \A d \in Range(messages') : call'[d] # "committing"
    BY <2>1, <2>2 DEF SentOnce
  <2>4. ASSUME NEW k \in Keys
        PROVE  /\ IsInjective(unordered'[k])
               /\ \A d \in Range(unordered'[k]) : /\ KeyOf(d) = k
                                                  /\ call'[d] # "committing"
                                                  /\ d \notin Range(messages')
    <3>1. CASE k # KeyOf(c)
      <4>1. unordered'[k] = unordered[k]
        BY <2>1, <3>1 DEF Typed
      <4> QED
        BY <2>1, <2>2, <4>1 DEF SentOnce
    <3>2. CASE k = KeyOf(c)
      <4>1. unordered'[k] = Append(unordered[k], c)
        BY <2>1, <3>2 DEF Typed
      <4>2. c \notin Range(unordered[k]) /\ unordered[k] \in Seq(Calls)
        BY <2>2 DEF SentOnce, Typed
      <4>3. /\ Range(unordered'[k]) = Range(unordered[k]) \cup {c}
            /\ IsInjective(unordered'[k])
        BY <2>2, <4>1, <4>2, AppendOnce DEF SentOnce
      <4> QED
        BY <2>1, <2>2, <3>2, <4>3 DEF SentOnce
    <3> QED
      BY <3>1, <3>2
  <2> QED
    BY <2>2, <2>3, <2>4 DEF SentOnce, KeyOf
<1>6. CASE ExecuteFails \/ \E k \in Keys : ReadFails(k)
  BY <1>3, <1>6, EndTaskEffect, Zenon DEF ExecuteFails, ReadFails
<1>7. ASSUME NEW c \in Calls, Execute(c)
      PROVE  SentOnce'
  <2>1. \A k \in Keys : unordered'[k] \in {unordered[k], <<>>}
    BY <1>7 DEF Execute
  <2> QED
    BY <1>3, <1>7, <2>1 DEF Execute
<1>8. CASE TickDone
  BY <1>3, <1>8 DEF TickDone
<1>9. CASE \/ \E d \in Deploys : Deploy(d)
           \/ Interval
           \/ \E k \in Keys : ReadState(k)
           \/ Started \/ NodeStops \/ UNCHANGED contractVars
  <2>1. UNCHANGED <<messages, unordered>>
    BY <1>9, Zenon DEF Deploy, Interval, ReadState, Started, NodeStops, contractVars
  <2> QED
    BY <1>3, <2>1
<1> QED
  BY <1>4, <1>5, <1>6, <1>7, <1>8, <1>9 DEF ContractNext, Manage

(* While the task runs, subscribers are in the list of their key and no    *)
(* longer in the channel.                                                  *)
LEMMA SubscribersListed ==
    ASSUME Typed, SentOnce, SubscribersWait, manager # "ended", NEW k \in Keys
    PROVE  /\ Range(subscribers[k]) \subseteq Range(unordered[k])
           /\ Range(subscribers[k]) \cap Range(messages) = {}
<1>1. subscribers[k] \in {unordered[k], <<>>}
  BY DEF Typed, SubscribersWait
<1> QED
  BY <1>1, RangeType DEF SentOnce

(* One round of the loop: which state is stored, and when the removal by   *)
(* index is out of bounds: never in the first round, and always in the     *)
(* last one of several.                                                    *)
LEMMA ExecuteEffect ==
    ASSUME Typed, SentOnce, BatchSound, RowsAddUp, NEW c \in Calls, Execute(c)
    PROVE  /\ manager = "tick" /\ c \in batch
           /\ Key \in Keys
           /\ state' = state \cup {Marker(c)}
           /\ Marker(c).address = Key.address
           /\ Marker(c).selector = NoSelector
           /\ Marker(c).nonce = most_recent.nonce + 1
           /\ Marker(c).nonce \in Nat
           /\ Marker(c).marker = c
           /\ Marker(c).base = most_recent.marker
           /\ idx = 0 => RemoveInBounds
           /\ RemoveInBounds /\ batch \ {c} = {} => idx = 0
<1>1. manager = "tick" /\ c \in batch
  BY DEF Execute, Earliest
<1>2. /\ Key \in Keys
      /\ Key.selector = NoSelector
      /\ most_recent \in state
      /\ IsFiniteSet(batch)
      /\ Cardinality(batch) + idx = Len(unordered[Key])
  BY <1>1 DEF BatchSound, Typed
<1>3. /\ Marker(c).address = Key.address
      /\ Marker(c).selector = NoSelector
      /\ Marker(c).nonce = most_recent.nonce + 1
      /\ Marker(c).nonce \in Nat
      /\ Marker(c).marker = c
      /\ Marker(c).base = most_recent.marker
  BY <1>2 DEF Marker, Row, RowsAddUp
<1>4. state' = state \cup {Marker(c)}
  <2>1. insert_state(Marker(c))
    BY DEF Execute
  <2> QED
    BY <1>3, <2>1 DEF insert_state
<1>5. Cardinality(batch) \in Nat /\ Cardinality(batch) # 0
  BY <1>1, <1>2, FS_CardinalityType, FS_EmptySet
<1>6. idx = 0 => RemoveInBounds
  BY <1>2, <1>5 DEF RemoveInBounds, Typed
<1>7. ASSUME RemoveInBounds, batch \ {c} = {}
      PROVE  idx = 0
  <2>1. batch = {c}
    BY <1>1, <1>7
  <2>2. Cardinality(batch) = 1
    BY <2>1, FS_Singleton
  <2> QED
    BY <1>2, <1>7, <2>2 DEF RemoveInBounds, Typed
<1> QED
  BY <1>1, <1>2, <1>3, <1>4, <1>6, <1>7

(* The rest of the batch has the same key. *)
LEMMA ExecuteKey ==
    ASSUME Typed, BatchSound, manager = "tick", batch' \subseteq batch, batch' # {}
    PROVE  Key' = Key
<1>1. \A c \in batch : KeyOf(c) = Key
  BY DEF BatchSound
<1>2. PICK c \in batch' : Key' = KeyOf(c)
  BY DEF Key, KeyOf
<1> QED
  BY <1>1, <1>2

(* Subscribers come and go with the lists of their keys. *)
LEMMA StepSubscribersWait ==
    ASSUME Typed, SentOnce, SubscribersWait, BatchSound, RowsAddUp,
           [ContractNext]_contractVars
    PROVE  SubscribersWait'
<1> USE DEF tick
<1>1. /\ Range(messages) \subseteq Calls
      /\ \A k \in Keys : Range(subscribers[k]) \subseteq Calls
  BY RangeType DEF Typed
<1>2. ASSUME UNCHANGED <<call, messages, unordered, subscribers, manager, keys, batch, idx>>
      PROVE  SubscribersWait'
  BY <1>2 DEF SubscribersWait, Key, KeyOf
<1>3. ASSUME NEW c \in Calls, send_contract_ordering_message(c)
      PROVE  SubscribersWait'
  <2>1. /\ messages' = Append(messages, c)
        /\ call' = [call EXCEPT ![c] = "waiting"]
        /\ UNCHANGED <<unordered, subscribers, manager, keys, batch, idx>>
    BY <1>3 DEF send_contract_ordering_message
  <2>2. Range(messages') = Range(messages) \cup {c}
    BY <2>1, AppendOnce DEF Typed
  <2>3. /\ \A d \in Range(messages') : call'[d] = "waiting"
        /\ \A k \in Keys : \A d \in Range(subscribers[k]) :
              call'[d] = "waiting" /\ KeyOf(d) = k
    BY <1>1, <2>1, <2>2 DEF SubscribersWait, Typed
  <2> QED
    BY <2>1, <2>3 DEF SubscribersWait, Key, KeyOf
<1>4. CASE process_tx
  <2> DEFINE c == Head(messages)
  <2>1. /\ manager = "waiting" /\ manager' = "waiting"
        /\ messages # <<>>
        /\ messages' = Tail(messages)
        /\ unordered' = [unordered EXCEPT ![KeyOf(c)] = Append(@, c)]
        /\ subscribers' = [subscribers EXCEPT ![KeyOf(c)] = Append(@, c)]
        /\ UNCHANGED <<call, batch>>
    BY <1>4 DEF process_tx
  <2>2. /\ c \in Calls /\ c \in Range(messages)
        /\ Range(messages') \subseteq Range(messages)
    BY <2>1, TailOnce DEF Typed
  <2> HIDE DEF c
  <2>3. subscribers' = unordered' /\ batch' = {}
    BY <2>1 DEF SubscribersWait
  <2>4. ASSUME NEW k \in Keys, NEW d \in Range(subscribers'[k])
        PROVE  call'[d] = "waiting" /\ KeyOf(d) = k
    <3>1. CASE k # KeyOf(c)
      BY <2>1, <2>4, <3>1 DEF Typed, SubscribersWait
    <3>2. CASE k = KeyOf(c)
      <4>1. subscribers'[k] = Append(subscribers[k], c)
        BY <2>1, <3>2 DEF Typed
      <4>2. Range(subscribers'[k]) = Range(subscribers[k]) \cup {c}
        BY <2>2, <4>1, AppendOnce DEF Typed
      <4> QED
        BY <2>1, <2>2, <2>4, <3>2, <4>2 DEF SubscribersWait
    <3> QED
      BY <3>1, <3>2
  <2> QED
    BY <2>1, <2>2, <2>3, <2>4 DEF SubscribersWait, KeyOf
<1>5. CASE Interval
  <2>1. /\ manager = "waiting" /\ manager' = "tick"
        /\ keys' = {k \in Keys : unordered[k] # <<>>}
        /\ UNCHANGED <<call, messages, unordered, subscribers, batch, idx>>
        /\ subscribers = unordered /\ batch = {}
    BY <1>5 DEF Interval, SubscribersWait
  <2> QED
    BY <2>1 DEF SubscribersWait, KeyOf
<1>6. ASSUME NEW k \in Keys, ReadState(k)
      PROVE  SubscribersWait'
  <2>1. /\ manager = "tick" /\ manager' = "tick"
        /\ batch = {} /\ idx' = 0
        /\ UNCHANGED <<call, messages, unordered, subscribers, keys>>
    BY <1>6 DEF ReadState
  <2> QED
    BY <2>1 DEF SubscribersWait, KeyOf
<1>7. CASE ExecuteFails \/ \E k \in Keys : ReadFails(k)
  <2>1. EndTask /\ UNCHANGED messages /\ manager = "tick"
    BY <1>7 DEF ExecuteFails, ReadFails
  <2>2. \A c \in Range(messages) : call'[c] = call[c]
    <3>1. \A k \in Keys : Range(subscribers[k]) \cap Range(messages) = {}
      BY <2>1, SubscribersListed
    <3> QED
      BY <1>1, <2>1, <3>1 DEF EndTask
  <2>3. /\ manager' = "ended"
        /\ \A k \in Keys : subscribers'[k] = <<>>
    BY <2>1, EndTaskEffect
  <2> QED
    BY <2>1, <2>2, <2>3, RangeType DEF SubscribersWait
<1>8. ASSUME NEW c \in Calls, Execute(c)
      PROVE  SubscribersWait'
  <2>1. /\ manager = "tick" /\ c \in batch
        /\ Key \in Keys
        /\ UNCHANGED messages
    BY <1>8, ExecuteEffect DEF Execute
  <2>2. /\ \A k \in Keys : Range(subscribers[k]) \cap Range(messages) = {}
    BY <2>1, SubscribersListed
  <2>3. \A d \in Range(messages) : call'[d] = call[d]
    <3>1. CASE RemoveInBounds
      BY <1>1, <1>8, <2>1, <2>2, <3>1 DEF Execute
    <3>2. CASE ~RemoveInBounds
      BY <1>1, <1>8, <2>1, <2>2, <3>2 DEF Execute
    <3> QED
      BY <3>1, <3>2
  <2>4. CASE ~RemoveInBounds
    <3>1. /\ manager' = "ended"
          /\ \A k \in Keys : subscribers'[k] = <<>>
      BY <1>8, <2>4 DEF Execute
    <3> QED
      BY <2>1, <2>3, <3>1, RangeType DEF SubscribersWait
  <2>5. CASE RemoveInBounds
    <3>1. /\ call' = [d \in Calls |->
                        IF d \in Range(subscribers[Key]) THEN "answered" ELSE call[d]]
          /\ subscribers' = [subscribers EXCEPT ![Key] = <<>>]
          /\ batch' = batch \ {c}
          /\ UNCHANGED <<manager, unordered>>
          /\ \/ batch' = {} /\ idx' = 0 /\ keys' = keys \ {Key}
             \/ batch' # {} /\ idx' = idx + 1 /\ keys' = keys
      BY <1>8, <2>5 DEF Execute
    <3>2. ASSUME NEW k \in Keys, NEW d \in Range(subscribers'[k])
          PROVE  call'[d] = "waiting" /\ KeyOf(d) = k
      <4>1. k # Key /\ subscribers'[k] = subscribers[k]
        BY <2>1, <3>1, <3>2, RangeType DEF Typed
      <4>2. d \in Calls /\ KeyOf(d) = k /\ call[d] = "waiting"
        BY <1>1, <3>2, <4>1 DEF SubscribersWait
      <4>3. d \notin Range(subscribers[Key])
        BY <2>1, <4>1, <4>2 DEF SubscribersWait
      <4> QED
        BY <3>1, <4>2, <4>3
    <3>3. ASSUME NEW k \in Keys
          PROVE  subscribers'[k] =
                   IF k \in keys' /\ ~(batch' # {} /\ k = Key' /\ idx' > 0)
                   THEN unordered'[k] ELSE <<>>
      <4>1. CASE k = Key
        <5>1. subscribers'[k] = <<>>
          BY <3>1, <4>1 DEF Typed
        <5>2. CASE batch' = {}
          BY <3>1, <4>1, <5>1, <5>2
        <5>3. CASE batch' # {}
          <6>1. Key' = Key /\ idx' > 0
            BY <2>1, <3>1, <5>3, ExecuteKey DEF Typed
          <6> QED
            BY <3>1, <4>1, <5>1, <5>3, <6>1
        <5> QED
          BY <5>2, <5>3
      <4>2. CASE k # Key
        <5>1. subscribers'[k] = subscribers[k] /\ (k \in keys' <=> k \in keys)
          BY <3>1, <4>2 DEF Typed
        <5>2. subscribers[k] = IF k \in keys THEN unordered[k] ELSE <<>>
          BY <2>1, <4>2 DEF SubscribersWait
        <5>3. batch' # {} => k # Key'
          BY <2>1, <3>1, <4>2, ExecuteKey
        <5> QED
          BY <3>1, <5>1, <5>2, <5>3
      <4> QED
        BY <4>1, <4>2
    <3> QED
      BY <2>1, <2>3, <3>1, <3>2, <3>3 DEF SubscribersWait, KeyOf
  <2> QED
    BY <2>4, <2>5
<1>9. CASE TickDone
  <2>1. /\ manager = "tick" /\ manager' = "waiting"
        /\ keys = {}
        /\ unordered' = [k \in Keys |-> <<>>]
        /\ UNCHANGED <<call, messages, subscribers, batch>>
    BY <1>9 DEF TickDone
  <2>2. \A k \in Keys : subscribers[k] = <<>>
    BY <2>1 DEF SubscribersWait
  <2>3. subscribers = unordered'
    BY <2>1, <2>2 DEF Typed
  <2>4. batch = {}
    BY <2>1 DEF BatchSound
  <2> QED
    BY <2>1, <2>3, <2>4 DEF SubscribersWait, KeyOf
<1>10. CASE \/ \E d \in Deploys : Deploy(d)
            \/ Started \/ NodeStops \/ UNCHANGED contractVars
  BY <1>2, <1>10 DEF Deploy, Started, NodeStops, contractVars
<1> QED
  BY <1>3, <1>4, <1>5, <1>6, <1>7, <1>8, <1>9, <1>10 DEF ContractNext, Manage

(* A step adds at most one row to the table, and takes none out. *)
LEMMA StateGrows ==
    ASSUME Typed, SentOnce, BatchSound, RowsAddUp, [ContractNext]_contractVars
    PROVE  /\ state \subseteq state'
           /\ deployed \subseteq deployed'
           /\ \/ state' = state
              \/ \E d \in Deploys : Deploy(d)
              \/ \E c \in Calls : Execute(c)
<1>1. ASSUME NEW d \in Deploys, Deploy(d)
      PROVE  state \subseteq state' /\ deployed \subseteq deployed'
  BY <1>1 DEF Deploy, insert_state, Row
<1>2. ASSUME NEW c \in Calls, Execute(c)
      PROVE  state \subseteq state' /\ deployed \subseteq deployed'
  <2>1. state' = state \cup {Marker(c)}
    BY <1>2, ExecuteEffect
  <2> QED
    BY <1>2, <2>1 DEF Execute
<1>3. CASE UNCHANGED <<state, deployed>>
  BY <1>3
<1>4. \/ UNCHANGED <<state, deployed>>
      \/ \E d \in Deploys : Deploy(d)
      \/ \E c \in Calls : Execute(c)
  <2>1. CASE \/ \E c \in Calls : send_contract_ordering_message(c)
             \/ process_tx \/ Interval \/ TickDone
             \/ Started \/ NodeStops \/ UNCHANGED contractVars
    BY <2>1 DEF send_contract_ordering_message, process_tx, Interval, TickDone,
                Started, NodeStops, contractVars
  <2>2. CASE ExecuteFails \/ \E k \in Keys : ReadState(k) \/ ReadFails(k)
    BY <2>2 DEF ExecuteFails, ReadState, ReadFails
  <2> QED
    BY <2>1, <2>2 DEF ContractNext, Manage
<1> QED
  BY <1>1, <1>2, <1>3, <1>4

(* A new row is a deploy's, with nonce 0, or follows the state in hand. *)
LEMMA StepRowsAddUp ==
    ASSUME Typed, SentOnce, BatchSound, RowsAddUp, [ContractNext]_contractVars
    PROVE  RowsAddUp'
<1> DEFINE Follows(s, S, D) ==
      \/ s.nonce = 0 /\ s.marker \in D
      \/ \E t \in S : t.address = s.address /\ t.marker = s.base /\ t.nonce + 1 = s.nonce
<1>1. \A s \in state : s.nonce \in Nat /\ s.selector = NoSelector
                         /\ Follows(s, state, deployed)
  BY DEF RowsAddUp, StatesFollow
<1>2. state \subseteq state' /\ deployed \subseteq deployed'
  BY StateGrows
<1>3. \A s \in state : Follows(s, state', deployed')
  BY <1>1, <1>2
<1>4. \A s \in state' \ state : s.nonce \in Nat /\ s.selector = NoSelector
                                  /\ Follows(s, state', deployed')
  <2>1. ASSUME NEW d \in Deploys, Deploy(d), NEW s \in state' \ state
        PROVE  s.nonce \in Nat /\ s.selector = NoSelector
                 /\ Follows(s, state', deployed')
    <3>1. s = Row(AddressOf[d], NoSelector, 0, d, d) /\ d \in deployed'
      BY <2>1 DEF Deploy, insert_state
    <3> QED
      BY <3>1 DEF Row
  <2>2. ASSUME NEW c \in Calls, Execute(c), NEW s \in state' \ state
        PROVE  s.nonce \in Nat /\ s.selector = NoSelector
                 /\ Follows(s, state', deployed')
    <3>1. /\ s = Marker(c)
          /\ Marker(c).address = Key.address
          /\ Marker(c).selector = NoSelector
          /\ Marker(c).nonce = most_recent.nonce + 1
          /\ Marker(c).nonce \in Nat
          /\ Marker(c).base = most_recent.marker
          /\ manager = "tick" /\ batch # {}
      BY <2>2, ExecuteEffect
    <3>2. most_recent \in state' /\ most_recent.address = Key.address
      BY <1>2, <3>1 DEF BatchSound
    <3> QED
      BY <3>1, <3>2
  <2> QED
    BY <2>1, <2>2, StateGrows
<1> QED
  BY <1>1, <1>3, <1>4 DEF RowsAddUp, StatesFollow

(* The batch in hand shrinks call by call as idx grows. *)
LEMMA StepBatchSound ==
    ASSUME Typed, SentOnce, SubscribersWait, BatchSound, RowsAddUp,
           [ContractNext]_contractVars
    PROVE  BatchSound'
<1> USE DEF tick
<1>1. ASSUME UNCHANGED <<unordered, manager, keys, batch, idx, most_recent, state>>
      PROVE  BatchSound'
  BY <1>1 DEF BatchSound, Key, KeyOf
<1>2. ASSUME NEW d \in Deploys, Deploy(d)
      PROVE  BatchSound'
  <2>1. /\ UNCHANGED <<unordered, manager, keys, batch, idx, most_recent>>
        /\ state' = state \cup {Row(AddressOf[d], NoSelector, 0, d, d)}
    BY <1>2 DEF Deploy, insert_state, Row
  <2>2. \A s \in state' \ state : s.nonce = 0
    BY <2>1 DEF Row
  <2>3. Key' = Key
    BY <2>1 DEF Key, KeyOf
  <2>4. manager = "tick" /\ batch # {} => most_recent.nonce \in Nat
    BY DEF BatchSound, RowsAddUp
  <2>5. ASSUME manager = "tick", batch # {}, idx = 0,
               NEW s \in state', s.address = Key.address
        PROVE  s.nonce <= most_recent.nonce
    <3>1. CASE s \in state
      BY <2>5, <3>1 DEF BatchSound
    <3>2. CASE s \notin state
      BY <2>2, <2>4, <2>5, <3>2
    <3> QED
      BY <3>1, <3>2
  <2> QED
    BY <2>1, <2>3, <2>5 DEF BatchSound, KeyOf
<1>3. CASE manager' # "tick" \/ batch' = {}
  BY <1>3 DEF BatchSound
<1>4. ASSUME NEW k \in Keys, ReadState(k), batch' # {}
      PROVE  BatchSound'
  <2>1. /\ manager' = "tick"
        /\ k \in keys
        /\ batch' = Range(unordered[k])
        /\ idx' = 0
        /\ UNCHANGED <<unordered, keys, state>>
        /\ most_recent' \in query_recent_state(k)
    BY <1>4 DEF ReadState
  <2>2. \A c \in batch' : KeyOf(c) = k
    BY <2>1 DEF SentOnce
  <2>3. Key' = k
    BY <1>4, <2>2 DEF Key, KeyOf
  <2>4. /\ most_recent' \in state
        /\ most_recent'.address = k.address
        /\ k.selector # NoSelector => most_recent'.selector = k.selector
    BY <2>1 DEF query_recent_state
  <2>5. k.selector = NoSelector
    BY <2>4 DEF RowsAddUp
  <2>6. \A s \in state : s.address = k.address => s.nonce <= most_recent'.nonce
    BY <2>1, <2>5 DEF query_recent_state
  <2>7. IsFiniteSet(batch') /\ Cardinality(batch') = Len(unordered[k])
    BY <2>1, RangeCardinality DEF Typed, SentOnce
  <2>8. Cardinality(batch') + idx' = Len(unordered[k])
    <3>1. Len(unordered[k]) \in Nat
      BY DEF Typed
    <3> QED
      BY <2>1, <2>7, <3>1
  <2> QED
    BY <2>1, <2>2, <2>3, <2>4, <2>5, <2>6, <2>7, <2>8 DEF BatchSound, KeyOf
<1>5. ASSUME NEW c \in Calls, Execute(c), manager' = "tick", batch' # {}
      PROVE  BatchSound'
  <2>1. /\ manager = "tick" /\ c \in batch
        /\ state \subseteq state'
    BY <1>5, ExecuteEffect
  <2>2. /\ batch' = batch \ {c}
        /\ idx' = idx + 1
        /\ keys' = keys
        /\ UNCHANGED <<unordered, most_recent>>
    <3>1. RemoveInBounds
      BY <1>5 DEF Execute
    <3> QED
      BY <1>5, <3>1 DEF Execute
  <2>3. Key' = Key
    BY <1>5, <2>1, <2>2, ExecuteKey
  <2>4. /\ IsFiniteSet(batch)
        /\ Cardinality(batch) + idx = Len(unordered[Key])
    BY <2>1 DEF BatchSound
  <2>5. /\ IsFiniteSet(batch')
        /\ Cardinality(batch') = Cardinality(batch) - 1
    BY <2>1, <2>2, <2>4, FS_RemoveElement
  <2>6. Cardinality(batch') + idx' = Len(unordered[Key])
    <3>1. Cardinality(batch) \in Nat /\ idx \in Nat
      BY <2>4, FS_CardinalityType DEF Typed
    <3> QED
      BY <2>2, <2>4, <2>5, <3>1
  <2>7. idx' # 0
    BY <2>2 DEF Typed
  <2> QED
    BY <2>1, <2>2, <2>3, <2>5, <2>6, <2>7 DEF BatchSound, KeyOf
<1>6. CASE \/ \E c \in Calls : send_contract_ordering_message(c)
           \/ Started \/ NodeStops \/ UNCHANGED contractVars
  BY <1>1, <1>6 DEF send_contract_ordering_message, Started, NodeStops, contractVars
<1>7. CASE process_tx \/ TickDone
  BY <1>3, <1>7 DEF process_tx, TickDone
<1>8. CASE Interval
  <2>1. batch' = {}
    BY <1>8 DEF Interval, SubscribersWait
  <2> QED
    BY <1>3, <2>1
<1>9. CASE ExecuteFails \/ \E k \in Keys : ReadFails(k)
  BY <1>3, <1>9, EndTaskEffect DEF ExecuteFails, ReadFails
<1> QED
  BY <1>2, <1>3, <1>4, <1>5, <1>6, <1>7, <1>8, <1>9 DEF ContractNext, Manage

(* Only a batch of several calls makes two states from one, and it ends    *)
(* the task before it is through.                                          *)
LEMMA StepUnforked ==
    ASSUME Typed, SentOnce, SubscribersWait, BatchSound, RowsAddUp, Unforked,
           [ContractNext]_contractVars
    PROVE  Unforked'
<1> DEFINE Linear(S) == \A s, t \in S :
      s.address = t.address /\ s.nonce = t.nonce /\ s.nonce > 0 => s = t
<1> DEFINE Several == manager = "tick" /\ batch # {} /\ idx > 0
<1> USE DEF tick
<1>1. SUFFICES ASSUME manager' # "ended", ~Several'
               PROVE  Linear(state')
  BY DEF Unforked
<1>2. manager # "ended" /\ ~Several => Linear(state)
  BY DEF Unforked
<1>3. ASSUME NEW d \in Deploys, Deploy(d)
      PROVE  Linear(state')
  <2>1. /\ UNCHANGED <<manager, batch, idx>>
        /\ state' = state \cup {Row(AddressOf[d], NoSelector, 0, d, d)}
    BY <1>3 DEF Deploy, insert_state, Row
  <2>2. Linear(state)
    BY <1>1, <1>2, <2>1
  <2>3. \A s \in state' : s.nonce > 0 => s \in state
    BY <2>1 DEF Row
  <2>4. ASSUME NEW s \in state', NEW t \in state',
               s.address = t.address, s.nonce = t.nonce, s.nonce > 0
        PROVE  s = t
    <3>1. s \in state /\ t \in state
      BY <2>3, <2>4
    <3> QED
      BY <2>2, <2>4, <3>1
  <2> QED
    BY <2>4
<1>4. ASSUME NEW c \in Calls, Execute(c)
      PROVE  Linear(state')
  <2>1. RemoveInBounds
    BY <1>1, <1>4 DEF Execute
  <2>2. batch' = {}
    <3>1. /\ manager' = "tick"
          /\ batch' # {} => idx' = idx + 1
      BY <1>4, <2>1 DEF Execute
    <3> QED
      BY <1>1, <3>1 DEF Typed
  <2>3. batch' = batch \ {c}
    BY <1>4, <2>1 DEF Execute
  <2>4. /\ idx = 0 /\ manager = "tick" /\ c \in batch
        /\ state' = state \cup {Marker(c)}
        /\ Marker(c).address = Key.address
        /\ Marker(c).nonce = most_recent.nonce + 1
    BY <1>4, <2>1, <2>2, <2>3, ExecuteEffect
  <2>5. Linear(state)
    BY <1>2, <2>4
  <2>6. \A s \in state : s.address = Key.address =>
             s.nonce <= most_recent.nonce /\ s.nonce \in Nat /\ most_recent.nonce \in Nat
    BY <2>4 DEF BatchSound, RowsAddUp
  <2>7. \A s \in state : s.address = Marker(c).address => s.nonce # Marker(c).nonce
    BY <2>4, <2>6
  <2> HIDE DEF Linear
  <2> QED
    BY <2>4, <2>5, <2>7 DEF Linear
<1>5. CASE state' = state
  <2>1. manager # "ended" /\ ~Several
    <3>1. CASE process_tx \/ Interval
      BY <3>1 DEF process_tx, Interval
    <3>2. CASE TickDone
      BY <3>2 DEF TickDone, BatchSound
    <3>3. CASE ExecuteFails \/ \E k \in Keys : ReadFails(k)
      BY <1>1, <3>3, EndTaskEffect DEF ExecuteFails, ReadFails
    <3>4. ASSUME NEW k \in Keys, ReadState(k)
          PROVE  manager # "ended" /\ ~Several
      BY <3>4 DEF ReadState
    <3>5. CASE \/ \E c \in Calls : send_contract_ordering_message(c)
               \/ \E d \in Deploys : Deploy(d)
               \/ Started \/ NodeStops \/ UNCHANGED contractVars
      <4>1. UNCHANGED <<manager, batch, idx>>
        BY <3>5 DEF send_contract_ordering_message, Deploy, Started, NodeStops,
                    contractVars
      <4> QED
        BY <1>1, <4>1
    <3>6. ASSUME NEW c \in Calls, Execute(c)
          PROVE  manager # "ended" /\ ~Several
      <4>1. RemoveInBounds
        BY <1>1, <3>6 DEF Execute
      <4>2. batch' = {} /\ batch' = batch \ {c}
        <5>1. /\ manager' = "tick"
              /\ batch' = batch \ {c}
              /\ batch' # {} => idx' = idx + 1
          BY <3>6, <4>1 DEF Execute
        <5> QED
          BY <1>1, <5>1 DEF Typed
      <4> QED
        BY <3>6, <4>1, <4>2, ExecuteEffect
    <3> QED
      BY <3>1, <3>2, <3>3, <3>4, <3>5, <3>6 DEF ContractNext, Manage
  <2> QED
    BY <1>2, <1>5, <2>1
<1> QED
  BY <1>3, <1>4, <1>5, StateGrows

(* Answers are given with a stored state, in the first round of a key. *)
LEMMA StepAnswersStored ==
    ASSUME Typed, SentOnce, SubscribersWait, BatchSound, RowsAddUp, AnswersStored,
           [ContractNext]_contractVars
    PROVE  AnswersStored'
<1> USE DEF tick
<1>1. state \subseteq state'
  BY StateGrows
<1>2. ASSUME \A c \in Calls : /\ call[c] = "answered" <=> call'[c] = "answered"
                              /\ answer'[c] = answer[c]
      PROVE  AnswersStored'
  BY <1>1, <1>2 DEF AnswersStored
<1>3. ASSUME NEW c \in Calls, Execute(c)
      PROVE  AnswersStored'
  <2>1. /\ manager = "tick" /\ c \in batch
        /\ Marker(c) \in state'
        /\ Marker(c).address = Key.address
        /\ Marker(c).marker = c
        /\ idx = 0 => RemoveInBounds
    BY <1>3, ExecuteEffect
  <2>2. /\ Key \in keys /\ Key \in Keys
        /\ idx = 0 => batch = Range(unordered[Key])
        /\ subscribers[Key] = IF idx > 0 THEN <<>> ELSE unordered[Key]
    BY <2>1 DEF BatchSound, SubscribersWait, Typed
  <2>3. answer' = [d \in Calls |->
                     IF d \in Range(subscribers[Key]) THEN Marker(c) ELSE answer[d]]
    BY <1>3 DEF Execute
  <2>4. \A k \in Keys : \A d \in Range(subscribers[k]) : call[d] = "waiting" /\ KeyOf(d) = k
    BY DEF SubscribersWait
  <2>5. CASE idx = 0
    <3>1. c \in Range(subscribers[Key])
      BY <2>1, <2>2, <2>5
    <3>2. call' = [d \in Calls |->
                     IF d \in Range(subscribers[Key]) THEN "answered" ELSE call[d]]
      BY <1>3, <2>1, <2>5 DEF Execute
    <3>3. call'[c] = "answered"
      BY <3>1, <3>2
    <3>4. \A d \in Calls : call[d] = "answered" => call'[d] = "answered"
      BY <3>2
    <3>5. ASSUME NEW d \in Calls, call'[d] = "answered"
          PROVE  /\ answer'[d] \in state'
                 /\ answer'[d].address = AddressOf[d]
                 /\ answer'[d].marker \in Calls
                 /\ call'[answer'[d].marker] = "answered"
      <4>1. CASE d \in Range(subscribers[Key])
        <5>1. answer'[d] = Marker(c) /\ KeyOf(d) = Key
          BY <2>2, <2>3, <2>4, <4>1
        <5>2. Key.address = AddressOf[d]
          BY <5>1 DEF KeyOf
        <5> QED
          BY <2>1, <3>3, <5>1, <5>2
      <4>2. CASE d \notin Range(subscribers[Key])
        <5>1. answer'[d] = answer[d] /\ call[d] = "answered"
          BY <2>3, <3>2, <3>5, <4>2
        <5> QED
          BY <1>1, <3>4, <5>1 DEF AnswersStored
      <4> QED
        BY <4>1, <4>2
    <3> QED
      BY <3>5 DEF AnswersStored
  <2>6. CASE idx # 0
    <3>1. Range(subscribers[Key]) = {}
      BY <2>2, <2>6, RangeType DEF Typed
    <3>2. \A d \in Calls : answer'[d] = answer[d]
      BY <2>3, <3>1
    <3>3. \A d \in Calls : call[d] = "answered" <=> call'[d] = "answered"
      <4>1. CASE RemoveInBounds
        BY <1>3, <3>1, <4>1 DEF Execute
      <4>2. CASE ~RemoveInBounds
        <5>1. call' = [d \in Calls |->
                          IF \E k \in Keys \ {Key} : d \in Range(subscribers[k])
                          THEN "failed"
                          ELSE IF d \in Range(subscribers[Key]) THEN "answered"
                          ELSE call[d]]
          BY <1>3, <4>2 DEF Execute
        <5> QED
          BY <2>4, <3>1, <5>1
      <4> QED
        BY <4>1, <4>2
    <3> QED
      BY <1>2, <3>2, <3>3
  <2> QED
    BY <2>5, <2>6
<1>4. CASE ExecuteFails \/ \E k \in Keys : ReadFails(k)
  <2>1. EndTask /\ answer' = answer
    BY <1>4 DEF ExecuteFails, ReadFails
  <2>2. \A c \in Calls : call[c] = "answered" <=> call'[c] = "answered"
    BY <2>1, EndTaskEffect
  <2> QED
    BY <1>2, <2>1, <2>2
<1>5. ASSUME NEW c \in Calls, send_contract_ordering_message(c)
      PROVE  AnswersStored'
  <2>1. answer' = answer /\ call[c] = "committing"
        /\ call' = [call EXCEPT ![c] = "waiting"]
    BY <1>5 DEF send_contract_ordering_message
  <2>2. \A d \in Calls : call[d] = "answered" <=> call'[d] = "answered"
    BY <2>1 DEF Typed
  <2> QED
    BY <1>2, <2>1, <2>2
<1>6. CASE \/ \E d \in Deploys : Deploy(d)
           \/ process_tx \/ Interval \/ TickDone
           \/ (\E k \in Keys : ReadState(k))
           \/ Started \/ NodeStops \/ UNCHANGED contractVars
  <2>1. UNCHANGED <<call, answer>>
    BY <1>6 DEF Deploy, process_tx, Interval, TickDone, ReadState, Started,
                NodeStops, contractVars
  <2> QED
    BY <1>2, <2>1
<1> QED
  BY <1>3, <1>4, <1>5, <1>6 DEF ContractNext, Manage

-----------------------------------------------------------------------------
(* The invariant holds at the start: there are no rows, messages or lists. *)
LEMMA InitContractInv == ContractInit => ContractInv
<1> SUFFICES ASSUME ContractInit PROVE ContractInv
  OBVIOUS
<1>1. <<>> \in Seq(Calls)
  OBVIOUS
<1>2. Typed
  BY <1>1 DEF ContractInit, Typed
<1>3. SentOnce /\ SubscribersWait
  BY RangeType DEF ContractInit, SentOnce, SubscribersWait
<1>4. RowsAddUp /\ BatchSound /\ Unforked /\ AnswersStored
  BY DEF ContractInit, RowsAddUp, StatesFollow, BatchSound, Unforked, AnswersStored
<1> QED
  BY <1>2, <1>3, <1>4 DEF ContractInv

(* The conjunction is the inductive invariant of the manager task. *)
THEOREM ContractInvariant == ContractSpec => []ContractInv
<1>1. ContractInv /\ [ContractNext]_contractVars => ContractInv'
  BY StepTyped, StepSentOnce, StepSubscribersWait, StepRowsAddUp, StepBatchSound,
     StepUnforked, StepAnswersStored DEF ContractInv
<1> QED
  BY <1>1, InitContractInv, PTL DEF ContractSpec

(* Every state of a contract was computed from a stored state whose nonce  *)
(* is one less, or is the first state of a deploy, whatever deploys do     *)
(* during a tick.                                                          *)
THEOREM StatesFollowAlways == ContractSpec => []StatesFollow
<1>1. ContractInv => StatesFollow
  BY DEF ContractInv, RowsAddUp
<1> QED
  BY <1>1, ContractInvariant, PTL

(* Two states computed from the same one are found only in a tick that is  *)
(* under way or that ended the task: a batch of several calls always       *)
(* overruns the list it removes from.                                      *)
THEOREM ForksEndTheTask == ContractSpec => []ForkEndsTask
<1>1. ContractInv => ForkEndsTask
  BY DEF ContractInv, Unforked, ForkEndsTask
<1> QED
  BY <1>1, ContractInvariant, PTL

(* An answered call was answered with a stored state of its own contract,  *)
(* computed by a call that was sent and did not fail.                      *)
THEOREM AnswersAreStored == ContractSpec => []AnswerStored
<1>1. ContractInv => AnswerStored
  BY DEF ContractInv, AnswersStored, AnswerStored
<1> QED
  BY <1>1, ContractInvariant, PTL

=============================================================================

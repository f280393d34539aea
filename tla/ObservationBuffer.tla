-------------------------- MODULE ObservationBuffer --------------------------
(***************************************************************************)
(* The observation buffer (src/core/observation.rs) and the tables it      *)
(* writes (data/src/observation_store.rs).  Callers of Relay::observe send *)
(* metadata and wait for a proof.  The buffer task folds over messages and *)
(* ticks, one at a time: a message is buffered, a tick signs what is in    *)
(* the buffer as the next observation of the node's own chain, stores it   *)
(* with an edge per metadata, gossips it and sends each proof to the       *)
(* subscriber of its hash.  The callers run beside the task.               *)
(***************************************************************************)
EXTENDS Integers, Sequences, FiniteSets, Functions

CONSTANTS
    Calls,                        \* calls of Relay::observe
    Hash,                         \* observed hashes
    HashOf,                       \* observed_hash of a call's metadata
    Exclusive,                    \* one caller per hash at a time
    PeerHeights,                  \* heights of stored observations of a peer
    ANCESTOR_MERKLE_ROOT_LENGTH,
    MaxRestarts                   \* bound: restarts of the node

ASSUME BufferAssumption ==
    /\ HashOf \in [Calls -> Hash]
    /\ Exclusive \in BOOLEAN
    /\ PeerHeights \subseteq Nat \ {0}
    /\ ANCESTOR_MERKLE_ROOT_LENGTH \in Nat \ {0}
    /\ MaxRestarts \in Nat

VARIABLES
    call,                   \* what became of each call
    reply,                  \* the proofs in the channel of each call
    observation_metadata,   \* Relay: the channel to the buffer
    data,                   \* ObservationBuffer: the metadata to sign
    subscribers,            \* ObservationBuffer: the last call of each hash
    latest,                 \* ObservationBuffer: height of the last one
    ancestors,              \* ObservationBuffer: hashes since the last root
    stage,                  \* the await the task is at
    forming,                \* form_observation: the observation
    todo,                   \* edges to insert, or proofs to send
    observation,            \* table: the node's own observations
    observation_edge,       \* table: of those, the edges
    restarts

callVars == <<call, reply>>
bufferVars == <<data, subscribers, latest, ancestors>>
tableVars == <<observation, observation_edge>>
vars == <<callVars, observation_metadata, bufferVars, stage, forming, todo,
          tableVars, restarts>>

(* The last two stages are the ends of the task: an error of the store, of *)
(* the network or of the machine, and an error of the send to a caller.    *)
Stages == {"recv", "insert", "edges", "verify", "gossip", "respond",
           "stopped", "failed"}
Ended == {"stopped", "failed"}

(* Observations are named by who signed them and their height. *)
Own(h) == [signer |-> "self", height |-> h]
Peer(h) == [signer |-> "peer", height |-> h]

NoObservation == [height |-> 0, parent |-> 0, observations |-> <<>>,
                  ancestor_merkle_roots |-> <<>>]

Init ==
    /\ call = [c \in Calls |-> "idle"]
    /\ reply = [c \in Calls |-> <<>>]
    /\ observation_metadata = <<>>
    /\ data = <<>>
    /\ subscribers = [h \in Hash |-> {}]
    /\ latest = 0
    /\ ancestors = <<>>
    /\ stage = "recv"
    /\ forming = NoObservation
    /\ todo = <<>>
    /\ observation = {}
    /\ observation_edge = {}
    /\ restarts = 0

----------------------------------------------------------------------------
(* Callers *)

(* Relay::observe sends its metadata with the sender of a fresh channel.   *)
Observe(c) ==
    /\ call[c] = "idle"
    /\ Exclusive => \A d \in Calls :
                        HashOf[d] = HashOf[c] => call[d] # "waiting"
    /\ call' = [call EXCEPT ![c] = "waiting"]
    /\ observation_metadata' = Append(observation_metadata, c)
    /\ UNCHANGED <<reply, bufferVars, stage, forming, todo, tableVars, restarts>>

(* The first proof in the channel is the answer; the receiver is dropped.  *)
ReceiveProof(c) ==
    /\ call[c] = "waiting"
    /\ reply[c] # <<>>
    /\ call' = [call EXCEPT ![c] = "answered"]
    /\ UNCHANGED <<reply, observation_metadata, bufferVars, stage, forming,
                   todo, tableVars, restarts>>

(* "Timeout waiting for internal observation formation". *)
TimeOut(c) ==
    /\ call[c] = "waiting"
    /\ call' = [call EXCEPT ![c] = "timed_out"]
    /\ UNCHANGED <<reply, observation_metadata, bufferVars, stage, forming,
                   todo, tableVars, restarts>>

----------------------------------------------------------------------------
(* The task *)

(* Mutant: metadata of a hash that has a subscriber is not buffered. *)
SubscribeOnly ==
    /\ stage = "recv"
    /\ observation_metadata # <<>>
    /\ LET c == Head(observation_metadata) IN
          /\ subscribers' = [subscribers EXCEPT ![HashOf[c]] = {c}]
          /\ data' = IF subscribers[HashOf[c]] = {} THEN Append(data, c) ELSE data
    /\ observation_metadata' = Tail(observation_metadata)
    /\ UNCHANGED <<callVars, latest, ancestors, stage, forming, todo,
                   tableVars, restarts>>

(* A later call of the same hash takes the subscription over. *)
process_incoming ==
    /\ stage = "recv"
    /\ observation_metadata # <<>>
    /\ LET c == Head(observation_metadata) IN
          /\ subscribers' = [subscribers EXCEPT ![HashOf[c]] = {c}]
          /\ data' = Append(data, c)
    /\ observation_metadata' = Tail(observation_metadata)
    /\ UNCHANGED <<callVars, latest, ancestors, stage, forming, todo,
                   tableVars, restarts>>

(* A tick that finds no data. *)
IdleTick ==
    /\ stage = "recv"
    /\ data = <<>>
    /\ UNCHANGED vars

(* Mutant: the ancestors are kept after their root is formed. *)
KeepAncestors == ancestors

(* The ancestors left after a root is formed of exactly as many as it takes. *)
RemainingAncestors ==
    IF Len(ancestors) = ANCESTOR_MERKLE_ROOT_LENGTH THEN <<>> ELSE ancestors

AncestorRoots ==
    IF Len(ancestors) = ANCESTOR_MERKLE_ROOT_LENGTH THEN ancestors ELSE <<>>

(* Mutant: the buffer is not cleared. *)
FormAndKeep ==
    /\ stage = "recv"
    /\ data # <<>>
    /\ forming' = [height |-> latest + 1, parent |-> latest,
                   observations |-> data,
                   ancestor_merkle_roots |-> AncestorRoots]
    /\ ancestors' = RemainingAncestors
    /\ stage' = "insert"
    /\ UNCHANGED <<callVars, observation_metadata, data, subscribers, latest,
                   todo, tableVars, restarts>>

(* A tick: form_observation takes the buffer and builds the observation on *)
(* top of the latest, up to the first await.                               *)
form_observation ==
    /\ stage = "recv"
    /\ data # <<>>
    /\ data' = <<>>
    /\ forming' = [height |-> latest + 1, parent |-> latest,
                   observations |-> data,
                   ancestor_merkle_roots |-> AncestorRoots]
    /\ ancestors' = RemainingAncestors
    /\ stage' = "insert"
    /\ UNCHANGED <<callVars, observation_metadata, subscribers, latest, todo,
                   tableVars, restarts>>

insert_observation ==
    /\ stage = "insert"
    /\ observation' = observation \cup {forming}
    /\ todo' = forming.observations
    /\ stage' = "edges"
    /\ UNCHANGED <<callVars, observation_metadata, bufferVars, forming,
                   observation_edge, restarts>>

(* Mutant: the loop over the edges stops before the last. *)
EdgesButOne ==
    /\ stage = "edges"
    /\ todo # <<>>
    /\ observation_edge' = IF Len(todo) > 1
                           THEN observation_edge \cup {<<forming.height, Head(todo)>>}
                           ELSE observation_edge
    /\ todo' = Tail(todo)
    /\ UNCHANGED <<callVars, observation_metadata, bufferVars, stage, forming,
                   observation, restarts>>

insert_observation_edge ==
    /\ stage = "edges"
    /\ todo # <<>>
    /\ observation_edge' = observation_edge \cup {<<forming.height, Head(todo)>>}
    /\ todo' = Tail(todo)
    /\ UNCHANGED <<callVars, observation_metadata, bufferVars, stage, forming,
                   observation, restarts>>

InsertDone ==
    /\ stage = "edges"
    /\ todo = <<>>
    /\ stage' = "verify"
    /\ UNCHANGED <<callVars, observation_metadata, bufferVars, forming, todo,
                   tableVars, restarts>>

(* The observation is read back, and becomes the latest. *)
VerifyStored ==
    /\ stage = "verify"
    /\ forming \in observation
    /\ latest' = forming.height
    /\ ancestors' = Append(ancestors, Own(forming.height))
    /\ stage' = "gossip"
    /\ UNCHANGED <<callVars, observation_metadata, data, subscribers, forming,
                   todo, tableVars, restarts>>

gossip_req ==
    /\ stage = "gossip"
    /\ todo' = forming.observations
    /\ stage' = "respond"
    /\ UNCHANGED <<callVars, observation_metadata, bufferVars, forming,
                   tableVars, restarts>>

(* Mutant: the loop over the proofs ends with the first. *)
RespondOnce ==
    /\ stage = "respond"
    /\ todo # <<>>
    /\ LET subs == subscribers[HashOf[Head(todo)]] IN
          \/ /\ \A s \in subs : call[s] = "waiting"
             /\ reply' = [c \in Calls |-> IF c \in subs
                                          THEN Append(reply[c], Head(todo))
                                          ELSE reply[c]]
             /\ todo' = <<>>
             /\ UNCHANGED stage
          \/ /\ \E s \in subs : call[s] # "waiting"
             /\ stage' = "failed"
             /\ UNCHANGED <<reply, todo>>
    /\ UNCHANGED <<call, observation_metadata, bufferVars, forming, tableVars,
                   restarts>>

(* form_and_respond: a proof goes to the subscriber of its hash, if there  *)
(* is one.  The send fails when that call has dropped its receiver, and    *)
(* the error ends the task.                                                *)
Respond ==
    /\ stage = "respond"
    /\ todo # <<>>
    /\ LET subs == subscribers[HashOf[Head(todo)]] IN
          \/ /\ \A s \in subs : call[s] = "waiting"
             /\ reply' = [c \in Calls |-> IF c \in subs
                                          THEN Append(reply[c], Head(todo))
                                          ELSE reply[c]]
             /\ todo' = Tail(todo)
             /\ UNCHANGED stage
          \/ /\ \E s \in subs : call[s] # "waiting"
             /\ stage' = "failed"
             /\ UNCHANGED <<reply, todo>>
    /\ UNCHANGED <<call, observation_metadata, bufferVars, forming, tableVars,
                   restarts>>

RespondDone ==
    /\ stage = "respond"
    /\ todo = <<>>
    /\ stage' = "recv"
    /\ UNCHANGED <<callVars, observation_metadata, bufferVars, forming, todo,
                   tableVars, restarts>>

(* An awaited call of the store or of the network returns an error, which  *)
(* ends the task, or the node stops there.                                 *)
Stop ==
    /\ stage \notin Ended
    /\ stage' = "stopped"
    /\ UNCHANGED <<callVars, observation_metadata, bufferVars, forming, todo,
                   tableVars, restarts>>

----------------------------------------------------------------------------
(* A new process: ObservationBuffer::new on the tables that are left. *)

Heights == {o.height : o \in observation}

(* Mutant: the latest observation of whatever peer. *)
LatestOfAll ==
    CHOOSE h \in Heights \cup PeerHeights \cup {0} :
        \A g \in Heights \cup PeerHeights : g <= h

(* select_latest_observation, or an unsaved one of height 0. *)
LatestStored ==
    CHOOSE h \in Heights \cup {0} : \A g \in Heights : g <= h

(* recent_observation: rows of all signers, the highest first. *)
Recent ==
    LET rows == {Own(h) : h \in Heights} \cup {Peer(h) : h \in PeerHeights}
        ordered == CHOOSE s \in [1..Cardinality(rows) -> rows] :
                       /\ Range(s) = rows
                       /\ \A i, j \in DOMAIN s :
                              i < j => s[i].height >= s[j].height
    IN  SubSeq(ordered, 1, IF Len(ordered) < ANCESTOR_MERKLE_ROOT_LENGTH
                           THEN Len(ordered) ELSE ANCESTOR_MERKLE_ROOT_LENGTH)

AncestorCutoff == LatestStored - (LatestStored % ANCESTOR_MERKLE_ROOT_LENGTH)

Restart ==
    /\ restarts < MaxRestarts
    /\ stage \in Ended
    /\ stage' = "recv"
    /\ call' = [c \in Calls |-> IF call[c] = "waiting" THEN "lost" ELSE call[c]]
    /\ reply' = [c \in Calls |-> <<>>]
    /\ observation_metadata' = <<>>
    /\ data' = <<>>
    /\ subscribers' = [h \in Hash |-> {}]
    /\ latest' = LatestStored
    /\ ancestors' = SelectSeq(Recent, LAMBDA a : a.height >= AncestorCutoff)
    /\ forming' = NoObservation
    /\ todo' = <<>>
    /\ restarts' = restarts + 1
    /\ UNCHANGED tableVars

(* The bound on restarts is reached. *)
Halted ==
    /\ restarts = MaxRestarts
    /\ stage \in Ended
    /\ UNCHANGED vars

Task ==
    \/ process_incoming
    \/ form_observation
    \/ insert_observation
    \/ insert_observation_edge
    \/ InsertDone
    \/ VerifyStored
    \/ gossip_req
    \/ Respond
    \/ RespondDone

Next ==
    \/ \E c \in Calls : Observe(c) \/ ReceiveProof(c) \/ TimeOut(c)
    \/ Task
    \/ IdleTick
    \/ Stop
    \/ Restart
    \/ Halted

Spec == Init /\ [][Next]_vars

(* The runtime polls the task and the callers; the interval keeps ticking. *)
FairSpec ==
    /\ Spec
    /\ WF_vars(Task)
    /\ \A c \in Calls : WF_vars(ReceiveProof(c))

----------------------------------------------------------------------------
(* Properties *)

(* The node's own observations are one chain however often it stops: at    *)
(* each height up to the last there is one, and its parent is the one      *)
(* below ("This value is linked to the previous reference").               *)
ChainUnforked ==
    /\ \A o, p \in observation : o.height = p.height => o = p
    /\ \A o \in observation :
          /\ o.height = o.parent + 1
          /\ o.parent > 0 => \E p \in observation : p.height = o.parent

(* The answer of Relay::observe is a proof that can be looked up: when a   *)
(* call returned, its own metadata is in a stored observation and the edge *)
(* of that observation is stored too.                                      *)
AnsweredHasEdge ==
    \A c \in Calls : call[c] = "answered" =>
        \E o \in observation :
            /\ c \in Range(o.observations)
            /\ <<o.height, c>> \in observation_edge

(* A later call of the hash has taken the subscription. *)
Superseded(c) == subscribers[HashOf[c]] # {c}

(* No call is forgotten: while a call waits, its metadata is on the way    *)
(* through the buffer or its proof is in its channel, unless another call  *)
(* of the same hash took its subscription or the task has ended.           *)
CallAttended ==
    \A c \in Calls : call[c] = "waiting" =>
        \/ stage \in Ended
        \/ c \in Range(observation_metadata)
        \/ Superseded(c)
        \/ c \in Range(data)
        \/ stage \in {"insert", "edges", "verify", "gossip"}
              /\ c \in Range(forming.observations)
        \/ stage = "respond" /\ c \in Range(todo)
        \/ reply[c] # <<>>

(* Each own observation is an ancestor under one root or waits for the     *)
(* next, as long as the buffer was not rebuilt by a restart.               *)
AncestorsOnce ==
    restarts = 0 =>
        \A h \in 1..latest :
            Cardinality({o \in observation \cup {forming} :
                            Own(h) \in Range(o.ancestor_merkle_roots)})
              + (IF Own(h) \in Range(ancestors) THEN 1 ELSE 0) = 1

(* With one caller per hash at a time, the send that ends the task follows *)
(* a timeout of a call for that hash.                                      *)
FailsOnlyAfterTimeout ==
    Exclusive /\ stage = "failed" =>
        \E c \in Calls : HashOf[c] = HashOf[Head(todo)] /\ call[c] = "timed_out"

(* A waiting call is answered or ends, unless its subscription is taken    *)
(* over or the task ends: form_and_respond reaches every subscriber.       *)
CallEnds ==
    \A c \in Calls :
        call[c] = "waiting" ~>
            call[c] # "waiting" \/ Superseded(c) \/ stage \in Ended

(* Calls whose metadata is in a stored observation. *)
Signed == {c \in Calls : \E o \in observation : c \in Range(o.observations)}

Abstract == INSTANCE Signer WITH
    waiting <- {c \in Calls : call[c] = "waiting"},
    answered <- {c \in Calls : call[c] = "answered"},
    gone <- {c \in Calls : call[c] \in {"timed_out", "lost"}},
    signed <- Signed

(* The buffer implements Signer: what it answers it has signed before, and *)
(* nothing signed is lost when it stops.                                   *)
ImplementsSigner == Abstract!Spec
=============================================================================

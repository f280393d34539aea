------------------------------ MODULE Discovery ------------------------------
(***************************************************************************)
(* What a node knows of the others: the tables nodes and peers             *)
(* (data/src/peer.rs) and the two tasks that write them                    *)
(* (src/core/discovery.rs).  One asks all active nodes at every interval;  *)
(* the other asks a node that sent a message and is not known              *)
(* (peer_rx_event_handler.rs).  Each statement of the store is a step: the *)
(* tasks interleave between the two tables.                                *)
(*                                                                         *)
(* A node's transaction, which carries its metadata, is its version.       *)
(***************************************************************************)
EXTENDS Naturals, FiniteSets

CONSTANTS
    Nodes,        \* the other nodes
    PeerIds,
    PeerIdOf,     \* the peer id of each node
    MaxVersion,   \* bound on the changes of each node's metadata
    Mortal        \* the nodes that may die

ASSUME DiscoveryAssumption == PeerIdOf \in [Nodes -> PeerIds]

VARIABLES
    version,      \* the node's own latest transaction
    alive,        \* nodes that answer
    nodes,        \* table nodes: the stored version, 0 for no row
    peers,        \* table peers: the ids that have a row
    active,       \* last_seen is less than a day ago
    interval,     \* where the interval task is
    asked,        \* nodes asked in this interval, with the stored version
    target,       \* the one whose answer is processed (at most one)
    results,      \* what the answers say of further nodes
    immediate     \* immediate discovery of each node

netVars == <<version, alive>>
tableVars == <<nodes, peers, active>>
taskVars == <<interval, asked, target, results>>
discoveryVars == <<netVars, tableVars, taskVars, immediate>>

DiscoveryInit ==
    /\ version = [n \in Nodes |-> 1]
    /\ alive = Nodes
    /\ nodes \in [Nodes -> {0, 1}]
    /\ peers = {PeerIdOf[n] : n \in {m \in Nodes : nodes[m] # 0}}
    /\ active = {n \in Nodes : nodes[n] # 0}
    /\ interval = "idle"
    /\ asked = {}
    /\ target = {}
    /\ results = {}
    /\ immediate = [n \in Nodes |-> [step |-> "none", version |-> 0]]

-----------------------------------------------------------------------------
(* The network. *)

(* update_node_metadata on the other node. *)
UpdateMetadata(n) ==
    /\ version[n] < MaxVersion[n]
    /\ version' = [version EXCEPT ![n] = @ + 1]
    /\ UNCHANGED <<alive, tableVars, taskVars, immediate>>

Dies(n) ==
    /\ n \in alive \cap Mortal
    /\ alive' = alive \ {n}
    /\ UNCHANGED <<version, tableVars, taskVars, immediate>>

(* A day passes without a message of a dead node. *)
Ages(n) ==
    /\ n \in active \ alive
    /\ active' = active \ {n}
    /\ UNCHANGED <<netVars, nodes, peers, taskVars, immediate>>

-----------------------------------------------------------------------------
(* handle_incoming_message: a message of a known node is a sign of life, *)
(* one of an unknown node starts the immediate discovery of it.          *)
MessageFrom(n) ==
    /\ n \in alive
    /\ \/ /\ nodes[n] # 0
          /\ active' = active \cup {n}
          /\ UNCHANGED immediate
       \/ /\ nodes[n] = 0
          /\ immediate[n].step = "none"
          /\ immediate' = [immediate EXCEPT ![n].step = "asked"]
          /\ UNCHANGED active
    /\ UNCHANGED <<netVars, nodes, peers, taskVars>>

(* recv_for_each: the answer comes, or an error that is logged. *)
ImmediateAnswer(n) ==
    /\ immediate[n].step = "asked"
    /\ immediate' = [immediate EXCEPT ![n] =
                       IF n \in alive THEN [step |-> "insert_peer", version |-> version[n]]
                       ELSE [step |-> "none", version |-> 0]]
    /\ UNCHANGED <<netVars, tableVars, taskVars>>

(* process: add_peer_new writes one table after the other. *)
ImmediatePeer(n) ==
    /\ immediate[n].step = "insert_peer"
    /\ peers' = peers \cup {PeerIdOf[n]}
    /\ immediate' = [immediate EXCEPT ![n].step = "insert_node"]
    /\ UNCHANGED <<netVars, nodes, active, taskVars>>

ImmediateNode(n) ==
    /\ immediate[n].step = "insert_node"
    /\ nodes' = [nodes EXCEPT ![n] = immediate[n].version]
    /\ active' = active \cup {n}
    /\ immediate' = [immediate EXCEPT ![n] = [step |-> "none", version |-> 0]]
    /\ UNCHANGED <<netVars, peers, taskVars>>

-----------------------------------------------------------------------------
(* interval_fold: every active node is asked ... *)
AskAll ==
    /\ interval = "idle"
    /\ asked' = {[node |-> n, version |-> nodes[n]] : n \in {m \in active : nodes[m] # 0}}
    /\ results' = {}
    /\ interval' = "answers"
    /\ UNCHANGED <<netVars, tableVars, target, immediate>>

(* What an answer says of further nodes, of at most one here: the other    *)
(* node's row, which may be out of date.                                   *)
Reports ==
    {{}} \cup UNION {{{[node |-> n, version |-> v]} : v \in 1..version[n]} : n \in Nodes}

(* Mutant: the answer of a node that has a row only serves to learn of *)
(* others.                                                              *)
LearnOnly ==
    /\ interval = "answers"
    /\ \E a \in asked :
          /\ asked' = asked \ {a}
          /\ \/ /\ a.node \in alive
                /\ \E info \in Reports : results' = results \cup info
             \/ /\ a.node \notin alive
                /\ UNCHANGED results
    /\ UNCHANGED <<netVars, tableVars, target, interval, immediate>>

(* ... and the answers are processed one by one.  One that differs from    *)
(* the stored transaction has the node removed first; an error answer,     *)
(* which a timeout also is, is passed over; a node that has no row by the  *)
(* time the request is sent gets no answer at all, and is removed.         *)
NextAnswer ==
    /\ interval = "answers"
    /\ \E a \in asked :
          /\ asked' = asked \ {a}
          /\ \/ /\ a.node \in alive
                /\ target' = {[node |-> a.node, version |-> version[a.node], add |-> TRUE]}
                /\ interval' = IF version[a.node] # a.version THEN "remove" ELSE "insert_peer"
                /\ \E info \in Reports : results' = results \cup info
             \/ /\ a.node \notin alive
                /\ UNCHANGED <<target, interval, results>>
             \/ /\ nodes[a.node] = 0
                /\ target' = {[node |-> a.node, version |-> 0, add |-> FALSE]}
                /\ interval' = "remove"
                /\ UNCHANGED results
    /\ UNCHANGED <<netVars, tableVars, immediate>>

AfterRemove(t) == IF t.add THEN "insert_peer" ELSE "answers"

(* remove_node: the row is deleted if there is one ... *)
RemoveNode ==
    /\ interval = "remove"
    /\ \E t \in target :
          /\ nodes' = [nodes EXCEPT ![t.node] = 0]
          /\ active' = active \ {t.node}
          /\ interval' = IF nodes[t.node] # 0 THEN "count" ELSE AfterRemove(t)
    /\ UNCHANGED <<netVars, peers, asked, target, results, immediate>>

(* ... and if the same key has a row again when they are counted, the peer *)
(* is deleted too.                                                         *)
RemovePeer ==
    /\ interval = "count"
    /\ \E t \in target :
          /\ peers' = IF nodes[t.node] # 0 THEN peers \ {PeerIdOf[t.node]} ELSE peers
          /\ interval' = AfterRemove(t)
    /\ UNCHANGED <<netVars, nodes, active, asked, target, results, immediate>>

(* Mutant: a peer is only inserted for a node that has no row. *)
InsertPeerOfNew ==
    /\ interval = "insert_peer"
    /\ \E t \in target :
          peers' = IF nodes[t.node] = 0 THEN peers \cup {PeerIdOf[t.node]} ELSE peers
    /\ interval' = "insert_node"
    /\ UNCHANGED <<netVars, nodes, active, asked, target, results, immediate>>

InsertPeer ==
    /\ interval = "insert_peer"
    /\ \E t \in target : peers' = peers \cup {PeerIdOf[t.node]}
    /\ interval' = "insert_node"
    /\ UNCHANGED <<netVars, nodes, active, asked, target, results, immediate>>

InsertNode ==
    /\ interval = "insert_node"
    /\ \E t \in target :
          /\ nodes' = [nodes EXCEPT ![t.node] = t.version]
          /\ active' = active \cup {t.node}
    /\ target' = {}
    /\ interval' = "answers"
    /\ UNCHANGED <<netVars, peers, asked, results, immediate>>

(* When all answers are processed, the nodes they name that have no row    *)
(* are added.                                                              *)
LearnFrom ==
    /\ interval = "answers"
    /\ asked = {}
    /\ \E r \in results :
          /\ results' = results \ {r}
          /\ \/ /\ nodes[r.node] = 0
                /\ target' = {[node |-> r.node, version |-> r.version, add |-> TRUE]}
                /\ interval' = "insert_peer"
             \/ /\ nodes[r.node] # 0
                /\ UNCHANGED <<target, interval>>
    /\ UNCHANGED <<netVars, tableVars, asked, immediate>>

IntervalDone ==
    /\ interval = "answers"
    /\ asked = {}
    /\ results = {}
    /\ interval' = "idle"
    /\ target' = {}
    /\ UNCHANGED <<netVars, tableVars, asked, results, immediate>>

IntervalTask ==
    \/ AskAll
    \/ NextAnswer
    \/ RemoveNode
    \/ RemovePeer
    \/ InsertPeer
    \/ InsertNode
    \/ LearnFrom
    \/ IntervalDone

ImmediateTask(n) == ImmediateAnswer(n) \/ ImmediatePeer(n) \/ ImmediateNode(n)

DiscoveryNext ==
    \/ IntervalTask
    \/ \E n \in Nodes :
          \/ UpdateMetadata(n)
          \/ Dies(n)
          \/ Ages(n)
          \/ MessageFrom(n)
          \/ ImmediateTask(n)

DiscoverySpec == DiscoveryInit /\ [][DiscoveryNext]_discoveryVars

-----------------------------------------------------------------------------
(* The two tables come apart when both tasks write about one node: the     *)
(* removal may delete the peer of a row that the other task has just       *)
(* inserted, and such a node is left out of what others are told.  While   *)
(* the node answers, the next intervals repair that.                       *)
OrphansRepaired ==
    \A n \in Nodes :
        (nodes[n] # 0 /\ PeerIdOf[n] \notin peers)
            ~> (nodes[n] = 0 \/ PeerIdOf[n] \in peers \/ n \notin alive)

(* The stored metadata of a node that answers becomes the node's latest,   *)
(* even when an older answer is written last.                              *)
MetadataCatchesUp ==
    \A n \in Nodes :
        (nodes[n] # 0 /\ nodes[n] # version[n])
            ~> (nodes[n] = version[n] \/ nodes[n] = 0 \/ n \notin alive)

=============================================================================

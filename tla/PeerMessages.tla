----------------------------- MODULE PeerMessages -----------------------------
(***************************************************************************)
(* Requests between nodes.  A caller puts a message with a response        *)
(* channel into peer_message_tx (src/core/relay.rs) and waits on the       *)
(* channel; the outgoing handler (peer_event_handler.rs) posts a limited   *)
(* number of messages at a time; the other node queues the request, its    *)
(* handler (peer_rx_event_handler.rs) serves a limited number at a time,   *)
(* and serving one may mean calling other nodes first.                     *)
(*                                                                         *)
(* A request is a model value; which requests a node makes while it serves *)
(* another is fixed by Parent.                                             *)
(***************************************************************************)
EXTENDS Naturals, FiniteSets

CONSTANTS
    Exchanges,     \* the requests
    From, To,      \* caller and callee of each
    Parent,        \* the request that is being served when it is made, or itself
    SendLimit,     \* messages the outgoing handler posts at a time
    ServeLimit     \* requests the incoming handler serves at a time

ASSUME LimitAssumption == SendLimit > 0 /\ ServeLimit > 0

VARIABLES
    sent,      \* where the message of each request is, on the caller's side
    served,    \* where it is on the callee's side
    result,    \* what the response channel gave the caller
    known      \* whether the caller has metadata of the callee

peerVars == <<sent, served, result, known>>

PeerInit ==
    /\ sent = [c \in Exchanges |-> "none"]
    /\ served = [c \in Exchanges |-> "none"]
    /\ result = [c \in Exchanges |-> "none"]
    /\ known \in [Exchanges -> BOOLEAN]

Posting(n) == Cardinality({c \in Exchanges : From[c] = n /\ sent[c] = "posting"})
Serving(n) == Cardinality({c \in Exchanges : To[c] = n /\ served[c] = "serving"})
Children(c) == {d \in Exchanges : Parent[d] = c /\ d # c}

(* send_message_async and its variants: a node calls on its own behalf, or *)
(* because of the request it serves.                                       *)
SendMessage(c) ==
    /\ sent[c] = "none"
    /\ Parent[c] = c \/ served[Parent[c]] = "serving"
    /\ sent' = [sent EXCEPT ![c] = "queued"]
    /\ UNCHANGED <<served, result, known>>

(* send_peer_message: without metadata of the callee the message is        *)
(* dropped, and its response channel with it.                              *)
send_peer_message(c) ==
    /\ sent[c] = "queued"
    /\ Posting(From[c]) < SendLimit
    /\ IF known[c]
       THEN sent' = [sent EXCEPT ![c] = "posting"] /\ UNCHANGED result
       ELSE /\ sent' = [sent EXCEPT ![c] = "done"]
            /\ result' = [result EXCEPT ![c] = "closed"]
    /\ UNCHANGED <<served, known>>

(* The request arrives and is put into peer_message_rx. *)
ReceiveRequest(c) ==
    /\ sent[c] = "posting"
    /\ served[c] = "none"
    /\ served' = [served EXCEPT ![c] = "queued"]
    /\ UNCHANGED <<sent, result, known>>

handle_incoming_message(c) ==
    /\ served[c] = "queued"
    /\ Serving(To[c]) < ServeLimit
    /\ served' = [served EXCEPT ![c] = "serving"]
    /\ UNCHANGED <<sent, result, known>>

(* request_response returns once the calls it made have; the response goes *)
(* to whoever still waits for it.                                          *)
Respond(c) ==
    /\ served[c] = "serving"
    /\ \A d \in Children(c) : result[d] # "none"
    /\ served' = [served EXCEPT ![c] = "done"]
    /\ IF sent[c] = "posting"
       THEN /\ sent' = [sent EXCEPT ![c] = "done"]
            /\ result' = [result EXCEPT ![c] = "response"]
       ELSE UNCHANGED <<sent, result>>
    /\ UNCHANGED known

(* Mutant: only a message that has not reached the callee times out. *)
ConnectTimeout(c) ==
    /\ sent[c] = "posting"
    /\ served[c] = "none"
    /\ sent' = [sent EXCEPT ![c] = "done"]
    /\ result' = [result EXCEPT ![c] = "error"]
    /\ UNCHANGED <<served, known>>

(* send_message_rest: the timeout, or another error of the post, is turned *)
(* into a response.                                                        *)
SendTimeout(c) ==
    /\ sent[c] = "posting"
    /\ sent' = [sent EXCEPT ![c] = "done"]
    /\ result' = [result EXCEPT ![c] = "error"]
    /\ UNCHANGED <<served, known>>

PeerStep(c) == send_peer_message(c) \/ handle_incoming_message(c) \/ Respond(c) \/ SendTimeout(c)

PeerNext == \E c \in Exchanges : SendMessage(c) \/ ReceiveRequest(c) \/ PeerStep(c)

PeerSpec == PeerInit /\ [][PeerNext]_peerVars

-----------------------------------------------------------------------------
(* Nobody waits for a response forever, although the callers of            *)
(* broadcast_async set no timeout on the channel and two nodes may fill    *)
(* each other's handlers with requests that wait for each other; and what  *)
(* the callee received of a request it has served in the end, whether or   *)
(* not the caller still waits, so that its slots do not run out.           *)
EveryCallReturns ==
    \A c \in Exchanges :
        (sent[c] = "queued" \/ served[c] = "queued")
            ~> (result[c] # "none" /\ served[c] \in {"none", "done"})

=============================================================================

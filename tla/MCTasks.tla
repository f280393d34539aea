------------------------------- MODULE MCTasks -------------------------------
(***************************************************************************)
(* Small instances of the services around the transaction processor that   *)
(* have to make progress: contract states, multiparty sessions, discovery  *)
(* and peer messages.  They share no state with one another: a behaviour   *)
(* is one of the service in focus, and the others stay in one initial      *)
(* state.                                                                  *)
(***************************************************************************)
EXTENDS ContractState, Multiparty, Discovery, PeerMessages

VARIABLE focus

vars == <<focus, contractVars, multipartyVars, discoveryVars, peerVars>>

-----------------------------------------------------------------------------
(* Three calls of the contract A, which two transactions deploy, and one   *)
(* call with a selector of B, which is never deployed.                     *)
FourCalls == {"c1", "c2", "c3", "c4"}
CallAddress == [x \in FourCalls \cup {"d1", "d2"} |-> IF x = "c4" THEN "B" ELSE "A"]
CallSelector == [c \in FourCalls |-> IF c = "c4" THEN "s" ELSE "nosel"]
CallTime == [c \in FourCalls |-> IF c = "c1" THEN 2 ELSE 1]

(* A and B each serve a request that makes them call the other. *)
FourExchanges == {"r1", "r2", "r1c", "r2c"}
ExchangeFrom == [c \in FourExchanges |-> IF c \in {"r1", "r2c"} THEN "A" ELSE "B"]
ExchangeTo == [c \in FourExchanges |-> IF c \in {"r1", "r2c"} THEN "B" ELSE "A"]
ExchangeParent == [c \in FourExchanges |-> CASE c = "r1c" -> "r1"
                                             [] c = "r2c" -> "r2"
                                             [] OTHER -> c]

(* Two nodes of one peer: a changes its metadata, b may die. *)
SharedPeer == [n \in Nodes |-> "p"]
MetadataVersions == [n \in Nodes |-> IF n = "a" THEN 2 ELSE 1]

-----------------------------------------------------------------------------
Init ==
    /\ focus \in {"contracts", "session", "discovery", "messages"}
    /\ ContractInit
    /\ MultipartyInit /\ (focus = "session" \/ stages = 1)
    /\ DiscoveryInit /\ (focus = "discovery" \/ peers = {})
    /\ PeerInit /\ (focus = "messages" \/ \A c \in Exchanges : known[c])

(* The step A of the service f. *)
In(f, A) == focus = f /\ A /\ UNCHANGED focus

ContractStep ==
    /\ In("contracts", ContractNext)
    /\ UNCHANGED <<multipartyVars, discoveryVars, peerVars>>

SessionStep ==
    /\ In("session", MultipartyNext)
    /\ UNCHANGED <<contractVars, discoveryVars, peerVars>>

DiscoveryStep ==
    /\ In("discovery", DiscoveryNext)
    /\ UNCHANGED <<contractVars, multipartyVars, peerVars>>

MessageStep ==
    /\ In("messages", PeerNext)
    /\ UNCHANGED <<contractVars, multipartyVars, discoveryVars>>

Next == ContractStep \/ SessionStep \/ DiscoveryStep \/ MessageStep

Spec == Init /\ [][Next]_vars

(* The fairness of each service, while it is in focus: the runtime polls a *)
(* task that can go on, intervals tick, timers expire, and the main thread *)
(* sees a task that has ended.  Nothing says that anybody calls, deploys,  *)
(* or sends a message of their own accord.                                 *)
Fairness ==
    /\ WF_contractVars(focus = "contracts" /\ Manage)
    /\ WF_contractVars(focus = "contracts" /\ Started)
    /\ WF_contractVars(focus = "contracts" /\ NodeStops)
    /\ WF_multipartyVars(focus = "session" /\ HostSteps)
    /\ \A p \in Parties : WF_multipartyVars(focus = "session" /\ PartySteps(p))
    /\ \A p \in Followers : WF_multipartyVars(focus = "session" /\ ResponseTimeout(p))
    /\ WF_discoveryVars(focus = "discovery" /\ IntervalTask)
    /\ \A n \in Nodes : WF_discoveryVars(focus = "discovery" /\ ImmediateTask(n))
    /\ \A c \in Exchanges :
          /\ WF_peerVars(focus = "messages" /\ send_peer_message(c))
          /\ WF_peerVars(focus = "messages" /\ handle_incoming_message(c))
          /\ WF_peerVars(focus = "messages" /\ Respond(c))
          /\ WF_peerVars(focus = "messages" /\ SendTimeout(c))
          /\ WF_peerVars(focus = "messages" /\ Parent[c] # c /\ SendMessage(c))

FairSpec == Spec /\ Fairness
=============================================================================

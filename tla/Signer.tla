-------------------------------- MODULE Signer --------------------------------
(***************************************************************************)
(* What Relay::observe promises its callers: metadata that somebody asked  *)
(* for is signed at some time, for good, and a call is answered only after *)
(* its own metadata was signed.  A caller may give up, and its metadata    *)
(* may then be signed all the same.                                        *)
(***************************************************************************)
CONSTANT Calls      \* calls of Relay::observe

VARIABLES
    waiting,        \* calls that wait for their proof
    answered,       \* calls that returned one
    gone,           \* calls that ended without one
    signed          \* calls whose metadata is in a stored observation

vars == <<waiting, answered, gone, signed>>

Asked == waiting \cup answered \cup gone

Init ==
    /\ waiting = {}
    /\ answered = {}
    /\ gone = {}
    /\ signed = {}

Ask(c) ==
    /\ c \notin Asked
    /\ waiting' = waiting \cup {c}
    /\ UNCHANGED <<answered, gone, signed>>

(* One observation signs the metadata of several calls. *)
Sign(C) ==
    /\ C \subseteq Asked
    /\ signed' = signed \cup C
    /\ UNCHANGED <<waiting, answered, gone>>

Answer(c) ==
    /\ c \in waiting \cap signed
    /\ waiting' = waiting \ {c}
    /\ answered' = answered \cup {c}
    /\ UNCHANGED <<gone, signed>>

(* A timeout, or a stop of the node that takes all waiting calls with it. *)
GiveUp(C) ==
    /\ C \subseteq waiting
    /\ waiting' = waiting \ C
    /\ gone' = gone \cup C
    /\ UNCHANGED <<answered, signed>>

Next ==
    \/ \E c \in Calls : Ask(c) \/ Answer(c)
    \/ \E C \in SUBSET Calls : Sign(C) \/ GiveUp(C)

Spec == Init /\ [][Next]_vars
=============================================================================

------------------------- MODULE MCObservationBuffer -------------------------
(***************************************************************************)
(* Small instances of the observation buffer.                              *)
(***************************************************************************)
EXTENDS ObservationBuffer

(* Two calls observe one hash, the third another. *)
PairHashOf == <<1, 1, 2>>

(* Three calls observe one hash in turn, as the states Pending and         *)
(* Accepted of a transaction and its resubmission do; the fourth another.  *)
TurnsHashOf == <<1, 1, 1, 2>>
=============================================================================

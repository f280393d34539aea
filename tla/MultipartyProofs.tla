-------------------------- MODULE MultipartyProofs --------------------------
(***************************************************************************)
(* What a multiparty session guarantees for any number of parties, any     *)
(* threshold and any choice of signers.                                    *)
(***************************************************************************)
EXTENDS Multiparty, FiniteSetTheorems, TLAPS

(* An answer is counted as a success only after its party has stored the   *)
(* result, and the successes that let the initiator go on stay counted.    *)
ResultInv ==
    /\ stored \subseteq Parties
    /\ responses \in [Followers -> {"none", "ok", "err"}]
    /\ \A p \in Followers : responses[p] = "ok" => p \in stored
    /\ host \in {"join", "ok"} => Successful >= Threshold
    /\ host = "ok" => Host \in stored

Instances == 1..MaxRooms

(* A party that is in the room of its stage. *)
InRoom(p) ==
    \/ pc[p] \in {"index", "verify", "publish", "collect", "wait"}
    \/ pc[p] \in {"find", "create"} /\ purpose[p] = "post"

RoomTypes ==
    /\ pc \in [Parties -> Computing \cup {"idle", "invited", "computed", "done", "failed"}]
    /\ purpose \in [Parties -> {"join", "post"}]
    /\ stage \in [Parties -> 1..2]
    /\ room \in [Parties -> 0..MaxRooms]
    /\ subscribed \in [Parties -> [1..2 -> 0..MaxRooms]]
    /\ next_event \in [Parties -> Nat]
    /\ rooms \in [1..2 -> 0..MaxRooms]
    /\ history \in [Instances -> Seq(Parties)]

(* Who waits or posts does so in an instance that exists. *)
PlaceOf(p) ==
    /\ InRoom(p) => subscribed[p][stage[p]] # 0
    /\ pc[p] \in {"enter", "publish"} => room[p] # 0
    /\ purpose[p] = "post" => pc[p] \in {"find", "create", "publish", "failed"}

PlaceInv == \A p \in Parties : PlaceOf(p)

(* Until the host is in the first room nobody else has been invited; from  *)
(* then on its subscription keeps the room in place.                       *)
HostFirst ==
    /\ host \in {"idle", "sleep"} =>
          \A p \in Followers : pc[p] = "idle" /\ subscribed[p][1] = 0
    /\ host = "idle" => pc[Host] = "idle" /\ subscribed[Host][1] = 0
    /\ pc[Host] \in {"find", "create", "enter"} /\ purpose[Host] = "join" /\ stage[Host] = 1 =>
          host = "sleep" /\ subscribed[Host][1] = 0
    /\ pc[Host] = "enter" /\ stage[Host] = 1 => rooms[1] = room[Host]
    /\ subscribed[Host][1] # 0 =>
          /\ rooms[1] = subscribed[Host][1]
          /\ \A p \in Parties :
                /\ subscribed[p][1] \in {0, rooms[1]}
                /\ pc[p] = "enter" /\ stage[p] = 1 => room[p] = rooms[1]

SessionStages == stages \in {1, 2}

PartyInv == RoomTypes /\ PlaceInv /\ WaitersUpToDate /\ HostFirst

-----------------------------------------------------------------------------
(* The initiator's result. *)

LEMMA ResultInit == MultipartyInit => ResultInv
BY DEF MultipartyInit, ResultInv

(* Successes are only added, each by a party that has stored the result. *)
LEMMA SuccessesStay ==
    ASSUME ResultInv,
           responses' \in [Followers -> {"none", "ok", "err"}],
           stored \subseteq stored', stored' \subseteq Parties,
           \A p \in Followers : responses[p] = "ok" => responses'[p] = "ok",
           \A p \in Followers : responses'[p] = "ok" => responses[p] = "ok" \/ p \in stored',
           host' \in {"join", "ok"} => host \in {"join", "ok"} \/ Successful >= Threshold,
           host' = "ok" => host = "ok" \/ Host \in stored'
    PROVE  ResultInv'
<1> DEFINE Ok == {p \in Followers : responses[p] = "ok"}
           Ok1 == {p \in Followers : responses'[p] = "ok"}
<1>1. Ok \subseteq Ok1 /\ Ok1 \subseteq Parties
  BY DEF Followers
<1>2. IsFiniteSet(Ok1)
  BY <1>1, PartyAssumption, FS_Subset
<1>3. Cardinality(Ok) \in Nat /\ Cardinality(Ok1) \in Nat /\ Cardinality(Ok) <= Cardinality(Ok1)
  BY <1>1, <1>2, FS_Subset, FS_CardinalityType
<1>4. Successful = Cardinality(Ok) /\ Successful' = Cardinality(Ok1)
  BY DEF Successful
<1>5. Threshold \in Int
  BY PartyAssumption
<1> HIDE DEF Ok, Ok1
<1>6. host' \in {"join", "ok"} => Successful' >= Threshold
  BY <1>3, <1>4, <1>5 DEF ResultInv
<1> QED
  BY <1>6 DEF ResultInv

LEMMA ResultStep == ResultInv /\ [MultipartyNext]_multipartyVars => ResultInv'
<1> SUFFICES ASSUME ResultInv, [MultipartyNext]_multipartyVars PROVE ResultInv'
  OBVIOUS
<1>1. ASSUME NEW p \in Parties, Fail(p)
      PROVE  /\ responses' \in [Followers -> {"none", "ok", "err"}]
             /\ \A q \in Followers : responses[q] = "ok" <=> responses'[q] = "ok"
  BY <1>1 DEF Fail, ResultInv
<1>2. CASE UNCHANGED <<host, responses, stored>>
  BY <1>2, SuccessesStay DEF ResultInv
<1>3. ASSUME NEW p \in Parties, Fail(p), UNCHANGED <<host, stored>>
      PROVE  ResultInv'
  BY <1>1, <1>3, SuccessesStay DEF ResultInv
<1>4. CASE Initiate
  BY <1>4, SuccessesStay DEF Initiate, ResultInv
<1>5. CASE Invite
  BY <1>5, SuccessesStay DEF Invite, ResultInv
<1>6. ASSUME NEW p \in Parties, Compute(p) \/ Timeout(p)
      PROVE  ResultInv'
  BY <1>2, <1>3, <1>6 DEF Compute, Timeout, FindRoom, CreateRoom, Enter, IssueIndex, Broadcast,
        Publish, ReadOrWait, StageDone, hostVars
<1>7. ASSUME NEW p \in Followers, Follow(p)
      PROVE  ResultInv'
  BY <1>2, <1>3, <1>7 DEF Follow, Followers
<1>8. ASSUME NEW p \in Followers, FollowerStores(p)
      PROVE  ResultInv'
  <2>1. p \in Parties /\ host' = host
    BY <1>8 DEF FollowerStores, Followers
  <2>2. CASE Fail(p)
    <3>1. stored \subseteq stored' /\ stored' \subseteq Parties
      BY <1>8, <2>1 DEF FollowerStores, ResultInv
    <3> QED
      BY <1>1, <2>1, <2>2, <3>1, SuccessesStay DEF ResultInv
  <2>3. CASE /\ stored' = stored \cup {p}
             /\ responses' = [responses EXCEPT ![p] = IF @ = "none" THEN "ok" ELSE @]
    BY <2>1, <2>3, SuccessesStay DEF ResultInv
  <2> QED
    BY <1>8, <2>2, <2>3 DEF FollowerStores
<1>9. ASSUME NEW p \in Followers, ResponseTimeout(p)
      PROVE  ResultInv'
  BY <1>9, SuccessesStay DEF ResponseTimeout, ResultInv
<1>10. CASE Count
  <2>1. Host \in Parties
    BY PartyAssumption
  <2>2. /\ responses' \in [Followers -> {"none", "ok", "err"}]
        /\ \A q \in Followers : responses[q] = "ok" <=> responses'[q] = "ok"
    <3>1. CASE Fail(Host)
      BY <1>1, <2>1, <3>1
    <3>2. CASE responses' = responses
      BY <3>2 DEF ResultInv
    <3> QED
      BY <1>10, <3>1, <3>2 DEF Count
  <2>3. stored' = stored
    BY <1>10 DEF Count
  <2>4. CASE host' = "failed"
    BY <2>2, <2>3, <2>4, SuccessesStay DEF ResultInv
  <2>5. CASE Successful >= Threshold /\ host' = "join"
    BY <2>2, <2>3, <2>5, SuccessesStay DEF ResultInv
  <2> QED
    BY <1>10, <2>4, <2>5, Zenon DEF Count
<1>11. CASE HostStores
  BY <1>11, PartyAssumption, SuccessesStay DEF HostStores, ResultInv
<1>12. CASE RemoveAuthorization
  BY <1>2, <1>12 DEF RemoveAuthorization
<1>13. CASE UNCHANGED multipartyVars
  BY <1>2, <1>13 DEF multipartyVars, hostVars
<1> QED
  BY <1>4, <1>5, <1>6, <1>7, <1>8, <1>9, <1>10, <1>11, <1>12, <1>13 DEF MultipartyNext

(* For any number of parties and any threshold: when the initiator reports *)
(* a key or a signature, it and at least Threshold followers have stored   *)
(* it, whatever answers came late or not at all.                           *)
THEOREM MultipartyResultBacked == MultipartySpec => []ResultBacked
<1>1. ResultInv => ResultBacked
  <2> SUFFICES ASSUME ResultInv, host = "ok" PROVE Cardinality(stored) >= Threshold + 1
    BY DEF ResultBacked
  <2> DEFINE Ok == {p \in Followers : responses[p] = "ok"}
  <2>1. Host \notin Ok /\ Ok \cup {Host} \subseteq stored /\ IsFiniteSet(stored)
    BY PartyAssumption, FS_Subset DEF ResultInv, Followers
  <2>2. IsFiniteSet(Ok)
    BY <2>1, FS_Subset
  <2>3. Cardinality(Ok \cup {Host}) = Cardinality(Ok) + 1
    BY <2>1, <2>2, FS_AddElement
  <2>4. Cardinality(Ok \cup {Host}) <= Cardinality(stored)
    BY <2>1, FS_Subset
  <2>5. Cardinality(Ok) >= Threshold
    BY DEF ResultInv, Successful
  <2>6. Cardinality(Ok) \in Nat /\ Cardinality(stored) \in Nat /\ Threshold \in Int
    BY <2>1, <2>2, FS_CardinalityType, PartyAssumption
  <2> HIDE DEF Ok
  <2> QED
    BY <2>3, <2>4, <2>5, <2>6
<1> QED
  BY <1>1, ResultInit, ResultStep, PTL DEF MultipartySpec


-----------------------------------------------------------------------------
(* The rooms. *)

LEMMA NoSubscription ==
    /\ <<0, 0>> \in [1..2 -> 0..MaxRooms]
    /\ \A k \in 1..2 : <<0, 0>>[k] = 0
BY PartyAssumption

LEMMA PartyInit == MultipartyInit => PartyInv
<1> SUFFICES ASSUME MultipartyInit PROVE PartyInv
  OBVIOUS
<1> USE PartyAssumption
<1>1. subscribed = [p \in Parties |-> <<0, 0>>] /\ rooms = <<0, 0>>
  BY DEF MultipartyInit
<1>2. subscribed \in [Parties -> [1..2 -> 0..MaxRooms]] /\ rooms \in [1..2 -> 0..MaxRooms]
  BY <1>1, NoSubscription
<1>3. \A p \in Parties : subscribed[p][1] = 0
  BY <1>1, NoSubscription
<1>4. RoomTypes
  BY <1>2 DEF MultipartyInit, RoomTypes, Instances
<1>5. \A p \in Parties : pc[p] = "idle" /\ purpose[p] = "join"
  BY DEF MultipartyInit
<1>6. PlaceInv /\ WaitersUpToDate
  BY <1>5 DEF PlaceInv, PlaceOf, WaitersUpToDate, InRoom
<1>7. HostFirst
  BY <1>3, <1>5 DEF HostFirst, Followers
<1> QED
  BY <1>4, <1>6, <1>7 DEF PartyInv

(* A step of one party leaves the others where they are. *)
LEMMA PlaceOthers ==
    ASSUME PlaceInv, NEW p \in Parties, PlaceOf(p)',
           \A q \in Parties \ {p} :
              /\ pc'[q] = pc[q] /\ purpose'[q] = purpose[q] /\ stage'[q] = stage[q]
              /\ room'[q] = room[q] /\ subscribed'[q] = subscribed[q]
    PROVE  PlaceInv'
<1> SUFFICES ASSUME NEW q \in Parties, q # p PROVE PlaceOf(q)'
  BY DEF PlaceInv
<1> QED
  BY DEF PlaceInv, PlaceOf, InRoom

(* The lookup of a room finds one, or makes one that nobody knows. *)
LEMMA LookupStep ==
    ASSUME PartyInv, NEW p \in Parties, FindRoom(p) \/ CreateRoom(p)
    PROVE  PartyInv'
<1> USE PartyAssumption DEF PartyInv
<1>1. UNCHANGED <<host, purpose, stage, subscribed, next_event>>
  BY DEF FindRoom, CreateRoom, hostVars
<1>2. pc[p] \in {"find", "create"} /\ stage[p] \in 1..2 /\ purpose[p] \in {"join", "post"}
  BY DEF FindRoom, CreateRoom, RoomTypes
<1> DEFINE after == IF purpose[p] = "join" THEN "enter" ELSE "publish"
<1>3. after \in {"enter", "publish"} /\ (after = "enter" <=> purpose[p] = "join")
  OBVIOUS
<1> HIDE DEF after
<1>4. CASE Reusable(p) /\ UNCHANGED roomVars /\ room' = [room EXCEPT ![p] = rooms[stage[p]]]
           /\ pc' = [pc EXCEPT ![p] = after]
  <2>1. rooms' = rooms /\ history' = history
    BY <1>4 DEF roomVars
  <2>2. PICK r \in Instances : r = rooms[stage[p]]
    BY <1>2, <1>4 DEF Reusable, RoomTypes, Instances
  <2>3. room' = [room EXCEPT ![p] = r]
    BY <1>4, <2>2
  <2>4. RoomTypes'
    <3>1. pc' \in [Parties -> Computing \cup {"idle", "invited", "computed", "done", "failed"}]
      BY <1>3, <1>4 DEF RoomTypes, Computing
    <3>2. room' \in [Parties -> 0..MaxRooms]
      BY <2>3 DEF RoomTypes, Instances
    <3> QED
      BY <1>1, <2>1, <3>1, <3>2 DEF RoomTypes
  <2>5. pc'[p] = after /\ room'[p] # 0
    BY <1>4, <2>3 DEF RoomTypes, Instances
  <2>6. PlaceOf(p)'
    BY <1>1, <1>2, <1>3, <2>5 DEF PlaceInv, PlaceOf, InRoom
  <2>7. PlaceInv'
    BY <1>1, <1>4, <2>3, <2>6, PlaceOthers DEF RoomTypes
  <2>8. WaitersUpToDate'
    BY <1>1, <1>4, <1>3, <2>1 DEF WaitersUpToDate, Inbox, RoomTypes
  <2>9. /\ \A q \in Parties \ {p} : pc'[q] = pc[q] /\ room'[q] = room[q]
        /\ room'[p] = rooms[stage[p]]
    BY <1>4 DEF RoomTypes
  <2>10. HostFirst'
    BY <1>1, <1>2, <1>3, <2>1, <2>5, <2>9 DEF HostFirst, Followers
  <2> QED
    BY <2>4, <2>7, <2>8, <2>10
<1>5. CASE UNCHANGED <<room, roomVars>> /\ pc[p] = "find" /\ pc' = [pc EXCEPT ![p] = "create"]
  <2>1. rooms' = rooms /\ history' = history /\ room' = room
    BY <1>5 DEF roomVars
  <2>2. RoomTypes'
    BY <1>1, <1>5, <2>1 DEF RoomTypes, Computing, Instances
  <2>3. pc'[p] = "create"
    BY <1>5 DEF RoomTypes
  <2>4. PlaceOf(p)'
    BY <1>1, <1>5, <2>1, <2>3 DEF PlaceInv, PlaceOf, InRoom
  <2>5. PlaceInv'
    BY <1>1, <1>5, <2>1, <2>4, PlaceOthers DEF RoomTypes
  <2>6. WaitersUpToDate'
    BY <1>1, <1>5, <2>1 DEF WaitersUpToDate, Inbox, RoomTypes
  <2>7. HostFirst'
    BY <1>1, <1>5, <2>1 DEF HostFirst, Followers, RoomTypes
  <2> QED
    BY <2>2, <2>5, <2>6, <2>7
<1>6. ASSUME ~Reusable(p), NEW i \in 1..MaxRooms \ InstancesUsed,
             rooms' = [rooms EXCEPT ![stage[p]] = i],
             history' = [history EXCEPT ![i] = <<>>],
             room' = [room EXCEPT ![p] = i],
             pc' = [pc EXCEPT ![p] = after]
      PROVE  PartyInv'
  <2>1. \A q \in Parties : \A k \in 1..2 : subscribed[q][k] # i
    BY <1>6 DEF InstancesUsed
  <2>2. i \in Instances /\ i \in 0..MaxRooms /\ i # 0
    BY DEF Instances
  <2>3. /\ pc' \in [Parties -> Computing \cup {"idle", "invited", "computed", "done", "failed"}]
        /\ pc'[p] = after
    BY <1>6, <1>3 DEF RoomTypes, Computing
  <2>4. room' \in [Parties -> 0..MaxRooms] /\ room'[p] = i
    BY <1>6, <2>2 DEF RoomTypes
  <2>5. rooms' \in [1..2 -> 0..MaxRooms]
    BY <1>2, <1>6, <2>2 DEF RoomTypes
  <2>6. history' \in [Instances -> Seq(Parties)]
    BY <1>6, <2>2 DEF RoomTypes
  <2>7. RoomTypes'
    BY <1>1, <2>3, <2>4, <2>5, <2>6 DEF RoomTypes
  <2>8. PlaceOf(p)'
    BY <1>1, <1>2, <1>3, <2>2, <2>3, <2>4 DEF PlaceInv, PlaceOf, InRoom
  <2>9. PlaceInv'
    BY <1>1, <1>6, <2>8, PlaceOthers DEF RoomTypes
  <2>10. ASSUME NEW q \in Parties, pc'[q] = "wait"
        PROVE  next_event'[q] > Len(Inbox(q)')
    <3>1. pc[q] = "wait"
      BY <1>6, <1>3, <2>10 DEF RoomTypes
    <3>2. subscribed[q][stage[q]] \in Instances \ {i}
      <4>1. subscribed[q][stage[q]] # 0
        BY <3>1 DEF PlaceInv, PlaceOf, InRoom
      <4>2. stage[q] \in 1..2 /\ subscribed[q] \in [1..2 -> 0..MaxRooms]
        BY DEF RoomTypes
      <4> QED
        BY <2>1, <4>1, <4>2 DEF Instances
    <3>3. Inbox(q)' = Inbox(q)
      BY <1>1, <1>6, <3>2 DEF Inbox, RoomTypes
    <3> QED
      BY <1>1, <3>1, <3>3 DEF WaitersUpToDate
  <2>11. subscribed[Host][1] # 0 => stage[p] = 2
    BY <1>2, <1>6 DEF HostFirst, Reusable, is_abandoned
  <2>12. subscribed[Host][1] # 0 => rooms'[1] = rooms[1]
    BY <1>6, <2>11 DEF RoomTypes
  <2>13. pc'[Host] = "enter" /\ stage'[Host] = 1 => rooms'[1] = room'[Host]
    <3>1. CASE p = Host
      BY <1>1, <1>6, <3>1 DEF RoomTypes
    <3>2. CASE p # Host
      BY <1>1, <1>2, <1>6, <1>3, <3>2 DEF RoomTypes, HostFirst, PlaceInv, PlaceOf, Followers
    <3> QED
      BY <3>1, <3>2
  <2>14. HostFirst'
    BY <1>1, <1>2, <1>6, <1>3, <2>11, <2>12, <2>13 DEF HostFirst, Followers, RoomTypes
  <2> QED
    BY <2>7, <2>9, <2>10, <2>14 DEF WaitersUpToDate
<1> QED
  BY <1>4, <1>5, <1>6 DEF FindRoom, CreateRoom, AfterLookup, MGoto, after


(* Entering a room: the host enters the first one before anybody else, and *)
(* the others find it there.                                               *)
LEMMA EnterStep ==
    ASSUME PartyInv, NEW p \in Parties, Enter(p)
    PROVE  PartyInv'
<1> USE PartyAssumption DEF PartyInv
<1>1. UNCHANGED <<host, purpose, stage, room, rooms, history>>
  BY DEF Enter, hostVars, roomVars
<1>2. /\ pc[p] = "enter" /\ stage[p] \in 1..2 /\ room[p] \in 0..MaxRooms /\ room[p] # 0
      /\ purpose[p] = "join"
  BY DEF Enter, RoomTypes, PlaceInv, PlaceOf
<1>3. pc' = [pc EXCEPT ![p] = "index"] /\ next_event' = [next_event EXCEPT ![p] = 1]
  BY DEF Enter, MGoto
<1>4. PICK now \in [1..2 -> 0..MaxRooms] : now = [subscribed[p] EXCEPT ![stage[p]] = room[p]]
  BY <1>2 DEF RoomTypes
<1>5. subscribed' = [subscribed EXCEPT ![p] = now]
  BY <1>4 DEF Enter
<1>6. /\ now[stage[p]] = room[p]
      /\ stage[p] = 2 => now[1] = subscribed[p][1]
  BY <1>2, <1>4 DEF RoomTypes
<1>7. RoomTypes'
  BY <1>1, <1>3, <1>5 DEF RoomTypes, Computing
<1>8. pc'[p] = "index" /\ subscribed'[p] = now
  BY <1>3, <1>5 DEF RoomTypes
<1>9. PlaceOf(p)'
  BY <1>1, <1>2, <1>6, <1>8 DEF PlaceOf, InRoom
<1>10. PlaceInv'
  BY <1>1, <1>3, <1>5, <1>9, PlaceOthers DEF RoomTypes
<1>11. WaitersUpToDate'
  BY <1>1, <1>3, <1>5 DEF WaitersUpToDate, Inbox, RoomTypes
<1>12. CASE p = Host /\ stage[p] = 1
  <2>1. host = "sleep" /\ rooms[1] = room[Host]
    BY <1>2, <1>12 DEF HostFirst
  <2>2. \A q \in Followers : pc'[q] = "idle" /\ subscribed'[q][1] = 0
    BY <1>3, <1>5, <1>12, <2>1 DEF HostFirst, Followers, RoomTypes
  <2> QED
    BY <1>1, <1>6, <1>7, <1>8, <1>10, <1>11, <1>12, <2>1, <2>2 DEF HostFirst, Followers
<1>13. CASE p = Host /\ stage[p] = 2
  <2>1. \A q \in Parties : subscribed'[q][1] = subscribed[q][1]
    BY <1>5, <1>6, <1>13 DEF RoomTypes
  <2>2. \A q \in Followers : pc'[q] = pc[q]
    BY <1>3, <1>13 DEF RoomTypes, Followers
  <2> QED
    BY <1>1, <1>2, <1>7, <1>8, <1>10, <1>11, <1>13, <2>1, <2>2 DEF HostFirst, Followers
<1>14. CASE p # Host
  <2>1. pc'[Host] = pc[Host] /\ subscribed'[Host] = subscribed[Host]
    BY <1>3, <1>5, <1>14 DEF RoomTypes
  <2>2. host \notin {"idle", "sleep"}
    BY <1>2, <1>14 DEF HostFirst, Followers
  <2>3. ASSUME subscribed[Host][1] # 0, NEW q \in Parties
        PROVE  /\ subscribed'[q][1] \in {0, rooms[1]}
               /\ pc'[q] = "enter" /\ stage[q] = 1 => room[q] = rooms[1]
    <3>1. CASE q = p
      BY <1>2, <1>6, <1>8, <2>3, <3>1 DEF HostFirst
    <3>2. CASE q # p
      BY <1>3, <1>5, <2>3, <3>2 DEF HostFirst, RoomTypes
    <3> QED
      BY <3>1, <3>2
  <2> QED
    BY <1>1, <1>7, <1>10, <1>11, <2>1, <2>2, <2>3 DEF HostFirst
<1> QED
  BY <1>2, <1>12, <1>13, <1>14

(* The end of a computation drops its subscriptions. *)
LEMMA DropStep ==
    ASSUME PartyInv, NEW p \in Parties, pc[p] # "idle",
           NEW label \in {"failed", "computed"},
           pc' = [pc EXCEPT ![p] = label],
           label = "computed" => purpose[p] = "join",
           subscribed' = [subscribed EXCEPT ![p] = <<0, 0>>],
           room' = [room EXCEPT ![p] = 0],
           UNCHANGED <<purpose, stage, next_event, rooms, history>>,
           host' = host \/ (p = Host /\ host' = "failed")
    PROVE  PartyInv'
<1> USE PartyAssumption DEF PartyInv
<1>1. PICK now \in [1..2 -> 0..MaxRooms] : now = <<0, 0>> /\ now[1] = 0
  BY NoSubscription
<1>2. subscribed' = [subscribed EXCEPT ![p] = now]
  BY <1>1
<1>3. RoomTypes'
  <2>1. pc' \in [Parties -> Computing \cup {"idle", "invited", "computed", "done", "failed"}]
    BY DEF RoomTypes, Computing
  <2>2. subscribed' \in [Parties -> [1..2 -> 0..MaxRooms]]
    BY <1>2 DEF RoomTypes
  <2>3. room' \in [Parties -> 0..MaxRooms]
    BY DEF RoomTypes
  <2> QED
    BY <2>1, <2>2, <2>3 DEF RoomTypes
<1>4. pc'[p] = label /\ subscribed'[p] = now
  BY <1>2 DEF RoomTypes
<1>5. PlaceOf(p)'
  BY <1>4 DEF PlaceOf, InRoom
<1>6. PlaceInv'
  BY <1>2, <1>5, PlaceOthers DEF RoomTypes
<1>7. WaitersUpToDate'
  BY <1>2 DEF WaitersUpToDate, Inbox, RoomTypes
<1>8. HostFirst'
  <2>1. \A q \in Parties \ {p} : /\ pc'[q] = pc[q] /\ room'[q] = room[q]
                                 /\ subscribed'[q] = subscribed[q]
    BY <1>2 DEF RoomTypes
  <2> QED
    BY <1>1, <1>4, <2>1 DEF HostFirst, Followers
<1> QED
  BY <1>3, <1>6, <1>7, <1>8

(* A party goes on, in the room that it is in. *)
LEMMA MoveStep ==
    ASSUME PartyInv, NEW p \in Parties, pc[p] # "idle",
           NEW label \in {"find", "verify", "collect", "wait", "done"},
           pc' = [pc EXCEPT ![p] = label],
           NEW why \in {"join", "post"}, purpose' = [purpose EXCEPT ![p] = why],
           NEW s \in 1..2, stage' = [stage EXCEPT ![p] = s],
           NEW n \in Nat, next_event' = [next_event EXCEPT ![p] = n],
           UNCHANGED <<host, room, subscribed, rooms, history>>,
           PlaceOf(p)',
           label = "wait" => n > Len(Inbox(p)'),
           p = Host /\ label = "find" /\ why = "join" => s = 2
    PROVE  PartyInv'
<1> USE PartyAssumption DEF PartyInv
<1>1. RoomTypes'
  BY DEF RoomTypes, Computing
<1>2. PlaceInv'
  BY PlaceOthers DEF RoomTypes
<1>3. pc'[p] = label /\ purpose'[p] = why /\ stage'[p] = s /\ next_event'[p] = n
  BY DEF RoomTypes
<1>4. \A q \in Parties \ {p} : /\ pc'[q] = pc[q] /\ purpose'[q] = purpose[q]
                               /\ stage'[q] = stage[q] /\ next_event'[q] = next_event[q]
  BY DEF RoomTypes
<1>5. WaitersUpToDate'
  BY <1>3, <1>4 DEF WaitersUpToDate, Inbox
<1>6. HostFirst'
  BY <1>3, <1>4 DEF HostFirst, Followers
<1> QED
  BY <1>1, <1>2, <1>5, <1>6


(* Publishing wakes whoever waits in that instance of the room. *)
LEMMA PublishStep ==
    ASSUME PartyInv, NEW p \in Parties, Publish(p)
    PROVE  PartyInv'
<1> USE PartyAssumption DEF PartyInv
<1>1. UNCHANGED <<host, stage, subscribed, next_event, rooms>>
  BY DEF Publish, hostVars
<1>2. /\ pc[p] = "publish" /\ room[p] # 0 /\ subscribed[p][stage[p]] # 0
      /\ subscribed[p][stage[p]] \in 0..MaxRooms
      /\ room[p] \in Instances
  <2>1. pc[p] = "publish"
    BY DEF Publish
  <2>2. room[p] # 0 /\ subscribed[p][stage[p]] # 0
    BY <2>1 DEF PlaceInv, PlaceOf, InRoom
  <2>3. stage[p] \in 1..2 /\ room[p] \in 0..MaxRooms /\ subscribed[p] \in [1..2 -> 0..MaxRooms]
    BY DEF RoomTypes
  <2> QED
    BY <2>1, <2>2, <2>3 DEF Instances
<1>3. purpose' = [purpose EXCEPT ![p] = "join"]
      /\ room' = [room EXCEPT ![p] = subscribed[p][stage[p]]]
  BY DEF Publish
<1>4. history' \in [Instances -> Seq(Parties)]
      /\ \A i \in Instances \ {room[p]} : history'[i] = history[i]
  BY <1>2 DEF Publish, RoomTypes
<1>5. \A q \in Parties :
         \/ pc'[q] = "collect" /\ (q = p \/ pc[q] = "wait")
         \/ pc'[q] = pc[q] /\ q # p /\ ~(pc[q] = "wait" /\ subscribed[q][stage[q]] = room[p])
  BY DEF Publish
<1>6. pc' \in [Parties -> Computing \cup {"idle", "invited", "computed", "done", "failed"}]
  BY DEF Publish, RoomTypes, Computing
<1>7. RoomTypes'
  BY <1>1, <1>2, <1>3, <1>4, <1>6 DEF RoomTypes
<1>8. ASSUME NEW q \in Parties PROVE PlaceOf(q)'
  <2>1. CASE q = p
    BY <1>1, <1>2, <1>3, <1>5, <2>1 DEF PlaceOf, InRoom, RoomTypes
  <2>2. CASE q # p
    <3>1. purpose'[q] = purpose[q] /\ room'[q] = room[q]
      BY <1>3, <2>2 DEF RoomTypes
    <3> QED
      BY <1>1, <1>5, <2>2, <3>1 DEF PlaceInv, PlaceOf, InRoom
  <2> QED
    BY <2>1, <2>2
<1>9. ASSUME NEW q \in Parties, pc'[q] = "wait"
      PROVE  next_event'[q] > Len(Inbox(q)')
  <2>1. pc[q] = "wait" /\ subscribed[q][stage[q]] # room[p]
    BY <1>5, <1>9
  <2>2. subscribed[q][stage[q]] # 0
    BY <2>1 DEF PlaceInv, PlaceOf, InRoom
  <2>3. stage[q] \in 1..2 /\ subscribed[q] \in [1..2 -> 0..MaxRooms]
    BY DEF RoomTypes
  <2>4. subscribed[q][stage[q]] \in Instances \ {room[p]}
    BY <2>1, <2>2, <2>3 DEF Instances
  <2>5. Inbox(q)' = Inbox(q)
    BY <1>1, <1>4, <2>4 DEF Inbox
  <2> QED
    BY <1>1, <2>1, <2>5 DEF WaitersUpToDate
<1>10. \A q \in Parties : pc'[q] # "collect" => room'[q] = room[q] /\ purpose'[q] = purpose[q]
  BY <1>3, <1>5 DEF RoomTypes
<1>11. HostFirst'
  BY <1>1, <1>2, <1>5, <1>10 DEF HostFirst, Followers
<1> QED
  BY <1>7, <1>8, <1>9, <1>11 DEF PlaceInv, WaitersUpToDate

LEMMA ComputeStep ==
    ASSUME SessionStages, PartyInv, NEW p \in Parties, Compute(p)
    PROVE  PartyInv'
<1> USE PartyAssumption DEF PartyInv
<1>1. /\ purpose = [purpose EXCEPT ![p] = purpose[p]] /\ purpose[p] \in {"join", "post"}
      /\ stage = [stage EXCEPT ![p] = stage[p]] /\ stage[p] \in 1..2
      /\ next_event = [next_event EXCEPT ![p] = next_event[p]] /\ next_event[p] \in Nat
      /\ pc = [pc EXCEPT ![p] = pc[p]]
  BY DEF RoomTypes
<1>2. CASE IssueIndex(p)
  <2>1. CASE Fail(p)
    BY <1>2, <2>1, DropStep DEF IssueIndex, Fail, MGoto, roomVars
  <2>2. CASE MGoto(p, "verify") /\ UNCHANGED <<subscribed, room>>
    <3>1. UNCHANGED <<host, purpose, stage, next_event, rooms, history>> /\ pc[p] = "index"
      BY <1>2 DEF IssueIndex, roomVars
    <3>2. pc'[p] = "verify"
      BY <2>2 DEF MGoto, RoomTypes
    <3>3. PlaceOf(p)'
      BY <2>2, <3>1, <3>2 DEF PlaceInv, PlaceOf, InRoom
    <3> QED
      BY <1>1, <2>2, <3>1, <3>3, MoveStep DEF MGoto
  <2> QED
    BY <1>2, <2>1, <2>2 DEF IssueIndex
<1>3. CASE Broadcast(p)
  <2>1. UNCHANGED <<host, stage, room, subscribed, next_event, rooms, history>>
        /\ pc[p] = "verify" /\ purpose[p] = "join"
    BY <1>1, <1>3 DEF Broadcast, hostVars, roomVars, PlaceInv, PlaceOf
  <2>2. CASE MGoto(p, "find") /\ purpose' = [purpose EXCEPT ![p] = "post"]
    <3>1. pc'[p] = "find" /\ purpose'[p] = "post"
      BY <2>2 DEF MGoto, RoomTypes
    <3>2. PlaceOf(p)'
      BY <2>1, <3>1 DEF PlaceInv, PlaceOf, InRoom
    <3> QED
      BY <1>1, <2>1, <2>2, <3>2, MoveStep DEF MGoto
  <2>3. CASE MGoto(p, "collect") /\ UNCHANGED purpose
    <3>1. pc'[p] = "collect"
      BY <2>3 DEF MGoto, RoomTypes
    <3>2. PlaceOf(p)'
      BY <2>1, <2>3, <3>1 DEF PlaceInv, PlaceOf, InRoom
    <3> QED
      BY <1>1, <2>1, <2>3, <3>2, MoveStep DEF MGoto
  <2> QED
    BY <1>3, <2>2, <2>3 DEF Broadcast
<1>4. CASE ReadOrWait(p)
  <2>1. UNCHANGED <<host, purpose, stage, room, subscribed, rooms, history>> /\ pc[p] = "collect"
    BY <1>4 DEF ReadOrWait, hostVars, roomVars
  <2>2. CASE next_event' = [next_event EXCEPT ![p] = next_event[p] + 1] /\ UNCHANGED pc
    <3>1. PlaceOf(p)'
      BY <2>1, <2>2 DEF PlaceInv, PlaceOf, InRoom
    <3>2. pc' = [pc EXCEPT ![p] = "collect"] /\ next_event[p] + 1 \in Nat
      BY <1>1, <2>1, <2>2
    <3> QED
      BY <1>1, <2>1, <2>2, <3>1, <3>2, MoveStep
  <2>3. CASE next_event[p] > Len(Inbox(p)) /\ MGoto(p, "wait") /\ UNCHANGED next_event
    <3>1. pc'[p] = "wait"
      BY <2>3 DEF MGoto, RoomTypes
    <3>2. PlaceOf(p)'
      BY <2>1, <3>1 DEF PlaceInv, PlaceOf, InRoom
    <3>3. Inbox(p)' = Inbox(p)
      BY <2>1 DEF Inbox
    <3> QED
      BY <1>1, <2>1, <2>3, <3>2, <3>3, MoveStep DEF MGoto
  <2> QED
    BY <1>4, <2>2, <2>3 DEF ReadOrWait
<1>5. CASE StageDone(p)
  <2>1. UNCHANGED <<host, purpose, next_event, rooms, history>>
        /\ pc[p] = "collect" /\ purpose[p] = "join"
    BY <1>1, <1>5 DEF StageDone, hostVars, roomVars, PlaceInv, PlaceOf
  <2>2. CASE stage[p] < stages
    <3>1. MGoto(p, "find") /\ stage' = [stage EXCEPT ![p] = stage[p] + 1]
          /\ UNCHANGED <<subscribed, room>>
      BY <1>5, <2>2 DEF StageDone
    <3>2. stage[p] + 1 = 2
      BY <1>1, <2>2 DEF SessionStages
    <3>3. stage' = [stage EXCEPT ![p] = 2]
      BY <3>1, <3>2
    <3>4. pc'[p] = "find"
      BY <3>1 DEF MGoto, RoomTypes
    <3>5. PlaceOf(p)'
      BY <2>1, <3>1, <3>4 DEF PlaceOf, InRoom
    <3>6. /\ pc[p] # "idle" /\ pc' = [pc EXCEPT ![p] = "find"]
          /\ purpose' = [purpose EXCEPT ![p] = purpose[p]]
          /\ next_event' = [next_event EXCEPT ![p] = next_event[p]]
          /\ UNCHANGED <<host, room, subscribed, rooms, history>>
          /\ 2 \in 1..2
      BY <1>1, <2>1, <3>1 DEF MGoto
    <3> QED
      BY <1>1, <3>5, <3>3, <3>6, MoveStep
  <2>3. CASE ~(stage[p] < stages)
    BY <1>5, <2>1, <2>3, DropStep DEF StageDone, MGoto
  <2> QED
    BY <2>2, <2>3
<1> QED
  BY <1>2, <1>3, <1>4, <1>5, LookupStep, EnterStep, PublishStep DEF Compute


LEMMA InitiateStep ==
    ASSUME PartyInv, Initiate
    PROVE  PartyInv'
<1> USE PartyAssumption DEF PartyInv
<1>1. UNCHANGED <<purpose, stage, room, subscribed, next_event, rooms, history>>
      /\ host = "idle"
  BY DEF Initiate, joinVars, roomVars
<1>2. \/ host' = "sleep" /\ pc' = [pc EXCEPT ![Host] = "find"]
      \/ host' = "failed" /\ pc' = pc
  BY DEF Initiate, MGoto
<1>3. RoomTypes'
  BY <1>1, <1>2 DEF RoomTypes, Computing
<1>4. \A p \in Followers : pc'[p] = pc[p]
  BY <1>2 DEF RoomTypes, Followers
<1>5. pc[Host] = "idle" /\ purpose[Host] = "join" /\ subscribed[Host][1] = 0
  BY <1>1 DEF HostFirst, PlaceInv, PlaceOf, RoomTypes
<1>6. \/ pc'[Host] = "find" /\ host' = "sleep"
      \/ pc'[Host] = "idle" /\ host' = "failed"
  <2>1. CASE host' = "sleep" /\ pc' = [pc EXCEPT ![Host] = "find"]
    BY <2>1 DEF RoomTypes
  <2>2. CASE host' = "failed" /\ pc' = pc
    BY <1>5, <2>2
  <2> QED
    BY <1>2, <2>1, <2>2
<1>7. PlaceOf(Host)'
  BY <1>1, <1>5, <1>6 DEF PlaceOf, InRoom
<1>8. PlaceInv'
  BY <1>1, <1>4, <1>7, PlaceOthers DEF Followers
<1>9. WaitersUpToDate'
  BY <1>1, <1>4, <1>6 DEF WaitersUpToDate, Inbox, Followers
<1>10. HostFirst'
  BY <1>1, <1>4, <1>5, <1>6 DEF HostFirst, Followers
<1> QED
  BY <1>3, <1>8, <1>9, <1>10

(* The invitations go out when the host has passed the first lookup. *)
LEMMA InviteStep ==
    ASSUME PartyInv, Invite
    PROVE  PartyInv'
<1> USE PartyAssumption DEF PartyInv
<1>1. /\ UNCHANGED <<purpose, stage, room, subscribed, next_event, rooms, history>>
      /\ host = "sleep" /\ host' = "responses"
      /\ pc[Host] \notin {"find", "create", "enter"}
  BY DEF Invite, joinVars, roomVars
<1>2. RoomTypes'
  BY <1>1 DEF Invite, RoomTypes, Computing
<1>3. /\ pc'[Host] = pc[Host]
      /\ \A p \in Followers : pc[p] = "idle" /\ pc'[p] \in {"idle", "invited"}
  BY <1>1 DEF Invite, RoomTypes, HostFirst, Followers
<1>4. ASSUME NEW p \in Parties PROVE PlaceOf(p)'
  <2>1. CASE p = Host
    BY <1>1, <1>3, <2>1 DEF PlaceInv, PlaceOf, InRoom
  <2>2. CASE p # Host
    <3>1. purpose[p] # "post" /\ pc'[p] \in {"idle", "invited"}
      BY <1>3, <2>2 DEF PlaceInv, PlaceOf, Followers
    <3> QED
      BY <1>1, <3>1 DEF PlaceOf, InRoom
  <2> QED
    BY <2>1, <2>2
<1>5. WaitersUpToDate'
  BY <1>1, <1>3 DEF WaitersUpToDate, Inbox, Followers
<1>6. HostFirst'
  BY <1>1, <1>3 DEF HostFirst, Followers
<1> QED
  BY <1>2, <1>4, <1>5, <1>6 DEF PlaceInv

(* The initiator's later steps do not touch the rooms. *)
LEMMA HostStep ==
    ASSUME PartyInv,
           UNCHANGED <<pc, purpose, stage, room, subscribed, next_event, rooms, history>>,
           host' = host \/ ({host, host'} \cap {"idle", "sleep"} = {})
    PROVE  PartyInv'
<1>1. RoomTypes'
  BY DEF PartyInv, RoomTypes
<1>2. PlaceInv'
  BY DEF PartyInv, PlaceInv, PlaceOf, InRoom
<1>3. WaitersUpToDate'
  BY DEF PartyInv, WaitersUpToDate, Inbox
<1>4. HostFirst'
  BY DEF PartyInv, HostFirst
<1> QED
  BY <1>1, <1>2, <1>3, <1>4 DEF PartyInv

LEMMA FollowerStep ==
    ASSUME PartyInv, NEW p \in Followers, Follow(p) \/ FollowerStores(p)
    PROVE  PartyInv'
<1> USE PartyAssumption DEF PartyInv
<1>1. UNCHANGED <<host, purpose, stage, next_event, rooms, history>>
      /\ pc[p] \in {"invited", "computed"} /\ p \in Parties /\ p # Host
  BY DEF Follow, FollowerStores, roomVars, Followers
<1>2. CASE Fail(p)
  BY <1>1, <1>2, DropStep DEF Fail, MGoto
<1>3. ASSUME NEW label \in {"find", "done"}, MGoto(p, label), UNCHANGED <<subscribed, room>>
      PROVE  PartyInv'
  <2>1. /\ purpose = [purpose EXCEPT ![p] = purpose[p]] /\ purpose[p] \in {"join", "post"}
        /\ stage = [stage EXCEPT ![p] = stage[p]] /\ stage[p] \in 1..2
        /\ next_event = [next_event EXCEPT ![p] = next_event[p]] /\ next_event[p] \in Nat
    BY <1>1 DEF RoomTypes
  <2>2. pc'[p] = label /\ purpose[p] # "post"
    BY <1>1, <1>3 DEF MGoto, RoomTypes, PlaceInv, PlaceOf
  <2>3. PlaceOf(p)'
    BY <1>1, <2>2 DEF PlaceOf, InRoom
  <2> QED
    BY <1>1, <1>3, <2>1, <2>3, MoveStep DEF MGoto
<1> QED
  BY <1>2, <1>3 DEF Follow, FollowerStores

LEMMA PartyStep == SessionStages /\ PartyInv /\ [MultipartyNext]_multipartyVars => PartyInv'
<1> SUFFICES ASSUME SessionStages, PartyInv, [MultipartyNext]_multipartyVars PROVE PartyInv'
  OBVIOUS
<1>1. ASSUME NEW p \in Parties, Timeout(p)
      PROVE  PartyInv'
  BY <1>1, DropStep DEF Timeout, Fail, MGoto, roomVars, Computing
<1>2. ASSUME NEW p \in Followers, ResponseTimeout(p)
      PROVE  PartyInv'
  BY <1>2, HostStep DEF ResponseTimeout, joinVars, roomVars
<1>3. CASE Count
  <2>1. UNCHANGED <<purpose, stage, next_event, rooms, history>> /\ host = "responses"
    BY <1>3 DEF Count, roomVars
  <2>2. CASE host' = "failed" /\ pc[Host] \in Computing /\ Fail(Host)
    <3>1. Host \in Parties /\ pc[Host] # "idle"
      BY <2>2, PartyAssumption DEF Computing
    <3> QED
      BY <2>1, <2>2, <3>1, DropStep DEF Fail, MGoto
  <2>3. CASE host' \in {"join", "failed"} /\ UNCHANGED <<pc, subscribed, room>>
    BY <2>1, <2>3, HostStep
  <2> QED
    BY <1>3, <2>2, <2>3, Zenon DEF Count
<1>4. CASE HostStores
  BY <1>4, HostStep DEF HostStores, joinVars, roomVars
<1>5. CASE RemoveAuthorization \/ UNCHANGED multipartyVars
  BY <1>5, HostStep DEF RemoveAuthorization, multipartyVars, joinVars, roomVars, hostVars
<1> QED
  BY <1>1, <1>2, <1>3, <1>4, <1>5, ComputeStep, InitiateStep, InviteStep, FollowerStep
     DEF MultipartyNext

LEMMA PartyInvariant == MultipartySpec => []PartyInv
<1>1. MultipartyInit => SessionStages
  BY DEF MultipartyInit, SessionStages
<1>2. SessionStages /\ [MultipartyNext]_multipartyVars => SessionStages'
  BY DEF SessionStages, MultipartyNext, multipartyVars, sessionVars, Initiate, Invite, Compute,
         FindRoom, CreateRoom, Enter, IssueIndex, Broadcast, Publish, ReadOrWait, StageDone, Timeout,
         Follow, FollowerStores, ResponseTimeout, Count, HostStores, RemoveAuthorization
<1> QED
  BY <1>1, <1>2, PartyInit, PartyStep, PTL DEF MultipartySpec

(* For any number of parties: a subscription never waits while a message   *)
(* it has not read is in its room, because Subscription::next and          *)
(* Room::publish meet at the lock of the messages.                         *)
THEOREM MultipartyWaitersUpToDate == MultipartySpec => []WaitersUpToDate
<1>1. PartyInv => WaitersUpToDate
  BY DEF PartyInv
<1> QED
  BY <1>1, PartyInvariant, PTL

(* For any number of parties and any choice of signers: while the host is  *)
(* in the first room of a session, everybody in that room is in the same   *)
(* instance of it.                                                         *)
THEOREM MultipartyOneFirstRoom == MultipartySpec => []OneFirstRoom
<1>1. PartyInv => OneFirstRoom
  BY DEF PartyInv, HostFirst, OneFirstRoom
<1> QED
  BY <1>1, PartyInvariant, PTL

=============================================================================

----------------------------- MODULE Multiparty -----------------------------
(***************************************************************************)
(* One multiparty session: key generation or signing                       *)
(* (src/multiparty/initiate_mp.rs, gg20_keygen.rs, gg20_signing.rs).  The  *)
(* initiator hosts the rooms that all parties exchange messages through    *)
(* (gg20_sm_manager.rs), joins first, invites the others, and accepts the  *)
(* result when enough of them report success.                              *)
(*                                                                         *)
(* Key generation uses one room, signing two, one after the other.  The    *)
(* cryptographic rounds of a room are abstracted to one message per party, *)
(* and the share or proof a party computes to the fact that it has one.    *)
(* The rooms' server is multi-threaded: every lock acquisition and atomic  *)
(* access of a room is a step.                                             *)
(***************************************************************************)
EXTENDS Naturals, Sequences, FiniteSets

CONSTANTS
    Parties,     \* party_keys of the identifier
    Host,        \* the initiator
    Threshold,   \* of the identifier
    Signers,     \* the sets of parties that signing is tried with
    MaxRooms     \* room instances in use at a time

ASSUME PartyAssumption ==
    /\ IsFiniteSet(Parties)
    /\ Host \in Parties
    /\ MaxRooms \in Nat
    /\ Threshold \in 1 .. (Cardinality(Parties) - 1)
    /\ \A S \in Signers : Host \in S /\ S \subseteq Parties

VARIABLES
    stages,       \* rooms of this session: 1 for keygen, 2 for signing
    members,      \* all parties for keygen, signing_party_keys for signing
    share,        \* parties that hold a share of an earlier key generation
    host,         \* where the initiator is
    authorized,   \* Relay of the host: the session is authorized
    responses,    \* what the initiator counts of each follower
    pc,           \* where the computation of each party is
    purpose,      \* why it looks up the room: to join or to post
    stage,        \* which room it is in
    room,         \* the instance it got
    subscribed,   \* its subscriptions, an instance per stage, 0 for none
    next_event,   \* what its subscription reads next
    seen,         \* the parties whose message it has read in this stage
    rooms,        \* Db: the instance of each stage's room id, 0 for none
    history,      \* the messages of each instance
    stored        \* parties that stored the result

roomVars == <<rooms, history>>
hostVars == <<host, authorized, responses>>
joinVars == <<purpose, stage, room, subscribed, next_event, seen>>
sessionVars == <<stages, members, share>>
multipartyVars == <<sessionVars, hostVars, joinVars, roomVars, pc, stored>>

Followers == Parties \ {Host}
Computing == {"find", "create", "enter", "index", "verify", "publish",
              "collect", "wait"}

MultipartyInit ==
    /\ stages \in {1, 2}
    /\ members \in IF stages = 1 THEN {Parties} ELSE Signers
    /\ share \in IF stages = 1 THEN {{}} ELSE SUBSET members
    /\ host = "idle"
    /\ authorized = FALSE
    /\ responses = [p \in Followers |-> "none"]
    /\ pc = [p \in Parties |-> "idle"]
    /\ purpose = [p \in Parties |-> "join"]
    /\ stage = [p \in Parties |-> 1]
    /\ room = [p \in Parties |-> 0]
    /\ subscribed = [p \in Parties |-> <<0, 0>>]
    /\ next_event = [p \in Parties |-> 1]
    /\ seen = [p \in Parties |-> {}]
    /\ rooms = <<0, 0>>
    /\ history = [i \in 1..MaxRooms |-> <<>>]
    /\ stored = {}

MGoto(p, label) == pc' = [pc EXCEPT ![p] = label]

-----------------------------------------------------------------------------
(* The rooms. *)

(* Mutant: a room is taken to be abandoned while somebody is in it. *)
OftenAbandoned(i) == Cardinality({p \in Parties : \E k \in 1..2 : subscribed[p][k] = i}) < 2

is_abandoned(i) == \A p \in Parties : \A k \in 1..2 : subscribed[p][k] # i

InstancesUsed == {i \in 1..MaxRooms :
                    \/ \E k \in 1..2 : rooms[k] = i
                    \/ \E p \in Parties : room[p] = i \/ \E k \in 1..2 : subscribed[p][k] = i}

AfterLookup(p) == MGoto(p, IF purpose[p] = "join" THEN "enter" ELSE "publish")

Reusable(p) == rooms[stage[p]] # 0 /\ ~is_abandoned(rooms[stage[p]])

(* get_room_or_create_empty, under the read lock ... *)
FindRoom(p) ==
    /\ pc[p] = "find"
    /\ \/ /\ Reusable(p)
          /\ room' = [room EXCEPT ![p] = rooms[stage[p]]]
          /\ AfterLookup(p)
       \/ /\ ~Reusable(p)
          /\ MGoto(p, "create")
          /\ UNCHANGED room
    /\ UNCHANGED <<sessionVars, hostVars, purpose, stage, subscribed, next_event,
                   seen, roomVars, stored>>

(* ... and under the write lock. *)
CreateRoom(p) ==
    /\ pc[p] = "create"
    /\ \/ /\ Reusable(p)
          /\ room' = [room EXCEPT ![p] = rooms[stage[p]]]
          /\ UNCHANGED roomVars
       \/ /\ ~Reusable(p)
          /\ \E i \in 1..MaxRooms \ InstancesUsed :
                /\ \A j \in 1..MaxRooms \ InstancesUsed : i <= j
                /\ rooms' = [rooms EXCEPT ![stage[p]] = i]
                /\ history' = [history EXCEPT ![i] = <<>>]
                /\ room' = [room EXCEPT ![p] = i]
    /\ AfterLookup(p)
    /\ UNCHANGED <<sessionVars, hostVars, purpose, stage, subscribed, next_event,
                   seen, stored>>

(* Room::subscribe, from the first message on. *)
Enter(p) ==
    /\ pc[p] = "enter"
    /\ subscribed' = [subscribed EXCEPT ![p][stage[p]] = room[p]]
    /\ next_event' = [next_event EXCEPT ![p] = 1]
    /\ seen' = [seen EXCEPT ![p] = {}]
    /\ MGoto(p, "index")
    /\ UNCHANGED <<sessionVars, hostVars, purpose, stage, room, roomVars, stored>>

(* A computation ends without a result; its subscriptions are dropped, and *)
(* a follower answers with the error.                                      *)
Fail(p) ==
    /\ MGoto(p, "failed")
    /\ subscribed' = [subscribed EXCEPT ![p] = <<0, 0>>]
    /\ room' = [room EXCEPT ![p] = 0]
    /\ responses' = [q \in Followers |->
                       IF q = p /\ responses[q] = "none" THEN "err" ELSE responses[q]]

(* issue_unique_idx: a party that is not authorized gets an index nobody   *)
(* has, with which signing fails at once.                                  *)
IssueIndex(p) ==
    /\ pc[p] = "index"
    /\ \/ /\ authorized \/ stages = 1
          /\ MGoto(p, "verify")
          /\ UNCHANGED <<subscribed, room, responses>>
       \/ /\ ~(authorized \/ stages = 1)
          /\ Fail(p)
    /\ UNCHANGED <<sessionVars, host, authorized, purpose, stage, next_event,
                   seen, roomVars, stored>>

(* broadcast: the server verifies the authorization and then looks for the *)
(* room; without one the message is dropped and the answer is still Ok.    *)
Broadcast(p) ==
    /\ pc[p] = "verify"
    /\ IF authorized
       THEN MGoto(p, "find") /\ purpose' = [purpose EXCEPT ![p] = "post"]
       ELSE MGoto(p, "collect") /\ UNCHANGED purpose
    /\ UNCHANGED <<sessionVars, hostVars, stage, room, subscribed, next_event,
                   seen, roomVars, stored>>

(* Mutant: only the party that waits longest is woken. *)
PublishOne(p) ==
    /\ pc[p] = "publish"
    /\ history' = [history EXCEPT ![room[p]] = Append(@, p)]
    /\ LET waiting == {q \in Parties : /\ pc[q] = "wait"
                                       /\ subscribed[q][stage[q]] = room[p]}
       IN  \E woken \in SUBSET waiting :
              /\ Cardinality(woken) <= 1
              /\ pc' = [q \in Parties |->
                          IF q = p \/ q \in woken THEN "collect" ELSE pc[q]]
    /\ purpose' = [purpose EXCEPT ![p] = "join"]
    /\ room' = [room EXCEPT ![p] = subscribed[p][stage[p]]]
    /\ UNCHANGED <<sessionVars, hostVars, stage, subscribed, next_event, seen,
                   rooms, stored>>

(* Room::publish: every subscription that waits is notified. *)
Publish(p) ==
    /\ pc[p] = "publish"
    /\ history' = [history EXCEPT ![room[p]] = Append(@, p)]
    /\ pc' = [q \in Parties |->
                IF \/ q = p
                   \/ pc[q] = "wait" /\ subscribed[q][stage[q]] = room[p]
                THEN "collect" ELSE pc[q]]
    /\ purpose' = [purpose EXCEPT ![p] = "join"]
    /\ room' = [room EXCEPT ![p] = subscribed[p][stage[p]]]
    /\ UNCHANGED <<sessionVars, hostVars, stage, subscribed, next_event, seen,
                   rooms, stored>>

Inbox(p) == history[subscribed[p][stage[p]]]

(* Subscription::next under the read lock: a message, or the registration  *)
(* for the next notification.                                              *)
ReadOrWait(p) ==
    /\ pc[p] = "collect"
    /\ seen[p] # members \ {p}
    /\ \/ /\ next_event[p] <= Len(Inbox(p))
          /\ seen' = [seen EXCEPT ![p] = @ \cup ({Inbox(p)[next_event[p]]} \ {p})]
          /\ next_event' = [next_event EXCEPT ![p] = @ + 1]
          /\ UNCHANGED pc
       \/ /\ next_event[p] > Len(Inbox(p))
          /\ MGoto(p, "wait")
          /\ UNCHANGED <<seen, next_event>>
    /\ UNCHANGED <<sessionVars, hostVars, purpose, stage, room, subscribed,
                   roomVars, stored>>

(* The messages of all the others are there: on to the second room, which  *)
(* everybody enters when it is ready, or the computation is complete and   *)
(* the subscriptions are dropped.                                          *)
StageDone(p) ==
    /\ pc[p] = "collect"
    /\ seen[p] = members \ {p}
    /\ IF stage[p] < stages
       THEN /\ stage' = [stage EXCEPT ![p] = @ + 1]
            /\ MGoto(p, "find")
            /\ UNCHANGED <<subscribed, room>>
       ELSE /\ MGoto(p, "computed")
            /\ subscribed' = [subscribed EXCEPT ![p] = <<0, 0>>]
            /\ room' = [room EXCEPT ![p] = 0]
            /\ UNCHANGED stage
    /\ UNCHANGED <<sessionVars, hostVars, purpose, next_event, seen, roomVars,
                   stored>>

Compute(p) ==
    \/ FindRoom(p)
    \/ CreateRoom(p)
    \/ Enter(p)
    \/ IssueIndex(p)
    \/ Broadcast(p)
    \/ Publish(p)
    \/ ReadOrWait(p)
    \/ StageDone(p)

(* The computation's own timeout, or an error of it. *)
Timeout(p) ==
    /\ pc[p] \in Computing
    /\ Fail(p)
    /\ UNCHANGED <<sessionVars, host, authorized, purpose, stage, next_event,
                   seen, roomVars, stored>>

-----------------------------------------------------------------------------
(* The initiator and its followers. *)

(* The session is authorized and the host's own computation spawned; a     *)
(* host without the share to sign with gives up.                           *)
Initiate ==
    /\ host = "idle"
    /\ authorized' = TRUE
    /\ IF stages = 1 \/ Host \in share
       THEN host' = "sleep" /\ MGoto(Host, "find")
       ELSE host' = "failed" /\ UNCHANGED pc
    /\ UNCHANGED <<sessionVars, responses, joinVars, roomVars, stored>>

(* Five seconds later the others are invited.  By then the host has joined *)
(* the room: that is what the sleep is for.                                *)
Invite ==
    /\ host = "sleep"
    /\ pc[Host] \notin {"find", "create", "enter"}
    /\ host' = "responses"
    /\ pc' = [p \in Parties |-> IF p \in members \ {Host} THEN "invited" ELSE pc[p]]
    /\ UNCHANGED <<sessionVars, authorized, responses, joinVars, roomVars, stored>>

(* A follower begins, or has no share, no metadata of the host, or is not  *)
(* reached at all.                                                         *)
Follow(p) ==
    /\ pc[p] = "invited"
    /\ \/ /\ stages = 1 \/ p \in share
          /\ MGoto(p, "find")
          /\ UNCHANGED <<subscribed, room, responses>>
       \/ Fail(p)
    /\ UNCHANGED <<sessionVars, host, authorized, purpose, stage, next_event,
                   seen, roomVars, stored>>

(* add_keygen or add_signing_proof, and then the answer; the insertion may *)
(* fail, and so may the query that checks it.                              *)
FollowerStores(p) ==
    /\ pc[p] = "computed"
    /\ p # Host
    /\ \/ /\ MGoto(p, "done")
          /\ stored' = stored \cup {p}
          /\ responses' = [responses EXCEPT ![p] = IF @ = "none" THEN "ok" ELSE @]
          /\ UNCHANGED <<subscribed, room>>
       \/ Fail(p) /\ stored' \in {stored, stored \cup {p}}
    /\ UNCHANGED <<sessionVars, host, authorized, purpose, stage, next_event,
                   seen, roomVars>>

(* The initiator no longer waits for p, which may still succeed. *)
ResponseTimeout(p) ==
    /\ host = "responses"
    /\ p \in members
    /\ responses[p] = "none"
    /\ responses' = [responses EXCEPT ![p] = "err"]
    /\ UNCHANGED <<sessionVars, host, authorized, joinVars, roomVars, pc, stored>>

(* Mutant: every answer counts. *)
AnyResponse == Cardinality({p \in Followers : responses[p] # "none"})

Successful == Cardinality({p \in Followers : responses[p] = "ok"})

(* All have answered: too few successes abort the host's computation. *)
Count ==
    /\ host = "responses"
    /\ \A p \in members \ {Host} : responses[p] # "none"
    /\ \/ /\ Successful < Threshold
          /\ host' = "failed"
          /\ IF pc[Host] \in Computing THEN Fail(Host)
             ELSE UNCHANGED <<pc, subscribed, room, responses>>
       \/ /\ Successful >= Threshold
          /\ host' = "join"
          /\ UNCHANGED <<pc, subscribed, room, responses>>
    /\ UNCHANGED <<sessionVars, authorized, purpose, stage, next_event, seen,
                   roomVars, stored>>

(* The host's own result is stored. *)
HostStores ==
    /\ host = "join"
    /\ pc[Host] \in {"computed", "failed"}
    /\ \/ /\ pc[Host] = "computed"
          /\ stored' = stored \cup {Host}
          /\ host' \in {"ok", "failed"}
       \/ host' = "failed" /\ UNCHANGED stored
    /\ UNCHANGED <<sessionVars, authorized, responses, joinVars, roomVars, pc>>

(* Mutant: the authorization of a failed session stays. *)
RemoveIfOk ==
    /\ host = "ok"
    /\ authorized
    /\ authorized' = FALSE
    /\ UNCHANGED <<sessionVars, host, responses, joinVars, roomVars, pc, stored>>

RemoveAuthorization ==
    /\ host \in {"ok", "failed"}
    /\ authorized
    /\ authorized' = FALSE
    /\ UNCHANGED <<sessionVars, host, responses, joinVars, roomVars, pc, stored>>

MultipartyNext ==
    \/ Initiate
    \/ Invite
    \/ \E p \in Parties : Compute(p) \/ Timeout(p)
    \/ \E p \in Followers : Follow(p) \/ FollowerStores(p) \/ ResponseTimeout(p)
    \/ Count
    \/ HostStores
    \/ RemoveAuthorization

MultipartySpec == MultipartyInit /\ [][MultipartyNext]_multipartyVars

(* Threads are scheduled and timers expire. *)
HostSteps == Initiate \/ Invite \/ Count \/ HostStores \/ RemoveAuthorization
PartySteps(p) == Compute(p) \/ Timeout(p) \/ (p # Host /\ (Follow(p) \/ FollowerStores(p)))

-----------------------------------------------------------------------------
(* A key or signature that the initiator reports as made is held by enough *)
(* parties to be used: the host and at least Threshold others have stored  *)
(* it, whatever timed out on either side of each answer.                   *)
ResultBacked == host = "ok" => Cardinality(stored) >= Threshold + 1

(* Nobody ends up alone in a room: all parties that are in the first room  *)
(* of a session are in the same instance of it as long as the host is      *)
(* there, although rooms without subscribers are replaced.                 *)
OneFirstRoom ==
    subscribed[Host][1] # 0 =>
        \A p \in Parties : subscribed[p][1] \in {0, subscribed[Host][1]}

(* No wake-up is lost: a subscription that waits for a notification has    *)
(* read every message of its room.                                         *)
WaitersUpToDate ==
    \A p \in Parties : pc[p] = "wait" => next_event[p] > Len(Inbox(p))

(* Every session ends: the initiator returns, its authorization is         *)
(* removed, and no follower is left computing.                             *)
SessionEnds ==
    (host = "sleep") ~> /\ host \in {"ok", "failed"}
                        /\ ~authorized
                        /\ \A p \in Parties : pc[p] \notin Computing

=============================================================================

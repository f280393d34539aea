---------------------- MODULE TransactionProcessProofs ----------------------
(***************************************************************************)
(* Proofs about TransactionProcess, for every set of requests, every       *)
(* transaction graph and every concurrency: copies of a transaction,       *)
(* faults and outputs known only to peers included, except where           *)
(* FreshRequests is assumed.                                               *)
(***************************************************************************)
EXTENDS TransactionProcessTypes

(* Conflict handling.  Most actions are quiet: they touch neither pools    *)
(* nor channels nor conflicts, and move one request forward.               *)

Quiet(r) ==
    /\ UNCHANGED <<utxo_channels, inbox, conflicts>>
    /\ \A q \in Requests \ {r} :
          /\ pc'[q] = pc[q]
          /\ response'[q] = response[q]
          /\ \A state \in {"Pending", "Accepted"} :
                <<q, state>> \in observation' => <<q, state>> \in observation
    /\ pc'[r] \in Unregistered => pc[r] \in Unregistered
    /\ pc'[r] \in Waiting => pc[r] \in Waiting
    /\ pc'[r] = "revalidate" => pc[r] = "revalidate"
    /\ pc'[r] = "pending" =>
          pc[r] = "pending" \/ (pc[r] = "revalidate" /\ conflicts[r] = {})
    /\ pc'[r] \in Won => pc[r] \in Won \/ conflicts[r] = {}
    /\ <<r, "Pending">> \in observation' =>
          <<r, "Pending">> \in observation \/ pc[r] = "pending"
    /\ <<r, "Accepted">> \in observation' =>
          /\ <<r, "Accepted">> \in observation \/ pc[r] = "accept"
          /\ pc'[r] \in (Won \ {"accept"}) \cup {"done"}
    /\ response'[r] \in {"aborted", "lost"} => response[r] \in {"aborted", "lost"}

(* All steps but Register, ReceiveConflict and Decide leave the pools,     *)
(* channels and decisions alone, and only move requests forward.           *)
LEMMA QuietActions ==
    ASSUME TypeOK, Inductive, NEW r \in Requests,
           \/ Receive(r)
           \/ Validate(r)
           \/ \E u \in UtxoIds : ResolveInput(r, u)
           \/ ResolveFails(r)
           \/ Revalidate(r)
           \/ ObservePending(r)
           \/ Gossip(r)
           \/ CloseWindow(r)
           \/ ObserveAccepted(r)
           \/ InsertTransactionRaw(r)
           \/ InsertUtxo(r)
           \/ InsertTransactionEdge(r)
           \/ DeleteUtxo(r)
           \/ NextLoop(r)
           \/ Respond(r)
           \/ Fault(r)
    PROVE  Quiet(r)
<1> DEFINE AcceptedPast == Signed(r, "Accepted") =>
                             pc[r] \in (Won \ {"accept"}) \cup {"done"}
<1>0. AcceptedPast
  BY DEF Inductive, WinnersOnly
<1> USE <1>0 DEF Quiet, TypeOK, Labels, Unregistered, Waiting, Won, Signed, Goto, Finish
<1>1. CASE Receive(r)
  BY <1>1 DEF Receive
<1>2. CASE Validate(r)
  BY <1>2 DEF Validate
<1>3. CASE \E u \in UtxoIds : ResolveInput(r, u)
  BY <1>3 DEF ResolveInput
<1>4. CASE ResolveFails(r)
  BY <1>4 DEF ResolveFails
<1>5. CASE Revalidate(r)
  BY <1>5 DEF Revalidate, SignUnlessConflict
<1>6. CASE ObservePending(r)
  BY <1>6 DEF ObservePending, Observe
<1>7. CASE Gossip(r)
  BY <1>7 DEF Gossip
<1>8. CASE CloseWindow(r)
  BY <1>8 DEF CloseWindow
<1>9. CASE ObserveAccepted(r)
  BY <1>9 DEF ObserveAccepted, Observe
<1>10. CASE InsertTransactionRaw(r)
  BY <1>10 DEF InsertTransactionRaw
<1>11. CASE InsertUtxo(r)
  BY <1>11 DEF InsertUtxo
<1>12. CASE InsertTransactionEdge(r)
  BY <1>12 DEF InsertTransactionEdge
<1>13. CASE DeleteUtxo(r)
  BY <1>13 DEF DeleteUtxo
<1>14. CASE NextLoop(r)
  BY <1>14 DEF NextLoop
<1>15. CASE Respond(r)
  BY <1>15 DEF Respond
<1>16. CASE Fault(r)
  BY <1>16 DEF Fault, MayFail, Observe
<1> HIDE <1>0 DEF Quiet, TypeOK, Labels, Unregistered, Waiting, Won, Signed, Goto,
    Finish, AcceptedPast
<1> QED
  BY <1>1, <1>2, <1>3, <1>4, <1>5, <1>6, <1>7, <1>8, <1>9, <1>10, <1>11, <1>12,
     <1>13, <1>14, <1>15, <1>16

(* Pools that do not change keep their members and their order. *)
LEMMA SamePools ==
    ASSUME UNCHANGED utxo_channels
    PROVE  /\ \A u : Pool(u)' = Pool(u)
           /\ \A r, s, u : Before(r, s, u)' <=> Before(r, s, u)
           /\ \A r, s : Share(r, s)' <=> Share(r, s)
           /\ \A r : FirstComer(r)' <=> FirstComer(r)
  BY DEF Pool, Before, Share, FirstComer

(* Such steps keep the inductive invariant. *)
LEMMA QuietInductive ==
    ASSUME TypeOK, Inductive, NEW r \in Requests, Quiet(r)
    PROVE  Inductive'
<1>1. /\ \A u : Pool(u)' = Pool(u)
      /\ \A q, s, u : Before(q, s, u)' <=> Before(q, s, u)
      /\ \A q, s : Share(q, s)' <=> Share(q, s)
      /\ \A q : FirstComer(q)' <=> FirstComer(q)
  BY SamePools DEF Quiet
<1>2. inbox' = inbox /\ conflicts' = conflicts
  BY DEF Quiet
<1>3. PoolsSound'
  <2> SUFFICES ASSUME NEW u \in UtxoIds, NEW q \in Pool(u)
               PROVE  u \in SetOf(InputsOf(q)) /\ pc'[q] \notin Unregistered
    BY <1>1 DEF PoolsSound, Unregistered
  <2> QED
    BY RivalsAreRequests, Zenon DEF Inductive, PoolsSound, Quiet
<1>4. EarlierKnown'
  BY <1>1, <1>2 DEF Inductive, EarlierKnown
<1>5. WinnersOnly'
  <2> SUFFICES ASSUME NEW q \in Requests
               PROVE  /\ pc'[q] \in Won \/ Signed(q, "Accepted")' => Wins(q)
                      /\ Signed(q, "Accepted")' =>
                           pc'[q] \in (Won \ {"accept"}) \cup {"done"}
    BY <1>2 DEF WinnersOnly, Wins, Won
  <2>1. CASE q # r
    BY <2>1, Zenon DEF Inductive, WinnersOnly, Quiet, Signed
  <2>2. CASE q = r
    BY <2>2 DEF Inductive, WinnersOnly, Quiet, Signed, Wins, Won
  <2> QED
    BY <2>1, <2>2
<1>6. PendingFirst'
  <2> SUFFICES ASSUME NEW q \in Requests,
                      \/ pc'[q] = "pending"
                      \/ Signed(q, "Pending")'
                      \/ pc'[q] = "revalidate" /\ conflicts[q] = {}
               PROVE  FirstComer(q)
    BY <1>1, <1>2 DEF PendingFirst
  <2>1. CASE q # r
    BY <2>1, Zenon DEF Inductive, PendingFirst, Quiet, Signed
  <2>2. CASE q = r
    BY <2>2 DEF Inductive, PendingFirst, Quiet, Signed
  <2> QED
    BY <2>1, <2>2
<1>7. ConflictsShare'
  BY <1>1, <1>2 DEF Inductive, ConflictsShare
<1>8. NoticeDelivered'
  BY <1>1, <1>2, Zenon DEF Inductive, NoticeDelivered, Quiet, Waiting, Conflict
<1>9. RejectionJustified'
  BY <1>1, Zenon DEF Inductive, RejectionJustified, Quiet
<1> QED
  BY <1>3, <1>4, <1>5, <1>6, <1>7, <1>8, <1>9 DEF Inductive

(* Sending adds the message to the channels of the receivers. *)
LEMMA SendAdds ==
    ASSUME TypeOK, NEW receivers, NEW m \in Messages, Send(receivers, m)
    PROVE  \A q \in Requests :
             SetOf(inbox'[q]) = IF q \in receivers THEN SetOf(inbox[q]) \cup {m}
                                                   ELSE SetOf(inbox[q])
<1> SUFFICES ASSUME NEW q \in Requests
             PROVE  SetOf(inbox'[q]) = IF q \in receivers
                                       THEN SetOf(inbox[q]) \cup {m}
                                       ELSE SetOf(inbox[q])
  OBVIOUS
<1>1. inbox[q] \in Seq(Messages)
  BY DEF TypeOK
<1>2. inbox'[q] = IF q \in receivers THEN Append(inbox[q], m) ELSE inbox[q]
  BY DEF Send
<1>3. SetOf(Append(inbox[q], m)) = SetOf(inbox[q]) \cup {m}
  BY <1>1, SetOfAppend
<1> QED
  BY <1>2, <1>3, Zenon

(* What Register does to the pools: r joins those of its inputs, last. *)
LEMMA RegisterPools ==
    ASSUME TypeOK, PoolsSound, NEW r \in Requests, Register(r)
    PROVE  /\ \A u \in UtxoIds : r \notin Pool(u)
           /\ \A u \in UtxoIds :
                Pool(u)' = IF u \in SetOf(InputsOf(r)) THEN Pool(u) \cup {r} ELSE Pool(u)
           /\ \A q, s \in Requests, u \in UtxoIds :
                Before(q, s, u)' =>
                  \/ Before(q, s, u) /\ s # r /\ q # r
                  \/ s = r /\ q # r /\ q \in Rivals(r)
           /\ \A q \in Requests : FirstComer(q) => FirstComer(q)'
<1>1. \A u \in UtxoIds : r \notin Pool(u)
  BY DEF Register, PoolsSound, Unregistered
<1>2. ASSUME NEW u \in UtxoIds
      PROVE  /\ utxo_channels[u] \in Seq(Requests)
             /\ utxo_channels'[u] = IF u \in SetOf(InputsOf(r))
                                    THEN Append(utxo_channels[u], r)
                                    ELSE utxo_channels[u]
  BY DEF Register, TypeOK
<1>3. \A u \in UtxoIds :
        Pool(u)' = IF u \in SetOf(InputsOf(r)) THEN Pool(u) \cup {r} ELSE Pool(u)
  <2> SUFFICES ASSUME NEW u \in UtxoIds
               PROVE  Pool(u)' = IF u \in SetOf(InputsOf(r))
                                 THEN Pool(u) \cup {r} ELSE Pool(u)
    OBVIOUS
  <2>1. Pool(u)' = SetOf(utxo_channels'[u])
    BY DEF Pool, SetOf
  <2>2. SetOf(Append(utxo_channels[u], r)) = SetOf(utxo_channels[u]) \cup {r}
    BY <1>2, SetOfAppend
  <2> QED
    BY <1>2, <2>1, <2>2, Zenon DEF Pool
<1>4. ASSUME NEW q \in Requests, NEW s \in Requests, NEW u \in UtxoIds,
             Before(q, s, u)'
      PROVE  \/ Before(q, s, u) /\ s # r /\ q # r
             \/ s = r /\ q # r /\ q \in Rivals(r)
  <2>1. CASE u \notin SetOf(InputsOf(r))
    <3>1. Before(q, s, u)
      BY <1>2, <1>4, <2>1 DEF Before
    <3> QED
      BY <1>1, <3>1 DEF Before, Pool, SetOf
  <2>2. CASE u \in SetOf(InputsOf(r))
    <3>1. utxo_channels'[u] = Append(utxo_channels[u], r)
      BY <1>2, <2>2, Zenon
    <3>2. PICK i, j \in DOMAIN utxo_channels'[u] :
            i < j /\ utxo_channels'[u][i] = q /\ utxo_channels'[u][j] = s
      BY <1>4 DEF Before
    <3>3. /\ DOMAIN utxo_channels[u] = 1..Len(utxo_channels[u])
          /\ DOMAIN utxo_channels'[u] = 1..(Len(utxo_channels[u]) + 1)
          /\ Len(utxo_channels[u]) \in Nat
          /\ \A k \in 1..Len(utxo_channels[u]) :
                utxo_channels'[u][k] = utxo_channels[u][k]
          /\ utxo_channels'[u][Len(utxo_channels[u]) + 1] = r
      BY <1>2, <3>1
    <3>4. i \in DOMAIN utxo_channels[u] /\ utxo_channels[u][i] = q
      BY <3>2, <3>3
    <3>5. q \in Pool(u) /\ q # r
      BY <1>1, <3>4 DEF Pool, SetOf
    <3>6. CASE j = Len(utxo_channels[u]) + 1
      BY <2>2, <3>2, <3>3, <3>5, <3>6 DEF Rivals
    <3>7. CASE j # Len(utxo_channels[u]) + 1
      <4>1. j \in DOMAIN utxo_channels[u] /\ utxo_channels[u][j] = s
        BY <3>2, <3>3, <3>7
      <4>2. s # r
        BY <1>1, <4>1 DEF Pool, SetOf
      <4> QED
        BY <3>2, <3>4, <3>5, <4>1, <4>2 DEF Before
    <3> QED
      BY <3>6, <3>7
  <2> QED
    BY <2>1, <2>2
<1>5. ASSUME NEW q \in Requests, FirstComer(q)
      PROVE  FirstComer(q)'
  <2> SUFFICES ASSUME NEW u \in SetOf(InputsOf(q))
               PROVE  utxo_channels'[u] # <<>> /\ utxo_channels'[u][1] = q
    BY DEF FirstComer, InputsOf, SetOf
  <2>1. u \in UtxoIds
    BY RequestFacts
  <2>2. utxo_channels[u] # <<>> /\ utxo_channels[u][1] = q
    BY <1>5 DEF FirstComer
  <2>3. utxo_channels[u] \in Seq(Requests)
    BY <1>2, <2>1
  <2>4. /\ Append(utxo_channels[u], r) # <<>>
        /\ Append(utxo_channels[u], r)[1] = q
    BY <2>2, <2>3
  <2> QED
    BY <1>2, <2>1, <2>2, <2>4, Zenon
<1> QED
  BY <1>1, <1>3, <1>4, <1>5

(* Joining the contention pools and notifying the rivals keeps it. *)
LEMMA RegisterInductive ==
    ASSUME TypeOK, Inductive, NEW r \in Requests, Register(r)
    PROVE  Inductive'
<1>1. /\ \A u \in UtxoIds : r \notin Pool(u)
      /\ \A u \in UtxoIds :
           Pool(u)' = IF u \in SetOf(InputsOf(r)) THEN Pool(u) \cup {r} ELSE Pool(u)
      /\ \A q, s \in Requests, u \in UtxoIds :
           Before(q, s, u)' =>
             \/ Before(q, s, u) /\ s # r /\ q # r
             \/ s = r /\ q # r /\ q \in Rivals(r)
      /\ \A q \in Requests : FirstComer(q) => FirstComer(q)'
  BY RegisterPools DEF Inductive
<1>2. /\ pc[r] = "resolve"
      /\ pc' = [pc EXCEPT ![r] = "revalidate"]
      /\ conflicts' = [conflicts EXCEPT ![r] = Rivals(r)]
      /\ UNCHANGED <<response, observation>>
  BY DEF Register, Goto
<1>3. /\ \A q \in Requests \ {r} : pc'[q] = pc[q] /\ conflicts'[q] = conflicts[q]
      /\ pc'[r] = "revalidate"
      /\ conflicts'[r] = Rivals(r)
  BY <1>2 DEF TypeOK
<1>4. \A q \in Requests :
        SetOf(inbox'[q]) = IF q \in Rivals(r)
                           THEN SetOf(inbox[q]) \cup {Conflict(r, FALSE)}
                           ELSE SetOf(inbox[q])
  <2>1. Conflict(r, FALSE) \in Messages
    BY DEF Conflict, Messages
  <2>2. Send(Rivals(r), Conflict(r, FALSE))
    BY Zenon DEF Register
  <2> QED
    BY <2>1, <2>2, SendAdds, Zenon
<1>5. Rivals(r) \subseteq Requests /\ \A u \in UtxoIds : Pool(u) \subseteq Requests
  BY RivalsAreRequests
<1>6. \A q \in Requests, s \in Requests : Share(q, s) => Share(q, s)'
  BY <1>1 DEF Share
<1>7. \A q \in Rivals(r) : q # r /\ Share(r, q)' /\ Share(q, r)'
  BY <1>1, RequestFacts DEF Rivals, Share
<1>8. PoolsSound'
  <2> SUFFICES ASSUME NEW u \in UtxoIds, NEW q \in Pool(u)'
               PROVE  u \in SetOf(InputsOf(q)) /\ pc'[q] \notin Unregistered
    BY DEF PoolsSound, Unregistered, SetOf, InputsOf
  <2>1. CASE q = r
    BY <1>1, <1>3, <2>1 DEF Unregistered
  <2>2. CASE q # r
    <3>1. q \in Pool(u) /\ q \in Requests
      BY <1>1, <1>5, <2>2
    <3> QED
      BY <1>3, <2>2, <3>1 DEF Inductive, PoolsSound
  <2> QED
    BY <2>1, <2>2
<1>9. EarlierKnown'
  <2> SUFFICES ASSUME NEW q \in Requests, NEW s \in Requests, NEW u \in UtxoIds,
                      Before(q, s, u)'
               PROVE  q \in conflicts'[s]
    BY DEF EarlierKnown
  <2> QED
    BY <1>1, <1>3 DEF Inductive, EarlierKnown
<1>10. WinnersOnly'
  <2> SUFFICES ASSUME NEW q \in Requests
               PROVE  /\ pc'[q] \in Won \/ Signed(q, "Accepted")' => Wins(q)'
                      /\ Signed(q, "Accepted")' =>
                           pc'[q] \in (Won \ {"accept"}) \cup {"done"}
    BY DEF WinnersOnly, Won
  <2>1. Signed(q, "Accepted")' <=> Signed(q, "Accepted")
    BY <1>2 DEF Signed
  <2>2. CASE q = r
    <3>1. pc'[r] \notin Won /\ ~Signed(r, "Accepted")
      BY <1>2, <1>3 DEF Won, Inductive, WinnersOnly
    <3> QED
      BY <2>1, <2>2, <3>1
  <2>3. CASE q # r
    BY <1>3, <2>1, <2>3 DEF Inductive, WinnersOnly, Wins
  <2> QED
    BY <2>2, <2>3
<1>11. PendingFirst'
  <2> SUFFICES ASSUME NEW q \in Requests,
                      \/ pc'[q] = "pending"
                      \/ Signed(q, "Pending")'
                      \/ pc'[q] = "revalidate" /\ conflicts'[q] = {}
               PROVE  FirstComer(q)'
    BY DEF PendingFirst
  <2>1. Signed(q, "Pending")' <=> Signed(q, "Pending")
    BY <1>2 DEF Signed
  <2>2. CASE q # r
    BY <1>1, <1>3, <2>1, <2>2 DEF Inductive, PendingFirst
  <2>3. CASE q = r /\ Signed(r, "Pending")
    BY <1>1, <2>3 DEF Inductive, PendingFirst
  <2>4. CASE q = r /\ Rivals(r) = {}
    <3> SUFFICES ASSUME NEW u \in SetOf(InputsOf(r))
                 PROVE  utxo_channels'[u] # <<>> /\ utxo_channels'[u][1] = r
      BY <2>4 DEF FirstComer, SetOf, InputsOf
    <3>1. u \in UtxoIds
      BY RequestFacts
    <3>2. utxo_channels[u] \in Seq(Requests) /\ SetOf(utxo_channels[u]) = {}
      <4>1. Pool(u) \subseteq Rivals(r)
        BY DEF Rivals
      <4>2. Pool(u) = {}
        BY <2>4, <4>1
      <4> QED
        BY <3>1, <4>2 DEF Pool, TypeOK
    <3>3. utxo_channels[u] = <<>>
      BY <3>2, SetOfEmpty
    <3>4. utxo_channels'[u] = Append(utxo_channels[u], r)
      BY <3>1 DEF Register
    <3>5. Append(<<>>, r) = <<r>>
      OBVIOUS
    <3> QED
      BY <3>3, <3>4, <3>5
  <2> QED
    BY <1>3, <2>1, <2>2, <2>3, <2>4
<1>12. ConflictsShare'
  <2> SUFFICES ASSUME NEW q \in Requests
               PROVE  /\ \A p \in conflicts'[q] : p # q /\ Share(q, p)'
                      /\ \A m \in SetOf(inbox'[q]) :
                            /\ m.from # q
                            /\ Share(q, m.from)'
                            /\ m.abort => HashOf[m.from] <= HashOf[q]
    BY DEF ConflictsShare, SetOf
  <2>1. \A p \in conflicts'[q] : p # q /\ Share(q, p)'
    <3>1. conflicts[q] \subseteq Requests
      BY DEF TypeOK
    <3>2. \A p \in conflicts[q] : p # q /\ Share(q, p)
      BY DEF Inductive, ConflictsShare
    <3>3. conflicts'[q] = IF q = r THEN Rivals(r) ELSE conflicts[q]
      BY <1>3
    <3> QED
      BY <1>6, <1>7, <3>1, <3>2, <3>3
  <2>2. ASSUME NEW m \in SetOf(inbox[q])
        PROVE  /\ m.from # q
               /\ Share(q, m.from)'
               /\ m.abort => HashOf[m.from] <= HashOf[q]
    <3>1. m \in Messages
      BY SetOfSeq DEF TypeOK
    <3> QED
      BY <1>6, <3>1 DEF Inductive, ConflictsShare, Messages
  <2>3. ASSUME q \in Rivals(r)
        PROVE  /\ Conflict(r, FALSE).from # q
               /\ Share(q, Conflict(r, FALSE).from)'
               /\ ~Conflict(r, FALSE).abort
    BY <1>7, <2>3 DEF Conflict
  <2> QED
    BY <1>4, <2>1, <2>2, <2>3, Zenon
<1>13. NoticeDelivered'
  <2> SUFFICES ASSUME NEW q \in Requests, NEW s \in Requests, NEW u \in UtxoIds,
                      Before(q, s, u)'
               PROVE  \/ s \in conflicts'[q]
                      \/ Conflict(s, FALSE) \in SetOf(inbox'[q])
                      \/ pc'[q] \notin Waiting
    BY Zenon DEF NoticeDelivered, Waiting, Conflict, SetOf
  <2>1. CASE s = r /\ q \in Rivals(r)
    BY <1>4, <2>1, Zenon
  <2>2. CASE Before(q, s, u) /\ q # r
    BY <1>3, <1>4, <2>2, Zenon DEF Inductive, NoticeDelivered, Waiting
  <2> QED
    BY <1>1, <2>1, <2>2, Zenon
<1>14. RejectionJustified'
  <2> SUFFICES ASSUME NEW q \in Requests, response'[q] \in {"aborted", "lost"}
               PROVE  \E s \in Requests \ {q}, u \in SetOf(InputsOf(q)) :
                        q \in Pool(u)' /\ s \in Pool(u)' /\ HashOf[s] <= HashOf[q]
    BY DEF RejectionJustified, SetOf, InputsOf
  <2>1. PICK s \in Requests \ {q}, u \in SetOf(InputsOf(q)) :
          q \in Pool(u) /\ s \in Pool(u) /\ HashOf[s] <= HashOf[q]
    BY <1>2 DEF Inductive, RejectionJustified
  <2>2. u \in UtxoIds
    BY RequestFacts
  <2> QED
    BY <1>1, <2>1, <2>2
<1> QED
  BY <1>8, <1>9, <1>10, <1>11, <1>12, <1>13, <1>14 DEF Inductive

(* Reading one notice in the wait loop keeps it. *)
LEMMA ReceiveConflictInductive ==
    ASSUME TypeOK, Inductive, NEW r \in Requests, ReceiveConflict(r)
    PROVE  Inductive'
<1> DEFINE m == Head(inbox[r])
<1>1. /\ SetOf(inbox[r]) = SetOf(Tail(inbox[r])) \cup {m}
      /\ m \in Messages
  BY SetOfTail DEF ReceiveConflict, TypeOK
<1>2. /\ \A u : Pool(u)' = Pool(u)
      /\ \A q, s, u : Before(q, s, u)' <=> Before(q, s, u)
      /\ \A q, s : Share(q, s)' <=> Share(q, s)
      /\ \A q : FirstComer(q)' <=> FirstComer(q)
  BY SamePools DEF ReceiveConflict
<1>3. /\ pc[r] = "wait"
      /\ inbox' = [inbox EXCEPT ![r] = Tail(@)]
      /\ observation' = observation
      /\ m.from \in Requests
      /\ m.from # r
      /\ Share(r, m.from)
      /\ m.abort => HashOf[m.from] <= HashOf[r]
  BY <1>1 DEF ReceiveConflict, Inductive, ConflictsShare, Messages
<1>4. /\ \A q \in Requests \ {r} : inbox'[q] = inbox[q]
      /\ SetOf(inbox'[r]) = SetOf(Tail(inbox[r]))
  BY <1>3 DEF TypeOK
<1>5. /\ \A q \in Requests \ {r} : /\ pc'[q] = pc[q]
                                  /\ conflicts'[q] = conflicts[q]
                                  /\ response'[q] = response[q]
      /\ \/ m.abort /\ pc'[r] = "done" /\ conflicts'[r] = conflicts[r]
         \/ /\ ~m.abort
            /\ pc'[r] = "wait"
            /\ conflicts'[r] = conflicts[r] \cup {m.from}
            /\ response'[r] = response[r]
  <2>1. CASE m.abort
    BY <2>1 DEF ReceiveConflict, Finish, TypeOK
  <2>2. CASE ~m.abort
    BY <1>3, <2>2 DEF ReceiveConflict, TypeOK
  <2> QED
    BY <2>1, <2>2
<1>6. PoolsSound'
  <2> SUFFICES ASSUME NEW u \in UtxoIds, NEW q \in Pool(u)
               PROVE  u \in SetOf(InputsOf(q)) /\ pc'[q] \notin Unregistered
    BY <1>2 DEF PoolsSound, Unregistered
  <2> QED
    BY <1>3, <1>5, RivalsAreRequests DEF Inductive, PoolsSound, Unregistered
<1>7. EarlierKnown'
  BY <1>2, <1>5 DEF Inductive, EarlierKnown
<1>8. WinnersOnly'
  <2> SUFFICES ASSUME NEW q \in Requests
               PROVE  /\ pc'[q] \in Won \/ Signed(q, "Accepted")' => Wins(q)'
                      /\ Signed(q, "Accepted")' =>
                           pc'[q] \in (Won \ {"accept"}) \cup {"done"}
    BY DEF WinnersOnly, Won
  <2>1. Signed(q, "Accepted")' <=> Signed(q, "Accepted")
    BY <1>3 DEF Signed
  <2>2. CASE q = r
    <3>1. pc'[r] \notin Won /\ ~Signed(r, "Accepted")
      BY <1>3, <1>5 DEF Won, Inductive, WinnersOnly
    <3> QED
      BY <2>1, <2>2, <3>1
  <2>3. CASE q # r
    BY <1>5, <2>1, <2>3 DEF Inductive, WinnersOnly, Wins
  <2> QED
    BY <2>2, <2>3
<1>9. PendingFirst'
  <2> SUFFICES ASSUME NEW q \in Requests,
                      \/ pc'[q] = "pending"
                      \/ Signed(q, "Pending")'
                      \/ pc'[q] = "revalidate" /\ conflicts'[q] = {}
               PROVE  FirstComer(q)
    BY <1>2 DEF PendingFirst
  <2>1. Signed(q, "Pending")' <=> Signed(q, "Pending")
    BY <1>3 DEF Signed
  <2> QED
    BY <1>5, <2>1 DEF Inductive, PendingFirst
<1>10. ConflictsShare'
  <2> SUFFICES ASSUME NEW q \in Requests
               PROVE  /\ \A p \in conflicts'[q] : p # q /\ Share(q, p)
                      /\ \A n \in SetOf(inbox'[q]) :
                            /\ n.from # q
                            /\ Share(q, n.from)
                            /\ n.abort => HashOf[n.from] <= HashOf[q]
    BY <1>2 DEF ConflictsShare, SetOf
  <2>1. CASE q # r
    BY <1>4, <1>5, <2>1 DEF Inductive, ConflictsShare
  <2>2. CASE q = r
    <3> HIDE DEF m
    <3>a. ConflictsShare
      BY DEF Inductive
    <3>b. \A p \in conflicts[r] : p # r /\ Share(r, p)
      BY <3>a DEF ConflictsShare
    <3>1. \A p \in conflicts'[r] : p # r /\ Share(r, p)
      BY <1>3, <1>5, <3>a, <3>b DEF ConflictsShare
    <3>2. SetOf(inbox'[r]) \subseteq SetOf(inbox[r])
      BY <1>1, <1>4
    <3> QED
      BY <2>2, <3>1, <3>2 DEF Inductive, ConflictsShare
  <2> QED
    BY <2>1, <2>2
<1>11. NoticeDelivered'
  <2> SUFFICES ASSUME NEW q \in Requests, NEW s \in Requests, NEW u \in UtxoIds,
                      Before(q, s, u)
               PROVE  \/ s \in conflicts'[q]
                      \/ Conflict(s, FALSE) \in SetOf(inbox'[q])
                      \/ pc'[q] \notin Waiting
    BY <1>2, Zenon DEF NoticeDelivered, Waiting, Conflict, SetOf
  <2>1. \/ s \in conflicts[q]
        \/ Conflict(s, FALSE) \in SetOf(inbox[q])
        \/ pc[q] \notin Waiting
    BY Zenon DEF Inductive, NoticeDelivered, Waiting
  <2>2. CASE q # r
    BY <1>4, <1>5, <2>1, <2>2, Zenon
  <2>3. CASE q = r
    <3>1. Conflict(s, FALSE) = m => ~m.abort /\ m.from = s
      BY DEF Conflict
    <3> QED
      BY <1>1, <1>3, <1>4, <1>5, <2>1, <2>3, <3>1, Zenon DEF Waiting
  <2> QED
    BY <2>2, <2>3, Zenon
<1>12. RejectionJustified'
  <2> SUFFICES ASSUME NEW q \in Requests, response'[q] \in {"aborted", "lost"}
               PROVE  \E s \in Requests \ {q}, u \in SetOf(InputsOf(q)) :
                        q \in Pool(u) /\ s \in Pool(u) /\ HashOf[s] <= HashOf[q]
    BY <1>2 DEF RejectionJustified
  <2>1. CASE q # r \/ ~m.abort
    BY <1>5, <2>1 DEF Inductive, RejectionJustified
  <2>2. CASE q = r /\ m.abort
    BY <1>3, <2>2 DEF Share, Inductive, PoolsSound
  <2> QED
    BY <2>1, <2>2
<1> QED
  BY <1>6, <1>7, <1>8, <1>9, <1>10, <1>11, <1>12 DEF Inductive

(* Closing the window and choosing the winner keeps it. *)
LEMMA DecideInductive ==
    ASSUME TypeOK, Inductive, NEW r \in Requests, Decide(r)
    PROVE  Inductive'
<1>1. /\ \A u : Pool(u)' = Pool(u)
      /\ \A q, s, u : Before(q, s, u)' <=> Before(q, s, u)
      /\ \A q, s : Share(q, s)' <=> Share(q, s)
      /\ \A q : FirstComer(q)' <=> FirstComer(q)
  BY SamePools DEF Decide
<1>2. /\ pc[r] = "decide"
      /\ UNCHANGED <<conflicts, observation>>
      /\ \A q \in Requests \ {r} : pc'[q] = pc[q] /\ response'[q] = response[q]
      /\ \/ Wins(r) /\ pc'[r] = "accept" /\ response'[r] = response[r]
         \/ ~Wins(r) /\ pc'[r] = "done"
  <2>1. CASE Wins(r)
    BY <2>1 DEF Decide, Goto, TypeOK
  <2>2. CASE ~Wins(r)
    BY <2>2, Zenon DEF Decide, Finish, TypeOK
  <2> QED
    BY <2>1, <2>2
<1>3. ASSUME NEW q \in Requests
      PROVE  \/ SetOf(inbox'[q]) = SetOf(inbox[q])
             \/ /\ Wins(r)
                /\ q \in conflicts[r]
                /\ SetOf(inbox'[q]) = SetOf(inbox[q]) \cup {Conflict(r, TRUE)}
  <2>1. CASE Wins(r)
    <3>1. Conflict(r, TRUE) \in Messages
      BY DEF Conflict, Messages
    <3>2. Send(conflicts[r], Conflict(r, TRUE))
      BY <2>1, Zenon DEF Decide
    <3> QED
      BY <2>1, <3>1, <3>2, SendAdds, Zenon
  <2>2. CASE ~Wins(r)
    BY <2>2, Zenon DEF Decide
  <2> QED
    BY <2>1, <2>2, Zenon
<1>4. PoolsSound'
  <2> SUFFICES ASSUME NEW u \in UtxoIds, NEW q \in Pool(u)
               PROVE  u \in SetOf(InputsOf(q)) /\ pc'[q] \notin Unregistered
    BY <1>1 DEF PoolsSound, Unregistered
  <2> QED
    BY <1>2, RivalsAreRequests DEF Inductive, PoolsSound, Unregistered
<1>5. EarlierKnown'
  BY <1>1, <1>2 DEF Inductive, EarlierKnown
<1>6. WinnersOnly'
  <2> SUFFICES ASSUME NEW q \in Requests
               PROVE  /\ pc'[q] \in Won \/ Signed(q, "Accepted") => Wins(q)
                      /\ Signed(q, "Accepted") =>
                           pc'[q] \in (Won \ {"accept"}) \cup {"done"}
    BY <1>2, Zenon DEF WinnersOnly, Wins, Won, Signed
  <2>1. CASE q = r
    <3>1. ~Signed(r, "Accepted")
      BY <1>2 DEF Won, Inductive, WinnersOnly
    <3> QED
      BY <1>2, <2>1, <3>1 DEF Won
  <2>2. CASE q # r
    BY <1>2, <2>2 DEF Inductive, WinnersOnly
  <2> QED
    BY <2>1, <2>2
<1>7. PendingFirst'
  <2> SUFFICES ASSUME NEW q \in Requests,
                      \/ pc'[q] = "pending"
                      \/ Signed(q, "Pending")
                      \/ pc'[q] = "revalidate" /\ conflicts[q] = {}
               PROVE  FirstComer(q)
    BY <1>1, <1>2 DEF PendingFirst, Signed
  <2> QED
    BY <1>2 DEF Inductive, PendingFirst
<1>8. ConflictsShare'
  <2> SUFFICES ASSUME NEW q \in Requests
               PROVE  /\ \A p \in conflicts[q] : p # q /\ Share(q, p)
                      /\ \A n \in SetOf(inbox'[q]) :
                            /\ n.from # q
                            /\ Share(q, n.from)
                            /\ n.abort => HashOf[n.from] <= HashOf[q]
    BY <1>1, <1>2 DEF ConflictsShare, SetOf
  <2>1. ASSUME Wins(r), q \in conflicts[r]
        PROVE  /\ Conflict(r, TRUE).from # q
               /\ Share(q, Conflict(r, TRUE).from)
               /\ HashOf[Conflict(r, TRUE).from] <= HashOf[q]
    BY <2>1 DEF Conflict, Inductive, ConflictsShare, Share, Wins
  <2>2. /\ \A p \in conflicts[q] : p # q /\ Share(q, p)
        /\ \A n \in SetOf(inbox[q]) :
              /\ n.from # q
              /\ Share(q, n.from)
              /\ n.abort => HashOf[n.from] <= HashOf[q]
    BY DEF Inductive, ConflictsShare
  <2>3. CASE SetOf(inbox'[q]) = SetOf(inbox[q])
    BY <2>2, <2>3
  <2>4. CASE /\ Wins(r)
             /\ q \in conflicts[r]
             /\ SetOf(inbox'[q]) = SetOf(inbox[q]) \cup {Conflict(r, TRUE)}
    BY <2>1, <2>2, <2>4, Zenon
  <2> QED
    BY <1>3, <2>3, <2>4, Zenon
<1>9. NoticeDelivered'
  <2> SUFFICES ASSUME NEW q \in Requests, NEW s \in Requests, NEW u \in UtxoIds,
                      Before(q, s, u)
               PROVE  \/ s \in conflicts[q]
                      \/ Conflict(s, FALSE) \in SetOf(inbox'[q])
                      \/ pc'[q] \notin Waiting
    BY <1>1, <1>2, Zenon DEF NoticeDelivered, Waiting, Conflict, SetOf
  <2> QED
    BY <1>2, <1>3, Zenon DEF Inductive, NoticeDelivered, Waiting
<1>10. RejectionJustified'
  <2> SUFFICES ASSUME NEW q \in Requests, response'[q] \in {"aborted", "lost"}
               PROVE  \E s \in Requests \ {q}, u \in SetOf(InputsOf(q)) :
                        q \in Pool(u) /\ s \in Pool(u) /\ HashOf[s] <= HashOf[q]
    BY <1>1 DEF RejectionJustified
  <2>1. CASE q # r \/ Wins(r)
    BY <1>2, <2>1 DEF Inductive, RejectionJustified
  <2>2. CASE q = r /\ ~Wins(r)
    <3>1. PICK s \in conflicts[r] : ~(HashOf[r] <= HashOf[s])
      BY <2>2 DEF Wins
    <3>a. ConflictsShare
      BY DEF Inductive
    <3>b. s \in Requests
      BY DEF TypeOK
    <3>c. \A p \in conflicts[r] : p # r /\ Share(r, p)
      BY <3>a DEF ConflictsShare
    <3>2. s \in Requests /\ s # r /\ Share(r, s)
      BY <3>b, <3>c
    <3>3. HashOf[s] <= HashOf[r]
      BY <3>1, <3>2, RequestFacts
    <3>4. PICK u \in UtxoIds : r \in Pool(u) /\ s \in Pool(u)
      BY <3>2 DEF Share
    <3>5. u \in SetOf(InputsOf(r))
      BY <3>4 DEF Inductive, PoolsSound
    <3> QED
      BY <2>2, <3>2, <3>3, <3>4, <3>5
  <2> QED
    BY <2>1, <2>2
<1> QED
  BY <1>4, <1>5, <1>6, <1>7, <1>8, <1>9, <1>10 DEF Inductive

(* The node starts with empty pools, where it holds. *)
LEMMA InitInductive == Init => Inductive
<1> SUFFICES ASSUME Init
             PROVE  Inductive
  OBVIOUS
<1>1. \A u \in UtxoIds : utxo_channels[u] = <<>> /\ Pool(u) = {}
  BY DEF Init, Pool, SetOf
<1>2. \A r, s \in Requests, u \in UtxoIds : ~Before(r, s, u)
  BY <1>1 DEF Before
<1>3. \A r \in Requests : /\ SetOf(inbox[r]) = {}
                          /\ conflicts[r] = {}
                          /\ pc[r] = "idle"
                          /\ response[r] = "none"
                          /\ ~Signed(r, "Pending")
                          /\ ~Signed(r, "Accepted")
  BY DEF Init, SetOf, Signed
<1> QED
  BY <1>1, <1>2, <1>3, Zenon
  DEF Inductive, PoolsSound, EarlierKnown, WinnersOnly, PendingFirst,
      ConflictsShare, NoticeDelivered, RejectionJustified, Won

(* Every step of a request keeps it. *)
LEMMA NextInductive == TypeOK /\ Inductive /\ [Next]_vars => Inductive'
<1> SUFFICES ASSUME TypeOK, Inductive, [Next]_vars
             PROVE  Inductive'
  OBVIOUS
<1>1. ASSUME NEW r \in Requests, Receive(r) \/ Progress(r) \/ Fault(r)
      PROVE  Inductive'
  <2>1. CASE Register(r)
    BY <2>1, RegisterInductive
  <2>2. CASE ReceiveConflict(r)
    BY <2>2, ReceiveConflictInductive
  <2>3. CASE Decide(r)
    BY <2>3, DecideInductive
  <2>4. CASE ~Register(r) /\ ~ReceiveConflict(r) /\ ~Decide(r)
    <3>1. Quiet(r)
      BY <1>1, <2>4, QuietActions DEF Progress
    <3> QED
      BY <3>1, QuietInductive
  <2> QED
    BY <2>1, <2>2, <2>3, <2>4
<1>2. CASE UNCHANGED vars
  <2>0. /\ PoolsSound /\ EarlierKnown /\ WinnersOnly /\ PendingFirst
        /\ ConflictsShare /\ NoticeDelivered /\ RejectionJustified
    BY DEF Inductive
  <2>1. PoolsSound'
    BY <1>2, <2>0 DEF vars, PoolsSound, Pool
  <2>2. EarlierKnown'
    BY <1>2, <2>0 DEF vars, EarlierKnown, Before
  <2>3. WinnersOnly'
    BY <1>2, <2>0, Zenon DEF vars, WinnersOnly, Signed, Wins
  <2>4. PendingFirst'
    BY <1>2, <2>0 DEF vars, PendingFirst, FirstComer, Signed
  <2>5. ConflictsShare'
    BY <1>2, <2>0 DEF vars, ConflictsShare, Share, Pool
  <2>6. NoticeDelivered'
    BY <1>2, <2>0 DEF vars, NoticeDelivered, Before, Conflict
  <2>7. RejectionJustified'
    BY <1>2, <2>0 DEF vars, RejectionJustified, Pool
  <2> QED
    BY <2>1, <2>2, <2>3, <2>4, <2>5, <2>6, <2>7 DEF Inductive
<1> QED
  BY <1>1, <1>2 DEF Next, Idle

(* It holds in every reachable state, with the type invariant. *)
LEMMA InductiveInvariant == Spec => [](TypeOK /\ Inductive)
  BY InitTypeOK, NextTypeOK, InitInductive, NextInductive, PTL DEF Spec

(* At most one request of a contention pool is signed Pending by this      *)
(* node: process observes Pending only for the first comer on every input. *)
THEOREM PendingUnique == Spec => []OnePendingPerUtxo
<1>1. Inductive => OnePendingPerUtxo
  <2> SUFFICES ASSUME Inductive, NEW r \in Requests, NEW s \in Requests,
                      NEW u \in SetOf(InputsOf(r)) \cap SetOf(InputsOf(s)),
                      Signed(r, "Pending"), Signed(s, "Pending")
               PROVE  r = s
    BY DEF OnePendingPerUtxo
  <2>1. FirstComer(r) /\ FirstComer(s)
    BY DEF Inductive, PendingFirst
  <2> QED
    BY <2>1 DEF FirstComer
<1> QED
  BY <1>1, InductiveInvariant, PTL

(* Two contenders are both accepted only in the one order that             *)
(* resolve_conflict leaves open: a smaller hash that registered after the  *)
(* other had stopped reading its notices.                                  *)
THEOREM AcceptedOnlyDescending == Spec => []AcceptedDescending
<1>1. TypeOK /\ Inductive => AcceptedDescending
  <2> SUFFICES ASSUME TypeOK, Inductive, NEW r \in Requests, NEW s \in Requests,
                      NEW u \in UtxoIds, Contend(r, s, u), Before(r, s, u),
                      Signed(r, "Accepted"), Signed(s, "Accepted")
               PROVE  HashOf[s] < HashOf[r] /\ s \notin conflicts[r]
    BY DEF AcceptedDescending
  <2>1. r \in conflicts[s] /\ Wins(r) /\ Wins(s)
    BY DEF Inductive, EarlierKnown, WinnersOnly
  <2>2. HashOf[s] <= HashOf[r] /\ HashOf[s] # HashOf[r]
    BY <2>1 DEF Wins, Contend
  <2>3. HashOf[r] \in Nat /\ HashOf[s] \in Nat
    BY RequestFacts
  <2>4. HashOf[s] < HashOf[r]
    BY <2>2, <2>3
  <2>5. ~(HashOf[r] <= HashOf[s])
    BY <2>3, <2>4
  <2>6. s \notin conflicts[r]
    BY <2>1, <2>5 DEF Wins
  <2> QED
    BY <2>4, <2>6
<1> QED
  BY <1>1, InductiveInvariant, PTL

(* The notice of a rival that registers later reaches every request whose  *)
(* wait loop is not over.                                                  *)
THEOREM NoticesReachWaiters == Spec => []NoticeDelivered
<1>1. Inductive => NoticeDelivered
  BY DEF Inductive
<1> QED
  BY <1>1, InductiveInvariant, PTL

(* A double spend is held against a request only when a rival in one of    *)
(* its pools has a hash as small.                                          *)
THEOREM RejectionsJustified == Spec => []RejectionJustified
<1>1. Inductive => RejectionJustified
  BY DEF Inductive
<1> QED
  BY <1>1, InductiveInvariant, PTL

-----------------------------------------------------------------------------
(* Copies of a transaction. *)

(* r has put the output v into the utxo table. *)
Wrote(r, v) ==
    /\ v \in SetOf(OutputsOf(r))
    /\ \/ pc[r] = "outputs" /\ v \notin SetOf(todo[r])
       \/ pc[r] \in {"edges", "delete", "collect"}
       \/ response[r] = "ok"

(* Who puts an output into the table after another found it spent. *)
WroteAgain ==
    \A r, s \in Requests : \A v \in UtxoIds :
        r # s /\ Wrote(r, v) /\ Wrote(s, v) => transaction_edge[v] # {}

(* An output is put into the table only when it is not there. *)
LEMMA StepWroteAgain ==
    ASSUME TypeOK, CommitRows, WroteAgain,
           NEW r \in Requests, Receive(r) \/ Progress(r) \/ Fault(r)
    PROVE  WroteAgain'
<1> USE DEF store
<1>1. Grows /\ OthersKept(r)
  BY StepGrows, StepKinds
<1>2. \A q \in Requests, v \in UtxoIds : Wrote(q, v) => Known(v)
  BY DEF CommitRows, RowsOf, Wrote
<1>3. \A q \in Requests \ {r}, v \in UtxoIds : Wrote(q, v)' <=> Wrote(q, v)
  BY <1>1 DEF OthersKept, Wrote
<1>4. ASSUME NEW v \in UtxoIds, Wrote(r, v)', ~Wrote(r, v)
      PROVE  v \notin utxo
  <2>1. CASE Begins(r) \/ Looks(r) \/ Passes(r) \/ Waits(r)
    BY <1>4, <2>1 DEF Begins, Looks, Passes, Waits, Wrote
  <2>2. CASE Ends(r)
    BY <1>4, <2>2 DEF Ends, Wrote
  <2>3. CASE ObserveAccepted(r)
    BY <1>4, <2>3 DEF ObserveAccepted, Goto, TypeOK, Wrote
  <2>4. CASE InsertTransactionRaw(r)
    BY <1>4, <2>4 DEF InsertTransactionRaw, Goto, TypeOK, Wrote
  <2>5. CASE Inserts(r)
    <3>1. SetOf(todo[r]) = SetOf(Tail(todo[r])) \cup {Head(todo[r])} /\ pc[r] = "outputs"
      BY <2>5, SetOfTail DEF Inserts, InsertUtxo, TypeOK
    <3> QED
      BY <1>4, <2>5, <3>1 DEF Inserts, Wrote
  <2>6. CASE InsertTransactionEdge(r) \/ DeleteUtxo(r)
    BY <1>4, <2>6 DEF InsertTransactionEdge, DeleteUtxo, Wrote
  <2>7. CASE NextLoop(r)
    <3>1. /\ SetOf(todo[r]) = {} /\ UNCHANGED response
          /\ pc[r] \in {"outputs", "edges", "delete"}
      BY <2>7, EmptyChannel DEF NextLoop, Goto
    <3> QED
      BY <1>4, <3>1 DEF Wrote
  <2>8. CASE Respond(r)
    BY <1>4, <2>8 DEF Respond, Wrote
  <2> QED
    BY <2>1, <2>2, <2>3, <2>4, <2>5, <2>6, <2>7, <2>8, StepKinds
<1>5. ASSUME NEW p \in Requests, NEW q \in Requests, NEW v \in UtxoIds,
             p # q, Wrote(p, v)', Wrote(q, v)'
      PROVE  transaction_edge'[v] # {}
  <2>1. CASE Wrote(p, v) /\ Wrote(q, v)
    BY <1>1, <1>5, <2>1 DEF WroteAgain, Grows
  <2>2. CASE ~Wrote(p, v)
    <3>1. p = r /\ Wrote(q, v) /\ v \notin utxo
      BY <1>3, <1>4, <1>5, <2>2
    <3> QED
      BY <1>1, <1>2, <3>1 DEF Known, Grows
  <2>3. CASE ~Wrote(q, v)
    <3>1. q = r /\ Wrote(p, v) /\ v \notin utxo
      BY <1>3, <1>4, <1>5, <2>3
    <3> QED
      BY <1>1, <1>2, <3>1 DEF Known, Grows
  <2> QED
    BY <2>1, <2>2, <2>3
<1> QED
  BY <1>5 DEF WroteAgain

(* A transaction is answered as accepted twice only when its outputs were  *)
(* spent in between, for any number of copies, of children and of errors.  *)
THEOREM AcceptedTwiceOnlySpent == Spec => []AnsweredOkOnce
<1>1. Init => WroteAgain
  BY DEF Init, WroteAgain, Wrote
<1>2. TypeOK /\ CommitRows /\ WroteAgain /\ [Next]_vars => WroteAgain'
  <2> SUFFICES ASSUME TypeOK, CommitRows, WroteAgain, [Next]_vars PROVE WroteAgain'
    OBVIOUS
  <2>1. CASE UNCHANGED vars
    BY <2>1 DEF vars, WroteAgain, Wrote
  <2> QED
    BY <2>1, StepWroteAgain DEF Next, Idle
<1>3. WroteAgain => AnsweredOkOnce
  <2> SUFFICES ASSUME WroteAgain, NEW r \in Requests, NEW s \in Requests,
                      response[r] = "ok", response[s] = "ok", HashOf[r] = HashOf[s], r # s,
                      NEW u \in SetOf(OutputsOf(r))
               PROVE  transaction_edge[u] # {}
    BY DEF AnsweredOkOnce
  <2>1. u \in UtxoIds /\ u \in SetOf(OutputsOf(s))
    BY RowTypes DEF OutputsOf
  <2> QED
    BY <2>1 DEF WroteAgain, Wrote
<1> QED
  BY <1>1, <1>2, <1>3, AlwaysCommitRows, PTL DEF Spec

-----------------------------------------------------------------------------
(* Requests without copies. *)

(* Every request is for a transaction of its own, which is not in the      *)
(* store at start up, and peers do not vouch for its outputs before it is. *)
FreshRequests ==
    /\ \A r, s \in Requests : HashOf[r] = HashOf[s] => r = s
    /\ \A r \in Requests : HashOf[r] \notin Stored
    /\ \A r \in Requests : SetOf(OutputsOf(r)) \cap PeerValid = {}

(* No commit will put u into the utxo table any more. *)
Past(q, u) ==
    \/ pc[q] \in {"edges", "delete", "collect", "done"}
    \/ pc[q] = "outputs" /\ u \notin SetOf(todo[q])

Settled(u) == \A q \in Requests : u \in SetOf(OutputsOf(q)) => Past(q, u)

(* What is unspent, spent or resolved was written before ... *)
SpendsSettled ==
    /\ \A u \in utxo : Settled(u)
    /\ \A u \in UtxoIds : transaction_edge[u] # {} => Settled(u)
    /\ \A r \in Requests : \A u \in SetOf(InputsOf(r)) :
          \/ resolution[r][u] \in {"internal", "peers"}
          \/ pc[r] \in Resolved
          \/ response[r] = "ok"
          => Settled(u)

(* ... so that what a commit has deleted stays deleted. *)
DeletedOf(r) ==
    /\ pc[r] = "delete" => \A u \in SetOf(InputsOf(r)) \ SetOf(todo[r]) : u \notin utxo
    /\ pc[r] = "collect" \/ response[r] = "ok" => \A u \in SetOf(InputsOf(r)) : u \notin utxo

RowsOnce == \A r \in Requests : pc[r] = "outputs" => Once(todo[r])

(* The outputs of different requests are different. *)
LEMMA OutputsApart ==
    ASSUME FreshRequests, NEW r \in Requests, NEW s \in Requests,
           NEW u \in SetOf(OutputsOf(r)), u \in SetOf(OutputsOf(s))
    PROVE  r = s
<1>1. HashOf[r] \in Hash /\ HashOf[s] \in Hash
  BY RequestFacts
<1>2. u.transaction_hash = HashOf[r] /\ u.transaction_hash = HashOf[s]
  BY <1>1, OutputFacts DEF OutputsOf
<1> QED
  BY <1>2 DEF FreshRequests

(* No output of a request is unspent at start up. *)
LEMMA OutputsNew ==
    ASSUME FreshRequests, NEW r \in Requests, NEW u \in SetOf(OutputsOf(r))
    PROVE  u \notin Unspent /\ u \notin PeerValid
<1>1. HashOf[r] \in Hash
  BY RequestFacts
<1>2. u.transaction_hash = HashOf[r]
  BY <1>1, OutputFacts DEF OutputsOf
<1> QED
  BY <1>2, LedgerAssumption DEF FreshRequests

(* A commit does not go back. *)
LEMMA PastStays ==
    ASSUME TypeOK, NEW r \in Requests, Receive(r) \/ Progress(r) \/ Fault(r),
           NEW q \in Requests, NEW u, Past(q, u)
    PROVE  Past(q, u)'
<1>1. CASE q # r
  <2>1. pc'[q] = pc[q] /\ todo'[q] = todo[q]
    BY <1>1, StepKinds DEF OthersKept
  <2> QED
    BY <2>1 DEF Past
<1>2. CASE q = r
  <2>1. CASE Begins(r) \/ Looks(r) \/ Passes(r) \/ Waits(r) \/ ObserveAccepted(r)
             \/ InsertTransactionRaw(r)
    BY <1>2, <2>1 DEF Begins, Looks, Passes, Waits, ObserveAccepted, InsertTransactionRaw, Past
  <2>2. CASE Ends(r)
    BY <1>2, <2>2 DEF Ends, Past
  <2>3. CASE Inserts(r)
    <3>1. SetOf(todo[r]) = SetOf(Tail(todo[r])) \cup {Head(todo[r])}
      BY <2>3, SetOfTail DEF Inserts, InsertUtxo, TypeOK
    <3> QED
      BY <1>2, <2>3, <3>1 DEF Inserts, InsertUtxo, Past
  <2>4. CASE InsertTransactionEdge(r) \/ DeleteUtxo(r)
    BY <1>2, <2>4 DEF InsertTransactionEdge, DeleteUtxo, Past
  <2>5. CASE NextLoop(r) \/ Respond(r)
    BY <1>2, <2>5 DEF NextLoop, Respond, Goto, Finish, TypeOK, Past
  <2> QED
    BY <2>1, <2>2, <2>3, <2>4, <2>5, StepKinds
<1> QED
  BY <1>1, <1>2

(* Settled outputs stay settled. *)
LEMMA SettledStays ==
    ASSUME TypeOK, NEW r \in Requests, Receive(r) \/ Progress(r) \/ Fault(r),
           NEW u, Settled(u)
    PROVE  Settled(u)'
  BY PastStays DEF Settled

(* The list of outputs a commit has still to write has no output twice. *)
LEMMA StepRowsOnce ==
    ASSUME TypeOK, RowsOnce, NEW r \in Requests, Receive(r) \/ Progress(r) \/ Fault(r)
    PROVE  RowsOnce'
<1>1. OthersKept(r)
  BY StepKinds
<1> SUFFICES ASSUME pc'[r] = "outputs" PROVE Once(todo'[r])
  BY <1>1 DEF RowsOnce, OthersKept
<1>2. CASE Begins(r) \/ Looks(r) \/ Passes(r) \/ Waits(r) \/ Ends(r)
  BY <1>2 DEF Begins, Looks, Passes, Waits, Ends
<1>3. CASE ObserveAccepted(r) \/ NextLoop(r) \/ Respond(r)
  BY <1>3 DEF ObserveAccepted, NextLoop, Respond, Goto, Finish, TypeOK
<1>4. CASE InsertTransactionRaw(r)
  <2>1. todo'[r] = OutputsOf(r)
    BY <1>4 DEF InsertTransactionRaw, TypeOK
  <2>2. HashOf[r] \in Hash
    BY RequestFacts
  <2> QED
    BY <2>1, <2>2, OutputFacts DEF OutputsOf
<1>5. CASE Inserts(r)
  BY <1>5, OnceTail DEF Inserts, InsertUtxo, RowsOnce, TypeOK
<1>6. CASE InsertTransactionEdge(r) \/ DeleteUtxo(r)
  BY <1>6 DEF InsertTransactionEdge, DeleteUtxo
<1> QED
  BY <1>2, <1>3, <1>4, <1>5, <1>6, StepKinds

(* A resolution finds an output only after its commit has written it. *)
LEMMA StepSpendsSettled ==
    ASSUME FreshRequests, TypeOK, CommitRows, RowsOnce, SpendsSettled,
           NEW r \in Requests, Receive(r) \/ Progress(r) \/ Fault(r)
    PROVE  SpendsSettled'
<1> USE DEF store
<1>1. \A u : Settled(u) => Settled(u)'
  BY SettledStays
<1>2. ASSUME NEW u \in utxo' PROVE Settled(u)'
  <2>1. CASE u \in utxo
    BY <1>1, <2>1 DEF SpendsSettled
  <2>2. CASE u \notin utxo
    <3>1. /\ Inserts(r) /\ u = Head(todo[r]) /\ pc[r] = "outputs"
          /\ u \in SetOf(todo[r]) /\ u \in SetOf(OutputsOf(r))
      BY <2>2, NewRow
    <3>2. pc'[r] = "outputs" /\ u \notin SetOf(todo'[r])
      BY <3>1, OnceTail DEF Inserts, InsertUtxo, RowsOnce, TypeOK
    <3> QED
      BY <3>1, <3>2, OutputsApart DEF Settled, Past
  <2> QED
    BY <2>1, <2>2
<1>3. ASSUME NEW u \in UtxoIds, transaction_edge'[u] # {} PROVE Settled(u)'
  <2>1. CASE transaction_edge[u] # {}
    BY <1>1, <2>1 DEF SpendsSettled
  <2>2. CASE transaction_edge[u] = {}
    <3>1. InsertTransactionEdge(r)
      BY <1>3, <2>2, StepKinds
      DEF Begins, Looks, Passes, Waits, Ends, ObserveAccepted, InsertTransactionRaw,
          Inserts, InsertUtxo, DeleteUtxo, NextLoop, Respond
    <3>2. u = Head(todo[r]) /\ u \in SetOf(todo[r]) /\ pc[r] = "edges"
      <4>1. Head(todo[r]) \in SetOf(todo[r])
        BY <3>1, SetOfTail DEF InsertTransactionEdge, TypeOK
      <4> QED
        BY <1>3, <2>2, <3>1, <4>1 DEF InsertTransactionEdge, TypeOK
    <3>3. u \in SetOf(InputsOf(r))
      BY <3>2 DEF CommitRows, RowsOf
    <3> QED
      BY <1>1, <3>2, <3>3 DEF SpendsSettled, Resolved
  <2> QED
    BY <2>1, <2>2
<1>4. ASSUME NEW q \in Requests, NEW u \in SetOf(InputsOf(q)),
             \/ resolution'[q][u] \in {"internal", "peers"}
             \/ pc'[q] \in Resolved
             \/ response'[q] = "ok"
      PROVE  Settled(u)'
  <2>0. u \in UtxoIds
    BY RowTypes
  <2>1. CASE \/ resolution[q][u] \in {"internal", "peers"}
             \/ pc[q] \in Resolved
             \/ response[q] = "ok"
    BY <1>1, <2>1 DEF SpendsSettled
  <2>2. CASE ~(\/ resolution[q][u] \in {"internal", "peers"}
               \/ pc[q] \in Resolved
               \/ response[q] = "ok")
    <3>1. q = r
      BY <1>4, <2>2, StepKinds DEF OthersKept
    <3>2. Looks(r)
      <4>1. ~Passes(r)
        BY <2>2, <3>1 DEF Passes
      <4>2. ~Begins(r)
        BY <1>4, <2>2, <3>1 DEF Begins, Resolved
      <4>3. ~Ends(r)
        BY <1>4, <2>0, <2>2, <3>1 DEF Ends, Resolved
      <4>4. ~Waits(r) /\ ~ObserveAccepted(r) /\ ~InsertTransactionRaw(r) /\ ~Inserts(r)
        BY <2>2, <3>1 DEF Waits, ObserveAccepted, InsertTransactionRaw, Inserts, InsertUtxo,
                          Resolved
      <4>5. ~InsertTransactionEdge(r) /\ ~DeleteUtxo(r) /\ ~NextLoop(r) /\ ~Respond(r)
        BY <2>2, <3>1 DEF InsertTransactionEdge, DeleteUtxo, NextLoop, Respond, Resolved
      <4> QED
        BY <4>1, <4>2, <4>3, <4>4, <4>5, StepKinds
    <3>3. PICK w \in SetOf(InputsOf(r)) :
            /\ resolution'[r][w] \in ResolveOutcomes(w)
            /\ \A v \in UtxoIds \ {w} : resolution'[r][v] = resolution[r][v]
      BY <3>2 DEF Looks
    <3>4. resolution'[r][u] \in {"internal", "peers"}
      BY <1>4, <2>2, <3>1, <3>2 DEF Looks
    <3>5. u = w
      BY <2>0, <2>2, <3>1, <3>3, <3>4
    <3>6. u \in utxo \/ u \in PeerValid
      BY <3>3, <3>4, <3>5 DEF ResolveOutcomes, query_utxo_id_valid, PeersVouch
    <3>7. u \in PeerValid => Settled(u)
      BY OutputsNew DEF Settled
    <3> QED
      BY <1>1, <3>6, <3>7 DEF SpendsSettled
  <2> QED
    BY <2>1, <2>2
<1> QED
  BY <1>2, <1>3, <1>4 DEF SpendsSettled

(* No commit puts back what another has deleted. *)
LEMMA StepDeleted ==
    ASSUME FreshRequests, TypeOK, CommitRows, SpendsSettled, \A q \in Requests : DeletedOf(q),
           NEW r \in Requests, Receive(r) \/ Progress(r) \/ Fault(r)
    PROVE  \A q \in Requests : DeletedOf(q)'
<1> USE DEF store
<1>1. \A u : u \in utxo' /\ u \notin utxo => ~Settled(u)
  BY NewRow DEF Settled, Past
<1>2. \A q \in Requests : \A u \in SetOf(InputsOf(q)) :
         (pc[q] \in Resolved \/ response[q] = "ok") /\ u \notin utxo => u \notin utxo'
  BY <1>1 DEF SpendsSettled
<1>3. ASSUME NEW q \in Requests, q # r PROVE DeletedOf(q)'
  <2>1. pc'[q] = pc[q] /\ response'[q] = response[q] /\ todo'[q] = todo[q]
    BY <1>3, StepKinds DEF OthersKept
  <2> QED
    BY <1>2, <2>1 DEF DeletedOf, Resolved
<1>4. DeletedOf(r)'
  <2>1. CASE Begins(r) \/ Looks(r) \/ Passes(r) \/ Waits(r)
    BY <1>2, <2>1 DEF Begins, Looks, Passes, Waits, DeletedOf, Resolved
  <2>2. CASE Ends(r)
    BY <1>2, <2>2 DEF Ends, DeletedOf
  <2>3. CASE ObserveAccepted(r) \/ InsertTransactionRaw(r)
    BY <1>2, <2>3 DEF ObserveAccepted, InsertTransactionRaw, Goto, TypeOK, DeletedOf
  <2>4. CASE Inserts(r) \/ InsertTransactionEdge(r)
    BY <1>2, <2>4 DEF Inserts, InsertUtxo, InsertTransactionEdge, DeletedOf
  <2>5. CASE DeleteUtxo(r)
    <3>1. /\ SetOf(todo[r]) = SetOf(Tail(todo[r])) \cup {Head(todo[r])}
          /\ todo'[r] = Tail(todo[r])
      BY <2>5, SetOfTail DEF DeleteUtxo, TypeOK
    <3> QED
      BY <1>2, <2>5, <3>1 DEF DeleteUtxo, DeletedOf, Resolved
  <2>6. CASE NextLoop(r)
    <3>1. SetOf(todo[r]) = {} /\ UNCHANGED <<response, utxo>>
      BY <2>6, EmptyChannel DEF NextLoop, Goto
    <3>2. \/ pc[r] \in {"outputs", "edges"} /\ pc'[r] \in {"edges", "delete"}
                 /\ todo'[r] = InputsOf(r)
          \/ pc[r] = "delete" /\ pc'[r] = "collect"
      BY <2>6 DEF NextLoop, Goto, TypeOK
    <3> QED
      BY <3>1, <3>2 DEF DeletedOf
  <2>7. CASE Respond(r)
    <3>1. pc[r] = "collect" /\ pc'[r] = "done" /\ UNCHANGED utxo
      BY <2>7 DEF Respond, Finish, TypeOK
    <3> QED
      BY <3>1 DEF DeletedOf
  <2> QED
    BY <2>1, <2>2, <2>3, <2>4, <2>5, <2>6, <2>7, StepKinds
<1> QED
  BY <1>3, <1>4

FreshInv ==
    /\ TypeOK
    /\ CommitRows
    /\ RowsOnce
    /\ SpendsSettled
    /\ \A r \in Requests : DeletedOf(r)

(* At the start no output of a request is in the tables. *)
LEMMA InitFreshInv ==
    ASSUME FreshRequests, Init
    PROVE  FreshInv
<1>1. \A u \in utxo : Settled(u)
  BY OutputsNew DEF Init, Settled
<1>2. SpendsSettled
  <2>1. ASSUME NEW r \in Requests, NEW u \in SetOf(InputsOf(r))
        PROVE  resolution[r][u] = "none" /\ pc[r] = "idle" /\ response[r] = "none"
    BY RowTypes DEF Init
  <2> QED
    BY <1>1, <2>1 DEF Init, SpendsSettled, Resolved
<1>3. RowsOnce /\ \A r \in Requests : DeletedOf(r)
  BY DEF Init, RowsOnce, DeletedOf
<1> QED
  BY <1>2, <1>3, InitTypeOK, InitCommitRows DEF FreshInv

(* Every step keeps it. *)
LEMMA StepFreshInv ==
    ASSUME FreshRequests, FreshInv, [Next]_vars
    PROVE  FreshInv'
<1>1. TypeOK'
  BY NextTypeOK DEF FreshInv
<1>2. ASSUME NEW r \in Requests, Receive(r) \/ Progress(r) \/ Fault(r)
      PROVE  FreshInv'
  BY <1>1, <1>2, StepCommitRows, StepRowsOnce, StepSpendsSettled, StepDeleted DEF FreshInv
<1>3. CASE UNCHANGED vars
  <2>1. CommitRows'
    BY <1>3 DEF FreshInv, vars, CommitRows, RowsOf, Known
  <2>2. RowsOnce' /\ \A r \in Requests : DeletedOf(r)'
    BY <1>3 DEF FreshInv, vars, RowsOnce, DeletedOf
  <2>3. \A u : Settled(u) => Settled(u)'
    BY <1>3 DEF vars, Settled, Past
  <2>4. SpendsSettled'
    BY <1>3, <2>3 DEF FreshInv, vars, SpendsSettled
  <2> QED
    BY <1>1, <2>1, <2>2, <2>4 DEF FreshInv
<1> QED
  BY <1>2, <1>3 DEF Next, Idle

(* An accepted answer means that the transaction is stored and its inputs  *)
(* are spent for good, when no transaction is requested twice and peers do *)
(* not vouch for what this node has still to commit.                       *)
THEOREM AcceptedStaySpent ==
    ASSUME FreshRequests
    PROVE  Spec => []AcceptedInputsSpent
<1>1. Init => FreshInv
  BY InitFreshInv
<1>2. FreshInv /\ [Next]_vars => FreshInv'
  BY StepFreshInv
<1>3. FreshInv => AcceptedInputsSpent
  BY DEF FreshInv, CommitRows, RowsOf, DeletedOf, AcceptedInputsSpent
<1> QED
  BY <1>1, <1>2, <1>3, PTL DEF Spec

(* r came too late for u: whatever resolves it finds it spent. *)
TooLate(r, u) ==
    /\ u.transaction_hash \in transactions
    /\ u \notin utxo
    /\ Settled(u)
    /\ pc[r] \notin Resolved
    /\ resolution[r][u] \in {"none", "err"}
    /\ ~Signed(r, "Accepted")

(* Nothing is resolved or signed before the first resolution. *)
Unsigned ==
    \A r \in Requests :
        pc[r] \in {"idle", "validate"} =>
            /\ ~Signed(r, "Accepted")
            /\ \A u \in UtxoIds : resolution[r][u] = "none"

(* A request starts without resolutions and signatures. *)
LEMMA StepUnsigned ==
    ASSUME TypeOK, Unsigned, NEW r \in Requests, Receive(r) \/ Progress(r) \/ Fault(r)
    PROVE  Unsigned'
<1> SUFFICES ASSUME NEW q \in Requests, pc'[q] \in {"idle", "validate"}
             PROVE  /\ ~Signed(q, "Accepted")'
                    /\ \A u \in UtxoIds : resolution'[q][u] = "none"
  BY DEF Unsigned
<1>1. CASE q # r
  <2>1. /\ pc'[q] = pc[q] /\ resolution'[q] = resolution[q]
        /\ Signed(q, "Accepted")' <=> Signed(q, "Accepted")
    BY <1>1, StepKinds DEF OthersKept
  <2> QED
    BY <2>1 DEF Unsigned
<1>2. CASE q = r
  <2>1. Begins(r)
    BY <1>2, StepKinds
    DEF Looks, Passes, Waits, Ends, ObserveAccepted, InsertTransactionRaw, Inserts, InsertUtxo,
        InsertTransactionEdge, DeleteUtxo, NextLoop, Respond, Goto, Finish, TypeOK
  <2> QED
    BY <1>2, <2>1 DEF Begins, Unsigned, Signed
<1> QED
  BY <1>1, <1>2

(* Who came too late stays too late. *)
LEMMA TooLateStays ==
    ASSUME FreshRequests, FreshInv, NEW r \in Requests, NEW u \in SetOf(InputsOf(r)),
           TooLate(r, u), NEW q \in Requests, Receive(q) \/ Progress(q) \/ Fault(q)
    PROVE  TooLate(r, u)'
<1> USE DEF FreshInv
<1>0. u \in UtxoIds
  BY RowTypes
<1>1. Settled(u)' /\ u.transaction_hash \in transactions'
  BY SettledStays, StepGrows DEF TooLate, Grows
<1>2. u \notin utxo'
  BY NewRow DEF TooLate, Settled, Past
<1>3. CASE q # r
  BY <1>1, <1>2, <1>3, StepKinds DEF OthersKept, TooLate
<1>4. CASE q = r
  <2>1. CASE Begins(r)
    BY <1>1, <1>2, <2>1 DEF Begins, TooLate, Resolved, Signed
  <2>2. CASE Looks(r)
    <3>1. ResolveOutcomes(u) = {"err"}
      BY DEF TooLate, ResolveOutcomes, query_maybe_transaction, query_utxo_id_valid
    <3>2. resolution'[r][u] \in {"err", resolution[r][u]}
      BY <1>0, <2>2, <3>1 DEF Looks
    <3> QED
      BY <1>1, <1>2, <2>2, <3>2 DEF Looks, TooLate, Signed
  <2>3. CASE Ends(r)
    BY <1>0, <1>1, <1>2, <2>3 DEF Ends, TooLate, Resolved
  <2>4. ~Passes(r)
    BY DEF Passes, TooLate
  <2>5. ~Waits(r) /\ ~ObserveAccepted(r) /\ ~InsertTransactionRaw(r) /\ ~Inserts(r)
    BY DEF TooLate, Waits, ObserveAccepted, InsertTransactionRaw, Inserts, InsertUtxo, Resolved
  <2>6. ~InsertTransactionEdge(r) /\ ~DeleteUtxo(r) /\ ~NextLoop(r) /\ ~Respond(r)
    BY DEF TooLate, InsertTransactionEdge, DeleteUtxo, NextLoop, Respond, Resolved
  <2> QED
    BY <1>4, <2>1, <2>2, <2>3, <2>4, <2>5, <2>6, StepKinds
<1> QED
  BY <1>3, <1>4

(* The two rounds of resolve_transaction keep late spends out: after an    *)
(* output of a stored transaction was deleted by a commit, a request that  *)
(* has not resolved yet is never accepted.                                 *)
THEOREM LateSpendsRejected ==
    ASSUME FreshRequests
    PROVE  Spec => LateSpendRejected
<1>1. SUFFICES ASSUME NEW r \in Requests, NEW u \in SetOf(InputsOf(r))
               PROVE  Spec => []( /\ pc[r] \in {"idle", "validate"}
                                  /\ u.transaction_hash \in transactions
                                  /\ u \notin utxo
                                  /\ transaction_edge[u] # {}
                                  => []~Signed(r, "Accepted"))
  BY DEF LateSpendRejected
<1>2. Init => FreshInv /\ Unsigned
  BY InitFreshInv DEF Init, Unsigned, Signed
<1>3. FreshInv /\ Unsigned /\ [Next]_vars => FreshInv' /\ Unsigned'
  <2> SUFFICES ASSUME FreshInv, Unsigned, [Next]_vars PROVE Unsigned'
    BY StepFreshInv
  <2>1. CASE UNCHANGED vars
    BY <2>1 DEF vars, Unsigned, Signed
  <2> QED
    BY <2>1, StepUnsigned DEF Next, Idle, FreshInv
<1>4. FreshInv /\ Unsigned /\ pc[r] \in {"idle", "validate"}
        /\ u.transaction_hash \in transactions /\ u \notin utxo /\ transaction_edge[u] # {}
        => TooLate(r, u)
  <2>1. u \in UtxoIds
    BY RowTypes
  <2> QED
    BY <2>1 DEF FreshInv, SpendsSettled, Unsigned, Resolved, TooLate
<1>5. FreshInv /\ TooLate(r, u) /\ [Next]_vars => TooLate(r, u)'
  <2> SUFFICES ASSUME FreshInv, TooLate(r, u), [Next]_vars PROVE TooLate(r, u)'
    OBVIOUS
  <2>1. CASE UNCHANGED vars
    BY <2>1 DEF vars, TooLate, Settled, Past, Signed
  <2> QED
    BY <2>1, TooLateStays DEF Next, Idle
<1>6. TooLate(r, u) => ~Signed(r, "Accepted")
  BY DEF TooLate
<1> QED
  BY <1>2, <1>3, <1>4, <1>5, <1>6, PTL DEF Spec

=============================================================================

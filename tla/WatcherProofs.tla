---------------------------- MODULE WatcherProofs ----------------------------
(***************************************************************************)
(* What the deposit watcher guarantees for any number of deposits and      *)
(* withdrawals, any cutoff, and any clocks that differ by no more; what    *)
(* the transaction builder that pays its orders builds from any unspent    *)
(* outputs; and what its order book offers and takes for any balance, any  *)
(* weights and any order.                                                  *)
(***************************************************************************)
EXTENDS Watcher, OrderBook, TransactionBuilder, FiniteSetTheorems, WellFoundedInduction, TLAPS

RdgPayouts == [refs : SUBSET Deposits, status : {"sent", "stored", "observed"}, time : Nat]
BtcPayouts == [pays : Seq(Withdrawals), time : Nat, other_address : Range(BtcAddress)]

WatcherTypes ==
    /\ clock \in Nat
    /\ deposit \in [Deposits -> Nat]
    /\ swap_time \in [Withdrawals -> Nat]
    /\ rdg \in Seq(RdgPayouts)
    /\ btc \in Seq(BtcPayouts)
    /\ orders \in [deposits : SUBSET Deposits, withdrawals : SUBSET Withdrawals]

(* A deposit that is ordered or paid is older than the cutoff. *)
Settled(d) == deposit[d] # 0 /\ deposit[d] + Cutoff < clock

(* The mean time of a receipt's observations is later than the deposits it *)
(* names: every observation was, by more than the clocks differ.           *)
ReceiptsLater ==
    /\ \A d \in orders.deposits : Settled(d)
    /\ \A i \in DOMAIN rdg : \A d \in rdg[i].refs :
          /\ Settled(d)
          /\ rdg[i].time # 0 => rdg[i].time > deposit[d]
    /\ \A i \in DOMAIN rdg : rdg[i].status = "observed" => rdg[i].time # 0

(* What is ordered has no unconfirmed payout, until it is paid. *)
OrdersNotPending ==
    \A w \in orders.withdrawals : \A i \in DOMAIN btc :
        btc[i].time = 0 => \A v \in Range(btc[i].pays) : BtcAddress[v] # BtcAddress[w]

WatcherInv == WatcherTypes /\ ReceiptsLater /\ OrdersNotPending /\ UnconfirmedNotRepaid

-----------------------------------------------------------------------------
(* The wallet's shuffle of finitely many withdrawals is a sequence of all  *)
(* of them.                                                                *)
LEMMA ShuffleIsSequence ==
    ASSUME WatcherTypes,
           NEW pays \in [1..Cardinality(orders.withdrawals) -> orders.withdrawals]
    PROVE  pays \in Seq(Withdrawals)
<1>1. orders.withdrawals \subseteq Withdrawals
  BY DEF WatcherTypes
<1>2. Cardinality(orders.withdrawals) \in Nat
  BY <1>1, WatcherAssumption, FS_Subset, FS_CardinalityType
<1> QED
  BY <1>1, <1>2

(* The mean of the observations of a receipt stays later than anything     *)
(* that was settled when they were made.                                   *)
LEMMA MeanLater ==
    ASSUME WatcherTypes,
           NEW d \in Deposits, Settled(d),
           NEW mean \in Nat, mean # 0 => mean > deposit[d],
           NEW t \in NewMean(mean)
    PROVE  t \in Nat /\ t # 0 /\ t > deposit[d]
<1>1. deposit[d] \in Nat /\ clock \in Nat
  BY DEF WatcherTypes
<1>2. \A n \in NearNow : n \in Nat /\ n # 0 /\ n > deposit[d]
  BY <1>1, WatcherAssumption DEF NearNow, Times, Settled
<1>3. t \in Times /\ t \in Nat /\ t # 0
  BY WatcherAssumption DEF NewMean, NearNow, Times
<1>4. CASE mean = 0
  BY <1>2, <1>4 DEF NewMean
<1>5. CASE mean # 0
  <2>1. PICK n \in NearNow : (mean <= t /\ t <= n) \/ (n <= t /\ t <= mean)
    BY <1>5 DEF NewMean
  <2> QED
    BY <2>1, <1>1, <1>2, <1>3, <1>5
<1> QED
  BY <1>4, <1>5

(* The watcher before its first deposit. *)
LEMMA WatcherInitInv == WatcherInit => WatcherInv
BY DEF WatcherInit, WatcherInv, WatcherTypes, ReceiptsLater, OrdersNotPending,
       UnconfirmedNotRepaid, NoOrders

(* What the two invariants about Bitcoin payouts depend on ... *)
LEMMA BtcUnchanged ==
    ASSUME OrdersNotPending, UnconfirmedNotRepaid, UNCHANGED <<btc, orders>>
    PROVE  OrdersNotPending' /\ UnconfirmedNotRepaid'
BY DEF OrdersNotPending, UnconfirmedNotRepaid

(* ... and the one about receipts; time only passes. *)
LEMMA RdgUnchanged ==
    ASSUME WatcherTypes, ReceiptsLater, UNCHANGED <<deposit, rdg, orders>>,
           clock' \in Nat, clock' >= clock
    PROVE  ReceiptsLater'
<1>1. \A d \in Deposits : Settled(d) => Settled(d)'
  BY WatcherAssumption DEF Settled, WatcherTypes
<1>2. \A i \in DOMAIN rdg : rdg[i].refs \subseteq Deposits
  <2>1. \A i \in DOMAIN rdg : rdg[i] \in RdgPayouts
    BY DEF WatcherTypes
  <2>2. \A r \in RdgPayouts : r.refs \subseteq Deposits
    BY DEF RdgPayouts
  <2> QED
    BY <2>1, <2>2
<1> QED
  BY <1>1, <1>2 DEF ReceiptsLater, WatcherTypes

(* The steps of the chains and of the clock. *)
LEMMA ChainSteps ==
    ASSUME WatcherInv,
           \/ ClockTicks
           \/ \E d \in Deposits : DepositConfirms(d)
           \/ \E w \in Withdrawals : WithdrawalStored(w) \/ WithdrawalObserved(w)
    PROVE  WatcherInv'
<1> USE WatcherAssumption DEF WatcherInv
<1>1. CASE ClockTicks
  <2>1. clock' \in Nat /\ clock' >= clock
    BY <1>1 DEF ClockTicks, WatcherTypes
  <2>2. UNCHANGED <<deposit, swap_time, rdg, btc, orders>>
    BY <1>1 DEF ClockTicks, wHistory
  <2>3. WatcherTypes'
    BY <2>1, <2>2 DEF WatcherTypes
  <2> QED
    BY <2>1, <2>2, <2>3, BtcUnchanged, RdgUnchanged
<1>2. ASSUME NEW d \in Deposits, DepositConfirms(d)
      PROVE  WatcherInv'
  <2>1. \A e \in Deposits : Settled(e) => deposit'[e] = deposit[e]
    BY <1>2 DEF DepositConfirms, Settled, WatcherTypes
  <2>2. WatcherTypes'
    BY <1>2 DEF DepositConfirms, WatcherTypes, Times
  <2>3. ReceiptsLater'
    BY <1>2, <2>1 DEF DepositConfirms, ReceiptsLater, Settled, WatcherTypes, RdgPayouts
  <2> QED
    BY <1>2, <2>2, <2>3, BtcUnchanged DEF DepositConfirms
<1>3. ASSUME NEW w \in Withdrawals, WithdrawalStored(w) \/ WithdrawalObserved(w)
      PROVE  WatcherInv'
  <2>1. NewMean(swap_time[w]) \subseteq Nat
    BY DEF NewMean, NearNow, Times
  <2>2. UNCHANGED <<clock, deposit, rdg, btc, orders>>
    BY <1>3 DEF WithdrawalStored, WithdrawalObserved
  <2>3. swap_time' \in [Withdrawals -> Nat]
    BY <1>3, <2>1 DEF WithdrawalStored, WithdrawalObserved, WatcherTypes
  <2>4. WatcherTypes'
    BY <2>2, <2>3 DEF WatcherTypes
  <2>5. clock' \in Nat /\ clock' >= clock
    BY <2>2 DEF WatcherTypes
  <2> QED
    BY <2>2, <2>4, <2>5, BtcUnchanged, RdgUnchanged
<1> QED
  BY <1>1, <1>2, <1>3

(* The steps of the payouts after they were sent. *)
LEMMA PayoutSteps ==
    ASSUME WatcherInv,
           \/ \E i \in DOMAIN rdg : PayoutStored(i) \/ PayoutObserved(i)
           \/ \E i \in DOMAIN btc : PayoutConfirms(i)
    PROVE  WatcherInv'
<1> USE WatcherAssumption DEF WatcherInv
<1>1. ASSUME NEW i \in DOMAIN rdg, PayoutStored(i)
      PROVE  WatcherInv'
  <2>1. rdg[i] \in RdgPayouts
    BY DEF WatcherTypes
  <2> DEFINE new == [rdg[i] EXCEPT !.status = "stored"]
  <2>2. rdg' = [rdg EXCEPT ![i] = new]
    BY <1>1 DEF PayoutStored
  <2>3. new \in RdgPayouts /\ new.refs = rdg[i].refs /\ new.time = rdg[i].time
        /\ new.status # "observed"
    BY <2>1 DEF RdgPayouts
  <2>4. UNCHANGED <<clock, deposit, swap_time, btc, orders>>
    BY <1>1 DEF PayoutStored, wHistory
  <2> HIDE DEF new
  <2>5. WatcherTypes'
    BY <2>2, <2>3, <2>4 DEF WatcherTypes
  <2>6. ReceiptsLater'
    BY <2>2, <2>3, <2>4 DEF ReceiptsLater, Settled, WatcherTypes
  <2> QED
    BY <2>4, <2>5, <2>6, BtcUnchanged
<1>2. ASSUME NEW i \in DOMAIN rdg, PayoutObserved(i)
      PROVE  WatcherInv'
  <2>1. rdg[i] \in RdgPayouts
    BY DEF WatcherTypes
  <2>2. PICK t \in NewMean(rdg[i].time) :
           rdg' = [rdg EXCEPT ![i].status = "observed", ![i].time = t]
    BY <1>2 DEF PayoutObserved
  <2>3. t \in Nat /\ t # 0
    BY DEF NewMean, NearNow, Times
  <2>4. \A d \in rdg[i].refs : t > deposit[d]
    BY <2>1, MeanLater DEF RdgPayouts, ReceiptsLater
  <2> DEFINE new == [rdg[i] EXCEPT !.status = "observed", !.time = t]
  <2>5. rdg' = [rdg EXCEPT ![i] = new]
    BY <2>2
  <2>6. new \in RdgPayouts /\ new.refs = rdg[i].refs /\ new.time = t
    BY <2>1, <2>3 DEF RdgPayouts
  <2>7. UNCHANGED <<clock, deposit, swap_time, btc, orders>>
    BY <1>2 DEF PayoutObserved, wHistory
  <2> HIDE DEF new
  <2>8. WatcherTypes'
    BY <2>5, <2>6, <2>7 DEF WatcherTypes
  <2>9. ReceiptsLater'
    BY <2>3, <2>4, <2>5, <2>6, <2>7 DEF ReceiptsLater, Settled, WatcherTypes
  <2> QED
    BY <2>7, <2>8, <2>9, BtcUnchanged
<1>3. ASSUME NEW i \in DOMAIN btc, PayoutConfirms(i)
      PROVE  WatcherInv'
  <2>1. PICK t \in Times : btc' = [btc EXCEPT ![i].time = t]
    BY <1>3 DEF PayoutConfirms
  <2>2. t \in Nat /\ t # 0 /\ btc[i] \in BtcPayouts
    BY DEF Times, WatcherTypes
  <2> DEFINE new == [btc[i] EXCEPT !.time = t]
  <2>3. btc' = [btc EXCEPT ![i] = new]
    BY <2>1
  <2>4. new \in BtcPayouts /\ new.pays = btc[i].pays /\ new.time # 0
    BY <2>2 DEF BtcPayouts
  <2>5. UNCHANGED <<clock, deposit, swap_time, rdg, orders>>
    BY <1>3 DEF PayoutConfirms, wHistory
  <2> HIDE DEF new
  <2>6. WatcherTypes'
    BY <2>3, <2>4, <2>5 DEF WatcherTypes
  <2>7. ReceiptsLater'
    BY <2>5, RdgUnchanged DEF WatcherTypes
  <2>8. /\ DOMAIN btc' = DOMAIN btc
        /\ \A j \in DOMAIN btc : /\ btc'[j].pays = btc[j].pays
                                 /\ btc'[j].time = 0 => btc[j].time = 0
    BY <2>3, <2>4
  <2>9. OrdersNotPending'
    BY <2>5, <2>8 DEF OrdersNotPending
  <2>10. UnconfirmedNotRepaid'
    BY <2>8 DEF UnconfirmedNotRepaid
  <2> QED
    BY <2>6, <2>7, <2>9, <2>10
<1> QED
  BY <1>1, <1>2, <1>3


(* A step that takes the orders from the history, or drops them. *)
LEMMA OrderSteps ==
    ASSUME WatcherInv, Replay \/ BuildFails \/ WatcherRestarts
    PROVE  WatcherInv'
<1> USE WatcherAssumption DEF WatcherInv
<1>1. UNCHANGED <<clock, deposit, swap_time, rdg, btc>>
  BY DEF Replay, BuildFails, WatcherRestarts, wHistory
<1>2. /\ orders' \in [deposits : SUBSET Deposits, withdrawals : SUBSET Withdrawals]
      /\ \A d \in orders'.deposits : Settled(d)
      /\ \A w \in orders'.withdrawals :
            BtcAddress[w] \notin unconfirmed_btc_output_other_addresses
  BY DEF Replay, BuildFails, WatcherRestarts, OpenOrders, NoOrders, Settled, before_cutoff
<1>3. WatcherTypes'
  BY <1>1, <1>2 DEF WatcherTypes
<1>4. ReceiptsLater'
  BY <1>1, <1>2 DEF ReceiptsLater, Settled
<1>5. OrdersNotPending'
  BY <1>1, <1>2 DEF OrdersNotPending, unconfirmed_btc_output_other_addresses
<1>6. UnconfirmedNotRepaid'
  BY <1>1 DEF UnconfirmedNotRepaid
<1> QED
  BY <1>3, <1>4, <1>5, <1>6

(* The Redgold payout: its references are the orders, which are settled. *)
LEMMA RdgPayoutStep ==
    ASSUME WatcherInv, send_ask_fulfillment_transaction
    PROVE  WatcherInv'
<1> USE WatcherAssumption DEF WatcherInv
<1>1. UNCHANGED <<clock, deposit, swap_time, btc, orders>>
  BY DEF send_ask_fulfillment_transaction, wHistory
<1>2. OrdersNotPending' /\ UnconfirmedNotRepaid'
  BY <1>1, BtcUnchanged
<1>3. CASE UNCHANGED rdg
  BY <1>1, <1>2, <1>3, RdgUnchanged DEF WatcherTypes
<1>4. ASSUME NEW new \in [refs : {orders.deposits}, status : {"sent", "stored"}, time : {0}],
             rdg' = Append(rdg, new)
      PROVE  WatcherInv'
  <2>1. new \in RdgPayouts /\ new.refs = orders.deposits /\ new.status # "observed"
        /\ new.time = 0
    BY DEF WatcherTypes, RdgPayouts
  <2>2. /\ Len(rdg') = Len(rdg) + 1
        /\ \A i \in 1..Len(rdg) : rdg'[i] = rdg[i]
        /\ rdg'[Len(rdg) + 1] = new
        /\ DOMAIN rdg = 1..Len(rdg) /\ DOMAIN rdg' = 1..Len(rdg')
        /\ Len(rdg) \in Nat
        /\ rdg' \in Seq(RdgPayouts)
    BY <1>4, <2>1 DEF WatcherTypes
  <2>3. WatcherTypes'
    BY <1>1, <2>2 DEF WatcherTypes
  <2>4. \A i \in DOMAIN rdg' : (i \in DOMAIN rdg /\ rdg'[i] = rdg[i]) \/ rdg'[i] = new
    BY <2>2
  <2>5. ReceiptsLater'
    BY <1>1, <2>1, <2>4 DEF ReceiptsLater, Settled
  <2> QED
    BY <1>2, <2>3, <2>5
<1> QED
  BY <1>3, <1>4 DEF send_ask_fulfillment_transaction

(* The Bitcoin payout: no unconfirmed payout shares an address with it,    *)
(* because none shares one with the orders.                                *)
LEMMA BtcPayoutStep ==
    ASSUME WatcherInv, fulfill_btc_bids
    PROVE  WatcherInv'
<1> USE WatcherAssumption DEF WatcherInv
<1>1. UNCHANGED <<clock, deposit, swap_time, rdg>> /\ orders' = NoOrders
  BY DEF fulfill_btc_bids, wHistory
<1>2. ReceiptsLater'
  BY <1>1 DEF ReceiptsLater, Settled, NoOrders
<1>3. OrdersNotPending'
  BY <1>1 DEF OrdersNotPending, NoOrders
<1>4. CASE UNCHANGED btc
  <2>1. WatcherTypes'
    BY <1>1, <1>4 DEF WatcherTypes, NoOrders
  <2> QED
    BY <1>2, <1>3, <1>4, <2>1 DEF UnconfirmedNotRepaid
<1>5. ASSUME orders.withdrawals # {},
             NEW pays \in [1..Cardinality(orders.withdrawals) -> orders.withdrawals],
             Range(pays) = orders.withdrawals,
             btc' = Append(btc, [pays |-> pays, time |-> 0,
                                 other_address |-> BtcAddress[pays[1]]])
      PROVE  WatcherInv'
  <2>1. PICK new : new = [pays |-> pays, time |-> 0, other_address |-> BtcAddress[pays[1]]]
    OBVIOUS
  <2>2. pays \in Seq(Withdrawals)
    BY ShuffleIsSequence
  <2>3. orders.withdrawals \subseteq Withdrawals
    BY DEF WatcherTypes
  <2>4. Cardinality(orders.withdrawals) \in Nat /\ Cardinality(orders.withdrawals) # 0
    BY <1>5, <2>3, FS_Subset, FS_CardinalityType, FS_EmptySet
  <2>5. BtcAddress[pays[1]] \in Range(BtcAddress)
    BY <2>3, <2>4 DEF Range
  <2>6. new \in BtcPayouts
    BY <2>1, <2>2, <2>5 DEF BtcPayouts
  <2>7. /\ Len(btc') = Len(btc) + 1
        /\ \A i \in 1..Len(btc) : btc'[i] = btc[i]
        /\ btc'[Len(btc) + 1] = new
        /\ DOMAIN btc = 1..Len(btc) /\ DOMAIN btc' = 1..Len(btc')
        /\ Len(btc) \in Nat
        /\ btc' \in Seq(BtcPayouts)
    BY <1>5, <2>1, <2>6 DEF WatcherTypes
  <2>8. WatcherTypes'
    BY <1>1, <2>7 DEF WatcherTypes, NoOrders
  <2>9. \A w \in Range(new.pays) : w \in orders.withdrawals
    BY <1>5, <2>1
  <2>10. \A i \in DOMAIN btc : btc[i].time = 0 =>
            \A w \in Range(btc[i].pays) : \A v \in Range(new.pays) : BtcAddress[w] # BtcAddress[v]
    BY <2>9 DEF OrdersNotPending
  <2>11. ASSUME NEW i \in DOMAIN btc', NEW j \in DOMAIN btc', i < j, btc'[i].time = 0
         PROVE  \A w \in Range(btc'[i].pays) : \A v \in Range(btc'[j].pays) :
                    BtcAddress[w] # BtcAddress[v]
    <3>1. i \in DOMAIN btc /\ btc'[i] = btc[i]
      BY <2>7, <2>11
    <3>2. CASE j \in DOMAIN btc
      <4>1. btc'[j] = btc[j]
        BY <2>7, <3>2
      <4> QED
        BY <2>11, <3>1, <3>2, <4>1 DEF UnconfirmedNotRepaid
    <3>3. CASE j \notin DOMAIN btc
      <4>1. btc'[j] = new
        BY <2>7, <3>3
      <4> QED
        BY <2>10, <2>11, <3>1, <4>1
    <3> QED
      BY <3>2, <3>3
  <2>12. UnconfirmedNotRepaid'
    BY <2>11 DEF UnconfirmedNotRepaid
  <2> QED
    BY <1>2, <1>3, <2>8, <2>12
<1> QED
  BY <1>4, <1>5 DEF fulfill_btc_bids

(* Every step of the watcher and of the networks keeps the invariant. *)
LEMMA WatcherStep == WatcherInv /\ [WatcherNext]_watcherVars => WatcherInv'
<1> SUFFICES ASSUME WatcherInv, [WatcherNext]_watcherVars PROVE WatcherInv'
  OBVIOUS
<1>1. CASE MakeKey \/ WatcherStops \/ UNCHANGED watcherVars
  <2>1. UNCHANGED <<clock, deposit, swap_time, rdg, btc, orders>>
    BY <1>1 DEF MakeKey, WatcherStops, watcherVars, wHistory
  <2>2. WatcherTypes' /\ ReceiptsLater'
    BY <2>1, RdgUnchanged DEF WatcherInv, WatcherTypes
  <2> QED
    BY <2>1, <2>2, BtcUnchanged DEF WatcherInv
<1> QED
  BY <1>1, ChainSteps, PayoutSteps, OrderSteps, RdgPayoutStep, BtcPayoutStep DEF WatcherNext

-----------------------------------------------------------------------------
(* For any withdrawals, addresses and order of the payouts: while a        *)
(* Bitcoin payout is unconfirmed, fulfill_btc_bids pays nothing else to an *)
(* address of any of its outputs.                                          *)
THEOREM WatcherUnconfirmedNotRepaid == WatcherSpec => []UnconfirmedNotRepaid
<1>1. WatcherInv => UnconfirmedNotRepaid
  BY DEF WatcherInv
<1> QED
  BY <1>1, WatcherInitInv, WatcherStep, PTL DEF WatcherSpec

(* For any cutoff that outlasts the difference of the clocks: the orders   *)
(* of PartyEvents::orders hold no deposit that an observed receipt names.  *)
THEOREM WatcherReceiptEndsDeposit == WatcherSpec => ReceiptEndsDeposit
<1> DEFINE NoneAgain == fold' = "rdg" /\ fold = "idle" =>
             \A d \in orders'.deposits : \A i \in DOMAIN rdg :
                rdg[i].status = "observed" => d \notin rdg[i].refs
<1>1. WatcherInv /\ [WatcherNext]_watcherVars => [NoneAgain]_watcherVars
  <2> SUFFICES ASSUME WatcherInv, WatcherNext, fold' = "rdg", fold = "idle",
                      NEW d \in orders'.deposits, NEW i \in DOMAIN rdg,
                      rdg[i].status = "observed", d \in rdg[i].refs
               PROVE  FALSE
    OBVIOUS
  <2>1. Replay
    BY DEF WatcherNext, ClockTicks, DepositConfirms, WithdrawalStored, WithdrawalObserved,
           PayoutStored, PayoutObserved, PayoutConfirms, MakeKey, WatcherStops,
           send_ask_fulfillment_transaction, BuildFails, fulfill_btc_bids, WatcherRestarts
  <2>2. retain_unfulfilled_deposits(d)
    BY <2>1 DEF Replay, OpenOrders
  <2>3. rdg[i].time > deposit[d]
    BY DEF WatcherInv, ReceiptsLater
  <2> QED
    BY <2>2, <2>3 DEF retain_unfulfilled_deposits
<1> QED
  BY <1>1, WatcherInitInv, WatcherStep, PTL DEF WatcherSpec, ReceiptEndsDeposit

-----------------------------------------------------------------------------
(* Sums over finite sets, by induction over their subsets. *)

(* Every set of numbers has a least one, which is what induction over the *)
(* natural numbers and over the subsets of a finite set rests on.          *)
LEMMA LessWellFounded == IsWellFoundedOn({ss \in Nat \X Nat : ss[1] < ss[2]}, Nat)
BY NatLessThanWellFounded DEF OpToRel

(* The least number of a set. *)
LEMMA LeastNumber == ASSUME NEW T \in SUBSET Nat, T # {} PROVE \E m \in T : \A k \in T : m <= k
<1> DEFINE R == {ss \in Nat \X Nat : ss[1] < ss[2]}
<1>1. IsWellFoundedOn(R, Nat)
  BY LessWellFounded
<1>2. \A x, y \in Nat : y < x => <<y, x>> \in R
  OBVIOUS
<1> HIDE DEF R
<1>3. PICK m \in T : \A k \in T : ~ (<<k, m>> \in R)
  BY <1>1, WFMin
<1>4. \A k \in T : m <= k
  <2> SUFFICES ASSUME NEW k \in T PROVE m <= k
    OBVIOUS
  <2>1. k \in Nat /\ m \in Nat
    OBVIOUS
  <2>2. ~ (k < m)
    BY <1>2, <1>3, <2>1, Zenon
  <2> QED
    BY <2>1, <2>2
<1> QED
  BY <1>4

(* What holds of a subset when it holds of the smaller ones holds of the   *)
(* whole of a finite set.                                                  *)
LEMMA SubsetInduction ==
    ASSUME NEW S, IsFiniteSet(S), NEW F,
           \A s \in SUBSET S : (\A t \in SUBSET s : t # s => t \in F) => s \in F
    PROVE  S \in F
<1> DEFINE Sizes == {Cardinality(s) : s \in (SUBSET S) \ F}
<1>1. \A s \in SUBSET S : IsFiniteSet(s) /\ Cardinality(s) \in Nat
  BY FS_Subset, FS_CardinalityType
<1>2. SUFFICES ASSUME S \notin F PROVE FALSE
  OBVIOUS
<1>3. Sizes \in SUBSET Nat /\ Sizes # {}
  BY <1>1, <1>2
<1>4. PICK m \in Sizes : \A k \in Sizes : m <= k
  <2> HIDE DEF Sizes
  <2> QED BY <1>3, LeastNumber
<1>5. PICK s \in (SUBSET S) \ F : m = Cardinality(s)
  BY <1>4
<1>6. \A t \in SUBSET s : t # s => t \in F
  <2> SUFFICES ASSUME NEW t \in SUBSET s, t # s, t \notin F PROVE FALSE
    OBVIOUS
  <2>1. Cardinality(t) \in Sizes /\ Cardinality(t) \in Nat /\ Cardinality(s) \in Nat
    BY <1>1
  <2>2. Cardinality(t) < Cardinality(s)
    BY <1>1, <2>1, FS_Subset
  <2> QED
    BY <1>4, <1>5, <2>1, <2>2
<1> QED
  BY <1>5, <1>6

Pick(s) == CHOOSE x \in s : TRUE

Iterates(f, S, g) ==
    g = [s \in SUBSET S |-> IF s = {} THEN 0 ELSE f[Pick(s)] + g[s \ {Pick(s)}]]

(* The sum of the library is the value of a function on the subsets.       *)
LEMMA SumIterates == ASSUME NEW f, NEW S
    PROVE SumFunctionOnSet(f, S) = (CHOOSE g : Iterates(f, S, g))[S]
BY DEF SumFunctionOnSet, FoldFunctionOnSet, MapThenFoldSet, Iterates, Pick

(* The recursion of the sum determines its value. *)
LEMMA IteratesUnique ==
    ASSUME NEW f, NEW S, IsFiniteSet(S), NEW g, NEW h, Iterates(f, S, g), Iterates(f, S, h)
    PROVE  g[S] = h[S]
<1> DEFINE F == {s \in SUBSET S : g[s] = h[s]}
<1>1. ASSUME NEW s \in SUBSET S, \A t \in SUBSET s : t # s => t \in F
      PROVE  s \in F
  <2>1. CASE s = {}
    BY <2>1 DEF Iterates
  <2>2. CASE s # {}
    <3>1. Pick(s) \in s
      BY <2>2 DEF Pick
    <3>2. s \ {Pick(s)} \in F
      BY <1>1, <3>1
    <3>3. g[s] = f[Pick(s)] + g[s \ {Pick(s)}] /\ h[s] = f[Pick(s)] + h[s \ {Pick(s)}]
      BY <2>2, Zenon DEF Iterates
    <3> QED
      BY <3>2, <3>3
  <2> QED
    BY <2>1, <2>2
<1>2. S \in F
  <2> HIDE DEF F
  <2> QED
    BY <1>1, SubsetInduction
<1> QED
  BY <1>2

(* How the sum over a finite set takes an element. *)
Taken(f, s) ==
    SumFunctionOnSet(f, s) = IF s = {} THEN 0
                             ELSE f[Pick(s)] + SumFunctionOnSet(f, s \ {Pick(s)})

(* The sum over a finite set is that of one element and the others. *)
LEMMA SumTakes == ASSUME NEW f, NEW S, IsFiniteSet(S) PROVE Taken(f, S)
<1> DEFINE F == {s \in SUBSET S : Taken(f, s)}
           V(s) == SumFunctionOnSet(f, s)
<1>1. ASSUME NEW s \in SUBSET S, \A t \in SUBSET s : t # s => t \in F
      PROVE  s \in F
  <2> DEFINE top == IF s = {} THEN 0 ELSE f[Pick(s)] + V(s \ {Pick(s)})
             G == [t \in SUBSET s |-> IF t = s THEN top ELSE V(t)]
  <2>1. ASSUME NEW t \in SUBSET s
        PROVE  G[t] = IF t = {} THEN 0 ELSE f[Pick(t)] + G[t \ {Pick(t)}]
    <3>1. t # {} => Pick(t) \in t
      BY DEF Pick
    <3>2. t # {} => t \ {Pick(t)} \in SUBSET s /\ t \ {Pick(t)} # s
      BY <3>1
    <3>3. t # {} => G[t \ {Pick(t)}] = V(t \ {Pick(t)})
      BY <3>2
    <3>4. CASE t = s
      BY <3>3, <3>4
    <3>5. CASE t # s
      <4>1. Taken(f, t)
        BY <1>1, <3>5
      <4>2. G[t] = V(t)
        BY <3>5
      <4> HIDE DEF G
      <4> QED
        BY <3>3, <4>1, <4>2 DEF Taken
    <3> QED
      BY <3>4, <3>5
  <2>2. Iterates(f, s, G)
    <3> G = [t \in SUBSET s |-> G[t]]
      OBVIOUS
    <3> HIDE DEF G
    <3> QED
      BY <2>1 DEF Iterates
  <2>3. Iterates(f, s, CHOOSE g : Iterates(f, s, g))
    <3> HIDE DEF G
    <3> QED
      BY <2>2, Zenon
  <2>4. IsFiniteSet(s)
    BY FS_Subset
  <2>5. V(s) = G[s]
    <3> HIDE DEF G
    <3> QED
      BY <2>2, <2>3, <2>4, IteratesUnique, SumIterates
  <2> QED
    BY <2>5 DEF Taken
<1>2. S \in F
  <2> HIDE DEF F
  <2> QED
    BY <1>1, SubsetInduction
<1> QED
  BY <1>2

(* The sum of nothing. *)
LEMMA SumEmpty == ASSUME NEW f PROVE SumFunctionOnSet(f, {}) = 0
BY FS_EmptySet, SumTakes DEF Taken

(* The sum takes an element of its choice. *)
LEMMA SumOne ==
    ASSUME NEW f, NEW S, IsFiniteSet(S), S # {}
    PROVE  /\ Pick(S) \in S
           /\ SumFunctionOnSet(f, S) = f[Pick(S)] + SumFunctionOnSet(f, S \ {Pick(S)})
BY SumTakes DEF Taken, Pick

(* The sum depends on the terms alone. *)
LEMMA SumSame ==
    ASSUME NEW f, NEW g, NEW S, IsFiniteSet(S), \A x \in S : f[x] = g[x]
    PROVE  SumFunctionOnSet(f, S) = SumFunctionOnSet(g, S)
<1> DEFINE F == {s \in SUBSET S : SumFunctionOnSet(f, s) = SumFunctionOnSet(g, s)}
<1>1. ASSUME NEW s \in SUBSET S, \A t \in SUBSET s : t # s => t \in F
      PROVE  s \in F
  <2>1. CASE s = {}
    BY <2>1, SumEmpty
  <2>2. CASE s # {}
    <3>1. IsFiniteSet(s)
      BY FS_Subset
    <3>2. Pick(s) \in s /\ f[Pick(s)] = g[Pick(s)]
      BY <2>2, <3>1, SumOne
    <3>3. s \ {Pick(s)} \in F
      BY <1>1, <3>2
    <3> QED
      BY <2>2, <3>1, <3>2, <3>3, SumOne
  <2> QED
    BY <2>1, <2>2
<1>2. S \in F
  <2> HIDE DEF F
  <2> QED
    BY <1>1, SubsetInduction
<1> QED
  BY <1>2

(* A sum of natural numbers, or of integers. *)
LEMMA SumType ==
    ASSUME NEW f, NEW S, IsFiniteSet(S), NEW N, N \in {Nat, Int}, \A x \in S : f[x] \in N
    PROVE  SumFunctionOnSet(f, S) \in N
<1> DEFINE F == {s \in SUBSET S : SumFunctionOnSet(f, s) \in N}
<1>1. ASSUME NEW s \in SUBSET S, \A t \in SUBSET s : t # s => t \in F
      PROVE  s \in F
  <2>1. CASE s = {}
    BY <2>1, SumEmpty
  <2>2. CASE s # {}
    <3>1. IsFiniteSet(s)
      BY FS_Subset
    <3>2. Pick(s) \in s /\ f[Pick(s)] \in N
      BY <2>2, <3>1, SumOne
    <3>3. s \ {Pick(s)} \in F
      BY <1>1, <3>2
    <3> QED
      BY <2>2, <3>1, <3>2, <3>3, SumOne
  <2> QED
    BY <2>1, <2>2
<1>2. S \in F
  <2> HIDE DEF F
  <2> QED
    BY <1>1, SubsetInduction
<1> QED
  BY <1>2

(* The sum takes any element, not just that of its choice. *)
LEMMA SumWithout ==
    ASSUME NEW f, NEW S, IsFiniteSet(S), \A x \in S : f[x] \in Int, NEW y \in S
    PROVE  SumFunctionOnSet(f, S) = f[y] + SumFunctionOnSet(f, S \ {y})
<1> DEFINE V(s) == SumFunctionOnSet(f, s)
           F == {s \in SUBSET S : \A z \in s : V(s) = f[z] + V(s \ {z})}
<1>1. ASSUME NEW s \in SUBSET S, \A t \in SUBSET s : t # s => t \in F
      PROVE  s \in F
  <2> SUFFICES ASSUME NEW z \in s PROVE V(s) = f[z] + V(s \ {z})
    OBVIOUS
  <2> DEFINE p == Pick(s)
  <2>1. IsFiniteSet(s) /\ IsFiniteSet(s \ {z}) /\ IsFiniteSet((s \ {z}) \ {p})
    BY FS_Subset
  <2>2. p \in s /\ V(s) = f[p] + V(s \ {p})
    BY <2>1, SumOne
  <2> HIDE DEF p
  <2>3. CASE z = p
    BY <2>2, <2>3
  <2>4. CASE z # p
    <3>1. s \ {p} \in F /\ s \ {z} \in F /\ z \in s \ {p} /\ p \in s \ {z}
      BY <1>1, <2>2, <2>4
    <3>2. V(s \ {p}) = f[z] + V((s \ {p}) \ {z})
      BY <3>1
    <3>3. (s \ {z}) \ {p} = (s \ {p}) \ {z}
      OBVIOUS
    <3>4. V(s \ {z}) = f[p] + V((s \ {p}) \ {z})
      BY <3>1, <3>3
    <3>5. f[z] \in Int /\ f[p] \in Int /\ V((s \ {p}) \ {z}) \in Int
      BY <2>1, <2>2, <3>3, SumType
    <3> HIDE DEF V
    <3> QED
      BY <2>2, <3>2, <3>4, <3>5
  <2> QED
    BY <2>3, <2>4
<1>2. S \in F
  <2> HIDE DEF F
  <2> QED
    BY <1>1, SubsetInduction
<1> QED
  BY <1>2

(* Induction over the natural numbers. *)
LEMMA NaturalInduction ==
    ASSUME NEW T, 0 \in T, \A n \in Nat : n \in T => n + 1 \in T
    PROVE  Nat \subseteq T
<1> SUFFICES ASSUME NEW x \in Nat, x \notin T PROVE FALSE
  OBVIOUS
<1>1. PICK m \in Nat \ T : \A k \in Nat \ T : m <= k
  <2> DEFINE U == Nat \ T
  <2>1. U \in SUBSET Nat /\ U # {}
    OBVIOUS
  <2> HIDE DEF U
  <2>2. \E m \in U : \A k \in U : m <= k
    BY <2>1, LeastNumber
  <2> QED
    BY <2>2 DEF U
<1>2. m # 0 /\ m - 1 \in Nat /\ (m - 1) + 1 = m
  OBVIOUS
<1>3. m - 1 \in T
  BY <1>1, <1>2
<1> QED
  BY <1>2, <1>3

(* The sum over the first m + 1 places of a sequence. *)
LEMMA SumLast ==
    ASSUME NEW f, NEW m \in Nat, \A i \in 1..(m + 1) : f[i] \in Int
    PROVE  /\ SumFunctionOnSet(f, 1..m) \in Int
           /\ SumFunctionOnSet(f, 1..(m + 1)) = SumFunctionOnSet(f, 1..m) + f[m + 1]
<1>1. IsFiniteSet(1..m) /\ IsFiniteSet(1..(m + 1))
  BY FS_Interval
<1>2. SumFunctionOnSet(f, 1..m) \in Int
  BY <1>1, SumType
<1>3. m + 1 \in 1..(m + 1) /\ (1..(m + 1)) \ {m + 1} = 1..m
  OBVIOUS
<1>4. SumFunctionOnSet(f, 1..(m + 1)) = f[m + 1] + SumFunctionOnSet(f, 1..m)
  BY <1>1, <1>3, SumWithout
<1> QED
  BY <1>2, <1>4

(* The sum over no places. *)
LEMMA SumStart == ASSUME NEW f PROVE SumFunctionOnSet(f, 1..0) = 0
<1>1. 1..0 = {}
  OBVIOUS
<1> QED
  BY <1>1, SumEmpty

(* A function on the places up to a number is a sequence. *)
LEMMA SequenceOf ==
    ASSUME NEW S, NEW n \in Nat, NEW f, f = [i \in 1..n |-> f[i]], \A i \in 1..n : f[i] \in S
    PROVE  f \in Seq(S) /\ DOMAIN f = 1..n /\ Len(f) = n
OBVIOUS

(* The sum of permuted terms. *)
LEMMA SumPermuted ==
    ASSUME NEW n \in Nat, NEW f, \A i \in 1..n : f[i] \in Int,
           NEW p \in Bijection(1..n, 1..n), NEW g, \A i \in 1..n : g[i] = f[p[i]]
    PROVE  SumFunctionOnSet(g, 1..n) = SumFunctionOnSet(f, 1..n)
<1> DEFINE S == 1..n
           image(s) == {p[x] : x \in s}
           F == {s \in SUBSET S : SumFunctionOnSet(g, s) = SumFunctionOnSet(f, image(s))}
<1>1. /\ \A x \in S : p[x] \in S
      /\ \A x, y \in S : p[x] = p[y] => x = y
      /\ \A y \in S : \E x \in S : p[x] = y
  BY DEF Bijection, Injection, Surjection, IsInjective
<1>2. IsFiniteSet(S)
  BY FS_Interval
<1>3. /\ \A x \in S : f[x] \in Int
      /\ \A x \in S : g[x] = f[p[x]]
  OBVIOUS
<1> HIDE DEF S
<1>4. ASSUME NEW s \in SUBSET S, \A t \in SUBSET s : t # s => t \in F
      PROVE  s \in F
  <2>1. CASE s = {}
    <3>1. image(s) = {}
      BY <2>1
    <3> QED
      BY <2>1, <3>1, SumEmpty
  <2>2. CASE s # {}
    <3> DEFINE x == Pick(s)
               others == s \ {x}
    <3>1. IsFiniteSet(s)
      BY <1>2, FS_Subset
    <3>2. x \in s /\ SumFunctionOnSet(g, s) = g[x] + SumFunctionOnSet(g, others)
      BY <2>2, <3>1, SumOne
    <3> HIDE DEF x
    <3>3. SumFunctionOnSet(g, others) = SumFunctionOnSet(f, image(others))
      BY <1>4, <3>2
    <3>4. /\ image(s) \subseteq S /\ p[x] \in image(s)
          /\ image(others) = image(s) \ {p[x]}
      BY <1>1, <3>2
    <3> DEFINE I == image(s)
               J == image(others)
    <3> HIDE DEF I, J
    <3>5. IsFiniteSet(I) /\ p[x] \in I /\ J = I \ {p[x]} /\ \A y \in I : f[y] \in Int
      BY <1>2, <1>3, <3>4, FS_Subset DEF I, J
    <3>6. SumFunctionOnSet(f, I) = f[p[x]] + SumFunctionOnSet(f, J)
      BY <3>5, SumWithout
    <3>7. g[x] = f[p[x]]
      BY <1>3, <3>2
    <3> QED
      BY <3>2, <3>3, <3>6, <3>7 DEF I, J
  <2> QED
    BY <2>1, <2>2
<1>5. S \in F
  <2> HIDE DEF F
  <2> QED
    BY <1>2, <1>4, SubsetInduction
<1>6. image(S) = S
  BY <1>1
<1> QED
  BY <1>5, <1>6 DEF S

-----------------------------------------------------------------------------
(* The transaction builder. *)

(* The total of a list of amounts. *)
LEMMA SumOfList ==
    ASSUME NEW s \in Seq(Nat)
    PROVE  SumOf(s) = SumFunctionOnSet(s, 1..Len(s)) /\ SumOf(s) \in Nat
<1> DEFINE n == Len(s)
<1>1. n \in Nat /\ DOMAIN s = 1..n /\ \A i \in 1..n : s[i] \in Nat
  OBVIOUS
<1>2. SumOf(s) = SumFunctionOnSet(s, 1..n)
  BY <1>1 DEF SumOf, SumFunction
<1> HIDE DEF n
<1>3. IsFiniteSet(1..n)
  BY <1>1, FS_Interval
<1>4. SumFunctionOnSet(s, 1..n) \in Nat
  BY <1>1, <1>3, SumType
<1> QED
  BY <1>2, <1>4 DEF n

(* One amount more. *)
LEMMA SumAppended ==
    ASSUME NEW s \in Seq(Nat), NEW a \in Nat
    PROVE  SumOf(Append(s, a)) = SumOf(s) + a
<1> DEFINE n == Len(s)
           t == Append(s, a)
<1>1. n \in Nat /\ t \in Seq(Nat) /\ Len(t) = n + 1 /\ t[n + 1] = a
      /\ (\A i \in 1..n : s[i] = t[i]) /\ \A i \in 1..(n + 1) : t[i] \in Int
  OBVIOUS
<1>2. SumOf(s) = SumFunctionOnSet(s, 1..n)
  BY SumOfList
<1> HIDE DEF n, t
<1>3. SumOf(t) = SumFunctionOnSet(t, 1..(n + 1))
  BY <1>1, SumOfList
<1>4. IsFiniteSet(1..n)
  BY <1>1, FS_Interval
<1>5. SumFunctionOnSet(s, 1..n) = SumFunctionOnSet(t, 1..n)
  BY <1>1, <1>4, SumSame
<1>6. SumFunctionOnSet(t, 1..(n + 1)) = SumFunctionOnSet(t, 1..n) + t[n + 1]
  BY <1>1, SumLast
<1> QED
  BY <1>1, <1>2, <1>3, <1>5, <1>6 DEF t

IsFirstOf(s, t) == Len(s) <= Len(t) /\ \A i \in 1..Len(s) : s[i] = t[i]

(* The first amounts of a list are no more than all of them. *)
LEMMA SumOfFirst ==
    ASSUME NEW s \in Seq(Nat), NEW t \in Seq(Nat), IsFirstOf(s, t)
    PROVE  SumOf(s) <= SumOf(t)
<1> DEFINE n == Len(s)
           k == Len(t)
           T == {m \in Nat : n + m <= k =>
                    SumFunctionOnSet(t, 1..n) <= SumFunctionOnSet(t, 1..(n + m))}
<1>1. n \in Nat /\ k \in Nat /\ n <= k /\ (\A i \in 1..n : s[i] = t[i])
      /\ \A i \in 1..k : t[i] \in Nat
  BY DEF IsFirstOf
<1>2. SumOf(s) = SumFunctionOnSet(s, 1..n) /\ SumOf(t) = SumFunctionOnSet(t, 1..k)
  BY SumOfList
<1>3. SumFunctionOnSet(s, 1..n) \in Nat
  BY <1>2, SumOfList
<1> HIDE DEF n, k
<1>4. IsFiniteSet(1..n)
  BY <1>1, FS_Interval
<1>5. SumFunctionOnSet(s, 1..n) = SumFunctionOnSet(t, 1..n)
  BY <1>1, <1>4, SumSame
<1>6. 0 \in T
  BY <1>1, <1>3, <1>5
<1>7. ASSUME NEW m \in Nat, m \in T PROVE m + 1 \in T
  <2> SUFFICES ASSUME n + (m + 1) <= k
               PROVE  SumFunctionOnSet(t, 1..n) <= SumFunctionOnSet(t, 1..(n + (m + 1)))
    OBVIOUS
  <2> DEFINE j == n + m
  <2>1. j \in Nat /\ n + (m + 1) = j + 1 /\ (\A i \in 1..(j + 1) : t[i] \in Int)
        /\ t[j + 1] \in Nat
    BY <1>1
  <2>2. SumFunctionOnSet(t, 1..n) <= SumFunctionOnSet(t, 1..j)
    BY <1>1, <1>7
  <2> HIDE DEF j, T
  <2>3. SumFunctionOnSet(t, 1..j) \in Int
        /\ SumFunctionOnSet(t, 1..(j + 1)) = SumFunctionOnSet(t, 1..j) + t[j + 1]
    BY <2>1, SumLast
  <2> QED
    BY <1>3, <1>5, <2>1, <2>2, <2>3
<1>8. k - n \in Nat /\ n + (k - n) = k
  BY <1>1
<1>9. k - n \in T
  <2> DEFINE m == k - n
  <2> HIDE DEF T, m
  <2>1. m \in Nat
    BY <1>8 DEF m
  <2>2. m \in T
    BY <1>6, <1>7, <2>1, NaturalInduction
  <2> QED
    BY <2>2 DEF m
<1> QED
  BY <1>1, <1>2, <1>5, <1>8, <1>9

(* The inductive invariant of the builder: what build has selected are the *)
(* first unspent outputs, all of those that its loop has passed unless it  *)
(* has left the loop with more than the outputs.                           *)
BuilderInv ==
    /\ utxos \in Seq(Nat) /\ inputs \in Seq(Nat) /\ outputs \in Seq(Nat) /\ wanted \in Seq(Nat)
    /\ builder \in {"open", "select"} => outputs = wanted
    /\ builder = "open" => inputs = <<>>
    /\ builder = "select" =>
          /\ IsFirstOf(inputs, utxos)
          /\ \/ next_utxo = Len(inputs) + 1
             \/ next_utxo = Len(utxos) + 1 /\ BalanceOf(inputs, outputs) > 0
    /\ BuildCorrect

(* A new builder. *)
LEMMA BuilderStart == BuilderInit => BuilderInv
  BY DEF BuilderInit, BuilderInv, BuildCorrect

(* Sorting leaves a list of amounts. *)
LEMMA StepBuild == BuilderInv /\ Build => BuilderInv'
<1> SUFFICES ASSUME BuilderInv, Build PROVE BuilderInv'
  OBVIOUS
<1>1. PICK p \in Bijection(DOMAIN utxos, DOMAIN utxos) :
         utxos' = [i \in DOMAIN utxos |-> utxos[p[i]]]
  BY DEF Build
<1> DEFINE n == Len(utxos)
<1>2. n \in Nat /\ DOMAIN utxos = 1..n /\ \A i \in 1..n : utxos[i] \in Nat
  BY DEF BuilderInv
<1>3. \A i \in 1..n : p[i] \in 1..n
  BY <1>2 DEF Bijection, Injection, Surjection, IsInjective
<1>4. utxos' = [i \in 1..n |-> utxos'[i]] /\ \A i \in 1..n : utxos'[i] \in Nat
  <2> HIDE DEF n
  <2>1. utxos' = [i \in 1..n |-> utxos[p[i]]]
    BY <1>1, <1>2
  <2>2. \A i \in 1..n : utxos'[i] = utxos[p[i]]
    BY <2>1
  <2>3. \A i \in 1..n : utxos'[i] \in Nat
    BY <1>2, <1>3, <2>2
  <2> QED
    BY <2>1, <2>3
<1>5. utxos' \in Seq(Nat) /\ Len(utxos') = n
  <2> HIDE DEF n
  <2> QED
    BY <1>2, <1>4, SequenceOf
<1>6. /\ builder = "open" /\ builder' = "select" /\ next_utxo' = 1
      /\ UNCHANGED <<inputs, outputs, wanted>>
  BY DEF Build
<1>7. inputs' = <<>> /\ outputs' = wanted' /\ outputs' \in Seq(Nat)
  BY <1>6 DEF BuilderInv
<1>8. IsFirstOf(inputs', utxos') /\ next_utxo' = Len(inputs') + 1
  BY <1>2, <1>5, <1>6, <1>7 DEF IsFirstOf
<1> QED
  BY <1>5, <1>6, <1>7, <1>8 DEF BuilderInv, BuildCorrect

(* The loop of build takes the next unspent output. *)
LEMMA StepSelect == BuilderInv /\ SelectInput => BuilderInv'
<1> SUFFICES ASSUME BuilderInv, SelectInput PROVE BuilderInv'
  OBVIOUS
<1> DEFINE n == Len(inputs)
<1>1. /\ n \in Nat /\ Len(utxos) \in Nat /\ next_utxo <= Len(utxos)
      /\ next_utxo = n + 1 /\ n + 1 \in 1..Len(utxos) /\ utxos[n + 1] \in Nat
      /\ IsFirstOf(inputs, utxos) /\ inputs \in Seq(Nat) /\ utxos \in Seq(Nat)
  BY DEF BuilderInv, SelectInput
<1>2. inputs' = Append(inputs, utxos[n + 1])
  BY <1>1 DEF SelectInput
<1>3. inputs' \in Seq(Nat) /\ Len(inputs') = n + 1 /\ inputs'[n + 1] = utxos[n + 1]
      /\ \A i \in 1..n : inputs'[i] = inputs[i]
  BY <1>1, <1>2
<1>4. IsFirstOf(inputs', utxos')
  BY <1>1, <1>3 DEF SelectInput, IsFirstOf
<1>5. /\ UNCHANGED <<utxos, outputs, wanted, builder>> /\ builder = "select"
      /\ next_utxo' = IF BalanceOf(inputs', outputs) > 0 THEN Len(utxos) + 1 ELSE next_utxo + 1
  BY DEF SelectInput
<1>6. \/ next_utxo' = Len(inputs') + 1
      \/ next_utxo' = Len(utxos') + 1 /\ BalanceOf(inputs', outputs') > 0
  BY <1>1, <1>3, <1>5
<1> QED
  BY <1>3, <1>4, <1>5, <1>6 DEF BuilderInv, BuildCorrect

(* The loop of build ended with enough, or with every unspent output       *)
(* spent; the remainder is what the inputs have more than the outputs.     *)
LEMMA StepFinish == BuilderInv /\ FinishBuild => BuilderInv'
<1> SUFFICES ASSUME BuilderInv, FinishBuild PROVE BuilderInv'
  OBVIOUS
<1> DEFINE left == BalanceOf(inputs, outputs)
<1>1. /\ inputs \in Seq(Nat) /\ utxos \in Seq(Nat) /\ outputs \in Seq(Nat) /\ outputs = wanted
      /\ IsFirstOf(inputs, utxos) /\ next_utxo > Len(utxos)
      /\ UNCHANGED <<utxos, inputs, wanted>>
      /\ \/ next_utxo = Len(inputs) + 1
         \/ left > 0
  BY DEF BuilderInv, FinishBuild
<1>2. SumOf(inputs) \in Nat /\ SumOf(outputs) \in Nat /\ SumOf(utxos) \in Nat
      /\ left = SumOf(inputs) - SumOf(outputs)
  BY <1>1, SumOfList DEF BalanceOf
<1>3. SumOf(inputs) <= SumOf(utxos)
  BY <1>1, SumOfFirst
<1>4. CASE left < 0
  <2>1. Len(inputs) = Len(utxos)
    BY <1>1, <1>2, <1>4 DEF IsFirstOf
  <2>2. inputs = utxos
    <3>1. inputs \in Seq(Nat) /\ utxos \in Seq(Nat) /\ \A i \in 1..Len(inputs) : inputs[i] = utxos[i]
      BY <1>1 DEF IsFirstOf
    <3> QED
      BY <2>1, <3>1
  <2>3. builder' = "insufficient" /\ outputs' = outputs
    BY <1>4 DEF FinishBuild
  <2>4. SumOf(utxos') < SumOf(wanted')
    BY <1>1, <1>2, <1>4, <2>2
  <2> QED
    BY <1>1, <2>3, <2>4 DEF BuilderInv, BuildCorrect
<1>5. CASE ~ (left < 0)
  <2>1. builder' = "built" /\ outputs' = IF left > 0 THEN Append(outputs, left) ELSE outputs
    BY <1>5 DEF FinishBuild
  <2>2. left \in Nat
    BY <1>2, <1>5
  <2>3. SumOf(utxos') >= SumOf(wanted')
    <3> HIDE DEF left
    <3> QED
      BY <1>1, <1>2, <1>3, <2>2
  <2> HIDE DEF left
  <2>4. /\ outputs' \in Seq(Nat)
        /\ \A i \in DOMAIN wanted' : outputs'[i] = wanted'[i]
        /\ \A i \in DOMAIN outputs' \ DOMAIN wanted' : outputs'[i] > 0
    BY <1>1, <2>1, <2>2
  <2>5. SumOf(inputs') = SumOf(outputs')
    <3>1. SumOf(Append(outputs, left)) = SumOf(outputs) + left
      BY <1>1, <2>2, SumAppended
    <3> QED
      BY <1>1, <1>2, <2>1, <2>2, <3>1
  <2> QED
    BY <1>1, <2>1, <2>3, <2>4, <2>5 DEF BuilderInv, BuildCorrect
<1> QED
  BY <1>4, <1>5

(* Every call and every turn of the loop keeps the invariant. *)
LEMMA BuilderStep == BuilderInv /\ [BuilderNext]_builderVars => BuilderInv'
<1> SUFFICES ASSUME BuilderInv, [BuilderNext]_builderVars PROVE BuilderInv'
  OBVIOUS
<1>1. ASSUME NEW a \in UtxoAmounts, with_utxo(a) PROVE BuilderInv'
  <2>1. /\ a \in Nat /\ builder = "open"
        /\ utxos' = utxos \/ utxos' = Append(utxos, a)
        /\ UNCHANGED <<inputs, outputs, wanted, next_utxo, builder>>
    BY <1>1, BuilderAssumption DEF with_utxo
  <2>2. utxos' \in Seq(Nat)
    <3>1. utxos \in Seq(Nat)
      BY DEF BuilderInv
    <3>2. Append(utxos, a) \in Seq(Nat)
      BY <2>1, <3>1
    <3> QED
      BY <2>1, <3>1, <3>2
  <2> QED
    BY <2>1, <2>2 DEF BuilderInv, BuildCorrect
<1>2. ASSUME NEW a \in OutputAmounts, with_output(a) PROVE BuilderInv'
  <2>1. a \in Nat /\ outputs' = Append(outputs, a) /\ wanted' = Append(wanted, a)
        /\ builder = "open" /\ UNCHANGED <<utxos, inputs, next_utxo, builder>>
    BY <1>2, BuilderAssumption DEF with_output
  <2>2. outputs' \in Seq(Nat) /\ wanted' \in Seq(Nat) /\ outputs' = wanted'
    BY <2>1 DEF BuilderInv
  <2> QED
    BY <2>1, <2>2 DEF BuilderInv, BuildCorrect
<1>3. CASE UNCHANGED builderVars
  BY <1>3 DEF builderVars, BuilderInv, BuildCorrect, IsFirstOf, BalanceOf
<1> QED
  BY <1>1, <1>2, <1>3, StepBuild, StepSelect, StepFinish DEF BuilderNext

(* build fails exactly without enough unspent outputs, and spends exactly  *)
(* what it pays, for any amounts and any number of them.                   *)
THEOREM BuildsCorrect == BuilderSpec => []BuildCorrect
<1>1. BuilderInv => BuildCorrect
  BY DEF BuilderInv
<1> QED
  BY <1>1, BuilderStart, BuilderStep, PTL DEF BuilderSpec

(* Sorting neither loses nor doubles an unspent output: what build then    *)
(* finds short or enough is all that the builder was given.                *)
THEOREM SortKeepsFunds ==
    BuilderSpec => [][Build => SumOf(utxos') = SumOf(utxos)]_builderVars
<1>1. BuilderInv /\ Build => SumOf(utxos') = SumOf(utxos)
  <2> SUFFICES ASSUME BuilderInv, Build PROVE SumOf(utxos') = SumOf(utxos)
    OBVIOUS
  <2> DEFINE n == Len(utxos)
  <2>1. n \in Nat /\ DOMAIN utxos = 1..n /\ utxos \in Seq(Nat) /\ \A i \in 1..n : utxos[i] \in Int
    BY DEF BuilderInv
  <2>2. PICK p \in Bijection(1..n, 1..n) : utxos' = [i \in 1..n |-> utxos[p[i]]]
    BY <2>1 DEF Build
  <2> HIDE DEF n
  <2>3. (\A i \in 1..n : utxos'[i] = utxos[p[i]]) /\ DOMAIN utxos' = 1..n
    BY <2>2
  <2>4. SumFunctionOnSet(utxos', 1..n) = SumFunctionOnSet(utxos, 1..n)
    BY <2>1, <2>2, <2>3, SumPermuted
  <2> QED
    BY <2>1, <2>3, <2>4 DEF SumOf, SumFunction
<1> QED
  BY <1>1, BuilderStart, BuilderStep, PTL DEF BuilderSpec

-----------------------------------------------------------------------------
(* The order book. *)

(* What an integer division says about a product. *)
LEMMA Divided ==
    ASSUME NEW a \in Nat, NEW b \in Positive, NEW c \in Nat, c <= a \div b
    PROVE  c * b <= a
<1>1. a = b * (a \div b) + (a % b) /\ a % b >= 0 /\ a \div b \in Nat
  BY DEF Positive
<1>2. c * b <= (a \div b) * b
  BY <1>1, SMTT(30) DEF Positive
<1> QED
  BY <1>1, <1>2 DEF Positive

(* The quotient of what is no more than a multiple. *)
LEMMA Quotient ==
    ASSUME NEW a \in Nat, NEW b \in Positive, NEW c \in Nat, a <= c * b
    PROVE  a \div b <= c
<1>1. a = b * (a \div b) + (a % b) /\ a % b >= 0 /\ a \div b \in Nat
  BY DEF Positive
<1>2. b * (a \div b) <= c * b
  BY <1>1 DEF Positive
<1>3. CASE a \div b > c
  <2>1. b * (a \div b) >= b * (c + 1)
    BY <1>1, <1>3, SMTT(30) DEF Positive
  <2> QED
    BY <1>2, <2>1, SMTT(30) DEF Positive
<1> QED
  BY <1>1, <1>3 DEF Positive

(* A level that the order can buy whole costs no more than is left of it,  *)
(* although both divisions round.                                          *)
LEMMA LevelAfforded ==
    ASSUME NEW amount \in Nat, NEW price \in Positive \X Positive, NEW volume \in Nat,
           Buys(amount, price) >= volume
    PROVE  Costs(volume, price) <= amount /\ Costs(volume, price) \in Nat
<1>1. price[1] \in Positive /\ price[2] \in Positive
  OBVIOUS
<1>2. amount * price[2] \in Nat /\ volume * price[1] \in Nat
  BY <1>1, SMTT(30) DEF Positive
<1>3. volume * price[1] <= amount * price[2]
  BY <1>1, <1>2, Divided DEF Buys, Positive
<1>4. (volume * price[1]) \div price[2] <= amount
  BY <1>1, <1>2, <1>3, Quotient
<1> QED
  BY <1>1, <1>2, <1>4 DEF Costs, Positive


(* A bound on every term is one on the sum. *)
LEMMA SumBound ==
    ASSUME NEW r, NEW w, NEW n \in Nat, NEW a \in Int, NEW b \in Int, NEW c \in Int,
           \A i \in 1..n : r[i] \in Int /\ w[i] \in Int /\ a * r[i] <= b * w[i] + c
    PROVE  a * SumFunctionOnSet(r, 1..n) <= b * SumFunctionOnSet(w, 1..n) + n * c
<1> DEFINE R(m) == SumFunctionOnSet(r, 1..m)
           W(m) == SumFunctionOnSet(w, 1..m)
           T == {m \in Nat : m <= n => a * R(m) <= b * W(m) + m * c}
<1>1. 0 \in T
  BY SumStart
<1>2. ASSUME NEW m \in Nat, m \in T PROVE m + 1 \in T
  <2> SUFFICES ASSUME m + 1 <= n PROVE a * R(m + 1) <= b * W(m + 1) + (m + 1) * c
    OBVIOUS
  <2>1. m + 1 \in 1..n /\ \A i \in 1..(m + 1) : i \in 1..n
    OBVIOUS
  <2>2. R(m) \in Int /\ R(m + 1) = R(m) + r[m + 1] /\ W(m) \in Int /\ W(m + 1) = W(m) + w[m + 1]
    BY <2>1, SumLast
  <2>3. r[m + 1] \in Int /\ w[m + 1] \in Int /\ a * r[m + 1] <= b * w[m + 1] + c
    BY <2>1
  <2>4. a * R(m) <= b * W(m) + m * c
    BY <1>2
  <2> HIDE DEF R, W
  <2>5. a * (R(m) + r[m + 1]) = a * R(m) + a * r[m + 1]
    BY <2>2, <2>3
  <2>6. b * (W(m) + w[m + 1]) = b * W(m) + b * w[m + 1]
    BY <2>2, <2>3
  <2>7. (m + 1) * c = m * c + c
    OBVIOUS
  <2> QED
    BY <2>2, <2>3, <2>4, <2>5, <2>6, <2>7
<1>3. n \in T
  <2> HIDE DEF T
  <2> QED
    BY <1>1, <1>2, NaturalInduction
<1> QED
  BY <1>3

(* A unit for each of the first places, and how much that is. *)
UnitAt(i, size, unit) == IF i - 1 < size THEN unit ELSE 0
Units(n, size, unit) == unit * (IF n < size THEN n ELSE size)

(* One unit more, or less, at each of the first places. *)
LEMMA SumUnits ==
    ASSUME NEW v, NEW w, NEW n \in Nat, NEW size \in Nat, NEW unit \in Int,
           \A i \in 1..n : v[i] \in Int /\ w[i] = v[i] + UnitAt(i, size, unit)
    PROVE  SumFunctionOnSet(w, 1..n) = SumFunctionOnSet(v, 1..n) + Units(n, size, unit)
<1> DEFINE V(m) == SumFunctionOnSet(v, 1..m)
           W(m) == SumFunctionOnSet(w, 1..m)
           T == {m \in Nat : m <= n => W(m) = V(m) + Units(m, size, unit)}
<1>1. 0 \in T
  BY SumStart DEF Units
<1>2. ASSUME NEW m \in Nat, m \in T PROVE m + 1 \in T
  <2> SUFFICES ASSUME m + 1 <= n
               PROVE  W(m + 1) = V(m + 1) + Units(m + 1, size, unit)
    OBVIOUS
  <2>1. m + 1 \in 1..n /\ \A i \in 1..(m + 1) : i \in 1..n
    OBVIOUS
  <2>2. \A i \in 1..(m + 1) : v[i] \in Int /\ w[i] \in Int
    BY <2>1 DEF UnitAt
  <2>3. V(m) \in Int /\ V(m + 1) = V(m) + v[m + 1] /\ W(m) \in Int /\ W(m + 1) = W(m) + w[m + 1]
    BY <2>2, SumLast
  <2>4. w[m + 1] = v[m + 1] + UnitAt(m + 1, size, unit) /\ v[m + 1] \in Int
    BY <2>1
  <2>5. W(m) = V(m) + Units(m, size, unit)
    BY <1>2
  <2> HIDE DEF V, W
  <2>6. CASE m < size
    <3>1. unit * (m + 1) = unit * m + unit
      OBVIOUS
    <3>2. (IF m + 1 < size THEN m + 1 ELSE size) = m + 1
      BY <2>6
    <3> QED
      BY <2>3, <2>4, <2>5, <2>6, <3>1, <3>2 DEF UnitAt, Units
  <2>7. CASE ~(m < size)
    BY <2>3, <2>4, <2>5, <2>7 DEF UnitAt, Units
  <2> QED
    BY <2>6, <2>7
<1>3. n \in T
  <2> HIDE DEF T
  <2> QED
    BY <1>1, <1>2, NaturalInduction
<1> QED
  BY <1>3

(* A quotient times the divisor. *)
LEMMA RoundedDown ==
    ASSUME NEW a \in Nat, NEW b \in Positive
    PROVE  a \div b \in Nat /\ b * (a \div b) <= a /\ a < b * (a \div b) + b
<1>1. a = b * (a \div b) + (a % b) /\ a % b >= 0 /\ a % b < b /\ a \div b \in Nat
  BY DEF Positive
<1> QED
  BY <1>1 DEF Positive

(* The loop that copies the levels leaves no valid level out. *)
LEMMA KeptAll ==
    ASSUME NEW S, NEW levels \in Seq(S),
           \A i \in DOMAIN levels : levels[i].volume > 0 /\ levels[i].volume <= balance
    PROVE  Kept(levels) = levels
<1> DEFINE n == Len(levels)
           valid(i) == levels[i].volume > 0 /\ levels[i].volume <= balance
           Loop(g) == g = [i \in 0..n |-> IF i = 0 THEN <<>>
                                          ELSE IF valid(i) THEN Append(g[i - 1], levels[i])
                                               ELSE g[i - 1]]
           first(m) == [k \in 1..m |-> levels[k]]
           h == [i \in 0..n |-> first(i)]
<1>1. n \in Nat /\ DOMAIN levels = 1..n /\ first(n) = levels
  OBVIOUS
<1>2. \A i \in 1..n : valid(i)
  BY <1>1
<1>3. first(0) = <<>>
  OBVIOUS
<1>4. \A i \in 1..n : Append(first(i - 1), levels[i]) = first(i)
  <2> SUFFICES ASSUME NEW i \in 1..n PROVE Append(first(i - 1), levels[i]) = first(i)
    OBVIOUS
  <2>1. first(i - 1) \in Seq(S) /\ Len(first(i - 1)) = i - 1 /\ levels[i] \in S
    BY <1>1
  <2>2. first(i) \in Seq(S) /\ Len(first(i)) = i
    BY <1>1
  <2>3. Append(first(i - 1), levels[i]) \in Seq(S) /\ Len(Append(first(i - 1), levels[i])) = i
    BY <2>1
  <2>4. \A k \in 1..i : Append(first(i - 1), levels[i])[k] = first(i)[k]
    BY <2>1
  <2> QED
    BY <2>2, <2>3, <2>4
<1>5. Loop(h)
  BY <1>1, <1>2, <1>3, <1>4
<1>6. ASSUME NEW g, Loop(g) PROVE g[n] = first(n)
  <2> DEFINE T == {m \in Nat : m <= n => g[m] = first(m)}
  <2>1. 0 \in T
    BY <1>1, <1>3, <1>6
  <2>2. ASSUME NEW m \in Nat, m \in T PROVE m + 1 \in T
    <3> SUFFICES ASSUME m + 1 <= n PROVE g[m + 1] = first(m + 1)
      OBVIOUS
    <3>1. m + 1 \in 1..n /\ (m + 1) - 1 = m /\ m + 1 \in 0..n /\ m + 1 # 0
      BY <1>1
    <3>2. g[m + 1] = Append(g[m], levels[m + 1])
      BY <1>2, <1>6, <3>1
    <3> HIDE DEF first
    <3> QED
      BY <1>4, <2>2, <3>1, <3>2
  <2>3. n \in T
    <3> HIDE DEF T
    <3> QED
      BY <1>1, <2>1, <2>2, NaturalInduction
  <2> QED
    BY <1>1, <2>3
<1>7. Kept(levels) = (CHOOSE g : Loop(g))[n]
  BY DEF Kept
<1>8. Loop(CHOOSE g : Loop(g))
  <2> HIDE DEF Loop, h
  <2> QED
    BY <1>5, Zenon
<1> HIDE DEF Loop, first
<1> QED
  BY <1>1, <1>6, <1>7, <1>8

Levels == [price : Positive \X Positive, volume : Nat]
Volumes(levels) == [i \in DOMAIN levels |-> levels[i].volume]

(* The total of a book is the sum over its places. *)
LEMMA TotalIs ==
    ASSUME NEW levels \in Seq(Levels)
    PROVE  /\ Total(levels) = SumFunctionOnSet(Volumes(levels), 1..Len(levels))
           /\ Total(levels) \in Nat
           /\ \A i \in 1..Len(levels) : Volumes(levels)[i] = levels[i].volume
                                          /\ levels[i].volume \in Nat
<1> DEFINE v == Volumes(levels)
           n == Len(levels)
<1>1. n \in Nat /\ DOMAIN levels = 1..n /\ \A i \in 1..n : levels[i] \in Levels
  OBVIOUS
<1>2. DOMAIN v = 1..n /\ \A i \in 1..n : v[i] = levels[i].volume /\ levels[i].volume \in Nat
  BY <1>1 DEF Volumes, Levels
<1>3. Total(levels) = SumFunctionOnSet(v, 1..n)
  BY <1>2 DEF Total, Volumes, SumFunction
<1> HIDE DEF v, n
<1>4. IsFiniteSet(1..n)
  BY <1>1, FS_Interval
<1>5. SumFunctionOnSet(v, 1..n) \in Nat
  BY <1>2, <1>4, SumType
<1> QED
  BY <1>2, <1>3, <1>5 DEF v, n

(* No level holds more than the book. *)
LEMMA LevelInTotal ==
    ASSUME NEW levels \in Seq(Levels), NEW i \in DOMAIN levels
    PROVE  levels[i].volume <= Total(levels)
<1> DEFINE v == Volumes(levels)
           n == Len(levels)
           rest == (1..n) \ {i}
<1>1. n \in Nat /\ i \in 1..n
  OBVIOUS
<1>2. \A j \in 1..n : v[j] = levels[j].volume /\ v[j] \in Nat /\ v[j] \in Int
  BY TotalIs
<1>3. Total(levels) = SumFunctionOnSet(v, 1..n)
  BY TotalIs
<1> HIDE DEF v, n
<1>4. IsFiniteSet(1..n)
  BY <1>1, FS_Interval
<1>5. IsFiniteSet(rest)
  BY <1>4, FS_Subset
<1>6. SumFunctionOnSet(v, 1..n) = v[i] + SumFunctionOnSet(v, rest)
  <2>1. \A j \in 1..n : v[j] \in Int
    BY <1>2
  <2> QED
    BY <1>1, <1>4, <2>1, SumWithout
<1>7. SumFunctionOnSet(v, rest) \in Nat
  <2>1. \A j \in rest : v[j] \in Nat
    BY <1>2
  <2> HIDE DEF rest
  <2> QED
    BY <1>5, <2>1, SumType
<1> HIDE DEF rest
<1>8. v[i] <= SumFunctionOnSet(v, 1..n)
  <2>1. v[i] \in Nat
    BY <1>1, <1>2
  <2> QED
    BY <1>6, <1>7, <2>1
<1> QED
  BY <1>1, <1>2, <1>3, <1>8

(* The rounding error is at most half a unit for each level. *)
LEMMA NormalizedTotal ==
    ASSUME NEW weights \in Seq(Levels), NEW levels \in Seq(Levels), NEW b \in Nat,
           Total(weights) # 0, Len(levels) = Len(weights),
           \A i \in 1..Len(weights) : levels[i].volume =
               (2 * weights[i].volume * b + Total(weights)) \div (2 * Total(weights))
    PROVE  2 * Total(levels) <= 2 * b + Len(levels)
<1> DEFINE n == Len(weights)
           t == Total(weights)
           w == Volumes(weights)
           r == Volumes(levels)
<1>1. n \in Nat /\ t \in Positive /\ 2 * t \in Positive /\ 2 * b \in Int
  BY TotalIs DEF Positive
<1>2. \A i \in 1..n : /\ r[i] \in Nat /\ w[i] \in Nat
                       /\ r[i] = (2 * w[i] * b + t) \div (2 * t)
  BY TotalIs
<1>3. t = SumFunctionOnSet(w, 1..n) /\ Total(levels) = SumFunctionOnSet(r, 1..n)
  BY TotalIs
<1>4. Total(levels) \in Nat
  BY TotalIs
<1> HIDE DEF n, t, w, r
<1>5. \A i \in 1..n : r[i] \in Int /\ w[i] \in Int /\ (2 * t) * r[i] <= (2 * b) * w[i] + t
  <2> SUFFICES ASSUME NEW i \in 1..n
               PROVE  r[i] \in Int /\ w[i] \in Int /\ (2 * t) * r[i] <= (2 * b) * w[i] + t
    OBVIOUS
  <2>1. w[i] \in Nat /\ r[i] = (2 * w[i] * b + t) \div (2 * t)
    BY <1>2
  <2>2. 2 * w[i] * b + t \in Nat /\ 2 * w[i] * b = (2 * b) * w[i]
    <3>1. w[i] * b \in Nat
      BY <2>1, SMTT(30)
    <3>2. 2 * w[i] * b = 2 * (w[i] * b) /\ (2 * b) * w[i] = 2 * (w[i] * b)
      BY <2>1
    <3> QED
      BY <1>1, <3>1, <3>2 DEF Positive
  <2>3. (2 * t) * r[i] <= 2 * w[i] * b + t
    BY <1>1, <2>1, <2>2, RoundedDown
  <2>4. r[i] \in Int /\ w[i] \in Int
    BY <1>2
  <2> QED
    BY <2>2, <2>3, <2>4
<1>6. (2 * t) * Total(levels) <= (2 * b) * t + n * t
  <2>1. 2 * t \in Int /\ t \in Int
    BY <1>1 DEF Positive
  <2>2. (2 * t) * SumFunctionOnSet(r, 1..n) <= (2 * b) * SumFunctionOnSet(w, 1..n) + n * t
    BY <1>1, <1>5, <2>1, SumBound
  <2> QED
    BY <1>3, <2>2
<1>7. t * (2 * Total(levels)) <= t * (2 * b + n)
  BY <1>1, <1>4, <1>6 DEF Positive
<1>8. 2 * Total(levels) <= 2 * b + n
  <2> SUFFICES ASSUME 2 * Total(levels) >= 2 * b + n + 1 PROVE FALSE
    BY <1>1, <1>4
  <2>1. t * (2 * Total(levels)) >= t * (2 * b + n + 1)
    BY <1>1, <1>4, SMTT(30) DEF Positive
  <2>2. t * (2 * b + n + 1) = t * (2 * b + n) + t
    BY <1>1 DEF Positive
  <2> QED
    BY <1>1, <1>4, <1>7, <2>1, <2>2, SMTT(30) DEF Positive
<1> QED
  BY <1>8 DEF n

(* One unit more, or less, at each of the first levels. *)
LEMMA UnitsInTotal ==
    ASSUME NEW levels \in Seq(Levels), NEW changed \in Seq(Levels), Len(changed) = Len(levels),
           NEW size \in Nat, NEW unit \in Int
    PROVE  (\A i \in 1..Len(levels) :
                changed[i].volume = levels[i].volume + UnitAt(i, size, unit))
           => Total(changed) = Total(levels) + Units(Len(levels), size, unit)
<1> DEFINE n == Len(levels)
           v == Volumes(levels)
           w == Volumes(changed)
<1>1. n \in Nat
  OBVIOUS
<1>2. \A i \in 1..n : v[i] = levels[i].volume /\ v[i] \in Int /\ w[i] = changed[i].volume
  <2>1. \A i \in 1..n : v[i] = levels[i].volume /\ v[i] \in Int
    BY TotalIs
  <2>2. \A i \in 1..n : w[i] = changed[i].volume
    BY TotalIs
  <2> QED
    BY <2>1, <2>2
<1>3. Total(levels) = SumFunctionOnSet(v, 1..n) /\ Total(changed) = SumFunctionOnSet(w, 1..n)
  BY TotalIs
<1> HIDE DEF v, w, n
<1>4. ASSUME \A i \in 1..n : v[i] \in Int /\ w[i] = v[i] + UnitAt(i, size, unit)
      PROVE  SumFunctionOnSet(w, 1..n) = SumFunctionOnSet(v, 1..n) + Units(n, size, unit)
  BY <1>1, <1>4, SumUnits
<1> QED
  BY <1>2, <1>3, <1>4 DEF n

(* The book that is about to be adjusted: no level is dust, and the total  *)
(* is off by at most half a unit for each level.                           *)
Rough ==
    /\ curve \in Seq(Levels)
    /\ \A i \in DOMAIN curve : curve[i].volume > 1
    /\ 2 * Total(curve) <= 2 * balance + Len(curve)

(* Every level that may get or give a unit comes up in turn, so the error  *)
(* is gone, or every level has got a unit.                                 *)
LEMMA AdjustedBook ==
    ASSUME Rough, balance \in Nat
    PROVE  /\ Adjusted \in Seq(Levels) /\ Len(Adjusted) = Len(curve)
           /\ \A i \in 1..Len(curve) : Adjusted[i].price = curve[i].price
                                         /\ Adjusted[i].volume > 0
           /\ Total(Adjusted) <= balance
<1> DEFINE n == Len(curve)
           error == balance - Total(curve)
           size == IF error > 0 THEN error ELSE -error
           unit == IF error > 0 THEN 1 ELSE -1
<1>1. n \in Nat /\ DOMAIN curve = 1..n /\ Total(curve) \in Nat /\ error \in Int /\ size \in Nat
  BY TotalIs DEF Rough
<1>2. \A i \in 1..n : curve[i] \in Levels /\ curve[i].volume \in Nat /\ curve[i].volume > 1
  BY <1>1, TotalIs DEF Rough
<1>3. \A i \in 1..n : Cardinality(1..(i - 1)) = i - 1
  BY <1>1, FS_Interval
<1>4. \A i \in 1..n : {k \in 1..(i - 1) : curve[k].volume > IF error > 0 THEN 0 ELSE 1} = 1..(i - 1)
  BY <1>1, <1>2
<1>5. Adjusted = [i \in 1..n |-> IF i - 1 < size THEN [curve[i] EXCEPT !.volume = @ + unit]
                                 ELSE curve[i]]
  <2>1. \A i \in 1..n : curve[i].volume > IF error > 0 THEN 0 ELSE 1
    BY <1>2
  <2> QED
    BY <1>1, <1>3, <1>4, <2>1 DEF Adjusted
<1>6. \A i \in 1..n : /\ Adjusted[i] \in Levels
                       /\ Adjusted[i].price = curve[i].price
                       /\ Adjusted[i].volume = curve[i].volume + UnitAt(i, size, unit)
                       /\ Adjusted[i].volume > 0
  BY <1>2, <1>5 DEF Levels, UnitAt
<1>7. Adjusted \in Seq(Levels) /\ Len(Adjusted) = n
  BY <1>1, <1>5, <1>6
<1>8. Total(Adjusted) <= balance
  <2>3. unit \in Int
    OBVIOUS
  <2>4. Total(Adjusted) = Total(curve) + Units(n, size, unit)
    <3>1. size \in Nat /\ curve \in Seq(Levels)
      BY <1>1 DEF Rough
    <3>2. \A i \in 1..Len(curve) : Adjusted[i].volume = curve[i].volume + UnitAt(i, size, unit)
      BY <1>6
    <3> HIDE DEF unit, size, error
    <3> QED
      BY <1>7, <2>3, <3>1, <3>2, UnitsInTotal
  <2>5. 2 * Total(curve) <= 2 * balance + n
    BY DEF Rough
  <2> QED
    BY <1>1, <2>4, <2>5 DEF Units
<1> QED
  BY <1>6, <1>7, <1>8

(* What the amounts taken cost, over the common denominator of the prices. *)
Spent(amounts, levels) == SumFunction([i \in DOMAIN amounts |-> amounts[i] * levels[i].price[1]])

(* One level more costs the amount taken there at its price. *)
LEMMA SpentMore ==
    ASSUME NEW levels \in Seq(Levels), NEW amounts \in Seq(Nat), NEW a \in Nat,
           Len(amounts) + 1 <= Len(levels)
    PROVE  /\ Spent(amounts, levels) \in Int
           /\ Spent(Append(amounts, a), levels)
                = Spent(amounts, levels) + a * levels[Len(amounts) + 1].price[1]
<1> DEFINE m == Len(amounts)
           longer == Append(amounts, a)
           f == [i \in DOMAIN amounts |-> amounts[i] * levels[i].price[1]]
           g == [i \in DOMAIN longer |-> longer[i] * levels[i].price[1]]
<1>1. m \in Nat /\ DOMAIN amounts = 1..m /\ longer \in Seq(Nat) /\ DOMAIN longer = 1..(m + 1)
  OBVIOUS
<1>2. \A i \in 1..(m + 1) : levels[i].price[1] \in Nat /\ longer[i] \in Nat
  <2> SUFFICES ASSUME NEW i \in 1..(m + 1) PROVE levels[i].price[1] \in Nat /\ longer[i] \in Nat
    OBVIOUS
  <2>1. i \in DOMAIN levels
    BY <1>1
  <2>2. levels[i] \in Levels
    BY <2>1
  <2>3. levels[i].price \in Positive \X Positive
    BY <2>2 DEF Levels
  <2> QED
    BY <1>1, <2>3 DEF Positive
<1>3. \A i \in 1..(m + 1) : g[i] \in Int
  <2> SUFFICES ASSUME NEW i \in 1..(m + 1) PROVE longer[i] * levels[i].price[1] \in Int
    BY <1>1
  <2> HIDE DEF longer
  <2> QED
    BY <1>2
<1>4. g[m + 1] = a * levels[m + 1].price[1]
  BY <1>1
<1>5. \A i \in 1..m : f[i] = g[i]
  BY <1>1
<1>6. Spent(amounts, levels) = SumFunctionOnSet(f, 1..m)
  BY <1>1 DEF Spent, SumFunction
<1>7. Spent(longer, levels) = SumFunctionOnSet(g, 1..(m + 1))
  BY <1>1 DEF Spent, SumFunction
<1> HIDE DEF f, g, m
<1>8. IsFiniteSet(1..m)
  BY <1>1, FS_Interval
<1>9. SumFunctionOnSet(f, 1..m) = SumFunctionOnSet(g, 1..m)
  BY <1>5, <1>8, SumSame
<1>10. /\ SumFunctionOnSet(g, 1..m) \in Int
       /\ SumFunctionOnSet(g, 1..(m + 1)) = SumFunctionOnSet(g, 1..m) + g[m + 1]
  BY <1>1, <1>3, SumLast
<1> QED
  BY <1>4, <1>6, <1>7, <1>9, <1>10 DEF m

-----------------------------------------------------------------------------
(* The inductive invariant of the order book.  Every price has the common  *)
(* denominator; and what was taken and what is left of the order cost no   *)
(* more than the order, up to a unit for each level.                       *)
BookTyped ==
    /\ balance \in Nat
    /\ center \in Positive \X Positive
    /\ side \in {"asks", "bids"}
    /\ curve \in Seq(Levels)
    /\ order \in Nat
    /\ remaining \in Nat

OneDenominator == \A i \in DOMAIN curve : curve[i].price[2] = Denominator

BookWithin ==
    /\ book = "weights" => curve = <<>>
    /\ book = "normalize" => Len(curve) = Divisions
    /\ book = "adjust" => Rough
    /\ book \notin {"weights", "normalize", "adjust"} => Total(curve) <= balance

Filled ==
    /\ taken \in Seq(Nat)
    /\ Len(taken) <= Len(curve)
    /\ Spent(taken, curve) \in Int
    /\ Spent(taken, curve) + remaining * Denominator <= (order + Len(taken)) * Denominator

BookInv ==
    /\ BookTyped
    /\ OneDenominator
    /\ BookWithin
    /\ book \in {"filling", "some"} => Filled
    /\ book = "filling" => level \in {Len(taken) + 1, Len(curve) + 1}

(* The common denominator of the prices. *)
LEMMA DenominatorPositive ==
    ASSUME BookTyped
    PROVE  Denominator \in Positive
<1>1. center[2] \in Positive /\ Width[2] \in Positive /\ Divisions \in Positive
  BY BookAssumption DEF BookTyped, Width, Positive
<1>2. center[2] * Divisions \in Positive
  BY <1>1, SMTT(30) DEF Positive
<1>3. (center[2] * Divisions) * Width[2] \in Positive
  BY <1>1, <1>2, SMTT(30) DEF Positive
<1> QED
  BY <1>3 DEF Denominator

(* Every price of generate is positive and over the common denominator. *)
LEMMA PricePositive ==
    ASSUME BookTyped, NEW i \in 1..Divisions
    PROVE  Price(i) \in Positive \X Positive /\ Price(i)[2] = Denominator
<1>1. center[1] \in Positive /\ Width \in Positive \X Positive /\ Divisions \in Positive
  BY BookAssumption DEF BookTyped, Width, Positive
<1>2. Width[1] \in Positive /\ Width[2] \in Positive
  BY <1>1
<1>3. Divisions * Width[2] \in Positive /\ i * Width[1] \in Nat
  BY <1>1, <1>2, SMTT(30) DEF Positive
<1>4. Divisions * Width[2] + i * Width[1] \in Positive
  BY <1>3 DEF Positive
<1>5. center[1] * (Divisions * Width[2] + i * Width[1]) \in Positive
  BY <1>1, <1>4, SMTT(30) DEF Positive
<1> QED
  BY <1>5, DenominatorPositive DEF Price

(* The book before generate. *)
LEMMA BookStart == BookInit => BookInv
<1> SUFFICES ASSUME BookInit PROVE BookInv
  OBVIOUS
<1>1. balance \in Nat /\ center \in Positive \X Positive
  BY BookAssumption DEF BookInit
<1> QED
  BY <1>1 DEF BookInit, BookInv, BookTyped, OneDenominator, BookWithin

(* An empty book holds nothing. *)
LEMMA TotalEmpty == Total(<<>>) = 0
<1>1. <<>> \in Seq(Levels) /\ Len(<<>>) = 0
  OBVIOUS
<1>2. Total(<<>>) = SumFunctionOnSet(Volumes(<<>>), 1..0)
  BY <1>1, TotalIs
<1> QED
  BY <1>2, SumStart

(* The weights make as many levels as there are divisions. *)
LEMMA StepWeights == BookInv /\ Weights => BookInv'
<1> SUFFICES ASSUME BookInv, Weights PROVE BookInv'
  OBVIOUS
<1>1. /\ UNCHANGED <<balance, center, side, order, remaining, taken, level>>
      /\ Denominator' = Denominator /\ BookTyped
  BY DEF BookInv, Weights, given, takerVars, Denominator, Width
<1>2. CASE balance < DustLimit /\ book' = "ready" /\ UNCHANGED curve
  <2>1. curve = <<>> /\ balance \in Nat
    BY DEF Weights, BookInv, BookWithin, BookTyped
  <2>2. Total(curve') <= balance'
    BY <1>1, <1>2, <2>1, TotalEmpty
  <2> QED
    BY <1>1, <1>2, <2>2 DEF BookInv, BookTyped, OneDenominator, BookWithin
<1>3. CASE /\ \E weight \in [1..Divisions -> 0..MaxWeight] :
                curve' = [i \in 1..Divisions |-> [price |-> Price(i), volume |-> weight[i]]]
           /\ book' = "normalize"
  <2>1. PICK weight \in [1..Divisions -> 0..MaxWeight] :
            curve' = [i \in 1..Divisions |-> [price |-> Price(i), volume |-> weight[i]]]
    BY <1>3
  <2>2. Divisions \in Nat /\ \A i \in 1..Divisions : weight[i] \in Nat
    BY BookAssumption DEF Positive
  <2>3. \A i \in 1..Divisions : curve'[i] \in Levels /\ curve'[i].price[2] = Denominator
    BY <1>1, <2>1, <2>2, PricePositive DEF Levels
  <2>4. curve' \in Seq(Levels) /\ DOMAIN curve' = 1..Divisions /\ Len(curve') = Divisions
    BY <2>1, <2>2, <2>3
  <2> QED
    BY <1>1, <1>3, <2>3, <2>4 DEF BookInv, BookTyped, OneDenominator, BookWithin
<1> QED
  BY <1>2, <1>3 DEF Weights

(* Levels of one volume. *)
LEMMA EqualLevels ==
    ASSUME NEW levels \in Seq(Levels), NEW d \in Nat,
           \A i \in 1..Len(levels) : levels[i].volume = d
    PROVE  Total(levels) <= Len(levels) * d
<1> DEFINE n == Len(levels)
           v == Volumes(levels)
<1>1. n \in Nat /\ Total(levels) = SumFunctionOnSet(v, 1..n) /\ Total(levels) \in Nat
  BY TotalIs
<1> DEFINE one == 1
           none == 0
<1>2. /\ one \in Int /\ none \in Int /\ d \in Int
      /\ \A i \in 1..n : v[i] \in Int /\ v[i] \in Int /\ one * v[i] <= none * v[i] + d
  BY TotalIs
<1> HIDE DEF v, n, one, none
<1>3. one * SumFunctionOnSet(v, 1..n) <= none * SumFunctionOnSet(v, 1..n) + n * d
  BY <1>1, <1>2, SumBound
<1> QED
  BY <1>1, <1>3 DEF n, one, none

(* Normalizing leaves levels above the dust limit that make up the balance *)
(* but for the rounding, or levels of the dust limit within the balance.   *)
LEMMA StepNormalize == BookInv /\ normalize_volumes => BookInv'
<1> SUFFICES ASSUME BookInv, normalize_volumes PROVE BookInv'
  OBVIOUS
<1> DEFINE n == Len(curve)
<1>1. /\ UNCHANGED <<balance, center, side, order, remaining, taken, level>>
      /\ Denominator' = Denominator /\ BookTyped /\ balance \in Nat /\ book' = "adjust"
  BY DEF BookInv, BookTyped, normalize_volumes, given, takerVars, Denominator, Width
<1>2. n \in Nat /\ DOMAIN curve = 1..n
      /\ \A i \in 1..n : curve[i] \in Levels /\ curve[i].price[2] = Denominator
  BY DEF BookInv, BookTyped, OneDenominator
<1> DEFINE k == IF balance \div DustLimit < Divisions THEN balance \div DustLimit ELSE Divisions
<1>3. DustLimit \in Positive /\ DustLimit > 1 /\ n = Divisions /\ k \in Nat /\ k <= n
      /\ k * DustLimit <= balance
  <2>1. DustLimit \in Positive /\ DustLimit > 1 /\ Divisions \in Nat /\ n = Divisions
    BY BookAssumption DEF Positive, BookInv, BookWithin, normalize_volumes
  <2>2. balance \div DustLimit \in Nat
    BY <1>1, <2>1, RoundedDown
  <2>3. k \in Nat /\ k <= n /\ k <= balance \div DustLimit
    BY <2>1, <2>2
  <2>4. k * DustLimit <= balance
    <3> HIDE DEF k
    <3> QED
      BY <1>1, <2>1, <2>3, Divided
  <2> QED
    BY <2>1, <2>3, <2>4
<1> HIDE DEF k
<1>4. CASE \E i \in DOMAIN curve : Rounded(curve[i].volume) < DustLimit
  <2>1. curve' = [i \in DOMAIN DustLevels |-> [DustLevels[i] EXCEPT !.volume = DustLimit]]
    BY <1>4 DEF normalize_volumes
  <2>2. DustLevels = SubSeq(curve, 1, k)
    BY DEF DustLevels, k
  <2>3. DOMAIN DustLevels = 1..k /\ \A i \in 1..k : DustLevels[i] = curve[i] /\ i \in 1..n
    <3>1. curve \in Seq(Levels) /\ k \in Nat /\ k <= Len(curve)
      BY <1>3 DEF BookInv, BookTyped
    <3>2. DOMAIN DustLevels = 1..k /\ \A i \in 1..k : DustLevels[i] = curve[i]
      BY <2>2, <3>1
    <3> QED
      BY <1>2, <1>3, <3>2
  <2>4. \A i \in 1..k : /\ curve'[i] \in Levels /\ curve'[i].volume = DustLimit
                         /\ curve'[i].price[2] = Denominator
    BY <1>2, <1>3, <2>1, <2>3 DEF Levels, Positive
  <2>5. curve' \in Seq(Levels) /\ DOMAIN curve' = 1..k /\ Len(curve') = k
    BY <1>3, <2>1, <2>3, <2>4
  <2>6. Total(curve') <= k * DustLimit /\ Total(curve') \in Nat
    BY <1>3, <2>4, <2>5, EqualLevels, TotalIs DEF Positive
  <2>7. 2 * Total(curve') <= 2 * balance + k
    BY <1>1, <1>3, <2>6 DEF Positive
  <2>8. Rough'
    BY <1>1, <1>3, <2>4, <2>5, <2>7 DEF Rough
  <2> QED
    BY <1>1, <2>4, <2>5, <2>8 DEF BookInv, BookTyped, OneDenominator, BookWithin
<1>5. CASE ~ \E i \in DOMAIN curve : Rounded(curve[i].volume) < DustLimit
  <2> DEFINE t == Total(curve)
  <2>1. curve' = [i \in 1..n |-> [curve[i] EXCEPT !.volume = Rounded(curve[i].volume)]]
    BY <1>2, <1>5 DEF normalize_volumes
  <2>2. t \in Nat /\ t # 0
    <3>1. n \in DOMAIN curve
      BY <1>2, <1>3, BookAssumption DEF Positive
    <3>2. t = 0 => Rounded(curve[n].volume) = 0
      BY DEF Rounded
    <3>3. t \in Nat
      BY TotalIs DEF BookInv, BookTyped
    <3> HIDE DEF t, n
    <3> QED
      BY <1>3, <1>5, <3>1, <3>2, <3>3 DEF Positive
  <2>3. \A i \in 1..n : /\ Rounded(curve[i].volume) = (2 * curve[i].volume * balance + t) \div (2 * t)
                         /\ Rounded(curve[i].volume) \in Nat
                         /\ Rounded(curve[i].volume) >= DustLimit
    <3> SUFFICES ASSUME NEW i \in 1..n
                 PROVE  /\ Rounded(curve[i].volume) = (2 * curve[i].volume * balance + t) \div (2 * t)
                        /\ Rounded(curve[i].volume) \in Nat
                        /\ Rounded(curve[i].volume) >= DustLimit
      OBVIOUS
    <3>1. Rounded(curve[i].volume) = (2 * curve[i].volume * balance + t) \div (2 * t)
      BY <2>2 DEF Rounded
    <3>2. curve[i].volume \in Nat
      BY <1>2 DEF Levels
    <3>3. curve[i].volume * balance \in Nat
      BY <1>1, <3>2, SMTT(30)
    <3>4. 2 * curve[i].volume * balance + t \in Nat /\ 2 * t \in Positive
      <4> HIDE DEF t
      <4>1. 2 * curve[i].volume * balance = 2 * (curve[i].volume * balance)
        BY <1>1, <3>2
      <4> QED
        BY <2>2, <3>3, <4>1 DEF Positive
    <3>5. Rounded(curve[i].volume) \in Nat
      BY <3>1, <3>4, RoundedDown
    <3>6. ~ (Rounded(curve[i].volume) < DustLimit)
      BY <1>2, <1>5
    <3> HIDE DEF t, n
    <3> QED
      BY <1>3, <3>1, <3>5, <3>6 DEF Positive
  <2>4. \A i \in 1..n : /\ curve'[i] \in Levels /\ curve'[i].volume = Rounded(curve[i].volume)
                         /\ curve'[i].price[2] = Denominator
    BY <1>2, <2>1, <2>3 DEF Levels
  <2>5. curve' \in Seq(Levels) /\ DOMAIN curve' = 1..n /\ Len(curve') = n
    <3> HIDE DEF n, t
    <3>1. curve' = [i \in 1..n |-> curve'[i]] /\ \A i \in 1..n : curve'[i] \in Levels
      BY <2>1, <2>4
    <3> QED
      BY <1>2, <3>1, SequenceOf
  <2>6. 2 * Total(curve') <= 2 * balance + Len(curve')
    <3>1. \A i \in 1..Len(curve) :
             curve'[i].volume = (2 * curve[i].volume * balance + Total(curve)) \div (2 * Total(curve))
      BY <2>3, <2>4
    <3>2. curve \in Seq(Levels) /\ Len(curve') = Len(curve) /\ Total(curve) # 0
      BY <2>2, <2>5 DEF BookInv, BookTyped
    <3> QED
      BY <1>1, <2>5, <3>1, <3>2, NormalizedTotal
  <2>7. Rough'
    <3> HIDE DEF t, n
    <3>1. \A i \in DOMAIN curve' : curve'[i].volume > 1
      BY <1>3, <2>3, <2>4, <2>5 DEF Positive
    <3> QED
      BY <1>1, <2>5, <2>6, <3>1 DEF Rough
  <2> QED
    BY <1>1, <2>4, <2>5, <2>7 DEF BookInv, BookTyped, OneDenominator, BookWithin
<1> QED
  BY <1>4, <1>5

(* Adjusting takes the rounding error away and drops no level. *)
LEMMA StepAdjust == BookInv /\ Adjust => BookInv'
<1> SUFFICES ASSUME BookInv, Adjust PROVE BookInv'
  OBVIOUS
<1>1. /\ UNCHANGED <<balance, center, side, order, remaining, taken, level>>
      /\ Denominator' = Denominator /\ BookTyped /\ balance \in Nat /\ book' = "ready"
      /\ Rough /\ curve' = Kept(Adjusted)
  BY DEF BookInv, BookTyped, BookWithin, Adjust, given, takerVars, Denominator, Width
<1>2. /\ Adjusted \in Seq(Levels) /\ Len(Adjusted) = Len(curve)
      /\ \A i \in 1..Len(curve) : Adjusted[i].price = curve[i].price /\ Adjusted[i].volume > 0
      /\ Total(Adjusted) <= balance
  BY <1>1, AdjustedBook
<1>3. \A i \in DOMAIN Adjusted : Adjusted[i].volume > 0 /\ Adjusted[i].volume <= balance
  <2>1. Total(Adjusted) \in Nat /\ \A i \in 1..Len(Adjusted) : Adjusted[i].volume \in Nat
    BY <1>2, TotalIs
  <2>2. \A i \in 1..Len(Adjusted) : Adjusted[i].volume <= Total(Adjusted)
    BY <1>2, LevelInTotal
  <2>3. DOMAIN Adjusted = 1..Len(Adjusted)
    BY <1>2
  <2> QED
    BY <1>1, <1>2, <2>1, <2>2, <2>3
<1>4. curve' = Adjusted
  BY <1>1, <1>2, <1>3, KeptAll
<1>5. \A i \in DOMAIN curve' : curve'[i].price[2] = Denominator
  <2>1. DOMAIN curve = 1..Len(curve) /\ DOMAIN curve' = 1..Len(curve)
    BY <1>1, <1>2, <1>4 DEF BookTyped
  <2> QED
    BY <1>2, <1>4, <2>1 DEF BookInv, OneDenominator
<1> QED
  BY <1>1, <1>2, <1>4, <1>5 DEF BookInv, BookTyped, OneDenominator, BookWithin

(* Nothing taken costs nothing. *)
LEMMA SpentNothing == ASSUME NEW levels PROVE Spent(<<>>, levels) = 0
<1> DEFINE f == [i \in DOMAIN <<>> |-> <<>>[i] * levels[i].price[1]]
<1>1. DOMAIN f = {}
  OBVIOUS
<1> HIDE DEF f
<1>2. SumFunctionOnSet(f, DOMAIN f) = 0
  BY <1>1, SumEmpty
<1> QED
  BY <1>2 DEF f, Spent, SumFunction

(* A new order has spent nothing. *)
LEMMA StepTakeOrder == BookInv /\ TakeOrder => BookInv'
<1> SUFFICES ASSUME BookInv, TakeOrder PROVE BookInv'
  OBVIOUS
<1>1. /\ UNCHANGED <<balance, center, side, curve>>
      /\ Denominator' = Denominator /\ BookTyped /\ book = "ready" /\ book' = "filling"
      /\ taken' = <<>> /\ level' = 1 /\ remaining' = order'
  BY DEF BookInv, TakeOrder, given, Denominator, Width
<1>2. order' \in Nat
  BY BookAssumption DEF TakeOrder
<1>3. Total(curve') <= balance'
  BY <1>1 DEF BookInv, BookWithin
<1>4. Spent(taken', curve') = 0
  BY <1>1, SpentNothing
<1>5. Filled'
  <2>1. Denominator \in Nat
    BY <1>1, DenominatorPositive DEF Positive
  <2>2. Len(curve) \in Nat
    BY <1>1 DEF BookTyped
  <2> QED
    BY <1>1, <1>2, <1>4, <2>1, <2>2 DEF Filled
<1>6. BookTyped'
  BY <1>1, <1>2 DEF BookTyped
<1>7. OneDenominator' /\ BookWithin'
  BY <1>1, <1>3 DEF BookInv, OneDenominator, BookWithin
<1> QED
  BY <1>1, <1>5, <1>6, <1>7 DEF BookInv

(* The end of an order leaves its amounts alone. *)
LEMMA StepDone == BookInv /\ OrderDone => BookInv'
<1> SUFFICES ASSUME BookInv, OrderDone PROVE BookInv'
  OBVIOUS
<1>1. /\ UNCHANGED <<balance, center, side, curve, order, remaining, taken, level>>
      /\ Denominator' = Denominator /\ book = "filling" /\ book' \in {"none", "some"}
  BY DEF BookInv, OrderDone, given, takerVars, Denominator, Width
<1>2. Total(curve') <= balance'
  BY <1>1 DEF BookInv, BookWithin
<1> QED
  BY <1>1, <1>2 DEF BookInv, BookTyped, OneDenominator, BookWithin, Filled

(* A volume that is paid for with its rounded cost lacks less than a unit. *)
LEMMA PaidUp ==
    ASSUME NEW volume \in Nat, NEW price \in Nat, NEW d \in Positive, NEW cost,
           cost = (volume * price) \div d
    PROVE  volume * price <= cost * d + d /\ volume * price \in Int
<1> DEFINE due == volume * price
<1>1. due \in Nat
  BY SMTT(30)
<1> HIDE DEF due
<1>2. cost = due \div d
  BY DEF due
<1>3. cost \in Nat /\ due < d * cost + d
  BY <1>1, <1>2, RoundedDown
<1>4. d * cost = cost * d /\ d * cost \in Int
  BY <1>3 DEF Positive
<1>5. due <= cost * d + d /\ due \in Int
  BY <1>1, <1>3, <1>4 DEF Positive
<1> QED
  BY <1>5 DEF due

(* What is spent and what is left after one level. *)
LEMMA Balanced ==
    ASSUME NEW spent \in Int, NEW more \in Int, NEW left \in Int, NEW cost \in Int,
           NEW limit \in Int, NEW d \in Nat,
           spent + left * d <= limit * d, more <= cost * d + d
    PROVE  (spent + more) + (left - cost) * d <= (limit + 1) * d
<1>1. (left - cost) * d = left * d - cost * d /\ (limit + 1) * d = limit * d + d
  OBVIOUS
<1>2. left * d \in Int /\ cost * d \in Int /\ limit * d \in Int
  OBVIOUS
<1> QED
  BY <1>1, <1>2

(* A level that is taken whole is paid for up to a unit, the last one from *)
(* what is left.                                                           *)
LEMMA StepFill == BookInv /\ FillLevel => BookInv'
<1> SUFFICES ASSUME BookInv, FillLevel PROVE BookInv'
  OBVIOUS
<1> DEFINE m == Len(taken)
           pv == curve[m + 1]
           d == Denominator
           requested == Buys(remaining, pv.price)
           got == IF requested >= pv.volume THEN pv.volume ELSE requested
           cost == IF requested >= pv.volume THEN Costs(pv.volume, pv.price) ELSE remaining
           spent == Spent(taken, curve)
<1>1. /\ UNCHANGED <<balance, center, side, curve, order, book>>
      /\ Denominator' = Denominator /\ BookTyped /\ Filled /\ book = "filling"
      /\ level <= Len(curve) /\ level \in {m + 1, Len(curve) + 1}
  BY DEF BookInv, FillLevel, given, Denominator, Width
<1>2. /\ m \in Nat /\ Len(curve) \in Nat /\ level = m + 1 /\ m + 1 \in 1..Len(curve)
      /\ DOMAIN curve = 1..Len(curve) /\ curve \in Seq(Levels) /\ taken \in Seq(Nat)
      /\ order \in Nat /\ remaining \in Nat
  BY <1>1 DEF Filled, BookTyped
<1>3. /\ pv \in Levels /\ pv.price \in Positive \X Positive /\ pv.volume \in Nat
      /\ pv.price[1] \in Positive /\ pv.price[2] = d /\ d \in Positive /\ d \in Nat
  <2>1. pv \in Levels
    BY <1>2
  <2>2. pv.price[2] = d
    BY <1>2 DEF BookInv, OneDenominator
  <2>3. d \in Positive
    BY <1>1, DenominatorPositive
  <2> HIDE DEF d, pv
  <2> QED
    BY <2>1, <2>2, <2>3 DEF Levels, Positive
<1>4. /\ remaining' = IF requested >= pv.volume
                      THEN remaining - Costs(pv.volume, pv.price) ELSE 0
      /\ taken' = Append(taken, got)
      /\ level' = IF requested >= pv.volume THEN level + 1 ELSE Len(curve) + 1
  BY <1>2 DEF FillLevel
<1>5. /\ requested \in Nat /\ requested * pv.price[1] <= remaining * d
  <2> HIDE DEF d, pv
  <2>1. remaining * d \in Nat
    BY <1>2, <1>3, SMTT(30)
  <2>2. requested = (remaining * d) \div pv.price[1]
    BY <1>3 DEF Buys
  <2>3. requested \in Nat /\ pv.price[1] * requested <= remaining * d
    BY <1>3, <2>1, <2>2, RoundedDown
  <2> HIDE DEF requested
  <2> QED
    BY <1>3, <2>3 DEF Positive
<1>6. /\ got \in Nat /\ cost \in Nat /\ cost <= remaining /\ remaining' = remaining - cost
      /\ got * pv.price[1] <= cost * d + d /\ got * pv.price[1] \in Int
  <2> HIDE DEF d, pv
  <2>1. CASE requested >= pv.volume
    <3>1. /\ got = pv.volume /\ cost = Costs(pv.volume, pv.price)
          /\ remaining' = remaining - cost
      BY <1>4, <2>1
    <3>2. cost <= remaining /\ cost \in Nat
      BY <1>2, <1>3, <2>1, <3>1, LevelAfforded
    <3>3. pv.price[1] \in Nat
      BY <1>3 DEF Positive
    <3>4. cost = (pv.volume * pv.price[1]) \div d
      BY <1>3, <3>1 DEF Costs
    <3> HIDE DEF cost, got, requested
    <3>5. pv.volume * pv.price[1] <= cost * d + d /\ pv.volume * pv.price[1] \in Int
      BY <1>3, <3>3, <3>4, PaidUp
    <3> QED
      BY <1>3, <3>1, <3>2, <3>5, Zenon
  <2>2. CASE ~ (requested >= pv.volume)
    <3>1. got = requested /\ cost = remaining /\ remaining' = remaining - cost
      BY <1>2, <1>4, <2>2
    <3> HIDE DEF cost, got, requested
    <3> QED
      BY <1>2, <1>3, <1>5, <3>1 DEF Positive
  <2> QED
    BY <2>1, <2>2
<1> HIDE DEF requested, got, cost, pv, d, spent
<1>7. spent \in Int /\ Spent(taken', curve) = spent + got * pv.price[1]
  <2>1. Len(taken) + 1 <= Len(curve) /\ got \in Nat
    BY <1>2, <1>6
  <2>2. taken' = Append(taken, got)
    BY <1>4
  <2> QED
    BY <1>2, <2>1, <2>2, SpentMore DEF spent, pv
<1>8. spent + remaining * d <= (order + m) * d
  BY <1>1 DEF Filled, spent, d
<1>9. taken' \in Seq(Nat) /\ Len(taken') = m + 1
  <2>1. taken' = Append(taken, got) /\ got \in Nat
    BY <1>4, <1>6
  <2> QED
    BY <1>2, <2>1
<1>10. (spent + got * pv.price[1]) + (remaining - cost) * d <= ((order + m) + 1) * d
  <2> DEFINE more == got * pv.price[1]
             limit == order + m
  <2>1. more \in Int /\ cost \in Int /\ more <= cost * d + d
    BY <1>6
  <2>2. limit \in Int /\ remaining \in Int /\ spent + remaining * d <= limit * d
    BY <1>2, <1>8
  <2> HIDE DEF more, limit
  <2>3. (spent + more) + (remaining - cost) * d <= (limit + 1) * d
    BY <1>3, <1>7, <2>1, <2>2, Balanced
  <2> QED
    BY <2>3 DEF more, limit
<1>11. Filled'
  <2>1. Spent(taken', curve') \in Int
    <3> DEFINE more == got * pv.price[1]
    <3>1. more \in Int /\ spent \in Int /\ Spent(taken', curve') = spent + more
      BY <1>1, <1>6, <1>7
    <3> HIDE DEF more
    <3> QED
      BY <3>1
  <2>2. Spent(taken', curve') + remaining' * Denominator' <= (order' + Len(taken')) * Denominator'
    <3>1. (order + m) + 1 = order' + Len(taken')
      BY <1>1, <1>2, <1>9
    <3>2. Spent(taken', curve') = spent + got * pv.price[1] /\ remaining' = remaining - cost
          /\ Denominator' = d
      BY <1>1, <1>6, <1>7 DEF d
    <3> HIDE DEF m
    <3> QED
      BY <1>10, <3>1, <3>2, Zenon
  <2> QED
    BY <1>1, <1>2, <1>9, <2>1, <2>2 DEF Filled
<1>12. level' \in {Len(taken') + 1, Len(curve') + 1}
  BY <1>1, <1>2, <1>4, <1>9
<1>13. remaining' \in Nat
  <2>1. cost \in Nat /\ cost <= remaining /\ remaining' = remaining - cost
    BY <1>6
  <2> QED
    BY <1>2, <2>1
<1>14. BookTyped' /\ OneDenominator' /\ BookWithin'
  BY <1>1, <1>13 DEF BookInv, BookTyped, OneDenominator, BookWithin
<1> QED
  BY <1>1, <1>11, <1>12, <1>14 DEF BookInv

(* Every step keeps the inductive invariant. *)
LEMMA BookStep == BookInv /\ [BookNext]_bookVars => BookInv'
<1> SUFFICES ASSUME BookInv, [BookNext]_bookVars PROVE BookInv'
  OBVIOUS
<1>1. CASE UNCHANGED bookVars
  BY <1>1 DEF bookVars, given, BookInv, BookTyped, OneDenominator, BookWithin, Filled, Rough,
              Denominator, Width
<1> QED
  BY <1>1, StepWeights, StepNormalize, StepAdjust, StepTakeOrder, StepFill, StepDone DEF BookNext

(* The assertion of PriceVolume::generate holds for any number of levels,  *)
(* any weights, prices, balance and dust limit: rounding to the nearest is *)
(* off by at most half a unit a level, and one pass of single units over   *)
(* the levels makes up for it.                                             *)
THEOREM BooksWithinBalance == BookSpec => []BookWithinBalance
<1>1. BookInv => BookWithinBalance
  <2> SUFFICES ASSUME BookInv PROVE BookWithinBalance
    OBVIOUS
  <2>1. book = "adjust" => Total(Adjusted) <= balance
    BY AdjustedBook DEF BookInv, BookTyped, BookWithin
  <2> QED
    BY <2>1 DEF BookInv, BookWithin, BookWithinBalance
<1> QED
  BY <1>1, BookStart, BookStep, PTL DEF BookSpec

(* The loop of fulfill_taker_order is paid for what it takes, up to a unit *)
(* for every level, for any book of generate and any order.                *)
THEOREM FillsPaidFor == BookSpec => []FillPaidFor
<1>1. BookInv => FillPaidFor
  <2> SUFFICES ASSUME BookInv, book \in {"filling", "some"}
               PROVE  Spent(taken, curve) <= (order + Len(taken)) * Denominator
    BY DEF FillPaidFor, Spent
  <2>1. /\ Spent(taken, curve) \in Int /\ Len(taken) \in Nat
        /\ Spent(taken, curve) + remaining * Denominator <= (order + Len(taken)) * Denominator
    BY DEF BookInv, Filled
  <2>2. order \in Nat /\ remaining \in Nat /\ Denominator \in Nat
    BY DenominatorPositive DEF BookInv, BookTyped, Positive
  <2>3. remaining * Denominator \in Nat /\ (order + Len(taken)) * Denominator \in Int
    BY <2>1, <2>2, SMTT(30)
  <2> QED
    BY <2>1, <2>3
<1> QED
  BY <1>1, BookStart, BookStep, PTL DEF BookSpec

(* Filling an order never takes more than the order has, for any book of   *)
(* generate and any order: the unsigned amounts of the loop do not wrap.   *)
THEOREM OrdersNeverOverdrawn == BookSpec => []OrderNeverOverdrawn
<1>1. BookInv => OrderNeverOverdrawn
  BY DEF BookInv, BookTyped, OrderNeverOverdrawn
<1> QED
  BY <1>1, BookStart, BookStep, PTL DEF BookSpec

=============================================================================

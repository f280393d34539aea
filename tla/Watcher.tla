------------------------------- MODULE Watcher -------------------------------
(***************************************************************************)
(* The deposit watcher of a multiparty key (src/multiparty/watcher.rs) and *)
(* the event stream it replays (party_stream.rs).  Users swap by sending   *)
(* Bitcoin or Redgold to the party; at every interval the watcher rebuilds *)
(* the open orders from the histories of both chains, and pays what is     *)
(* open: deposits with a Redgold transaction that names them, withdrawals  *)
(* with a Bitcoin transaction to the address of the sender.                *)
(*                                                                         *)
(* Amounts, prices and the order book are abstracted: an order of the      *)
(* replay may or may not find volume.  Time is a small clock; the time of  *)
(* a deposit's block is arbitrary, that of a payout's block is bounded by  *)
(* BlockSkew, and the clocks of the observing seeds differ from the        *)
(* watcher's by at most Skew.                                              *)
(***************************************************************************)
EXTENDS Naturals, Sequences, FiniteSets, Functions

CONSTANTS
    Deposits,      \* Bitcoin transactions of users to the party
    Withdrawals,   \* Redgold swap transactions of users to the party
    BtcAddress,    \* the Bitcoin address of the sender of each withdrawal
    Cutoff,        \* an order younger than this is not paid yet
    Skew,          \* bound on the difference of the clocks
    BlockSkew,     \* how far a block of a payout may be dated back
    MaxTime,       \* bound of the clock
    MaxPayouts     \* bound on the payouts of each currency

ASSUME WatcherAssumption ==
    /\ Cutoff \in Nat /\ Skew \in Nat /\ BlockSkew \in Nat
    /\ MaxTime \in Nat /\ MaxPayouts \in Nat
    /\ Skew <= Cutoff
    /\ IsFiniteSet(Withdrawals)
    /\ DOMAIN BtcAddress = Withdrawals

VARIABLES
    clock,        \* the watcher's time
    config,       \* deposit_watcher_config is stored
    deposit,      \* block time of each deposit, 0 while not confirmed
    withdrawal,   \* "none", "stored", or "observed" by the seeds
    swap_time,    \* mean time of the seeds' observations of a withdrawal, or 0
    rdg,          \* the Redgold payouts
    btc,          \* the Bitcoin payouts
    fold,         \* where the interval is
    orders,       \* what PartyEvents::orders returned
    watcher       \* whether the node runs

wHistory == <<deposit, withdrawal, swap_time>>
watcherVars == <<clock, config, wHistory, rdg, btc, fold, orders, watcher>>

Times == 1..MaxTime
NearNow == {t \in Times : t <= clock + Skew /\ clock <= t + Skew}

(* One more seed has observed a transaction: the mean moves towards the    *)
(* time of its observation.                                                *)
NewMean(mean) ==
    IF mean = 0 THEN NearNow
    ELSE {t \in Times :
            \E n \in NearNow : (mean <= t /\ t <= n) \/ (n <= t /\ t <= mean)}

NoOrders == [deposits |-> {}, withdrawals |-> {}]

WatcherInit ==
    /\ clock = 1
    /\ config = FALSE
    /\ deposit = [d \in Deposits |-> 0]
    /\ withdrawal = [w \in Withdrawals |-> "none"]
    /\ swap_time = [w \in Withdrawals |-> 0]
    /\ rdg = <<>>
    /\ btc = <<>>
    /\ fold = "idle"
    /\ orders = NoOrders
    /\ watcher = "running"

-----------------------------------------------------------------------------
(* The two chains. *)

ClockTicks ==
    /\ clock < MaxTime
    /\ clock' = clock + 1
    /\ UNCHANGED <<config, wHistory, rdg, btc, fold, orders, watcher>>

DepositConfirms(d) ==
    /\ deposit[d] = 0
    /\ \E t \in Times : deposit' = [deposit EXCEPT ![d] = t]
    /\ UNCHANGED <<clock, config, withdrawal, swap_time, rdg, btc, fold, orders, watcher>>

(* A swap is stored when it is accepted, and its observations arrive later. *)
WithdrawalStored(w) ==
    /\ withdrawal[w] = "none"
    /\ withdrawal' = [withdrawal EXCEPT ![w] = "stored"]
    /\ UNCHANGED <<clock, config, deposit, swap_time, rdg, btc, fold, orders, watcher>>

WithdrawalObserved(w) ==
    /\ withdrawal[w] # "none"
    /\ withdrawal' = [withdrawal EXCEPT ![w] = "observed"]
    /\ \E t \in NewMean(swap_time[w]) : swap_time' = [swap_time EXCEPT ![w] = t]
    /\ UNCHANGED <<clock, config, deposit, rdg, btc, fold, orders, watcher>>

(* So it is with the party's own Redgold payouts, some of which are        *)
(* accepted only after the answer to the watcher has timed out.            *)
PayoutStored(i) ==
    /\ rdg[i].status = "sent"
    /\ rdg' = [rdg EXCEPT ![i].status = "stored"]
    /\ UNCHANGED <<clock, config, wHistory, btc, fold, orders, watcher>>

PayoutObserved(i) ==
    /\ rdg[i].status # "sent"
    /\ \E t \in NewMean(rdg[i].time) :
          rdg' = [rdg EXCEPT ![i].status = "observed", ![i].time = t]
    /\ UNCHANGED <<clock, config, wHistory, btc, fold, orders, watcher>>

(* A Bitcoin payout gets into a block, which may be dated back. *)
PayoutConfirms(i) ==
    /\ btc[i].time = 0
    /\ \E t \in Times : /\ t + BlockSkew >= clock
                        /\ btc' = [btc EXCEPT ![i].time = t]
    /\ UNCHANGED <<clock, config, wHistory, rdg, fold, orders, watcher>>

-----------------------------------------------------------------------------
(* AddressEvent::time divides by the number of observations that the seeds *)
(* made of a transaction.                                                  *)
TimeKnown ==
    /\ \A w \in Withdrawals : withdrawal[w] # "stored"
    /\ \A i \in DOMAIN rdg : rdg[i].status # "stored"

(* A deposit leaves unfulfilled_deposits at a receipt that names it and    *)
(* comes later in the replay, which goes by time; at equal times the       *)
(* Redgold events come first.                                              *)
retain_unfulfilled_deposits(d) ==
    \A i \in DOMAIN rdg : ~(rdg[i].status = "observed" /\ rdg[i].time > deposit[d]
                            /\ d \in rdg[i].refs)

(* A withdrawal leaves unfulfilled_withdrawals at a later Bitcoin payout   *)
(* whose other_address, the first of its outputs, is that of the sender.   *)
retain_unfulfilled_withdrawals(w) ==
    \A i \in DOMAIN btc : ~(btc[i].time >= swap_time[w] /\ btc[i].time # 0
                            /\ btc[i].other_address = BtcAddress[w])

(* Mutant: only the first output of an unconfirmed payout counts. *)
first_output_addresses == {btc[i].other_address : i \in {j \in DOMAIN btc : btc[j].time = 0}}

unconfirmed_btc_output_other_addresses ==
    {BtcAddress[w] : w \in UNION {Range(btc[i].pays) : i \in {j \in DOMAIN btc : btc[j].time = 0}}}

(* Mutant: no waiting for the clocks. *)
no_cutoff(t) == t <= clock + Skew

before_cutoff(t) == t + Cutoff < clock

(* historical_initialize and orders: the open orders that found volume and *)
(* are older than the cutoff.                                              *)
OpenOrders(filled) ==
    [deposits |-> {d \in filled \cap Deposits :
                      /\ deposit[d] # 0
                      /\ before_cutoff(deposit[d])
                      /\ retain_unfulfilled_deposits(d)},
     withdrawals |-> {w \in filled \cap Withdrawals :
                      /\ withdrawal[w] = "observed"
                      /\ before_cutoff(swap_time[w])
                      /\ retain_unfulfilled_withdrawals(w)
                      /\ BtcAddress[w] \notin unconfirmed_btc_output_other_addresses}]

(* interval_fold without a key: key generation and a first signature, and  *)
(* the configuration that names the key; a failure is retried next time.   *)
MakeKey ==
    /\ watcher = "running"
    /\ fold = "idle"
    /\ ~config
    /\ config' = TRUE
    /\ UNCHANGED <<clock, wHistory, rdg, btc, fold, orders, watcher>>

(* With a key: process_requests_new up to the orders. *)
Replay ==
    /\ watcher = "running"
    /\ fold = "idle"
    /\ config
    /\ TimeKnown
    /\ \E filled \in SUBSET (Deposits \cup Withdrawals) : orders' = OpenOrders(filled)
    /\ fold' = "rdg"
    /\ UNCHANGED <<clock, config, wHistory, rdg, btc, watcher>>

(* The task ends and the node with it: the division of TimeKnown panics,   *)
(* the wallet or the store fails outside of the two payouts, or the        *)
(* process is killed, between the payouts as well.                         *)
WatcherStops ==
    /\ watcher = "running"
    /\ watcher' = "stopped"
    /\ UNCHANGED <<clock, config, wHistory, rdg, btc, fold, orders>>

(* The Redgold payout of all deposits, if any: signed by the parties and   *)
(* submitted; an error of either is logged and the interval goes on.       *)
send_ask_fulfillment_transaction ==
    /\ watcher = "running"
    /\ fold = "rdg"
    /\ fold' = "btc"
    /\ \/ /\ orders.deposits # {}
          /\ Len(rdg) < MaxPayouts
          /\ \E answer \in {"sent", "stored"} :
                rdg' = Append(rdg, [refs |-> orders.deposits, status |-> answer, time |-> 0])
       \/ UNCHANGED rdg
    /\ UNCHANGED <<clock, config, wHistory, btc, orders, watcher>>

(* The party's unspent outputs do not cover the payout: build's error ends *)
(* the interval, and nothing is paid in Bitcoin either.                    *)
BuildFails ==
    /\ watcher = "running"
    /\ fold = "rdg"
    /\ orders.deposits # {}
    /\ fold' = "idle"
    /\ orders' = NoOrders
    /\ UNCHANGED <<clock, config, wHistory, rdg, btc, watcher>>

(* The Bitcoin payout of all withdrawals; the wallet shuffles the outputs. *)
fulfill_btc_bids ==
    /\ watcher = "running"
    /\ fold = "btc"
    /\ fold' = "idle"
    /\ orders' = NoOrders
    /\ \/ /\ orders.withdrawals # {}
          /\ Len(btc) < MaxPayouts
          /\ \E pays \in {s \in [1..Cardinality(orders.withdrawals) -> orders.withdrawals] :
                            Range(s) = orders.withdrawals} :
                btc' = Append(btc, [pays |-> pays, time |-> 0,
                                    other_address |-> BtcAddress[pays[1]]])
       \/ UNCHANGED btc
    /\ UNCHANGED <<clock, config, wHistory, rdg, watcher>>

(* The process is started again, with the stored configuration. *)
WatcherRestarts ==
    /\ watcher = "stopped"
    /\ watcher' = "running"
    /\ fold' = "idle"
    /\ orders' = NoOrders
    /\ UNCHANGED <<clock, config, wHistory, rdg, btc>>

WatcherNext ==
    \/ ClockTicks
    \/ \E d \in Deposits : DepositConfirms(d)
    \/ \E w \in Withdrawals : WithdrawalStored(w) \/ WithdrawalObserved(w)
    \/ \E i \in DOMAIN rdg : PayoutStored(i) \/ PayoutObserved(i)
    \/ \E i \in DOMAIN btc : PayoutConfirms(i)
    \/ MakeKey
    \/ Replay
    \/ WatcherStops
    \/ send_ask_fulfillment_transaction
    \/ BuildFails
    \/ fulfill_btc_bids
    \/ WatcherRestarts

WatcherSpec == WatcherInit /\ [][WatcherNext]_watcherVars

-----------------------------------------------------------------------------
(* A deposit is not ordered again once a receipt of it is in the history:  *)
(* the replay meets the receipt after the deposit, because the cutoff      *)
(* outlasts the difference of the clocks.                                  *)
ReceiptEndsDeposit ==
    [][fold' = "rdg" /\ fold = "idle" =>
         \A d \in orders'.deposits : \A i \in DOMAIN rdg :
            rdg[i].status = "observed" => d \notin rdg[i].refs]_watcherVars

(* While a payout to an address is not confirmed, nothing else is paid to  *)
(* the address, whatever outputs that payout has besides.                  *)
UnconfirmedNotRepaid ==
    \A i \in DOMAIN btc : \A j \in DOMAIN btc :
        i < j /\ btc[i].time = 0 =>
            \A w \in Range(btc[i].pays) : \A v \in Range(btc[j].pays) :
                BtcAddress[w] # BtcAddress[v]

(* No withdrawal is paid by two Bitcoin transactions. *)
WithdrawalPaidOnce ==
    \A i \in DOMAIN btc : \A j \in DOMAIN btc :
        i # j => Range(btc[i].pays) \cap Range(btc[j].pays) = {}

=============================================================================

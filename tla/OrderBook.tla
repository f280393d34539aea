------------------------------ MODULE OrderBook ------------------------------
(***************************************************************************)
(* The order book of the deposit watcher (src/multiparty/watcher.rs): how  *)
(* PriceVolume::generate spreads a balance over price levels, and how      *)
(* BidAsk::fulfill_taker_order fills one order from them.  One step is one *)
(* pass of generate over the levels, or one level of the order's loop.     *)
(*                                                                         *)
(* The geometric weights of generate are arbitrary numbers here, and a     *)
(* price is a fraction; the code's floating point divisions are exact and  *)
(* round as its casts do.                                                  *)
(***************************************************************************)
EXTENDS Integers, Sequences, FiniteSets, Functions

CONSTANTS
    Divisions,    \* price levels
    MaxWeight,    \* bound of the weights
    MaxBalance,   \* bound of the balance
    MaxOrder,     \* bound of an order
    CenterPrice,  \* center prices, as fractions <<numerator, denominator>>
    DustLimit     \* DUST_LIMIT

Positive == Nat \ {0}

ASSUME BookAssumption ==
    /\ Divisions \in Positive
    /\ MaxWeight \in Nat /\ MaxBalance \in Nat /\ MaxOrder \in Nat
    /\ CenterPrice \subseteq Positive \X Positive
    /\ DustLimit \in Nat /\ DustLimit > 1

VARIABLES
    balance,     \* available_volume
    center,      \* center_price
    side,        \* whether the levels are asks or bids
    curve,       \* price_volumes: [price: fraction, volume]
    book,        \* where the computation is
    order,       \* order_amount
    remaining,   \* remaining_order_amount
    fulfilled,   \* fulfilled_amount
    taken,       \* what each level gave
    level        \* the level the order's loop is at

given == <<balance, center, side>>
bookVars == <<given, curve, book, order, remaining, fulfilled, taken, level>>
takerVars == <<order, remaining, fulfilled, taken, level>>

Total(levels) == SumFunction([i \in DOMAIN levels |-> levels[i].volume])

(* price_width is a multiple of the center price. *)
Width == IF side = "asks" THEN <<3, 1>> ELSE <<9, 10>>

(* center + (i / Divisions) * Width * center, all over one denominator. *)
Denominator == center[2] * Divisions * Width[2]
Price(i) == <<center[1] * (Divisions * Width[2] + i * Width[1]), Denominator>>

BookInit ==
    /\ balance \in 0..MaxBalance
    /\ center \in CenterPrice
    /\ side \in {"asks", "bids"}
    /\ curve = <<>>
    /\ book = "weights"
    /\ order = 0
    /\ remaining = 0
    /\ fulfilled = 0
    /\ taken = <<>>
    /\ level = 1

(* A balance below the dust limit makes an empty book. *)
Weights ==
    /\ book = "weights"
    /\ \/ /\ balance < DustLimit
          /\ book' = "ready"
          /\ UNCHANGED curve
       \/ /\ balance >= DustLimit
          /\ \E weight \in [1..Divisions -> 0..MaxWeight] :
                curve' = [i \in 1..Divisions |-> [price |-> Price(i), volume |-> weight[i]]]
          /\ book' = "normalize"
    /\ UNCHANGED <<given, takerVars>>

(* round(v / total * balance); a total of zero makes NaN, which is cast to 0. *)
Rounded(v) ==
    IF Total(curve) = 0 THEN 0
    ELSE (2 * v * balance + Total(curve)) \div (2 * Total(curve))

(* Mutant: one more level of the dust limit than the balance has. *)
OneMoreLevel == SubSeq(curve, 1, IF balance \div DustLimit < Divisions
                                 THEN (balance \div DustLimit) + 1 ELSE Divisions)

DustLevels == SubSeq(curve, 1, IF balance \div DustLimit < Divisions
                               THEN balance \div DustLimit ELSE Divisions)

(* normalize_volumes: when any level would be dust, as many levels as the  *)
(* balance has dust limits.                                                *)
normalize_volumes ==
    /\ book = "normalize"
    /\ curve' = IF \E i \in DOMAIN curve : Rounded(curve[i].volume) < DustLimit
                THEN [i \in DOMAIN DustLevels |-> [DustLevels[i] EXCEPT !.volume = DustLimit]]
                ELSE [i \in DOMAIN curve |-> [curve[i] EXCEPT !.volume = Rounded(@)]]
    /\ book' = "adjust"
    /\ UNCHANGED <<given, takerVars>>

(* The rounding error is taken from, or given to, the first levels, one    *)
(* unit each; levels without volume or above the balance are dropped.      *)
Adjusted ==
    LET error == balance - Total(curve)
        eligible(i) == curve[i].volume > IF error > 0 THEN 0 ELSE 1
        before(i) == Cardinality({k \in 1..(i-1) : eligible(k)})
        size == IF error > 0 THEN error ELSE -error
        unit == IF error > 0 THEN 1 ELSE -1
    IN  [i \in DOMAIN curve |->
           IF eligible(i) /\ before(i) < size THEN [curve[i] EXCEPT !.volume = @ + unit]
           ELSE curve[i]]

Kept(levels) ==
    LET kept[i \in 0..Len(levels)] ==
          IF i = 0 THEN <<>>
          ELSE IF levels[i].volume > 0 /\ levels[i].volume <= balance
               THEN Append(kept[i - 1], levels[i]) ELSE kept[i - 1]
    IN  kept[Len(levels)]

Adjust ==
    /\ book = "adjust"
    /\ curve' = Kept(Adjusted)
    /\ book' = "ready"
    /\ UNCHANGED <<given, takerVars>>

-----------------------------------------------------------------------------
TakeOrder ==
    /\ book = "ready"
    /\ order' \in 0..MaxOrder
    /\ remaining' = order'
    /\ fulfilled' = 0
    /\ taken' = <<>>
    /\ level' = 1
    /\ book' = "filling"
    /\ UNCHANGED <<given, curve>>

(* What amount buys at a level's price, and what volume costs there. *)
Buys(amount, price) == (amount * price[2]) \div price[1]
Costs(volume, price) == (volume * price[1]) \div price[2]

(* Mutant: the cost of a level is rounded up. *)
FillRoundsUp ==
    /\ book = "filling"
    /\ level <= Len(curve)
    /\ LET pv == curve[level]
           requested == Buys(remaining, pv.price)
       IN  /\ remaining' = IF requested >= pv.volume
                           THEN remaining - Costs(pv.volume, pv.price) - 1 ELSE 0
           /\ taken' = Append(taken, IF requested >= pv.volume THEN pv.volume ELSE requested)
           /\ fulfilled' = fulfilled + taken'[level]
           /\ level' = IF requested >= pv.volume THEN level + 1 ELSE Len(curve) + 1
    /\ UNCHANGED <<given, curve, book, order>>

(* Mutant: a level that is taken whole is not paid for. *)
FillForFree ==
    /\ book = "filling"
    /\ level <= Len(curve)
    /\ LET pv == curve[level]
           requested == Buys(remaining, pv.price)
       IN  /\ remaining' = IF requested >= pv.volume THEN remaining ELSE 0
           /\ taken' = Append(taken, IF requested >= pv.volume THEN pv.volume ELSE requested)
           /\ fulfilled' = fulfilled + taken'[level]
           /\ level' = IF requested >= pv.volume THEN level + 1 ELSE Len(curve) + 1
    /\ UNCHANGED <<given, curve, book, order>>

(* One level: taken whole and on to the next, or in part and done. *)
FillLevel ==
    /\ book = "filling"
    /\ level <= Len(curve)
    /\ LET pv == curve[level]
           requested == Buys(remaining, pv.price)
       IN  /\ remaining' = IF requested >= pv.volume
                           THEN remaining - Costs(pv.volume, pv.price) ELSE 0
           /\ taken' = Append(taken, IF requested >= pv.volume THEN pv.volume ELSE requested)
           /\ fulfilled' = fulfilled + taken'[level]
           /\ level' = IF requested >= pv.volume THEN level + 1 ELSE Len(curve) + 1
    /\ UNCHANGED <<given, curve, book, order>>

(* An order that bought less than the dust limit is not fulfilled. *)
OrderDone ==
    /\ book = "filling"
    /\ level > Len(curve)
    /\ book' = IF fulfilled < DustLimit THEN "none" ELSE "some"
    /\ UNCHANGED <<given, curve, takerVars>>

BookNext == Weights \/ normalize_volumes \/ Adjust \/ TakeOrder \/ FillLevel \/ OrderDone

BookSpec == BookInit /\ [][BookNext]_bookVars

-----------------------------------------------------------------------------
(* The book never offers more than the party has: the assertion at the end *)
(* of PriceVolume::generate holds for every balance and all weights,       *)
(* whatever rounding and the dust limit do to the levels.                  *)
BookWithinBalance ==
    CASE book \in {"weights", "normalize"} -> TRUE
      [] book = "adjust" -> Total(Adjusted) <= balance
      [] OTHER -> Total(curve) <= balance

(* The unsigned amounts of the order's loop do not wrap: the cost of the   *)
(* levels taken so far never exceeds what is left of the order.            *)
OrderNeverOverdrawn == remaining >= 0

(* The taker pays for what is taken at the price of each level, up to less *)
(* than one unit for every level taken whole.                              *)
FillPaidFor ==
    LET price(i) == curve[i].price
        cost == SumFunction([i \in DOMAIN taken |-> taken[i] * price(i)[1]])
    IN  book \in {"filling", "some"} => cost <= (order + Len(taken)) * Denominator

=============================================================================

------------------------------- MODULE Series -------------------------------
(***************************************************************************)
(* A pool's price series and its drawdown: load orders the pool's trades   *)
(* (run.py), price_series_for drops the dust, max_drawdown (series.py)     *)
(* walks what is left.  The file has the trades newest first, as           *)
(* PoolTrades fetched them; several may share a ledger, and so a close     *)
(* time.  Prices and amounts are naturals; a price below the precision of  *)
(* the division in toTrade is 0.                                           *)
(***************************************************************************)
EXTENDS Integers, Sequences, FiniteSets

CONSTANTS CloseTimes, Prices,
          Amounts,         \* the <<base, counter>> amounts of a trade
          MaxTrades,       \* bounds the state space
          DUST_THRESHOLD

ASSUME PricesAreNat == Prices \subseteq Nat
ASSUME TimesAreNat == CloseTimes \subseteq Nat
ASSUME AmountsAreNat == Amounts \subseteq Nat \X Nat
ASSUME SeriesBoundsAreNat == MaxTrades \in Nat /\ DUST_THRESHOLD \in Nat

VARIABLES file,    \* trades.jsonl of one pool
          series,  \* the trades whose prices max_drawdown is given
          i,       \* values gone through, 0 before the loop
          peak,
          worst,   \* <<trough, peak>> of the worst decline, <<1, 1>> for none
          pc       \* "load", "loop" or "done"

vars == <<file, series, i, peak, worst, pc>>

Trade == [close_time : CloseTimes, price : Prices, amounts : Amounts]
NoDecline == <<1, 1>>

\* What PoolTrades leaves on file: newest first.
Files ==
  {f \in UNION {[1..n -> Trade] : n \in 0..MaxTrades} :
     \A j, k \in DOMAIN f : j < k => f[k].close_time <= f[j].close_time}

\* A trade without recorded amounts is not taken for dust.
is_dust(t) ==
  /\ t.amounts # <<0, 0>>
  /\ t.amounts[1] <= DUST_THRESHOLD \/ t.amounts[2] <= DUST_THRESHOLD

\* Mutant of Before: the order of the file.
BeforeInFile(f, j, k) == j < k

\* Sorted by close time; the sort is stable.
Before(f, j, k) ==
  \/ f[j].close_time < f[k].close_time
  \/ f[j].close_time = f[k].close_time /\ j < k

\* The places of a file with a trade large enough to have a price.
informative(f) == {k \in DOMAIN f : ~is_dust(f[k])}

\* Each of some places of a file once, oldest first: there is one such order.
Sorted(f, places) ==
  {order \in [1..Cardinality(places) -> places] :
     /\ \A j, k \in DOMAIN order : j < k => Before(f, order[j], order[k])
     /\ \A t \in places : \E k \in DOMAIN order : order[k] = t}

\* The trades left without the dust, oldest first, as a set of one series.
price_series_for(f) ==
  {[k \in DOMAIN order |-> f[order[k]]] : order \in Sorted(f, informative(f))}

TypeOK ==
  /\ series \in Seq(Trade)
  /\ i \in 0..Len(series)
  /\ peak \in Prices \cup {0}
  /\ worst \in Nat \X (Nat \ {0})
  /\ pc \in {"load", "loop", "done"}

Init ==
  /\ file \in Files
  /\ series = <<>>
  /\ i = 0
  /\ peak = 0
  /\ worst = NoDecline
  /\ pc = "load"

-----------------------------------------------------------------------------
Load ==
  /\ pc = "load"
  /\ series' \in price_series_for(file)
  /\ pc' = "loop"
  /\ UNCHANGED <<file, i, peak, worst>>

\* Fewer than two observations have no drawdown.
TooFew ==
  /\ pc = "loop"
  /\ Len(series) < 2
  /\ pc' = "done"
  /\ UNCHANGED <<file, series, i, peak, worst>>

First ==
  /\ pc = "loop"
  /\ Len(series) >= 2
  /\ i = 0
  /\ i' = 1
  /\ peak' = series[1].price
  /\ UNCHANGED <<file, series, worst, pc>>

\* Whether value is further below the peak than the worst decline so far.
Deeper(value) == value * worst[2] < worst[1] * peak

Looping == pc = "loop" /\ i \in 1..(Len(series) - 1)

\* Mutant of Value: the first value stays the peak.
ValueKeepsPeak ==
  /\ Looping
  /\ i' = i + 1
  /\ LET value == series[i + 1].price IN
       worst' = IF value < peak /\ Deeper(value) THEN <<value, peak>> ELSE worst
  /\ UNCHANGED <<file, series, peak, pc>>

\* Mutant of Value: a value equal to the first is a decline, whatever the peak.
ValueDividesByZero ==
  /\ Looping
  /\ i' = i + 1
  /\ LET value == series[i + 1].price IN
       \/ value > peak /\ peak' = value /\ UNCHANGED worst
       \/ /\ value <= peak
          /\ worst' = IF Deeper(value) \/ value = 0 THEN <<value, peak>> ELSE worst
          /\ UNCHANGED peak
  /\ UNCHANGED <<file, series, pc>>

\* One value of the loop: a new peak, a value without a ratio to the peak, or a
\* decline that may be the worst.
Value ==
  /\ Looping
  /\ i' = i + 1
  /\ LET value == series[i + 1].price IN
       \/ value > peak /\ peak' = value /\ UNCHANGED worst
       \/ value <= peak /\ peak = 0 /\ UNCHANGED <<peak, worst>>
       \/ /\ value <= peak /\ peak # 0
          /\ worst' = IF Deeper(value) THEN <<value, peak>> ELSE worst
          /\ UNCHANGED peak
  /\ UNCHANGED <<file, series, pc>>

Done ==
  /\ pc = "loop"
  /\ i > 0 /\ i = Len(series)
  /\ pc' = "done"
  /\ UNCHANGED <<file, series, i, peak, worst>>

Returned == pc = "done" /\ UNCHANGED vars

Next == Load \/ TooFew \/ First \/ Value \/ Done \/ Returned

Spec == Init /\ [][Next]_vars

-----------------------------------------------------------------------------
(* What the drawdown of a pool says of the trades on file.                   *)

\* The decline reported happened: the pool traded at the peak, and in the same
\* ledger or a later one at the trough, in trades large enough to have a price
\* (run.py:128-142, series.py:53-56).
DeclineHappened ==
  pc = "done" /\ worst # NoDecline =>
    \E top, bottom \in informative(file) :
      /\ file[top].close_time <= file[bottom].close_time
      /\ worst = <<file[bottom].price, file[top].price>>
      /\ file[bottom].price < file[top].price

\* And none was deeper: no two informative trades of different ledgers, the
\* later one below the earlier one by a larger fraction (series.py:47-52).
NoDeeperDecline ==
  pc = "done" =>
    \A top, bottom \in informative(file) :
      /\ file[top].close_time < file[bottom].close_time
      /\ file[top].price # 0
      => worst[1] * file[top].price <= file[bottom].price * worst[2]

-----------------------------------------------------------------------------
\* "Feeding that to a drawdown calculation would measure the series running
\* backwards, which reports the recovery as the decline" (run.py:128-134): the
\* trade at the trough is newer, and so on file before the one at the peak.
DeclineRanForward ==
  pc = "done" /\ worst # NoDecline =>
    \E top, bottom \in informative(file) :
      /\ bottom < top
      /\ worst = <<file[bottom].price, file[top].price>>
-----------------------------------------------------------------------------
(* The inductive invariants.                                                 *)

\* The file stays, and what the loop is given is its informative trades.
SeriesInv ==
  /\ file \in Files
  /\ pc = "load" => i = 0
  /\ pc # "load" => series \in price_series_for(file)

\* Up to i, the peak is the highest value, and the worst decline is one between
\* two values, at least as deep as any other.
LoopInv ==
  /\ i > 0 =>
       /\ pc # "load"
       /\ \E j \in 1..i : series[j].price = peak
       /\ \A j \in 1..i : series[j].price <= peak
  /\ worst # NoDecline =>
       \E j, k \in 1..i : /\ j < k
                         /\ worst = <<series[k].price, series[j].price>>
                         /\ series[k].price < series[j].price
  /\ worst[1] <= worst[2]
  /\ \A j, k \in 1..i :
       j < k => worst[1] * series[j].price <= series[k].price * worst[2]
  /\ pc = "done" => i = Len(series) \/ Len(series) < 2
=============================================================================

---------------------------- MODULE SeriesProofs ----------------------------
(***************************************************************************)
(* Theorems about a pool's drawdown, whatever the trades, their prices and *)
(* their times: the loop over the running peak finds the worst decline.    *)
(***************************************************************************)
EXTENDS Series, FiniteSetTheorems, TLAPS

\* A series has trades of the file, and each of them is an informative one.
LEMMA SeriesHasTrades ==
  ASSUME file \in Files,
         NEW s \in price_series_for(file)
  PROVE  /\ s \in Seq(Trade)
         /\ \E order \in Sorted(file, informative(file)) :
              /\ s = [k \in DOMAIN order |-> file[order[k]]]
              /\ DOMAIN order = 1..Len(s)
<1>1. PICK order \in Sorted(file, informative(file)) :
        s = [k \in DOMAIN order |-> file[order[k]]]
  BY DEF price_series_for
<1> DEFINE size == Cardinality(informative(file))
<1>2. order \in [1..size -> informative(file)]
  BY DEF Sorted
<1>3. PICK n \in 0..MaxTrades : file \in [1..n -> Trade]
  BY DEF Files
<1>4. informative(file) \subseteq 1..n
  BY <1>3 DEF informative
<1>5. IsFiniteSet(informative(file)) /\ size \in Nat
  <2>1. 1 \in Int /\ n \in Int
    BY SeriesBoundsAreNat
  <2>2. IsFiniteSet(1..n)
    BY <2>1, FS_Interval
  <2> QED
    BY <1>4, <2>2, FS_Subset, FS_CardinalityType
<1>6. s \in [1..size -> Trade]
  BY <1>1, <1>2, <1>3, <1>4
<1>7. s \in Seq(Trade) /\ Len(s) = size
  BY <1>5, <1>6
<1> QED
  BY <1>1, <1>2, <1>7

\* The times of a file's trades can be compared.
LEMMA TradeOnFile ==
  ASSUME file \in Files, NEW k \in informative(file)
  PROVE  file[k] \in Trade /\ file[k].close_time \in Nat
<1>1. PICK n \in 0..MaxTrades : file \in [1..n -> Trade]
  BY DEF Files
<1>2. file[k] \in Trade
  BY <1>1 DEF informative
<1> QED
  BY <1>2, TimesAreNat DEF Trade

-----------------------------------------------------------------------------
(* Types.                                                                  *)

\* Whether the drawdown is typed: no division by a peak of 0 in particular.
LEMMA TypeStays == TypeOK /\ SeriesInv /\ [Next]_vars => TypeOK' /\ SeriesInv'
<1> SUFFICES ASSUME TypeOK, SeriesInv, [Next]_vars PROVE TypeOK' /\ SeriesInv'
  OBVIOUS
<1> USE PricesAreNat DEF TypeOK, SeriesInv
<1>1. CASE Load
  <2>1. series' \in price_series_for(file) /\ UNCHANGED <<file, i, peak, worst>> /\ pc' = "loop"
    BY <1>1 DEF Load
  <2>2. series' \in Seq(Trade)
    BY <2>1, SeriesHasTrades
  <2>3. i = 0
    BY <1>1 DEF Load
  <2> QED
    BY <2>1, <2>2, <2>3
<1>2. CASE TooFew
  BY <1>2 DEF TooFew
<1>3. CASE First
  <2>1. series[1] \in Trade
    BY <1>3 DEF First
  <2> QED
    BY <1>3, <2>1 DEF First, Trade
<1>4. CASE Value
  <2>1. series[i + 1] \in Trade /\ i + 1 \in 0..Len(series)
    BY <1>4 DEF Value, Looping
  <2>2. series[i + 1].price \in Prices
    BY <2>1 DEF Trade
  <2>3. /\ peak' \in Prices \cup {0}
        /\ worst' \in Nat \X (Nat \ {0})
    <3> DEFINE value == series[i + 1].price
    <3>1. value \in Prices /\ value \in Nat /\ peak \in Nat
      <4>1. value \in Prices
        BY ONLY <2>2
      <4>2. peak \in Prices \cup {0}
        OBVIOUS
      <4>3. \A p \in Prices \cup {0} : p \in Nat
        BY PricesAreNat
      <4> HIDE DEF value
      <4> QED
        BY <4>1, <4>2, <4>3
    <3>2. worst' \in {worst, <<value, peak>>} /\ (worst' # worst => peak # 0)
      BY <1>4 DEF Value
    <3>3. peak' \in {peak, value}
      BY <1>4 DEF Value
    <3> QED
      BY <2>2, <3>1, <3>2, <3>3
  <2> QED
    BY <1>4, <2>1, <2>3 DEF Value, Looping
<1>5. CASE Done
  BY <1>5 DEF Done
<1>6. CASE UNCHANGED vars
  BY <1>6 DEF vars
<1> QED
  BY <1>1, <1>2, <1>3, <1>4, <1>5, <1>6 DEF Next, Returned

\* Types, and the series that the loop is given (run.py:209-229, 144-150).
THEOREM TypeCorrect == Spec => []TypeOK /\ []SeriesInv
<1>1. Init => TypeOK /\ SeriesInv
  BY DEF Init, TypeOK, SeriesInv, NoDecline
<1> QED
  BY <1>1, TypeStays, PTL DEF Spec

-----------------------------------------------------------------------------
(* Fractions are compared by the products of their parts.                  *)

LEMMA ProductsAreMonotone ==
  ASSUME NEW a \in Nat, NEW b \in Nat, NEW c \in Nat, NEW d \in Nat, a <= b, c <= d
  PROVE  a * c <= b * d
  OBVIOUS

\* A value below a deeper fraction of the peak is deeper than whatever the
\* fraction before was deep enough for.
LEMMA DeeperIsTransitive ==
  ASSUME NEW trough \in Nat, NEW top \in Nat \ {0},  \* the worst decline so far
         NEW value \in Nat, NEW high \in Nat,        \* the deeper one
         NEW low \in Nat, NEW before \in Nat,        \* some other decline
         value * top < trough * high,
         trough * before <= low * top
  PROVE  value * before <= low * high
<1>1. (value * top) * before <= (trough * high) * before
  BY ProductsAreMonotone
<1>2. (trough * before) * high <= (low * top) * high
  BY ProductsAreMonotone
<1>3. (value * before) * top <= (low * high) * top
  BY <1>1, <1>2
<1> QED
  BY <1>3

-----------------------------------------------------------------------------
(* The loop.                                                               *)

\* The first value is the peak, and no decline.
LEMMA LoopBegins ==
  ASSUME TypeOK, LoopInv, First
  PROVE  LoopInv'
<1>1. /\ i = 0 /\ i' = 1 /\ pc = "loop"
      /\ peak' = series[1].price /\ Len(series) >= 2
      /\ UNCHANGED <<series, worst, pc>>
  BY DEF First
<1>2. worst = NoDecline
  BY <1>1 DEF LoopInv
<1>3. series[1] \in Trade
  BY <1>1 DEF TypeOK
<1>4. peak' \in Nat
  BY <1>1, <1>3, PricesAreNat DEF Trade
<1> QED
  BY <1>1, <1>2, <1>4 DEF LoopInv, NoDecline

\* A value of the loop is either a new peak, and then no decline to it is
\* possible, or it is compared with the deepest decline so far.
LEMMA LoopGoesOn ==
  ASSUME TypeOK, LoopInv, Value
  PROVE  LoopInv'
<1> DEFINE price(j) == series[j].price
           value == price(i + 1)
<1>1. /\ i \in 1..(Len(series) - 1) /\ i \in Nat /\ i' = i + 1 /\ pc = "loop"
      /\ UNCHANGED <<series, pc>>
  BY DEF Value, Looping, TypeOK
<1>2. \A j \in 1..(i + 1) : price(j) \in Nat
  <2> SUFFICES ASSUME NEW j \in 1..(i + 1) PROVE price(j) \in Nat
    OBVIOUS
  <2>1. series[j] \in Trade
    BY <1>1 DEF TypeOK
  <2> QED
    BY <2>1, PricesAreNat DEF Trade
<1>3. /\ peak \in Nat
      /\ worst[1] \in Nat /\ worst[2] \in Nat \ {0}
      /\ worst = <<worst[1], worst[2]>>
  BY PricesAreNat DEF TypeOK
<1>4. /\ \E j \in 1..i : price(j) = peak
      /\ \A j \in 1..i : price(j) <= peak
  BY <1>1 DEF LoopInv
<1>5. /\ worst # NoDecline =>
            \E j, k \in 1..i : j < k /\ worst = <<price(k), price(j)>> /\ price(k) < price(j)
      /\ worst[1] <= worst[2]
      /\ \A j, k \in 1..i : j < k => worst[1] * price(j) <= price(k) * worst[2]
  BY DEF LoopInv
<1>6. value \in Nat
  BY <1>1, <1>2
<1>7. \/ value > peak /\ peak' = value /\ worst' = worst
      \/ value <= peak /\ peak' = peak /\ worst' = worst /\ (peak # 0 => ~Deeper(value))
      \/ value <= peak /\ peak' = peak /\ peak # 0 /\ Deeper(value) /\ worst' = <<value, peak>>
  BY DEF Value
<1> HIDE DEF price, value
<1>8. peak' \in Nat /\ (\E j \in 1..(i + 1) : price(j) = peak')
                    /\ (\A j \in 1..(i + 1) : price(j) <= peak')
  <2>1. \A j \in 1..(i + 1) : j \in 1..i \/ j = i + 1
    BY <1>1
  <2>2. 1..i \subseteq 1..(i + 1) /\ i + 1 \in 1..(i + 1)
    BY <1>1
  <2>3. price(i + 1) = value
    BY DEF value
  <2>4. CASE peak' = value /\ value > peak
    BY <1>2, <1>3, <1>4, <1>6, <2>1, <2>2, <2>3, <2>4
  <2>5. CASE peak' = peak /\ value <= peak
    BY <1>2, <1>3, <1>4, <1>6, <2>1, <2>2, <2>3, <2>5
  <2> QED
    BY <1>7, <2>4, <2>5
<1>9. /\ worst' # NoDecline =>
           \E j, k \in 1..(i + 1) :
             j < k /\ worst' = <<price(k), price(j)>> /\ price(k) < price(j)
      /\ worst'[1] <= worst'[2]
  <2>1. CASE worst' = worst
    <3>1. 1..i \subseteq 1..(i + 1)
      BY <1>1
    <3> QED
      BY <1>5, <2>1, <3>1
  <2>2. CASE Deeper(value) /\ worst' = <<value, peak>> /\ value <= peak
    <3>1. value < peak
      <4> SUFFICES ASSUME value = peak PROVE FALSE
        BY <1>3, <1>6, <2>2
      <4>1. worst[1] * peak <= worst[2] * peak
        BY <1>3, <1>5, ProductsAreMonotone
      <4> QED
        BY <1>3, <1>6, <2>2, <4>1 DEF Deeper
    <3>2. PICK j \in 1..i : price(j) = peak
      BY <1>4
    <3>3. j \in 1..(i + 1) /\ i + 1 \in 1..(i + 1) /\ j < i + 1 /\ price(i + 1) = value
      BY <1>1 DEF value
    <3> QED
      BY <2>2, <3>1, <3>2, <3>3
  <2> QED
    BY <1>7, <2>1, <2>2
<1>10. ASSUME NEW j \in 1..(i + 1), NEW k \in 1..(i + 1), j < k
       PROVE  worst'[1] * price(j) <= price(k) * worst'[2]
  <2>1. j \in 1..i /\ (k \in 1..i \/ k = i + 1)
    BY <1>1, <1>10
  <2>2. price(j) \in Nat /\ price(k) \in Nat /\ price(j) <= peak
    BY <1>2, <1>4, <2>1
  <2>3. k = i + 1 => price(k) = value
    BY DEF value
  <2>4. CASE k \in 1..i /\ worst' = worst
    BY <1>5, <1>10, <2>1, <2>4
  <2>5. CASE k \in 1..i /\ Deeper(value) /\ worst' = <<value, peak>>
    <3>1. worst[1] * price(j) <= price(k) * worst[2]
      BY <1>5, <1>10, <2>1, <2>5
    <3>2. value * worst[2] < worst[1] * peak
      BY <2>5 DEF Deeper
    <3>3. value * price(j) <= price(k) * peak
      BY <1>3, <1>6, <2>2, <3>1, <3>2, DeeperIsTransitive
    <3> QED
      BY <2>5, <3>3
  <2>6. CASE k = i + 1 /\ value > peak /\ worst' = worst
    <3>1. price(j) <= value
      BY <1>3, <1>6, <2>2, <2>6
    <3>2. worst[1] * price(j) <= worst[2] * value
      BY <1>3, <1>5, <1>6, <2>2, <3>1, ProductsAreMonotone
    <3> QED
      BY <1>3, <1>6, <2>3, <2>6, <3>2
  <2>7. CASE k = i + 1 /\ value <= peak /\ worst' = worst /\ (peak # 0 => ~Deeper(value))
    <3>1. CASE peak = 0
      BY <1>3, <1>6, <2>2, <2>3, <2>7, <3>1
    <3>2. CASE peak # 0
      <4>1. worst[1] * peak <= value * worst[2]
        BY <1>3, <1>6, <2>7, <3>2 DEF Deeper
      <4>2. worst[1] * price(j) <= worst[1] * peak
        BY <1>3, <2>2, ProductsAreMonotone
      <4> QED
        BY <1>3, <1>6, <2>2, <2>3, <2>7, <4>1, <4>2
    <3> QED
      BY <3>1, <3>2
  <2>8. CASE k = i + 1 /\ worst' = <<value, peak>>
    <3>1. value * price(j) <= value * peak
      BY <1>3, <1>6, <2>2, ProductsAreMonotone
    <3> QED
      BY <2>3, <2>8, <3>1
  <2> QED
    BY <1>7, <2>1, <2>4, <2>5, <2>6, <2>7, <2>8
<1> QED
  BY <1>1, <1>8, <1>9, <1>10 DEF LoopInv, price

\* The peak is the highest value so far, and the worst decline the deepest.
LEMMA LoopStays == TypeOK /\ SeriesInv /\ LoopInv /\ [Next]_vars => LoopInv'
<1> SUFFICES ASSUME TypeOK, SeriesInv, LoopInv, [Next]_vars PROVE LoopInv'
  OBVIOUS
<1>1. CASE Load
  <2>1. i = 0 /\ worst = NoDecline
    BY <1>1 DEF Load, SeriesInv, LoopInv
  <2> QED
    BY <1>1, <2>1 DEF Load, LoopInv, NoDecline
<1>2. CASE TooFew
  BY <1>2 DEF TooFew, LoopInv
<1>3. CASE First
  BY <1>3, LoopBegins
<1>4. CASE Value
  BY <1>4, LoopGoesOn
<1>5. CASE Done
  BY <1>5 DEF Done, LoopInv
<1>6. CASE UNCHANGED vars
  BY <1>6 DEF vars, LoopInv
<1> QED
  BY <1>1, <1>2, <1>3, <1>4, <1>5, <1>6 DEF Next, Returned

THEOREM LoopIsInductive == Spec => []LoopInv
<1>1. Init => LoopInv
  BY DEF Init, LoopInv, NoDecline
<1> QED
  BY <1>1, TypeCorrect, LoopStays, PTL DEF Spec

-----------------------------------------------------------------------------
(* What the drawdown says of the trades on file.                           *)

\* The decline reported is one between two informative trades, the later of
\* which is not older (run.py:128-142, series.py:53-56).
THEOREM DeclinesHappened == Spec => []DeclineHappened
<1>1. TypeOK /\ SeriesInv /\ LoopInv => DeclineHappened
  <2> SUFFICES ASSUME TypeOK, SeriesInv, LoopInv, pc = "done", worst # NoDecline
               PROVE  \E top, bottom \in informative(file) :
                        /\ file[top].close_time <= file[bottom].close_time
                        /\ worst = <<file[bottom].price, file[top].price>>
                        /\ file[bottom].price < file[top].price
    BY DEF DeclineHappened
  <2>1. PICK j \in 1..i, k \in 1..i : /\ j < k
                                      /\ worst = <<series[k].price, series[j].price>>
                                      /\ series[k].price < series[j].price
    BY DEF LoopInv
  <2>2. PICK order \in Sorted(file, informative(file)) :
          series = [n \in DOMAIN order |-> file[order[n]]] /\ DOMAIN order = 1..Len(series)
    BY SeriesHasTrades DEF SeriesInv
  <2>3. j \in DOMAIN order /\ k \in DOMAIN order
    BY <2>2 DEF TypeOK
  <2>4. order[j] \in informative(file) /\ order[k] \in informative(file)
    BY <2>3 DEF Sorted
  <2>5. Before(file, order[j], order[k])
    BY <2>1, <2>2, <2>3 DEF Sorted
  <2>6. file[order[j]].close_time <= file[order[k]].close_time
    BY <2>4, <2>5, TradeOnFile DEF Before, SeriesInv
  <2> QED
    BY <2>1, <2>2, <2>3, <2>4, <2>6
<1> QED
  BY <1>1, TypeCorrect, LoopIsInductive, PTL

\* And no decline between two ledgers was deeper (series.py:47-52).
THEOREM NoneWasDeeper == Spec => []NoDeeperDecline
<1>1. TypeOK /\ SeriesInv /\ LoopInv => NoDeeperDecline
  <2> SUFFICES ASSUME TypeOK, SeriesInv, LoopInv, pc = "done",
                      NEW top \in informative(file), NEW bottom \in informative(file),
                      file[top].close_time < file[bottom].close_time
               PROVE  worst[1] * file[top].price <= file[bottom].price * worst[2]
    BY DEF NoDeeperDecline
  <2>1. PICK order \in Sorted(file, informative(file)) :
          series = [n \in DOMAIN order |-> file[order[n]]] /\ DOMAIN order = 1..Len(series)
    BY SeriesHasTrades DEF SeriesInv
  <2>2. PICK j \in DOMAIN order, k \in DOMAIN order : order[j] = top /\ order[k] = bottom
    BY DEF Sorted
  <2>3. Len(series) \in Nat /\ j \in 1..Len(series) /\ k \in 1..Len(series)
    BY <2>1, <2>2 DEF TypeOK
  <2>4. j < k
    <3>1. ~Before(file, bottom, top)
      BY TradeOnFile DEF Before, SeriesInv
    <3>2. j # k
      BY <2>2, TradeOnFile DEF SeriesInv
    <3>3. ~(k < j)
      BY <2>2, <3>1 DEF Sorted
    <3> QED
      BY <2>3, <3>2, <3>3
  <2>5. i = Len(series)
    BY <2>3, <2>4 DEF LoopInv
  <2>6. worst[1] * series[j].price <= series[k].price * worst[2]
    BY <2>3, <2>4, <2>5 DEF LoopInv
  <2> QED
    BY <2>1, <2>2, <2>6
<1> QED
  BY <1>1, TypeCorrect, LoopIsInductive, PTL
=============================================================================

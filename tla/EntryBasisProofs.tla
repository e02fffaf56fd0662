-------------------------- MODULE EntryBasisProofs --------------------------
(***************************************************************************)
(* The verdicts of the entry-basis sample, for accounts of any history and *)
(* walks of any length: the sum telescopes.                                *)
(***************************************************************************)
EXTENDS EntryBasis, SequenceTheorems, TLAPS

\* A balance is a natural number up to the largest.
LEMMA BalanceIsNat ==
  ASSUME TypeOK, NEW i \in 0..Len(effects)
  PROVE  BalanceAt(i) \in Nat
<1>1. CASE i = 0
  BY <1>1 DEF BalanceAt
<1>2. CASE i # 0
  <2>1. effects \in Seq(Effect) /\ i \in 1..Len(effects)
    BY <1>2 DEF TypeOK
  <2>2. effects[i] \in Effect
    BY <2>1
  <2> QED
    BY <1>2, <2>2, BoundsAreNat DEF BalanceAt, Effect
<1> QED
  BY <1>1, <1>2

\* What the account does next leaves its earlier effects as they were.
LEMMA HistoryIsKept ==
  ASSUME TypeOK, NEW e \in Effect, effects' = Append(effects, e)
  PROVE  /\ effects' \in Seq(Effect)
         /\ Len(effects) \in Nat /\ Len(effects') = Len(effects) + 1
         /\ \A i \in 1..Len(effects) : effects'[i] = effects[i]
         /\ \A i \in 0..Len(effects) : BalanceAt(i)' = BalanceAt(i)
<1>1. /\ effects' \in Seq(Effect) /\ Len(effects') = Len(effects) + 1 /\ Len(effects) \in Nat
      /\ \A i \in 1..Len(effects) : effects'[i] = effects[i]
  BY AppendProperties DEF TypeOK
<1> QED
  BY <1>1 DEF BalanceAt

\* The types of a walk that has not moved but for its history.
LEMMA TypeBegins == Init => TypeOK
<1> SUFFICES ASSUME Init PROVE TypeOK
  OBVIOUS
<1>1. effects \in Seq(Effect) /\ Len(effects) \in Nat
  <2>1. PICK n \in 0..MaxEffects : effects \in [1..n -> Effect]
    BY DEF Init, Histories
  <2> QED
    BY <2>1, BoundsAreNat
<1> QED
  BY <1>1, WalkIsBounded DEF Init, TypeOK

\* Every step keeps the types.
LEMMA TypeStays == TypeOK /\ [Next]_vars => TypeOK'
<1> SUFFICES ASSUME TypeOK, [Next]_vars PROVE TypeOK'
  OBVIOUS
<1>t. Len(effects) \in Nat /\ MAX_PAGES \in Nat /\ PageSize \in Nat \ {0}
  BY WalkIsBounded DEF TypeOK
<1>1. CASE Sample
  BY <1>1 DEF Sample, TypeOK, worldVars
<1>2. CASE FetchPage
  <2>1. /\ UNCHANGED <<effects, window, elder, readAt, net, events, verdict>>
        /\ fetched < MAX_PAGES /\ fetched' = fetched + 1 /\ pc' = "page"
        /\ top' = IF fetched = 0 THEN Len(effects) ELSE top
        /\ low' = IF fetched = 0 THEN Len(effects) + 1 ELSE low
    BY <1>2 DEF FetchPage, Asks, From, worldVars
  <2>2. PICK n \in 1..PageSize : elder < low' - n /\ left' = n
    BY <1>2, <2>1 DEF FetchPage, From
  <2> QED
    BY <1>t, <2>1, <2>2 DEF TypeOK
<1>3. CASE EmptyPage
  BY <1>t, <1>3 DEF EmptyPage, Asks, From, worldVars, TypeOK
<1>4. CASE FetchFails
  BY <1>4 DEF FetchFails, TypeOK, worldVars
<1>5. CASE LimitReached
  BY <1>5 DEF LimitReached, TypeOK, worldVars
<1>6. CASE Record
  <2>1. /\ UNCHANGED <<effects, window, elder, readAt, pc, fetched, top, verdict>>
        /\ left > 0 /\ low' = low - 1 /\ left' = left - 1
        /\ \/ net' = Sum(low - 1) /\ events' = events + 1
           \/ UNCHANGED <<net, events>>
    BY <1>6 DEF Record, worldVars
  <2>2. low \in Int /\ left \in Int /\ 1 <= low - 1 /\ low - 1 <= Len(effects)
    BY <1>t, <2>1 DEF TypeOK
  <2>3. Sum(low - 1) \in Int
    <3>1. BalanceAt(low - 1 - 1) \in Nat /\ BalanceAt(low - 1) \in Nat
      BY <1>t, <2>2, BalanceIsNat
    <3>2. effects[low - 1].balance = BalanceAt(low - 1)
      BY <2>2 DEF BalanceAt
    <3> QED
      BY <3>1, <3>2 DEF Sum, Amount, TypeOK
  <2> QED
    BY <1>t, <2>1, <2>2, <2>3 DEF TypeOK
<1>7. CASE PageOver
  BY <1>7 DEF PageOver, TypeOK, worldVars
<1>8. CASE Judge
  BY <1>8 DEF Judge, TypeOK, worldVars
<1>9. CASE NewEffect
  <2>1. PICK e \in Effect : effects' = Append(effects, e)
    BY <1>9 DEF NewEffect
  <2> QED
    BY <1>9, <2>1, HistoryIsKept DEF NewEffect, walkVars, TypeOK
<1>10. CASE Forget
  BY <1>t, <1>10 DEF Forget, walkVars, TypeOK
<1>11. CASE Judged \/ UNCHANGED vars
  BY <1>11 DEF Judged, vars, worldVars, walkVars, TypeOK
<1> QED
  BY <1>1, <1>2, <1>3, <1>4, <1>5, <1>6, <1>7, <1>8, <1>9, <1>10, <1>11 DEF Next

\* The walk keeps its types: in particular its cursor stays on the history.
THEOREM TypeCorrect == Spec => []TypeOK
BY TypeBegins, TypeStays, PTL DEF Spec

-----------------------------------------------------------------------------
\* What the run has read is not touched by what the account does next.
LEMMA SampleIsKept ==
  ASSUME TypeOK, NEW e \in Effect, effects' = Append(effects, e),
         UNCHANGED <<window, readAt>>
  PROVE  shares' = shares /\ candidates' = candidates
<1>1. /\ readAt \in 0..Len(effects) /\ Len(effects) \in Nat /\ window \in Nat
      /\ \A i \in 1..Len(effects) : effects'[i] = effects[i]
      /\ \A i \in 0..Len(effects) : BalanceAt(i)' = BalanceAt(i)
  BY HistoryIsKept DEF TypeOK
<1>2. shares' = shares
  BY <1>1 DEF shares
<1>3. \A i \in (window + 1)..readAt : effects'[i] = effects[i]
  BY <1>1
<1> QED
  BY <1>1, <1>2, <1>3 DEF candidates

\* Without a deposit or a withdrawal the balance stays.
LEMMA HistoryBegins == Init => HistoryInv
<1> SUFFICES ASSUME Init PROVE HistoryInv
  OBVIOUS
<1>1. Consistent(effects) /\ readAt = Len(effects)
  BY DEF Init, Histories
<1>2. Len(effects) \in Nat
  BY TypeBegins DEF TypeOK
<1> QED
  BY <1>1, <1>2 DEF HistoryInv, shares

LEMMA HistoryStays == TypeOK /\ HistoryInv /\ [Next]_vars => HistoryInv'
<1> SUFFICES ASSUME TypeOK, HistoryInv, [Next]_vars PROVE HistoryInv'
  OBVIOUS
<1>1. CASE NewEffect
  <2>1. PICK e \in Effect : /\ e.mine <=> e.balance # BalanceAt(Len(effects))
                            /\ effects' = Append(effects, e)
    BY <1>1 DEF NewEffect
  <2>2. UNCHANGED <<window, readAt>>
    BY <1>1 DEF NewEffect
  <2>3. /\ Len(effects) \in Nat /\ Len(effects') = Len(effects) + 1
        /\ \A i \in 1..Len(effects) : effects'[i] = effects[i]
        /\ \A i \in 0..Len(effects) : BalanceAt(i)' = BalanceAt(i)
        /\ effects'[Len(effects) + 1] = e
        /\ DOMAIN effects = 1..Len(effects) /\ DOMAIN effects' = 1..(Len(effects) + 1)
        /\ readAt \in 0..Len(effects)
    BY <2>1, HistoryIsKept, AppendProperties DEF TypeOK
  <2>4. shares' = shares
    BY <2>1, <2>2, SampleIsKept
  <2>5. Consistent(effects)'
    <3>1. \A i \in 1..Len(effects) :
            effects[i].mine <=> effects[i].balance # (IF i = 1 THEN 0 ELSE effects[i - 1].balance)
      BY <2>3 DEF HistoryInv, Consistent
    <3> SUFFICES ASSUME NEW i \in 1..(Len(effects) + 1)
                 PROVE  effects'[i].mine <=>
                          effects'[i].balance # (IF i = 1 THEN 0 ELSE effects'[i - 1].balance)
      BY <2>3 DEF Consistent
    <3>2. CASE i \in 1..Len(effects)
      <4>1. effects'[i] = effects[i] /\ (i # 1 => effects'[i - 1] = effects[i - 1])
        BY <2>3, <3>2
      <4> QED
        BY <3>1, <3>2, <4>1
    <3>3. CASE i = Len(effects) + 1
      <4>1. BalanceAt(Len(effects)) = IF i = 1 THEN 0 ELSE effects'[i - 1].balance
        BY <2>3, <3>3 DEF BalanceAt
      <4> QED
        BY <2>1, <2>3, <3>3, <4>1
    <3> QED
      BY <2>3, <3>2, <3>3
  <2>6. ASSUME NEW k \in readAt..(Len(effects) + 1),
               \A i \in (readAt + 1)..k : ~effects'[i].mine
        PROVE  BalanceAt(k)' = shares
    <3>1. CASE k \in readAt..Len(effects)
      <4>1. \A i \in (readAt + 1)..k : effects'[i] = effects[i]
        BY <2>3, <3>1
      <4> QED
        BY <2>3, <2>6, <3>1, <4>1 DEF HistoryInv
    <3>2. CASE k = Len(effects) + 1
      <4>1. \A i \in (readAt + 1)..Len(effects) : ~effects[i].mine
        BY <2>3, <2>6, <3>2
      <4>2. BalanceAt(Len(effects)) = shares
        BY <2>3, <4>1 DEF HistoryInv
      <4>3. ~e.mine
        BY <2>3, <2>6, <3>2
      <4>4. e.balance = shares
        BY <2>1, <4>2, <4>3
      <4> QED
        BY <2>3, <3>2, <4>4 DEF BalanceAt
    <3> QED
      BY <2>3, <3>1, <3>2
  <2> QED
    BY <2>2, <2>3, <2>4, <2>5, <2>6 DEF HistoryInv
<1>2. ASSUME UNCHANGED <<effects, readAt>> PROVE HistoryInv'
  BY <1>2 DEF HistoryInv, Consistent, BalanceAt, shares
<1>3. NewEffect \/ UNCHANGED <<effects, readAt>>
  BY DEF Next, Sample, FetchPage, EmptyPage, Asks, FetchFails, LimitReached, Record,
         PageOver, Judge, Forget, Judged, vars, worldVars
<1> QED
  BY <1>1, <1>2, <1>3

\* The sum telescopes: one record moves it by the difference it stands for.
LEMMA WalkBegins == Init => WalkInv
<1> SUFFICES ASSUME Init PROVE WalkInv
  OBVIOUS
<1>1. top = 0 /\ low = 1 /\ left = 0 /\ net = 0 /\ events = 0 /\ fetched = 0 /\ pc = "sample"
  BY DEF Init
<1> QED
  BY <1>1 DEF WalkInv, BalanceAt

LEMMA WalkStays == TypeOK /\ HistoryInv /\ WalkInv /\ [Next]_vars => WalkInv'
<1> SUFFICES ASSUME TypeOK, HistoryInv, WalkInv, [Next]_vars PROVE WalkInv'
  OBVIOUS
<1>t. /\ Len(effects) \in Nat /\ readAt \in 0..Len(effects)
      /\ window \in Nat /\ elder \in Nat /\ window <= elder /\ elder <= Len(effects)
      /\ fetched \in Nat /\ top \in 0..Len(effects) /\ low \in 1..(top + 1)
      /\ left \in 0..(low - 1) /\ net \in Int /\ events \in Nat
  BY DEF TypeOK
<1>b. \A k \in 0..Len(effects) : BalanceAt(k) \in Nat
  BY BalanceIsNat
<1>1. ASSUME FetchPage \/ EmptyPage PROVE WalkInv'
  <2>1. /\ UNCHANGED <<effects, window, elder, readAt, net, events>>
        /\ fetched' = fetched + 1 /\ pc = "fetch" /\ left = 0
        /\ top' = IF fetched = 0 THEN Len(effects) ELSE top
        /\ low' = IF fetched = 0 THEN Len(effects) + 1 ELSE low
    BY <1>1 DEF FetchPage, EmptyPage, Asks, From, worldVars, WalkInv
  <2>2. low' - 1 - left' >= window /\ left' \in Nat
    <3>1. CASE FetchPage
      <4>1. PICK n \in Nat : elder < low' - n /\ left' = n
        BY <2>1, <3>1, WalkIsBounded DEF FetchPage, From
      <4> QED
        BY <1>t, <2>1, <4>1
    <3>2. CASE EmptyPage
      <4>1. left' = 0
        BY <2>1, <3>2 DEF EmptyPage
      <4>2. CASE fetched = 0
        BY <1>t, <2>1, <4>1, <4>2
      <4>3. CASE fetched # 0
        BY <1>t, <2>1, <4>1, <4>3 DEF WalkInv
      <4> QED
        BY <4>2, <4>3
    <3> QED
      BY <1>1, <3>1, <3>2
  <2>3. pc' # "page" => left' = 0
    BY <1>1, <2>1 DEF FetchPage, EmptyPage
  <2>5. CASE fetched = 0
    <3>1. top' = Len(effects) /\ low' = Len(effects) + 1 /\ net' = 0
      BY <2>1, <2>5 DEF WalkInv
    <3>2. BalanceAt(top)' = BalanceAt(Len(effects)) /\ BalanceAt(low - 1)' = BalanceAt(Len(effects))
      BY <1>t, <2>1, <3>1 DEF BalanceAt
    <3>3. net' = BalanceAt(top)' - BalanceAt(low - 1)'
      BY <1>t, <1>b, <3>1, <3>2
    <3> QED
      BY <1>t, <2>1, <2>2, <2>3, <2>5, <3>1, <3>3 DEF WalkInv
  <2>6. CASE fetched # 0
    <3>1. top' = top /\ low' = low
      BY <2>1, <2>6
    <3>2. BalanceAt(top)' = BalanceAt(top) /\ BalanceAt(low - 1)' = BalanceAt(low - 1)
      BY <2>1, <3>1 DEF BalanceAt
    <3>3. top >= readAt /\ fetched' > 0
      BY <1>t, <2>1, <2>6 DEF WalkInv
    <3>4. net' = BalanceAt(top)' - BalanceAt(low - 1)'
      BY <2>1, <3>2 DEF WalkInv
    <3>5. events' = 0 => \A i \in low'..top' : ~effects'[i].mine
      BY <2>1, <3>1 DEF WalkInv
    <3> QED
      BY <2>1, <2>2, <2>3, <3>1, <3>3, <3>4, <3>5 DEF WalkInv
  <2> QED
    BY <2>5, <2>6
<1>2. CASE Record
  <2>1. /\ UNCHANGED <<effects, window, elder, readAt, pc, fetched, top>>
        /\ pc = "page" /\ left > 0 /\ low' = low - 1 /\ left' = left - 1
        /\ \/ effects[low - 1].mine /\ net' = Sum(low - 1) /\ events' = events + 1
           \/ ~effects[low - 1].mine /\ net' = net /\ events' = events
    BY <1>2 DEF Record, worldVars
  <2>2. low - 1 \in 1..Len(effects) /\ low - 1 - 1 \in 0..Len(effects) /\ DOMAIN effects = 1..Len(effects)
    BY <1>t, <2>1 DEF TypeOK
  <2>3. effects[low - 1].balance = BalanceAt(low - 1)
    BY <2>2 DEF BalanceAt
  <2>4. effects[low - 1].mine <=> BalanceAt(low - 1) # BalanceAt(low - 1 - 1)
    <3>1. PICK j \in DOMAIN effects : j = low - 1
      BY <2>2
    <3>2. effects[j].mine <=> effects[j].balance # (IF j = 1 THEN 0 ELSE effects[j - 1].balance)
      BY DEF HistoryInv, Consistent
    <3>3. BalanceAt(j - 1) = IF j = 1 THEN 0 ELSE effects[j - 1].balance
      BY <2>2, <3>1 DEF BalanceAt
    <3> QED
      BY <2>3, <3>1, <3>2, <3>3
  <2>5. net' = BalanceAt(top) - BalanceAt(low - 1 - 1)
    <3>1. net = BalanceAt(top) - BalanceAt(low - 1)
      BY DEF WalkInv
    <3>2. BalanceAt(top) \in Nat /\ BalanceAt(low - 1) \in Nat /\ BalanceAt(low - 1 - 1) \in Nat
      BY <1>t, <1>b, <2>2
    <3>3. Sum(low - 1) = net + (BalanceAt(low - 1) - BalanceAt(low - 1 - 1))
      BY <2>3 DEF Sum, Amount
    <3> QED
      BY <2>1, <2>4, <3>1, <3>2, <3>3
  <2>6. events' = 0 => \A i \in low'..top' : ~effects[i].mine
    BY <1>t, <2>1, <2>2 DEF WalkInv
  <2>7. BalanceAt(top)' = BalanceAt(top) /\ BalanceAt(low - 1)' = BalanceAt(low - 1 - 1)
    BY <2>1 DEF BalanceAt
  <2>8. fetched' # 0 /\ low' - 1 - left' = low - 1 - left
    BY <1>t, <2>1 DEF WalkInv
  <2>9. net' = BalanceAt(top)' - BalanceAt(low - 1)'
    BY <2>5, <2>7
  <2> QED
    BY <1>t, <2>1, <2>6, <2>8, <2>9 DEF WalkInv
<1>3. CASE NewEffect
  <2>1. PICK e \in Effect : effects' = Append(effects, e)
    BY <1>3 DEF NewEffect
  <2>2. UNCHANGED <<window, readAt, pc, fetched, top, low, left, net, events>>
    BY <1>3 DEF NewEffect, walkVars
  <2>3. /\ \A i \in 1..Len(effects) : effects'[i] = effects[i]
        /\ \A i \in 0..Len(effects) : BalanceAt(i)' = BalanceAt(i)
    BY <2>1, HistoryIsKept
  <2>4. BalanceAt(top)' = BalanceAt(top) /\ BalanceAt(low - 1)' = BalanceAt(low - 1)
    BY <1>t, <2>2, <2>3
  <2>5. \A i \in low..top : effects'[i] = effects[i]
    BY <1>t, <2>3
  <2> QED
    BY <2>2, <2>4, <2>5 DEF WalkInv
<1>4. ASSUME Sample \/ FetchFails \/ LimitReached \/ PageOver \/ Judge
      PROVE  WalkInv'
  <2>1. UNCHANGED <<effects, window, elder, readAt, fetched, top, low, left, net, events>>
    BY <1>4 DEF Sample, FetchFails, LimitReached, PageOver, Judge, worldVars
  <2>2. left = 0 /\ pc' # "page"
    BY <1>4 DEF Sample, FetchFails, LimitReached, PageOver, Judge, WalkInv
  <2> QED
    BY <2>1, <2>2 DEF WalkInv, BalanceAt
<1>5. ASSUME Forget \/ Judged \/ UNCHANGED vars PROVE WalkInv'
  <2>1. UNCHANGED <<effects, window, readAt, walkVars>>
    BY <1>5 DEF Forget, Judged, vars, worldVars
  <2> QED
    BY <2>1 DEF WalkInv, BalanceAt, walkVars
<1> QED
  BY <1>1, <1>2, <1>3, <1>4, <1>5 DEF Next

\* Only a position of the sample gets a verdict, and the one its sum deserves.
LEMMA VerdictStays == TypeOK /\ VerdictInv /\ WalkInv /\ [Next]_vars => VerdictInv'
<1> SUFFICES ASSUME TypeOK, VerdictInv, WalkInv, [Next]_vars PROVE VerdictInv'
  OBVIOUS
<1>1. CASE NewEffect
  <2>1. PICK e \in Effect : effects' = Append(effects, e)
    BY <1>1 DEF NewEffect
  <2>2. UNCHANGED <<window, readAt, pc, fetched, net, events, verdict>>
    BY <1>1 DEF NewEffect, walkVars
  <2>3. shares' = shares /\ candidates' = candidates
    BY <2>1, <2>2, SampleIsKept
  <2> QED
    BY <2>2, <2>3 DEF VerdictInv
<1>2. ASSUME UNCHANGED <<effects, window, readAt>>
      PROVE  shares' = shares /\ candidates' = candidates
  BY <1>2 DEF shares, candidates, BalanceAt
<1>3. CASE Sample
  <2>1. UNCHANGED <<effects, window, readAt, fetched, net, events, verdict>>
    BY <1>3 DEF Sample, worldVars
  <2>2. pc = "sample" /\ pc' = IF candidates THEN "fetch" ELSE "done"
    BY <1>3 DEF Sample
  <2> QED
    BY <1>2, <2>1, <2>2 DEF VerdictInv
<1>4. ASSUME FetchPage \/ EmptyPage \/ FetchFails \/ LimitReached \/ Record \/ PageOver
      PROVE  VerdictInv'
  <2>1. UNCHANGED <<effects, window, readAt, verdict>>
    BY <1>4 DEF FetchPage, EmptyPage, Asks, FetchFails, LimitReached, Record, PageOver, worldVars
  <2>2. pc \in {"fetch", "page"} /\ pc' \in {"fetch", "page", "judge"}
    BY <1>4 DEF FetchPage, EmptyPage, Asks, FetchFails, LimitReached, Record, PageOver
  <2> QED
    BY <1>2, <2>1, <2>2 DEF VerdictInv
<1>5. CASE Judge
  <2>1. UNCHANGED <<effects, window, readAt, net, events>> /\ pc = "judge" /\ pc' = "done"
    BY <1>5 DEF Judge, worldVars
  <2>2. verdict' = IF events = 0 THEN "inconclusive"
                   ELSE IF net = shares THEN "complete" ELSE "partial"
    BY <1>5 DEF Judge
  <2> QED
    BY <1>2, <2>1, <2>2 DEF VerdictInv
<1>6. ASSUME Forget \/ Judged \/ UNCHANGED vars PROVE VerdictInv'
  <2>1. UNCHANGED <<effects, window, readAt, pc, fetched, net, events, verdict>>
    BY <1>6 DEF Forget, Judged, vars, worldVars, walkVars
  <2> QED
    BY <1>2, <2>1 DEF VerdictInv
<1> QED
  BY <1>1, <1>3, <1>4, <1>5, <1>6 DEF Next

\* The three parts of the inductive invariant hold in every reachable state.
THEOREM SumsTelescope == Spec => [](HistoryInv /\ WalkInv /\ VerdictInv)
<1>1. Init => VerdictInv
  BY DEF Init, VerdictInv
<1> QED
  BY <1>1, TypeCorrect, HistoryBegins, HistoryStays, WalkBegins, WalkStays, VerdictStays, PTL
     DEF Spec

\* As long as the account leaves the position alone, the balance at the first
\* page is the one of the run.
LEMMA BalanceAtTop ==
  ASSUME TypeOK, HistoryInv, WalkInv, fetched > 0, Undrifted
  PROVE  BalanceAt(top) = shares /\ BalanceAt(low - 1) = shares - net
<1>1. /\ Len(effects) \in Nat /\ top \in readAt..Len(effects) /\ low \in 1..(top + 1)
      /\ readAt \in 0..Len(effects)
  BY DEF TypeOK, WalkInv
<1>2. BalanceAt(top) = shares
  BY <1>1 DEF HistoryInv, Undrifted
<1>3. BalanceAt(top) \in Nat /\ BalanceAt(low - 1) \in Nat
  BY <1>1, BalanceIsNat
<1> QED
  BY <1>2, <1>3 DEF WalkInv

\* A complete position began at zero, inside the window, whatever the history
\* and wherever the walk ended (entry-basis-sample.py:13-14).
THEOREM CompleteBeganAtZero == Spec => []CompleteIsRecoverable
<1>1. TypeOK /\ HistoryInv /\ WalkInv /\ VerdictInv => CompleteIsRecoverable
  <2> SUFFICES ASSUME TypeOK, HistoryInv, WalkInv, VerdictInv, verdict = "complete", Undrifted
               PROVE  BalanceAt(low - 1) = 0 /\ low - 1 >= window
    BY DEF CompleteIsRecoverable
  <2>1. events # 0 /\ net = shares
    BY DEF VerdictInv
  <2>2. fetched > 0
    BY <2>1 DEF WalkInv, TypeOK
  <2>3. BalanceAt(low - 1) = shares - shares /\ shares \in Nat
    BY <2>1, <2>2, BalanceAtTop, BalanceIsNat DEF shares, TypeOK
  <2>4. low - 1 >= window
    BY <2>2 DEF WalkInv, TypeOK
  <2> QED
    BY <2>3, <2>4
<1> QED
  BY <1>1, TypeCorrect, SumsTelescope, PTL

\* A partial position was there before the oldest effect the walk has read
\* (entry-basis-sample.py:14-15).
THEOREM PartialWasThere == Spec => []PartialPredates
<1>1. TypeOK /\ HistoryInv /\ WalkInv /\ VerdictInv => PartialPredates
  <2> SUFFICES ASSUME TypeOK, HistoryInv, WalkInv, VerdictInv, verdict = "partial", Undrifted
               PROVE  BalanceAt(low - 1) > 0
    BY DEF PartialPredates
  <2>1. events # 0 /\ net # shares
    BY DEF VerdictInv
  <2>2. fetched > 0
    BY <2>1 DEF WalkInv, TypeOK
  <2>3. BalanceAt(low - 1) = shares - net
    BY <2>2, BalanceAtTop
  <2>4. shares \in Nat /\ net \in Int /\ BalanceAt(low - 1) \in Nat
    BY BalanceIsNat DEF shares, TypeOK
  <2> QED
    BY <2>1, <2>3, <2>4
<1> QED
  BY <1>1, TypeCorrect, SumsTelescope, PTL

\* Without an event the walk did not get as far as the movement that put the
\* position into the sample (entry-basis-sample.py:139-141).
THEOREM InconclusiveIsUnseen == Spec => []InconclusiveMeansUnseen
<1>1. TypeOK /\ WalkInv /\ VerdictInv => InconclusiveMeansUnseen
  <2> SUFFICES ASSUME TypeOK, WalkInv, VerdictInv, verdict = "inconclusive", fetched # 0
               PROVE  low - 1 > window /\ \A i \in low..readAt : ~effects[i].mine
    BY DEF InconclusiveMeansUnseen
  <2>1. candidates /\ events = 0
    BY DEF VerdictInv
  <2>2. /\ top \in Nat /\ readAt \in Nat /\ readAt <= top /\ low \in Nat /\ window \in Nat
        /\ \A i \in low..top : ~effects[i].mine
    BY <2>1 DEF WalkInv, TypeOK
  <2>3. PICK i \in (window + 1)..readAt : effects[i].mine
    BY <2>1 DEF candidates
  <2> QED
    BY <2>2, <2>3
<1> QED
  BY <1>1, TypeCorrect, SumsTelescope, PTL
=============================================================================

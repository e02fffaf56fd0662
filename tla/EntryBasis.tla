----------------------------- MODULE EntryBasis -----------------------------
(***************************************************************************)
(* scripts/entry-basis-sample.py for one position of a run: whether it is  *)
(* sampled, the walk over its account's effects, newest first, and the     *)
(* verdict.  The account goes on, and Horizon forgets, during the walk.    *)
(*                                                                         *)
(* An effect is kept as the balance of the position after it.  The shares  *)
(* it received or redeemed are the difference from the effect before; an   *)
(* effect that is not a deposit or a withdrawal of this pool has none.     *)
(***************************************************************************)
EXTENDS Integers, Sequences

CONSTANTS MaxShares,   \* largest balance: bounds the state space
          MaxEffects,  \* effects of the account: bounds the state space
          PageSize, MAX_PAGES

ASSUME BoundsAreNat == MaxShares \in Nat /\ MaxEffects \in Nat
ASSUME WalkIsBounded == PageSize \in Nat \ {0} /\ MAX_PAGES \in Nat

VARIABLES effects,  \* the account's effects, oldest first
          window,   \* how many of them lie before ELDER_LEDGER
          elder,    \* how many Horizon no longer has
          readAt,   \* how many there were when the run read the position
          pc,       \* "sample", "fetch", "page", "judge" or "done"
          fetched,  \* passes of the loop over pages
          top,      \* history: how many effects there were at the first page
          low,      \* the oldest effect gone through
          left,     \* records of the page still to go through
          net, events,
          verdict   \* "none", "complete", "partial" or "inconclusive"

worldVars == <<effects, window, elder, readAt>>
walkVars == <<pc, fetched, top, low, left, net, events, verdict>>
vars == <<worldVars, walkVars>>

Effect == [mine : BOOLEAN, balance : 0..MaxShares]
BalanceAt(i) == IF i = 0 THEN 0 ELSE effects[i].balance

\* A deposit or a withdrawal of the pool is what moves the balance.
Consistent(s) ==
  \A i \in DOMAIN s :
    s[i].mine <=> s[i].balance # (IF i = 1 THEN 0 ELSE s[i - 1].balance)
Histories == {s \in UNION {[1..n -> Effect] : n \in 0..MaxEffects} : Consistent(s)}

TypeOK ==
  /\ effects \in Seq(Effect)
  /\ readAt \in 0..Len(effects)
  /\ window \in 0..elder /\ elder \in 0..Len(effects)
  /\ pc \in {"sample", "fetch", "page", "judge", "done"}
  /\ fetched \in 0..MAX_PAGES
  /\ top \in 0..Len(effects) /\ low \in 1..(top + 1) /\ left \in 0..(low - 1)
  /\ net \in Int /\ events \in Nat
  /\ verdict \in {"none", "complete", "partial", "inconclusive"}

Init ==
  /\ effects \in Histories
  /\ readAt = Len(effects)
  /\ window \in 0..Len(effects) /\ elder = window
  /\ pc = "sample" /\ fetched = 0
  /\ top = 0 /\ low = 1 /\ left = 0
  /\ net = 0 /\ events = 0
  /\ verdict = "none"

-----------------------------------------------------------------------------
(* The position as the run has it.                                         *)

shares == BalanceAt(readAt)

\* Mutant of candidates: any position that is not empty.
candidatesEverMoved == shares > 0

\* Not empty, and moved inside the window.
candidates == shares > 0 /\ \E i \in (window + 1)..readAt : effects[i].mine

Sample ==
  /\ pc = "sample"
  /\ pc' = IF candidates THEN "fetch" ELSE "done"
  /\ UNCHANGED <<worldVars, fetched, top, low, left, net, events, verdict>>

-----------------------------------------------------------------------------
(* net_in_window.                                                          *)

\* The cursor names the last record of the page before; the first page has none.
From == IF fetched = 0 THEN Len(effects) + 1 ELSE low

\* Mutant of Asks: one page more than MAX_PAGES.
AsksOnceMore ==
  /\ pc = "fetch" /\ fetched <= MAX_PAGES
  /\ fetched' = fetched + 1
  /\ top' = IF fetched = 0 THEN Len(effects) ELSE top
  /\ UNCHANGED <<worldVars, net, events, verdict>>

Asks ==
  /\ pc = "fetch" /\ fetched < MAX_PAGES
  /\ fetched' = fetched + 1
  /\ top' = IF fetched = 0 THEN Len(effects) ELSE top
  /\ UNCHANGED <<worldVars, net, events, verdict>>

\* Mutant of FetchPage: the next link is not taken over.
FetchPageAgain ==
  /\ Asks
  /\ \E n \in 1..PageSize :
       /\ elder < top' + 1 - n
       /\ left' = n
  /\ low' = top' + 1
  /\ pc' = "page"

FetchPage ==
  /\ Asks
  /\ \E n \in 1..PageSize :
       /\ elder < From - n
       /\ left' = n
  /\ low' = From
  /\ pc' = "page"

\* Everything before the cursor is gone, or there never was anything.
EmptyPage ==
  /\ Asks
  /\ From - 1 <= elder
  /\ low' = From
  /\ pc' = "judge"
  /\ UNCHANGED left

\* fetch has failed four times: what has been summed so far is returned.
FetchFails ==
  /\ pc = "fetch" /\ fetched < MAX_PAGES
  /\ pc' = "judge"
  /\ UNCHANGED <<worldVars, fetched, top, low, left, net, events, verdict>>

LimitReached ==
  /\ pc = "fetch" /\ fetched = MAX_PAGES
  /\ pc' = "judge"
  /\ UNCHANGED <<worldVars, fetched, top, low, left, net, events, verdict>>

\* Shares received, or redeemed when negative.
Amount(i) == effects[i].balance - BalanceAt(i - 1)

\* Mutant of Sum: what was redeemed is added as well.
SumUnsigned(i) == net + (IF Amount(i) < 0 THEN -Amount(i) ELSE Amount(i))

Sum(i) == net + Amount(i)

Record ==
  /\ pc = "page" /\ left > 0
  /\ low' = low - 1
  /\ left' = left - 1
  /\ \/ effects[low - 1].mine /\ net' = Sum(low - 1) /\ events' = events + 1
     \/ ~effects[low - 1].mine /\ UNCHANGED <<net, events>>
  /\ UNCHANGED <<worldVars, pc, fetched, top, verdict>>

PageOver ==
  /\ pc = "page" /\ left = 0
  /\ pc' = "fetch"
  /\ UNCHANGED <<worldVars, fetched, top, low, left, net, events, verdict>>

-----------------------------------------------------------------------------
Judge ==
  /\ pc = "judge"
  /\ pc' = "done"
  /\ verdict' = IF events = 0 THEN "inconclusive"
                ELSE IF net = shares THEN "complete" ELSE "partial"
  /\ UNCHANGED <<worldVars, fetched, top, low, left, net, events>>

\* The account does something, in this pool or elsewhere.
NewEffect ==
  /\ pc # "done"
  /\ Len(effects) < MaxEffects
  /\ \E e \in Effect :
       /\ e.mine <=> e.balance # BalanceAt(Len(effects))
       /\ effects' = Append(effects, e)
  /\ UNCHANGED <<window, elder, readAt, walkVars>>

\* Horizon's retention moves on, past the boundary the script has written down.
Forget ==
  /\ pc # "done"
  /\ elder < Len(effects)
  /\ elder' = elder + 1
  /\ UNCHANGED <<effects, window, readAt, walkVars>>

Judged == pc = "done" /\ UNCHANGED vars

Next ==
  \/ Sample
  \/ FetchPage
  \/ EmptyPage
  \/ FetchFails
  \/ LimitReached
  \/ Record
  \/ PageOver
  \/ Judge
  \/ NewEffect
  \/ Forget
  \/ Judged

Spec == Init /\ [][Next]_vars

-----------------------------------------------------------------------------
(* What the verdicts are worth.                                            *)

\* The account left the position alone between the run and the walk.
Undrifted == \A i \in (readAt + 1)..top : ~effects[i].mine

\* "The position began at zero inside the window" (entry-basis-sample.py:13-14):
\* a complete position was empty just before the oldest effect the walk read,
\* which is inside the window, however the walk came to its end.
CompleteIsRecoverable ==
  verdict = "complete" /\ Undrifted => BalanceAt(low - 1) = 0 /\ low - 1 >= window

\* A partial position held shares just before the oldest effect the walk read, so
\* that its basis is not in what was read (entry-basis-sample.py:14-15).  That is
\* before the window only when the walk read all of the window: see
\* UnresolvedIsInconclusive for a walk that the limit cut short.
PartialPredates ==
  verdict = "partial" /\ Undrifted => BalanceAt(low - 1) > 0

\* "Positions unresolved within it are reported as inconclusive rather than counted
\* either way" (entry-basis-sample.py:38-39): one that was opened inside the window,
\* with effects left beyond the limit, is not counted as predating the window.
UnresolvedIsInconclusive ==
  fetched = MAX_PAGES /\ low - 1 > elder /\ Undrifted /\ BalanceAt(window) = 0 =>
    verdict # "partial"

\* A sampled position did move inside the window: without an event of it, the
\* walk was cut short, or Horizon has forgotten meanwhile
\* (entry-basis-sample.py:37-39, 139-141).
InconclusiveMeansUnseen ==
  verdict = "inconclusive" =>
    \/ low - 1 > window /\ \A i \in low..readAt : ~effects[i].mine
    \/ fetched = 0

\* The inductive invariant.  As long as nothing moves the position, its balance
\* is the one the run has read ...
HistoryInv ==
  /\ Consistent(effects)
  /\ \A k \in readAt..Len(effects) :
       (\A i \in (readAt + 1)..k : ~effects[i].mine) => BalanceAt(k) = shares

\* ... what is summed up is the difference between the balance at the first page
\* and the one before the oldest effect read ...
WalkInv ==
  /\ net = BalanceAt(top) - BalanceAt(low - 1)
  /\ fetched = 0 => top = 0 /\ low = 1 /\ net = 0 /\ events = 0 /\ pc # "page"
  /\ fetched > 0 => top >= readAt /\ low - 1 - left >= window
  /\ events = 0 => \A i \in low..top : ~effects[i].mine
  /\ pc # "page" => left = 0

\* ... and only a position of the sample gets a verdict, the one of its sum.
VerdictInv ==
  /\ pc \in {"fetch", "page", "judge"} => candidates /\ verdict = "none"
  /\ pc = "sample" => fetched = 0 /\ verdict = "none"
  /\ verdict # "none" => candidates
  /\ verdict = "complete" => events # 0 /\ net = shares
  /\ verdict = "partial" => events # 0 /\ net # shares
  /\ verdict = "inconclusive" => events = 0
=============================================================================

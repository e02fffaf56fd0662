------------------------------ MODULE GetJSON ------------------------------
(***************************************************************************)
(* getJSON of pkg/horizon/client.go: one logical request to Horizon, with  *)
(* its retries.  The other modules take one whole call of it as one step.  *)
(*                                                                         *)
(* A wait is a time.Duration: an integer of a given width, in units of     *)
(* which Quarter make a quarter of a second.  In the code these are        *)
(* nanoseconds and 64 bits: Quarter is 250000000 and Half is 2^63.         *)
(* Horizon's answers, the network and the moment the context is cancelled  *)
(* are not the client's choice.                                            *)
(***************************************************************************)
EXTENDS Integers, Sequences

CONSTANTS Settings,     \* the values of Client.MaxRetries in use
          RetryAfters,  \* the Retry-After headers Horizon may send
          Quarter,      \* a quarter of a second
          Half          \* an int and a Duration are in -Half..(Half - 1)

\* A header is a number of seconds, a date so far from now, or nothing readable.
Headers == [form : {"seconds", "date", "none"}, value : Int]
NoHeader == [form |-> "none", value |-> 0]

ASSUME SettingsAreInts == Settings \subseteq Int
ASSUME RetryAftersAreHeaders == RetryAfters \subseteq Headers
ASSUME TheLadderFits == Quarter \in Nat \ {0} /\ Half \in Nat /\ 32 * Quarter < Half

VARIABLES setting,    \* Client.MaxRetries
          cancelled,  \* the context has been cancelled
          lateStart,  \* history: it was cancelled before the call
          builds,     \* a request can be built from the URL
          pc,         \* "send", "flight", "wait" or "done"
          live,       \* the request in flight left on a live context
          attempt,
          requests,
          answers,    \* history: what came back for each request, and the wait after it
          result      \* "none", "ok", "unavailable", "cancelled" or "failed"

vars == <<setting, cancelled, lateStart, builds, pc, live, attempt, requests, answers, result>>

DefaultMaxRetries == 4

maxRetries ==
  IF setting < 0 THEN 0 ELSE IF setting = 0 THEN DefaultMaxRetries ELSE setting

Second == 4 * Quarter

\* What is left of an integer in the width of a Duration.
wrap(d) == ((d + Half) % (2 * Half)) - Half

\* A number of seconds that is no int is not readable.  One that is an int is
\* multiplied without a look at the width of the product.
retryAfter(header) ==
  IF header.form = "seconds" /\ header.value \in 0..(Half - 1) THEN wrap(header.value * Second)
  ELSE IF header.form = "date" /\ header.value > 0 THEN header.value
  ELSE 0

Schedule == <<Quarter, 4 * Quarter, 12 * Quarter, 32 * Quarter>>

\* Mutant of backoff: the ladder starts over once it is spent.
backoffStartsOver(n, asked) ==
  IF asked > 0 THEN asked ELSE Schedule[(n % Len(Schedule)) + 1]

\* Mutant of backoff: whatever is not zero has been asked for.
backoffTakesAny(n, asked) ==
  IF asked # 0 THEN asked
  ELSE Schedule[IF n >= Len(Schedule) THEN Len(Schedule) ELSE n + 1]

\* The wait after the answer to attempt n, counted from 0.
backoff(n, asked) ==
  IF asked > 0 THEN asked
  ELSE Schedule[IF n >= Len(Schedule) THEN Len(Schedule) ELSE n + 1]

\* 429 and 503 are transient; "transport" is an error of Do: a refused or broken
\* connection, the 30s timeout, or the context.
Transient == "transient"
Final == {"ok", "undecodable", "refused", "transport"}
Answers == [kind : Final \cup {Transient}, header : Headers, wait : Nat]

TypeOK ==
  /\ setting \in Settings
  /\ cancelled \in BOOLEAN /\ lateStart \in BOOLEAN /\ live \in BOOLEAN
  /\ builds \in BOOLEAN
  /\ pc \in {"send", "flight", "wait", "done"}
  /\ attempt \in Nat
  /\ requests \in Nat
  /\ answers \in Seq(Answers)
  /\ result \in {"none", "ok", "unavailable", "cancelled", "failed"}

Init ==
  /\ setting \in Settings
  /\ cancelled \in BOOLEAN
  /\ lateStart = cancelled
  /\ builds \in BOOLEAN
  /\ pc = "send"
  /\ live = FALSE
  /\ attempt = 0
  /\ requests = 0
  /\ answers = <<>>
  /\ result = "none"

-----------------------------------------------------------------------------
Return(r) == pc' = "done" /\ result' = r

Received(kind, header, wait) ==
  answers' = Append(answers, [kind |-> kind, header |-> header, wait |-> wait])

\* No request can be built: nothing is counted.
BuildFails ==
  /\ pc = "send" /\ ~builds
  /\ Return("failed")
  /\ UNCHANGED <<setting, cancelled, lateStart, builds, live, attempt, requests, answers>>

\* Mutant of Send: the request is built without the context.
SendIgnoresContext ==
  /\ pc = "send" /\ builds
  /\ pc' = "flight"
  /\ live' = TRUE
  /\ UNCHANGED <<setting, cancelled, lateStart, builds, attempt, requests, answers, result>>

\* Do is called; a context already cancelled fails it before anything is sent.
Send ==
  /\ pc = "send" /\ builds
  /\ pc' = "flight"
  /\ live' = ~cancelled
  /\ UNCHANGED <<setting, cancelled, lateStart, builds, attempt, requests, answers, result>>

\* Mutant of AnswerFinal: an error of the transport is worth another attempt.
AnswerFinalRetriesTransport(kind) ==
  /\ pc = "flight"
  /\ live \/ kind = "transport"
  /\ requests' = requests + 1
  /\ Received(kind, NoHeader, 0)
  /\ IF kind = "transport" /\ attempt < maxRetries
       THEN pc' = "send" /\ attempt' = attempt + 1 /\ UNCHANGED result
       ELSE Return(IF kind = "ok" THEN "ok" ELSE "failed") /\ UNCHANGED attempt
  /\ UNCHANGED <<setting, cancelled, lateStart, builds, live>>

\* An answer no retry can improve.
AnswerFinal(kind) ==
  /\ pc = "flight"
  /\ live \/ kind = "transport"
  /\ requests' = requests + 1
  /\ Received(kind, NoHeader, 0)
  /\ Return(IF kind = "ok" THEN "ok" ELSE "failed")
  /\ UNCHANGED <<setting, cancelled, lateStart, builds, live, attempt>>

\* Mutant of AnswerTransient: gives up one attempt early.
AnswerTransientEarly(header) ==
  /\ pc = "flight"
  /\ live
  /\ requests' = requests + 1
  /\ \/ /\ attempt >= maxRetries - 1
        /\ Received(Transient, header, 0)
        /\ Return("unavailable")
     \/ /\ attempt < maxRetries - 1
        /\ Received(Transient, header, backoff(attempt, retryAfter(header)))
        /\ pc' = "wait"
        /\ UNCHANGED result
  /\ UNCHANGED <<setting, cancelled, lateStart, builds, live, attempt>>

AnswerTransient(header) ==
  /\ pc = "flight"
  /\ live
  /\ requests' = requests + 1
  /\ \/ /\ attempt >= maxRetries
        /\ Received(Transient, header, 0)
        /\ Return("unavailable")
     \/ /\ attempt < maxRetries
        /\ Received(Transient, header, backoff(attempt, retryAfter(header)))
        /\ pc' = "wait"
        /\ UNCHANGED result
  /\ UNCHANGED <<setting, cancelled, lateStart, builds, live, attempt>>

\* The timer fires.  The context may be cancelled as well by then: select takes
\* whichever of two ready channels it likes.
WaitOver ==
  /\ pc = "wait"
  /\ pc' = "send"
  /\ attempt' = attempt + 1
  /\ UNCHANGED <<setting, cancelled, lateStart, builds, live, requests, answers, result>>

WaitCancelled ==
  /\ pc = "wait"
  /\ cancelled
  /\ Return("cancelled")
  /\ UNCHANGED <<setting, cancelled, lateStart, builds, live, attempt, requests, answers>>

\* Mutant of Step: nobody listens to the context while waiting, nor to the timer.
StepSleeps ==
  \/ BuildFails
  \/ Send
  \/ \E kind \in Final : AnswerFinal(kind)
  \/ \E header \in RetryAfters : AnswerTransient(header)
  \/ WaitCancelled

Step ==
  \/ BuildFails
  \/ Send
  \/ \E kind \in Final : AnswerFinal(kind)
  \/ \E header \in RetryAfters : AnswerTransient(header)
  \/ WaitOver
  \/ WaitCancelled

Cancel ==
  /\ ~cancelled
  /\ cancelled' = TRUE
  /\ UNCHANGED <<setting, lateStart, builds, pc, live, attempt, requests, answers, result>>

Next == Step \/ Cancel

Spec == Init /\ [][Next]_vars

-----------------------------------------------------------------------------
(* What the callers of getJSON rely on.                                    *)

\* Answers that did not end the call.
Retried(i) == i < Len(answers) \/ pc # "done"

\* Only a transient answer is ever followed by another request: a permanent
\* refusal or a broken transport is the last answer of its call, and a call
\* succeeds on its last answer alone (client.go:98-107, 205-245).
OnlyTransientIsRetried ==
  /\ \A i \in DOMAIN answers : Retried(i) => answers[i].kind = Transient
  /\ result = "ok" => answers # <<>> /\ answers[Len(answers)].kind = "ok"

\* A call costs at most one request more than its retries, and reports Horizon
\* unavailable only once it has spent them all on transient answers
\* (client.go:87-96, 224-226).
GivesUpOnlyWhenSpent ==
  /\ Len(answers) <= maxRetries + 1
  /\ requests = Len(answers)
  /\ result = "unavailable" =>
       /\ Len(answers) = maxRetries + 1
       /\ \A i \in DOMAIN answers : answers[i].kind = Transient

\* What a header asks for, as long as it is meant to be.
Meant(header) ==
  IF header.form = "none" \/ header.value < 0 THEN 0
  ELSE IF header.form = "seconds" THEN header.value * Second ELSE header.value

\* Another attempt never comes at once, whatever the header's number turns into.
\* It comes no sooner than Horizon asked as long as what was asked is a Duration
\* (of a longer time nothing is promised: client.go:139), and the waits that the
\* header did not decide never shrink (client.go:133-147, 169-183).
WaitsAsAsked ==
  \A i \in DOMAIN answers : Retried(i) =>
    /\ answers[i].wait > 0
    /\ Meant(answers[i].header) < Half => answers[i].wait >= Meant(answers[i].header)
    /\ \A j \in 1..i : retryAfter(answers[i].header) <= 0 /\ retryAfter(answers[j].header) <= 0 =>
         answers[j].wait <= answers[i].wait

\* A call that starts on a cancelled context brings nothing back and is over
\* after one request, which never left: the loops above getJSON need no check
\* of the context of their own to stop (client.go:197-206).
NothingAfterCancel == lateStart => result # "ok" /\ Len(answers) <= 1

\* The inductive invariant behind the four: the attempts made are the answers
\* received, all transient so far, each with the wait the ladder gives it.
AttemptsInv ==
  /\ attempt <= maxRetries
  /\ requests = Len(answers)
  /\ pc = "send" \/ pc = "flight" => Len(answers) = attempt
  /\ pc = "wait" => Len(answers) = attempt + 1 /\ attempt < maxRetries
  /\ pc = "done" => Len(answers) <= attempt + 1
  /\ pc # "done" => result = "none" /\ \A i \in DOMAIN answers : answers[i].kind = Transient
LadderInv ==
  \A i \in DOMAIN answers :
    Retried(i) => answers[i].wait = backoff(i - 1, retryAfter(answers[i].header))
LateInv ==
  lateStart => cancelled /\ ~live /\ attempt = 0 /\ pc # "wait" /\ result # "ok"
CallInv ==
  /\ AttemptsInv
  /\ LadderInv
  /\ LateInv
  /\ OnlyTransientIsRetried
  /\ GivesUpOnlyWhenSpent
=============================================================================

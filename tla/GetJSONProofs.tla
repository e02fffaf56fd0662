--------------------------- MODULE GetJSONProofs ---------------------------
(***************************************************************************)
(* What the callers of getJSON rely on, for every retry setting and every  *)
(* Retry-After header.                                                     *)
(***************************************************************************)
EXTENDS GetJSON, SequenceTheorems, TLAPS

\* The number of retries is a natural number, whatever MaxRetries says.
LEMMA RetriesAreNat ==
  ASSUME TypeOK
  PROVE  maxRetries \in Nat /\ setting \in Int
BY SettingsAreInts DEF TypeOK, maxRetries, DefaultMaxRetries

\* A Duration keeps what fits it and is an integer in any case.
LEMMA WrapKeeps ==
  ASSUME NEW d \in Int
  PROVE  wrap(d) \in Int /\ (0 <= d /\ d < Half => wrap(d) = d)
BY TheLadderFits DEF wrap

\* What is made of a header is an integer, not always a natural number; it is
\* what was asked for whenever that fits a Duration.
LEMMA AskedIsInt ==
  ASSUME NEW header \in Headers
  PROVE  /\ retryAfter(header) \in Int /\ Meant(header) \in Nat
         /\ Meant(header) < Half => retryAfter(header) = Meant(header)
<1>1. header.form \in {"seconds", "date", "none"} /\ header.value \in Int
  BY DEF Headers
<1>2. CASE header.form = "seconds" /\ header.value >= 0
  <2>1. /\ header.value \in Nat /\ Second \in Nat \ {0}
    BY <1>1, <1>2, TheLadderFits DEF Second
  <2>2. header.value * Second \in Nat /\ header.value <= header.value * Second
    BY <2>1
  <2>3. Meant(header) = header.value * Second
    BY <1>1, <1>2 DEF Meant
  <2>4. CASE header.value \in 0..(Half - 1)
    BY <1>2, <2>2, <2>3, <2>4, WrapKeeps DEF retryAfter
  <2>5. CASE header.value \notin 0..(Half - 1)
    <3>1. retryAfter(header) = 0
      BY <1>2, <2>5 DEF retryAfter
    <3>2. ~(Meant(header) < Half)
      BY <2>1, <2>2, <2>3, <2>5, TheLadderFits
    <3> QED
      BY <2>2, <2>3, <3>1, <3>2
  <2> QED
    BY <2>4, <2>5
<1>3. CASE header.form = "seconds" /\ header.value < 0
  BY <1>1, <1>3, TheLadderFits DEF retryAfter, Meant
<1>4. CASE header.form = "date"
  BY <1>1, <1>4 DEF retryAfter, Meant
<1>5. CASE header.form = "none"
  BY <1>1, <1>5 DEF retryAfter, Meant
<1> QED
  BY <1>1, <1>2, <1>3, <1>4, <1>5

\* The ladder: positive, at least what was asked for, and never shrinking.
LEMMA LadderClimbs ==
  ASSUME NEW n \in Nat, NEW asked \in Int
  PROVE  /\ backoff(n, asked) \in Nat \ {0}
         /\ backoff(n, asked) >= asked
         /\ asked <= 0 => backoff(n, asked) = backoff(n, 0)
         /\ \A m \in 0..n : backoff(m, 0) <= backoff(n, 0)
<1>1. Len(Schedule) = 4
  BY DEF Schedule
<1>2. /\ Schedule[1] = Quarter /\ Schedule[2] = 4 * Quarter
      /\ Schedule[3] = 12 * Quarter /\ Schedule[4] = 32 * Quarter
  BY DEF Schedule
<1>3. ASSUME NEW m \in Nat
      PROVE  backoff(m, 0) = IF m = 0 THEN Quarter ELSE IF m = 1 THEN 4 * Quarter
                             ELSE IF m = 2 THEN 12 * Quarter ELSE 32 * Quarter
  BY <1>1, <1>2 DEF backoff
<1>4. backoff(n, asked) = IF asked > 0 THEN asked ELSE backoff(n, 0)
  BY DEF backoff
<1>5. \A m \in 0..n : backoff(m, 0) <= backoff(n, 0)
  BY <1>3, TheLadderFits
<1>6. backoff(n, 0) \in Nat \ {0}
  BY <1>3, TheLadderFits
<1> QED
  BY <1>4, <1>5, <1>6

\* One more answer on the list leaves the earlier ones where they were.
LEMMA OneMoreAnswer ==
  ASSUME TypeOK, NEW a \in Answers, answers' = Append(answers, a)
  PROVE  /\ answers' \in Seq(Answers)
         /\ Len(answers') = Len(answers) + 1 /\ Len(answers) \in Nat
         /\ DOMAIN answers = 1..Len(answers)
         /\ DOMAIN answers' = 1..(Len(answers) + 1)
         /\ answers'[Len(answers) + 1] = a
         /\ \A i \in DOMAIN answers : answers'[i] = answers[i]
BY AppendProperties DEF TypeOK

-----------------------------------------------------------------------------
\* A call begins with the right types.
LEMMA TypeBegins == Init => TypeOK
<1> SUFFICES ASSUME Init PROVE TypeOK
  OBVIOUS
<1>1. cancelled \in BOOLEAN /\ lateStart \in BOOLEAN /\ live \in BOOLEAN /\ builds \in BOOLEAN
  BY Zenon DEF Init
<1>2. setting \in Settings /\ attempt \in Nat /\ requests \in Nat /\ answers \in Seq(Answers)
  BY DEF Init
<1>3. pc = "send" /\ result = "none"
  BY DEF Init
<1> QED
  BY <1>1, <1>2, <1>3 DEF TypeOK

\* Every step of a call keeps its types.
LEMMA TypeStays == TypeOK /\ [Next]_vars => TypeOK'
<1> SUFFICES ASSUME TypeOK, [Next]_vars PROVE TypeOK'
  OBVIOUS
<1> USE DEF TypeOK
<1>0. CASE BuildFails
  BY <1>0 DEF BuildFails, Return
<1>1. CASE Send
  BY <1>1 DEF Send
<1>2. ASSUME NEW kind \in Final, AnswerFinal(kind) PROVE TypeOK'
  <2>1. [kind |-> kind, header |-> NoHeader, wait |-> 0] \in Answers
    BY DEF Answers, Headers, NoHeader
  <2> QED
    BY <1>2, <2>1 DEF AnswerFinal, Received, Return
<1>3. ASSUME NEW header \in RetryAfters, AnswerTransient(header) PROVE TypeOK'
  <2>1. header \in Headers /\ backoff(attempt, retryAfter(header)) \in Nat
    BY RetryAftersAreHeaders, AskedIsInt, LadderClimbs
  <2>2. /\ [kind |-> Transient, header |-> header, wait |-> 0] \in Answers
        /\ [kind |-> Transient, header |-> header,
            wait |-> backoff(attempt, retryAfter(header))] \in Answers
    BY <2>1 DEF Answers
  <2>3. \E a \in Answers : answers' = Append(answers, a)
    BY <1>3, <2>2 DEF AnswerTransient, Received
  <2>4. answers' \in Seq(Answers)
    BY <2>3, AppendProperties
  <2>5. /\ requests' = requests + 1
        /\ pc' \in {"wait", "done"} /\ result' \in {result, "unavailable"}
        /\ UNCHANGED <<setting, cancelled, lateStart, builds, live, attempt>>
    BY <1>3, Zenon DEF AnswerTransient, Return
  <2> QED
    BY <2>4, <2>5
<1>4. CASE WaitOver
  BY <1>4 DEF WaitOver
<1>5. CASE WaitCancelled
  BY <1>5 DEF WaitCancelled, Return
<1>6. CASE Cancel
  BY <1>6 DEF Cancel
<1>7. CASE UNCHANGED vars
  BY <1>7 DEF vars
<1> QED
  BY <1>0, <1>1, <1>2, <1>3, <1>4, <1>5, <1>6, <1>7 DEF Next, Step

\* The call keeps its types.
THEOREM TypeCorrect == Spec => []TypeOK
BY TypeBegins, TypeStays, PTL DEF Spec

\* A step that receives no answer keeps what CallInv says of the answers.
LEMMA NoNewAnswer ==
  ASSUME TypeOK, CallInv, UNCHANGED <<setting, answers, requests>>,
         \/ UNCHANGED <<pc, result>>
         \/ pc # "done" /\ pc' # "done" /\ result' = result
         \/ pc \in {"wait", "send"} /\ pc' = "done" /\ result' \in {"cancelled", "failed"}
  PROVE  LadderInv' /\ OnlyTransientIsRetried' /\ GivesUpOnlyWhenSpent'
<1>1. /\ maxRetries' = maxRetries /\ answers' = answers /\ requests' = requests
      /\ DOMAIN answers = 1..Len(answers) /\ Len(answers) \in Nat
  BY DEF TypeOK, maxRetries
<1>2. LadderInv /\ OnlyTransientIsRetried /\ GivesUpOnlyWhenSpent
  BY DEF CallInv
<1>3. pc # "done" => result = "none" /\ \A i \in DOMAIN answers : answers[i].kind = Transient
  BY DEF CallInv, AttemptsInv
<1>4. \A i \in DOMAIN answers : Retried(i)' => Retried(i)
  BY <1>1 DEF Retried
<1>5. LadderInv'
  BY <1>1, <1>2, <1>4 DEF LadderInv
<1>6. OnlyTransientIsRetried'
  BY <1>1, <1>2, <1>3 DEF OnlyTransientIsRetried, Retried
<1>7. GivesUpOnlyWhenSpent'
  BY <1>1, <1>2, <1>3 DEF GivesUpOnlyWhenSpent
<1> QED
  BY <1>5, <1>6, <1>7

\* A call begins with nothing attempted.
LEMMA CallBegins == Init => CallInv
<1> SUFFICES ASSUME Init PROVE CallInv
  OBVIOUS
<1>1. /\ answers = <<>> /\ Len(answers) = 0 /\ DOMAIN answers = {}
      /\ attempt = 0 /\ requests = 0 /\ pc = "send" /\ result = "none"
  BY DEF Init
<1>2. LateInv
  <2>1. lateStart = cancelled /\ live = FALSE
    BY Zenon DEF Init
  <2> QED
    BY <1>1, <2>1, Zenon DEF LateInv
<1>3. maxRetries \in Nat
  BY SettingsAreInts DEF Init, maxRetries, DefaultMaxRetries
<1>4. AttemptsInv /\ LadderInv /\ OnlyTransientIsRetried /\ GivesUpOnlyWhenSpent
  BY <1>1, <1>3 DEF AttemptsInv, LadderInv, OnlyTransientIsRetried, GivesUpOnlyWhenSpent
<1> QED
  BY <1>2, <1>4 DEF CallInv

\* Every step of a call keeps attempts, requests and answers in agreement.
LEMMA CallStays == TypeOK /\ CallInv /\ [Next]_vars => CallInv'
<1> SUFFICES ASSUME TypeOK, CallInv, [Next]_vars PROVE CallInv'
  OBVIOUS
<1>t. /\ maxRetries \in Nat /\ attempt \in Nat /\ requests \in Nat
      /\ Len(answers) \in Nat /\ DOMAIN answers = 1..Len(answers)
  BY RetriesAreNat DEF TypeOK
<1>i. AttemptsInv /\ LadderInv /\ LateInv
  BY DEF CallInv
<1>0. CASE BuildFails
  <2>1. /\ pc = "send" /\ pc' = "done" /\ UNCHANGED <<setting, answers, requests>>
        /\ result' = "failed" /\ attempt' = attempt /\ maxRetries' = maxRetries
    BY <1>0 DEF BuildFails, Return, maxRetries
  <2>2. LateInv'
    BY <1>0, <1>i DEF BuildFails, Return, LateInv
  <2>3. AttemptsInv'
    BY <1>t, <1>i, <2>1 DEF AttemptsInv
  <2> QED
    BY <2>1, <2>2, <2>3, NoNewAnswer DEF CallInv
<1>1. CASE Send
  <2>1. /\ pc = "send" /\ pc' = "flight" /\ UNCHANGED <<setting, answers, requests, result>>
        /\ attempt' = attempt /\ maxRetries' = maxRetries
    BY <1>1 DEF Send, maxRetries
  <2>2. LateInv'
    BY <1>1, <1>i DEF Send, LateInv
  <2>3. AttemptsInv'
    BY <1>i, <2>1 DEF AttemptsInv
  <2> QED
    BY <2>1, <2>2, <2>3, NoNewAnswer DEF CallInv
<1>2. ASSUME NEW kind \in Final, AnswerFinal(kind) PROVE CallInv'
  <2>1. PICK a \in Answers : /\ a = [kind |-> kind, header |-> NoHeader, wait |-> 0]
                             /\ answers' = Append(answers, a)
    BY <1>2 DEF AnswerFinal, Received, Answers, Headers, NoHeader
  <2>2. /\ Len(answers') = Len(answers) + 1
        /\ DOMAIN answers' = 1..(Len(answers) + 1)
        /\ answers'[Len(answers) + 1].kind = kind
        /\ \A i \in DOMAIN answers : answers'[i] = answers[i]
    BY <2>1, OneMoreAnswer
  <2>3. /\ pc = "flight" /\ pc' = "done" /\ result' = IF kind = "ok" THEN "ok" ELSE "failed"
        /\ requests' = requests + 1 /\ attempt' = attempt /\ maxRetries' = maxRetries
    BY <1>2 DEF AnswerFinal, Return, maxRetries
  <2>4. /\ Len(answers) = attempt /\ requests = Len(answers) /\ attempt <= maxRetries
        /\ \A i \in DOMAIN answers : answers[i].kind = Transient
    BY <1>i, <2>3 DEF AttemptsInv
  <2>5. AttemptsInv'
    BY <1>t, <2>2, <2>3, <2>4 DEF AttemptsInv
  <2>6. LadderInv'
    BY <1>t, <1>i, <2>2, <2>3, <2>4 DEF LadderInv, Retried
  <2>7. LateInv'
    BY <1>2, <1>i, <2>3 DEF AnswerFinal, LateInv
  <2>8. OnlyTransientIsRetried'
    BY <1>t, <2>2, <2>3, <2>4 DEF OnlyTransientIsRetried, Retried
  <2>9. GivesUpOnlyWhenSpent'
    BY <1>t, <2>2, <2>3, <2>4 DEF GivesUpOnlyWhenSpent
  <2> QED
    BY <2>5, <2>6, <2>7, <2>8, <2>9 DEF CallInv
<1>3. ASSUME NEW header \in RetryAfters, AnswerTransient(header) PROVE CallInv'
  <2>1. header \in Headers
    BY RetryAftersAreHeaders
  <2>2. /\ pc = "flight" /\ live /\ requests' = requests + 1 /\ attempt' = attempt
        /\ maxRetries' = maxRetries /\ lateStart' = lateStart
    BY <1>3 DEF AnswerTransient, maxRetries
  <2>3. /\ Len(answers) = attempt /\ requests = Len(answers) /\ attempt <= maxRetries
        /\ result = "none" /\ \A i \in DOMAIN answers : answers[i].kind = Transient
    BY <1>i, <2>2 DEF AttemptsInv
  <2>4. LateInv'
    BY <1>i, <2>2 DEF LateInv
  <2>5. CASE attempt >= maxRetries
    <3>1. PICK a \in Answers : /\ a = [kind |-> Transient, header |-> header, wait |-> 0]
                               /\ answers' = Append(answers, a)
      <4>1. [kind |-> Transient, header |-> header, wait |-> 0] \in Answers
        BY <2>1 DEF Answers
      <4>2. ~(attempt < maxRetries)
        BY <1>t, <2>5
      <4> QED
        BY <1>3, <2>1, <4>1, <4>2 DEF AnswerTransient, Received
    <3>2. /\ Len(answers') = Len(answers) + 1
          /\ DOMAIN answers' = 1..(Len(answers) + 1)
          /\ answers'[Len(answers) + 1].kind = Transient
          /\ \A i \in DOMAIN answers : answers'[i] = answers[i]
      BY <3>1, OneMoreAnswer
    <3>3. pc' = "done" /\ result' = "unavailable" /\ attempt = maxRetries
      BY <1>3, <1>t, <2>3, <2>5 DEF AnswerTransient, Return
    <3>4. AttemptsInv'
      BY <1>t, <2>2, <2>3, <3>2, <3>3 DEF AttemptsInv
    <3>5. LadderInv'
      BY <1>t, <1>i, <2>2, <3>2, <3>3 DEF LadderInv, Retried
    <3>6. OnlyTransientIsRetried'
      BY <1>t, <2>3, <3>2, <3>3 DEF OnlyTransientIsRetried, Retried
    <3>7. GivesUpOnlyWhenSpent'
      BY <1>t, <2>2, <2>3, <3>2, <3>3 DEF GivesUpOnlyWhenSpent
    <3> QED
      BY <2>4, <3>4, <3>5, <3>6, <3>7 DEF CallInv
  <2>6. CASE attempt < maxRetries
    <3>1. PICK wait \in Nat : wait = backoff(attempt, retryAfter(header))
      BY <1>t, <2>1, AskedIsInt, LadderClimbs
    <3>2. PICK a \in Answers : /\ a = [kind |-> Transient, header |-> header, wait |-> wait]
                               /\ answers' = Append(answers, a)
      <4>1. [kind |-> Transient, header |-> header, wait |-> wait] \in Answers
        BY <2>1 DEF Answers
      <4>2. ~(attempt >= maxRetries)
        BY <1>t, <2>6
      <4> QED
        BY <1>3, <2>1, <3>1, <4>1, <4>2 DEF AnswerTransient, Received
    <3>3. /\ Len(answers') = Len(answers) + 1
          /\ DOMAIN answers' = 1..(Len(answers) + 1)
          /\ answers'[Len(answers) + 1] = a
          /\ \A i \in DOMAIN answers : answers'[i] = answers[i]
      BY <3>2, OneMoreAnswer
    <3>4. pc' = "wait" /\ result' = "none"
      BY <1>3, <1>t, <2>3, <2>6 DEF AnswerTransient
    <3>5. AttemptsInv'
      BY <1>t, <2>2, <2>3, <2>6, <3>2, <3>3, <3>4 DEF AttemptsInv
    <3>6. LadderInv'
      <4> SUFFICES ASSUME NEW i \in DOMAIN answers'
                   PROVE  answers'[i].wait = backoff(i - 1, retryAfter(answers'[i].header))
        BY DEF LadderInv
      <4>1. CASE i = Len(answers) + 1
        <5>1. i - 1 = attempt
          BY <1>t, <2>3, <4>1
        <5> QED
          BY <3>1, <3>2, <3>3, <4>1, <5>1
      <4>2. CASE i \in DOMAIN answers
        BY <1>t, <1>i, <2>2, <3>3, <4>2 DEF LadderInv, Retried
      <4> QED
        BY <1>t, <3>3, <4>1, <4>2
    <3>7. OnlyTransientIsRetried'
      BY <1>t, <2>3, <3>2, <3>3, <3>4 DEF OnlyTransientIsRetried, Retried
    <3>8. GivesUpOnlyWhenSpent'
      BY <1>t, <2>2, <2>3, <2>6, <3>3, <3>4 DEF GivesUpOnlyWhenSpent
    <3> QED
      BY <2>4, <3>5, <3>6, <3>7, <3>8 DEF CallInv
  <2> QED
    BY <1>t, <2>5, <2>6
<1>4. CASE WaitOver
  <2>1. /\ pc = "wait" /\ pc' = "send" /\ UNCHANGED <<setting, answers, requests, result>>
        /\ attempt' = attempt + 1 /\ maxRetries' = maxRetries
    BY <1>4 DEF WaitOver, maxRetries
  <2>2. LateInv'
    BY <1>4, <1>i DEF WaitOver, LateInv
  <2>3. AttemptsInv'
    <3>1. /\ Len(answers) = attempt + 1 /\ attempt < maxRetries
          /\ requests = Len(answers) /\ result = "none"
          /\ \A i \in DOMAIN answers : answers[i].kind = Transient
      BY <1>i, <2>1 DEF AttemptsInv
    <3>2. attempt + 1 <= maxRetries
      BY <1>t, <3>1
    <3> QED
      BY <2>1, <3>1, <3>2 DEF AttemptsInv
  <2> QED
    BY <2>1, <2>2, <2>3, NoNewAnswer DEF CallInv
<1>5. CASE WaitCancelled
  <2>1. /\ pc = "wait" /\ pc' = "done" /\ UNCHANGED <<setting, answers, requests>>
        /\ result' = "cancelled" /\ attempt' = attempt /\ maxRetries' = maxRetries
    BY <1>5 DEF WaitCancelled, Return, maxRetries
  <2>2. LateInv'
    BY <1>5, <1>i DEF WaitCancelled, Return, LateInv
  <2>3. AttemptsInv'
    BY <1>i, <2>1 DEF AttemptsInv
  <2> QED
    BY <2>1, <2>2, <2>3, NoNewAnswer DEF CallInv
<1>6. CASE Cancel
  <2>1. UNCHANGED <<setting, pc, attempt, requests, answers, result>> /\ maxRetries' = maxRetries
    BY <1>6 DEF Cancel, maxRetries
  <2>2. LateInv'
    BY <1>6, <1>i DEF Cancel, LateInv
  <2>3. AttemptsInv'
    BY <1>i, <2>1 DEF AttemptsInv
  <2> QED
    BY <2>1, <2>2, <2>3, NoNewAnswer DEF CallInv
<1>7. CASE UNCHANGED vars
  <2>1. /\ UNCHANGED <<setting, pc, attempt, requests, answers, result, lateStart, cancelled, live>>
        /\ maxRetries' = maxRetries
    BY <1>7 DEF vars, maxRetries
  <2>2. LateInv' /\ AttemptsInv'
    BY <1>i, <2>1 DEF AttemptsInv, LateInv
  <2> QED
    BY <2>1, <2>2, NoNewAnswer DEF CallInv
<1> QED
  BY <1>0, <1>1, <1>2, <1>3, <1>4, <1>5, <1>6, <1>7 DEF Next, Step

\* CallInv holds in every reachable state.
THEOREM CallIsInductive == Spec => []CallInv
BY CallBegins, CallStays, TypeCorrect, PTL DEF Spec

\* Permanent refusals and transport errors are never retried (client.go:98-107).
THEOREM RetriesOnlyTheTransient == Spec => []OnlyTransientIsRetried
<1>1. CallInv => OnlyTransientIsRetried
  BY DEF CallInv
<1> QED
  BY <1>1, CallIsInductive, PTL

\* At most one request more than the retries allowed, and Horizon is reported
\* unavailable only once they are spent (client.go:87-96, 224-226).
THEOREM RetriesAreBounded == Spec => []GivesUpOnlyWhenSpent
<1>1. CallInv => GivesUpOnlyWhenSpent
  BY DEF CallInv
<1> QED
  BY <1>1, CallIsInductive, PTL

\* The ladder makes the waits long enough and never shorter.
LEMMA WaitsFollow == TypeOK /\ CallInv => WaitsAsAsked
<1> SUFFICES ASSUME TypeOK, CallInv, NEW i \in DOMAIN answers, Retried(i)
             PROVE  /\ answers[i].wait > 0
                    /\ Meant(answers[i].header) < Half => answers[i].wait >= Meant(answers[i].header)
                    /\ \A j \in 1..i :
                         retryAfter(answers[i].header) <= 0 /\ retryAfter(answers[j].header) <= 0 =>
                           answers[j].wait <= answers[i].wait
  BY DEF WaitsAsAsked
<1>1. /\ i \in Nat \ {0} /\ i <= Len(answers) /\ DOMAIN answers = 1..Len(answers)
      /\ Len(answers) \in Nat /\ \A k \in DOMAIN answers : answers[k].header \in Headers
  <2>1. answers \in Seq(Answers) /\ DOMAIN answers = 1..Len(answers) /\ Len(answers) \in Nat
    BY DEF TypeOK
  <2>2. \A k \in DOMAIN answers : answers[k] \in Answers
    BY <2>1
  <2> QED
    BY <2>1, <2>2 DEF Answers
<1>2. \A k \in DOMAIN answers :
        Retried(k) => answers[k].wait = backoff(k - 1, retryAfter(answers[k].header))
  BY DEF CallInv, LadderInv
<1>3. PICK asked \in Int :
        /\ asked = retryAfter(answers[i].header)
        /\ Meant(answers[i].header) < Half => asked = Meant(answers[i].header)
  BY <1>1, AskedIsInt
<1>4. answers[i].wait = backoff(i - 1, asked) /\ i - 1 \in Nat
  BY <1>1, <1>2, <1>3
<1>5. ASSUME NEW j \in 1..i, asked <= 0, retryAfter(answers[j].header) <= 0
      PROVE  answers[j].wait <= answers[i].wait
  <2>1. j \in DOMAIN answers /\ Retried(j) /\ j - 1 \in 0..(i - 1) /\ j - 1 \in Nat
    BY <1>1 DEF Retried
  <2>2. answers[j].wait = backoff(j - 1, 0)
    BY <1>1, <1>2, <1>5, <2>1, AskedIsInt, LadderClimbs
  <2>3. answers[i].wait = backoff(i - 1, 0)
    BY <1>4, <1>5, LadderClimbs
  <2> QED
    BY <1>4, <2>1, <2>2, <2>3, LadderClimbs
<1>6. backoff(i - 1, asked) \in Nat \ {0} /\ backoff(i - 1, asked) >= asked
  BY <1>4, LadderClimbs
<1> QED
  BY <1>3, <1>4, <1>5, <1>6

\* Each retry waits, as long as was asked where that fits a Duration, and never
\* less than an earlier one that the header did not decide (client.go:133-183).
THEOREM RetriesWait == Spec => []WaitsAsAsked
BY WaitsFollow, TypeCorrect, CallIsInductive, PTL

\* A call that starts too late has at most the one attempt.
LEMMA LateFollows == TypeOK /\ CallInv => NothingAfterCancel
<1> SUFFICES ASSUME TypeOK, CallInv, lateStart PROVE result # "ok" /\ Len(answers) <= 1
  BY DEF NothingAfterCancel
<1> QED
  BY RetriesAreNat DEF CallInv, LateInv, AttemptsInv, TypeOK

\* A call that starts on a cancelled context returns nothing and ends with its
\* first request (client.go:197-206).
THEOREM CancelledCallsAreOver == Spec => []NothingAfterCancel
BY LateFollows, TypeCorrect, CallIsInductive, PTL
=============================================================================

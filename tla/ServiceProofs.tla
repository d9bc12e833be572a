---------------------------- MODULE ServiceProofs ----------------------------
(***************************************************************************)
(* Proofs about the services under the corpus, for every value of their    *)
(* constants: the HTTP client keeps to its rate, its budget and the        *)
(* server's hints; the listing yields every map once; the table of         *)
(* migrations never runs ahead of the schema; and what a replay's row      *)
(* names is there and whole.                                               *)
(***************************************************************************)
EXTENDS HttpClient, TmxListing, Migrations, ReplayCorpus, Orders
-----------------------------------------------------------------------------
(* The HTTP client *)

Places == {"idle", "acquire", "send", "put", "putWrite", "putRename", "done"}
Answers == {NoAnswer, HttpError} \cup
           [kind : {"response"}, status : Status, version : Nat, fromCache : BOOLEAN]
CallRec == [at : Places, calls : Nat, cached : BOOLEAN, asked : Nat, attempt : Nat,
            waited : Nat, stalled : Nat, since : Nat, hint : Nat, got : Nat, answer : Answers]

HttpTypes ==
    /\ site \in Nat /\ entry \in Int /\ scratch \in Int
    /\ level \in 0..Full /\ burst \in Nat
    /\ call \in CallRec

\* What was spent above the refill rate is missing from the bucket.
Bucket == level + burst <= Full

\* Each attempt has waited for one token at most: once the wait is over the
\* token is there, and nobody else takes it.
Waits ==
    /\ call.attempt < Attempts /\ call.waited <= MaxTotal
    /\ call.stalled <= call.waited + call.attempt * TokenUnit + TokenUnit
    /\ call.at = "acquire" /\ level < TokenUnit =>
          call.stalled <= call.waited + call.attempt * TokenUnit
    /\ call.at \in {"acquire", "send"} => call.since >= call.hint

\* Only whole files of versions the site has served are renamed over the entry.
Cached ==
    /\ entry \in 0..site /\ call.asked <= site
    /\ call.at \in {"put", "putWrite", "putRename"} => call.got \in 1..site
    /\ call.at = "putRename" => scratch = call.got
    /\ site > 0
    /\ call.answer.kind = "response" =>
          /\ ~call.cached => call.answer.version >= call.asked
          /\ call.answer.fromCache => call.answer.version \in 1..site

HttpInv == HttpTypes /\ Bucket /\ Waits /\ Cached

LEMMA HttpConstants ==
    /\ TokenUnit \in Nat /\ TokenUnit > 0 /\ Full \in Nat /\ Full >= TokenUnit
    /\ MaxTotal \in Nat /\ Hints \subseteq Nat
    /\ Backoff \in Seq(Nat \ {0}) /\ Attempts \in Nat /\ Attempts > 0
    /\ \A k \in Nat : k < Attempts => k * TokenUnit + TokenUnit <= Attempts * TokenUnit
  <1>1. TokenUnit \in Nat /\ TokenUnit > 0 /\ Capacity \in Nat /\ Capacity > 0
    BY HttpAssumption
  <1>2. Full \in Nat /\ Full >= TokenUnit
    BY <1>1 DEF Full
  <1>3. Attempts \in Nat /\ Attempts > 0
    BY HttpAssumption DEF Attempts
  <1>4. ASSUME NEW k \in Nat, k < Attempts
        PROVE  k * TokenUnit + TokenUnit <= Attempts * TokenUnit
    <2>1. (k + 1) * TokenUnit <= Attempts * TokenUnit
      BY <1>1, <1>3, <1>4
    <2> QED
      BY <1>1, <1>3, <2>1
  <1> QED
    BY <1>1, <1>2, <1>3, <1>4, HttpAssumption

LEMMA AnswerFields ==
    /\ NoAnswer \in Answers /\ NoAnswer.kind # "response"
    /\ HttpError \in Answers /\ HttpError.kind # "response"
    /\ \A st \in Status, v \in Nat, c \in BOOLEAN :
          /\ Response(st, v, c) \in Answers
          /\ Response(st, v, c).kind = "response"
          /\ Response(st, v, c).version = v /\ Response(st, v, c).fromCache = c
    /\ Idle \in CallRec /\ Idle.at = "idle" /\ Idle.attempt = 0 /\ Idle.waited = 0
    /\ Idle.stalled = 0 /\ Idle.since = 0 /\ Idle.hint = 0 /\ Idle.asked = 0
    /\ Idle.cached = TRUE /\ Idle.answer = NoAnswer
  BY DEF NoAnswer, HttpError, Response, Answers, Idle, CallRec, Places

\* Time that passes refills the bucket and the window at the same rate.
LEMMA SleepRefills ==
    ASSUME level \in 0..Full, burst \in Nat, Bucket, NEW t \in Nat, Sleep(t)
    PROVE  level' \in 0..Full /\ burst' \in Nat /\ Bucket' /\ level' >= level
           /\ (level + t >= TokenUnit => level' >= TokenUnit)
  BY HttpConstants DEF Bucket, Sleep, Refill, Lesser

\* The updates of the call under way.
Begun(calls, cached, asked, at, a) ==
    [Idle EXCEPT !.calls = calls, !.cached = cached, !.asked = asked, !.at = at, !.answer = a]
Stalled(q, since, stalled) == [q EXCEPT !.since = since, !.stalled = stalled]
Retried(q, attempt, since, waited, stalled, hint) ==
    [q EXCEPT !.at = "acquire", !.attempt = attempt, !.since = since, !.waited = waited,
              !.stalled = stalled, !.hint = hint]

LEMMA BegunCall ==
    ASSUME NEW calls \in Nat, NEW cached \in BOOLEAN, NEW asked \in Nat, NEW at \in Places,
           NEW a \in Answers
    PROVE  LET c == Begun(calls, cached, asked, at, a) IN
           /\ c \in CallRec /\ c.at = at /\ c.asked = asked /\ c.cached = cached
           /\ c.attempt = 0 /\ c.waited = 0 /\ c.stalled = 0 /\ c.since = 0 /\ c.hint = 0
           /\ c.answer = a
  BY DEF Begun, Idle, CallRec

LEMMA StalledCall ==
    ASSUME NEW q \in CallRec, NEW since \in Nat, NEW stalled \in Nat
    PROVE  LET c == Stalled(q, since, stalled) IN
           /\ c \in CallRec /\ c.at = q.at /\ c.asked = q.asked /\ c.cached = q.cached
           /\ c.attempt = q.attempt /\ c.waited = q.waited
           /\ c.stalled = stalled /\ c.since = since
           /\ c.hint = q.hint /\ c.answer = q.answer
  BY DEF Stalled, CallRec

\* One action each.  Only an update of `call` by a known record matters.
LEMMA HttpGet ==
    ASSUME HttpInv, NEW useCache \in BOOLEAN, Get(useCache)
    PROVE  HttpInv'
  <1> DEFINE at == IF useCache /\ entry # 0 THEN "done" ELSE "acquire"
             a == IF useCache /\ entry # 0 THEN Response("ok", entry, TRUE) ELSE NoAnswer
             c == Begun(call.calls + 1, useCache, site, at, a)
  <1>1. call' = c /\ UNCHANGED <<site, entry, scratch, level, burst>>
    BY Zenon DEF Get, Begun
  <1>2. site \in Nat /\ site > 0 /\ entry \in 0..site /\ call \in CallRec
    BY DEF HttpInv, HttpTypes, Cached
  <1>3. call.calls + 1 \in Nat
    BY <1>2 DEF CallRec
  <1>4. /\ a \in Answers /\ at \in Places
        /\ a.kind = "response" => useCache /\ a.version \in 1..site
    <2>1. entry # 0 => entry \in Nat /\ entry \in 1..site
      BY <1>2
    <2>2. "ok" \in Status /\ {"done", "acquire"} \subseteq Places
      BY DEF Status, Places
    <2> QED
      BY <2>1, <2>2, AnswerFields
  <1> HIDE DEF a, at
  <1>5. /\ c \in CallRec /\ c.at = at /\ c.asked = site /\ c.cached = useCache
        /\ c.attempt = 0 /\ c.waited = 0 /\ c.stalled = 0
        /\ c.since = 0 /\ c.hint = 0 /\ c.answer = a
    BY <1>2, <1>3, <1>4, BegunCall
  <1>9. at \in {"done", "acquire"}
    BY DEF at
  <1> HIDE DEF c
  <1>6. HttpTypes' /\ Bucket'
    BY <1>1, <1>5 DEF HttpInv, HttpTypes, Bucket
  <1>7. Waits'
    BY <1>1, <1>5, HttpConstants DEF Waits
  <1>8. Cached'
    BY <1>1, <1>2, <1>4, <1>5, <1>9 DEF HttpInv, Cached
  <1> QED
    BY <1>6, <1>7, <1>8 DEF HttpInv

LEMMA HttpAcquire ==
    ASSUME HttpInv, Acquire
    PROVE  HttpInv'
  <1> DEFINE c == [call EXCEPT !.at = "send"]
  <1>1. /\ call' = c /\ UNCHANGED <<site, entry, scratch>>
        /\ call.at = "acquire" /\ level >= TokenUnit
        /\ level' = level - TokenUnit /\ burst' = burst + TokenUnit
    BY DEF Acquire
  <1>2. /\ c \in CallRec /\ c.at = "send" /\ c.asked = call.asked /\ c.cached = call.cached
        /\ c.attempt = call.attempt /\ c.waited = call.waited /\ c.stalled = call.stalled
        /\ c.since = call.since /\ c.hint = call.hint /\ c.answer = call.answer
    BY DEF HttpInv, HttpTypes, CallRec, Places
  <1> HIDE DEF c
  <1>3. HttpTypes' /\ Bucket'
    BY <1>1, <1>2, HttpConstants DEF HttpInv, HttpTypes, Bucket
  <1>4. Waits'
    BY <1>1, <1>2 DEF HttpInv, Waits
  <1>5. Cached'
    BY <1>1, <1>2 DEF HttpInv, Cached
  <1> QED
    BY <1>3, <1>4, <1>5 DEF HttpInv

LEMMA HttpAwaitToken ==
    ASSUME HttpInv, AwaitToken
    PROVE  HttpInv'
  <1> DEFINE t == TokenUnit - level
             c == Stalled(call, call.since + t, call.stalled + t)
  <1>1. /\ call' = c /\ UNCHANGED <<site, entry, scratch>>
        /\ call.at = "acquire" /\ level < TokenUnit /\ Sleep(t)
    BY Zenon DEF AwaitToken, Stalled
  <1>2. t \in Nat /\ t <= TokenUnit /\ level + t >= TokenUnit
    BY <1>1, HttpConstants DEF HttpInv, HttpTypes
  <1>3. /\ call.since \in Nat /\ call.stalled \in Nat /\ call.attempt \in Nat
        /\ call.waited \in Nat /\ call.hint \in Nat
    BY DEF HttpInv, HttpTypes, CallRec
  <1> HIDE DEF t
  <1>4. /\ c \in CallRec /\ c.at = call.at /\ c.asked = call.asked /\ c.cached = call.cached
        /\ c.attempt = call.attempt /\ c.waited = call.waited
        /\ c.stalled = call.stalled + t /\ c.since = call.since + t
        /\ c.hint = call.hint /\ c.answer = call.answer
    <2>1. call \in CallRec /\ call.since + t \in Nat /\ call.stalled + t \in Nat
      BY <1>2, <1>3 DEF HttpInv, HttpTypes
    <2> QED
      BY <2>1, StalledCall, ZenonT(40)
  <1> HIDE DEF c
  <1>5. level' \in 0..Full /\ burst' \in Nat /\ Bucket' /\ level' >= TokenUnit
    BY <1>1, <1>2, SleepRefills DEF HttpInv, HttpTypes
  <1>6. HttpTypes'
    BY <1>1, <1>4, <1>5 DEF HttpInv, HttpTypes
  <1>7. Waits'
    <2> DEFINE k == call.attempt * TokenUnit
    <2>1. k \in Nat
      BY <1>3, HttpConstants
    <2>2. call.stalled <= call.waited + k
      BY <1>1 DEF HttpInv, Waits
    <2>3. call.attempt < Attempts /\ call.waited <= MaxTotal /\ call.since >= call.hint
      BY <1>1 DEF HttpInv, Waits
    <2>4. call'.attempt * TokenUnit = k
      BY <1>1, <1>4
    <2> HIDE DEF k
    <2> QED
      <3>1. /\ call'.at = "acquire" /\ call'.attempt = call.attempt
            /\ call'.waited = call.waited /\ call'.stalled = call.stalled + t
            /\ call'.since = call.since + t /\ call'.hint = call.hint
        BY <1>1, <1>4
      <3>2. call'.stalled <= call'.waited + call'.attempt * TokenUnit + TokenUnit
        BY <1>2, <1>3, <2>1, <2>2, <2>4, <3>1, HttpConstants, SMTT(30)
      <3>3. call'.since >= call'.hint /\ ~(level' < TokenUnit)
        BY <1>2, <1>3, <1>5, <2>3, <3>1, HttpConstants
      <3> QED
        BY <2>3, <3>1, <3>2, <3>3 DEF Waits
  <1>8. Cached'
    BY <1>1, <1>4 DEF HttpInv, Cached
  <1> QED
    BY <1>5, <1>6, <1>7, <1>8 DEF HttpInv

LEMMA HttpAnswered ==
    ASSUME HttpInv, NEW status \in Status, Answered(status)
    PROVE  HttpInv'
  <1> DEFINE a == Response(status, site, FALSE)
             put == status = "ok" /\ call.cached
             c == IF put THEN [call EXCEPT !.at = "put", !.got = site, !.answer = a]
                         ELSE [call EXCEPT !.at = "done", !.answer = a]
  <1>1. call' = c /\ UNCHANGED <<site, entry, scratch, level, burst>> /\ call.at = "send"
    BY Zenon DEF Answered, Return
  <1>2. site \in Nat /\ site > 0
    BY DEF HttpInv, HttpTypes, Cached
  <1>3. a \in Answers /\ a.version = site /\ ~a.fromCache
    BY <1>2, AnswerFields
  <1> HIDE DEF a
  <1>4. /\ c \in CallRec /\ c.at = (IF put THEN "put" ELSE "done") /\ c.asked = call.asked
        /\ c.cached = call.cached /\ c.attempt = call.attempt /\ c.waited = call.waited
        /\ c.stalled = call.stalled /\ c.since = call.since /\ c.hint = call.hint
        /\ c.answer = a /\ (put => c.got = site)
    <2>1. call \in CallRec
      BY DEF HttpInv, HttpTypes
    <2>2. CASE put
      BY <1>2, <1>3, <2>1, <2>2 DEF CallRec, Places
    <2>3. CASE ~put
      BY <1>2, <1>3, <2>1, <2>3 DEF CallRec, Places
    <2> QED
      BY <2>2, <2>3
  <1> HIDE DEF c
  <1>5. HttpTypes' /\ Bucket'
    BY <1>1, <1>4 DEF HttpInv, HttpTypes, Bucket
  <1>6. Waits'
    BY <1>1, <1>4 DEF HttpInv, Waits
  <1>7. Cached'
    BY <1>1, <1>2, <1>3, <1>4 DEF HttpInv, Cached
  <1> QED
    BY <1>5, <1>6, <1>7 DEF HttpInv

LEMMA HttpRetry ==
    ASSUME HttpInv, NEW failure, Retry(failure)
    PROVE  HttpInv'
  <1>1. PICK scheduled \in JitteredWaits(call.attempt + 1),
             hint \in (IF failure = "retryable" THEN Hints ELSE {0}) :
                /\ WithinBudget(call.waited, NextWait(scheduled, hint))
                /\ Sleep(NextWait(scheduled, hint))
                /\ call' = [call EXCEPT !.at = "acquire", !.attempt = @ + 1,
                               !.since = NextWait(scheduled, hint),
                               !.waited = @ + NextWait(scheduled, hint),
                               !.stalled = @ + NextWait(scheduled, hint), !.hint = hint]
    BY Zenon DEF Retry
  <1> DEFINE w == NextWait(scheduled, hint)
             n == call.attempt + 1
             waited == call.waited + w
             stalled == call.stalled + w
             c == Retried(call, n, w, waited, stalled, hint)
  <1>2. call.at = "send" /\ call.attempt < Attempts - 1 /\ UNCHANGED <<site, entry, scratch>>
    BY DEF Retry
  <1>3. hint \in Nat /\ scheduled \in Nat
    BY HttpConstants DEF JitteredWaits
  <1>4. w \in Nat /\ w >= hint
    BY <1>3 DEF NextWait
  <1>5. /\ call.since \in Nat /\ call.stalled \in Nat /\ call.attempt \in Nat
        /\ call.waited \in Nat /\ call.hint \in Nat
    BY DEF HttpInv, HttpTypes, CallRec
  <1>6. call.waited + w <= MaxTotal /\ Sleep(w) /\ call' = c
    BY <1>1, Zenon DEF WithinBudget, Retried
  <1> HIDE DEF w
  <1>7. /\ c \in CallRec /\ c.at = "acquire" /\ c.asked = call.asked /\ c.cached = call.cached
        /\ c.attempt = call.attempt + 1 /\ c.waited = call.waited + w
        /\ c.stalled = call.stalled + w /\ c.since = w
        /\ c.hint = hint /\ c.answer = call.answer
    <2>1. call \in CallRec /\ n \in Nat /\ waited \in Nat /\ stalled \in Nat
      BY <1>4, <1>5 DEF HttpInv, HttpTypes
    <2>2. n = call.attempt + 1 /\ waited = call.waited + w /\ stalled = call.stalled + w
      OBVIOUS
    <2> HIDE DEF n, waited, stalled
    <2> QED
      <3> HIDE DEF c
      <3>1. ASSUME NEW d, d = Retried(call, n, w, waited, stalled, hint)
            PROVE  /\ d \in CallRec /\ d.at = "acquire" /\ d.asked = call.asked
                   /\ d.cached = call.cached /\ d.attempt = n /\ d.waited = waited
                   /\ d.stalled = stalled /\ d.since = w /\ d.hint = hint
                   /\ d.answer = call.answer
        BY <1>3, <1>4, <2>1, <3>1 DEF Retried, CallRec, Places
      <3> QED
        BY <2>2, <3>1 DEF c
  <1> HIDE DEF c
  <1>8. level' \in 0..Full /\ burst' \in Nat /\ Bucket'
    BY <1>4, <1>6, SleepRefills DEF HttpInv, HttpTypes
  <1>9. HttpTypes'
    BY <1>2, <1>6, <1>7, <1>8 DEF HttpInv, HttpTypes
  <1>10. Waits'
    <2>1. call.stalled <= call.waited + call.attempt * TokenUnit + TokenUnit
      BY DEF HttpInv, Waits
    <2>2. (call.attempt + 1) * TokenUnit = call.attempt * TokenUnit + TokenUnit
      BY <1>5, HttpConstants
    <2> DEFINE k == (call.attempt + 1) * TokenUnit
    <2>3. k \in Nat /\ call.stalled <= call.waited + k /\ call'.attempt * TokenUnit = k
      BY <1>5, <1>6, <1>7, <2>1, <2>2, HttpConstants, SMTT(30)
    <2>t. TokenUnit \in Nat
      BY HttpConstants
    <2> HIDE DEF k
    <2> QED
      <3>1. /\ call'.at = "acquire" /\ call'.attempt = call.attempt + 1
            /\ call'.waited = call.waited + w /\ call'.stalled = call.stalled + w
            /\ call'.since = w /\ call'.hint = hint
        BY <1>6, <1>7
      <3>2. call'.stalled <= call'.waited + call'.attempt * TokenUnit
        BY <1>4, <1>5, <2>3, <3>1
      <3>3. call'.stalled <= call'.waited + call'.attempt * TokenUnit + TokenUnit
        <4>1. call'.stalled \in Nat /\ call'.waited + k \in Nat /\ TokenUnit \in Nat
          BY <1>4, <1>5, <2>3, <2>t, <3>1
        <4>2. call'.stalled <= call'.waited + k + TokenUnit
          <5>1. call'.stalled <= call'.waited + k
            BY <2>3, <3>2
          <5> QED
            BY <4>1, <5>1
        <4> QED
          BY <2>3, <4>2
      <3>4. call'.attempt < Attempts
        BY <1>2, <1>5, <3>1, HttpConstants
      <3> QED
        BY <1>4, <1>6, <3>1, <3>2, <3>3, <3>4 DEF Waits
  <1>11. Cached'
    BY <1>2, <1>6, <1>7 DEF HttpInv, Cached
  <1> QED
    BY <1>8, <1>9, <1>10, <1>11 DEF HttpInv

LEMMA HttpGiveUp ==
    ASSUME HttpInv, NEW failure, GiveUp(failure)
    PROVE  HttpInv'
  <1> DEFINE a == IF failure = "retryable" THEN Response("retryable", site, FALSE) ELSE HttpError
             c == [call EXCEPT !.at = "done", !.answer = a]
  <1>1. call' = c /\ UNCHANGED <<site, entry, scratch, level, burst>>
    BY Zenon DEF GiveUp, Return
  <1>2. site \in Nat /\ site > 0
    BY DEF HttpInv, HttpTypes, Cached
  <1>3. a \in Answers /\ (a.kind = "response" => a.version = site /\ ~a.fromCache)
    BY <1>2, AnswerFields DEF Status
  <1> HIDE DEF a
  <1>4. /\ c \in CallRec /\ c.at = "done" /\ c.asked = call.asked
        /\ c.cached = call.cached /\ c.attempt = call.attempt /\ c.waited = call.waited
        /\ c.stalled = call.stalled /\ c.since = call.since /\ c.hint = call.hint
        /\ c.answer = a
    BY <1>3 DEF HttpInv, HttpTypes, CallRec, Places
  <1> HIDE DEF c
  <1>5. HttpTypes' /\ Bucket'
    BY <1>1, <1>4 DEF HttpInv, HttpTypes, Bucket
  <1>6. Waits'
    BY <1>1, <1>4 DEF HttpInv, Waits
  <1>7. Cached'
    BY <1>1, <1>2, <1>3, <1>4 DEF HttpInv, Cached
  <1> QED
    BY <1>5, <1>6, <1>7 DEF HttpInv

\* The entry is replaced by a whole file; whatever the scratch file holds, a
\* process that dies leaves the entry as it was.
LEMMA HttpPut ==
    ASSUME HttpInv, PutOpen \/ PutWrite \/ PutRename
    PROVE  HttpInv'
  <1>1. PICK at \in {"putWrite", "putRename", "done"} : call' = [call EXCEPT !.at = at]
    BY Zenon DEF PutOpen, PutWrite, PutRename
  <1>2. UNCHANGED <<site, level, burst>>
    BY DEF PutOpen, PutWrite, PutRename
  <1>3. /\ call' \in CallRec /\ call'.at = at /\ call'.asked = call.asked
        /\ call'.cached = call.cached /\ call'.attempt = call.attempt
        /\ call'.waited = call.waited /\ call'.stalled = call.stalled
        /\ call'.since = call.since /\ call'.hint = call.hint
        /\ call'.answer = call.answer /\ call'.got = call.got
    BY <1>1 DEF HttpInv, HttpTypes, CallRec, Places
  <1>4. call.got \in 1..site /\ entry \in 0..site /\ site \in Nat
    BY DEF HttpInv, HttpTypes, Cached, PutOpen, PutWrite, PutRename
  <1>5. /\ entry' \in 0..site /\ scratch' \in Int
        /\ call'.at = "putRename" => scratch' = call.got
    <2>1. CASE PutOpen
      BY <1>4, <2>1, <1>3 DEF PutOpen, Torn, HttpInv, HttpTypes, CallRec
    <2>2. CASE PutWrite
      BY <1>4, <2>2 DEF PutWrite
    <2>3. CASE PutRename
      BY <1>4, <2>3, <1>3 DEF PutRename, HttpInv, Cached, HttpTypes, CallRec
    <2> QED
      BY <2>1, <2>2, <2>3
  <1>6. HttpTypes' /\ Bucket'
    BY <1>2, <1>3, <1>4, <1>5 DEF HttpInv, HttpTypes, Bucket
  <1>7. Waits'
    BY <1>1, <1>2, <1>3 DEF HttpInv, Waits
  <1>8. Cached'
    BY <1>2, <1>3, <1>4, <1>5 DEF HttpInv, Cached
  <1> QED
    BY <1>6, <1>7, <1>8 DEF HttpInv

LEMMA HttpWorld ==
    ASSUME HttpInv, Publish \/ ProcessRestarts
    PROVE  HttpInv'
  <1>1. CASE Publish
    <2>1. HttpTypes' /\ Bucket' /\ Waits'
      BY <1>1 DEF Publish, HttpInv, HttpTypes, Bucket, Waits
    <2>2. Cached'
      <3>1. site' = site + 1 /\ site \in Nat /\ UNCHANGED <<entry, scratch, call>>
        BY <1>1 DEF Publish, HttpInv, HttpTypes
      <3>2. call.asked \in Nat /\ call.got \in Nat
        BY DEF HttpInv, HttpTypes, CallRec
      <3> QED
        BY <3>1, <3>2 DEF HttpInv, Cached
    <2> QED
      BY <2>1, <2>2 DEF HttpInv
  <1>2. CASE ProcessRestarts
    <2>1. /\ call' = [Idle EXCEPT !.calls = call.calls] /\ level' = Full /\ burst' = 0
          /\ UNCHANGED <<site, entry, scratch>>
      BY <1>2 DEF ProcessRestarts
    <2>2. /\ call' \in CallRec /\ call'.at = "idle" /\ call'.attempt = 0 /\ call'.waited = 0
          /\ call'.stalled = 0 /\ call'.since = 0 /\ call'.hint = 0 /\ call'.asked = 0
          /\ call'.answer = NoAnswer
      BY <2>1 DEF HttpInv, HttpTypes, CallRec, Idle, Places, Answers
    <2>3. HttpTypes' /\ Bucket'
      BY <2>1, <2>2, HttpConstants DEF HttpInv, HttpTypes, Bucket
    <2>4. Waits'
      BY <2>2, HttpConstants DEF Waits
    <2>5. Cached'
      BY <2>1, <2>2, AnswerFields DEF HttpInv, HttpTypes, Cached
    <2> QED
      BY <2>3, <2>4, <2>5 DEF HttpInv
  <1> QED
    BY <1>1, <1>2

\* The client never sends more than its bucket allows, never before the time a
\* server asked for, never longer than its budget, and never answers with a torn
\* or an invented file: for every backoff table, jitter, hint and rate
\* (http.py:119-221, cache.py:37, rate_limit.py:45).
THEOREM FetchIsSafe == HttpSpec => []FetchSafe
  <1>1. ASSUME HttpInit PROVE HttpInv
    <2>1. /\ site = 1 /\ entry = 0 /\ scratch = 0 /\ level = Full /\ burst = 0 /\ call = Idle
      BY <1>1 DEF HttpInit
    <2>2. HttpTypes /\ Bucket
      BY <2>1, AnswerFields, HttpConstants DEF HttpTypes, Bucket
    <2>3. Waits
      BY <2>1, AnswerFields, HttpConstants DEF Waits
    <2>4. Cached
      BY <2>1, AnswerFields DEF Cached
    <2> QED
      BY <2>2, <2>3, <2>4 DEF HttpInv
  <1>2. ASSUME HttpInv, [HttpNext]_httpVars PROVE HttpInv'
    <2>1. CASE UNCHANGED httpVars
      BY <1>2, <2>1 DEF httpVars, HttpInv, HttpTypes, Bucket, Waits, Cached
    <2>2. CASE HttpNext
      BY <1>2, <2>2, HttpGet, HttpAcquire, HttpAwaitToken, HttpAnswered, HttpRetry,
         HttpGiveUp, HttpPut, HttpWorld DEF HttpNext, HttpStep
    <2> QED
      BY <1>2, <2>1, <2>2
  <1>3. ASSUME HttpInv PROVE FetchSafe
    <2>1. /\ call \in CallRec /\ site \in Nat /\ level \in 0..Full /\ burst \in Nat
      BY <1>3 DEF HttpInv, HttpTypes
    <2>2. RateBound
      BY <1>3, <2>1, HttpConstants DEF HttpInv, Bucket, RateBound
    <2>3. HintRespected
      BY <1>3 DEF HttpInv, Waits, HintRespected
    <2>4. FreshOrWhole
      BY <1>3, <2>1 DEF HttpInv, Cached, FreshOrWhole, Torn
    <2>5. StallBounded
      <3>1. call.attempt \in Nat /\ call.waited \in Nat /\ call.stalled \in Nat
        BY <2>1 DEF CallRec
      <3>2. /\ call.stalled <= call.waited + call.attempt * TokenUnit + TokenUnit
            /\ call.attempt < Attempts /\ call.waited <= MaxTotal
        BY <1>3 DEF HttpInv, Waits
      <3>3. call.attempt * TokenUnit + TokenUnit <= Attempts * TokenUnit
        BY <3>1, <3>2, HttpConstants
      <3> QED
        BY <3>1, <3>2, <3>3, HttpConstants, SMTT(30) DEF StallBounded
    <2> QED
      BY <2>2, <2>3, <2>4, <2>5 DEF FetchSafe
  <1> QED
    BY <1>1, <1>2, <1>3, PTL DEF HttpSpec
-----------------------------------------------------------------------------
(* The migrations *)

Done(f) == \A i \in DOMAIN Files[f] : <<f, i>> \in executed
Hashes == [DOMAIN Files -> {1, 2}]
RunnerRec == [at : {"off", "list", "next", "apply", "record", "failed"},
              file : 1..(Len(Files) + 1), stmt : Nat, seen : SUBSET DOMAIN Files,
              disk : Hashes \cup {<< >>}]

MigrationTypes ==
    /\ recorded \in [DOMAIN Files -> {0, 1, 2}] /\ onDisk \in Hashes
    /\ runner \in [Runners -> RunnerRec]

\* A runner knows the files it saw applied to be so, and those it has passed to
\* be unedited; it has executed every statement it has passed.
Progress ==
    \A r \in Runners : LET w == runner[r] IN
        /\ w.at \notin {"off", "failed"} => w.disk \in Hashes
        /\ w.seen \subseteq Applied
        /\ w.at \in {"next", "apply", "record"} =>
              \A g \in w.seen : g < w.file => w.disk[g] = recorded[g]
        /\ w.at = "list" => w.file = 1 \/ (w.file = 2 /\ recorded[1] = w.disk[1])
        /\ w.at \in {"list", "next", "apply", "record"} =>
              \A g \in DOMAIN Files : g < w.file => Done(g)
        /\ w.at \in {"apply", "record"} => w.file \in DOMAIN Files
        /\ w.at = "apply" => /\ w.stmt \in DOMAIN Files[w.file]
                             /\ \A i \in 1..(w.stmt - 1) : <<w.file, i>> \in executed
        /\ w.at = "record" => Done(w.file)

MigrationInv == MigrationTypes /\ Progress /\ RecordedIsDone

\* The updates of a runner.
Begins(disk, at) == [Off EXCEPT !.at = at, !.disk = disk]
Sees(w, seen) == [w EXCEPT !.at = "next", !.seen = seen]
Passes(w, f) == [w EXCEPT !.file = f]
Applies(w) == [w EXCEPT !.at = "apply", !.stmt = 1]
GoesTo(w, at) == [w EXCEPT !.at = at]
Steps(w, i) == [w EXCEPT !.stmt = i]
Records(w, at, f) == [w EXCEPT !.at = at, !.file = f]

LEMMA FilesAre ==
    /\ Len(Files) \in Nat /\ Len(Files) > 0 /\ DOMAIN Files = 1..Len(Files)
    /\ \A f \in DOMAIN Files : /\ DOMAIN Files[f] = 1..Len(Files[f])
                               /\ Len(Files[f]) \in Nat /\ Len(Files[f]) > 0
    /\ 1 \in DOMAIN Files
  BY MigrationsAssumption

LEMMA RunnerUpdates ==
    ASSUME NEW w \in RunnerRec
    PROVE  /\ \A at \in {"list", "next", "apply", "record", "failed"} :
                 LET n == GoesTo(w, at) IN
                 /\ n \in RunnerRec /\ n.at = at /\ n.file = w.file /\ n.stmt = w.stmt
                 /\ n.seen = w.seen /\ n.disk = w.disk
           /\ \A seen \in SUBSET DOMAIN Files :
                 LET n == Sees(w, seen) IN
                 /\ n \in RunnerRec /\ n.at = "next" /\ n.file = w.file
                 /\ n.seen = seen /\ n.disk = w.disk
           /\ LET n == Applies(w) IN
                 /\ n \in RunnerRec /\ n.at = "apply" /\ n.file = w.file /\ n.stmt = 1
                 /\ n.seen = w.seen /\ n.disk = w.disk
  BY DEF RunnerRec, GoesTo, Sees, Applies

LEMMA FreshRunner ==
    /\ Off \in RunnerRec /\ Off.at = "off" /\ Off.seen = {}
    /\ \A disk \in Hashes, at \in {"list", "apply"} :
          LET n == Begins(disk, at) IN
          /\ n \in RunnerRec /\ n.at = at /\ n.file = 1 /\ n.stmt = 1 /\ n.seen = {}
          /\ n.disk = disk
  <1>1. 1 \in 1..(Len(Files) + 1)
    BY FilesAre
  <1>2. Off \in RunnerRec /\ Off.at = "off" /\ Off.seen = {}
    BY <1>1 DEF Off, RunnerRec
  <1>3. ASSUME NEW disk \in Hashes, NEW at \in {"list", "apply"}
        PROVE  LET n == Begins(disk, at) IN
               /\ n \in RunnerRec /\ n.at = at /\ n.file = 1 /\ n.stmt = 1 /\ n.seen = {}
               /\ n.disk = disk
    BY <1>1 DEF Begins, Off, RunnerRec
  <1> QED
    BY <1>2, <1>3

LEMMA RunnerFields ==
    ASSUME NEW w \in RunnerRec
    PROVE  /\ w.at \in {"off", "list", "next", "apply", "record", "failed"}
           /\ w.file \in 1..(Len(Files) + 1) /\ w.stmt \in Nat /\ w.seen \subseteq DOMAIN Files
           /\ w.disk \in Hashes \cup {<< >>}
  BY DEF RunnerRec

\* What Progress says of one runner.
Knows(w) ==
    /\ w.at \notin {"off", "failed"} => w.disk \in Hashes
    /\ w.seen \subseteq Applied
    /\ w.at \in {"next", "apply", "record"} =>
          \A g \in w.seen : g < w.file => w.disk[g] = recorded[g]
    /\ w.at = "list" => w.file = 1 \/ (w.file = 2 /\ recorded[1] = w.disk[1])
    /\ w.at \in {"list", "next", "apply", "record"} =>
          \A g \in DOMAIN Files : g < w.file => Done(g)
    /\ w.at \in {"apply", "record"} => w.file \in DOMAIN Files
    /\ w.at = "apply" => /\ w.stmt \in DOMAIN Files[w.file]
                         /\ \A i \in 1..(w.stmt - 1) : <<w.file, i>> \in executed
    /\ w.at = "record" => Done(w.file)

\* Statements are never taken back and rows never rewritten, so what the others
\* know stays true.
LEMMA KnowledgeStays ==
    ASSUME MigrationInv, executed \subseteq executed',
           \A f \in Applied : recorded'[f] = recorded[f],
           recorded' \in [DOMAIN Files -> {0, 1, 2}],
           NEW w, Knows(w)
    PROVE  Knows(w)'
  <1>1. Applied \subseteq Applied'
    BY DEF Applied
  <1>2. \A g \in w.seen : recorded'[g] = recorded[g]
    BY DEF Knows
  <1>3. w.at = "list" => w.file = 1 \/ (w.file = 2 /\ recorded'[1] = w.disk[1])
    <2>1. w.at = "list" /\ w.file = 2 /\ recorded[1] = w.disk[1] => 1 \in Applied
      BY FilesAre DEF Knows, Hashes, Applied
    <2> QED
      BY <2>1 DEF Knows
  <1>4. \A g \in DOMAIN Files : Done(g) => Done(g)'
    BY DEF Done
  <1> QED
    BY <1>1, <1>2, <1>3, <1>4 DEF Knows

\* A step of runner r leaves the others where they are and r with a record that
\* it knows enough about.
LEMMA OneMoves ==
    ASSUME MigrationInv, NEW r \in Runners, NEW w, w \in RunnerRec, Move(r, w), Knows(w)',
           executed \subseteq executed', \A f \in Applied : recorded'[f] = recorded[f],
           recorded' \in [DOMAIN Files -> {0, 1, 2}], onDisk' \in Hashes, RecordedIsDone'
    PROVE  MigrationInv'
  <1>1. runner \in [Runners -> RunnerRec]
    BY DEF MigrationInv, MigrationTypes
  <1>2. /\ runner' \in [Runners -> RunnerRec] /\ runner'[r] = w
        /\ \A o \in Runners \ {r} : runner'[o] = runner[o]
    <2> HIDE DEF RunnerRec
    <2> QED
      BY <1>1 DEF Move
  <1>3. ASSUME NEW o \in Runners \ {r}
        PROVE  \E n : n = runner[o] /\ Knows(n)'
    <2>1. Knows(runner[o])
      BY DEF MigrationInv, Progress, Knows
    <2>2. PICK n : n = runner[o]
      OBVIOUS
    <2>3. Knows(n)
      BY <2>1, <2>2 DEF Knows
    <2> QED
      BY <2>2, <2>3, KnowledgeStays
  <1>4. \A o \in Runners : \E n : n = runner'[o] /\ Knows(n)'
    BY <1>2, <1>3
  <1>5. Progress'
    BY <1>4 DEF Progress, Knows
  <1> QED
    BY <1>2, <1>5 DEF MigrationInv, MigrationTypes

LEMMA RecordedStays ==
    ASSUME RecordedIsDone, executed \subseteq executed', recorded' = recorded
    PROVE  RecordedIsDone'
  BY DEF RecordedIsDone, Applied

\* What runner r is and knows before its step.
LEMMA Before ==
    ASSUME MigrationInv, NEW r \in Runners
    PROVE  /\ runner[r] \in RunnerRec /\ Knows(runner[r])
           /\ recorded \in [DOMAIN Files -> {0, 1, 2}] /\ onDisk \in Hashes
           /\ RecordedIsDone /\ Applied \subseteq DOMAIN Files
  BY DEF MigrationInv, MigrationTypes, Progress, Knows, Applied

LEMMA Starting ==
    ASSUME MigrationInv, NEW r \in Runners, StartMigrate(r)
    PROVE  MigrationInv'
  <1>1. PICK at \in {"list", "apply"} : Move(r, Begins(onDisk, at))
    BY Zenon DEF StartMigrate, Begins
  <1>2. UNCHANGED <<executed, recorded, onDisk>>
    BY DEF StartMigrate
  <1>3. PICK w : w = Begins(onDisk, at)
    OBVIOUS
  <1>4. /\ w \in RunnerRec /\ w.at = at /\ w.file = 1 /\ w.stmt = 1 /\ w.seen = {}
        /\ w.disk = onDisk /\ onDisk \in Hashes
    BY <1>3, Before, FreshRunner
  <1>5. Knows(w)'
    BY <1>4, FilesAre DEF Knows
  <1> QED
    BY <1>1, <1>2, <1>3, <1>4, <1>5, Before, OneMoves, RecordedStays

LEMMA Reading ==
    ASSUME MigrationInv, NEW r \in Runners, ReadApplied(r)
    PROVE  MigrationInv'
  <1>1. /\ runner[r].at = "list" /\ Move(r, Sees(runner[r], Applied))
        /\ UNCHANGED <<executed, recorded, onDisk>>
    BY Zenon DEF ReadApplied, Sees
  <1>2. PICK w : w = Sees(runner[r], Applied)
    OBVIOUS
  <1>3. /\ w \in RunnerRec /\ w.at = "next" /\ w.file = runner[r].file
        /\ w.seen = Applied /\ w.disk = runner[r].disk
    BY <1>2, Before, RunnerUpdates
  <1>4. Knows(w)
    <2>1. /\ Knows(runner[r]) /\ Applied \subseteq DOMAIN Files
          /\ runner[r].file = 1 \/ (runner[r].file = 2 /\ recorded[1] = runner[r].disk[1])
      BY <1>1, Before DEF Knows
    <2>2. \A g \in Applied : g < w.file => w.disk[g] = recorded[g]
      BY <1>3, <2>1, FilesAre
    <2> QED
      BY <1>1, <1>3, <2>1, <2>2 DEF Knows
  <1>5. Knows(w)'
    BY <1>1, <1>4, Before, KnowledgeStays
  <1> QED
    BY <1>1, <1>2, <1>3, <1>5, Before, OneMoves, RecordedStays

LEMMA Picking ==
    ASSUME MigrationInv, NEW r \in Runners, PickFile(r)
    PROVE  MigrationInv'
  <1> DEFINE f == runner[r].file
  <1>1. UNCHANGED <<executed, recorded, onDisk>> /\ runner[r].at = "next"
    BY DEF PickFile
  <1>2. runner[r] \in RunnerRec /\ Knows(runner[r]) /\ f \in 1..(Len(Files) + 1)
    BY Before, RunnerFields
  <1>3. ASSUME NEW w, w \in RunnerRec, Move(r, w), Knows(w)
        PROVE  MigrationInv'
    <2>1. Knows(w)'
      BY <1>1, <1>3, Before, KnowledgeStays
    <2> QED
      BY <1>1, <1>3, <2>1, Before, OneMoves, RecordedStays
  <1>4. CASE Move(r, Off)
    <2>1. Knows(Off)
      BY FreshRunner DEF Knows
    <2>2. PICK w : w = Off
      OBVIOUS
    <2> QED
      BY <1>3, <1>4, <2>1, <2>2, FreshRunner
  <1>5. CASE f \in runner[r].seen /\ Unedited(r, f) /\ Move(r, [runner[r] EXCEPT !.file = f + 1])
    <2>1. f \in DOMAIN Files /\ f \in Applied /\ recorded[f] = runner[r].disk[f]
      BY <1>2, <1>5, Before DEF Knows, Unedited
    <2>2. PICK n : n = f + 1
      OBVIOUS
    <2>3. PICK w : w = Passes(runner[r], n)
      OBVIOUS
    <2>4. n \in 1..(Len(Files) + 1)
      BY <2>1, <2>2, FilesAre
    <2>5. /\ w \in RunnerRec /\ w.at = "next" /\ w.file = n
          /\ w.seen = runner[r].seen /\ w.disk = runner[r].disk
      BY <1>1, <1>2, <2>3, <2>4 DEF RunnerRec, Passes
    <2>6. Move(r, w)
      BY <1>5, <2>2, <2>3, Zenon DEF Passes
    <2>7. Done(f)
      BY <2>1, Before, FilesAre DEF RecordedIsDone, Done
    <2>8. \A g \in DOMAIN Files : g < n => g < f \/ g = f
      BY <2>1, <2>2, FilesAre
    <2>9. Knows(w)
      <3> HIDE DEF f
      <3> QED
        BY <1>1, <1>2, <2>1, <2>5, <2>7, <2>8, Before DEF f, Knows
    <2> QED
      BY <1>3, <2>5, <2>6, <2>9
  <1>6. CASE Move(r, [runner[r] EXCEPT !.at = "failed"])
    <2>1. PICK w : w = GoesTo(runner[r], "failed")
      OBVIOUS
    <2>2. w \in RunnerRec /\ w.at = "failed" /\ w.seen = runner[r].seen
      BY <1>2, <2>1, RunnerUpdates
    <2>3. Move(r, w)
      BY <1>6, <2>1, Zenon DEF GoesTo
    <2>4. Knows(w)
      BY <1>2, <2>2 DEF Knows
    <2> QED
      BY <1>3, <2>2, <2>3, <2>4
  <1>7. CASE f \in DOMAIN Files /\ Move(r, [runner[r] EXCEPT !.at = "apply", !.stmt = 1])
    <2>1. PICK w : w = Applies(runner[r])
      OBVIOUS
    <2>2. /\ w \in RunnerRec /\ w.at = "apply" /\ w.file = f /\ w.stmt = 1
          /\ w.seen = runner[r].seen /\ w.disk = runner[r].disk
      BY <1>2, <2>1, RunnerUpdates
    <2>3. Move(r, w)
      BY <1>7, <2>1, Zenon DEF Applies
    <2>4. Knows(w)
      BY <1>1, <1>2, <1>7, <2>2, FilesAre DEF Knows
    <2> QED
      BY <1>3, <2>2, <2>3, <2>4
  <1>8. \/ Move(r, Off)
        \/ f \in runner[r].seen /\ Unedited(r, f) /\ Move(r, [runner[r] EXCEPT !.file = f + 1])
        \/ Move(r, [runner[r] EXCEPT !.at = "failed"])
        \/ f \in DOMAIN Files /\ Move(r, [runner[r] EXCEPT !.at = "apply", !.stmt = 1])
    BY Zenon DEF PickFile
  <1> QED
    BY <1>4, <1>5, <1>6, <1>7, <1>8

\* A statement is executed in its turn, so the file is done when the last is.
LEMMA Executing ==
    ASSUME MigrationInv, NEW r \in Runners, Execute(r)
    PROVE  MigrationInv'
  <1> DEFINE f == runner[r].file
             i == runner[r].stmt
  <1>1. /\ runner[r].at = "apply" /\ runner[r] \in RunnerRec /\ Knows(runner[r])
        /\ UNCHANGED <<recorded, onDisk>>
    BY Before DEF Execute
  <1>2. /\ f \in DOMAIN Files /\ i \in 1..Len(Files[f]) /\ Len(Files[f]) \in Nat /\ i \in Nat
        /\ \A k \in 1..(i - 1) : <<f, k>> \in executed
    BY <1>1, FilesAre, RunnerFields DEF Knows
  <1>3. \/ executed' = executed /\ Move(r, GoesTo(runner[r], "failed"))
        \/ /\ executed' = executed \cup {<<f, i>>} /\ i = Len(Files[f])
           /\ Move(r, GoesTo(runner[r], "record"))
        \/ /\ executed' = executed \cup {<<f, i>>} /\ i # Len(Files[f])
           /\ Move(r, Steps(runner[r], i + 1))
    <2>1. LET s == <<f, i>> IN
          \/ Move(r, GoesTo(runner[r], "failed")) /\ executed' = executed
          \/ /\ executed' = executed \cup {s}
             /\ Move(r, IF s[2] = Len(Files[s[1]]) THEN GoesTo(runner[r], "record")
                                                   ELSE Steps(runner[r], i + 1))
      BY Zenon DEF Execute, GoesTo, Steps
    <2>2. <<f, i>>[1] = f /\ <<f, i>>[2] = i
      OBVIOUS
    <2> QED
      BY <2>1, <2>2
  <1> HIDE DEF f, i
  <1>4. /\ executed \subseteq executed' /\ (\A g \in Applied : recorded'[g] = recorded[g])
        /\ recorded' \in [DOMAIN Files -> {0, 1, 2}] /\ onDisk' \in Hashes /\ RecordedIsDone'
        /\ Applied' = Applied
    BY <1>1, <1>3, Before, RecordedStays DEF Applied
  <1>5. ASSUME NEW w, w \in RunnerRec, Move(r, w), Knows(w)'
        PROVE  MigrationInv'
    BY <1>4, <1>5, OneMoves
  <1>6. PICK w : w = runner[r]
    OBVIOUS
  <1>7. Knows(w) /\ Knows(w)' /\ w \in RunnerRec /\ w.at = "apply" /\ w.file = f /\ w.stmt = i
    <2>1. Knows(w)
      BY <1>1, <1>6
    <2> QED
      BY <1>1, <1>4, <1>6, <2>1, KnowledgeStays DEF f, i
  <1>8. CASE Move(r, GoesTo(runner[r], "failed"))
    <2>1. PICK n : n = GoesTo(w, "failed")
      OBVIOUS
    <2>2. n \in RunnerRec /\ n.at = "failed" /\ n.seen = w.seen
      BY <1>7, <2>1, RunnerUpdates
    <2>3. Knows(n)'
      BY <1>7, <2>2 DEF Knows
    <2> QED
      BY <1>5, <1>6, <1>8, <2>1, <2>2, <2>3
  <1>9. CASE /\ executed' = executed \cup {<<f, i>>} /\ i = Len(Files[f])
             /\ Move(r, GoesTo(runner[r], "record"))
    <2>1. PICK n : n = GoesTo(w, "record")
      OBVIOUS
    <2>2. /\ n \in RunnerRec /\ n.at = "record" /\ n.seen = w.seen /\ n.file = f
          /\ n.disk = w.disk
      BY <1>7, <2>1, RunnerUpdates
    <2>3. Done(n.file)'
      <3>1. ASSUME NEW k \in DOMAIN Files[n.file] PROVE <<n.file, k>> \in executed'
        <4>1. k \in 1..(i - 1) \/ k = i
          BY <1>2, <1>9, <2>2, FilesAre
        <4> QED
          BY <1>2, <1>9, <2>2, <4>1
      <3> QED
        BY <3>1 DEF Done
    <2>4. Knows(n)'
      BY <1>2, <1>7, <2>2, <2>3 DEF Knows
    <2> QED
      BY <1>5, <1>6, <1>9, <2>1, <2>2, <2>4
  <1>10. CASE /\ executed' = executed \cup {<<f, i>>} /\ i # Len(Files[f])
              /\ Move(r, Steps(runner[r], i + 1))
    <2>0. PICK k : k = i + 1
      OBVIOUS
    <2>1. PICK n : n = Steps(w, k)
      OBVIOUS
    <2>2. /\ n \in RunnerRec /\ n.at = "apply" /\ n.seen = w.seen /\ n.file = f
          /\ n.disk = w.disk /\ n.stmt = k
      BY <1>2, <1>7, <2>0, <2>1 DEF RunnerRec, Steps
    <2>3. k \in DOMAIN Files[f] /\ \A j \in 1..(k - 1) : <<f, j>> \in executed'
      <3>1. k \in DOMAIN Files[f]
        BY <1>2, <1>10, <2>0, FilesAre
      <3>2. ASSUME NEW j \in 1..(k - 1) PROVE <<f, j>> \in executed'
        <4>1. j \in 1..(i - 1) \/ j = i
          BY <1>2, <2>0
        <4> QED
          BY <1>2, <1>10, <4>1
      <3> QED
        BY <3>1, <3>2
    <2>4. Knows(n)'
      BY <1>2, <1>7, <2>2, <2>3 DEF Knows
    <2> QED
      BY <1>5, <1>6, <1>10, <2>0, <2>1, <2>2, <2>4
  <1> QED
    BY <1>3, <1>8, <1>9, <1>10

\* The row is written for a file that is done, after every file before it.
LEMMA Recording ==
    ASSUME MigrationInv, NEW r \in Runners, RecordApplied(r)
    PROVE  MigrationInv'
  <1> DEFINE f == runner[r].file
             at == IF f = 1 THEN "list" ELSE "next"
  <1>1. /\ runner[r].at = "record" /\ runner[r] \in RunnerRec /\ Knows(runner[r])
        /\ UNCHANGED <<executed, onDisk>>
    BY Before DEF RecordApplied
  <1>2. /\ f \in DOMAIN Files /\ Done(f) /\ f \in Nat /\ f > 0
        /\ \A g \in DOMAIN Files : g < f => Done(g)
        /\ runner[r].disk \in Hashes
    BY <1>1, FilesAre DEF Knows
  <1>3. \/ recorded' = recorded /\ Move(r, GoesTo(runner[r], "failed"))
        \/ /\ recorded[f] = 0 /\ recorded' = [recorded EXCEPT ![f] = runner[r].disk[f]]
           /\ Move(r, Records(runner[r], at, f + 1))
    BY Zenon DEF RecordApplied, Recordable, Records, GoesTo
  <1>t. at \in {"list", "next"} /\ (at = "list" => f = 1)
    OBVIOUS
  <1> HIDE DEF f, at
  <1>4. /\ \A g \in Applied : recorded'[g] = recorded[g]
        /\ recorded' \in [DOMAIN Files -> {0, 1, 2}] /\ onDisk' \in Hashes
        /\ Applied' \subseteq Applied \cup {f}
    BY <1>1, <1>2, <1>3, Before DEF Hashes, Applied
  <1>d. /\ \A g \in DOMAIN Files : Done(g) => Done(g)'
        /\ executed' = executed
    BY <1>1 DEF Done
  <1>5. RecordedIsDone'
    <2> SUFFICES ASSUME NEW g \in Applied', NEW h \in 1..g PROVE Done(h)'
      BY DEF RecordedIsDone, Done
    <2>1. g \in DOMAIN Files
      BY DEF Applied
    <2>2. CASE g \in Applied
      BY <1>1, <2>2, Before DEF RecordedIsDone, Done
    <2>3. CASE g = f
      <3>1. h \in DOMAIN Files /\ (h < f \/ h = f)
        BY <1>2, <2>3, FilesAre
      <3> QED
        BY <1>2, <1>d, <3>1
    <2> QED
      BY <1>4, <2>2, <2>3
  <1>6. ASSUME NEW w, w \in RunnerRec, Move(r, w), Knows(w)'
        PROVE  MigrationInv'
    BY <1>d, <1>4, <1>5, <1>6, OneMoves
  <1>7. PICK w : w = runner[r]
    OBVIOUS
  <1>8. Knows(w) /\ Knows(w)' /\ w \in RunnerRec /\ w.at = "record" /\ w.file = f
    <2>1. Knows(w)
      BY <1>1, <1>7
    <2> QED
      BY <1>1, <1>d, <1>4, <1>7, <2>1, KnowledgeStays DEF f
  <1>9. CASE Move(r, GoesTo(runner[r], "failed"))
    <2>1. PICK n : n = GoesTo(w, "failed")
      OBVIOUS
    <2>2. n \in RunnerRec /\ n.at = "failed" /\ n.seen = w.seen
      BY <1>8, <2>1, RunnerUpdates
    <2>3. Knows(n)'
      BY <1>8, <2>2 DEF Knows
    <2> QED
      BY <1>6, <1>7, <1>9, <2>1, <2>2, <2>3
  <1>10. CASE /\ recorded[f] = 0 /\ recorded' = [recorded EXCEPT ![f] = runner[r].disk[f]]
              /\ Move(r, Records(runner[r], at, f + 1))
    <2>0. PICK k : k = f + 1
      OBVIOUS
    <2>a. PICK a : a = at
      OBVIOUS
    <2>1. PICK n : n = Records(w, a, k)
      OBVIOUS
    <2>k. k \in 1..(Len(Files) + 1) /\ a \in {"list", "next"} /\ (a = "list" => f = 1)
      BY <1>2, <1>t, <2>0, <2>a, FilesAre
    <2>2. /\ n \in RunnerRec /\ n.at = a /\ n.seen = w.seen /\ n.file = k
          /\ n.disk = w.disk
      BY <1>8, <2>k, <2>1 DEF RunnerRec, Records
    <2>3. recorded'[f] = w.disk[f] /\ w.disk \in Hashes
      BY <1>2, <1>7, <1>10, Before
    <2>4. \A g \in w.seen : g < k => n.disk[g] = recorded'[g]
      <3>1. \A g \in w.seen : g < f => w.disk[g] = recorded'[g]
        BY <1>8 DEF Knows
      <3>2. \A g \in w.seen : g \in DOMAIN Files /\ (g < k => g < f \/ g = f)
        BY <1>2, <1>8, <2>0, Before, FilesAre DEF Knows
      <3> QED
        BY <2>2, <2>3, <3>1, <3>2
    <2>5. \A g \in DOMAIN Files : g < k => Done(g)'
      <3>1. \A g \in DOMAIN Files : g < k => g < f \/ g = f
        BY <1>2, <2>0, FilesAre
      <3> QED
        BY <1>2, <1>d, <3>1
    <2>6. a = "list" => n.file = 2 /\ recorded'[1] = n.disk[1]
      BY <2>k, <2>0, <2>2, <2>3
    <2>7. Knows(n)'
      BY <1>8, <2>k, <2>2, <2>3, <2>4, <2>5, <2>6 DEF Knows
    <2> QED
      BY <1>6, <1>7, <1>10, <2>0, <2>a, <2>1, <2>2, <2>7
  <1> QED
    BY <1>3, <1>9, <1>10

LEMMA MigrationWorld ==
    ASSUME MigrationInv, (\E r \in Runners : RunnerDies(r)) \/ \E f \in DOMAIN Files : EditFile(f)
    PROVE  MigrationInv'
  <1>1. ASSUME NEW r \in Runners, RunnerDies(r) PROVE MigrationInv'
    <2>1. Move(r, Off) /\ UNCHANGED <<executed, recorded, onDisk>>
      BY <1>1 DEF RunnerDies
    <2>2. PICK w : w = Off
      OBVIOUS
    <2>3. w \in RunnerRec /\ Knows(w)'
      BY <2>2, FreshRunner DEF Knows
    <2> QED
      BY <2>1, <2>2, <2>3, Before, OneMoves, RecordedStays
  <1>2. ASSUME NEW f \in DOMAIN Files, EditFile(f) PROVE MigrationInv'
    <2>1. UNCHANGED <<executed, recorded, runner>> /\ onDisk' = [onDisk EXCEPT ![f] = 2]
      BY <1>2 DEF EditFile
    <2>2. onDisk' \in Hashes
      BY <2>1 DEF MigrationInv, MigrationTypes, Hashes
    <2>3. Progress' /\ RecordedIsDone'
      BY <2>1 DEF MigrationInv, Progress, RecordedIsDone, Applied, Done
    <2> QED
      BY <2>1, <2>2, <2>3 DEF MigrationInv, MigrationTypes
  <1> QED
    BY <1>1, <1>2

\* The table of migrations never says more than the schema holds, and a runner
\* never applies a file after one that was edited since: for any list of files,
\* any number of runners started together and any deaths (mariadb.py:155-196).
THEOREM SchemaIsSound ==
    MigrationsInit /\ [][MigrationsNext]_migrationVars => []SchemaSound
  <1>1. ASSUME MigrationsInit PROVE MigrationInv
    <2>1. MigrationTypes
      <3>1. runner = [r \in Runners |-> Off] /\ Off \in RunnerRec
        BY <1>1, FreshRunner DEF MigrationsInit
      <3>2. runner \in [Runners -> RunnerRec]
        <4> HIDE DEF RunnerRec, Off
        <4> QED
          BY <3>1
      <3> QED
        BY <1>1, <3>2 DEF MigrationsInit, MigrationTypes, Hashes
    <2>2. \A r \in Runners : runner[r] = Off
      BY <1>1 DEF MigrationsInit
    <2>3. Progress
      BY <2>2, FreshRunner DEF Progress
    <2>4. RecordedIsDone
      BY <1>1 DEF MigrationsInit, RecordedIsDone, Applied
    <2> QED
      BY <2>1, <2>3, <2>4 DEF MigrationInv
  <1>2. ASSUME MigrationInv, [MigrationsNext]_migrationVars PROVE MigrationInv'
    <2>1. CASE UNCHANGED migrationVars
      BY <1>2, <2>1 DEF migrationVars, MigrationInv, MigrationTypes, Progress,
         RecordedIsDone, Applied, Done
    <2>2. CASE MigrationsNext
      BY <1>2, <2>2, Starting, Reading, Picking, Executing, Recording, MigrationWorld
         DEF MigrationsNext, RunnerStep
    <2> QED
      BY <1>2, <2>1, <2>2
  <1>3. ASSUME MigrationInv PROVE SchemaSound
    BY <1>3 DEF SchemaSound, MigrationInv, Progress, EditStops
  <1> QED
    BY <1>1, <1>2, <1>3, PTL
-----------------------------------------------------------------------------
(* The replays and their files *)

\* Commands run one at a time, so one process parses replays.
OneParser == \A p, q \in Parsers : p = q

RowRec == [present : BOOLEAN, artifact : BOOLEAN, status : Statuses, crumbs : BOOLEAN]
ParserRec == [at : {"off", "pick", "parse", "open", "dump", "rename", "crumbs", "update",
                    "updateCrumbs"},
              todo : SUBSET Replays, row : Replays \cup {0}, file : Nat]
IngestRec == [at : {"off", "upsert", "download", "record"}, todo : SUBSET Replays,
              row : Replays \cup {0}]

ReplayTypes ==
    /\ rows \in [Replays -> RowRec] /\ stored \subseteq Contents /\ crumbs \subseteq Contents
    /\ inode \in Seq({"empty", "whole"})
    /\ tmpName \in [Contents -> 0..Len(inode)] /\ sidecar \in [Contents -> 0..Len(inode)]
    /\ ingest \in IngestRec /\ parser \in [Parsers -> ParserRec]

\* A file has one name at most; one that names a sidecar is whole.
Names ==
    \A c \in Contents :
        /\ sidecar[c] # 0 => inode[sidecar[c]] = "whole"
        /\ tmpName[c] # 0 => \A d \in Contents : /\ tmpName[c] # sidecar[d]
                                                 /\ c # d => tmpName[c] # tmpName[d]

\* The parser writes to the file its temporary name stands for.
Parsing ==
    \A p \in Parsers : LET w == parser[p] IN
        /\ w.at \notin {"off", "pick"} => w.row \in Replays
        /\ w.at \in {"dump", "rename"} => tmpName[Bytes[w.row]] = w.file /\ w.file # 0
        /\ w.at = "rename" => inode[w.file] = "whole"
        /\ w.at \in {"crumbs", "update", "updateCrumbs"} => sidecar[Bytes[w.row]] # 0
        /\ w.at = "updateCrumbs" => Bytes[w.row] \in crumbs

Rows ==
    /\ \A r \in Replays : rows[r].status = "success" => sidecar[Bytes[r]] # 0
    /\ ingest.at \in {"download", "record"} => ingest.row \in Replays
    /\ ingest.at = "record" => Bytes[ingest.row] \in stored

ReplayInv == ReplayTypes /\ Names /\ Parsing /\ Rows /\ RowsPointAtFiles

\* The updates of a row, of the ingestor and of a parser.
WithArtifact(row) == [row EXCEPT !.artifact = TRUE]
WithStatus(row, status) == [row EXCEPT !.status = status]
Succeeds(row, more) == [row EXCEPT !.status = "success", !.crumbs = more]
IngestAt(g, at, r) == [g EXCEPT !.at = at, !.row = r]
IngestTo(g, at) == [g EXCEPT !.at = at]
Lists(todo) == [Stopped EXCEPT !.at = "pick", !.todo = todo]
Takes(w, todo, r) == [w EXCEPT !.at = "parse", !.todo = todo, !.row = r]
Rests(w) == [w EXCEPT !.at = "pick", !.row = 0, !.file = 0]
WorksAt(w, at) == [w EXCEPT !.at = at]
Opens(w, f) == [w EXCEPT !.at = "dump", !.file = f]

LEMMA RowUpdates ==
    ASSUME NEW row \in RowRec
    PROVE  /\ /\ WithArtifact(row) \in RowRec /\ WithArtifact(row).artifact
              /\ WithArtifact(row).status = row.status /\ WithArtifact(row).crumbs = row.crumbs
           /\ \A st \in {"failed_transient", "failed_permanent"} :
                 /\ WithStatus(row, st) \in RowRec /\ WithStatus(row, st).status = st
                 /\ WithStatus(row, st).artifact = row.artifact
                 /\ WithStatus(row, st).crumbs = row.crumbs
           /\ \A more \in BOOLEAN :
                 /\ Succeeds(row, more) \in RowRec /\ Succeeds(row, more).artifact = row.artifact
                 /\ Succeeds(row, more).crumbs = more
  BY DEF RowRec, Statuses, WithArtifact, WithStatus, Succeeds

LEMMA FreshRows ==
    /\ NoRow \in RowRec /\ NoRow.status = "unparsed" /\ ~NoRow.artifact /\ ~NoRow.crumbs
    /\ NewRow \in RowRec /\ NewRow.status = "unparsed" /\ ~NewRow.artifact /\ ~NewRow.crumbs
    /\ Stopped \in ParserRec /\ Stopped.at = "off"
    /\ \A todo \in SUBSET Replays : /\ Lists(todo) \in ParserRec /\ Lists(todo).at = "pick"
  <1>1. /\ NoRow \in RowRec /\ NoRow.status = "unparsed" /\ ~NoRow.artifact /\ ~NoRow.crumbs
        /\ NewRow \in RowRec /\ NewRow.status = "unparsed" /\ ~NewRow.artifact /\ ~NewRow.crumbs
    BY DEF NoRow, NewRow, RowRec, Statuses
  <1>2. Stopped \in ParserRec /\ Stopped.at = "off"
    BY DEF Stopped, ParserRec
  <1>3. ASSUME NEW todo \in SUBSET Replays
        PROVE  Lists(todo) \in ParserRec /\ Lists(todo).at = "pick"
    BY DEF Lists, Stopped, ParserRec
  <1> QED
    BY <1>1, <1>2, <1>3

LEMMA ParserUpdates ==
    ASSUME NEW w \in ParserRec
    PROVE  /\ Rests(w) \in ParserRec /\ Rests(w).at = "pick"
           /\ \A at \in {"open", "rename", "crumbs", "update", "updateCrumbs"} :
                 /\ WorksAt(w, at) \in ParserRec /\ WorksAt(w, at).at = at
                 /\ WorksAt(w, at).row = w.row /\ WorksAt(w, at).file = w.file
           /\ \A f \in Nat : /\ Opens(w, f) \in ParserRec /\ Opens(w, f).at = "dump"
                             /\ Opens(w, f).row = w.row /\ Opens(w, f).file = f
  BY DEF ParserRec, Rests, WorksAt, Opens

LEMMA IngestUpdates ==
    ASSUME NEW g \in IngestRec
    PROVE  /\ IngestTo(g, "record") \in IngestRec /\ IngestTo(g, "record").at = "record"
           /\ IngestTo(g, "record").row = g.row
           /\ \A at \in {"off", "upsert"} :
                 IngestAt(g, at, 0) \in IngestRec /\ IngestAt(g, at, 0).at = at
  BY DEF IngestRec, IngestTo, IngestAt

\* What Parsing says of one parser.
Holds(w) ==
    /\ w.at \notin {"off", "pick"} => w.row \in Replays
    /\ w.at \in {"dump", "rename"} => tmpName[Bytes[w.row]] = w.file /\ w.file # 0
    /\ w.at = "rename" => inode[w.file] = "whole"
    /\ w.at \in {"crumbs", "update", "updateCrumbs"} => sidecar[Bytes[w.row]] # 0
    /\ w.at = "updateCrumbs" => Bytes[w.row] \in crumbs

\* A step that leaves the files alone.
LEMMA FilesAlone ==
    ASSUME ReplayInv, UNCHANGED fileVars, rows' \in [Replays -> RowRec],
           stored' \subseteq Contents, stored \subseteq stored', ingest' \in IngestRec,
           \A r \in Replays : /\ rows'[r].status = "success" => sidecar[Bytes[r]] # 0
                              /\ rows'[r].artifact => Bytes[r] \in stored'
                              /\ rows'[r].crumbs => Bytes[r] \in crumbs,
           ingest'.at \in {"download", "record"} => ingest'.row \in Replays,
           ingest'.at = "record" => Bytes[ingest'.row] \in stored',
           parser' \in [Parsers -> ParserRec], \A p \in Parsers : Holds(parser[p])'
    PROVE  ReplayInv'
  <1>1. ReplayTypes' /\ Names'
    BY DEF fileVars, ReplayInv, ReplayTypes, Names
  <1>2. Parsing'
    BY DEF Parsing, Holds
  <1>3. Rows' /\ RowsPointAtFiles'
    BY DEF fileVars, Rows, RowsPointAtFiles
  <1> QED
    BY <1>1, <1>2, <1>3 DEF ReplayInv

LEMMA HeldBefore ==
    ASSUME ReplayInv
    PROVE  /\ rows \in [Replays -> RowRec] /\ stored \subseteq Contents
           /\ ingest \in IngestRec /\ parser \in [Parsers -> ParserRec]
           /\ \A p \in Parsers : Holds(parser[p]) /\ parser[p] \in ParserRec
           /\ \A r \in Replays : /\ rows[r] \in RowRec /\ Bytes[r] \in Contents
                                 /\ rows[r].status = "success" => sidecar[Bytes[r]] # 0
                                 /\ rows[r].artifact => Bytes[r] \in stored
                                 /\ rows[r].crumbs => Bytes[r] \in crumbs
           /\ ingest.at \in {"download", "record"} => ingest.row \in Replays
           /\ ingest.at = "record" => Bytes[ingest.row] \in stored
  BY DEF ReplayInv, ReplayTypes, Parsing, Holds, Rows, RowsPointAtFiles, Contents

\* The ingestor: an artifact is stored before its row names it.
LEMMA Ingesting ==
    ASSUME ReplayInv, IngestNext
    PROVE  ReplayInv'
  <1>1. UNCHANGED fileVars /\ parser' = parser
    BY DEF IngestNext, ListReplays, UpsertReplay, DownloadFails, StoreArtifact,
           RecordReplayArtifact
  <1>2. parser' \in [Parsers -> ParserRec] /\ \A p \in Parsers : Holds(parser[p])'
    BY <1>1, HeldBefore DEF fileVars, Holds
  <1>3. AfterRow = IngestAt(ingest, IF ingest.todo = {} THEN "off" ELSE "upsert", 0)
    BY Zenon DEF AfterRow, IngestAt
  <1>4. AfterRow \in IngestRec /\ AfterRow.at \in {"off", "upsert"}
    <2>1. CASE ingest.todo = {}
      BY <1>3, <2>1, HeldBefore, IngestUpdates
    <2>2. CASE ingest.todo # {}
      BY <1>3, <2>2, HeldBefore, IngestUpdates
    <2> QED
      BY <2>1, <2>2
  <1>5. CASE ListReplays
    <2>1. PICK some \in SUBSET Replays : ingest' = [at |-> "upsert", todo |-> some, row |-> 0]
      BY <1>5 DEF ListReplays
    <2>2. ingest' \in IngestRec /\ ingest'.at = "upsert"
      BY <2>1 DEF IngestRec
    <2> QED
      BY <1>1, <1>2, <1>5, <2>2, HeldBefore, FilesAlone DEF ListReplays
  <1>6. ASSUME NEW r \in Replays, UpsertReplay(r) PROVE ReplayInv'
    <2>1. /\ ingest' = [at |-> "download", todo |-> ingest.todo \ {r}, row |-> r]
          /\ stored' = stored /\ (rows' = rows \/ rows' = [rows EXCEPT ![r] = NewRow])
      BY <1>6 DEF UpsertReplay, Upserted
    <2>2. ingest' \in IngestRec /\ ingest'.at = "download" /\ ingest'.row = r
      BY <2>1, HeldBefore DEF IngestRec
    <2>3. /\ rows' \in [Replays -> RowRec]
          /\ \A o \in Replays : rows'[o] = rows[o] \/ rows'[o] = NewRow
      BY <2>1, HeldBefore, FreshRows
    <2> QED
      BY <1>1, <1>2, <2>1, <2>2, <2>3, HeldBefore, FreshRows, FilesAlone
  <1>7. CASE DownloadFails
    BY <1>1, <1>2, <1>4, <1>7, HeldBefore, FilesAlone DEF DownloadFails
  <1>8. CASE StoreArtifact
    <2>1. /\ stored' = stored \cup {Bytes[ingest.row]} /\ ingest' = IngestTo(ingest, "record")
          /\ rows' = rows /\ ingest.row \in Replays
      BY <1>8, HeldBefore, Zenon DEF StoreArtifact, IngestTo
    <2>2. ingest' \in IngestRec /\ ingest'.at = "record" /\ ingest'.row = ingest.row
      BY <2>1, HeldBefore, IngestUpdates
    <2>3. stored' \subseteq Contents
      BY <2>1, HeldBefore
    <2> QED
      BY <1>1, <1>2, <2>1, <2>2, <2>3, HeldBefore, FilesAlone
  <1>9. CASE RecordReplayArtifact
    <2> DEFINE r == ingest.row
    <2>1. /\ rows' = [rows EXCEPT ![r] = WithArtifact(rows[r])] /\ ingest' = AfterRow
          /\ stored' = stored
      BY <1>9, Zenon DEF RecordReplayArtifact, WithArtifact
    <2>2. r \in Replays /\ Bytes[r] \in stored
      BY <1>9, HeldBefore DEF RecordReplayArtifact
    <2>3. /\ rows' \in [Replays -> RowRec] /\ rows'[r] = WithArtifact(rows[r])
          /\ \A o \in Replays \ {r} : rows'[o] = rows[o]
      BY <2>1, <2>2, HeldBefore, RowUpdates
    <2>4. \A o \in Replays : /\ rows'[o].status = "success" => sidecar[Bytes[o]] # 0
                             /\ rows'[o].artifact => Bytes[o] \in stored'
                             /\ rows'[o].crumbs => Bytes[o] \in crumbs
      BY <2>1, <2>2, <2>3, HeldBefore, RowUpdates
    <2> QED
      BY <1>1, <1>2, <1>4, <2>1, <2>3, <2>4, HeldBefore, FilesAlone
  <1> QED
    BY <1>5, <1>6, <1>7, <1>8, <1>9 DEF IngestNext

\* A step of the parser that leaves the files alone.
LEMMA ParserAlone ==
    ASSUME ReplayInv, NEW p \in Parsers, UNCHANGED fileVars, stored' = stored, ingest' = ingest,
           rows' \in [Replays -> RowRec],
           \A r \in Replays : /\ rows'[r].status = "success" => sidecar[Bytes[r]] # 0
                              /\ rows'[r].artifact => Bytes[r] \in stored'
                              /\ rows'[r].crumbs => Bytes[r] \in crumbs,
           NEW w, w \in ParserRec, Work(p, w), Holds(w)
    PROVE  ReplayInv'
  <1>1. /\ parser' \in [Parsers -> ParserRec] /\ parser'[p] = w
        /\ \A o \in Parsers \ {p} : parser'[o] = parser[o]
    <2> HIDE DEF ParserRec
    <2> QED
      BY HeldBefore DEF Work
  <1>2. \A o \in Parsers : Holds(parser'[o])
    BY <1>1, HeldBefore
  <1>3. \A o \in Parsers : Holds(parser[o])'
    BY <1>2 DEF fileVars, Holds
  <1> QED
    BY <1>1, <1>3, HeldBefore, FilesAlone

\* The status of one row, by a parser that goes on to the next.
LEMMA StatusSet ==
    ASSUME ReplayInv, NEW r \in Replays, NEW st \in {"failed_transient", "failed_permanent"},
           SetStatus(r, st)
    PROVE  /\ rows' \in [Replays -> RowRec]
           /\ \A o \in Replays : /\ rows'[o].status = "success" => sidecar[Bytes[o]] # 0
                                 /\ rows'[o].artifact => Bytes[o] \in stored
                                 /\ rows'[o].crumbs => Bytes[o] \in crumbs
  <1>1. rows' = [rows EXCEPT ![r] = WithStatus(rows[r], st)]
    BY Zenon DEF SetStatus, WithStatus
  <1>2. /\ WithStatus(rows[r], st) \in RowRec /\ WithStatus(rows[r], st).status = st
        /\ WithStatus(rows[r], st).artifact = rows[r].artifact
        /\ WithStatus(rows[r], st).crumbs = rows[r].crumbs
    BY HeldBefore, RowUpdates
  <1>3. /\ rows' \in [Replays -> RowRec] /\ rows'[r] = WithStatus(rows[r], st)
        /\ \A o \in Replays \ {r} : rows'[o] = rows[o]
    BY <1>1, <1>2, HeldBefore
  <1> QED
    BY <1>2, <1>3, HeldBefore

\* The steps of a parser that do not write files.
Reporting(p) ==
    \/ StartParsing(p) \/ PickReplay(p) \/ ParseFails(p) \/ ParseWorks(p) \/ SidecarFails(p)
    \/ UpdateSuccess(p) \/ UpdateFails(p) \/ ParserDies(p)

LEMMA ParserReports ==
    ASSUME ReplayInv, NEW p \in Parsers, Reporting(p)
    PROVE  ReplayInv'
  <1>1. /\ UNCHANGED fileVars /\ stored' = stored /\ ingest' = ingest
    BY DEF Reporting, StartParsing, PickReplay, ParseFails, ParseWorks, SidecarFails,
           UpdateSuccess, UpdateFails, ParserDies
  <1>2. PICK v : v = parser[p]
    OBVIOUS
  <1>3. v \in ParserRec /\ Holds(v)
    BY <1>2, HeldBefore
  <1>4. Rests(v) \in ParserRec /\ Holds(Rests(v)) /\ NextRow(p) = Rests(v)
    BY <1>2, <1>3, ParserUpdates DEF Holds, NextRow, Rests
  <1>5. Stopped \in ParserRec /\ Holds(Stopped)
    BY FreshRows DEF Holds
  <1>6. ASSUME NEW w, w \in ParserRec, Work(p, w), Holds(w), rows' = rows
        PROVE  ReplayInv'
    BY <1>1, <1>6, HeldBefore, ParserAlone
  <1>7. ASSUME NEW st \in {"failed_transient", "failed_permanent"}, v.row \in Replays,
               SetStatus(v.row, st), Work(p, Rests(v))
        PROVE  ReplayInv'
    BY <1>1, <1>4, <1>7, StatusSet, ParserAlone
  <1>8. CASE StartParsing(p)
    <2>1. PICK todo \in SUBSET Replays : Work(p, Lists(todo)) /\ rows' = rows
      BY <1>8, Zenon DEF StartParsing, Unparsed, Lists
    <2>2. PICK w : w = Lists(todo)
      OBVIOUS
    <2>3. w \in ParserRec /\ Holds(w)
      BY <2>2, FreshRows DEF Holds
    <2> QED
      BY <1>6, <2>1, <2>2, <2>3
  <1>9. CASE PickReplay(p)
    <2>1. CASE Work(p, Stopped) /\ rows' = rows
      BY <1>5, <1>6, <2>1
    <2>2. CASE rows' = rows /\ \E r \in v.todo : Work(p, Takes(v, v.todo \ {r}, r))
      <3>1. PICK r \in v.todo : Work(p, Takes(v, v.todo \ {r}, r))
        BY <2>2
      <3>2. v.todo \subseteq Replays
        BY <1>3 DEF ParserRec
      <3>3. PICK todo \in SUBSET Replays : todo = v.todo \ {r}
        BY <3>2
      <3>4. PICK w : w = Takes(v, todo, r)
        OBVIOUS
      <3>5. w \in ParserRec /\ w.at = "parse" /\ w.row = r /\ r \in Replays
        BY <1>3, <3>2, <3>4 DEF Takes, ParserRec
      <3>6. Holds(w)
        BY <3>5 DEF Holds
      <3> QED
        BY <1>6, <2>2, <3>1, <3>3, <3>4, <3>5, <3>6
    <2>3. rows' = rows /\ (Work(p, Stopped) \/ \E r \in v.todo : Work(p, Takes(v, v.todo \ {r}, r)))
      BY <1>2, <1>9, Zenon DEF PickReplay, Takes
    <2> QED
      BY <2>1, <2>2, <2>3
  <1>10. CASE ParseFails(p)
    <2>1. /\ \E st \in {"failed_transient", "failed_permanent"} : SetStatus(v.row, st)
          /\ Work(p, Rests(v)) /\ v.row \in Replays
      BY <1>2, <1>3, <1>4, <1>10 DEF ParseFails, Holds
    <2> QED
      BY <1>7, <2>1
  <1>11. CASE ParseWorks(p)
    <2>1. Work(p, WorksAt(v, "open")) /\ rows' = rows /\ v.at = "parse"
      BY <1>2, <1>11, Zenon DEF ParseWorks, WorksAt
    <2>2. PICK w : w = WorksAt(v, "open")
      OBVIOUS
    <2>3. w \in ParserRec /\ w.at = "open" /\ w.row = v.row
      BY <1>3, <2>2, ParserUpdates
    <2>4. Holds(w)
      BY <1>3, <2>1, <2>3 DEF Holds
    <2> QED
      BY <1>6, <2>1, <2>2, <2>3, <2>4
  <1>12. CASE SidecarFails(p)
    <2>1. SetStatus(v.row, "failed_transient") /\ Work(p, Rests(v)) /\ v.row \in Replays
      BY <1>2, <1>3, <1>4, <1>12 DEF SidecarFails, Holds
    <2> QED
      BY <1>7, <2>1
  <1>13. CASE UpdateSuccess(p)
    <2> DEFINE r == v.row
    <2>1. PICK more \in BOOLEAN : more = (v.at = "updateCrumbs")
      OBVIOUS
    <2>2. /\ rows' = [rows EXCEPT ![r] = Succeeds(rows[r], more)] /\ Work(p, Rests(v))
          /\ v.at \in {"update", "updateCrumbs"}
      BY <1>2, <1>4, <1>13, <2>1, Zenon DEF UpdateSuccess, Succeeds
    <2>3. r \in Replays /\ sidecar[Bytes[r]] # 0 /\ (more => Bytes[r] \in crumbs)
      BY <1>3, <2>1, <2>2 DEF Holds
    <2>4. /\ Succeeds(rows[r], more) \in RowRec
          /\ Succeeds(rows[r], more).artifact = rows[r].artifact
          /\ Succeeds(rows[r], more).crumbs = more
      <3>1. rows[r] \in RowRec
        BY <2>3, HeldBefore
      <3> HIDE DEF r
      <3> QED
        BY <2>1, <3>1, RowUpdates
    <2>5. /\ rows' \in [Replays -> RowRec] /\ rows'[r] = Succeeds(rows[r], more)
          /\ \A o \in Replays \ {r} : rows'[o] = rows[o]
      BY <2>2, <2>3, <2>4, HeldBefore
    <2>6. \A o \in Replays : /\ rows'[o].status = "success" => sidecar[Bytes[o]] # 0
                             /\ rows'[o].artifact => Bytes[o] \in stored'
                             /\ rows'[o].crumbs => Bytes[o] \in crumbs
      BY <1>1, <2>3, <2>4, <2>5, HeldBefore
    <2> QED
      BY <1>1, <1>4, <2>2, <2>5, <2>6, ParserAlone
  <1>14. CASE UpdateFails(p)
    BY <1>4, <1>6, <1>14 DEF UpdateFails
  <1>15. CASE ParserDies(p)
    BY <1>5, <1>6, <1>15 DEF ParserDies
  <1> QED
    BY <1>8, <1>9, <1>10, <1>11, <1>12, <1>13, <1>14, <1>15 DEF Reporting

\* A step of the only parser that writes files.
LEMMA ParserWrites ==
    ASSUME OneParser, ReplayInv, NEW p \in Parsers, NEW w, w \in ParserRec, Work(p, w), Holds(w)',
           rows' = rows, stored' = stored, ingest' = ingest,
           crumbs \subseteq crumbs', crumbs' \subseteq Contents,
           inode' \in Seq({"empty", "whole"}),
           tmpName' \in [Contents -> 0..Len(inode')], sidecar' \in [Contents -> 0..Len(inode')],
           \A c \in Contents : sidecar[c] # 0 => sidecar'[c] # 0,
           Names'
    PROVE  ReplayInv'
  <1>1. parser' \in [Parsers -> ParserRec] /\ parser'[p] = w
    <2> HIDE DEF ParserRec
    <2> QED
      BY HeldBefore DEF Work
  <1>2. Parsing'
    <2>1. \A o \in Parsers : parser'[o] = w
      BY <1>1 DEF OneParser
    <2> QED
      BY <2>1 DEF Parsing, Holds
  <1>3. Rows' /\ RowsPointAtFiles'
    BY HeldBefore DEF Rows, RowsPointAtFiles
  <1>4. ReplayTypes'
    BY <1>1, HeldBefore DEF ReplayTypes
  <1> QED
    BY <1>2, <1>3, <1>4 DEF ReplayInv

\* The temporary file of the content, new or truncated, is nobody's sidecar.
LEMMA Opening ==
    ASSUME OneParser, ReplayInv, NEW p \in Parsers, OpenScratch(p)
    PROVE  ReplayInv'
  <1>1. PICK v : v = parser[p]
    OBVIOUS
  <1>2. PICK c : c = Bytes[v.row]
    OBVIOUS
  <1>3. PICK f : f = (IF tmpName[c] # 0 THEN tmpName[c] ELSE Len(inode) + 1)
    OBVIOUS
  <1>4. /\ v.at = "open" /\ v \in ParserRec /\ Holds(v) /\ v.row \in Replays /\ c \in Contents
    BY <1>1, <1>2, HeldBefore DEF OpenScratch, Holds
  <1>5. /\ inode' = (IF tmpName[c] # 0 THEN [inode EXCEPT ![f] = "empty"] ELSE Append(inode, "empty"))
        /\ tmpName' = [tmpName EXCEPT ![c] = f] /\ Work(p, Opens(v, f))
        /\ UNCHANGED <<rows, stored, ingest, sidecar, crumbs>>
    BY <1>1, <1>2, <1>3, Zenon DEF OpenScratch, Opens
  <1>6. /\ inode \in Seq({"empty", "whole"}) /\ Len(inode) \in Nat
        /\ tmpName \in [Contents -> 0..Len(inode)] /\ sidecar \in [Contents -> 0..Len(inode)]
        /\ Names /\ crumbs \subseteq Contents /\ DOMAIN inode = 1..Len(inode)
    BY DEF ReplayInv, ReplayTypes
  <1>7. f \in Nat /\ f # 0 /\ f \in 1..(Len(inode) + 1)
    BY <1>3, <1>4, <1>6
  <1>8. /\ inode' \in Seq({"empty", "whole"}) /\ Len(inode') \in Nat /\ Len(inode') >= Len(inode)
        /\ f \in 1..Len(inode')
        /\ \A i \in 1..Len(inode) : i # f => inode'[i] = inode[i]
    <2>1. CASE tmpName[c] # 0
      <3>1. f = tmpName[c] /\ inode' = [inode EXCEPT ![f] = "empty"]
        BY <1>3, <1>5, <2>1
      <3>2. f \in 1..Len(inode)
        BY <1>4, <1>6, <2>1, <3>1
      <3> QED
        BY <1>6, <3>1, <3>2
    <2>2. CASE tmpName[c] = 0
      <3>1. f = Len(inode) + 1 /\ inode' = Append(inode, "empty")
        BY <1>3, <1>5, <2>2
      <3> QED
        BY <1>6, <3>1
    <2> QED
      BY <2>1, <2>2
  <1>9. /\ tmpName' \in [Contents -> 0..Len(inode')] /\ sidecar' \in [Contents -> 0..Len(inode')]
        /\ tmpName'[c] = f /\ \A d \in Contents \ {c} : tmpName'[d] = tmpName[d]
    BY <1>4, <1>5, <1>6, <1>7, <1>8
  <1>10. \A d \in Contents : f # sidecar[d] /\ (d # c => f # tmpName[d])
    BY <1>3, <1>4, <1>6 DEF Names
  <1>11. Names'
    BY <1>5, <1>6, <1>8, <1>9, <1>10 DEF Names
  <1>12. PICK w : w = Opens(v, f)
    OBVIOUS
  <1>13. w \in ParserRec /\ w.at = "dump" /\ w.row = v.row /\ w.file = f
    BY <1>4, <1>7, <1>12, ParserUpdates
  <1>14. Holds(w)'
    BY <1>2, <1>4, <1>7, <1>9, <1>13 DEF Holds
  <1> QED
    BY <1>5, <1>6, <1>8, <1>9, <1>11, <1>12, <1>13, <1>14, ParserWrites

LEMMA Dumping ==
    ASSUME OneParser, ReplayInv, NEW p \in Parsers, DumpSidecar(p)
    PROVE  ReplayInv'
  <1>1. PICK v : v = parser[p]
    OBVIOUS
  <1>2. /\ v.at = "dump" /\ v \in ParserRec /\ Holds(v) /\ v.row \in Replays
        /\ Bytes[v.row] \in Contents /\ tmpName[Bytes[v.row]] = v.file /\ v.file # 0
    BY <1>1, HeldBefore DEF DumpSidecar, Holds
  <1>3. /\ inode' = [inode EXCEPT ![v.file] = "whole"] /\ Work(p, WorksAt(v, "rename"))
        /\ UNCHANGED <<rows, stored, ingest, tmpName, sidecar, crumbs>>
    BY <1>1, Zenon DEF DumpSidecar, WorksAt
  <1>4. /\ inode \in Seq({"empty", "whole"}) /\ Len(inode) \in Nat /\ DOMAIN inode = 1..Len(inode)
        /\ tmpName \in [Contents -> 0..Len(inode)] /\ sidecar \in [Contents -> 0..Len(inode)]
        /\ Names /\ crumbs \subseteq Contents
    BY DEF ReplayInv, ReplayTypes
  <1>5. v.file \in 1..Len(inode)
    BY <1>2, <1>4
  <1>6. /\ inode' \in Seq({"empty", "whole"}) /\ Len(inode') = Len(inode)
        /\ inode'[v.file] = "whole"
        /\ \A i \in 1..Len(inode) : inode[i] = "whole" => inode'[i] = "whole"
    BY <1>3, <1>4, <1>5
  <1>7. Names'
    BY <1>3, <1>4, <1>6 DEF Names
  <1>8. PICK w : w = WorksAt(v, "rename")
    OBVIOUS
  <1>9. w \in ParserRec /\ w.at = "rename" /\ w.row = v.row /\ w.file = v.file
    BY <1>2, <1>8, ParserUpdates
  <1>10. Holds(w)'
    BY <1>2, <1>3, <1>6, <1>9 DEF Holds
  <1> QED
    BY <1>3, <1>4, <1>6, <1>7, <1>8, <1>9, <1>10, ParserWrites

\* The rename gives the whole file its second name and takes away the first.
LEMMA Renaming ==
    ASSUME OneParser, ReplayInv, NEW p \in Parsers, RenameSidecar(p)
    PROVE  ReplayInv'
  <1>1. PICK v : v = parser[p]
    OBVIOUS
  <1>2. PICK c : c = Bytes[v.row]
    OBVIOUS
  <1>3. /\ v.at = "rename" /\ v \in ParserRec /\ Holds(v) /\ v.row \in Replays
        /\ c \in Contents /\ tmpName[c] # 0 /\ inode[tmpName[c]] = "whole"
    BY <1>1, <1>2, HeldBefore DEF RenameSidecar, Holds
  <1>4. /\ sidecar' = [sidecar EXCEPT ![c] = tmpName[c]] /\ tmpName' = [tmpName EXCEPT ![c] = 0]
        /\ Work(p, WorksAt(v, "crumbs")) /\ UNCHANGED <<rows, stored, ingest, inode, crumbs>>
    BY <1>1, <1>2, Zenon DEF RenameSidecar, WorksAt
  <1>5. /\ inode \in Seq({"empty", "whole"}) /\ Len(inode) \in Nat
        /\ tmpName \in [Contents -> 0..Len(inode)] /\ sidecar \in [Contents -> 0..Len(inode)]
        /\ Names /\ crumbs \subseteq Contents
    BY DEF ReplayInv, ReplayTypes
  <1>6. /\ tmpName' \in [Contents -> 0..Len(inode)] /\ sidecar' \in [Contents -> 0..Len(inode)]
        /\ sidecar'[c] = tmpName[c] /\ tmpName'[c] = 0
        /\ \A d \in Contents \ {c} : sidecar'[d] = sidecar[d] /\ tmpName'[d] = tmpName[d]
    BY <1>3, <1>4, <1>5
  <1>7. Names'
    BY <1>3, <1>4, <1>5, <1>6 DEF Names
  <1>8. PICK w : w = WorksAt(v, "crumbs")
    OBVIOUS
  <1>9. w \in ParserRec /\ w.at = "crumbs" /\ w.row = v.row
    BY <1>3, <1>8, ParserUpdates
  <1>10. Holds(w)'
    BY <1>2, <1>3, <1>6, <1>9 DEF Holds
  <1>11. \A d \in Contents : sidecar[d] # 0 => sidecar'[d] # 0
    BY <1>3, <1>6
  <1> QED
    BY <1>4, <1>5, <1>6, <1>7, <1>8, <1>9, <1>10, <1>11, ParserWrites

LEMMA Crumbling ==
    ASSUME OneParser, ReplayInv, NEW p \in Parsers, WriteCrumbs(p)
    PROVE  ReplayInv'
  <1>1. PICK v : v = parser[p]
    OBVIOUS
  <1>2. /\ v.at = "crumbs" /\ v \in ParserRec /\ Holds(v) /\ v.row \in Replays
        /\ Bytes[v.row] \in Contents
    BY <1>1, HeldBefore DEF WriteCrumbs, Holds
  <1>3. PICK at \in {"update", "updateCrumbs"} :
            /\ Work(p, WorksAt(v, at)) /\ UNCHANGED <<rows, stored, ingest, inode, tmpName, sidecar>>
            /\ crumbs' = crumbs \cup {Bytes[v.row]} \/ (at = "update" /\ crumbs' = crumbs)
    BY <1>1, Zenon DEF WriteCrumbs, WorksAt
  <1>4. PICK w : w = WorksAt(v, at)
    OBVIOUS
  <1>5. w \in ParserRec /\ w.at = at /\ w.row = v.row
    BY <1>2, <1>4, ParserUpdates
  <1>6. Holds(w)'
    BY <1>2, <1>3, <1>5 DEF Holds
  <1>7. Names' /\ crumbs \subseteq crumbs' /\ crumbs' \subseteq Contents
    BY <1>2, <1>3 DEF ReplayInv, ReplayTypes, Names
  <1>8. /\ inode' \in Seq({"empty", "whole"}) /\ tmpName' \in [Contents -> 0..Len(inode')]
        /\ sidecar' \in [Contents -> 0..Len(inode')]
        /\ \A c \in Contents : sidecar[c] # 0 => sidecar'[c] # 0
    BY <1>3 DEF ReplayInv, ReplayTypes
  <1> QED
    BY <1>3, <1>4, <1>5, <1>6, <1>7, <1>8, ParserWrites

\* A replay that counts as parsed has its sidecar, whole, and its row names only
\* what is there: for any replays, contents shared in any way, failures and
\* deaths ("Sidecar writing is atomic", pipeline.py:766).  OneParser is needed:
\* two parsers of one artifact share its temporary name.
THEOREM FilesAreKept ==
    ASSUME OneParser
    PROVE  ReplayInit /\ [][ReplayNext]_replayVars => []ReplayFilesKept
  <1>1. ASSUME ReplayInit PROVE ReplayInv
    <2>1. ReplayTypes
      <3>1. /\ rows = [r \in Replays |-> NoRow] /\ NoRow \in RowRec
            /\ parser = [p \in Parsers |-> Stopped] /\ Stopped \in ParserRec
        BY <1>1, FreshRows DEF ReplayInit
      <3>2. rows \in [Replays -> RowRec] /\ parser \in [Parsers -> ParserRec]
        <4> HIDE DEF RowRec, ParserRec, NoRow, Stopped
        <4> QED
          BY <3>1
      <3>3. inode \in Seq({"empty", "whole"}) /\ Len(inode) = 0
        BY <1>1 DEF ReplayInit
      <3>4. ingest \in IngestRec
        BY <1>1 DEF ReplayInit, IngestRec
      <3> QED
        BY <1>1, <3>2, <3>3, <3>4 DEF ReplayInit, ReplayTypes
    <2>2. Names /\ Parsing
      BY <1>1, FreshRows DEF ReplayInit, Names, Parsing
    <2>3. Rows /\ RowsPointAtFiles
      BY <1>1, FreshRows DEF ReplayInit, Rows, RowsPointAtFiles
    <2> QED
      BY <2>1, <2>2, <2>3 DEF ReplayInv
  <1>2. ASSUME ReplayInv, [ReplayNext]_replayVars PROVE ReplayInv'
    <2>1. CASE UNCHANGED replayVars
      BY <1>2, <2>1 DEF replayVars, ReplayInv, ReplayTypes, Names, Parsing, Rows,
         RowsPointAtFiles
    <2>2. CASE ReplayNext
      BY <1>2, <2>2, Ingesting, ParserReports, Opening, Dumping, Renaming, Crumbling
         DEF ReplayNext, ParserNext, Reporting
    <2> QED
      BY <1>2, <2>1, <2>2
  <1>3. ASSUME ReplayInv PROVE ReplayFilesKept
    <2>1. ASSUME NEW r \in Replays, rows[r].status = "success"
          PROVE  sidecar[Bytes[r]] # 0 /\ inode[sidecar[Bytes[r]]] = "whole"
      BY <1>3, <2>1, HeldBefore DEF ReplayInv, Names
    <2> QED
      BY <1>3, <2>1 DEF ReplayInv, ReplayFilesKept, SidecarWhole
  <1> QED
    BY <1>1, <1>2, <1>3, PTL
-----------------------------------------------------------------------------
(* The listing. *)

Ids == 1 .. MaxMap
ListRec == [at : {"idle", "page", "entries", "random", "ended", "failed"}, after : 0 .. MaxMap,
            todo : SUBSET Ids, more : BOOLEAN, emitted : BOOLEAN, yielded : Seq(Ids),
            kept : SUBSET Ids, blank : BOOLEAN, runs : Int]
PageRec == [ids : SUBSET Ids, more : BOOLEAN, of : SUBSET Ids, stored : BOOLEAN]

ListingTypes ==
    /\ newest \in Ids /\ online \subseteq 1 .. newest
    /\ pages \in [0 .. MaxMap -> PageRec] /\ listing \in ListRec

\* A page is the newest part of what was older than its cursor when it was read.
TopOf(p, c) ==
    /\ p.ids \subseteq p.of
    /\ c # 0 => \A m \in p.ids : m < c
    /\ \A m \in p.of : (c = 0 \/ m < c) =>
          m \in p.ids \/ (p.more /\ p.ids # {} /\ \A n \in p.ids : m < n)

\* The first page is the oldest: a map it saw that is still there was there when any other
\* was read.
Cache ==
    \A c \in 0 .. MaxMap : pages[c].stored =>
        /\ TopOf(pages[c], c) /\ pages[c].of \subseteq 1 .. newest
        /\ pages[0].stored /\ pages[0].of \cap online \subseteq pages[c].of

\* Where listing l is in the list: below what it has yielded, above what it has not; f is
\* the first page.
Going(l) == l.at \in {"page", "entries"}
Descent(l, f) ==
    /\ l.at = "random" => l.after = 0
    /\ Going(l) \/ l.after # 0 =>
         /\ \A i \in DOMAIN l.yielded : l.yielded[i] >= l.after
         /\ \A i, j \in DOMAIN l.yielded : i < j => l.yielded[i] > l.yielded[j]
         /\ l.after = 0 => l.yielded = << >>
    /\ l.at = "entries" /\ l.after # 0 => \A m \in l.todo : m < l.after
    /\ l.at = "entries" \/ l.after # 0 => f.stored

\* A map to be kept has been yielded, or it is still below.
Below(l, m) ==
    /\ l.at = "page" => l.after = 0 \/ m < l.after
    /\ l.at = "entries" =>
          \/ m \in l.todo
          \/ l.more /\ (\A n \in l.todo : m < n) /\ (l.emitted => m < l.after)
    /\ l.at = "ended" => l.after = 0 \/ l.blank
Coverage(l, f, web) ==
    /\ l.kept \subseteq web /\ (l.at = "entries" \/ l.after # 0 => l.kept \subseteq f.of)
    /\ MaxMaps = 0 => \A m \in l.kept \ Nameless : m \in Range(l.yielded) \/ Below(l, m)

ListingInv == ListingTypes /\ Cache /\ Descent(listing, pages[0]) /\ Coverage(listing, pages[0], online)

LEMMA PageTops ==
    ASSUME NEW c \in 0 .. MaxMap, newest \in Ids, online \subseteq 1 .. newest
    PROVE  Page(c) \in PageRec /\ TopOf(Page(c), c) /\ Page(c).of = online /\ Page(c).stored
  <1> DEFINE S == Older(c)
  <1>1. MaxMap \in Nat /\ newest \in Nat /\ 1 <= newest /\ newest <= MaxMap
    BY ListingAssumption DEF Ids
  <1>2. S \subseteq online
    BY DEF Older
  <1>3. /\ S \subseteq 1 .. newest /\ S \subseteq online /\ newest \in Nat /\ newest <= MaxMap
        /\ MaxMap \in Nat
    BY <1>1, <1>2
  <1>4. IsFiniteSet(S) /\ Cardinality(S) \in Nat
    <2>1. IsFiniteSet(1 .. newest)
      BY <1>1, FS_Interval
    <2> HIDE DEF S
    <2>2. IsFiniteSet(S)
      BY <1>3, <2>1, FS_Subset
    <2> QED
      BY <2>2, FS_CardinalityType
  <1>5. \A m : IsFiniteSet(Newer(S, m)) /\ Cardinality(Newer(S, m)) \in Nat
    <2>1. \A m : Newer(S, m) \subseteq S
      BY DEF Newer
    <2> QED
      BY <1>4, <2>1, FS_Subset, FS_CardinalityType
  <1>6. ASSUME NEW m \in S, Cardinality(Newer(S, m)) >= PageSize
        PROVE  Cardinality(S) > PageSize
    <2>1. Newer(S, m) \cup {m} \subseteq S /\ m \notin Newer(S, m)
      BY <1>3, <1>6 DEF Newer
    <2>2. Cardinality(Newer(S, m) \cup {m}) = Cardinality(Newer(S, m)) + 1
      BY <1>5, <2>1, FS_AddElement
    <2>3. Cardinality(Newer(S, m) \cup {m}) <= Cardinality(S)
      BY <1>4, <2>1, FS_Subset
    <2> QED
      BY <1>4, <1>5, <1>6, <2>2, <2>3, ListingAssumption
  <1>7. ASSUME NEW m \in S, NEW n \in S, Cardinality(Newer(S, m)) >= PageSize,
               Cardinality(Newer(S, n)) < PageSize
        PROVE  m < n
    <2> SUFFICES ASSUME m >= n PROVE FALSE
      BY <1>3
    <2>1. Newer(S, m) \subseteq Newer(S, n)
      BY <1>3 DEF Newer
    <2>2. Cardinality(Newer(S, m)) <= Cardinality(Newer(S, n))
      BY <1>5, <2>1, FS_Subset
    <2> QED
      BY <1>5, <1>7, <2>2, ListingAssumption
  <1>8. ASSUME S # {} PROVE \E m \in S : Cardinality(Newer(S, m)) < PageSize
    <2>1. PICK m \in S : \A n \in S : n <= m
      <3> DEFINE T == {MaxMap - m : m \in S}
      <3>1. T \subseteq Nat /\ T # {}
        BY <1>3, <1>8
      <3>2. PICK k \in T : \A n \in T : k <= n
        BY <3>1, LeastNat
      <3>3. PICK m \in S : k = MaxMap - m
        BY <3>2
      <3>4. \A n \in S : MaxMap - n \in T
        OBVIOUS
      <3>5. \A n \in S : k <= MaxMap - n
        BY <3>2, <3>4
      <3> HIDE DEF S
      <3> QED
        BY <1>3, <3>3, <3>5
    <2>2. Newer(S, m) = {}
      BY <1>3, <2>1 DEF Newer
    <2> QED
      BY <2>2, FS_EmptySet, ListingAssumption
  <1>9. PICK p : p = Page(c)
    OBVIOUS
  <1>10. /\ p = [ids |-> {m \in S : Cardinality(Newer(S, m)) < PageSize},
                more |-> Cardinality(S) > PageSize, of |-> online, stored |-> TRUE]
    BY <1>9 DEF Page
  <1>11. p \in PageRec
    BY <1>3, <1>10 DEF PageRec, Ids
  <1>12. p.ids \subseteq p.of /\ (c # 0 => \A m \in p.ids : m < c)
    BY <1>10 DEF Older
  <1>13. ASSUME NEW m \in p.of, c = 0 \/ m < c, m \notin p.ids
         PROVE  p.more /\ p.ids # {} /\ \A n \in p.ids : m < n
    <2>1. m \in S
      BY <1>10, <1>13 DEF Older
    <2>2. Cardinality(Newer(S, m)) >= PageSize
      BY <1>5, <1>10, <1>13, <2>1, ListingAssumption
    <2> HIDE DEF S
    <2> QED
      BY <1>6, <1>7, <1>8, <1>10, <2>1, <2>2
  <1> QED
    BY <1>9, <1>10, <1>11, <1>12, <1>13 DEF TopOf

\* What a page makes of a listing.
LEMMA BegunPage ==
    ASSUME NEW l \in ListRec, NEW p \in PageRec
    PROVE  /\ Begin(l, p) \in ListRec
           /\ Begin(l, p).at = (IF p.ids = {} THEN "ended" ELSE "entries")
           /\ Begin(l, p).todo = p.ids /\ Begin(l, p).more = p.more /\ ~Begin(l, p).emitted
           /\ Begin(l, p).kept = (IF l.after = 0 THEN p.of \cap online ELSE l.kept)
           /\ Begin(l, p).after = l.after /\ Begin(l, p).yielded = l.yielded
           /\ Begin(l, p).blank = l.blank
  <1>1. PICK k : k = Begin(l, p)
    OBVIOUS
  <1>2. PICK kept : kept = IF l.after = 0 THEN p.of \cap online ELSE l.kept
    OBVIOUS
  <1>3. PICK at : at = IF p.ids = {} THEN "ended" ELSE "entries"
    OBVIOUS
  <1>4. k = [l EXCEPT !.at = at, !.todo = p.ids, !.more = p.more, !.emitted = FALSE, !.kept = kept]
    BY <1>1, <1>2, <1>3, Zenon DEF Begin
  <1>5. kept \subseteq Ids /\ at \in {"ended", "entries"}
    BY <1>2, <1>3 DEF ListRec, PageRec
  <1>6. p.ids \subseteq Ids /\ p.more \in BOOLEAN
    BY DEF PageRec
  <1>7. k \in ListRec
    BY <1>4, <1>5, <1>6 DEF ListRec
  <1>8. /\ k.at = at /\ k.todo = p.ids /\ k.more = p.more /\ ~k.emitted /\ k.kept = kept
        /\ k.after = l.after /\ k.yielded = l.yielded /\ k.blank = l.blank
    BY <1>4 DEF ListRec
  <1> QED
    BY <1>1, <1>2, <1>3, <1>7, <1>8

LEMMA TakesPage ==
    ASSUME NEW l \in ListRec, NEW p \in PageRec, NEW f \in PageRec,
           Descent(l, f), Coverage(l, f, online), l.at = "page",
           TopOf(p, l.after), f.stored, l.after = 0 => f = p,
           f.of \cap online \subseteq p.of
    PROVE  LET k == Begin(l, p) IN
           k \in ListRec /\ Descent(k, f) /\ Coverage(k, f, online)
  <1>1. PICK k : k = Begin(l, p)
    OBVIOUS
  <1>2. /\ k \in ListRec /\ k.at = (IF p.ids = {} THEN "ended" ELSE "entries")
        /\ k.todo = p.ids /\ k.more = p.more /\ ~k.emitted
        /\ k.kept = (IF l.after = 0 THEN p.of \cap online ELSE l.kept)
        /\ k.after = l.after /\ k.yielded = l.yielded
    BY <1>1, BegunPage
  <1>3. Descent(k, f)
    BY <1>2 DEF Descent, Going, TopOf
  <1>4. k.kept \subseteq online /\ k.kept \subseteq f.of
    BY <1>2 DEF Coverage
  <1>5. ASSUME MaxMaps = 0, NEW m \in k.kept \ Nameless, m \notin Range(k.yielded)
        PROVE  Below(k, m)
    <2>1. m \in p.of
      BY <1>4
    <2>2. l.after = 0 \/ m < l.after
      BY <1>2, <1>5 DEF Coverage, Below
    <2>3. m \in p.ids \/ (p.more /\ p.ids # {} /\ \A n \in p.ids : m < n)
      BY <2>1, <2>2 DEF TopOf
    <2>4. k.at = "entries"
      BY <1>2, <2>3
    <2> QED
      BY <1>2, <2>3, <2>4 DEF Below
  <1> QED
    BY <1>1, <1>2, <1>3, <1>4, <1>5 DEF Coverage

\* What a map makes of it: the entries above it are done.
LEMMA SeenEntry ==
    ASSUME NEW l \in ListRec, NEW m \in Ids
    PROVE  /\ Seen(l, m) \in ListRec
           /\ Seen(l, m).after = m /\ Seen(l, m).todo = l.todo \ {m} /\ Seen(l, m).emitted
           /\ Seen(l, m).at = l.at /\ Seen(l, m).more = l.more /\ Seen(l, m).kept = l.kept
           /\ Seen(l, m).yielded = l.yielded /\ Seen(l, m).blank = l.blank
  <1>1. PICK todo : todo = l.todo \ {m}
    OBVIOUS
  <1>2. Seen(l, m) = [l EXCEPT !.todo = todo, !.after = m, !.emitted = TRUE]
    BY <1>1, Zenon DEF Seen
  <1>3. todo \in SUBSET Ids /\ m \in 0 .. MaxMap
    BY <1>1, ListingAssumption DEF ListRec, Ids
  <1> QED
    BY <1>1, <1>2, <1>3 DEF ListRec

LEMMA Appended ==
    ASSUME NEW s \in Seq(Ids), NEW m \in Ids
    PROVE  /\ Append(s, m) \in Seq(Ids) /\ DOMAIN Append(s, m) = 1 .. Len(s) + 1
           /\ DOMAIN s = 1 .. Len(s) /\ Len(s) \in Nat
           /\ Append(s, m)[Len(s) + 1] = m /\ \A i \in DOMAIN s : Append(s, m)[i] = s[i]
           /\ m \in Range(Append(s, m)) /\ Range(s) \subseteq Range(Append(s, m))
  <1>1. /\ Append(s, m) \in Seq(Ids) /\ DOMAIN Append(s, m) = 1 .. Len(s) + 1
        /\ DOMAIN s = 1 .. Len(s) /\ Len(s) \in Nat
        /\ Append(s, m)[Len(s) + 1] = m /\ \A i \in DOMAIN s : Append(s, m)[i] = s[i]
    OBVIOUS
  <1>2. PICK t : t = Append(s, m)
    OBVIOUS
  <1>3. Len(s) + 1 \in DOMAIN t /\ DOMAIN s \subseteq DOMAIN t
    BY <1>1, <1>2
  <1>4. m \in Range(t) /\ Range(s) \subseteq Range(t)
    BY <1>1, <1>2, <1>3 DEF Range
  <1> QED
    BY <1>1, <1>2, <1>4

LEMMA TakenMap ==
    ASSUME NEW l \in ListRec, NEW m \in Ids
    PROVE  /\ Take(l, m) \in ListRec
           /\ Enough => Take(l, m) = [l EXCEPT !.at = "ended"]
           /\ ~Enough => Take(l, m) = [l EXCEPT !.yielded = Append(l.yielded, m)]
  <1>1. Append(l.yielded, m) \in Seq(Ids)
    BY DEF ListRec
  <1>2. PICK y : y = Append(l.yielded, m)
    OBVIOUS
  <1>3. [l EXCEPT !.at = "ended"] \in ListRec /\ [l EXCEPT !.yielded = y] \in ListRec
    BY <1>1, <1>2 DEF ListRec
  <1> QED
    BY <1>2, <1>3, Zenon DEF Take

\* A listing that goes one map down.
LEMMA GoesDown ==
    ASSUME NEW l \in ListRec, NEW f \in PageRec, NEW web, Descent(l, f), Coverage(l, f, web),
           l.at = "entries", NEW m \in l.todo, Newer(l.todo, m) = {}
    PROVE  LET k == IF m \in Nameless THEN [l EXCEPT !.todo = @ \ {m}] ELSE Take(Seen(l, m), m)
           IN  k \in ListRec /\ Descent(k, f) /\ Coverage(k, f, web)
  <1>1. m \in Ids /\ m \in Nat /\ m > 0 /\ l.todo \subseteq Ids /\ l.yielded \in Seq(Ids) /\ l.after \in Nat
    BY DEF ListRec, Ids
  <1>2. \A n \in l.todo \ {m} : n < m
    BY <1>1 DEF Newer, Ids
  <1>3. CASE m \in Nameless
    <2>1. PICK k : k = [l EXCEPT !.todo = l.todo \ {m}]
      OBVIOUS
    <2>2. /\ k \in ListRec /\ k.at = l.at /\ k.after = l.after /\ k.todo = l.todo \ {m}
          /\ k.more = l.more /\ k.emitted = l.emitted /\ k.yielded = l.yielded
          /\ k.kept = l.kept /\ k.blank = l.blank
      BY <2>1 DEF ListRec
    <2>3. Descent(k, f)
      BY <2>2 DEF Descent, Going
    <2>4. k.kept \subseteq web /\ k.kept \subseteq f.of
      BY <2>2 DEF Coverage
    <2>5. ASSUME MaxMaps = 0, NEW n \in k.kept \ Nameless, n \notin Range(k.yielded)
          PROVE  Below(k, n)
      BY <1>3, <2>2, <2>5 DEF Coverage, Below
    <2> QED
      BY <1>3, <2>1, <2>2, <2>3, <2>4, <2>5, Zenon DEF Coverage
  <1>4. CASE m \notin Nameless
    <2>1. PICK s : s = Seen(l, m)
      OBVIOUS
    <2>2. /\ s \in ListRec /\ s.at = "entries" /\ s.after = m /\ s.todo = l.todo \ {m} /\ s.emitted
          /\ s.more = l.more /\ s.yielded = l.yielded /\ s.kept = l.kept /\ s.blank = l.blank
      BY <1>1, <2>1, SeenEntry
    <2>3. PICK k : k = Take(s, m)
      OBVIOUS
    <2>4. \A i \in DOMAIN l.yielded : l.yielded[i] > m /\ l.yielded[i] >= m
      <3> SUFFICES ASSUME NEW i \in DOMAIN l.yielded
                   PROVE  l.yielded[i] > m /\ l.yielded[i] >= m
        OBVIOUS
      <3>1. l.yielded[i] \in Ids /\ l.yielded # << >>
        BY <1>1
      <3>2. l.yielded[i] >= l.after /\ l.after # 0 /\ m < l.after
        BY <3>1 DEF Descent, Going
      <3> QED
        BY <1>1, <3>1, <3>2 DEF Ids
    <2>5. f.stored /\ l.kept \subseteq f.of /\ l.kept \subseteq web
      BY DEF Descent, Coverage
    <2>6. \A i, j \in DOMAIN l.yielded : i < j => l.yielded[i] > l.yielded[j]
      BY DEF Descent, Going
    <2>7. CASE Enough
      <3>1. /\ k \in ListRec /\ k.at = "ended" /\ k.after = m /\ k.kept = l.kept
            /\ k.yielded = l.yielded /\ MaxMaps # 0
        BY <1>1, <2>2, <2>3, <2>7, TakenMap DEF ListRec, Enough
      <3>2. Descent(k, f)
        <4>1. k.yielded = l.yielded /\ k.after = m /\ k.at = "ended" /\ m # 0
          BY <1>1, <3>1
        <4> QED
          BY <2>4, <2>5, <2>6, <4>1, Zenon DEF Descent, Going
      <3> QED
        BY <1>4, <2>1, <2>3, <2>5, <3>1, <3>2, Zenon DEF Coverage
    <2>8. CASE ~Enough
      <3>0. k = [s EXCEPT !.yielded = Append(l.yielded, m)] /\ k \in ListRec
        BY <1>1, <2>2, <2>3, <2>8, TakenMap
      <3>1. PICK y : y = Append(l.yielded, m)
        OBVIOUS
      <3>2. /\ k.at = "entries" /\ k.after = m /\ k.todo = l.todo \ {m} /\ k.emitted
            /\ k.more = l.more /\ k.yielded = y /\ k.kept = l.kept /\ k.blank = l.blank
        BY <2>2, <3>0, <3>1 DEF ListRec
      <3>3. /\ y \in Seq(Ids) /\ DOMAIN y = 1 .. Len(l.yielded) + 1 /\ Len(l.yielded) \in Nat
            /\ DOMAIN l.yielded = 1 .. Len(l.yielded)
            /\ y[Len(l.yielded) + 1] = m /\ \A i \in DOMAIN l.yielded : y[i] = l.yielded[i]
            /\ m \in Range(y) /\ Range(l.yielded) \subseteq Range(y)
        BY <1>1, <3>1, Appended
      <3>4. \A i \in DOMAIN y : y[i] >= m /\ (i \in DOMAIN l.yielded \/ i = Len(l.yielded) + 1)
        <4> SUFFICES ASSUME NEW i \in DOMAIN y
                     PROVE  y[i] >= m /\ (i \in DOMAIN l.yielded \/ i = Len(l.yielded) + 1)
          OBVIOUS
        <4>1. i \in DOMAIN l.yielded \/ i = Len(l.yielded) + 1
          BY <3>3
        <4> QED
          BY <1>1, <2>4, <3>3, <4>1
      <3>5. \A i, j \in DOMAIN y : i < j => y[i] > y[j]
        <4> SUFFICES ASSUME NEW i \in DOMAIN y, NEW j \in DOMAIN y, i < j PROVE y[i] > y[j]
          OBVIOUS
        <4>1. i \in DOMAIN l.yielded
          BY <3>3
        <4>2. CASE j \in DOMAIN l.yielded
          BY <2>6, <3>3, <4>1, <4>2
        <4>3. CASE j = Len(l.yielded) + 1
          BY <2>4, <3>3, <4>1, <4>3
        <4> QED
          BY <3>4, <4>2, <4>3
      <3>6. Descent(k, f)
        BY <1>1, <1>2, <2>5, <3>2, <3>4, <3>5 DEF Descent, Going
      <3>7. ASSUME MaxMaps = 0, NEW n \in k.kept \ Nameless, n \notin Range(y)
            PROVE  Below(k, n)
        <4>1. Below(l, n) /\ n # m
          BY <3>2, <3>3, <3>7 DEF Coverage
        <4> QED
          BY <3>2, <4>1 DEF Below
      <3> QED
        BY <1>4, <2>1, <2>3, <2>5, <3>0, <3>2, <3>6, <3>7, Zenon DEF Coverage
    <2> QED
      BY <2>7, <2>8
  <1> QED
    BY <1>3, <1>4

LEMMA TurnsPage ==
    ASSUME NEW l \in ListRec, NEW f \in PageRec, NEW web, Descent(l, f), Coverage(l, f, web),
           l.at = "entries", l.todo = {}
    PROVE  LET k == [l EXCEPT !.at = IF l.more /\ l.emitted THEN "page" ELSE "ended",
                              !.blank = ~l.emitted]
           IN  k \in ListRec /\ Descent(k, f) /\ Coverage(k, f, web)
  <1>1. PICK at : at = IF l.more /\ l.emitted THEN "page" ELSE "ended"
    OBVIOUS
  <1>2. PICK blank \in BOOLEAN : blank = ~l.emitted
    OBVIOUS
  <1>3. PICK k : k = [l EXCEPT !.at = at, !.blank = blank]
    OBVIOUS
  <1>4. /\ k \in ListRec /\ k.at = at /\ k.blank = blank /\ k.after = l.after
        /\ k.more = l.more /\ k.emitted = l.emitted /\ k.yielded = l.yielded /\ k.kept = l.kept
    BY <1>1, <1>3 DEF ListRec
  <1>5. Descent(k, f)
    BY <1>1, <1>4 DEF Descent, Going
  <1>6. k.kept \subseteq web /\ k.kept \subseteq f.of
    BY <1>4 DEF Coverage
  <1>7. ASSUME MaxMaps = 0, NEW n \in k.kept \ Nameless, n \notin Range(k.yielded)
        PROVE  Below(k, n)
    <2>1. Below(l, n)
      BY <1>4, <1>7 DEF Coverage
    <2> QED
      BY <1>1, <1>2, <1>4, <2>1 DEF Below
  <1> QED
    BY <1>1, <1>2, <1>3, <1>4, <1>5, <1>6, <1>7, Zenon DEF Coverage

\* A listing that is neither going nor has gone anywhere promises nothing.
LEMMA Nowhere ==
    ASSUME NEW k \in ListRec, k.at \in {"random", "ended", "failed"}, k.after = 0,
           NEW f, NEW web, k.kept \subseteq web
    PROVE  Descent(k, f) /\ Coverage(k, f, web)
  BY DEF Descent, Coverage, Going, Below

\* A listing at random only yields.
LEMMA DrawsOne ==
    ASSUME NEW l \in ListRec, NEW f, NEW web, Descent(l, f), Coverage(l, f, web), l.at = "random",
           NEW k, k = l \/ k = [l EXCEPT !.at = "ended"] \/ k = [l EXCEPT !.at = "failed"]
                  \/ \E m \in Ids : k = Take(l, m)
    PROVE  k \in ListRec /\ Descent(k, f) /\ Coverage(k, f, web)
  <1>1. l.after = 0 /\ l.kept \subseteq web
    BY DEF Descent, Coverage
  <1>2. /\ k \in ListRec /\ k.at \in {"random", "ended", "failed"} /\ k.after = 0
        /\ k.kept = l.kept
    <2>1. CASE k = l \/ k = [l EXCEPT !.at = "ended"] \/ k = [l EXCEPT !.at = "failed"]
      BY <1>1, <2>1 DEF ListRec
    <2>2. CASE \E m \in Ids : k = Take(l, m)
      <3>1. PICK m \in Ids : k = Take(l, m)
        BY <2>2
      <3>2. k \in ListRec
        BY <3>1, TakenMap
      <3>3. CASE Enough
        <4>1. k = [l EXCEPT !.at = "ended"]
          BY <3>1, <3>3, TakenMap, Zenon
        <4> QED
          BY <1>1, <3>2, <4>1 DEF ListRec
      <3>4. CASE ~Enough
        <4>1. PICK y : y = Append(l.yielded, m)
          OBVIOUS
        <4>2. k = [l EXCEPT !.yielded = y]
          BY <3>1, <3>4, <4>1, TakenMap, Zenon
        <4> QED
          BY <1>1, <3>2, <4>2 DEF ListRec
      <3> QED
        BY <3>3, <3>4
    <2> QED
      BY <2>1, <2>2
  <1> QED
    BY <1>1, <1>2, Nowhere

\* A listing that starts or breaks off.
LEMMA StartsAnew ==
    ASSUME NEW l \in ListRec, NEW mode \in {"page", "random"}, NEW f, NEW web
    PROVE  LET k == [NoListing EXCEPT !.at = mode, !.runs = l.runs + 1]
           IN  k \in ListRec /\ Descent(k, f) /\ Coverage(k, f, web)
  <1>1. PICK k : k = [NoListing EXCEPT !.at = mode, !.runs = l.runs + 1]
    OBVIOUS
  <1>2. /\ k \in ListRec /\ k.at = mode /\ k.after = 0 /\ k.yielded = << >> /\ k.kept = {}
    <2>1. l.runs + 1 \in Int /\ 0 \in 0 .. MaxMap
      BY ListingAssumption DEF ListRec
    <2>2. PICK n \in Int : n = l.runs + 1
      BY <2>1
    <2>3. k = [at |-> mode, after |-> 0, todo |-> {}, more |-> FALSE, emitted |-> FALSE,
               yielded |-> << >>, kept |-> {}, blank |-> FALSE, runs |-> n]
      BY <1>1, <2>2 DEF NoListing
    <2>4. << >> \in Seq(Ids)
      OBVIOUS
    <2> QED
      BY <2>1, <2>3, <2>4 DEF ListRec
  <1>3. Descent(k, f)
    BY <1>2 DEF Descent, Going
  <1>4. Coverage(k, f, web)
    BY <1>2 DEF Coverage
  <1> QED
    BY <1>1, <1>2, <1>3, <1>4

LEMMA BreaksOff ==
    ASSUME NEW l \in ListRec, NEW f, NEW web, Descent(l, f), Coverage(l, f, web), l.at = "page"
    PROVE  LET k == [l EXCEPT !.at = "failed"]
           IN  k \in ListRec /\ Descent(k, f) /\ Coverage(k, f, web)
  <1>1. PICK k : k = [l EXCEPT !.at = "failed"]
    OBVIOUS
  <1>2. /\ k \in ListRec /\ k.at = "failed" /\ k.after = l.after /\ k.yielded = l.yielded
        /\ k.kept = l.kept
    BY <1>1 DEF ListRec
  <1>3. Descent(k, f)
    BY <1>2 DEF Descent, Going
  <1>4. Coverage(k, f, web)
    BY <1>2 DEF Coverage, Below
  <1> QED
    BY <1>1, <1>2, <1>3, <1>4

-----------------------------------------------------------------------------
(* The steps. *)

\* A step that leaves the site and the cache alone.
LEMMA ListingAlone ==
    ASSUME ListingInv, UNCHANGED <<online, newest, pages>>, listing' \in ListRec,
           Descent(listing', pages[0]), Coverage(listing', pages[0], online)
    PROVE  ListingInv'
  <1>1. PICK k \in ListRec : k = listing'
    OBVIOUS
  <1>2. PICK f : f = pages[0]
    OBVIOUS
  <1>3. f = pages[0]' /\ online' = online /\ pages' = pages /\ newest' = newest
    BY <1>2
  <1>4. ListingTypes'
    BY <1>1, <1>3 DEF ListingInv, ListingTypes
  <1>5. Cache'
    BY <1>3 DEF ListingInv, Cache
  <1>6. Descent(k, f) /\ Coverage(k, f, online)
    BY <1>1, <1>2
  <1>7. Descent(listing, pages[0])' /\ Coverage(listing, pages[0], online)'
    BY <1>1, <1>3, <1>6
  <1> QED
    BY <1>4, <1>5, <1>7 DEF ListingInv

LEMMA FirstPage ==
    ASSUME ListingInv
    PROVE  /\ pages[0] \in PageRec /\ listing \in ListRec /\ pages[listing.after] \in PageRec
           /\ listing.after \in 0 .. MaxMap /\ 0 \in 0 .. MaxMap
           /\ Descent(listing, pages[0]) /\ Coverage(listing, pages[0], online)
           /\ online \subseteq Ids
  <1>1. 0 \in 0 .. MaxMap /\ listing.after \in 0 .. MaxMap
    BY ListingAssumption DEF ListingInv, ListingTypes, ListRec
  <1>2. online \subseteq Ids
    BY ListingAssumption DEF ListingInv, ListingTypes, Ids
  <1> QED
    BY <1>1, <1>2 DEF ListingInv, ListingTypes

LEMMA Starts ==
    ASSUME ListingInv, StartListing
    PROVE  ListingInv'
  <1>1. PICK mode \in {"page", "random"} :
           listing' = [NoListing EXCEPT !.at = mode, !.runs = listing.runs + 1]
    BY DEF StartListing
  <1>2. /\ listing' \in ListRec /\ Descent(listing', pages[0])
        /\ Coverage(listing', pages[0], online)
    BY <1>1, StartsAnew, FirstPage, Zenon
  <1> QED
    BY <1>2, ListingAlone DEF StartListing

LEMMA ReadsCache ==
    ASSUME ListingInv, ReadCachedPage
    PROVE  ListingInv'
  <1>1. PICK p : p = pages[listing.after]
    OBVIOUS
  <1>2. p \in PageRec /\ p.stored /\ listing.at = "page" /\ listing' = Begin(listing, p)
    BY <1>1, FirstPage DEF ReadCachedPage
  <1>3. /\ TopOf(p, listing.after) /\ pages[0].stored /\ pages[0].of \cap online \subseteq p.of
        /\ listing.after = 0 => pages[0] = p
    BY <1>1, <1>2, FirstPage DEF ListingInv, Cache
  <1>4. /\ listing' \in ListRec /\ Descent(listing', pages[0])
        /\ Coverage(listing', pages[0], online)
    BY <1>2, <1>3, FirstPage, TakesPage, Zenon
  <1> QED
    BY <1>4, ListingAlone DEF ReadCachedPage

LEMMA Fetches ==
    ASSUME ListingInv, FetchPage
    PROVE  ListingInv'
  <1>1. PICK c \in 0 .. MaxMap : c = listing.after
    BY FirstPage
  <1>2. PICK p : p = Page(c)
    OBVIOUS
  <1>3. /\ p \in PageRec /\ TopOf(p, c) /\ p.of = online /\ p.stored
    BY <1>2, PageTops DEF ListingInv, ListingTypes
  <1>4. /\ pages' = [pages EXCEPT ![c] = p] /\ listing' = Begin(listing, p) /\ listing.at = "page"
        /\ ~pages[c].stored /\ online' = online /\ newest' = newest
    BY <1>1, <1>2 DEF FetchPage
  <1>5. /\ pages \in [0 .. MaxMap -> PageRec] /\ newest \in Ids /\ online \subseteq 1 .. newest
        /\ \A d \in 0 .. MaxMap : pages'[d] = IF d = c THEN p ELSE pages[d]
        /\ pages' \in [0 .. MaxMap -> PageRec] /\ 0 \in 0 .. MaxMap
    BY <1>3, <1>4, FirstPage DEF ListingInv, ListingTypes
  <1>6. PICK f : f = pages'[0]
    OBVIOUS
  <1>7. /\ f \in PageRec /\ f.stored /\ f.of \cap online \subseteq p.of /\ (c = 0 => f = p)
        /\ Descent(listing, f) /\ Coverage(listing, f, online)
    <2>1. CASE c = 0
      <3>1. f = p
        BY <1>5, <1>6, <2>1
      <3>2. Descent(listing, f) /\ Coverage(listing, f, online)
        BY <1>1, <1>3, <1>4, <2>1, <3>1, FirstPage DEF Descent, Coverage, Going
      <3> QED
        BY <1>3, <3>1, <3>2
    <2>2. CASE c # 0
      <3>1. f = pages[0]
        BY <1>5, <1>6, <2>2
      <3>2. f.stored
        BY <1>1, <2>2, <3>1, FirstPage DEF Descent
      <3> QED
        BY <1>3, <2>2, <3>1, <3>2, FirstPage
    <2> QED
      BY <2>1, <2>2
  <1>8. PICK k : k = listing'
    OBVIOUS
  <1>9. k \in ListRec /\ Descent(k, f) /\ Coverage(k, f, online)
    BY <1>1, <1>3, <1>4, <1>7, <1>8, TakesPage, FirstPage, Zenon
  <1>10. Cache'
    <2> SUFFICES ASSUME NEW d \in 0 .. MaxMap, pages'[d].stored
                 PROVE  /\ TopOf(pages'[d], d) /\ pages'[d].of \subseteq 1 .. newest
                        /\ f.stored /\ f.of \cap online \subseteq pages'[d].of
      BY <1>4, <1>6, Zenon DEF Cache
    <2>1. CASE d = c
      BY <1>3, <1>5, <1>7, <2>1
    <2>2. CASE d # c
      <3>1. pages'[d] = pages[d] /\ pages[d].stored
        BY <1>5, <2>2
      <3>2. /\ TopOf(pages[d], d) /\ pages[d].of \subseteq 1 .. newest
            /\ pages[0].stored /\ pages[0].of \cap online \subseteq pages[d].of
        BY <3>1 DEF ListingInv, Cache
      <3>3. f = pages[0]
        BY <1>4, <1>5, <1>6, <3>2
      <3> QED
        BY <3>1, <3>2, <3>3
    <2> QED
      BY <2>1, <2>2
  <1>11. ListingTypes'
    BY <1>4, <1>5, <1>8, <1>9 DEF ListingTypes
  <1>12. Descent(listing, pages[0])' /\ Coverage(listing, pages[0], online)'
    BY <1>4, <1>6, <1>8, <1>9
  <1> QED
    BY <1>10, <1>11, <1>12 DEF ListingInv

LEMMA Walks ==
    ASSUME ListingInv, NextEntry \/ TurnPage \/ FetchFails \/ DrawRandom
    PROVE  ListingInv'
  <1>1. /\ listing' \in ListRec /\ Descent(listing', pages[0])
        /\ Coverage(listing', pages[0], online)
    <2>1. CASE NextEntry
      <3>1. /\ listing.at = "entries"
            /\ \E m \in listing.todo :
                 /\ Newer(listing.todo, m) = {}
                 /\ listing' = IF m \in Nameless THEN [listing EXCEPT !.todo = @ \ {m}]
                               ELSE Take(Seen(listing, m), m)
        BY <2>1, Zenon DEF NextEntry
      <3>2. PICK m \in listing.todo :
               /\ Newer(listing.todo, m) = {}
               /\ listing' = IF m \in Nameless THEN [listing EXCEPT !.todo = @ \ {m}]
                             ELSE Take(Seen(listing, m), m)
        BY <3>1, Zenon
      <3>3. PICK k : k = IF m \in Nameless THEN [listing EXCEPT !.todo = @ \ {m}]
                         ELSE Take(Seen(listing, m), m)
        OBVIOUS
      <3>4. k \in ListRec /\ Descent(k, pages[0]) /\ Coverage(k, pages[0], online)
        BY <3>1, <3>2, <3>3, FirstPage, GoesDown, Zenon
      <3>5. listing' = k
        BY <3>2, <3>3, Zenon
      <3> QED
        BY <3>4, <3>5
    <2>2. CASE TurnPage
      BY <2>2, FirstPage, TurnsPage, Zenon DEF TurnPage
    <2>3. CASE FetchFails
      <3>1. listing' = [listing EXCEPT !.at = "failed"]
        BY <2>3 DEF FetchFails
      <3>2. CASE listing.at = "page"
        BY <3>1, <3>2, FirstPage, BreaksOff, Zenon
      <3>3. CASE listing.at = "random"
        BY <3>1, <3>3, FirstPage, DrawsOne, Zenon
      <3> QED
        BY <2>3, <3>2, <3>3 DEF FetchFails
    <2>4. CASE DrawRandom
      <3>1. /\ listing.at = "random"
            /\ \/ listing' = listing \/ listing' = [listing EXCEPT !.at = "ended"]
               \/ \E m \in Ids : listing' = Take(listing, m)
        BY <2>4, FirstPage, Zenon DEF DrawRandom
      <3> QED
        BY <3>1, FirstPage, DrawsOne, Zenon
    <2> QED
      BY <2>1, <2>2, <2>3, <2>4
  <1>2. UNCHANGED <<online, newest, pages>>
    BY DEF NextEntry, TurnPage, FetchFails, DrawRandom
  <1> QED
    BY <1>1, <1>2, ListingAlone

LEMMA Uploads ==
    ASSUME ListingInv, Upload
    PROVE  ListingInv'
  <1>1. /\ newest \in Int /\ newest < MaxMap /\ newest > 0 /\ newest' = newest + 1
        /\ online' = online \cup {newest + 1} /\ pages' = pages /\ listing' = listing
        /\ online \subseteq 1 .. newest /\ MaxMap \in Int
    BY ListingAssumption DEF ListingInv, ListingTypes, Upload, Ids
  <1>2. newest' \in Ids /\ online' \subseteq 1 .. newest' /\ 1 .. newest \subseteq 1 .. newest'
        /\ newest' \notin 1 .. newest
    BY <1>1 DEF Ids
  <1>3. ListingTypes'
    BY <1>1, <1>2 DEF ListingInv, ListingTypes
  <1>4. Cache'
    <2> SUFFICES ASSUME NEW c \in 0 .. MaxMap, pages[c].stored
                 PROVE  /\ TopOf(pages[c], c) /\ pages[c].of \subseteq 1 .. newest'
                        /\ pages[0].stored /\ pages[0].of \cap online' \subseteq pages[c].of
      BY <1>1, Zenon DEF Cache
    <2>1. /\ TopOf(pages[c], c) /\ pages[c].of \subseteq 1 .. newest
          /\ pages[0].stored /\ pages[0].of \cap online \subseteq pages[c].of
      BY DEF ListingInv, Cache
    <2>2. pages[0].of \subseteq 1 .. newest
      BY <2>1, FirstPage DEF ListingInv, Cache
    <2>3. pages[0].of \cap online' = pages[0].of \cap online
      BY <1>1, <1>2, <2>2
    <2> QED
      BY <1>2, <2>1, <2>3
  <1>5. PICK f : f = pages[0]
    OBVIOUS
  <1>6. Descent(listing, f) /\ Coverage(listing, f, online')
    BY <1>1, <1>5, FirstPage DEF Coverage
  <1>7. Descent(listing, pages[0])' /\ Coverage(listing, pages[0], online)'
    BY <1>1, <1>5, <1>6
  <1> QED
    BY <1>3, <1>4, <1>7 DEF ListingInv

LEMMA TakesDown ==
    ASSUME ListingInv, TakeDown
    PROVE  ListingInv'
  <1>1. PICK m \in online : online' = online \ {m} /\ listing' = [listing EXCEPT !.kept = @ \ {m}]
    BY DEF TakeDown
  <1>2. newest' = newest /\ pages' = pages
    BY DEF TakeDown
  <1>3. PICK kept : kept = listing.kept \ {m}
    OBVIOUS
  <1>4. PICK k : k = [listing EXCEPT !.kept = kept]
    OBVIOUS
  <1>5. listing \in ListRec /\ kept \in SUBSET Ids
    BY <1>3, FirstPage DEF ListRec
  <1>6. /\ k \in ListRec /\ k.kept = kept /\ k.at = listing.at /\ k.after = listing.after
        /\ k.yielded = listing.yielded /\ k.todo = listing.todo /\ k.more = listing.more
        /\ k.emitted = listing.emitted /\ k.blank = listing.blank /\ listing' = k
    BY <1>1, <1>3, <1>4, <1>5 DEF ListRec
  <1>7. PICK f : f = pages[0]
    OBVIOUS
  <1>8. Descent(listing, f) /\ Coverage(listing, f, online)
    BY <1>7, FirstPage
  <1>9. Descent(k, f)
    BY <1>6, <1>8 DEF Descent, Going
  <1>10. Coverage(k, f, online')
    <2>1. /\ k.kept \subseteq online' /\ k.kept \subseteq listing.kept
          /\ k.at = "entries" \/ k.after # 0 => k.kept \subseteq f.of
      BY <1>1, <1>3, <1>6, <1>8 DEF Coverage
    <2>2. ASSUME MaxMaps = 0, NEW n \in k.kept \ Nameless
          PROVE  n \in Range(k.yielded) \/ Below(k, n)
      <3>1. n \in Range(listing.yielded) \/ Below(listing, n)
        BY <1>8, <2>1, <2>2 DEF Coverage
      <3> QED
        BY <1>6, <3>1 DEF Below
    <2> QED
      BY <2>1, <2>2, Zenon DEF Coverage
  <1>11. ListingTypes'
    BY <1>1, <1>2, <1>6 DEF ListingInv, ListingTypes
  <1>12. Cache'
    BY <1>1, <1>2 DEF ListingInv, Cache
  <1>13. Descent(listing, pages[0])' /\ Coverage(listing, pages[0], online)'
    BY <1>2, <1>6, <1>7, <1>9, <1>10
  <1> QED
    BY <1>11, <1>12, <1>13 DEF ListingInv

\* The listing yields every map once and misses none that stays, whatever is uploaded or
\* taken down between two pages or two entries, and however old the cached pages are: for
\* any number of maps, page size and limit (tmx.py:242-290, orchestrator.py:304-308).
THEOREM ListingIsRight ==
    ListingInit /\ [][ListingNext]_listingVars => []ListingRight
  <1>1. ASSUME ListingInit PROVE ListingInv
    <2>1. 1 \in Ids /\ 0 \in 0 .. MaxMap /\ {} \subseteq Ids /\ << >> \in Seq(Ids)
      BY ListingAssumption DEF Ids
    <2>2. NoPage \in PageRec /\ NoListing \in ListRec
      BY <2>1 DEF NoPage, NoListing, PageRec, ListRec
    <2>3. /\ listing.at = "idle" /\ listing.after = 0 /\ listing.kept = {} /\ listing \in ListRec
          /\ \A c \in 0 .. MaxMap : pages[c] = NoPage /\ ~pages[c].stored
      BY <1>1, <2>2 DEF ListingInit, NoListing, NoPage
    <2>4. ListingTypes
      BY <1>1, <2>1, <2>2 DEF ListingInit, ListingTypes
    <2>5. Cache
      BY <2>3 DEF Cache
    <2>6. Descent(listing, pages[0]) /\ Coverage(listing, pages[0], online)
      BY <2>3 DEF Descent, Coverage, Going
    <2> QED
      BY <2>4, <2>5, <2>6 DEF ListingInv
  <1>2. ASSUME ListingInv, [ListingNext]_listingVars PROVE ListingInv'
    <2>1. CASE UNCHANGED listingVars
      BY <1>2, <2>1, FirstPage, ListingAlone DEF listingVars
    <2>2. CASE ListingNext
      BY <1>2, <2>2, Starts, ReadsCache, Fetches, Walks, Uploads, TakesDown
         DEF ListingNext, ListingStep
    <2> QED
      BY <1>2, <2>1, <2>2
  <1>3. ASSUME ListingInv PROVE ListingRight
    <2>1. Descent(listing, pages[0]) /\ Coverage(listing, pages[0], online)
      BY <1>3, FirstPage
    <2>2. ListedOnce
      BY <2>1 DEF ListedOnce, Descent, Going, Paging
    <2>3. ListedAll
      BY <2>1 DEF ListedAll, Coverage, Below
    <2> QED
      BY <2>2, <2>3 DEF ListingRight
  <1> QED
    BY <1>1, <1>2, <1>3, PTL
=============================================================================

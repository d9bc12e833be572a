----------------------------- MODULE HttpClient -----------------------------
(***************************************************************************)
(* HttpClient.get of src/ingestion/http.py with its two collaborators, the *)
(* ResponseCache (cache.py) and the TokenBucket (rate_limit.py), for one   *)
(* process asking for one URL again and again.  The site behind the URL    *)
(* changes (its version grows) and answers with any status.                *)
(*                                                                         *)
(* Time is the process's own, in ticks of a quarter of a second; a token   *)
(* is TokenUnit units of the bucket, which gains one unit per tick.  The   *)
(* code refills on the next acquire from the time elapsed since the last;  *)
(* here the bucket fills as time passes, which gives the same level.       *)
(***************************************************************************)
EXTENDS Integers, Sequences

CONSTANTS
    Backoff,     \* backoff_seconds, in ticks
    JitterLo,    \* jitter_range, in percent
    JitterHi,
    MaxTotal,    \* max_total_retry_seconds, in ticks
    Hints,       \* Retry-After values a server may send (0: no header)
    TokenUnit,   \* ticks that refill one token (1 / rate_per_second)
    Capacity,    \* bucket capacity, in tokens
    MaxVersion,  \* bound: how often the site changes
    MaxCalls     \* bound: how many times get is called

ASSUME HttpAssumption ==
    /\ Backoff \in Seq(Nat \ {0})
    /\ JitterLo \in 1..100 /\ JitterHi \in Nat /\ JitterHi >= 100
    /\ MaxTotal \in Nat /\ Hints \subseteq Nat
    /\ TokenUnit \in Nat \ {0} /\ Capacity \in Nat \ {0}
    /\ MaxVersion \in Nat /\ MaxCalls \in Nat

VARIABLES
    site,      \* the version the site serves now
    entry,     \* the cache file: 0 absent, v > 0 the bytes of version v, -1 torn
    scratch,   \* the .tmp file beside it, same encoding
    level,     \* TokenBucket._tokens, in units
    call,      \* the call under way
    burst      \* observer: units spent above the refill rate, over the worst window

httpVars == <<site, entry, scratch, level, call, burst>>

Torn == -1
Attempts == Len(Backoff) + 1
Status == {"ok", "client_error", "retryable"}

\* what get leaves: nothing yet, a response or an HttpError
NoAnswer == [kind |-> "none"]
Idle == [at |-> "idle", calls |-> 0, cached |-> TRUE, asked |-> 0, attempt |-> 0,
         waited |-> 0, stalled |-> 0, since |-> 0, hint |-> 0, got |-> 0, answer |-> NoAnswer]
Full == Capacity * TokenUnit

HttpInit ==
    /\ site = 1 /\ entry = 0 /\ scratch = 0
    /\ level = Full /\ burst = 0
    /\ call = Idle

Response(status, version, fromCache) ==
    [kind |-> "response", status |-> status, version |-> version, fromCache |-> fromCache]
HttpError == [kind |-> "error"]
Return(answer) == call' = [call EXCEPT !.at = "done", !.answer = answer]

\* get: the cache is looked at before anything is sent
Get(useCache) ==
    /\ call.at \in {"idle", "done"} /\ call.calls < MaxCalls
    /\ call' = [Idle EXCEPT !.calls = call.calls + 1, !.cached = useCache, !.asked = site,
                    !.at = IF useCache /\ entry # 0 THEN "done" ELSE "acquire",
                    !.answer = IF useCache /\ entry # 0 THEN Response("ok", entry, TRUE)
                                                        ELSE NoAnswer]
    /\ UNCHANGED <<site, entry, scratch, level, burst>>

\* TokenBucket._refill over the ticks a sleep takes
Lesser(a, b) == IF a < b THEN a ELSE b
Refill(ticks) == level' = Lesser(Full, level + ticks)
Sleep(ticks) ==
    /\ Refill(ticks)
    /\ burst' = IF burst > ticks THEN burst - ticks ELSE 0

\* TokenBucket.acquire: take a token, or sleep for the deficit and look again
Acquire ==
    /\ call.at = "acquire"
    /\ level >= TokenUnit
    /\ level' = level - TokenUnit
    /\ burst' = burst + TokenUnit
    /\ call' = [call EXCEPT !.at = "send"]
    /\ UNCHANGED <<site, entry, scratch>>

\* Mutant: the wait for a token adds none.
AwaitTokenNoRefill == call.at = "acquire" /\ level < TokenUnit /\ UNCHANGED httpVars

AwaitToken ==
    /\ call.at = "acquire"
    /\ level < TokenUnit
    /\ Sleep(TokenUnit - level)
    /\ call' = [call EXCEPT !.since = @ + (TokenUnit - level),
                            !.stalled = @ + (TokenUnit - level)]
    /\ UNCHANGED <<site, entry, scratch>>

\* _next_wait: the jittered backoff, or the server's hint when it is longer
JitteredWaits(attempt) ==
    {w \in 0..(2 * Backoff[attempt]) : /\ 100 * w >= JitterLo * Backoff[attempt]
                                       /\ 100 * w <= JitterHi * Backoff[attempt]}
NextWait(scheduled, hint) == IF hint > scheduled THEN hint ELSE scheduled

\* Mutant: the budget is compared with each wait, not with their sum.
WithinBudgetEach(waited, wait) == wait <= MaxTotal

WithinBudget(waited, wait) == waited + wait <= MaxTotal

\* the request is answered: 2xx and 4xx other than 429 end the call
Answered(status) ==
    /\ call.at = "send"
    /\ status # "retryable"
    /\ LET r == Response(status, site, FALSE) IN
       IF status = "ok" /\ call.cached
       THEN call' = [call EXCEPT !.at = "put", !.got = site, !.answer = r]
       ELSE Return(r)
    /\ UNCHANGED <<site, entry, scratch, level, burst>>

\* a retryable answer (429, 5xx) or a network error: wait and try again, or stop
Retry(failure) ==
    /\ call.at = "send"
    /\ call.attempt < Attempts - 1
    /\ \E scheduled \in JitteredWaits(call.attempt + 1),
          hint \in (IF failure = "retryable" THEN Hints ELSE {0}) :
         LET wait == NextWait(scheduled, hint) IN
         /\ WithinBudget(call.waited, wait)
         /\ Sleep(wait)
         /\ call' = [call EXCEPT !.at = "acquire", !.attempt = @ + 1, !.since = wait,
                                 !.waited = @ + wait, !.stalled = @ + wait, !.hint = hint]
    /\ UNCHANGED <<site, entry, scratch>>

GiveUp(failure) ==
    /\ call.at = "send"
    /\ \/ call.attempt = Attempts - 1
       \/ /\ call.attempt < Attempts - 1
          /\ \E scheduled \in JitteredWaits(call.attempt + 1),
                hint \in (IF failure = "retryable" THEN Hints ELSE {0}) :
               ~WithinBudget(call.waited, NextWait(scheduled, hint))
    /\ Return(IF failure = "retryable" THEN Response("retryable", site, FALSE) ELSE HttpError)
    /\ UNCHANGED <<site, entry, scratch, level, burst>>

\* ResponseCache.put: open (truncates), write and fsync, rename over the entry
PutOpen ==
    /\ call.at = "put"
    /\ scratch' = Torn
    /\ call' = [call EXCEPT !.at = "putWrite"]
    /\ UNCHANGED <<site, entry, level, burst>>
PutWrite ==
    /\ call.at = "putWrite"
    /\ scratch' = call.got
    /\ call' = [call EXCEPT !.at = "putRename"]
    /\ UNCHANGED <<site, entry, level, burst>>
PutRename ==
    /\ call.at = "putRename"
    /\ entry' = scratch /\ scratch' = 0
    /\ call' = [call EXCEPT !.at = "done"]
    /\ UNCHANGED <<site, level, burst>>

\* the site publishes; the process is killed and started again with a full bucket
Publish ==
    /\ site < MaxVersion
    /\ site' = site + 1
    /\ UNCHANGED <<entry, scratch, level, burst, call>>
ProcessRestarts ==
    /\ call.at \in {"acquire", "send", "put", "putWrite", "putRename"}
    /\ call' = [Idle EXCEPT !.calls = call.calls]
    /\ level' = Full /\ burst' = 0
    /\ UNCHANGED <<site, entry, scratch>>

HttpStep ==
    \/ Acquire \/ AwaitToken
    \/ \E s \in Status : Answered(s)
    \/ \E f \in {"retryable", "network"} : Retry(f) \/ GiveUp(f)
    \/ PutOpen \/ PutWrite \/ PutRename

HttpNext ==
    \/ \E useCache \in BOOLEAN : Get(useCache)
    \/ HttpStep
    \/ Publish
    \/ ProcessRestarts

HttpSpec == HttpInit /\ [][HttpNext]_httpVars /\ WF_httpVars(HttpStep)

-----------------------------------------------------------------------------
\* Whatever is asked of it, and after any idle time, the client never sends more in a
\* window of time than the bucket's capacity plus the refill of that window
\* (TokenBucket, rate_limit.py).
RateBound == burst <= Full

\* The wait a server asked for with Retry-After has passed before the same request is
\* sent again (_next_wait takes the longer of the two waits, http.py:145).
HintRespected == call.at = "send" => call.since >= call.hint

\* A call that asked for no cache (random listing, artifact downloads) returns what the
\* site served after the call began; a cached answer is some version the site once
\* served, whole, whenever the writing process died (cache.py:37, http.py:119).
FreshOrWhole ==
    /\ entry # Torn /\ entry <= site
    /\ (call.answer.kind = "response" /\ ~call.cached) => call.answer.version >= call.asked
    /\ (call.answer.kind = "response" /\ call.answer.fromCache) => call.answer.version \in 1..site

\* One get stalls its caller for no longer than the retry budget plus one token's refill
\* per attempt, however the server mixes failures and Retry-After hints: the budget
\* counts only the retry waits, the bucket's own waits come on top (http.py:168-221).
StallBounded == call.stalled <= MaxTotal + Attempts * TokenUnit

\* A client that keeps to its rate, to the server's hints, to its cache's promise and to
\* its budget at once: the four conditions above.
FetchSafe == RateBound /\ HintRespected /\ FreshOrWhole /\ StallBounded

\* Every get returns: the retry loop is bounded and acquire always finds a token in the
\* end (http.py:161, rate_limit.py:45).
GetReturns == call.at \in {"acquire", "send", "put"} ~> call.at \in {"done", "idle"}
=============================================================================

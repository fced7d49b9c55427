----------------------------- MODULE NotionRequests -----------------------------
(***************************************************************************)
(* The gate every request to Notion passes (withRateLimit, waitForTurn): a *)
(* slot, a place in the schedule, the rest everyone takes after a rejected *)
(* request, and the retries.  A call is one use of the gate; the calls run *)
(* concurrently, a step of one lasts up to its next await.  Time is in     *)
(* units of the model; a timer may fire late, never early.                 *)
(***************************************************************************)
EXTENDS Naturals, FiniteSets

CONSTANTS
    Calls,       \* the calls of the instance
    Once,        \* those that must not be applied twice (idempotent: false)
    Making,     \* those that create blocks (CREATES_BLOCKS)
    Slots,       \* permits of the semaphore: advanced.concurrency
    Interval,    \* minRequestInterval
    MaxRetries,  \* advanced.maxRetries
    Waits,       \* what Retry-After can ask for; 0: no such header
    Recheck,     \* BLOCK_LIMIT_RECHECK_MS
    MaxTime      \* bound: the clock

ASSUME RequestsAssumption ==
    /\ IsFiniteSet(Calls) /\ Making \subseteq Once /\ Once \subseteq Calls
    /\ Slots \in Nat \ {0} /\ Interval \in Nat \ {0} /\ MaxRetries \in Nat
    /\ Waits \subseteq Nat /\ Recheck \in Nat /\ MaxTime \in Nat

VARIABLES
    phase,     \* where each call is
    until,     \* the end of its sleep: of the rest, of the wait for its place, of the backoff
    attempt,   \* how often it was sent again
    next,      \* nextRequestAt
    cooldown,  \* cooldownUntil
    limit,     \* blockLimit: until when blocks are not sent (at + the recheck), 0: null
    now,       \* the clock
    applied,   \* how often Notion did what the call asks
    asked,     \* ghost: until when a rejection that is retried asked for quiet
    places     \* ghost: the places requests went out from

callVars == <<phase, until, attempt>>
gateVars == <<next, cooldown, limit>>
requestVars == <<callVars, gateVars, now, applied, asked, places>>

Ended == {"done", "refused", "lost"}   \* lost: nobody knows whether it was applied
Phases == {"idle", "queued", "resting", "placed", "out", "backoff"} \cup Ended

(* The calls that hold a slot. *)
Holders == {c \in Calls : phase[c] \in {"resting", "placed", "out"}}

Later(s, t) == IF s < t THEN t ELSE s

GoesTo(c, to) == phase' = [phase EXCEPT ![c] = to]
Sleeps(c, to, t) == GoesTo(c, to) /\ until' = [until EXCEPT ![c] = t]

RequestsInit ==
    /\ phase = [c \in Calls |-> "idle"]
    /\ until = [c \in Calls |-> 0] /\ attempt = [c \in Calls |-> 0]
    /\ next = 0 /\ cooldown = 0 /\ limit = 0 /\ now = 0
    /\ applied = [c \in Calls |-> 0] /\ asked = 0 /\ places = {}

(* The call that comes while new blocks are refused gets the same refusal; after     *)
(* Recheck one is sent again.                                                        *)
Limited(c) == c \in Making /\ now < limit
Starts(c) ==
    /\ phase[c] = "idle"
    /\ IF Limited(c) THEN GoesTo(c, "refused") /\ UNCHANGED limit
       ELSE /\ GoesTo(c, "queued")
            /\ limit' = IF c \in Making THEN 0 ELSE limit
    /\ UNCHANGED <<until, attempt, next, cooldown, now, applied, asked, places>>

(* Mutant of TakesPlace: the place is read, and taken only when the request goes. *)
ReadsPlace(c) == Sleeps(c, "placed", Later(now, next)) /\ UNCHANGED next

(* The place is taken before the wait for it.  A place that is due now is not waited *)
(* for: the step between is one more than the code has.                              *)
TakesPlace(c) ==
    /\ Sleeps(c, "placed", Later(now, next))
    /\ next' = Later(now, next) + Interval

TakesTurn(c) ==
    IF now < cooldown THEN Sleeps(c, "resting", cooldown) /\ UNCHANGED next
    ELSE TakesPlace(c)

(* Mutant of Room: one permit too many. *)
RoomForOne == Cardinality(Holders) <= Slots

Room == Cardinality(Holders) < Slots

Acquires(c) ==
    /\ phase[c] = "queued" /\ Room
    /\ TakesTurn(c)
    /\ UNCHANGED <<attempt, cooldown, limit, now, applied, asked, places>>

(* The rest is over, as it stood when the call fell asleep. *)
Rested(c) ==
    /\ phase[c] = "resting" /\ until[c] <= now
    /\ TakesPlace(c)
    /\ UNCHANGED <<attempt, cooldown, limit, now, applied, asked, places>>

(* Mutant of Clear: the rest is looked at before the place is taken only. *)
ClearBefore == TRUE

(* The place has come; a rejection since then sends the call back to rest. *)
Clear == cooldown <= now

GoesOut(c) ==
    /\ phase[c] = "placed" /\ until[c] <= now
    /\ IF Clear THEN /\ GoesTo(c, "out") /\ places' = places \cup {until[c]}
                     /\ UNCHANGED until
       ELSE Sleeps(c, "resting", cooldown) /\ UNCHANGED places
    /\ UNCHANGED <<attempt, gateVars, now, applied, asked>>

Succeeds(c) ==
    /\ phase[c] = "out"
    /\ GoesTo(c, "done") /\ applied' = [applied EXCEPT ![c] = @ + 1]
    /\ UNCHANGED <<until, attempt, gateVars, now, asked, places>>

(* The wait before the next attempt: at least what the server asks for, else it      *)
(* grows with the attempts.                                                          *)
Backoffs(c, wait) == IF wait = 0 THEN 1..(attempt[c] + 1) ELSE {wait, wait + 1}

(* Mutant of MayRepeat: whatever timed out is sent again. *)
MayRepeatAll(c) == TRUE

(* isRetryable for a failure that leaves open whether the request was applied. *)
MayRepeat(c) == c \notin Once

(* 429 or 529: everybody rests, unless this was the last attempt. *)
Rejected(c, wait, pause) ==
    /\ phase[c] = "out" /\ pause \in Backoffs(c, wait)
    /\ IF attempt[c] < MaxRetries
       THEN /\ Sleeps(c, "backoff", now + pause)
            /\ cooldown' = Later(cooldown, now + pause)
            /\ asked' = Later(asked, now + wait)
       ELSE GoesTo(c, "refused") /\ UNCHANGED <<until, cooldown, asked>>
    /\ UNCHANGED <<attempt, next, limit, now, applied, places>>

(* No answer, or a server that fell over (5xx): applied or not.  A failure whose     *)
(* code the client does not know ends the call, like that of the last attempt.       *)
NoAnswer(c, did, pause) ==
    /\ phase[c] = "out" /\ pause \in Backoffs(c, 0)
    /\ applied' = [applied EXCEPT ![c] = @ + did]
    /\ \/ MayRepeat(c) /\ attempt[c] < MaxRetries /\ Sleeps(c, "backoff", now + pause)
       \/ GoesTo(c, "lost") /\ UNCHANGED until
    /\ UNCHANGED <<attempt, gateVars, now, asked, places>>

(* Any other answer is an error at once: an invalid request, a blocked connection.   *)
(* The refusal of new blocks is remembered.                                          *)
Refused(c) ==
    /\ phase[c] = "out" /\ GoesTo(c, "refused")
    /\ \/ UNCHANGED limit
       \/ limit' = now + Recheck
    /\ UNCHANGED <<until, attempt, next, cooldown, now, applied, asked, places>>

Retries(c) ==
    /\ phase[c] = "backoff" /\ until[c] <= now
    /\ GoesTo(c, "queued") /\ attempt' = [attempt EXCEPT ![c] = @ + 1]
    /\ UNCHANGED <<until, gateVars, now, applied, asked, places>>

TimePasses ==
    /\ now < MaxTime /\ now' = now + 1
    /\ UNCHANGED <<callVars, gateVars, applied, asked, places>>

Concludes(c) ==
    \/ Succeeds(c)
    \/ Refused(c)
    \/ \E wait \in Waits : \E pause \in Backoffs(c, wait) : Rejected(c, wait, pause)
    \/ \E did \in {0, 1}, pause \in Backoffs(c, 0) : NoAnswer(c, did, pause)

RequestsNext ==
    \/ \E c \in Calls :
          \/ Starts(c) \/ Acquires(c) \/ Rested(c) \/ GoesOut(c) \/ Concludes(c) \/ Retries(c)
    \/ TimePasses

RequestsSpec == RequestsInit /\ [][RequestsNext]_requestVars

-----------------------------------------------------------------------------
(* Types; and no more requests are being sent or waiting for their turn than there   *)
(* are slots, a call that backs off holding none (client.ts:2047).                   *)
RequestsTypeOK ==
    /\ phase \in [Calls -> Phases] /\ until \in [Calls -> Nat]
    /\ attempt \in [Calls -> 0..MaxRetries]
    /\ next \in Nat /\ cooldown \in Nat /\ limit \in Nat /\ now \in 0..MaxTime
    /\ applied \in [Calls -> Nat] /\ asked \in Nat /\ places \in SUBSET Nat
    /\ Cardinality(Holders) <= Slots

(* A call that must not be applied twice is applied at most once, whatever was sent  *)
(* again; one that succeeded was applied, and one that ends with a clear refusal was *)
(* not, so that its caller may start over without looking (client.ts:2055-2060).     *)
AppliedOnce ==
    \A c \in Once :
        /\ applied[c] <= 1
        /\ phase[c] = "done" => applied[c] = 1
        /\ phase[c] \notin {"done", "lost"} => applied[c] = 0

(* Two places are never nearer than the interval, however the slots fall asleep and  *)
(* wake up (client.ts:2020-2025).                                                    *)
Apart(p, q) == p + Interval <= q \/ q + Interval <= p

GoingOut(c) == phase[c] # "out" /\ phase'[c] = "out"

(* A request goes out from a place of its own, apart from those of all the requests  *)
(* before it, and never while a rejection asks for quiet, whoever got the rejection  *)
(* and wherever in its wait this call was (client.ts:2029-2035, 2120-2132).          *)
KeepsTheSchedule ==
    [][\A c \in Calls : GoingOut(c) =>
          /\ until[c] <= now /\ asked <= now
          /\ \A p \in places : Apart(p, until[c])]_requestVars
================================================================================

------------------------------ MODULE RateLimiter ------------------------------
(***************************************************************************)
(* The shared request budget of a concurrent warm: worker threads run      *)
(* request_with_retry (data/feed/throttle.py), every attempt of which      *)
(* takes a slot from one GlobalRateLimiter (data/feed/scheduler.py).       *)
(* The slot is reserved under a lock and waited for outside it.  Time is   *)
(* counted in ticks; a sleeper wakes at its instant or up to MaxDelay late.*)
(***************************************************************************)
EXTENDS Naturals, Sequences

CONSTANTS
    Thread,       \* the workers
    Requests,     \* bound: requests each worker makes
    MaxRetries,   \* max_retries
    Interval,     \* 60 / rate_limit_per_min, in ticks (qt/config.py wants > 0)
    MaxDelay,     \* bound: how late a sleeper may wake
    NoThread,     \* the lock is free
    NoSlot        \* _next_allowed is None

ASSUME LimiterAssumption ==
    /\ Requests \in Nat /\ MaxRetries \in Nat /\ Interval \in Nat \ {0} /\ MaxDelay \in Nat
    /\ NoThread \notin Thread /\ NoSlot \notin Nat

VARIABLES
    now,       \* time.monotonic()
    lock,      \* holder of _lock
    next,      \* _next_allowed
    pc,        \* where each worker stands
    read,      \* the clock and _next_allowed as the worker read them
    wake,      \* the instant the worker sleeps until
    attempt,   \* attempts of the current request that have failed
    left,      \* requests the worker still has to make
    slots,     \* history: the instants reserved, in order of reservation
    calls      \* history: number of calls issued to the vendor

vars == <<now, lock, next, pc, read, wake, attempt, left, slots, calls>>

\* attempts = max(1, max_retries)
Attempts == IF MaxRetries >= 1 THEN MaxRetries ELSE 1
Phase    == {"idle", "acquire", "reserve", "sleep", "call", "answer", "backoff", "ok", "failed"}
Next0    == Nat \cup {NoSlot}
NoRead   == [now |-> 0, next |-> NoSlot]

TypeOK ==
    /\ now \in Nat /\ lock \in Thread \cup {NoThread} /\ next \in Next0
    /\ pc \in [Thread -> Phase]
    /\ read \in [Thread -> [now : Nat, next : Next0]]
    /\ wake \in [Thread -> Nat]
    /\ attempt \in [Thread -> 0 .. Attempts]
    /\ left \in [Thread -> 0 .. Requests]
    /\ slots \in Seq(Nat) /\ calls \in Nat

Init ==
    /\ now = 0 /\ lock = NoThread /\ next = NoSlot
    /\ pc = [t \in Thread |-> "idle"]
    /\ read = [t \in Thread |-> NoRead]
    /\ wake = [t \in Thread |-> 0] /\ attempt = [t \in Thread |-> 0]
    /\ left = [t \in Thread |-> Requests]
    /\ slots = <<>> /\ calls = 0

Sleeps(t) == pc[t] \in {"sleep", "backoff"}

\* Time only matters while somebody sleeps.
Tick ==
    /\ \E t \in Thread : Sleeps(t)
    /\ \A t \in Thread : Sleeps(t) => now < wake[t] + MaxDelay
    /\ now' = now + 1
    /\ UNCHANGED <<lock, next, pc, read, wake, attempt, left, slots, calls>>
-----------------------------------------------------------------------------
(***************************************************************************)
(* GlobalRateLimiter.acquire.                                              *)
(***************************************************************************)
Request(t) ==
    /\ pc[t] \in {"idle", "ok", "failed"} /\ left[t] > 0
    /\ left' = [left EXCEPT ![t] = @ - 1]
    /\ attempt' = [attempt EXCEPT ![t] = 0]
    /\ pc' = [pc EXCEPT ![t] = "acquire"]
    /\ UNCHANGED <<now, lock, next, read, wake, slots, calls>>

\* Mutant: the section is not locked.
Unlocked == TRUE

LockIsFree == lock = NoThread

Enter(t) ==
    /\ pc[t] = "acquire" /\ LockIsFree
    /\ lock' = t
    /\ read' = [read EXCEPT ![t] = [now |-> now, next |-> next]]
    /\ pc' = [pc EXCEPT ![t] = "reserve"]
    /\ UNCHANGED <<now, next, wake, attempt, left, slots, calls>>

BudgetIsIdle(t) == IF read[t].next = NoSlot THEN TRUE ELSE read[t].now >= read[t].next

\* This caller goes now, the next slot is one interval out.
ReserveIdle(t) ==
    /\ pc[t] = "reserve" /\ BudgetIsIdle(t)
    /\ next' = read[t].now + Interval
    /\ slots' = Append(slots, read[t].now)
    /\ lock' = NoThread /\ read' = [read EXCEPT ![t] = NoRead]
    /\ pc' = [pc EXCEPT ![t] = "call"]
    /\ UNCHANGED <<now, wake, attempt, left, calls>>

\* This caller takes the reserved slot and pushes the next one out.
ReserveBusy(t) ==
    /\ pc[t] = "reserve" /\ ~BudgetIsIdle(t)
    /\ next' = read[t].next + Interval
    /\ slots' = Append(slots, read[t].next)
    /\ wake' = [wake EXCEPT ![t] = read[t].next]
    /\ lock' = NoThread /\ read' = [read EXCEPT ![t] = NoRead]
    /\ pc' = [pc EXCEPT ![t] = "sleep"]
    /\ UNCHANGED <<now, attempt, left, calls>>

WakeUp(t) ==
    /\ pc[t] = "sleep" /\ now >= wake[t]
    /\ wake' = [wake EXCEPT ![t] = 0]
    /\ pc' = [pc EXCEPT ![t] = "call"]
    /\ UNCHANGED <<now, lock, next, read, attempt, left, slots, calls>>
-----------------------------------------------------------------------------
(***************************************************************************)
(* request_with_retry: at least one attempt, a slot before EVERY attempt,  *)
(* a backoff after every failure (the last one included).                  *)
(***************************************************************************)
\* min(2.0 ** attempt, 8.0)
Backoff(failures) ==
    CASE failures = 0 -> 1 [] failures = 1 -> 2 [] failures = 2 -> 4 [] OTHER -> 8

Issue(t) ==
    /\ pc[t] = "call"
    /\ calls' = calls + 1
    /\ pc' = [pc EXCEPT ![t] = "answer"]
    /\ UNCHANGED <<now, lock, next, read, wake, attempt, left, slots>>

Answer(t) ==
    /\ pc[t] = "answer"
    /\ attempt' = [attempt EXCEPT ![t] = 0]
    /\ pc' = [pc EXCEPT ![t] = "ok"]
    /\ UNCHANGED <<now, lock, next, read, wake, left, slots, calls>>

Error(t) ==
    /\ pc[t] = "answer"
    /\ attempt' = [attempt EXCEPT ![t] = @ + 1]
    /\ wake' = [wake EXCEPT ![t] = now + Backoff(attempt[t])]
    /\ pc' = [pc EXCEPT ![t] = "backoff"]
    /\ UNCHANGED <<now, lock, next, read, left, slots, calls>>

\* Mutant: a retry does not take a slot of its own.
RetryWithoutSlot(t) ==
    /\ pc[t] = "backoff" /\ now >= wake[t] /\ attempt[t] < Attempts
    /\ pc' = [pc EXCEPT ![t] = "call"]
    /\ wake' = [wake EXCEPT ![t] = 0]
    /\ UNCHANGED <<now, lock, next, read, attempt, left, slots, calls>>

Retry(t) ==
    /\ pc[t] = "backoff" /\ now >= wake[t] /\ attempt[t] < Attempts
    /\ pc' = [pc EXCEPT ![t] = "acquire"]
    /\ wake' = [wake EXCEPT ![t] = 0]
    /\ UNCHANGED <<now, lock, next, read, attempt, left, slots, calls>>

\* Mutant: gives up one attempt after the last one it makes.
GiveUpOffByOne(t) ==
    /\ pc[t] = "backoff" /\ now >= wake[t] /\ attempt[t] > Attempts
    /\ pc' = [pc EXCEPT ![t] = "failed"]
    /\ wake' = [wake EXCEPT ![t] = 0]
    /\ UNCHANGED <<now, lock, next, read, attempt, left, slots, calls>>

GiveUp(t) ==
    /\ pc[t] = "backoff" /\ now >= wake[t] /\ attempt[t] = Attempts
    /\ pc' = [pc EXCEPT ![t] = "failed"]
    /\ wake' = [wake EXCEPT ![t] = 0]
    /\ UNCHANGED <<now, lock, next, read, attempt, left, slots, calls>>

Work(t) ==
    \/ Request(t) \/ Enter(t) \/ ReserveIdle(t) \/ ReserveBusy(t)
    \/ WakeUp(t) \/ Issue(t) \/ Answer(t) \/ Error(t) \/ Retry(t) \/ GiveUp(t)

Next == Tick \/ \E t \in Thread : Work(t)

Spec == Init /\ [][Next]_vars

\* Time passes, and the scheduler runs every thread that can run.
FairSpec == Spec /\ WF_vars(Tick) /\ \A t \in Thread : WF_vars(Work(t))
-----------------------------------------------------------------------------
\* Two reservations are at least one interval apart per reservation between them,
\* whichever threads made them: no burst, however many workers contend.
SlotsAreSpaced ==
    \A i, j \in 1 .. Len(slots) : i < j => slots[j] >= slots[i] + (j - i) * Interval

\* The calls issued so far, retries included, never exceed the budget of the time
\* that has passed, even when sleepers wake late.
CallsWithinBudget == calls <= 1 + now \div Interval

\* Every worker gets through its requests: no retry storm and no lost wake-up
\* keeps a request waiting forever.
EventuallyServed ==
    \A t \in Thread : <>[](pc[t] \in {"ok", "failed"} /\ left[t] = 0)
=============================================================================

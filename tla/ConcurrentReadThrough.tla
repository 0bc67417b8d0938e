-------------------------- MODULE ConcurrentReadThrough --------------------------
(***************************************************************************)
(* The bounded-concurrency read-through (_read_through_concurrent): plan   *)
(* every gap, fetch the gaps on a thread pool in any order, then, on the   *)
(* main thread and in plan order, store and record each answered gap, and  *)
(* finally re-raise the first failure.  A call is one endpoint, and gap k  *)
(* stands for the k-th gap of the plan when every gap is uncovered; what a *)
(* gap is and what it earns is in TushareCache.tla, how long an attempt    *)
(* waits for its slot in RateLimiter.tla.                                  *)
(***************************************************************************)
EXTENDS Naturals, FiniteSets

CONSTANTS
    Gaps,        \* bound: number of gaps of a request
    Trailing,    \* the gaps inside the trailing window, planned even if covered
    Workers,     \* max_workers
    MaxVersion   \* bound: versions the vendor serves for a gap, 0 = no rows

Gap     == 1 .. Gaps
Version == 0 .. MaxVersion

ConcurrentAssumption ==
    /\ Gaps \in Nat \ {0} /\ Trailing \subseteq Gap
    /\ Workers \in Nat \ {0} /\ MaxVersion \in Nat

VARIABLES
    source,   \* what the vendor serves for each gap
    store,    \* what the symbol files hold for each gap
    ledger,   \* the gaps ok/empty rows claim
    pc,       \* where the main thread stands
    plan,     \* plans: the gaps of this call
    task,     \* each planned gap in the pool: queued, running, ok, error
    answer,   \* raw_results: what an ok task returned
    left,     \* planned gaps the write loop has not reached
    failed,   \* first_exc: the gap it belongs to, 0 = none
    base,     \* history: source when the call began
    known     \* history: the answer recorded last for each gap

callVars == <<pc, plan, task, answer, left, failed>>
vars == <<source, store, ledger, callVars, base, known>>

NoneKnown == [k \in Gap |-> 0]
Idle == [k \in Gap |-> "none"]

TypeOK ==
    /\ source \in [Gap -> Version] /\ store \in [Gap -> Version]
    /\ ledger \subseteq Gap
    /\ pc \in {"idle", "fetch", "write", "record", "returned", "raised", "drift"}
    /\ plan \subseteq Gap /\ left \subseteq plan
    /\ task \in [Gap -> {"none", "queued", "running", "ok", "error"}]
    /\ Cardinality({k \in Gap : task[k] = "running"}) <= Workers
    /\ answer \in [Gap -> Version]
    /\ failed \in 0 .. Gaps
    /\ base \in [Gap -> Version] /\ known \in [Gap -> Version]

Init ==
    /\ source = NoneKnown /\ store = NoneKnown /\ ledger = {}
    /\ pc = "idle" /\ plan = {} /\ task = Idle /\ answer = NoneKnown
    /\ left = {} /\ failed = 0
    /\ base = NoneKnown /\ known = NoneKnown

Publish(k) ==
    /\ source[k] < MaxVersion
    /\ source' = [source EXCEPT ![k] = @ + 1]
    /\ UNCHANGED <<store, ledger, callVars, base, known>>
-----------------------------------------------------------------------------
(***************************************************************************)
(* Phase 1: plan.                                                          *)
(***************************************************************************)
Plan ==
    /\ pc \in {"idle", "returned", "raised", "drift"}
    /\ plan' = (Gap \ ledger) \cup Trailing
    /\ left' = plan'
    /\ task' = [k \in Gap |-> IF k \in plan' THEN "queued" ELSE "none"]
    /\ answer' = NoneKnown /\ failed' = 0 /\ base' = source
    /\ pc' = "fetch"
    /\ UNCHANGED <<source, store, ledger, known>>
-----------------------------------------------------------------------------
(***************************************************************************)
(* Phase 2: the pool takes the gaps in order, they end in any order.       *)
(***************************************************************************)
Start(k) ==
    /\ pc = "fetch" /\ task[k] = "queued"
    /\ \A j \in Gap : task[j] = "queued" => k <= j
    /\ Cardinality({j \in Gap : task[j] = "running"}) < Workers
    /\ task' = [task EXCEPT ![k] = "running"]
    /\ UNCHANGED <<source, store, ledger, pc, plan, answer, left, failed, base, known>>

\* _FetchOk
Succeed(k) ==
    /\ task[k] = "running"
    /\ task' = [task EXCEPT ![k] = "ok"]
    /\ answer' = [answer EXCEPT ![k] = source[k]]
    /\ UNCHANGED <<source, store, ledger, pc, plan, left, failed, base, known>>

\* _FetchError: the task keeps its own exception, the others go on.
Fail(k) ==
    /\ task[k] = "running"
    /\ task' = [task EXCEPT ![k] = "error"]
    /\ UNCHANGED <<source, store, ledger, pc, plan, answer, left, failed, base, known>>

PoolDone ==
    /\ pc = "fetch" /\ \A k \in plan : task[k] \in {"ok", "error"}
    /\ pc' = "write"
    /\ UNCHANGED <<source, store, ledger, plan, task, answer, left, failed, base, known>>
-----------------------------------------------------------------------------
(***************************************************************************)
(* Phase 3: durable writes in plan order.                                  *)
(***************************************************************************)
IsNext(k) == k \in left /\ \A j \in left : k <= j

\* Mutant: the failure is raised at once.
SkipAndRaise(k) ==
    /\ pc = "write" /\ IsNext(k) /\ task[k] = "error"
    /\ failed' = k /\ pc' = "raised"
    /\ UNCHANGED <<source, store, ledger, plan, task, answer, left, base, known>>

SkipFailed(k) ==
    /\ pc = "write" /\ IsNext(k) /\ task[k] = "error"
    /\ failed' = IF failed = 0 THEN k ELSE failed
    /\ left' = left \ {k}
    /\ UNCHANGED <<source, store, ledger, pc, plan, task, answer, base, known>>

Store(k) ==
    /\ pc = "write" /\ IsNext(k) /\ task[k] = "ok"
    /\ store' = [store EXCEPT ![k] = IF answer[k] > 0 THEN answer[k] ELSE @]
    /\ pc' = "record"
    /\ UNCHANGED <<source, ledger, plan, task, answer, left, failed, base, known>>

Record(k) ==
    /\ pc = "record" /\ IsNext(k)
    /\ ledger' = ledger \cup {k}
    /\ known' = [known EXCEPT ![k] = answer[k]]
    /\ left' = left \ {k} /\ pc' = "write"
    /\ UNCHANGED <<source, store, plan, task, answer, failed, base>>

\* A drifted answer makes the parser raise: the gaps after it are abandoned.
ParseFails(k) ==
    /\ pc = "write" /\ IsNext(k) /\ task[k] = "ok"
    /\ pc' = "drift"
    /\ UNCHANGED <<source, store, ledger, plan, task, answer, left, failed, base, known>>

\* Re-raise the first failure, or read the window back.
Return ==
    /\ pc = "write" /\ left = {}
    /\ pc' = IF failed # 0 THEN "raised" ELSE "returned"
    /\ UNCHANGED <<source, store, ledger, plan, task, answer, left, failed, base, known>>

Crash ==
    /\ pc # "idle"
    /\ pc' = "idle" /\ plan' = {} /\ task' = Idle /\ answer' = NoneKnown
    /\ left' = {} /\ failed' = 0
    /\ UNCHANGED <<source, store, ledger, base, known>>

Pool(k) == Start(k) \/ Succeed(k) \/ Fail(k)

Write == \E k \in Gap : SkipFailed(k) \/ Store(k) \/ Record(k)

Next ==
    \/ \E k \in Gap : Publish(k) \/ Pool(k) \/ ParseFails(k)
    \/ Plan \/ PoolDone \/ Write \/ Return \/ Crash

Spec == Init /\ [][Next]_vars

\* The pool's threads and the main thread run; an attempt always ends, see
\* EventuallyServed of RateLimiter.tla.
FairSpec ==
    /\ Spec
    /\ \A k \in Gap : WF_vars(Pool(k))
    /\ WF_vars(PoolDone \/ Write \/ Return)
-----------------------------------------------------------------------------
\* When the call ends by re-raising a failure, every gap that was answered is on
\* disk and claimed, whatever order the answers came in and whatever else failed.
SuccessesAreDurable ==
    pc \in {"raised", "returned"} =>
        \A k \in plan : task[k] = "ok" => k \in ledger /\ store[k] >= answer[k]

\* A gap whose fetch failed is fetched again by the next call.
FailuresStayRetryable ==
    \A k \in plan : task[k] = "error" => k \notin ledger \/ k \in Trailing

\* The failure that is raised is the first in plan order, not in time.
RaisesInPlanOrder ==
    pc = "raised" =>
        /\ task[failed] = "error"
        /\ \A k \in plan : task[k] = "error" => failed <= k

\* A call that returns holds every row the vendor had for it when it began; the
\* gaps it did not plan are held by an earlier call.
ReturnIsComplete ==
    pc = "returned" => \A k \in Gap : k \in ledger /\ (k \in plan => store[k] >= base[k])

\* Whatever step a kill interrupts, a claimed gap's answer is on disk.
ClaimsAreStored == \A k \in ledger : store[k] >= known[k]

\* Some gaps failing harms none of the others: all of the above, for one run.
FailuresAreIsolated ==
    /\ SuccessesAreDurable /\ FailuresStayRetryable /\ RaisesInPlanOrder
    /\ ReturnIsComplete /\ ClaimsAreStored

\* Every call ends, however many of its gaps fail.
EventuallyEnds == pc = "fetch" ~> pc \in {"returned", "raised", "drift", "idle"}
=============================================================================

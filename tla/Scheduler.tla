------------------------------ MODULE Scheduler ------------------------------
(***************************************************************************)
(* The continuous-batching core of LiteServe: scheduler/scheduler.py, the  *)
(* generation loop and the inference thread of server/app.py that drive    *)
(* it, and the status changes that engine/inference.py makes.              *)
(*                                                                         *)
(* Two threads share the Request objects.  The event loop runs             *)
(* add_request, abort_request and the generation loop; schedule_step has   *)
(* no await, so nothing else runs on the event loop between its first and  *)
(* its last line, and pc names the part of it that is executing.  While pc *)
(* is "infer" the generation loop awaits the executor: the inference       *)
(* thread changes statuses and tokens of the batch it was given while      *)
(* requests are still added and aborted on the event loop.                 *)
(*                                                                         *)
(* The cache is the pool of counts of BlockPool.  No code of the server    *)
(* allocates from it: with Tracked = {} this is the deployed system.  For  *)
(* r in Tracked a worker (the engine of README.md's architecture diagram)  *)
(* allocates blocks for the request it is processing.                      *)
(*                                                                         *)
(* A definition whose name ends in _<Defect> is its neighbour with a       *)
(* plausible bug; it is used only to show that a property notices the bug. *)
(***************************************************************************)
EXTENDS BlockPool, Integers, Sequences, FiniteSets, Functions, SequencesExt

CONSTANTS
    High,        \* the requests of Priority.HIGH; the others are NORMAL
    PromptLen,   \* len(prompt_tokens) of each request
    MaxNew,      \* max_new_tokens of each request
    BlockSize,   \* kv_cache.block_size
    MaxBatch,    \* config.max_batch_size
    Preemption,  \* preemption_policy in ("fcfs", "priority")
    Engines,     \* the loaded engines
    EngineOf,    \* the engine of each request (_engine_for)
    Tracked      \* the requests some worker allocates cache blocks for

ASSUME SchedulerAssumption ==
    /\ High \subseteq Requests
    /\ Tracked \subseteq Requests
    /\ PromptLen \in [Requests -> Nat]
    /\ MaxNew \in [Requests -> Nat \ {0}]
    /\ BlockSize \in Nat \ {0}
    /\ MaxBatch \in Nat \ {0}
    /\ Preemption \in BOOLEAN
    /\ EngineOf \in [Requests -> Engines]

VARIABLES
    status,      \* Request.status, "NEW" before add_request
    generated,   \* len(generated_tokens)
    arrival,     \* arrival_time as the ordinal of the add_request call, 0 before
    clock,       \* number of add_request calls so far
    lapsed,      \* arrivals 1..lapsed have waited longer than max_waiting_time_ms
    pending,     \* pending_queue
    active,      \* active_batch.requests (its list order decides nothing here)
    preempted,   \* preempted_queue
    completed,   \* keys of _completed_requests
    callbacks,   \* keys of _completion_callbacks
    notified,    \* requests whose completion callback has been called
    aborted,     \* requests for which abort_request returned True (history)
    pc,          \* where the event loop is in _generation_loop / schedule_step
    reserved,    \* reserved_blocks of the running schedule_step
    late,        \* the part of timed_out that the running schedule_step has left
    todo,        \* inference thread: requests of its list not looked at yet
    entering,    \* inference thread: the request found in PREFILL, if any, before
                 \* engine.prefill assigns that status again
    prefilling,  \* inference thread: the request inside engine.prefill, if any
    group,       \* inference thread: requests collected in decode_groups
    pass,        \* inference thread: the group inside engine.decode_batch
    decoding     \* inference thread: those of pass still to get their token

requestVars == <<status, generated>>
clockVars == <<arrival, clock, lapsed>>
queueVars == <<pending, active, preempted>>
doneVars == <<completed, callbacks, notified, aborted>>
loopVars == <<pc, reserved, late>>
threadVars == <<todo, entering, prefilling, group, pass, decoding>>
vars == <<requestVars, clockVars, queueVars, doneVars, loopVars, threadVars, poolVars>>

-----------------------------------------------------------------------------
(* Helpers. *)

Finished == {"COMPLETE", "FAILED"}
Live == {"PENDING", "PREFILL", "GENERATING", "PREEMPTED"}
Statuses == Finished \cup Live \cup {"NEW"}

IsFinished(r) == status[r] \in Finished

\* A handler can run on the event loop: the generation loop is asleep or
\* awaits the executor.
EventLoopFree == pc \in {"idle", "infer"}

\* _estimate_blocks_needed
Need(r) == (PromptLen[r] + MaxNew[r] + BlockSize - 1) \div BlockSize

\* queue_depth; the preempted queue is not counted.
QueueDepth == Len(pending) + Cardinality(active)

BatchHasRoom_OffByOne == Cardinality(active) <= MaxBatch
BatchHasRoom == Cardinality(active) < MaxBatch

FitsBudget_IgnoresReserved(r) == Need(r) <= free

\* The test of the admission loop.
FitsBudget(r) == Need(r) + reserved <= free

\* can_allocate(blocks_needed * block_size)
FitsFree(r) == Need(r) <= free

MayPreempt(r) == r \in High /\ Preemption /\ active # {}

\* What the iteration of each loop of schedule_step finds at the queue's head.
HeadComesBack == preempted # <<>> /\ CanSwapIn(Head(preempted))
HeadConsidered == pending # <<>> /\ BatchHasRoom
HeadAdmitted == HeadConsidered /\ FitsBudget(Head(pending))
HeadPreempts ==
    HeadConsidered /\ ~FitsBudget(Head(pending)) /\ MayPreempt(Head(pending))

TimedOut_Inverted(r) == arrival[r] > lapsed

\* (now - arrival_time) > max_wait
TimedOut(r) == arrival[r] <= lapsed

\* The requests _try_preempt does not skip, and its sort key
\* (priority, -arrival_time): NORMAL before HIGH, later arrivals first.
Candidates == {r \in active : status[r] # "PREFILL"}
Precedes_ByArrival(r, q) == arrival[r] > arrival[q]
Precedes(r, q) ==
    \/ r \notin High /\ q \in High
    \/ (r \in High <=> q \in High) /\ arrival[r] > arrival[q]
Victim(r) == r \in Candidates /\ \A q \in Candidates \ {r} : Precedes(r, q)

\* The first request of late in queue order.
FirstLate(i) ==
    /\ i \in DOMAIN pending
    /\ pending[i] \in late
    /\ \A j \in 1..(i - 1) : pending[j] \notin late

Enqueued_Append(r) == Append(pending, r)

\* add_request's place in the queue: appendleft for HIGH, append for NORMAL.
Enqueued(r) == IF r \in High THEN Cons(r, pending) ELSE Append(pending, r)

StatusAfterToken_OffByOne(r) ==
    IF generated[r] + 1 > MaxNew[r] THEN {"COMPLETE"} ELSE {"COMPLETE", "GENERATING"}

\* The status after another token: _is_done is certain at max_new_tokens and
\* may come earlier with the end-of-sequence token.
StatusAfterToken(r) ==
    IF generated[r] + 1 >= MaxNew[r] THEN {"COMPLETE"} ELSE {"COMPLETE", "GENERATING"}

SetStatus(r, s) == status' = [status EXCEPT ![r] = s]

-----------------------------------------------------------------------------
Init ==
    /\ status = [r \in Requests |-> "NEW"]
    /\ generated = [r \in Requests |-> 0]
    /\ arrival = [r \in Requests |-> 0]
    /\ clock = 0
    /\ lapsed = 0
    /\ pending = <<>>
    /\ active = {}
    /\ preempted = <<>>
    /\ completed = {}
    /\ callbacks = {}
    /\ notified = {}
    /\ aborted = {}
    /\ pc = "idle"
    /\ reserved = 0
    /\ late = {}
    /\ todo = {}
    /\ entering = {}
    /\ prefilling = {}
    /\ group = {}
    /\ pass = {}
    /\ decoding = {}
    /\ PoolInit

-----------------------------------------------------------------------------
(* Handlers on the event loop, and time. *)

\* handle_completion up to add_request: no await in between.
AddRequest(r) ==
    /\ EventLoopFree
    /\ status[r] = "NEW"
    /\ SetStatus(r, "PENDING")
    /\ clock' = clock + 1
    /\ arrival' = [arrival EXCEPT ![r] = clock + 1]
    /\ pending' = Enqueued(r)
    /\ callbacks' = callbacks \cup {r}
    /\ UNCHANGED <<generated, lapsed, active, preempted, completed, notified, aborted,
                   loopVars, threadVars, poolVars>>

\* The oldest arrival not yet past max_waiting_time_ms passes it, whatever the
\* threads are doing.
Tick ==
    /\ lapsed < clock
    /\ lapsed' = lapsed + 1
    /\ UNCHANGED <<requestVars, arrival, clock, queueVars, doneVars, loopVars,
                   threadVars, poolVars>>

AbortActive_KeepsBlocks(r) ==
    /\ EventLoopFree
    /\ r \in active
    /\ active' = active \ {r}
    /\ SetStatus(r, "FAILED")
    /\ aborted' = aborted \cup {r}
    /\ UNCHANGED <<generated, clockVars, pending, preempted, completed, callbacks,
                   notified, loopVars, threadVars, poolVars>>

\* The three branches of abort_request; elsewhere it returns False.
AbortActive(r) ==
    /\ EventLoopFree
    /\ r \in active
    /\ active' = active \ {r}
    /\ PoolFree(r)
    /\ SetStatus(r, "FAILED")
    /\ aborted' = aborted \cup {r}
    /\ UNCHANGED <<generated, clockVars, pending, preempted, completed, callbacks,
                   notified, loopVars, threadVars>>

AbortPending(i) ==
    /\ EventLoopFree
    /\ pending' = RemoveAt(pending, i)
    /\ SetStatus(pending[i], "FAILED")
    /\ aborted' = aborted \cup {pending[i]}
    /\ UNCHANGED <<generated, clockVars, active, preempted, completed, callbacks,
                   notified, loopVars, threadVars, poolVars>>

AbortPreempted(i) ==
    /\ EventLoopFree
    /\ preempted' = RemoveAt(preempted, i)
    /\ PoolFree(preempted[i])
    /\ SetStatus(preempted[i], "FAILED")
    /\ aborted' = aborted \cup {preempted[i]}
    /\ UNCHANGED <<generated, clockVars, pending, active, completed, callbacks,
                   notified, loopVars, threadVars>>

Abort ==
    \/ \E r \in Requests : AbortActive(r)
    \/ \E i \in DOMAIN pending : AbortPending(i)
    \/ \E i \in DOMAIN preempted : AbortPreempted(i)

-----------------------------------------------------------------------------
(* _generation_loop and schedule_step.  Every iteration of a loop of        *)
(* schedule_step is an action of its own, because the loops read what their *)
(* earlier iterations changed.                                              *)

\* The loop wakes up with work to do and calls schedule_step.
StartStep ==
    /\ pc = "idle"
    /\ QueueDepth > 0
    /\ pc' = "reap"
    /\ UNCHANGED <<requestVars, clockVars, queueVars, doneVars, reserved, late,
                   threadVars, poolVars>>

Reap_KeepsCallback(r) ==
    /\ pc = "reap"
    /\ r \in active
    /\ IsFinished(r)
    /\ active' = active \ {r}
    /\ PoolFree(r)
    /\ completed' = completed \cup {r}
    /\ notified' = IF r \in callbacks THEN notified \cup {r} ELSE notified
    /\ UNCHANGED <<requestVars, clockVars, pending, preempted, callbacks, aborted,
                   loopVars, threadVars>>

\* Step 1, one finished request: out of the batch, blocks freed, recorded, and
\* its callback popped and called.
Reap(r) ==
    /\ pc = "reap"
    /\ r \in active
    /\ IsFinished(r)
    /\ active' = active \ {r}
    /\ PoolFree(r)
    /\ completed' = completed \cup {r}
    /\ callbacks' = callbacks \ {r}
    /\ notified' = IF r \in callbacks THEN notified \cup {r} ELSE notified
    /\ UNCHANGED <<requestVars, clockVars, pending, preempted, aborted, loopVars,
                   threadVars>>

ReapDone ==
    /\ pc = "reap"
    /\ \A r \in active : ~IsFinished(r)
    /\ pc' = "swapin"
    /\ UNCHANGED <<requestVars, clockVars, queueVars, doneVars, reserved, late,
                   threadVars, poolVars>>

SwapInHead_NotPopped ==
    /\ pc = "swapin"
    /\ HeadComesBack
    /\ PoolSwapIn(Head(preempted))
    /\ SetStatus(Head(preempted), "GENERATING")
    /\ active' = active \cup {Head(preempted)}
    /\ UNCHANGED <<generated, clockVars, pending, preempted, doneVars, loopVars,
                   threadVars>>

\* Step 2: the head of the preempted queue comes back; max_batch_size is not
\* consulted.
SwapInHead ==
    /\ pc = "swapin"
    /\ HeadComesBack
    /\ PoolSwapIn(Head(preempted))
    /\ preempted' = Tail(preempted)
    /\ SetStatus(Head(preempted), "GENERATING")
    /\ active' = active \cup {Head(preempted)}
    /\ UNCHANGED <<generated, clockVars, pending, doneVars, loopVars, threadVars>>

\* No preempted request, or swap_in of the head returns False.
SwapInDone ==
    /\ pc = "swapin"
    /\ ~HeadComesBack
    /\ pc' = "admit"
    /\ reserved' = 0
    /\ UNCHANGED <<requestVars, clockVars, queueVars, doneVars, late, threadVars,
                   poolVars>>

\* Step 3: the head of the pending queue fits what this step has not reserved.
AdmitHead ==
    /\ pc = "admit"
    /\ HeadAdmitted
    /\ pending' = Tail(pending)
    /\ SetStatus(Head(pending), "PREFILL")
    /\ active' = active \cup {Head(pending)}
    /\ reserved' = reserved + Need(Head(pending))
    /\ UNCHANGED <<generated, clockVars, preempted, doneVars, pc, late, threadVars,
                   poolVars>>

\* A HIGH head that does not fit: _try_preempt is called.
TryPreempt ==
    /\ pc = "admit"
    /\ HeadPreempts
    /\ pc' = "preempt"
    /\ UNCHANGED <<requestVars, clockVars, queueVars, doneVars, reserved, late,
                   threadVars, poolVars>>

\* One candidate is swapped out.  As soon as enough blocks are free
\* _try_preempt returns True and the admission loop retries the head.
PreemptOne(r) ==
    /\ pc = "preempt"
    /\ Victim(r)
    /\ PoolSwapOut(r)
    /\ active' = active \ {r}
    /\ SetStatus(r, "PREEMPTED")
    /\ preempted' = Append(preempted, r)
    /\ pc' = IF free' >= Need(Head(pending)) THEN "admit" ELSE "preempt"
    /\ UNCHANGED <<generated, clockVars, pending, doneVars, reserved, late, threadVars>>

\* No candidate is left: _try_preempt returns whether the free blocks suffice
\* (ignoring reserved); True retries the head, False leaves the loop.
PreemptExhausted ==
    /\ pc = "preempt"
    /\ Candidates = {}
    /\ IF FitsFree(Head(pending))
       THEN pc' = "admit" /\ UNCHANGED late
       ELSE pc' = "force" /\ late' = {r \in Range(pending) : TimedOut(r)}
    /\ UNCHANGED <<requestVars, clockVars, queueVars, doneVars, reserved, threadVars,
                   poolVars>>

\* The admission loop ends; Step 4 collects the requests that waited too long.
AdmitDone ==
    /\ pc = "admit"
    /\ ~HeadAdmitted
    /\ ~HeadPreempts
    /\ pc' = "force"
    /\ late' = {r \in Range(pending) : TimedOut(r)}
    /\ UNCHANGED <<requestVars, clockVars, queueVars, doneVars, reserved, threadVars,
                   poolVars>>

\* Step 4: the next timed-out request fits the free blocks and is added
\* whatever stands before it in the queue.
ForceAdd(i) ==
    /\ pc = "force"
    /\ BatchHasRoom
    /\ FirstLate(i)
    /\ FitsFree(pending[i])
    /\ pending' = RemoveAt(pending, i)
    /\ SetStatus(pending[i], "PREFILL")
    /\ active' = active \cup {pending[i]}
    /\ late' = late \ {pending[i]}
    /\ UNCHANGED <<generated, clockVars, preempted, doneVars, pc, reserved, threadVars,
                   poolVars>>

ForceSkip(i) ==
    /\ pc = "force"
    /\ BatchHasRoom
    /\ FirstLate(i)
    /\ ~FitsFree(pending[i])
    /\ late' = late \ {pending[i]}
    /\ UNCHANGED <<requestVars, clockVars, queueVars, doneVars, pc, reserved, threadVars,
                   poolVars>>

\* schedule_step returns; a non-empty batch is handed to the inference thread.
ReturnBatch ==
    /\ pc = "force"
    /\ late = {} \/ ~BatchHasRoom
    /\ pc' = IF active = {} THEN "idle" ELSE "infer"
    /\ todo' = active
    /\ reserved' = 0
    /\ late' = {}
    /\ UNCHANGED <<requestVars, clockVars, queueVars, doneVars, entering, prefilling,
                   group, pass, decoding, poolVars>>

LoopStep ==
    \/ StartStep
    \/ \E r \in Requests : Reap(r)
    \/ ReapDone
    \/ SwapInHead
    \/ SwapInDone
    \/ AdmitHead
    \/ TryPreempt
    \/ \E r \in Requests : PreemptOne(r)
    \/ PreemptExhausted
    \/ AdmitDone
    \/ \E i \in DOMAIN pending : ForceAdd(i) \/ ForceSkip(i)
    \/ ReturnBatch

-----------------------------------------------------------------------------
(* _run_inference_step, on the inference thread. *)

\* The thread is between two requests of its list.
BetweenRequests == entering = {} /\ prefilling = {}

\* A finished request of the list is skipped.
SkipFinished(r) ==
    /\ r \in todo
    /\ BetweenRequests
    /\ IsFinished(r)
    /\ todo' = todo \ {r}
    /\ UNCHANGED <<requestVars, clockVars, queueVars, doneVars, loopVars, entering,
                   prefilling, group, pass, decoding, poolVars>>

\* The test for PREFILL succeeds, and engine.prefill is called.
CallPrefill(r) ==
    /\ r \in todo
    /\ BetweenRequests
    /\ status[r] = "PREFILL"
    /\ todo' = todo \ {r}
    /\ entering' = {r}
    /\ UNCHANGED <<requestVars, clockVars, queueVars, doneVars, loopVars, prefilling,
                   group, pass, decoding, poolVars>>

\* engine.prefill assigns PREFILL once more, also over an abort since the test,
\* and starts the forward pass.
BeginPrefill(r) ==
    /\ r \in entering
    /\ entering' = {}
    /\ prefilling' = {r}
    /\ SetStatus(r, "PREFILL")
    /\ UNCHANGED <<generated, clockVars, queueVars, doneVars, loopVars, todo, group, pass,
                   decoding, poolVars>>

\* The forward pass returns: the first token is appended and the status
\* assigned, whatever happened to it meanwhile.
EndPrefill(r) ==
    /\ r \in prefilling
    /\ prefilling' = {}
    /\ generated' = [generated EXCEPT ![r] = @ + 1]
    /\ \E s \in StatusAfterToken(r) : SetStatus(r, s)
    /\ UNCHANGED <<clockVars, queueVars, doneVars, loopVars, todo, entering, group, pass,
                   decoding, poolVars>>

\* engine.prefill raises.
PrefillError(r) ==
    /\ r \in prefilling
    /\ prefilling' = {}
    /\ SetStatus(r, "FAILED")
    /\ UNCHANGED <<generated, clockVars, queueVars, doneVars, loopVars, todo, entering,
                   group, pass, decoding, poolVars>>

\* A GENERATING request joins the decode group of its engine.
Collect(r) ==
    /\ r \in todo
    /\ BetweenRequests
    /\ status[r] = "GENERATING"
    /\ todo' = todo \ {r}
    /\ group' = group \cup {r}
    /\ UNCHANGED <<requestVars, clockVars, queueVars, doneVars, loopVars, entering,
                   prefilling, pass, decoding, poolVars>>

\* decode_batch of engine e starts: it drops the requests finished by now and
\* returns at once when none is left.
BeginDecode(e) ==
    /\ todo = {} /\ BetweenRequests /\ pass = {}
    /\ LET mine == {r \in group : EngineOf[r] = e}
           live == {r \in mine : ~IsFinished(r)}
       IN  /\ mine # {}
           /\ group' = group \ mine
           /\ decoding' = live
           /\ pass' = IF live = {} THEN {} ELSE mine
    /\ UNCHANGED <<requestVars, clockVars, queueVars, doneVars, loopVars, todo, entering,
                   prefilling, poolVars>>

\* After the forward pass every request gets its token in turn.  Only a
\* request that is done has its status assigned.
EmitToken(r) ==
    /\ r \in decoding
    /\ decoding' = decoding \ {r}
    /\ pass' = IF decoding = {r} THEN {} ELSE pass
    /\ generated' = [generated EXCEPT ![r] = @ + 1]
    /\ \E s \in StatusAfterToken(r) :
          status' = IF s = "COMPLETE" THEN [status EXCEPT ![r] = s] ELSE status
    /\ UNCHANGED <<clockVars, queueVars, doneVars, loopVars, todo, entering, prefilling,
                   group, poolVars>>

\* decode_batch raises, before a request's token or just after appending it:
\* every request of the group fails, also those that got their token, or
\* finished, before.
DecodeError(r) ==
    /\ r \in decoding
    /\ generated' \in {generated, [generated EXCEPT ![r] = @ + 1]}
    /\ status' = [q \in Requests |-> IF q \in pass THEN "FAILED" ELSE status[q]]
    /\ decoding' = {}
    /\ pass' = {}
    /\ UNCHANGED <<clockVars, queueVars, doneVars, loopVars, todo, entering, prefilling,
                   group, poolVars>>

\* A worker that uses the shared cache allocates for the request it processes.
AllocateFor(r, k) ==
    /\ r \in Tracked
    /\ r \in prefilling \cup decoding
    /\ held[r] + k <= Need(r)
    /\ PoolAllocate(r, k)
    /\ UNCHANGED <<requestVars, clockVars, queueVars, doneVars, loopVars, threadVars>>

ThreadDone_NotAwaited == TRUE
ThreadDone == todo = {} /\ BetweenRequests /\ group = {} /\ pass = {}

\* The executor's future resolves and the generation loop goes on.
EndInfer ==
    /\ pc = "infer"
    /\ ThreadDone
    /\ pc' = "idle"
    /\ UNCHANGED <<requestVars, clockVars, queueVars, doneVars, reserved, late, threadVars,
                   poolVars>>

ThreadStep ==
    \/ \E r \in Requests :
          SkipFinished(r) \/ CallPrefill(r) \/ BeginPrefill(r) \/ EndPrefill(r)
             \/ PrefillError(r) \/ Collect(r) \/ EmitToken(r) \/ DecodeError(r)
    \/ \E e \in Engines : BeginDecode(e)
    \/ EndInfer

-----------------------------------------------------------------------------
Next ==
    \/ \E r \in Requests : AddRequest(r)
    \/ Tick
    \/ Abort
    \/ LoopStep
    \/ ThreadStep
    \/ \E r \in Requests, k \in 1..NumBlocks : AllocateFor(r, k)

Spec == Init /\ [][Next]_vars

\* The event loop keeps running the generation loop, the executor's thread
\* keeps running, and time passes.  Nothing makes a client submit or abort, an
\* engine raise, or a worker allocate.
FairSpec == Spec /\ WF_vars(LoopStep) /\ WF_vars(ThreadStep) /\ WF_vars(Tick)

-----------------------------------------------------------------------------
(* Properties. *)

Phases == {"idle", "reap", "swapin", "admit", "preempt", "force", "infer"}

\* The types of the scheduler's, the thread's and the requests' fields.
TypeOK ==
    /\ status \in [Requests -> Statuses]
    /\ generated \in [Requests -> Nat]
    /\ arrival \in [Requests -> Nat]
    /\ clock \in Nat
    /\ lapsed \in Nat
    /\ pending \in Seq(Requests)
    /\ active \in SUBSET Requests
    /\ preempted \in Seq(Requests)
    /\ completed \in SUBSET Requests
    /\ callbacks \in SUBSET Requests
    /\ notified \in SUBSET Requests
    /\ aborted \in SUBSET Requests
    /\ pc \in Phases
    /\ reserved \in Nat
    /\ late \in SUBSET Requests
    /\ todo \in SUBSET Requests
    /\ entering \in SUBSET Requests
    /\ prefilling \in SUBSET Requests
    /\ group \in SUBSET Requests
    /\ pass \in SUBSET Requests
    /\ decoding \in SUBSET Requests
    /\ PoolTypeOK

\* The place a request is in, if it is in exactly one.
InPending(r) == r \in Range(pending)
InPreempted(r) == r \in Range(preempted)

\* No request is lost or duplicated: one that no client aborted is in the one
\* place its status names, through admissions, preemptions, swap-ins and
\* whatever the inference thread writes; an aborted one is in none of them,
\* even while the thread still works on it.
OnePlace ==
    /\ IsInjective(pending)
    /\ IsInjective(preempted)
    /\ \A r \in Requests \ aborted :
         /\ status[r] = "PENDING" <=> InPending(r)
         /\ status[r] = "PREEMPTED" <=> InPreempted(r)
         /\ status[r] \in {"PREFILL", "GENERATING"} => r \in active
         /\ r \in active => status[r] \in {"PREFILL", "GENERATING"} \cup Finished
         /\ IsFinished(r) => r \in active \cup completed
         /\ r \in completed => IsFinished(r)
         /\ ~(r \in active /\ r \in completed)
    /\ \A r \in aborted :
         ~InPending(r) /\ ~InPreempted(r) /\ r \notin active \cup completed

\* The pending queue keeps its order across tail admissions, forced additions
\* from the middle and aborts: HIGH before NORMAL, the HIGH ones last come
\* first, the NORMAL ones first come first.
QueueOrder ==
    \A i, j \in DOMAIN pending : i < j =>
        LET a == pending[i]
            b == pending[j]
        IN  /\ b \in High => a \in High /\ arrival[a] > arrival[b]
            /\ a \notin High => b \notin High /\ arrival[a] < arrival[b]

\* A numbered slot for each of the count[r] blocks of every r in S: as many as
\* the counts add up to.
Slots(count, S) == UNION {{r} \X (1..count[r]) : r \in S}
Needs == [r \in Requests |-> Need(r)]

\* The requests this step has admitted so far: those of the batch that have
\* not been prefilled.
AdmittedNow == {r \in active : status[r] = "PREFILL"}

\* Admission never promises more than there is: while the loop of Step 3 runs,
\* the blocks the requests it has admitted will need are free, also after
\* preemptions in the middle of the loop (reserved_blocks is never reduced).
AdmissionFits ==
    pc \in {"admit", "preempt"} => Cardinality(Slots(Needs, AdmittedNow)) <= free

\* Every block is free or held: preempting, aborting and reaping in any order
\* never lose one.
BlocksConserved == free + Cardinality(Slots(held, Requests)) = NumBlocks

\* Whatever way a request leaves the batch or the preempted queue, completed,
\* failed, preempted or aborted, it leaves no block and no CPU copy behind.
\* (Once it has been aborted a worker that still has it may allocate again.)
BlocksComeBack ==
    [][\A r \in Requests :
          /\ held'[r] > 0 => r \in active' \cup aborted
          /\ swapped'[r] > 0 => InPreempted(r)']_vars

\* A callback is waiting for every submitted request that has not been reaped,
\* and a reaped one has been notified: none is called twice, none is dropped.
CallbackExactlyOnce ==
    /\ callbacks = {r \in Requests : status[r] # "NEW"} \ completed
    /\ notified = completed

\* What a client was told stays true: once a request has been reaped its status
\* and its tokens never change again, and it never goes back to a queue.
ReapedIsFinal ==
    [][\A r \in completed :
          /\ r \in completed'
          /\ status'[r] = status[r]
          /\ generated'[r] = generated[r]]_vars

\* At most max_new_tokens tokens are generated, however often the request was
\* preempted, resumed or aborted under the inference thread.
TokenLimit == \A r \in Requests : generated[r] <= MaxNew[r]

\* A NORMAL request that has not timed out is never put into the batch past a
\* HIGH one that waits.
NoPriorityInversion ==
    [][\A r \in Requests \ High : \A h \in High :
          status[r] = "PENDING" /\ status'[r] = "PREFILL" /\ status[h] = "PENDING"
             => TimedOut(r)]_vars

\* The batch never exceeds max_batch_size.
BatchCap == Cardinality(active) <= MaxBatch

\* Every submitted request that fits the cache at all is answered, unless a
\* client aborts it, even behind one that never fits.
Answered ==
    \A r \in Requests :
        (status[r] # "NEW" /\ Need(r) <= NumBlocks) ~> (r \in notified \/ r \in aborted)

\* A preempted request is resumed, or aborted by its client (README.md:15,
\* "then resume them when space frees up").
PreemptedResumes ==
    \A r \in Requests : status[r] = "PREEMPTED" ~> status[r] # "PREEMPTED"

\* The batch handed to the inference thread fits the cache (scheduler.py:29,
\* "Greedily add requests to the active batch while memory allows").
BatchFitsMemory == pc = "infer" => Cardinality(Slots(Needs, active)) <= NumBlocks

\* A HIGH request loses its place only when no NORMAL one in the batch could be
\* taken instead, however many are preempted in one step (_try_preempt's sort key).
PreemptsLowest ==
    [][\A r \in active \cap High : InPreempted(r)' =>
          \A q \in active' \ High : status[q] = "PREFILL"]_vars

\* A request that an abort has made FAILED (test_scheduler.py:110 asserts that
\* status) does not go back to GENERATING when its forward pass returns.
AbortIsFinal ==
    [][\A r \in aborted : status[r] = "FAILED" => status'[r] # "GENERATING"]_vars

\* Every call of schedule_step returns (scheduler.py:110, "The batch to execute.").
StepReturns == pc = "reap" ~> EventLoopFree

=============================================================================

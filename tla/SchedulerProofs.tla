--------------------------- MODULE SchedulerProofs ---------------------------
(***************************************************************************)
(* Machine-checked proofs about Scheduler, for every value of its          *)
(* constants: any number of requests, blocks and engines.                  *)
(***************************************************************************)
EXTENDS Scheduler, QueueLemmas, FiniteSetTheorems

-----------------------------------------------------------------------------
(* The two queues of the scheduler, in the terms of its actions. *)

\* Removing the i-th pending request (abort_request, forced addition).
LEMMA PendingRemoved ==
    ASSUME TypeOK, IsInjective(pending),
           NEW i \in DOMAIN pending, pending' = RemoveAt(pending, i)
    PROVE  /\ pending[i] \in Requests
           /\ InPending(pending[i])
           /\ pending' \in Seq(Requests)
           /\ IsInjective(pending')
           /\ Range(pending') = Range(pending) \ {pending[i]}
<1>1. pending \in Seq(Requests)
  BY DEF TypeOK
<1>2. i \in 1..Len(pending)
  BY <1>1, LenProperties
<1>3. pending[i] \in Requests
  BY <1>1, <1>2, ElementOfSeq
<1>4. /\ RemoveAt(pending, i) \in Seq(Requests)
      /\ IsInjective(RemoveAt(pending, i))
      /\ Range(RemoveAt(pending, i)) = Range(pending) \ {pending[i]}
  BY <1>1, <1>2, RemoveAtRange
<1>5. InPending(pending[i])
  BY DEF InPending, Range
<1>6. QED
  BY <1>3, <1>4, <1>5, Zenon

\* Taking the head of the pending queue (admission).
LEMMA PendingPopped ==
    ASSUME TypeOK, IsInjective(pending), pending # <<>>, pending' = Tail(pending)
    PROVE  /\ Head(pending) \in Requests
           /\ InPending(Head(pending))
           /\ pending' \in Seq(Requests)
           /\ IsInjective(pending')
           /\ Range(pending') = Range(pending) \ {Head(pending)}
<1>1. pending \in Seq(Requests)
  BY DEF TypeOK
<1>2. QED
  BY <1>1, TailRange, HeadTailProperties DEF InPending

\* Removing the i-th preempted request (abort_request).
LEMMA PreemptedRemoved ==
    ASSUME TypeOK, IsInjective(preempted),
           NEW i \in DOMAIN preempted, preempted' = RemoveAt(preempted, i)
    PROVE  /\ preempted[i] \in Requests
           /\ InPreempted(preempted[i])
           /\ preempted' \in Seq(Requests)
           /\ IsInjective(preempted')
           /\ Range(preempted') = Range(preempted) \ {preempted[i]}
<1>1. preempted \in Seq(Requests)
  BY DEF TypeOK
<1>2. i \in 1..Len(preempted)
  BY <1>1, LenProperties
<1>3. preempted[i] \in Requests
  BY <1>1, <1>2, ElementOfSeq
<1>4. /\ RemoveAt(preempted, i) \in Seq(Requests)
      /\ IsInjective(RemoveAt(preempted, i))
      /\ Range(RemoveAt(preempted, i)) = Range(preempted) \ {preempted[i]}
  BY <1>1, <1>2, RemoveAtRange
<1>5. InPreempted(preempted[i])
  BY DEF InPreempted, Range
<1>6. QED
  BY <1>3, <1>4, <1>5, Zenon

\* Taking the head of the preempted queue (swap-in).
LEMMA PreemptedPopped ==
    ASSUME TypeOK, IsInjective(preempted), preempted # <<>>,
           preempted' = Tail(preempted)
    PROVE  /\ Head(preempted) \in Requests
           /\ InPreempted(Head(preempted))
           /\ preempted' \in Seq(Requests)
           /\ IsInjective(preempted')
           /\ Range(preempted') = Range(preempted) \ {Head(preempted)}
<1>1. preempted \in Seq(Requests)
  BY DEF TypeOK
<1>2. QED
  BY <1>1, TailRange, HeadTailProperties DEF InPreempted

\* add_request puts exactly r into the pending queue.
LEMMA PendingAdded ==
    ASSUME TypeOK, IsInjective(pending), NEW r \in Requests, ~InPending(r),
           pending' = Enqueued(r)
    PROVE  /\ pending' \in Seq(Requests)
           /\ IsInjective(pending')
           /\ Range(pending') = Range(pending) \cup {r}
<1>1. pending \in Seq(Requests)
  BY DEF TypeOK
<1>2. CASE r \in High
  <2>1. /\ Cons(r, pending) \in Seq(Requests)
        /\ Range(Cons(r, pending)) = Range(pending) \cup {r}
        /\ IsInjective(pending) /\ r \notin Range(pending) => IsInjective(Cons(r, pending))
    BY <1>1, ConsRange, Zenon
  <2>2. QED BY <1>2, <2>1, Zenon DEF Enqueued, InPending
<1>3. CASE r \notin High
  BY <1>1, <1>3, AppendRange DEF Enqueued, InPending
<1>4. QED BY <1>2, <1>3

-----------------------------------------------------------------------------
(* Types. *)

\* The initial values have their types.
LEMMA TypeInit == Init => TypeOK
<1>1. <<>> \in Seq(Requests)
  BY EmptySeq
<1>2. QED
  BY <1>1, PoolAssumption
  DEF Init, PoolInit, TypeOK, PoolTypeOK, Statuses, Phases

\* _estimate_blocks_needed returns a natural number.
LEMMA NeedType == \A r \in Requests : Need(r) \in Nat
<1>1. SUFFICES ASSUME NEW r \in Requests
               PROVE  Need(r) \in Nat
  OBVIOUS
<1>2. PICK n \in Nat : n = PromptLen[r] + MaxNew[r] + BlockSize - 1
  BY SchedulerAssumption
<1>3. PICK b \in Nat \ {0} : b = BlockSize
  BY SchedulerAssumption
<1>4. n \div b \in Nat
  BY <1>2, <1>3
<1>5. QED
  BY <1>2, <1>3, <1>4 DEF Need

\* The pool operations keep the pool's types.
LEMMA PoolTypes ==
    ASSUME PoolTypeOK, NEW r \in Requests
    PROVE  /\ PoolFree(r) => PoolTypeOK'
           /\ PoolSwapOut(r) => PoolTypeOK'
           /\ PoolSwapIn(r) => PoolTypeOK'
           /\ \A k \in Nat : PoolAllocate(r, k) => PoolTypeOK'
<1> USE DEF PoolTypeOK, poolVars
<1>1. PoolFree(r) => PoolTypeOK'
  BY DEF PoolFree
<1>2. PoolSwapOut(r) => PoolTypeOK'
  BY DEF PoolSwapOut
<1>3. PoolSwapIn(r) => PoolTypeOK'
  BY DEF PoolSwapIn, CanSwapIn
<1>4. ASSUME NEW k \in Nat, PoolAllocate(r, k)
      PROVE  PoolTypeOK'
  BY <1>4 DEF PoolAllocate
<1>5. QED
  BY <1>1, <1>2, <1>3, <1>4

\* Every step keeps the types, given that no queue holds a request twice.
LEMMA TypeStep ==
    ASSUME TypeOK, IsInjective(pending), IsInjective(preempted), [Next]_vars
    PROVE  TypeOK'
<1> USE DEF TypeOK, Statuses, Finished, Live, Phases, SetStatus,
            requestVars, clockVars, queueVars, doneVars, loopVars, threadVars
<1>1. ASSUME NEW r \in Requests, AddRequest(r)
      PROVE  TypeOK'
  <2>1. pending' \in Seq(Requests)
    <3>1. Cons(r, pending) \in Seq(Requests) /\ Append(pending, r) \in Seq(Requests)
      BY ConsRange, AppendRange, Zenon
    <3>2. QED BY <1>1, <3>1, Zenon DEF AddRequest, Enqueued
  <2>2. /\ status' \in [Requests -> Statuses]
        /\ arrival' \in [Requests -> Nat]
        /\ clock' \in Nat
        /\ callbacks' \in SUBSET Requests
    BY <1>1 DEF AddRequest
  <2>3. /\ UNCHANGED <<generated, lapsed, active, preempted, completed, notified, aborted>>
        /\ UNCHANGED <<loopVars, threadVars, poolVars>>
    BY <1>1, Zenon DEF AddRequest
  <2>4. PoolTypeOK'
    BY <2>3 DEF poolVars, PoolTypeOK
  <2>5. QED BY <2>1, <2>2, <2>3, <2>4
<1>2. CASE Tick
  BY <1>2 DEF Tick, poolVars, PoolTypeOK
<1>3. ASSUME NEW r \in Requests, AbortActive(r)
      PROVE  TypeOK'
  BY <1>3, PoolTypes DEF AbortActive
<1>4. ASSUME NEW i \in DOMAIN pending, AbortPending(i)
      PROVE  TypeOK'
  <2>1. pending[i] \in Requests /\ pending' \in Seq(Requests)
    BY <1>4, PendingRemoved, Zenon DEF AbortPending
  <2>2. QED BY <1>4, <2>1 DEF AbortPending, poolVars, PoolTypeOK
<1>5. ASSUME NEW i \in DOMAIN preempted, AbortPreempted(i)
      PROVE  TypeOK'
  <2>1. preempted[i] \in Requests /\ preempted' \in Seq(Requests)
    BY <1>5, PreemptedRemoved, Zenon DEF AbortPreempted
  <2>2. QED BY <1>5, <2>1, PoolTypes DEF AbortPreempted
<1>6. CASE StartStep
  BY <1>6 DEF StartStep, poolVars, PoolTypeOK
<1>7. ASSUME NEW r \in Requests, Reap(r)
      PROVE  TypeOK'
  BY <1>7, PoolTypes DEF Reap
<1>8. CASE ReapDone
  BY <1>8 DEF ReapDone, poolVars, PoolTypeOK
<1>9. CASE SwapInHead
  <2>1. Head(preempted) \in Requests /\ preempted' \in Seq(Requests)
    BY <1>9, PreemptedPopped, Zenon DEF SwapInHead, HeadComesBack
  <2>2. QED BY <1>9, <2>1, PoolTypes DEF SwapInHead
<1>10. CASE SwapInDone
  BY <1>10 DEF SwapInDone, poolVars, PoolTypeOK
<1>11. CASE AdmitHead
  <2>1. Head(pending) \in Requests /\ pending' \in Seq(Requests)
    BY <1>11, PendingPopped, Zenon DEF AdmitHead, HeadAdmitted, HeadConsidered
  <2>2. Need(Head(pending)) \in Nat
    BY <2>1, NeedType
  <2>3. PICK h \in Requests : h = Head(pending) /\ Need(h) \in Nat
    BY <2>1, <2>2
  <2>4. reserved' \in Nat
    BY <1>11, <2>3 DEF AdmitHead
  <2>5. status' \in [Requests -> Statuses] /\ active' \subseteq Requests
    BY <1>11, <2>3 DEF AdmitHead
  <2>6. QED BY <1>11, <2>1, <2>4, <2>5 DEF AdmitHead, poolVars, PoolTypeOK
<1>12. CASE TryPreempt
  BY <1>12 DEF TryPreempt, poolVars, PoolTypeOK
<1>13. ASSUME NEW r \in Requests, PreemptOne(r)
      PROVE  TypeOK'
  <2>1. preempted' \in Seq(Requests)
    <3>1. Append(preempted, r) \in Seq(Requests)
      BY AppendRange, Zenon
    <3>2. QED BY <1>13, <3>1 DEF PreemptOne
  <2>2. QED BY <1>13, <2>1, PoolTypes DEF PreemptOne
<1>14. CASE PreemptExhausted
  <2>1. Range(pending) \subseteq Requests
    BY RangeOfSeq
  <2>2. QED BY <1>14, <2>1 DEF PreemptExhausted, poolVars, PoolTypeOK
<1>15. CASE AdmitDone
  <2>1. Range(pending) \subseteq Requests
    BY RangeOfSeq
  <2>2. QED BY <1>15, <2>1 DEF AdmitDone, poolVars, PoolTypeOK
<1>16. ASSUME NEW i \in DOMAIN pending, ForceAdd(i)
      PROVE  TypeOK'
  <2>1. pending[i] \in Requests /\ pending' \in Seq(Requests)
    BY <1>16, PendingRemoved, Zenon DEF ForceAdd
  <2>2. QED BY <1>16, <2>1 DEF ForceAdd, poolVars, PoolTypeOK
<1>17. ASSUME NEW i \in DOMAIN pending, ForceSkip(i)
      PROVE  TypeOK'
  BY <1>17 DEF ForceSkip, poolVars, PoolTypeOK
<1>18. CASE ReturnBatch
  BY <1>18 DEF ReturnBatch, poolVars, PoolTypeOK
<1>19. ASSUME NEW r \in Requests, SkipFinished(r)
      PROVE  TypeOK'
  BY <1>19 DEF SkipFinished, poolVars, PoolTypeOK
<1>20. ASSUME NEW r \in Requests, CallPrefill(r) \/ BeginPrefill(r)
      PROVE  TypeOK'
  BY <1>20 DEF CallPrefill, BeginPrefill, poolVars, PoolTypeOK
<1>21. ASSUME NEW r \in Requests, EndPrefill(r)
      PROVE  TypeOK'
  BY <1>21 DEF EndPrefill, StatusAfterToken, poolVars, PoolTypeOK
<1>22. ASSUME NEW r \in Requests, PrefillError(r)
      PROVE  TypeOK'
  BY <1>22 DEF PrefillError, poolVars, PoolTypeOK
<1>23. ASSUME NEW r \in Requests, Collect(r)
      PROVE  TypeOK'
  BY <1>23 DEF Collect, poolVars, PoolTypeOK
<1>24. ASSUME NEW r \in Requests, EmitToken(r)
      PROVE  TypeOK'
  <2>1. status' \in [Requests -> Statuses]
    BY <1>24 DEF EmitToken, StatusAfterToken
  <2>2. generated' \in [Requests -> Nat]
    BY <1>24 DEF EmitToken
  <2>3. QED BY <1>24, <2>1, <2>2 DEF EmitToken, poolVars, PoolTypeOK
<1>25. ASSUME NEW e \in Engines, BeginDecode(e)
      PROVE  TypeOK'
  BY <1>25 DEF BeginDecode, poolVars, PoolTypeOK
<1>26. ASSUME NEW r \in Requests, DecodeError(r)
      PROVE  TypeOK'
  <2>1. generated' \in [Requests -> Nat]
    <3>1. [generated EXCEPT ![r] = @ + 1] \in [Requests -> Nat]
      OBVIOUS
    <3>2. QED BY <1>26, <3>1, Zenon DEF DecodeError
  <2>2. status' \in [Requests -> Statuses]
    BY <1>26 DEF DecodeError
  <2>3. QED BY <1>26, <2>1, <2>2 DEF DecodeError, poolVars, PoolTypeOK
<1>27. CASE EndInfer
  BY <1>27 DEF EndInfer, poolVars, PoolTypeOK
<1>28. ASSUME NEW r \in Requests, NEW k \in 1..NumBlocks, AllocateFor(r, k)
      PROVE  TypeOK'
  <2>1. k \in Nat
    BY PoolAssumption
  <2>2. QED BY <1>28, <2>1, PoolTypes DEF AllocateFor
<1>29. CASE UNCHANGED vars
  BY <1>29 DEF vars, poolVars, PoolTypeOK
<1> HIDE DEF TypeOK
<1>30. QED
  BY <1>1, <1>2, <1>3, <1>4, <1>5, <1>6, <1>7, <1>8, <1>9, <1>10, <1>11, <1>12,
     <1>13, <1>14, <1>15, <1>16, <1>17, <1>18, <1>19, <1>20, <1>21, <1>22, <1>23,
     <1>24, <1>25, <1>26, <1>27, <1>28, <1>29, Zenon
  DEF Next, Abort, LoopStep, ThreadStep

-----------------------------------------------------------------------------
(* The inductive invariant.  OnePlace and CallbackExactlyOnce say what the   *)
(* containers hold, but not why the inference thread, which writes statuses  *)
(* without looking at the containers, cannot break them; the parts below do. *)

\* The thread works only on requests of the batch it was given: still in the
\* batch, or aborted meanwhile.  Outside the executor call it has none, and a
\* decode pass starts after the prefills.
ThreadOwns ==
    /\ todo \cup entering \cup prefilling \cup group \cup pass \subseteq active \cup aborted
    /\ decoding \subseteq pass
    /\ entering = {} \/ prefilling = {}
    /\ pass # {} => todo = {} /\ BetweenRequests
    /\ pc # "infer" => ThreadDone

\* Step 1 has reaped every finished request before the other steps run.
Reaped ==
    pc \in {"swapin", "admit", "preempt", "force"} => \A r \in active : ~IsFinished(r)

\* An aborted request is FAILED, unless the thread has written after that.
AbortedStatus ==
    \A r \in aborted : status[r] \in {"FAILED", "PREFILL", "GENERATING", "COMPLETE"}

\* A request that can still get a token has one left.
TokensLeft ==
    /\ \A r \in Requests : ~IsFinished(r) => generated[r] < MaxNew[r]
    /\ \A r \in entering \cup prefilling \cup decoding : generated[r] < MaxNew[r]

\* Step 4 works on a list computed by this very step, and time only passes.
LateTimedOut ==
    /\ pc # "force" => late = {}
    /\ \A r \in late : TimedOut(r)

\* GPU blocks belong to requests in the batch, CPU copies to requests in the
\* preempted queue.  (A worker may still allocate for a request that a client
\* aborts under its hands.)
BlocksHaveOwner ==
    \A r \in Requests :
        /\ held[r] > 0 => r \in active \cup aborted
        /\ swapped[r] > 0 => InPreempted(r)

\* No request arrives after the latest arrival.
ArrivalsPast == \A r \in Requests : arrival[r] <= clock

IInv ==
    /\ TypeOK
    /\ OnePlace
    /\ ThreadOwns
    /\ Reaped
    /\ AbortedStatus
    /\ CallbackExactlyOnce
    /\ TokenLimit
    /\ TokensLeft
    /\ LateTimedOut
    /\ ArrivalsPast
    /\ QueueOrder
    /\ BlocksHaveOwner

\* A step that only moves the program counters, the thread's lists or the
\* clock: statuses, tokens, queues and blocks stay.
Quiet == UNCHANGED <<requestVars, arrival, queueVars, doneVars, poolVars>>

\* Every step is quiet or one of the fifteen that are not.
LEMMA StepKinds ==
    ASSUME [Next]_vars
    PROVE  \/ Quiet
           \/ \E r \in Requests : AddRequest(r)
           \/ \E r \in Requests : AbortActive(r)
           \/ \E i \in DOMAIN pending : AbortPending(i)
           \/ \E i \in DOMAIN preempted : AbortPreempted(i)
           \/ \E r \in Requests : Reap(r)
           \/ SwapInHead
           \/ AdmitHead
           \/ \E r \in Requests : PreemptOne(r)
           \/ \E i \in DOMAIN pending : ForceAdd(i)
           \/ \E r \in Requests : BeginPrefill(r)
           \/ \E r \in Requests : EndPrefill(r)
           \/ \E r \in Requests : PrefillError(r)
           \/ \E r \in Requests : EmitToken(r)
           \/ \E r \in Requests : DecodeError(r)
           \/ \E r \in Requests, k \in 1..NumBlocks : AllocateFor(r, k)
<1> USE DEF Quiet, requestVars, clockVars, queueVars, doneVars, loopVars, threadVars,
            poolVars
<1>1. Tick => Quiet
  BY Zenon DEF Tick
<1>2. StartStep \/ ReapDone \/ SwapInDone \/ TryPreempt => Quiet
  BY Zenon DEF StartStep, ReapDone, SwapInDone, TryPreempt
<1>3. PreemptExhausted \/ AdmitDone \/ ReturnBatch => Quiet
  BY Zenon DEF PreemptExhausted, AdmitDone, ReturnBatch
<1>4. \A i \in DOMAIN pending : ForceSkip(i) => Quiet
  BY Zenon DEF ForceSkip
<1>5. \A r \in Requests : SkipFinished(r) \/ CallPrefill(r) \/ Collect(r) => Quiet
  BY Zenon DEF SkipFinished, CallPrefill, Collect
<1>6. \A e \in Engines : BeginDecode(e) => Quiet
  BY Zenon DEF BeginDecode
<1>7. EndInfer => Quiet
  BY Zenon DEF EndInfer
<1>8. UNCHANGED vars => Quiet
  BY DEF vars
<1> HIDE DEF Quiet
<1>9. QED
  BY <1>1, <1>2, <1>3, <1>4, <1>5, <1>6, <1>7, <1>8, Zenon
  DEF Next, Abort, LoopStep, ThreadStep

-----------------------------------------------------------------------------
(* The thread's lists, the phases of schedule_step, and time. *)

\* Nothing leaves the batch while the thread works, except by an abort.
LEMMA ThreadOwnsStep ==
    ASSUME ThreadOwns, [Next]_vars
    PROVE  ThreadOwns'
<1> USE DEF ThreadOwns, BetweenRequests, ThreadDone, loopVars, threadVars
<1>1. \A r \in Requests : AddRequest(r) => ThreadOwns'
  BY Zenon DEF AddRequest
<1>2. Tick => ThreadOwns'
  BY Zenon DEF Tick, queueVars, doneVars
<1>3. \A r \in Requests : AbortActive(r) => ThreadOwns'
  BY DEF AbortActive
<1>4. \A i \in DOMAIN pending : AbortPending(i) => ThreadOwns'
  BY DEF AbortPending
<1>5. \A i \in DOMAIN preempted : AbortPreempted(i) => ThreadOwns'
  BY DEF AbortPreempted
<1>6. StartStep \/ ReapDone \/ SwapInDone \/ TryPreempt \/ AdmitDone => ThreadOwns'
  BY DEF StartStep, ReapDone, SwapInDone, TryPreempt, AdmitDone, queueVars, doneVars
<1>7. \A r \in Requests : Reap(r) => ThreadOwns'
  BY DEF Reap
<1>8. SwapInHead => ThreadOwns'
  BY DEF SwapInHead, doneVars
<1>9. AdmitHead => ThreadOwns'
  BY DEF AdmitHead, doneVars
<1>10. \A r \in Requests : PreemptOne(r) => ThreadOwns'
  BY DEF PreemptOne, doneVars
<1>11. PreemptExhausted => ThreadOwns'
  BY DEF PreemptExhausted, queueVars, doneVars
<1>12. \A i \in DOMAIN pending : ForceAdd(i) \/ ForceSkip(i) => ThreadOwns'
  BY DEF ForceAdd, ForceSkip, queueVars, doneVars
<1>13. ReturnBatch => ThreadOwns'
  BY DEF ReturnBatch, queueVars, doneVars
<1>14. \A r \in Requests : SkipFinished(r) \/ CallPrefill(r) \/ Collect(r) => ThreadOwns'
  BY DEF SkipFinished, CallPrefill, Collect, queueVars, doneVars
<1>15. \A r \in Requests : BeginPrefill(r) \/ EndPrefill(r) \/ PrefillError(r) => ThreadOwns'
  BY DEF BeginPrefill, EndPrefill, PrefillError, queueVars, doneVars
<1>16. \A r \in Requests : EmitToken(r) => ThreadOwns'
  BY DEF EmitToken, queueVars, doneVars
<1>17. \A e \in Engines : BeginDecode(e) => ThreadOwns'
  BY DEF BeginDecode, queueVars, doneVars
<1>18. (\E r \in Requests : DecodeError(r)) => ThreadOwns'
  BY DEF DecodeError, queueVars, doneVars
<1>19. EndInfer => ThreadOwns'
  BY DEF EndInfer, queueVars, doneVars
<1>20. \A r \in Requests, k \in 1..NumBlocks : AllocateFor(r, k) => ThreadOwns'
  BY DEF AllocateFor, queueVars, doneVars
<1>21. UNCHANGED vars => ThreadOwns'
  BY DEF vars, queueVars, doneVars
<1> HIDE DEF ThreadOwns
<1>22. QED
  BY <1>1, <1>2, <1>3, <1>4, <1>5, <1>6, <1>7, <1>8, <1>9, <1>10, <1>11, <1>12,
     <1>13, <1>14, <1>15, <1>16, <1>17, <1>18, <1>19, <1>20, <1>21, Zenon
  DEF Next, Abort, LoopStep, ThreadStep

\* The list of timed-out requests of Step 4 is empty outside Step 4, and stays
\* true inside: nobody arrives while schedule_step runs.
LEMMA LateStep ==
    ASSUME TypeOK, LateTimedOut, [Next]_vars
    PROVE  LateTimedOut'
<1> USE DEF LateTimedOut, TimedOut, loopVars, clockVars
<1>1. \A r \in Requests : AddRequest(r) => LateTimedOut'
  BY DEF AddRequest, EventLoopFree
<1>2. Tick => LateTimedOut'
  BY DEF Tick, TypeOK
<1>3. \A r \in Requests : AbortActive(r) => LateTimedOut'
  BY DEF AbortActive
<1>4. \A i \in DOMAIN pending : AbortPending(i) => LateTimedOut'
  BY DEF AbortPending
<1>5. \A i \in DOMAIN preempted : AbortPreempted(i) => LateTimedOut'
  BY DEF AbortPreempted
<1>6. StartStep \/ ReapDone \/ SwapInDone \/ TryPreempt => LateTimedOut'
  BY DEF StartStep, ReapDone, SwapInDone, TryPreempt
<1>7. AdmitDone \/ PreemptExhausted => LateTimedOut'
  BY DEF AdmitDone, PreemptExhausted
<1>8. \A r \in Requests : Reap(r) => LateTimedOut'
  BY DEF Reap
<1>9. SwapInHead \/ AdmitHead => LateTimedOut'
  BY DEF SwapInHead, AdmitHead
<1>10. \A r \in Requests : PreemptOne(r) => LateTimedOut'
  BY DEF PreemptOne
<1>11. \A i \in DOMAIN pending : ForceAdd(i) \/ ForceSkip(i) => LateTimedOut'
  BY DEF ForceAdd, ForceSkip
<1>12. ReturnBatch => LateTimedOut'
  BY DEF ReturnBatch
<1>13. \A r \in Requests :
         SkipFinished(r) \/ CallPrefill(r) \/ BeginPrefill(r) \/ Collect(r) => LateTimedOut'
  BY DEF SkipFinished, CallPrefill, BeginPrefill, Collect
<1>14. \A r \in Requests : EndPrefill(r) \/ PrefillError(r) \/ EmitToken(r) => LateTimedOut'
  BY DEF EndPrefill, PrefillError, EmitToken
<1>15. \A e \in Engines : BeginDecode(e) => LateTimedOut'
  BY DEF BeginDecode
<1>16. (\E r \in Requests : DecodeError(r)) \/ EndInfer => LateTimedOut'
  BY DEF DecodeError, EndInfer
<1>17. \A r \in Requests, k \in 1..NumBlocks : AllocateFor(r, k) => LateTimedOut'
  BY DEF AllocateFor
<1>18. UNCHANGED vars => LateTimedOut'
  BY DEF vars
<1> HIDE DEF LateTimedOut
<1>19. QED
  BY <1>1, <1>2, <1>3, <1>4, <1>5, <1>6, <1>7, <1>8, <1>9, <1>10, <1>11, <1>12,
     <1>13, <1>14, <1>15, <1>16, <1>17, <1>18, Zenon
  DEF Next, Abort, LoopStep, ThreadStep

\* The clock is the ordinal of the latest arrival.
LEMMA ArrivalsStep ==
    ASSUME TypeOK, ArrivalsPast, [Next]_vars
    PROVE  ArrivalsPast'
<1> USE DEF ArrivalsPast, clockVars
<1>1. \A r \in Requests : AddRequest(r) => ArrivalsPast'
  BY DEF AddRequest, TypeOK
<1>2. (\E r \in Requests : AddRequest(r)) \/ UNCHANGED <<arrival, clock>>
  BY Zenon DEF Next, Abort, LoopStep, ThreadStep, Tick, AbortActive, AbortPending,
     AbortPreempted, StartStep, Reap, ReapDone, SwapInHead, SwapInDone, AdmitHead,
     TryPreempt, PreemptOne, PreemptExhausted, AdmitDone, ForceAdd, ForceSkip,
     ReturnBatch, SkipFinished, CallPrefill, BeginPrefill, EndPrefill, PrefillError, Collect,
     EmitToken, BeginDecode, DecodeError, EndInfer, AllocateFor, vars
<1>3. QED
  BY <1>1, <1>2

-----------------------------------------------------------------------------
(* Where a request is. *)

\* No step loses or duplicates a request.
LEMMA OnePlaceStep ==
    ASSUME TypeOK, OnePlace, ThreadOwns, AbortedStatus, [Next]_vars
    PROVE  OnePlace'
<1> USE DEF Finished, IsFinished, SetStatus, InPending, InPreempted
<1>1. ASSUME NEW r \in Requests, AddRequest(r)
      PROVE  OnePlace'
  <2>1. r \notin aborted /\ ~InPending(r)
    BY <1>1 DEF AddRequest, OnePlace, AbortedStatus
  <2>2. IsInjective(pending') /\ Range(pending') = Range(pending) \cup {r}
    BY <1>1, <2>1, PendingAdded, Zenon DEF AddRequest, OnePlace
  <2>3. QED BY <1>1, <2>1, <2>2 DEF AddRequest, OnePlace, TypeOK
<1>2. ASSUME NEW r \in Requests, AbortActive(r)
      PROVE  OnePlace'
  BY <1>2 DEF AbortActive, OnePlace, TypeOK
<1>3. ASSUME NEW i \in DOMAIN pending, AbortPending(i)
      PROVE  OnePlace'
  <2>1. PICK r \in Requests :
           /\ r = pending[i]
           /\ InPending(r)
           /\ IsInjective(pending')
           /\ Range(pending') = Range(pending) \ {r}
    BY <1>3, PendingRemoved, Zenon DEF AbortPending, OnePlace
  <2>2. QED BY <1>3, <2>1 DEF AbortPending, OnePlace, TypeOK
<1>4. ASSUME NEW i \in DOMAIN preempted, AbortPreempted(i)
      PROVE  OnePlace'
  <2>1. PICK r \in Requests :
           /\ r = preempted[i]
           /\ InPreempted(r)
           /\ IsInjective(preempted')
           /\ Range(preempted') = Range(preempted) \ {r}
    BY <1>4, PreemptedRemoved, Zenon DEF AbortPreempted, OnePlace
  <2>2. QED BY <1>4, <2>1 DEF AbortPreempted, OnePlace, TypeOK
<1>5. ASSUME NEW r \in Requests, Reap(r)
      PROVE  OnePlace'
  BY <1>5 DEF Reap, OnePlace, requestVars
<1>6. CASE SwapInHead
  <2>1. PICK r \in Requests :
           /\ r = Head(preempted)
           /\ InPreempted(r)
           /\ IsInjective(preempted')
           /\ Range(preempted') = Range(preempted) \ {r}
    BY <1>6, PreemptedPopped, Zenon DEF SwapInHead, HeadComesBack, OnePlace
  <2>2. QED BY <1>6, <2>1 DEF SwapInHead, OnePlace, TypeOK, doneVars
<1>7. CASE AdmitHead
  <2>1. PICK r \in Requests :
           /\ r = Head(pending)
           /\ InPending(r)
           /\ IsInjective(pending')
           /\ Range(pending') = Range(pending) \ {r}
    BY <1>7, PendingPopped, Zenon DEF AdmitHead, HeadAdmitted, HeadConsidered, OnePlace
  <2>2. QED BY <1>7, <2>1 DEF AdmitHead, OnePlace, TypeOK, doneVars
<1>8. ASSUME NEW r \in Requests, PreemptOne(r)
      PROVE  OnePlace'
  <2>1. r \in active /\ r \notin aborted /\ ~InPreempted(r)
    BY <1>8 DEF PreemptOne, Victim, Candidates, OnePlace
  <2>2. IsInjective(preempted') /\ Range(preempted') = Range(preempted) \cup {r}
    BY <1>8, <2>1, AppendRange DEF PreemptOne, OnePlace, TypeOK
  <2>3. QED BY <1>8, <2>1, <2>2 DEF PreemptOne, OnePlace, TypeOK, doneVars
<1>9. ASSUME NEW i \in DOMAIN pending, ForceAdd(i)
      PROVE  OnePlace'
  <2>1. PICK r \in Requests :
           /\ r = pending[i]
           /\ InPending(r)
           /\ IsInjective(pending')
           /\ Range(pending') = Range(pending) \ {r}
    BY <1>9, PendingRemoved, Zenon DEF ForceAdd, OnePlace
  <2>2. QED BY <1>9, <2>1 DEF ForceAdd, OnePlace, TypeOK, doneVars
<1>10. ASSUME NEW r \in Requests, EndPrefill(r)
       PROVE  OnePlace'
  <2>1. r \in active \cup aborted
    BY <1>10 DEF EndPrefill, ThreadOwns
  <2>2. PICK s \in {"COMPLETE", "GENERATING"} : SetStatus(r, s)
    BY <1>10 DEF EndPrefill, StatusAfterToken
  <2>3. QED BY <1>10, <2>1, <2>2 DEF EndPrefill, OnePlace, TypeOK, queueVars, doneVars
<1>11. ASSUME NEW r \in Requests, BeginPrefill(r) \/ PrefillError(r)
       PROVE  OnePlace'
  <2>1. r \in active \cup aborted
    BY <1>11 DEF BeginPrefill, PrefillError, ThreadOwns
  <2>2. PICK s \in {"PREFILL", "FAILED"} : SetStatus(r, s)
    BY <1>11 DEF BeginPrefill, PrefillError
  <2>3. UNCHANGED <<queueVars, doneVars>>
    BY <1>11 DEF BeginPrefill, PrefillError
  <2>4. QED BY <2>1, <2>2, <2>3 DEF OnePlace, TypeOK, queueVars, doneVars
<1>12. ASSUME NEW r \in Requests, EmitToken(r)
       PROVE  OnePlace'
  <2>1. r \in active \cup aborted
    BY <1>12 DEF EmitToken, ThreadOwns
  <2>2. UNCHANGED status \/ SetStatus(r, "COMPLETE")
    BY <1>12 DEF EmitToken, StatusAfterToken
  <2>3. QED BY <1>12, <2>1, <2>2 DEF EmitToken, OnePlace, TypeOK, queueVars, doneVars
<1>13. CASE \E r \in Requests : DecodeError(r)
  <2>1. pass \subseteq active \cup aborted
    BY DEF ThreadOwns
  <2>2. QED BY <1>13, <2>1 DEF DecodeError, OnePlace, TypeOK, queueVars, doneVars
<1>14. ASSUME NEW r \in Requests, NEW k \in 1..NumBlocks, AllocateFor(r, k)
       PROVE  OnePlace'
  BY <1>14 DEF AllocateFor, OnePlace, requestVars, queueVars, doneVars
<1>15. CASE Quiet
  BY <1>15 DEF Quiet, OnePlace, requestVars, queueVars, doneVars
<1>16. QED
  BY StepKinds, <1>1, <1>2, <1>3, <1>4, <1>5, <1>6, <1>7, <1>8, <1>9, <1>10, <1>11,
     <1>12, <1>13, <1>14, <1>15, Zenon

-----------------------------------------------------------------------------
(* What the statuses say. *)

\* The phases after Step 1 are entered only through the end of Step 1.
LEMMA PhaseOrder ==
    ASSUME [Next]_vars, pc' \in {"swapin", "admit", "preempt", "force"}
    PROVE  pc \in {"swapin", "admit", "preempt", "force"} \/ ReapDone
<1> USE DEF loopVars
<1>1. ASSUME NEW r \in Requests,
             AddRequest(r) \/ AbortActive(r) \/ Reap(r) \/ PreemptOne(r)
      PROVE  pc \in {"swapin", "admit", "preempt", "force"}
  BY <1>1 DEF AddRequest, AbortActive, Reap, PreemptOne
<1>2. ASSUME NEW r \in Requests,
             SkipFinished(r) \/ CallPrefill(r) \/ BeginPrefill(r) \/ EndPrefill(r)
                \/ PrefillError(r) \/ Collect(r) \/ EmitToken(r)
      PROVE  pc \in {"swapin", "admit", "preempt", "force"}
  BY <1>2 DEF SkipFinished, CallPrefill, BeginPrefill, EndPrefill, PrefillError, Collect,
     EmitToken
<1>3. ASSUME NEW i, AbortPending(i) \/ AbortPreempted(i) \/ ForceAdd(i) \/ ForceSkip(i)
      PROVE  pc \in {"swapin", "admit", "preempt", "force"}
  BY <1>3 DEF AbortPending, AbortPreempted, ForceAdd, ForceSkip
<1>4. ASSUME Tick \/ StartStep \/ SwapInHead \/ SwapInDone \/ AdmitHead \/ TryPreempt
      PROVE  pc \in {"swapin", "admit", "preempt", "force"}
  BY <1>4 DEF Tick, StartStep, SwapInHead, SwapInDone, AdmitHead, TryPreempt
<1>5. ASSUME PreemptExhausted \/ AdmitDone \/ ReturnBatch \/ (\E r \in Requests : DecodeError(r)) \/ EndInfer
                \/ UNCHANGED vars
      PROVE  pc \in {"swapin", "admit", "preempt", "force"}
  BY <1>5 DEF PreemptExhausted, AdmitDone, ReturnBatch, DecodeError, EndInfer, vars
<1>6. ASSUME NEW e, BeginDecode(e)
      PROVE  pc \in {"swapin", "admit", "preempt", "force"}
  BY <1>6 DEF BeginDecode
<1>7. ASSUME NEW r, NEW k, AllocateFor(r, k)
      PROVE  pc \in {"swapin", "admit", "preempt", "force"}
  BY <1>7 DEF AllocateFor
<1>8. QED
  BY <1>1, <1>2, <1>3, <1>4, <1>5, <1>6, <1>7, Zenon
  DEF Next, Abort, LoopStep, ThreadStep

\* No request of the batch finishes between Step 1 and the end of schedule_step.
LEMMA ReapedStep ==
    ASSUME TypeOK, OnePlace, ThreadOwns, Reaped, [Next]_vars
    PROVE  Reaped'
<1> DEFINE After == {"swapin", "admit", "preempt", "force"}
<1>1. SUFFICES ASSUME pc' \in After, NEW q \in active', q \in Requests
               PROVE  ~IsFinished(q)'
  <2>1. active' \subseteq Requests
    BY TypeStep DEF TypeOK, OnePlace
  <2>2. QED BY <2>1 DEF Reaped
<1>2. CASE ReapDone
  BY <1>1, <1>2 DEF ReapDone, IsFinished, requestVars, queueVars
<1>3. ASSUME pc \in After
      PROVE  ~IsFinished(q)'
  <2>1. ~EventLoopFree /\ entering = {} /\ prefilling = {} /\ decoding = {}
    BY <1>3 DEF EventLoopFree, ThreadOwns, ThreadDone, BetweenRequests
  <2>2. \A p \in active : status[p] \notin Finished
    BY <1>3 DEF Reaped, IsFinished
  <2> USE DEF IsFinished, Finished, SetStatus
  <2>3. CASE Quiet
    BY <1>1, <2>2, <2>3 DEF Quiet, requestVars, queueVars
  <2>4. ASSUME NEW r \in Requests, Reap(r)
        PROVE  FALSE
    BY <1>3, <2>4 DEF Reap
  <2>5. CASE SwapInHead
    BY <1>1, <2>2, <2>5 DEF SwapInHead, TypeOK
  <2>6. CASE AdmitHead
    BY <1>1, <2>2, <2>6 DEF AdmitHead, TypeOK
  <2>7. ASSUME NEW r \in Requests, PreemptOne(r)
        PROVE  ~IsFinished(q)'
    BY <1>1, <2>2, <2>7 DEF PreemptOne, TypeOK
  <2>8. ASSUME NEW i \in DOMAIN pending, ForceAdd(i)
        PROVE  ~IsFinished(q)'
    BY <1>1, <2>2, <2>8 DEF ForceAdd, TypeOK
  <2>9. ASSUME NEW r \in Requests, NEW k \in 1..NumBlocks, AllocateFor(r, k)
        PROVE  ~IsFinished(q)'
    BY <1>1, <2>2, <2>9 DEF AllocateFor, requestVars, queueVars
  <2>10. QED
    BY StepKinds, <2>1, <2>3, <2>4, <2>5, <2>6, <2>7, <2>8, <2>9, Zenon
    DEF AddRequest, AbortActive, AbortPending, AbortPreempted, BeginPrefill, EndPrefill,
        PrefillError, EmitToken, DecodeError
<1>4. QED
  BY <1>1, <1>2, <1>3, PhaseOrder

\* Nothing but the thread touches an aborted request.
LEMMA AbortedStep ==
    ASSUME TypeOK, OnePlace, ThreadOwns, AbortedStatus, [Next]_vars
    PROVE  AbortedStatus'
<1> USE DEF AbortedStatus, SetStatus
<1>1. ASSUME NEW r \in Requests, AddRequest(r)
      PROVE  AbortedStatus'
  BY <1>1 DEF AddRequest, TypeOK
<1>2. ASSUME NEW r \in Requests, AbortActive(r)
      PROVE  AbortedStatus'
  BY <1>2 DEF AbortActive, TypeOK
<1>3. ASSUME NEW i \in DOMAIN pending, AbortPending(i)
      PROVE  AbortedStatus'
  BY <1>3 DEF AbortPending, TypeOK
<1>4. ASSUME NEW i \in DOMAIN preempted, AbortPreempted(i)
      PROVE  AbortedStatus'
  BY <1>4 DEF AbortPreempted, TypeOK
<1>5. ASSUME NEW r \in Requests, Reap(r)
      PROVE  AbortedStatus'
  BY <1>5 DEF Reap, requestVars
<1>6. CASE SwapInHead
  BY <1>6 DEF SwapInHead, TypeOK, doneVars
<1>7. CASE AdmitHead
  <2>1. Head(pending) \notin aborted
    BY <1>7, PendingPopped
    DEF AdmitHead, HeadAdmitted, HeadConsidered, OnePlace
  <2>2. QED BY <1>7, <2>1 DEF AdmitHead, TypeOK, doneVars
<1>8. ASSUME NEW r \in Requests, PreemptOne(r)
      PROVE  AbortedStatus'
  <2>1. r \notin aborted
    BY <1>8 DEF PreemptOne, Victim, Candidates, OnePlace
  <2>2. QED BY <1>8, <2>1 DEF PreemptOne, TypeOK, doneVars
<1>9. ASSUME NEW i \in DOMAIN pending, ForceAdd(i)
      PROVE  AbortedStatus'
  <2>1. pending[i] \notin aborted
    BY <1>9, PendingRemoved DEF ForceAdd, OnePlace
  <2>2. QED BY <1>9, <2>1 DEF ForceAdd, TypeOK, doneVars
<1>10. ASSUME NEW r \in Requests, EndPrefill(r)
       PROVE  AbortedStatus'
  BY <1>10 DEF EndPrefill, StatusAfterToken, TypeOK, doneVars
<1>11. ASSUME NEW r \in Requests, BeginPrefill(r) \/ PrefillError(r)
       PROVE  AbortedStatus'
  BY <1>11 DEF BeginPrefill, PrefillError, TypeOK, doneVars
<1>12. ASSUME NEW r \in Requests, EmitToken(r)
       PROVE  AbortedStatus'
  BY <1>12 DEF EmitToken, StatusAfterToken, TypeOK, doneVars
<1>13. CASE \E r \in Requests : DecodeError(r)
  BY <1>13 DEF DecodeError, TypeOK, doneVars
<1>14. ASSUME NEW r \in Requests, NEW k \in 1..NumBlocks, AllocateFor(r, k)
       PROVE  AbortedStatus'
  BY <1>14 DEF AllocateFor, requestVars, doneVars
<1>15. CASE Quiet
  BY <1>15 DEF Quiet, requestVars, doneVars
<1>16. QED
  BY StepKinds, <1>1, <1>2, <1>3, <1>4, <1>5, <1>6, <1>7, <1>8, <1>9, <1>10, <1>11,
     <1>12, <1>13, <1>14, <1>15, Zenon

-----------------------------------------------------------------------------
(* The order of the pending queue. *)

\* a may stand before b in the pending queue.
MayPrecede(a, b) ==
    /\ b \in High => a \in High /\ arrival[a] > arrival[b]
    /\ a \notin High => b \notin High /\ arrival[a] < arrival[b]

\* QueueOrder says that every earlier element may precede every later one.
LEMMA QueueOrderMeans ==
    QueueOrder <=>
        \A i, j \in DOMAIN pending : i < j => MayPrecede(pending[i], pending[j])
BY DEF QueueOrder, MayPrecede

\* Taking an element out of the middle keeps the order of the others.
LEMMA OrderRemoved ==
    ASSUME TypeOK, QueueOrder, NEW i \in DOMAIN pending,
           pending' = RemoveAt(pending, i), UNCHANGED arrival
    PROVE  QueueOrder'
<1>1. PICK n \in Nat : n = Len(pending) /\ DOMAIN pending = 1..n
  BY LenProperties DEF TypeOK
<1>2. i \in 1..n /\ i \in Nat
  BY <1>1
<1>3. /\ pending' \in Seq(Requests)
      /\ Len(pending') = n - 1
      /\ \A k \in 1..(n - 1) : pending'[k] = IF k < i THEN pending[k] ELSE pending[k + 1]
  <2>1. /\ RemoveAt(pending, i) \in Seq(Requests)
        /\ Len(RemoveAt(pending, i)) = Len(pending) - 1
        /\ \A k \in 1..(Len(pending) - 1) :
              RemoveAt(pending, i)[k] = IF k < i THEN pending[k] ELSE pending[k + 1]
    BY <1>1, <1>2, RemoveAtElements DEF TypeOK
  <2>2. QED BY <1>1, <2>1
<1>4. DOMAIN pending' = 1..(n - 1)
  BY <1>1, <1>2, <1>3, LenProperties
<1>5. SUFFICES ASSUME NEW k \in 1..(n - 1), NEW l \in 1..(n - 1), k < l
               PROVE  MayPrecede(pending'[k], pending'[l])
  BY <1>4 DEF QueueOrder, MayPrecede
<1>6. PICK x \in 1..n : pending'[k] = pending[x] /\ x = IF k < i THEN k ELSE k + 1
  BY <1>1, <1>2, <1>3
<1>7. PICK y \in 1..n : pending'[l] = pending[y] /\ y = IF l < i THEN l ELSE l + 1
  BY <1>1, <1>2, <1>3
<1>8. x < y
  BY <1>2, <1>5, <1>6, <1>7
<1>9. MayPrecede(pending[x], pending[y])
  BY <1>1, <1>6, <1>7, <1>8, QueueOrderMeans
<1>10. QED BY <1>6, <1>7, <1>9, Zenon

\* Taking the head keeps the order of the others.
LEMMA OrderPopped ==
    ASSUME TypeOK, QueueOrder, IsInjective(pending), pending # <<>>,
           pending' = Tail(pending), UNCHANGED arrival
    PROVE  QueueOrder'
<1>1. PICK n \in Nat : n = Len(pending) /\ DOMAIN pending = 1..n /\ n > 0
  BY LenProperties, EmptySeq DEF TypeOK
<1>2. /\ pending' \in Seq(Requests)
      /\ Len(pending') = n - 1
      /\ \A k \in 1..(n - 1) : pending'[k] = pending[k + 1]
  <2>1. /\ Tail(pending) \in Seq(Requests)
        /\ Len(Tail(pending)) = Len(pending) - 1
        /\ \A k \in 1..(Len(pending) - 1) : Tail(pending)[k] = pending[k + 1]
    BY TailRange DEF TypeOK
  <2>2. QED BY <1>1, <2>1
<1>3. DOMAIN pending' = 1..(n - 1)
  BY <1>1, <1>2, LenProperties
<1>4. SUFFICES ASSUME NEW k \in 1..(n - 1), NEW l \in 1..(n - 1), k < l
               PROVE  MayPrecede(pending'[k], pending'[l])
  BY <1>3 DEF QueueOrder, MayPrecede
<1>5. k + 1 \in 1..n /\ l + 1 \in 1..n /\ k + 1 < l + 1
  BY <1>1, <1>4
<1>6. MayPrecede(pending[k + 1], pending[l + 1])
  BY <1>1, <1>5, QueueOrderMeans
<1>7. pending'[k] = pending[k + 1] /\ pending'[l] = pending[l + 1]
  BY <1>2
<1>8. QED BY <1>6, <1>7, Zenon

\* A new request, later than all others, goes to the front or to the back.
LEMMA OrderAdded ==
    ASSUME TypeOK, QueueOrder, ArrivalsPast, NEW r \in Requests, ~InPending(r),
           pending' = Enqueued(r), arrival' = [arrival EXCEPT ![r] = clock + 1]
    PROVE  QueueOrder'
<1>1. PICK n \in Nat : n = Len(pending) /\ DOMAIN pending = 1..n
  BY LenProperties DEF TypeOK
<1>2. \A k \in 1..n : pending[k] \in Requests /\ pending[k] # r
  <2>1. \A k \in 1..n : pending[k] \in Requests
    BY <1>1, ElementOfSeq DEF TypeOK
  <2>2. \A k \in 1..n : pending[k] \in Range(pending)
    BY <1>1 DEF Range
  <2>3. QED BY <2>1, <2>2 DEF InPending
<1>3. \A k \in 1..n : /\ arrival'[pending[k]] = arrival[pending[k]]
                      /\ arrival'[pending[k]] \in Nat
                      /\ arrival'[pending[k]] < arrival'[r]
  BY <1>2 DEF TypeOK, ArrivalsPast
<1>4. \A k, l \in 1..n : k < l => MayPrecede(pending[k], pending[l])
  BY <1>1, QueueOrderMeans
<1>5. CASE r \in High
  <2>1. PICK t : t = Cons(r, pending)
    OBVIOUS
  <2>2. pending' = t
    BY <1>5, <2>1 DEF Enqueued
  <2>3. /\ t \in Seq(Requests)
        /\ Len(t) = n + 1
        /\ t[1] = r
        /\ \A k \in 2..(n + 1) : t[k] = pending[k - 1]
    <3>1. /\ Cons(r, pending) \in Seq(Requests)
          /\ Len(Cons(r, pending)) = Len(pending) + 1
          /\ Cons(r, pending)[1] = r
          /\ \A k \in 2..(Len(pending) + 1) : Cons(r, pending)[k] = pending[k - 1]
      BY ConsElements DEF TypeOK
    <3>2. QED BY <3>1, <2>1, <1>1
  <2>4. DOMAIN t = 1..(n + 1)
    BY <1>1, <2>3, LenProperties
  <2>5. SUFFICES ASSUME NEW k \in 1..(n + 1), NEW l \in 1..(n + 1), k < l
                 PROVE  MayPrecede(t[k], t[l])'
    BY <2>2, <2>4 DEF QueueOrder, MayPrecede
  <2>6. PICK y \in 1..n : t[l] = pending[y] /\ y = l - 1
    BY <1>1, <2>3, <2>5
  <2>7. CASE k = 1
    BY <1>3, <1>5, <2>3, <2>6, <2>7 DEF MayPrecede
  <2>8. CASE k # 1
    <3>1. PICK x \in 1..n : t[k] = pending[x] /\ x = k - 1
      BY <1>1, <2>3, <2>8
    <3>2. x < y
      BY <2>5, <2>6, <3>1
    <3>3. QED BY <1>3, <1>4, <2>6, <3>1, <3>2 DEF MayPrecede
  <2>9. QED BY <2>7, <2>8
<1>6. CASE r \notin High
  <2>1. PICK t : t = Append(pending, r)
    OBVIOUS
  <2>2. pending' = t
    BY <1>6, <2>1 DEF Enqueued
  <2>3. /\ t \in Seq(Requests)
        /\ Len(t) = n + 1
        /\ \A k \in 1..n : t[k] = pending[k]
        /\ t[n + 1] = r
    BY <1>1, <2>1, AppendProperties DEF TypeOK
  <2>4. DOMAIN t = 1..(n + 1)
    BY <1>1, <2>3, LenProperties
  <2>5. SUFFICES ASSUME NEW k \in 1..(n + 1), NEW l \in 1..(n + 1), k < l
                 PROVE  MayPrecede(t[k], t[l])'
    BY <2>2, <2>4 DEF QueueOrder, MayPrecede
  <2>6. k \in 1..n /\ t[k] = pending[k]
    BY <1>1, <2>3, <2>5
  <2>7. CASE l = n + 1
    BY <1>3, <1>6, <2>3, <2>6, <2>7 DEF MayPrecede
  <2>8. CASE l # n + 1
    <3>1. l \in 1..n /\ t[l] = pending[l]
      BY <1>1, <2>3, <2>8
    <3>2. QED BY <1>3, <1>4, <2>5, <2>6, <3>1 DEF MayPrecede
  <2>9. QED BY <2>7, <2>8
<1>7. QED BY <1>5, <1>6

\* No step disturbs the order.
LEMMA QueueOrderStep ==
    ASSUME TypeOK, OnePlace, AbortedStatus, ArrivalsPast, QueueOrder, [Next]_vars
    PROVE  QueueOrder'
<1>1. ASSUME NEW r \in Requests, AddRequest(r)
      PROVE  QueueOrder'
  <2>1. ~InPending(r)
    BY <1>1 DEF AddRequest, OnePlace, AbortedStatus
  <2>2. QED BY <1>1, <2>1, OrderAdded, Zenon DEF AddRequest
<1>2. ASSUME NEW i \in DOMAIN pending, AbortPending(i) \/ ForceAdd(i)
      PROVE  QueueOrder'
  BY <1>2, OrderRemoved, Zenon DEF AbortPending, ForceAdd, clockVars
<1>3. CASE AdmitHead
  BY <1>3, OrderPopped, Zenon
  DEF AdmitHead, HeadAdmitted, HeadConsidered, OnePlace, clockVars
<1>4. CASE UNCHANGED <<pending, arrival>>
  BY <1>4 DEF QueueOrder
<1>5. \/ \E r \in Requests : AddRequest(r)
      \/ \E i \in DOMAIN pending : AbortPending(i) \/ ForceAdd(i)
      \/ AdmitHead
      \/ UNCHANGED <<pending, arrival>>
  BY StepKinds, Zenon
  DEF Quiet, AbortActive, AbortPreempted, Reap, SwapInHead, PreemptOne, BeginPrefill,
      EndPrefill, PrefillError, EmitToken, DecodeError, AllocateFor, queueVars, clockVars
<1>6. QED
  BY <1>1, <1>2, <1>3, <1>4, <1>5, Zenon

-----------------------------------------------------------------------------
(* Callbacks. *)

\* A callback is registered with the request and leaves with its reaping.
LEMMA CallbackStep ==
    ASSUME TypeOK, OnePlace, ThreadOwns, AbortedStatus, CallbackExactlyOnce, [Next]_vars
    PROVE  CallbackExactlyOnce'
<1> USE DEF CallbackExactlyOnce, SetStatus
<1>1. ASSUME NEW r \in Requests, AddRequest(r)
      PROVE  CallbackExactlyOnce'
  <2>1. r \notin completed
    BY <1>1 DEF AddRequest, OnePlace, IsFinished, Finished, AbortedStatus
  <2>2. QED BY <1>1, <2>1 DEF AddRequest, TypeOK
<1>2. ASSUME NEW r \in Requests, AbortActive(r)
      PROVE  CallbackExactlyOnce'
  <2>1. status[r] # "NEW"
    BY <1>2 DEF AbortActive, OnePlace, Finished
  <2>2. QED BY <1>2, <2>1 DEF AbortActive, TypeOK
<1>3. ASSUME NEW i \in DOMAIN pending, AbortPending(i)
      PROVE  CallbackExactlyOnce'
  <2>1. pending[i] \in Requests /\ status[pending[i]] # "NEW"
    BY <1>3, PendingRemoved DEF AbortPending, OnePlace
  <2>2. QED BY <1>3, <2>1 DEF AbortPending, TypeOK
<1>4. ASSUME NEW i \in DOMAIN preempted, AbortPreempted(i)
      PROVE  CallbackExactlyOnce'
  <2>1. preempted[i] \in Requests /\ status[preempted[i]] # "NEW"
    BY <1>4, PreemptedRemoved DEF AbortPreempted, OnePlace
  <2>2. QED BY <1>4, <2>1 DEF AbortPreempted, TypeOK
<1>5. ASSUME NEW r \in Requests, Reap(r)
      PROVE  CallbackExactlyOnce'
  <2>1. r \in callbacks
    BY <1>5 DEF Reap, OnePlace, IsFinished, Finished
  <2>2. QED BY <1>5, <2>1 DEF Reap, requestVars, TypeOK
<1>6. CASE SwapInHead
  <2>1. Head(preempted) \in Requests /\ status[Head(preempted)] # "NEW"
    BY <1>6, PreemptedPopped DEF SwapInHead, HeadComesBack, OnePlace
  <2>2. QED BY <1>6, <2>1 DEF SwapInHead, TypeOK, doneVars
<1>7. CASE AdmitHead
  <2>1. Head(pending) \in Requests /\ status[Head(pending)] # "NEW"
    BY <1>7, PendingPopped DEF AdmitHead, HeadAdmitted, HeadConsidered, OnePlace
  <2>2. QED BY <1>7, <2>1 DEF AdmitHead, TypeOK, doneVars
<1>8. ASSUME NEW r \in Requests, PreemptOne(r)
      PROVE  CallbackExactlyOnce'
  <2>1. status[r] # "NEW"
    BY <1>8 DEF PreemptOne, Victim, Candidates, OnePlace, Finished
  <2>2. QED BY <1>8, <2>1 DEF PreemptOne, TypeOK, doneVars
<1>9. ASSUME NEW i \in DOMAIN pending, ForceAdd(i)
      PROVE  CallbackExactlyOnce'
  <2>1. pending[i] \in Requests /\ status[pending[i]] # "NEW"
    BY <1>9, PendingRemoved DEF ForceAdd, OnePlace
  <2>2. QED BY <1>9, <2>1 DEF ForceAdd, TypeOK, doneVars
<1>10. \A r \in active \cup aborted : status[r] # "NEW"
  BY DEF OnePlace, AbortedStatus, Finished, TypeOK
<1>11. ASSUME NEW r \in Requests, EndPrefill(r)
       PROVE  CallbackExactlyOnce'
  <2>1. status[r] # "NEW"
    BY <1>10, <1>11 DEF EndPrefill, ThreadOwns
  <2>2. PICK s \in {"COMPLETE", "GENERATING"} : SetStatus(r, s)
    BY <1>11 DEF EndPrefill, StatusAfterToken
  <2>3. QED BY <1>11, <2>1, <2>2 DEF EndPrefill, TypeOK, doneVars
<1>12. ASSUME NEW r \in Requests, BeginPrefill(r) \/ PrefillError(r)
       PROVE  CallbackExactlyOnce'
  <2>1. status[r] # "NEW"
    BY <1>10, <1>12 DEF BeginPrefill, PrefillError, ThreadOwns
  <2>2. QED BY <1>12, <2>1 DEF BeginPrefill, PrefillError, TypeOK, doneVars
<1>13. ASSUME NEW r \in Requests, EmitToken(r)
       PROVE  CallbackExactlyOnce'
  <2>1. status[r] # "NEW"
    BY <1>10, <1>13 DEF EmitToken, ThreadOwns
  <2>2. UNCHANGED status \/ SetStatus(r, "COMPLETE")
    BY <1>13 DEF EmitToken, StatusAfterToken
  <2>3. QED BY <1>13, <2>1, <2>2 DEF EmitToken, TypeOK, doneVars
<1>14. CASE \E r \in Requests : DecodeError(r)
  <2>1. \A r \in pass : status[r] # "NEW"
    BY <1>10 DEF ThreadOwns
  <2>2. QED BY <1>14, <2>1 DEF DecodeError, TypeOK, doneVars
<1>15. ASSUME NEW r \in Requests, NEW k \in 1..NumBlocks, AllocateFor(r, k)
       PROVE  CallbackExactlyOnce'
  BY <1>15 DEF AllocateFor, requestVars, doneVars
<1>16. CASE Quiet
  BY <1>16 DEF Quiet, requestVars, doneVars
<1>17. QED
  BY StepKinds, <1>1, <1>2, <1>3, <1>4, <1>5, <1>6, <1>7, <1>8, <1>9, <1>11,
     <1>12, <1>13, <1>14, <1>15, <1>16, Zenon

-----------------------------------------------------------------------------
(* Cache blocks. *)

\* Blocks and swapped copies follow the request from container to container.
LEMMA BlocksStep ==
    ASSUME TypeOK, OnePlace, ThreadOwns, AbortedStatus, BlocksHaveOwner, [Next]_vars
    PROVE  BlocksHaveOwner'
<1> USE DEF BlocksHaveOwner, InPreempted, PoolTypeOK
<1>1. ASSUME NEW r \in Requests, AddRequest(r)
      PROVE  BlocksHaveOwner'
  BY <1>1 DEF AddRequest, poolVars
<1>2. ASSUME NEW r \in Requests, AbortActive(r)
      PROVE  BlocksHaveOwner'
  BY <1>2 DEF AbortActive, PoolFree, TypeOK
<1>3. ASSUME NEW i \in DOMAIN pending, AbortPending(i)
      PROVE  BlocksHaveOwner'
  BY <1>3 DEF AbortPending, poolVars
<1>4. ASSUME NEW i \in DOMAIN preempted, AbortPreempted(i)
      PROVE  BlocksHaveOwner'
  <2>1. PICK r \in Requests :
           r = preempted[i] /\ Range(preempted') = Range(preempted) \ {r}
    BY <1>4, PreemptedRemoved, Zenon DEF AbortPreempted, OnePlace
  <2>2. QED BY <1>4, <2>1 DEF AbortPreempted, PoolFree, TypeOK
<1>5. ASSUME NEW r \in Requests, Reap(r)
      PROVE  BlocksHaveOwner'
  BY <1>5 DEF Reap, PoolFree, TypeOK
<1>6. CASE SwapInHead
  <2>1. PICK r \in Requests :
           r = Head(preempted) /\ Range(preempted') = Range(preempted) \ {r}
    BY <1>6, PreemptedPopped, Zenon DEF SwapInHead, HeadComesBack, OnePlace
  <2>2. /\ active' = active \cup {r} /\ aborted' = aborted
        /\ held' = [held EXCEPT ![r] = swapped[r]]
        /\ swapped' = [swapped EXCEPT ![r] = 0]
    BY <1>6, <2>1 DEF SwapInHead, PoolSwapIn, doneVars
  <2>3. ASSUME NEW q \in Requests, held'[q] > 0
        PROVE  q \in active' \cup aborted'
    BY <2>2, <2>3 DEF TypeOK
  <2>4. ASSUME NEW q \in Requests, swapped'[q] > 0
        PROVE  q \in Range(preempted')
    BY <2>1, <2>2, <2>4 DEF TypeOK
  <2>5. QED BY <2>3, <2>4
<1>7. CASE AdmitHead
  BY <1>7 DEF AdmitHead, poolVars, doneVars
<1>8. ASSUME NEW r \in Requests, PreemptOne(r)
      PROVE  BlocksHaveOwner'
  <2>1. Range(preempted') = Range(preempted) \cup {r}
    BY <1>8, AppendRange DEF PreemptOne, TypeOK
  <2>2. PoolSwapOut(r) /\ active' = active \ {r} /\ UNCHANGED aborted
    BY <1>8 DEF PreemptOne, doneVars
  <2>3. CASE held[r] = 0
    BY <2>1, <2>2, <2>3 DEF PoolSwapOut, poolVars, TypeOK
  <2>4. CASE held[r] # 0
    BY <2>1, <2>2, <2>4 DEF PoolSwapOut, TypeOK
  <2>5. QED BY <2>3, <2>4
<1>9. ASSUME NEW i \in DOMAIN pending, ForceAdd(i)
      PROVE  BlocksHaveOwner'
  BY <1>9 DEF ForceAdd, poolVars, doneVars
<1>10. ASSUME NEW r \in Requests,
              BeginPrefill(r) \/ EndPrefill(r) \/ PrefillError(r) \/ EmitToken(r)
       PROVE  BlocksHaveOwner'
  BY <1>10
  DEF BeginPrefill, EndPrefill, PrefillError, EmitToken, poolVars, doneVars, queueVars
<1>11. CASE \E r \in Requests : DecodeError(r)
  BY <1>11 DEF DecodeError, poolVars, doneVars, queueVars
<1>12. ASSUME NEW r \in Requests, NEW k \in 1..NumBlocks, AllocateFor(r, k)
       PROVE  BlocksHaveOwner'
  <2>1. r \in active \cup aborted
    BY <1>12 DEF AllocateFor, ThreadOwns
  <2>2. QED BY <1>12, <2>1 DEF AllocateFor, PoolAllocate, queueVars, doneVars, TypeOK
<1>13. CASE Quiet
  BY <1>13 DEF Quiet, poolVars, doneVars, queueVars
<1>14. QED
  BY StepKinds, <1>1, <1>2, <1>3, <1>4, <1>5, <1>6, <1>7, <1>8, <1>9, <1>10, <1>11,
     <1>12, <1>13, Zenon

-----------------------------------------------------------------------------
(* Tokens. *)

\* A quiet step hands only unfinished requests to a forward pass.
LEMMA ThreadTakes ==
    ASSUME TypeOK, [Next]_vars, Quiet, NEW r \in Requests,
           r \in entering' \cup prefilling' \cup decoding'
    PROVE  r \in entering \cup prefilling \cup decoding \/ ~IsFinished(r)
<1> USE DEF threadVars
<1>1. CASE UNCHANGED <<entering, prefilling, decoding>>
  BY <1>1
<1>2. ASSUME NEW q \in Requests, CallPrefill(q) \/ BeginPrefill(q)
      PROVE  r \in entering \cup prefilling \cup decoding \/ ~IsFinished(r)
  BY <1>2 DEF CallPrefill, BeginPrefill, IsFinished, Finished
<1>3. ASSUME NEW e \in Engines, BeginDecode(e)
      PROVE  r \in entering \cup prefilling \cup decoding \/ ~IsFinished(r)
  BY <1>3 DEF BeginDecode
<1>4. ASSUME NEW q \in Requests, EndPrefill(q) \/ PrefillError(q) \/ EmitToken(q)
      PROVE  r \in entering \cup prefilling \cup decoding
  BY <1>4 DEF EndPrefill, PrefillError, EmitToken
<1>5. ASSUME \E q \in Requests : DecodeError(q)
      PROVE  r \in entering \cup prefilling \cup decoding
  BY <1>5 DEF DecodeError
<1>6. \/ UNCHANGED <<entering, prefilling, decoding>>
      \/ \E q \in Requests :
            \/ CallPrefill(q) \/ BeginPrefill(q) \/ EndPrefill(q)
            \/ PrefillError(q) \/ EmitToken(q)
      \/ \E e \in Engines : BeginDecode(e)
      \/ \E q \in Requests : DecodeError(q)
  BY Zenon DEF Next, Abort, LoopStep, ThreadStep, AddRequest, Tick, AbortActive,
     AbortPending, AbortPreempted, StartStep, Reap, ReapDone, SwapInHead, SwapInDone,
     AdmitHead, TryPreempt, PreemptOne, PreemptExhausted, AdmitDone, ForceAdd,
     ForceSkip, ReturnBatch, SkipFinished, Collect, EndInfer, AllocateFor, vars
<1>7. QED
  BY <1>1, <1>2, <1>3, <1>4, <1>5, <1>6, Zenon

\* A request goes on only if it has a token left.
LEMMA AfterToken ==
    ASSUME TypeOK, NEW r \in Requests, NEW s \in StatusAfterToken(r), s # "COMPLETE"
    PROVE  generated[r] + 1 < MaxNew[r]
<1>1. PICK g \in Nat : g = generated[r]
  BY DEF TypeOK
<1>2. PICK m \in Nat : m = MaxNew[r]
  BY SchedulerAssumption
<1>3. ~(generated[r] + 1 >= MaxNew[r])
  BY Zenon DEF StatusAfterToken
<1>4. QED
  BY <1>1, <1>2, <1>3

\* No step takes a request past max_new_tokens, or lets a request go on that
\* has reached it.
LEMMA TokenStep ==
    ASSUME TypeOK, OnePlace, ThreadOwns, Reaped, TokenLimit, TokensLeft, [Next]_vars
    PROVE  TokenLimit' /\ TokensLeft'
<1> DEFINE Goal == TokenLimit' /\ TokensLeft'
<1> SUFFICES Goal
  OBVIOUS
<1> USE DEF TokenLimit, TokensLeft, IsFinished, Finished, SetStatus
<1>1. \A r \in Requests : generated[r] \in Nat /\ MaxNew[r] \in Nat
  BY SchedulerAssumption DEF TypeOK
<1>2. ASSUME NEW r \in Requests, AddRequest(r)
      PROVE  Goal
  BY <1>2 DEF AddRequest, threadVars, TypeOK
<1>3. ASSUME NEW r \in Requests, AbortActive(r)
      PROVE  Goal
  BY <1>3 DEF AbortActive, threadVars, TypeOK
<1>4. ASSUME NEW i \in DOMAIN pending, AbortPending(i)
      PROVE  Goal
  BY <1>4 DEF AbortPending, threadVars, TypeOK
<1>5. ASSUME NEW i \in DOMAIN preempted, AbortPreempted(i)
      PROVE  Goal
  BY <1>5 DEF AbortPreempted, threadVars, TypeOK
<1>6. ASSUME NEW r \in Requests, Reap(r)
      PROVE  Goal
  BY <1>6 DEF Reap, requestVars, threadVars
<1>7. CASE SwapInHead
  <2>1. PICK r \in Requests : r = Head(preempted) /\ status[r] \notin Finished
    BY <1>7, PreemptedPopped DEF SwapInHead, HeadComesBack, OnePlace
  <2>2. QED BY <1>7, <2>1 DEF SwapInHead, threadVars, TypeOK
<1>8. CASE AdmitHead
  <2>1. PICK r \in Requests : r = Head(pending) /\ status[r] \notin Finished
    BY <1>8, PendingPopped DEF AdmitHead, HeadAdmitted, HeadConsidered, OnePlace
  <2>2. QED BY <1>8, <2>1 DEF AdmitHead, threadVars, TypeOK
<1>9. ASSUME NEW r \in Requests, PreemptOne(r)
      PROVE  Goal
  <2>1. status[r] \notin Finished
    BY <1>9 DEF PreemptOne, Victim, Candidates, Reaped
  <2>2. QED BY <1>9, <2>1 DEF PreemptOne, threadVars, TypeOK
<1>10. ASSUME NEW i \in DOMAIN pending, ForceAdd(i)
       PROVE  Goal
  <2>1. PICK r \in Requests : r = pending[i] /\ status[r] \notin Finished
    BY <1>10, PendingRemoved DEF ForceAdd, OnePlace
  <2>2. QED BY <1>10, <2>1 DEF ForceAdd, threadVars, TypeOK
<1>11. ASSUME NEW r \in Requests, EndPrefill(r)
       PROVE  Goal
  <2>1. /\ entering' = {} /\ prefilling' = {} /\ decoding' = {}
        /\ generated[r] < MaxNew[r]
    BY <1>11 DEF EndPrefill, ThreadOwns, BetweenRequests
  <2>2. generated' = [generated EXCEPT ![r] = @ + 1]
    BY <1>11 DEF EndPrefill
  <2>3. PICK s : SetStatus(r, s) /\ (s # "COMPLETE" => generated[r] + 1 < MaxNew[r])
    <3>1. PICK s \in StatusAfterToken(r) : SetStatus(r, s)
      BY <1>11 DEF EndPrefill
    <3>2. s # "COMPLETE" => generated[r] + 1 < MaxNew[r]
      BY AfterToken
    <3>3. QED BY <3>1, <3>2, Zenon
  <2>4. TokenLimit'
    BY <1>1, <2>1, <2>2 DEF TypeOK
  <2>5. TokensLeft'
    BY <1>1, <2>1, <2>2, <2>3 DEF TypeOK
  <2>6. QED BY <2>4, <2>5
<1>12. ASSUME NEW r \in Requests, BeginPrefill(r) \/ PrefillError(r)
       PROVE  Goal
  BY <1>12 DEF BeginPrefill, PrefillError, TypeOK
<1>13. ASSUME NEW r \in Requests, EmitToken(r)
       PROVE  Goal
  <2>1. /\ entering = {} /\ prefilling = {} /\ decoding' = decoding \ {r}
        /\ generated[r] < MaxNew[r]
    BY <1>13 DEF EmitToken, ThreadOwns, BetweenRequests
  <2>2. generated' = [generated EXCEPT ![r] = @ + 1] /\ UNCHANGED <<entering, prefilling>>
    BY <1>13 DEF EmitToken
  <2>3. \/ SetStatus(r, "COMPLETE")
        \/ UNCHANGED status /\ generated[r] + 1 < MaxNew[r]
    <3>1. PICK s \in StatusAfterToken(r) :
             status' = IF s = "COMPLETE" THEN [status EXCEPT ![r] = s] ELSE status
      BY <1>13 DEF EmitToken
    <3>2. s # "COMPLETE" => generated[r] + 1 < MaxNew[r]
      BY AfterToken
    <3>3. QED BY <3>1, <3>2, Zenon DEF SetStatus
  <2>4. TokenLimit'
    BY <1>1, <2>1, <2>2 DEF TypeOK
  <2>5. \A q \in Requests : ~IsFinished(q)' => generated'[q] < MaxNew[q]
    BY <1>1, <2>1, <2>2, <2>3 DEF TypeOK
  <2>6. \A q \in entering' \cup prefilling' \cup decoding' : generated'[q] < MaxNew[q]
    BY <1>1, <2>1, <2>2 DEF TypeOK
  <2>7. QED BY <2>4, <2>5, <2>6
<1>14. ASSUME NEW r \in Requests, DecodeError(r)
       PROVE  Goal
  <2>1. entering = {} /\ prefilling = {} /\ decoding \subseteq pass
    BY <1>14 DEF DecodeError, ThreadOwns, BetweenRequests
  <2>2. /\ generated[r] < MaxNew[r] /\ generated[r] \in Nat /\ MaxNew[r] \in Nat
        /\ IsFinished(r)'
    BY <1>1, <1>14, <2>1 DEF DecodeError, TypeOK
  <2>3. \A q \in Requests : ~IsFinished(q)' => ~IsFinished(q)
    BY <1>14 DEF DecodeError, TypeOK
  <2>4. \A q \in Requests \ {r} : generated'[q] = generated[q]
    BY <1>14 DEF DecodeError, TypeOK
  <2>5. generated'[r] <= MaxNew[r]
    BY <1>14, <2>2 DEF DecodeError, TypeOK
  <2>6. UNCHANGED <<entering, prefilling>> /\ decoding' = {}
    BY <1>14 DEF DecodeError
  <2>7. TokenLimit' /\ TokensLeft'
    BY <2>1, <2>2, <2>3, <2>4, <2>5, <2>6
  <2>8. QED BY <2>7
<1>15. ASSUME NEW r \in Requests, NEW k \in 1..NumBlocks, AllocateFor(r, k)
       PROVE  Goal
  BY <1>15 DEF AllocateFor, requestVars, threadVars
<1>16. CASE Quiet
  <2>1. entering' \cup prefilling' \cup decoding' \subseteq Requests
    BY TypeStep DEF OnePlace, TypeOK
  <2>2. \A r \in entering' \cup prefilling' \cup decoding' : generated[r] < MaxNew[r]
    BY <1>16, <2>1, ThreadTakes
  <2>3. QED BY <1>16, <2>2 DEF Quiet, requestVars
<1> HIDE DEF Goal, TokenLimit, TokensLeft, IsFinished, Finished, SetStatus
<1>17. QED
  BY StepKinds, <1>2, <1>3, <1>4, <1>5, <1>6, <1>7, <1>8, <1>9, <1>10, <1>11, <1>12,
     <1>13, <1>14, <1>15, <1>16, Zenon

-----------------------------------------------------------------------------
(* The theorems. *)

\* The invariant holds initially.
LEMMA InvInit == Init => IInv
<1> SUFFICES ASSUME Init PROVE IInv
  OBVIOUS
<1>1. TypeOK
  BY TypeInit
<1>2. pending = <<>> /\ preempted = <<>>
  BY DEF Init
<1>3. DOMAIN pending = {} /\ DOMAIN preempted = {}
  BY <1>2
<1>4. Range(pending) = {} /\ Range(preempted) = {}
  BY <1>3 DEF Range
<1>5. IsInjective(pending) /\ IsInjective(preempted)
  BY <1>3 DEF IsInjective
<1>6. OnePlace
  BY <1>4, <1>5 DEF Init, OnePlace, InPending, InPreempted, IsFinished, Finished
<1>7. ThreadOwns /\ Reaped /\ AbortedStatus /\ LateTimedOut
  BY DEF Init, ThreadOwns, ThreadDone, BetweenRequests, Reaped, AbortedStatus, LateTimedOut
<1>8. CallbackExactlyOnce
  BY DEF Init, CallbackExactlyOnce
<1>9. TokenLimit /\ TokensLeft /\ ArrivalsPast
  BY SchedulerAssumption DEF Init, TokenLimit, TokensLeft, ArrivalsPast
<1>10. QueueOrder
  BY <1>3 DEF QueueOrder
<1>11. BlocksHaveOwner
  <2>1. \A r \in Requests : ~(held[r] > 0) /\ ~(swapped[r] > 0)
    <3>1. \A r \in Requests : held[r] = 0 /\ swapped[r] = 0
      BY DEF Init, PoolInit
    <3>2. ~(0 > 0)
      OBVIOUS
    <3>3. QED BY <3>1, <3>2, Zenon
  <2>2. QED BY <2>1, Zenon DEF BlocksHaveOwner
<1>12. QED
  BY <1>1, <1>6, <1>7, <1>8, <1>9, <1>10, <1>11 DEF IInv

\* The invariant is inductive.
LEMMA InvStep == IInv /\ [Next]_vars => IInv'
<1> SUFFICES ASSUME IInv, [Next]_vars PROVE IInv'
  OBVIOUS
<1>1. /\ TypeOK /\ OnePlace /\ ThreadOwns /\ Reaped /\ AbortedStatus
      /\ CallbackExactlyOnce /\ TokenLimit /\ TokensLeft /\ LateTimedOut
      /\ ArrivalsPast /\ QueueOrder /\ BlocksHaveOwner
  BY DEF IInv
<1>2. TypeOK'
  BY <1>1, TypeStep DEF OnePlace
<1>3. OnePlace' /\ ThreadOwns' /\ Reaped' /\ AbortedStatus'
  BY <1>1, OnePlaceStep, ThreadOwnsStep, ReapedStep, AbortedStep
<1>4. CallbackExactlyOnce' /\ TokenLimit' /\ TokensLeft'
  BY <1>1, CallbackStep, TokenStep
<1>5. LateTimedOut' /\ ArrivalsPast' /\ QueueOrder' /\ BlocksHaveOwner'
  BY <1>1, LateStep, ArrivalsStep, QueueOrderStep, BlocksStep
<1>6. QED
  BY <1>2, <1>3, <1>4, <1>5 DEF IInv

\* Every reachable state of the scheduler satisfies the invariant.
THEOREM Invariance == Spec => []IInv
<1>1. Init => IInv
  BY InvInit
<1>2. IInv /\ [Next]_vars => IInv'
  BY InvStep
<1>3. QED
  BY <1>1, <1>2, PTL DEF Spec

\* The fields of the scheduler, the thread and the requests keep their types.
THEOREM TypeCorrect == Spec => []TypeOK
<1>1. IInv => TypeOK
  BY DEF IInv
<1>2. QED BY <1>1, Invariance, PTL

\* No request is lost or duplicated: every request is in the container its
\* status names, an aborted one in none, whatever the thread writes meanwhile.
THEOREM NothingLost == Spec => []OnePlace
<1>1. IInv => OnePlace
  BY DEF IInv
<1>2. QED BY <1>1, Invariance, PTL

\* The pending queue stays in priority and arrival order.
THEOREM OrderKept == Spec => []QueueOrder
<1>1. IInv => QueueOrder
  BY DEF IInv
<1>2. QED BY <1>1, Invariance, PTL

\* Every submitted request has its callback until it is reaped, and is notified
\* exactly when it is.
THEOREM NotifiedOnce == Spec => []CallbackExactlyOnce
<1>1. IInv => CallbackExactlyOnce
  BY DEF IInv
<1>2. QED BY <1>1, Invariance, PTL

\* No request gets more than max_new_tokens tokens.
THEOREM TokensBounded == Spec => []TokenLimit
<1>1. IInv => TokenLimit
  BY DEF IInv
<1>2. QED BY <1>1, Invariance, PTL

\* A request that is being aborted holds nothing afterwards: a waiting one held
\* nothing before, and the others give their blocks back.
LEMMA AbortReturns ==
    ASSUME IInv, [Next]_vars, NEW r \in aborted' \ aborted
    PROVE  r \in Requests /\ held'[r] = 0
<1>1. TypeOK /\ TypeOK' /\ OnePlace /\ BlocksHaveOwner /\ PoolTypeOK
  BY InvStep DEF IInv, TypeOK
<1>2. r \in Requests
  BY <1>1 DEF TypeOK
<1>3. ASSUME NEW q \in Requests, AbortActive(q)
      PROVE  held'[r] = 0
  <2>1. r = q
    BY <1>3 DEF AbortActive
  <2>2. QED BY <1>1, <1>2, <1>3, <2>1 DEF AbortActive, PoolFree, PoolTypeOK
<1>4. ASSUME NEW i \in DOMAIN pending, AbortPending(i)
      PROVE  held'[r] = 0
  <2>1. r = pending[i] /\ held' = held
    BY <1>4 DEF AbortPending, poolVars
  <2>2. InPending(r)
    BY <2>1 DEF InPending, Range
  <2>3. status[r] = "PENDING"
    BY <1>1, <1>2, <2>2 DEF OnePlace
  <2>4. r \notin active
    BY <1>1, <1>2, <2>3 DEF OnePlace, Finished
  <2>5. ~(held[r] > 0) /\ held[r] \in Nat
    BY <1>1, <1>2, <2>4 DEF BlocksHaveOwner, PoolTypeOK
  <2>6. QED BY <2>1, <2>5
<1>5. ASSUME NEW i \in DOMAIN preempted, AbortPreempted(i)
      PROVE  held'[r] = 0
  <2>1. r = preempted[i]
    BY <1>5 DEF AbortPreempted
  <2>2. QED BY <1>1, <1>2, <1>5, <2>1 DEF AbortPreempted, PoolFree, PoolTypeOK
<1>6. ASSUME UNCHANGED aborted
      PROVE  held'[r] = 0
  BY <1>6
<1>7. ASSUME NEW q \in Requests,
             AddRequest(q) \/ Reap(q) \/ PreemptOne(q)
               \/ BeginPrefill(q) \/ EndPrefill(q) \/ PrefillError(q) \/ EmitToken(q)
               \/ DecodeError(q)
      PROVE  held'[r] = 0
  BY <1>6, <1>7
  DEF AddRequest, Reap, PreemptOne, BeginPrefill, EndPrefill, PrefillError, EmitToken,
      DecodeError, doneVars
<1>8. ASSUME SwapInHead \/ AdmitHead \/ Quiet
      PROVE  held'[r] = 0
  BY <1>6, <1>8 DEF SwapInHead, AdmitHead, Quiet, doneVars
<1>9. ASSUME NEW i \in DOMAIN pending, ForceAdd(i)
      PROVE  held'[r] = 0
  BY <1>6, <1>9 DEF ForceAdd, doneVars
<1>10. ASSUME NEW q \in Requests, NEW k \in 1..NumBlocks, AllocateFor(q, k)
       PROVE  held'[r] = 0
  BY <1>6, <1>10 DEF AllocateFor, doneVars
<1>11. QED
  BY StepKinds, <1>2, <1>3, <1>4, <1>5, <1>7, <1>8, <1>9, <1>10, Zenon

\* Every way out of the batch and of the preempted queue gives the blocks and the
\* CPU copy back.
THEOREM BlocksReturned == Spec => BlocksComeBack
<1>1. ASSUME IInv, [Next]_vars
      PROVE  \A r \in Requests :
                /\ held'[r] > 0 => r \in active' \cup aborted
                /\ swapped'[r] > 0 => InPreempted(r)'
  <2>1. BlocksHaveOwner'
    BY <1>1, InvStep DEF IInv
  <2>2. TAKE r \in Requests
  <2>3. swapped'[r] > 0 => InPreempted(r)'
    BY <2>1 DEF BlocksHaveOwner
  <2>4. ASSUME held'[r] > 0
        PROVE  r \in active' \cup aborted
    <3>1. r \in active' \cup aborted'
      BY <2>1, <2>4 DEF BlocksHaveOwner
    <3>2. r \in aborted' \ aborted => held'[r] = 0
      BY <1>1, AbortReturns
    <3>3. QED BY <2>4, <3>1, <3>2
  <2>5. QED BY <2>3, <2>4
<1>2. QED BY <1>1, Invariance, PTL DEF Spec, BlocksComeBack

\* A reaped request is in no container and not in the thread's hands: no step
\* touches it.
LEMMA ReapedRests ==
    ASSUME IInv, [Next]_vars, NEW r \in completed
    PROVE  /\ r \in completed'
           /\ status'[r] = status[r]
           /\ generated'[r] = generated[r]
<1> USE DEF SetStatus
<1>1. TypeOK /\ OnePlace /\ ThreadOwns /\ AbortedStatus
  BY DEF IInv
<1>2. r \in Requests
  BY <1>1 DEF TypeOK
<1>3. /\ r \notin active \cup aborted
      /\ status[r] \in Finished
  BY <1>1, <1>2 DEF OnePlace, IsFinished
<1>4. ~InPending(r) /\ ~InPreempted(r) /\ status[r] # "NEW"
  BY <1>1, <1>2, <1>3 DEF OnePlace, Finished
<1>5. r \notin entering \cup prefilling \cup pass \cup decoding
  BY <1>1, <1>3 DEF ThreadOwns
<1>6. ASSUME NEW q \in Requests, AddRequest(q)
      PROVE  r \in completed' /\ status'[r] = status[r] /\ generated'[r] = generated[r]
  BY <1>1, <1>4, <1>6 DEF AddRequest, TypeOK
<1>7. ASSUME NEW q \in Requests,
             AbortActive(q) \/ Reap(q) \/ PreemptOne(q)
      PROVE  r \in completed' /\ status'[r] = status[r] /\ generated'[r] = generated[r]
  BY <1>1, <1>3, <1>7
  DEF AbortActive, Reap, PreemptOne, Victim, Candidates, TypeOK, requestVars, doneVars
<1>8. ASSUME NEW i \in DOMAIN pending, AbortPending(i) \/ ForceAdd(i)
      PROVE  r \in completed' /\ status'[r] = status[r] /\ generated'[r] = generated[r]
  <2>1. pending[i] # r
    BY <1>4, <1>8 DEF InPending, Range
  <2>2. QED BY <1>1, <1>8, <2>1 DEF AbortPending, ForceAdd, TypeOK, doneVars
<1>9. ASSUME NEW i \in DOMAIN preempted, AbortPreempted(i)
      PROVE  r \in completed' /\ status'[r] = status[r] /\ generated'[r] = generated[r]
  <2>1. preempted[i] # r
    BY <1>4 DEF InPreempted, Range
  <2>2. QED BY <1>1, <1>9, <2>1 DEF AbortPreempted, TypeOK
<1>10. ASSUME SwapInHead
       PROVE  r \in completed' /\ status'[r] = status[r] /\ generated'[r] = generated[r]
  <2>1. Head(preempted) # r
    BY <1>1, <1>4, <1>10, PreemptedPopped DEF SwapInHead, HeadComesBack, OnePlace
  <2>2. QED BY <1>1, <1>10, <2>1 DEF SwapInHead, TypeOK, doneVars
<1>11. ASSUME AdmitHead
       PROVE  r \in completed' /\ status'[r] = status[r] /\ generated'[r] = generated[r]
  <2>1. Head(pending) # r
    BY <1>1, <1>4, <1>11, PendingPopped
    DEF AdmitHead, HeadAdmitted, HeadConsidered, OnePlace
  <2>2. QED BY <1>1, <1>11, <2>1 DEF AdmitHead, TypeOK, doneVars
<1>12. ASSUME NEW q \in Requests,
              BeginPrefill(q) \/ EndPrefill(q) \/ PrefillError(q) \/ EmitToken(q)
       PROVE  r \in completed' /\ status'[r] = status[r] /\ generated'[r] = generated[r]
  <2>1. q # r
    BY <1>5, <1>12 DEF BeginPrefill, EndPrefill, PrefillError, EmitToken
  <2>2. QED BY <1>1, <1>12, <2>1
        DEF BeginPrefill, EndPrefill, PrefillError, EmitToken, TypeOK, doneVars
<1>13. ASSUME NEW q \in Requests, DecodeError(q)
       PROVE  r \in completed' /\ status'[r] = status[r] /\ generated'[r] = generated[r]
  <2>1. q # r /\ r \notin pass
    BY <1>5, <1>13 DEF DecodeError
  <2>2. QED BY <1>1, <1>13, <2>1 DEF DecodeError, TypeOK, doneVars
<1>14. ASSUME NEW q \in Requests, NEW k \in 1..NumBlocks, AllocateFor(q, k)
       PROVE  r \in completed' /\ status'[r] = status[r] /\ generated'[r] = generated[r]
  BY <1>14 DEF AllocateFor, requestVars, doneVars
<1>15. ASSUME Quiet
       PROVE  r \in completed' /\ status'[r] = status[r] /\ generated'[r] = generated[r]
  BY <1>15 DEF Quiet, requestVars, doneVars
<1> HIDE DEF SetStatus
<1>16. QED
  BY StepKinds, <1>6, <1>7, <1>8, <1>9, <1>10, <1>11, <1>12, <1>13, <1>14,
     <1>15, Zenon

\* What a client was told stays true: a reaped request is touched by no step.
THEOREM ReapedStays == Spec => ReapedIsFinal
<1>1. IInv /\ [Next]_vars =>
        [\A r \in completed : /\ r \in completed'
                              /\ status'[r] = status[r]
                              /\ generated'[r] = generated[r]]_vars
  BY ReapedRests
<1>2. QED
  BY <1>1, Invariance, PTL DEF Spec, ReapedIsFinal

\* Only a timed-out NORMAL request passes a waiting HIGH one.
THEOREM PriorityRespected == Spec => NoPriorityInversion
<1>1. ASSUME IInv, [Next]_vars, NEW r \in Requests \ High, NEW h \in High,
             status[r] = "PENDING", status'[r] = "PREFILL", status[h] = "PENDING"
      PROVE  TimedOut(r)
  <2> USE DEF SetStatus
  <2>1. TypeOK /\ OnePlace /\ AbortedStatus /\ QueueOrder /\ LateTimedOut /\ ThreadOwns
    BY <1>1 DEF IInv
  <2>2. h \in Requests /\ InPending(h)
    BY <1>1, <2>1, SchedulerAssumption DEF OnePlace, AbortedStatus
  <2>3. CASE AdmitHead
    <3>1. PICK n \in Nat : n = Len(pending) /\ DOMAIN pending = 1..n
      BY <2>1, LenProperties DEF TypeOK
    <3>2. r = pending[1] /\ n > 0
      <4>1. pending # <<>> /\ status' = [status EXCEPT ![Head(pending)] = "PREFILL"]
        BY <2>3 DEF AdmitHead, HeadAdmitted, HeadConsidered
      <4>2. r = Head(pending)
        BY <1>1, <2>1, <4>1 DEF TypeOK
      <4>3. n > 0
        BY <2>1, <3>1, <4>1, EmptySeq DEF TypeOK
      <4>4. QED BY <2>1, <4>1, <4>2, <4>3 DEF TypeOK
    <3>3. PICK j \in 1..n : h = pending[j]
      BY <2>2, <3>1 DEF InPending, Range
    <3>4. 1 \in 1..n /\ 1 < j
      BY <1>1, <3>2, <3>3
    <3>5. MayPrecede(pending[1], pending[j])
      BY <2>1, <3>1, <3>4, QueueOrderMeans
    <3>6. QED BY <1>1, <3>2, <3>3, <3>5 DEF MayPrecede
  <2>4. ASSUME NEW i \in DOMAIN pending, ForceAdd(i)
        PROVE  TimedOut(r)
    <3>1. r = pending[i]
      BY <1>1, <2>1, <2>4 DEF ForceAdd, TypeOK
    <3>2. QED BY <2>1, <2>4, <3>1 DEF ForceAdd, FirstLate, LateTimedOut
  <2>5. ASSUME NEW q \in Requests,
               \/ AddRequest(q) \/ AbortActive(q) \/ Reap(q) \/ PreemptOne(q)
               \/ EndPrefill(q) \/ PrefillError(q) \/ EmitToken(q)
        PROVE  FALSE
    BY <1>1, <2>1, <2>5
    DEF AddRequest, AbortActive, Reap, PreemptOne, EndPrefill, PrefillError, EmitToken,
        StatusAfterToken, TypeOK, requestVars
  <2>6. ASSUME NEW q \in Requests, BeginPrefill(q)
         PROVE  FALSE
    <3>1. q = r
      BY <1>1, <2>1, <2>6 DEF BeginPrefill, TypeOK
    <3>2. q \in active \cup aborted
      BY <2>1, <2>6 DEF BeginPrefill, ThreadOwns
    <3>3. QED BY <1>1, <2>1, <3>1, <3>2 DEF OnePlace, AbortedStatus, Finished
  <2>7. ASSUME NEW i, AbortPending(i) \/ AbortPreempted(i)
        PROVE  FALSE
    BY <1>1, <2>1, <2>7 DEF AbortPending, AbortPreempted, TypeOK
  <2>8. ASSUME SwapInHead \/ (\E q \in Requests : DecodeError(q)) \/ Quiet
        PROVE  FALSE
    BY <1>1, <2>1, <2>8 DEF SwapInHead, DecodeError, Quiet, TypeOK, requestVars
  <2>9. ASSUME NEW q, NEW k, AllocateFor(q, k)
        PROVE  FALSE
    BY <1>1, <2>9 DEF AllocateFor, requestVars
  <2> HIDE DEF SetStatus
  <2>10. QED
    BY StepKinds, <1>1, <2>3, <2>4, <2>5, <2>6, <2>7, <2>8, <2>9, Zenon
<1>2. IInv /\ [Next]_vars =>
        [\A r \in Requests \ High : \A h \in High :
           status[r] = "PENDING" /\ status'[r] = "PREFILL" /\ status[h] = "PENDING"
              => TimedOut(r)]_vars
  BY <1>1
<1>3. QED
  BY <1>2, Invariance, PTL DEF Spec, NoPriorityInversion

\* Only _try_preempt makes a request PREEMPTED.
LEMMA OnlyPreemptOnePreempts ==
    ASSUME IInv, [Next]_vars, NEW r \in Requests,
           status[r] # "PREEMPTED", status'[r] = "PREEMPTED"
    PROVE  PreemptOne(r)
<1> USE DEF SetStatus
<1>1. TypeOK
  BY DEF IInv
<1>2. ASSUME NEW q \in Requests, PreemptOne(q)
      PROVE  q = r
  BY <1>1, <1>2 DEF PreemptOne, TypeOK
<1>3. ASSUME NEW q \in Requests,
             \/ AddRequest(q) \/ AbortActive(q) \/ Reap(q)
             \/ BeginPrefill(q) \/ EndPrefill(q) \/ PrefillError(q) \/ EmitToken(q)
      PROVE  FALSE
  BY <1>1, <1>3
  DEF AddRequest, AbortActive, Reap, BeginPrefill, EndPrefill, PrefillError, EmitToken,
      StatusAfterToken, TypeOK, requestVars
<1>4. ASSUME NEW i, AbortPending(i) \/ AbortPreempted(i) \/ ForceAdd(i)
      PROVE  FALSE
  BY <1>1, <1>4 DEF AbortPending, AbortPreempted, ForceAdd, TypeOK
<1>5. ASSUME SwapInHead \/ AdmitHead \/ (\E q \in Requests : DecodeError(q)) \/ Quiet
      PROVE  FALSE
  BY <1>1, <1>5 DEF SwapInHead, AdmitHead, DecodeError, Quiet, TypeOK, requestVars
<1>6. ASSUME NEW q, NEW k, AllocateFor(q, k)
      PROVE  FALSE
  BY <1>6 DEF AllocateFor, requestVars
<1> HIDE DEF SetStatus
<1>7. QED
  BY StepKinds, <1>2, <1>3, <1>4, <1>5, <1>6, Zenon

\* A HIGH request is preempted only when no NORMAL one of the batch can be.
THEOREM PreemptionRespectsPriority == Spec => PreemptsLowest
<1>1. ASSUME IInv, IInv', [Next]_vars, NEW r \in active \cap High, InPreempted(r)',
             NEW q \in active' \ High
      PROVE  status[q] = "PREFILL"
  <2>1. TypeOK /\ OnePlace /\ OnePlace'
    BY <1>1 DEF IInv
  <2>2. r \in Requests /\ r \notin aborted /\ r \notin aborted'
    BY <1>1, <2>1 DEF TypeOK, OnePlace
  <2>3. status[r] # "PREEMPTED" /\ status'[r] = "PREEMPTED"
    BY <1>1, <2>1, <2>2 DEF OnePlace, Finished
  <2>4. PreemptOne(r)
    BY <1>1, <2>2, <2>3, OnlyPreemptOnePreempts
  <2>5. q \in active /\ q # r
    BY <1>1, <2>4 DEF PreemptOne
  <2>6. q \in Candidates => Precedes(r, q)
    BY <2>4, <2>5 DEF PreemptOne, Victim
  <2>7. ~Precedes(r, q)
    BY <1>1 DEF Precedes
  <2>8. QED BY <2>5, <2>6, <2>7 DEF Candidates
<1>2. IInv /\ IInv' /\ [Next]_vars =>
        [\A r \in active \cap High : InPreempted(r)' =>
           \A q \in active' \ High : status[q] = "PREFILL"]_vars
  BY <1>1
<1>3. QED
  BY <1>2, Invariance, PTL DEF Spec, PreemptsLowest

-----------------------------------------------------------------------------
(* The batch limit of the deployed server, where no code allocates blocks. *)

\* Without a worker that allocates there is nothing to swap, so Step 2, which
\* does not look at max_batch_size, never adds to the batch.
UntrackedBatch ==
    /\ \A r \in Requests : held[r] = 0 /\ swapped[r] = 0
    /\ IsFiniteSet(active)
    /\ Cardinality(active) <= MaxBatch

\* The batch limit is inductive for the deployed server.
LEMMA UntrackedStep ==
    ASSUME Tracked = {}, TypeOK, IsInjective(pending), IsInjective(preempted),
           UntrackedBatch, [Next]_vars
    PROVE  UntrackedBatch'
<1> DEFINE NoBlocks == \A r \in Requests : held[r] = 0 /\ swapped[r] = 0
           Capped(S) == IsFiniteSet(S) /\ Cardinality(S) <= MaxBatch
<1>1. NoBlocks /\ Capped(active) /\ MaxBatch \in Nat
  BY SchedulerAssumption DEF UntrackedBatch
<1>2. SUFFICES NoBlocks' /\ Capped(active')
  BY DEF UntrackedBatch
<1>3. \A r : Capped(active \ {r})
  <2>1. SUFFICES ASSUME NEW r PROVE Capped(active \ {r})
    OBVIOUS
  <2>2. /\ IsFiniteSet(active \ {r})
        /\ Cardinality(active \ {r}) =
              IF r \in active THEN Cardinality(active) - 1 ELSE Cardinality(active)
    BY <1>1, FS_RemoveElement
  <2>3. Cardinality(active) \in Nat
    BY <1>1, FS_CardinalityType
  <2>4. QED BY <1>1, <2>2, <2>3
<1>4. ASSUME BatchHasRoom, NEW r
      PROVE  Capped(active \cup {r})
  <2>1. /\ IsFiniteSet(active \cup {r})
        /\ Cardinality(active \cup {r}) =
              IF r \in active THEN Cardinality(active) ELSE Cardinality(active) + 1
    BY <1>1, FS_AddElement
  <2>2. Cardinality(active) \in Nat /\ Cardinality(active) < MaxBatch
    BY <1>1, <1>4, FS_CardinalityType DEF BatchHasRoom
  <2>3. QED BY <1>1, <2>1, <2>2
<1>5. UNCHANGED poolVars => NoBlocks'
  BY <1>1 DEF poolVars
<1>6. \A r \in Requests : PoolFree(r) => NoBlocks'
  BY <1>1 DEF PoolFree, TypeOK, PoolTypeOK
<1>7. \A r \in Requests : PoolSwapOut(r) => NoBlocks'
  BY <1>1, <1>5 DEF PoolSwapOut
<1>8. ASSUME NEW r \in Requests, AddRequest(r)
      PROVE  NoBlocks' /\ Capped(active')
  BY <1>1, <1>5, <1>8, Zenon DEF AddRequest
<1>9. ASSUME NEW r \in Requests, AbortActive(r) \/ Reap(r) \/ PreemptOne(r)
      PROVE  NoBlocks' /\ Capped(active')
  BY <1>3, <1>6, <1>7, <1>9, Zenon DEF AbortActive, Reap, PreemptOne
<1>10. ASSUME NEW i \in DOMAIN pending, AbortPending(i)
       PROVE  NoBlocks' /\ Capped(active')
  BY <1>1, <1>5, <1>10, Zenon DEF AbortPending
<1>11. ASSUME NEW i \in DOMAIN preempted, AbortPreempted(i)
       PROVE  NoBlocks' /\ Capped(active')
  BY <1>1, <1>6, <1>11, PreemptedRemoved, Zenon DEF AbortPreempted
<1>12. ASSUME SwapInHead
       PROVE  FALSE
  <2>1. PICK r \in Requests : CanSwapIn(r)
    BY <1>12, PreemptedPopped, Zenon DEF SwapInHead, HeadComesBack
  <2>2. QED BY <1>1, <2>1 DEF CanSwapIn
<1>13. ASSUME AdmitHead
       PROVE  NoBlocks' /\ Capped(active')
  BY <1>4, <1>5, <1>13, Zenon DEF AdmitHead, HeadAdmitted, HeadConsidered
<1>14. ASSUME NEW i \in DOMAIN pending, ForceAdd(i)
       PROVE  NoBlocks' /\ Capped(active')
  BY <1>4, <1>5, <1>14, Zenon DEF ForceAdd
<1>15. ASSUME NEW r \in Requests,
              BeginPrefill(r) \/ EndPrefill(r) \/ PrefillError(r) \/ EmitToken(r)
       PROVE  NoBlocks' /\ Capped(active')
  BY <1>1, <1>5, <1>15, Zenon DEF BeginPrefill, EndPrefill, PrefillError, EmitToken, queueVars
<1>16. ASSUME (\E q \in Requests : DecodeError(q)) \/ Quiet
       PROVE  NoBlocks' /\ Capped(active')
  BY <1>1, <1>5, <1>16, Zenon DEF DecodeError, Quiet, queueVars, poolVars
<1>17. ASSUME NEW r, NEW k, AllocateFor(r, k)
       PROVE  FALSE
  BY <1>17 DEF AllocateFor
<1> HIDE DEF NoBlocks, Capped
<1>18. QED
  BY StepKinds, <1>8, <1>9, <1>10, <1>11, <1>12, <1>13, <1>14, <1>15, <1>16, <1>17, Zenon

\* The batch never exceeds max_batch_size in the deployed server.
THEOREM BatchCapped ==
    ASSUME Tracked = {}
    PROVE  Spec => []BatchCap
<1>1. Init => UntrackedBatch
  <2>1. IsFiniteSet({}) /\ Cardinality({}) = 0
    BY FS_EmptySet
  <2>2. QED BY <2>1, SchedulerAssumption DEF Init, PoolInit, UntrackedBatch
<1>2. ASSUME IInv, UntrackedBatch, [Next]_vars
      PROVE  UntrackedBatch'
  BY <1>2, UntrackedStep DEF IInv, OnePlace
<1>3. UntrackedBatch => BatchCap
  BY DEF UntrackedBatch, BatchCap
<1>4. QED
  BY <1>1, <1>2, <1>3, Invariance, PTL DEF Spec

-----------------------------------------------------------------------------
(* Counting blocks.  Slots turns the sum of the counts into a cardinality,   *)
(* so that the library's facts about finite sets apply.                      *)

\* What the slots are.
LEMMA SlotIn ==
    \A count, S, x : x \in Slots(count, S) <=> \E r \in S : \E i \in 1..count[r] : x = <<r, i>>
<1>1. SUFFICES ASSUME NEW count, NEW S, NEW x
               PROVE  x \in Slots(count, S) <=> \E r \in S : \E i \in 1..count[r] : x = <<r, i>>
  OBVIOUS
<1>2. \A r : x \in {r} \X (1..count[r]) <=> \E i \in 1..count[r] : x = <<r, i>>
  OBVIOUS
<1>3. QED
  BY <1>2 DEF Slots

\* A request alone has as many slots as its count.
LEMMA ColumnCounts ==
    ASSUME NEW r, NEW n \in Nat
    PROVE  IsFiniteSet({r} \X (1..n)) /\ Cardinality({r} \X (1..n)) = n
<1> DEFINE f == [i \in 1..n |-> <<r, i>>]
<1>1. f \in Bijection(1..n, {r} \X (1..n))
  <2>1. f \in [1..n -> {r} \X (1..n)]
    OBVIOUS
  <2>2. \A i, j \in 1..n : f[i] = f[j] => i = j
    OBVIOUS
  <2>3. \A x \in {r} \X (1..n) : \E i \in 1..n : f[i] = x
    OBVIOUS
  <2> HIDE DEF f
  <2>4. QED BY <2>1, <2>2, <2>3 DEF Bijection, Injection, Surjection, IsInjective
<1>2. IsFiniteSet(1..n) /\ Cardinality(1..n) = n
  BY FS_Interval
<1>3. ExistsBijection(1..n, {r} \X (1..n))
  BY <1>1 DEF ExistsBijection
<1>4. QED
  BY <1>2, <1>3, FS_Bijection

\* One request more adds its count.
LEMMA SlotsAdd ==
    ASSUME NEW count, NEW S, NEW r, r \notin S, count[r] \in Nat,
           IsFiniteSet(Slots(count, S))
    PROVE  /\ IsFiniteSet(Slots(count, S \cup {r}))
           /\ Cardinality(Slots(count, S \cup {r})) = Cardinality(Slots(count, S)) + count[r]
<1>1. PICK Column : Column = {r} \X (1..count[r])
  OBVIOUS
<1>2. PICK Old : Old = Slots(count, S)
  OBVIOUS
<1>3. IsFiniteSet(Column) /\ Cardinality(Column) = count[r]
  BY <1>1, ColumnCounts
<1>4. Slots(count, S \cup {r}) = Old \cup Column
  BY <1>1, <1>2 DEF Slots
<1>5. Old \cap Column = {}
  BY <1>1, <1>2, SlotIn
<1>6. IsFiniteSet(Old)
  BY <1>2
<1>7. Cardinality(Old) \in Nat
  BY <1>6, FS_CardinalityType
<1>8. /\ IsFiniteSet(Old \cup Column)
      /\ Cardinality(Old \cup Column)
           = Cardinality(Old) + Cardinality(Column) - Cardinality(Old \cap Column)
  BY <1>3, <1>6, FS_Union
<1>9. Cardinality(Old \cap Column) = 0
  BY <1>5, FS_EmptySet
<1>10. Cardinality(Old \cup Column) = Cardinality(Old) + count[r]
  <2> PICK a \in Nat : a = Cardinality(Old)
    BY <1>7
  <2> QED BY <1>3, <1>8, <1>9
<1>11. QED
  BY <1>2, <1>4, <1>8, <1>10

\* Changing the count of one request changes the sum by the difference.
LEMMA SlotsChange ==
    ASSUME NEW count \in [Requests -> Nat], NEW r \in Requests, NEW n \in Nat,
           NEW next, next = [count EXCEPT ![r] = n],
           IsFiniteSet(Slots(count, Requests))
    PROVE  /\ IsFiniteSet(Slots(next, Requests))
           /\ Cardinality(Slots(next, Requests))
                = Cardinality(Slots(count, Requests)) - count[r] + n
           /\ count[r] <= Cardinality(Slots(count, Requests))
<1>1. PICK Others : Others = Requests \ {r}
  OBVIOUS
<1>2. Requests = Others \cup {r} /\ r \notin Others
  BY <1>1
<1>3. IsFiniteSet(Slots(count, Others))
  <2>1. Slots(count, Others) \subseteq Slots(count, Requests)
    BY <1>1, SlotIn
  <2>2. QED BY <2>1, FS_Subset
<1>4. Slots(next, Others) = Slots(count, Others)
  <2>1. \A q \in Others : next[q] = count[q]
    BY <1>1
  <2>2. QED BY <2>1 DEF Slots
<1>5. Cardinality(Slots(count, Others)) \in Nat
  BY <1>3, FS_CardinalityType
<1>6. count[r] \in Nat /\ next[r] = n
  OBVIOUS
<1>7. Cardinality(Slots(count, Requests)) = Cardinality(Slots(count, Others)) + count[r]
  BY <1>2, <1>3, <1>6, SlotsAdd
<1>8. /\ IsFiniteSet(Slots(next, Requests))
      /\ Cardinality(Slots(next, Requests)) = Cardinality(Slots(next, Others)) + n
  BY <1>2, <1>3, <1>4, <1>6, SlotsAdd
<1>9. QED
  BY <1>4, <1>5, <1>6, <1>7, <1>8

\* No blocks, no slots.
LEMMA SlotsNone ==
    ASSUME NEW count, NEW S, \A r \in S : count[r] = 0
    PROVE  IsFiniteSet(Slots(count, S)) /\ Cardinality(Slots(count, S)) = 0
<1>1. Slots(count, S) = {}
  BY SlotIn
<1>2. QED
  BY <1>1, FS_EmptySet

-----------------------------------------------------------------------------
(* Every block is free or held. *)

Conserved == IsFiniteSet(Slots(held, Requests)) /\ BlocksConserved

\* A pool operation that moves d blocks of r between its table and the free ones.
LEMMA BlocksMove ==
    ASSUME PoolTypeOK, Conserved, NEW r \in Requests, NEW n \in Nat,
           held' = [held EXCEPT ![r] = n], free' = free + held[r] - n
    PROVE  Conserved'
<1>1. PICK h, next : h = held /\ next = held'
  OBVIOUS
<1>2. h \in [Requests -> Nat] /\ next = [h EXCEPT ![r] = n] /\ IsFiniteSet(Slots(h, Requests))
  BY <1>1 DEF PoolTypeOK, Conserved
<1>3. /\ IsFiniteSet(Slots(next, Requests))
      /\ Cardinality(Slots(next, Requests)) = Cardinality(Slots(h, Requests)) - h[r] + n
  BY <1>2, SlotsChange
<1>4. PICK c \in Nat : c = Cardinality(Slots(h, Requests))
  BY <1>2, FS_CardinalityType
<1>5. free + c = NumBlocks /\ free \in Nat /\ h[r] \in Nat /\ free' = free + h[r] - n
  BY <1>1, <1>2, <1>4 DEF Conserved, BlocksConserved, PoolTypeOK
<1>6. free' + Cardinality(Slots(next, Requests)) = NumBlocks
  BY <1>3, <1>4, <1>5
<1>7. IsFiniteSet(Slots(held', Requests)) /\ free' + Cardinality(Slots(held', Requests)) = NumBlocks
  BY <1>1, <1>3, <1>6
<1>8. QED
  BY <1>7 DEF Conserved, BlocksConserved, Slots

\* allocate, free, swap_out, and swap_in of a request without blocks, lose none.
LEMMA PoolConserves ==
    ASSUME PoolTypeOK, Conserved, NEW r \in Requests
    PROVE  /\ UNCHANGED poolVars => Conserved'
           /\ PoolFree(r) => Conserved'
           /\ PoolSwapOut(r) => Conserved'
           /\ held[r] = 0 /\ PoolSwapIn(r) => Conserved'
           /\ \A k \in Nat : PoolAllocate(r, k) => Conserved'
<1>1. UNCHANGED poolVars => Conserved'
  BY DEF poolVars, Conserved, BlocksConserved, Slots
<1>2. held[r] \in Nat /\ swapped[r] \in Nat /\ free \in Nat
  BY DEF PoolTypeOK
<1>3. ASSUME PoolFree(r)
      PROVE  Conserved'
  <2>1. 0 \in Nat /\ held' = [held EXCEPT ![r] = 0] /\ free' = free + held[r] - 0
    BY <1>2, <1>3 DEF PoolFree
  <2>2. QED BY <2>1, BlocksMove
<1>4. ASSUME PoolSwapOut(r)
      PROVE  Conserved'
  <2>1. CASE held[r] = 0
    BY <1>1, <1>4, <2>1 DEF PoolSwapOut
  <2>2. CASE held[r] # 0
    <3>1. 0 \in Nat /\ held' = [held EXCEPT ![r] = 0] /\ free' = free + held[r] - 0
      BY <1>2, <1>4, <2>2 DEF PoolSwapOut
    <3>2. QED BY <3>1, BlocksMove
  <2>3. QED BY <2>1, <2>2
<1>5. ASSUME held[r] = 0, PoolSwapIn(r)
      PROVE  Conserved'
  <2>1. held' = [held EXCEPT ![r] = swapped[r]] /\ free' = free + held[r] - swapped[r]
    BY <1>2, <1>5 DEF PoolSwapIn
  <2>2. QED BY <1>2, <2>1, BlocksMove
<1>6. ASSUME NEW k \in Nat, PoolAllocate(r, k)
      PROVE  Conserved'
  <2>1. PICK n \in Nat : n = held[r] + k
    BY <1>2
  <2>2. held' = [held EXCEPT ![r] = n] /\ free' = free + held[r] - n
    BY <1>2, <1>6, <2>1 DEF PoolAllocate
  <2>3. QED BY <2>2, BlocksMove
<1>7. QED
  BY <1>1, <1>3, <1>4, <1>5, <1>6

\* Every step keeps the blocks together.  swap_in replaces the table of the request
\* it brings back, which a preempted request does not have.
LEMMA ConservedStep ==
    ASSUME IInv, Conserved, [Next]_vars
    PROVE  Conserved'
<1>1. TypeOK /\ OnePlace /\ BlocksHaveOwner /\ PoolTypeOK
  BY DEF IInv, TypeOK
<1>2. ASSUME UNCHANGED poolVars
      PROVE  Conserved'
  BY <1>2 DEF poolVars, Conserved, BlocksConserved, Slots
<1>3. ASSUME NEW r \in Requests, AbortActive(r) \/ Reap(r) \/ PreemptOne(r)
      PROVE  Conserved'
  BY <1>1, <1>3, PoolConserves DEF AbortActive, Reap, PreemptOne
<1>4. ASSUME NEW i \in DOMAIN preempted, AbortPreempted(i)
      PROVE  Conserved'
  <2>1. preempted[i] \in Requests /\ PoolFree(preempted[i])
    BY <1>1, <1>4, PreemptedRemoved, Zenon DEF AbortPreempted, OnePlace
  <2>2. QED BY <1>1, <2>1, PoolConserves
<1>5. ASSUME SwapInHead
      PROVE  Conserved'
  <2>1. PICK r \in Requests : r = Head(preempted) /\ InPreempted(r)
    BY <1>1, <1>5, PreemptedPopped, Zenon DEF SwapInHead, HeadComesBack, OnePlace
  <2>2. r \notin aborted /\ r \notin active
    BY <1>1, <2>1 DEF OnePlace, Finished
  <2>3. held[r] = 0
    BY <1>1, <2>2 DEF BlocksHaveOwner, PoolTypeOK
  <2>4. QED BY <1>1, <1>5, <2>1, <2>3, PoolConserves DEF SwapInHead
<1>6. ASSUME NEW r \in Requests, NEW k \in 1..NumBlocks, AllocateFor(r, k)
      PROVE  Conserved'
  <2>1. k \in Nat
    BY PoolAssumption
  <2>2. QED BY <1>1, <1>6, <2>1, PoolConserves DEF AllocateFor
<1>7. ASSUME NEW r \in Requests,
             \/ AddRequest(r) \/ BeginPrefill(r) \/ EndPrefill(r) \/ PrefillError(r)
             \/ EmitToken(r) \/ DecodeError(r)
      PROVE  Conserved'
  BY <1>2, <1>7, Zenon
  DEF AddRequest, BeginPrefill, EndPrefill, PrefillError, EmitToken, DecodeError
<1>8. ASSUME NEW i, AbortPending(i) \/ ForceAdd(i)
      PROVE  Conserved'
  BY <1>2, <1>8, Zenon DEF AbortPending, ForceAdd
<1>9. ASSUME AdmitHead \/ Quiet
      PROVE  Conserved'
  BY <1>2, <1>9, Zenon DEF AdmitHead, Quiet
<1>10. QED
  BY StepKinds, <1>3, <1>4, <1>5, <1>6, <1>7, <1>8, <1>9, Zenon

\* Every block is free or held by a request, whatever is preempted, aborted or
\* reaped, and in whatever order.
THEOREM NoBlockLost == Spec => []BlocksConserved
<1>1. Init => Conserved
  <2>1. ASSUME Init
        PROVE  Conserved
    <3>1. PICK h : h = held
      OBVIOUS
    <3>2. \A r \in Requests : h[r] = 0
      BY <2>1, <3>1 DEF Init, PoolInit
    <3>3. IsFiniteSet(Slots(h, Requests)) /\ Cardinality(Slots(h, Requests)) = 0
      BY <3>2, SlotsNone
    <3>4. QED BY <2>1, <3>1, <3>3, PoolAssumption DEF Init, PoolInit, Conserved, BlocksConserved
  <2>2. QED BY <2>1
<1>2. IInv /\ Conserved /\ [Next]_vars => Conserved'
  BY ConservedStep
<1>3. Conserved => BlocksConserved
  BY DEF Conserved
<1>4. QED
  BY <1>1, <1>2, <1>3, Invariance, PTL DEF Spec

-----------------------------------------------------------------------------
(* Admission promises no more than is free.  reserved_blocks is what the     *)
(* requests admitted by this step need because no request admitted earlier   *)
(* is still waiting for its prefill when the step begins.                    *)

\* A request of the batch that is still to be prefilled is on the thread's list,
\* and none is when the thread is done.  The thread is with one at a time.
Prefilled ==
    /\ \A a, b \in entering \cup prefilling : a = b
    /\ pc \in {"idle", "reap", "swapin"} => AdmittedNow = {}
    /\ pc = "infer" => AdmittedNow \subseteq todo \cup entering \cup prefilling

\* The blocks promised by this step are counted in reserved, and are free.
ReservedCounts ==
    pc \in {"admit", "preempt"} =>
        /\ IsFiniteSet(Slots(Needs, AdmittedNow))
        /\ Cardinality(Slots(Needs, AdmittedNow)) = reserved
        /\ reserved <= free

\* The thread prefills, skips or fails every request it was given.
LEMMA PrefilledStep ==
    ASSUME TypeOK, OnePlace, ThreadOwns, Prefilled, [Next]_vars
    PROVE  Prefilled'
<1> USE DEF Prefilled, AdmittedNow, SetStatus, TypeOK, ThreadDone, BetweenRequests,
            requestVars, queueVars, loopVars, threadVars
<1>1. ASSUME NEW r \in Requests, AddRequest(r)
      PROVE  Prefilled'
  BY <1>1 DEF AddRequest
<1>2. ASSUME Tick \/ StartStep \/ ReapDone \/ SwapInDone \/ TryPreempt \/ AdmitDone
      PROVE  Prefilled'
  BY <1>2 DEF Tick, StartStep, ReapDone, SwapInDone, TryPreempt, AdmitDone
<1>3. ASSUME NEW r \in Requests, AbortActive(r) \/ Reap(r)
      PROVE  Prefilled'
  BY <1>3 DEF AbortActive, Reap
<1>4. ASSUME NEW i, AbortPending(i) \/ AbortPreempted(i)
      PROVE  Prefilled'
  BY <1>4 DEF AbortPending, AbortPreempted
<1>5. ASSUME SwapInHead
      PROVE  Prefilled'
  <2>1. PICK r \in Requests : r = Head(preempted)
    BY <1>5, PreemptedPopped, Zenon DEF SwapInHead, HeadComesBack, OnePlace
  <2>2. /\ active' = active \cup {r} /\ status' = [status EXCEPT ![r] = "GENERATING"]
        /\ pc = "swapin" /\ UNCHANGED <<pc, entering, prefilling>>
    BY <1>5, <2>1 DEF SwapInHead
  <2>3. QED BY <2>2
<1>6. ASSUME AdmitHead \/ (\E r \in Requests : PreemptOne(r)) \/ PreemptExhausted
      PROVE  Prefilled'
  BY <1>6 DEF AdmitHead, PreemptOne, PreemptExhausted
<1>7. ASSUME NEW i, ForceAdd(i) \/ ForceSkip(i)
      PROVE  Prefilled'
  BY <1>7 DEF ForceAdd, ForceSkip
<1>8. ASSUME ReturnBatch
      PROVE  Prefilled'
  BY <1>8 DEF ReturnBatch
<1>9. ASSUME NEW r \in Requests, SkipFinished(r) \/ CallPrefill(r) \/ Collect(r)
      PROVE  Prefilled'
  BY <1>9 DEF SkipFinished, CallPrefill, Collect, IsFinished, Finished
<1>10. ASSUME NEW r \in Requests, BeginPrefill(r)
       PROVE  Prefilled'
  <2>1. pc = "infer"
    BY <1>10 DEF BeginPrefill, ThreadOwns
  <2>2. QED BY <1>10, <2>1 DEF BeginPrefill, ThreadOwns
<1>11. ASSUME NEW r \in Requests, EndPrefill(r) \/ PrefillError(r)
       PROVE  Prefilled'
  <2>1. pc = "infer" /\ entering = {} /\ \A q \in prefilling : q = r
    BY <1>11 DEF EndPrefill, PrefillError, ThreadOwns
  <2>2. PICK s \in {"COMPLETE", "GENERATING", "FAILED"} : SetStatus(r, s)
    BY <1>11 DEF EndPrefill, PrefillError, StatusAfterToken
  <2>3. UNCHANGED <<pc, active, todo, entering>> /\ prefilling' = {}
    BY <1>11 DEF EndPrefill, PrefillError
  <2>4. ASSUME NEW q \in AdmittedNow'
        PROVE  q \in todo'
    <3>1. q \in active /\ q # r /\ status[q] = "PREFILL"
      BY <2>2, <2>3, <2>4
    <3>2. QED BY <2>1, <2>3, <3>1
  <2>5. QED BY <2>1, <2>3, <2>4
<1>12. ASSUME NEW r \in Requests, EmitToken(r)
       PROVE  Prefilled'
  BY <1>12 DEF EmitToken, StatusAfterToken, ThreadOwns
<1>13. ASSUME NEW r \in Requests, DecodeError(r)
       PROVE  Prefilled'
  BY <1>13 DEF DecodeError, ThreadOwns
<1>14. ASSUME NEW e \in Engines, BeginDecode(e)
       PROVE  Prefilled'
  BY <1>14 DEF BeginDecode
<1>15. ASSUME EndInfer
       PROVE  Prefilled'
  BY <1>15 DEF EndInfer
<1>16. ASSUME NEW r, NEW k, AllocateFor(r, k)
       PROVE  Prefilled'
  BY <1>16 DEF AllocateFor
<1>17. ASSUME UNCHANGED vars
       PROVE  Prefilled'
  BY <1>17 DEF vars
<1> HIDE DEF Prefilled
<1>18. QED
  BY <1>1, <1>2, <1>3, <1>4, <1>5, <1>6, <1>7, <1>8, <1>9, <1>10, <1>11, <1>12, <1>13,
     <1>14, <1>15, <1>16, <1>17, Zenon
  DEF Next, Abort, LoopStep, ThreadStep

\* The steps of the admission loop.
LEMMA AdmissionSteps ==
    ASSUME ThreadOwns, [Next]_vars, pc' \in {"admit", "preempt"}
    PROVE  \/ SwapInDone
           \/ AdmitHead
           \/ \E r \in Requests : PreemptOne(r)
           \/ /\ pc \in {"admit", "preempt"}
              /\ UNCHANGED <<status, active, reserved, free>>
<1> DEFINE Rests == /\ pc \in {"admit", "preempt"}
                    /\ UNCHANGED <<status, active, reserved, free>>
<1> USE DEF requestVars, queueVars, loopVars, poolVars
<1>1. ASSUME Tick \/ TryPreempt \/ PreemptExhausted \/ UNCHANGED vars
      PROVE  Rests
  BY <1>1 DEF Tick, TryPreempt, PreemptExhausted, vars
<1>2. ASSUME NEW r \in Requests, AddRequest(r) \/ AbortActive(r) \/ Reap(r)
      PROVE  FALSE
  BY <1>2 DEF AddRequest, AbortActive, Reap, EventLoopFree
<1>3. ASSUME NEW i, AbortPending(i) \/ AbortPreempted(i) \/ ForceAdd(i) \/ ForceSkip(i)
      PROVE  FALSE
  BY <1>3 DEF AbortPending, AbortPreempted, ForceAdd, ForceSkip, EventLoopFree
<1>4. ASSUME StartStep \/ ReapDone \/ SwapInHead \/ AdmitDone \/ ReturnBatch \/ EndInfer
      PROVE  FALSE
  BY <1>4 DEF StartStep, ReapDone, SwapInHead, AdmitDone, ReturnBatch, EndInfer
<1>5. ASSUME NEW r \in Requests,
             SkipFinished(r) \/ CallPrefill(r) \/ BeginPrefill(r) \/ EndPrefill(r)
                \/ PrefillError(r) \/ Collect(r) \/ EmitToken(r) \/ DecodeError(r)
      PROVE  FALSE
  <2>1. UNCHANGED pc
    BY <1>5 DEF SkipFinished, CallPrefill, BeginPrefill, EndPrefill, PrefillError, Collect,
       EmitToken, DecodeError
  <2>2. r \in todo \cup entering \cup prefilling \cup pass
    BY <1>5 DEF SkipFinished, CallPrefill, BeginPrefill, EndPrefill, PrefillError, Collect,
       EmitToken, DecodeError, ThreadOwns
  <2>3. QED BY <2>1, <2>2 DEF ThreadOwns, ThreadDone, BetweenRequests
<1>6. ASSUME NEW e \in Engines, BeginDecode(e)
      PROVE  FALSE
  BY <1>6 DEF BeginDecode, ThreadOwns, ThreadDone
<1>7. ASSUME NEW r, NEW k, AllocateFor(r, k)
      PROVE  FALSE
  BY <1>7 DEF AllocateFor, ThreadOwns, ThreadDone, BetweenRequests
<1> HIDE DEF Rests
<1>8. SwapInDone \/ AdmitHead \/ (\E r \in Requests : PreemptOne(r)) \/ Rests
  BY <1>1, <1>2, <1>3, <1>4, <1>5, <1>6, <1>7, Zenon
  DEF Next, Abort, LoopStep, ThreadStep
<1>9. QED
  BY <1>8 DEF Rests

\* The admission loop counts what it promises, and preemption only frees.
LEMMA ReservedStep ==
    ASSUME IInv, Prefilled, ReservedCounts, [Next]_vars
    PROVE  ReservedCounts'
<1> DEFINE Counts(S, n, m) == /\ IsFiniteSet(Slots(Needs, S))
                              /\ Cardinality(Slots(Needs, S)) = n
                              /\ n <= m
<1>1. TypeOK /\ OnePlace /\ ThreadOwns /\ PoolTypeOK
  BY DEF IInv, TypeOK
<1>2. Needs \in [Requests -> Nat] /\ \A r \in Requests : Needs[r] = Need(r)
  BY NeedType DEF Needs
<1>3. SUFFICES ASSUME pc' \in {"admit", "preempt"}
               PROVE  Counts(AdmittedNow', reserved', free')
  BY DEF ReservedCounts, Slots
<1>4. pc \in {"admit", "preempt"} => Counts(AdmittedNow, reserved, free)
  BY DEF ReservedCounts
<1>5. ASSUME SwapInDone
      PROVE  Counts(AdmittedNow', reserved', free')
  <2>1. AdmittedNow' = {}
    BY <1>5 DEF SwapInDone, Prefilled, AdmittedNow, requestVars, queueVars
  <2>2. IsFiniteSet(Slots(Needs, {})) /\ Cardinality(Slots(Needs, {})) = 0
    BY SlotsNone
  <2>3. reserved' = 0 /\ free' \in Nat
    BY <1>1, <1>5 DEF SwapInDone, PoolTypeOK, poolVars
  <2>4. QED BY <2>1, <2>2, <2>3
<1>6. ASSUME AdmitHead
      PROVE  Counts(AdmittedNow', reserved', free')
  <2>1. PICK r \in Requests : r = Head(pending) /\ InPending(r)
    BY <1>1, <1>6, PendingPopped, Zenon
    DEF AdmitHead, HeadAdmitted, HeadConsidered, OnePlace
  <2>2. status[r] = "PENDING"
    BY <1>1, <2>1 DEF OnePlace
  <2>3. /\ active' = active \cup {r} /\ status' = [status EXCEPT ![r] = "PREFILL"]
        /\ reserved' = reserved + Need(r) /\ Need(r) + reserved <= free
        /\ free' = free /\ pc = "admit"
    BY <1>6, <2>1 DEF AdmitHead, HeadAdmitted, FitsBudget, SetStatus, poolVars
  <2>4. AdmittedNow' = AdmittedNow \cup {r} /\ r \notin AdmittedNow
    BY <1>1, <2>2, <2>3 DEF AdmittedNow, TypeOK
  <2>5. Counts(AdmittedNow, reserved, free)
    BY <1>4, <2>3
  <2>6. PICK S : S = AdmittedNow
    OBVIOUS
  <2>7. /\ IsFiniteSet(Slots(Needs, S \cup {r}))
        /\ Cardinality(Slots(Needs, S \cup {r})) = Cardinality(Slots(Needs, S)) + Needs[r]
    BY <1>2, <2>4, <2>5, <2>6, SlotsAdd
  <2>8. Need(r) \in Nat /\ reserved \in Nat /\ free \in Nat
    BY <1>1, NeedType DEF TypeOK, PoolTypeOK
  <2>9. QED BY <1>2, <2>3, <2>4, <2>5, <2>6, <2>7, <2>8
<1>7. ASSUME NEW r \in Requests, PreemptOne(r)
      PROVE  Counts(AdmittedNow', reserved', free')
  <2>1. /\ active' = active \ {r} /\ status' = [status EXCEPT ![r] = "PREEMPTED"]
        /\ status[r] # "PREFILL" /\ UNCHANGED reserved /\ pc = "preempt"
    BY <1>7 DEF PreemptOne, Victim, Candidates, SetStatus
  <2>2. AdmittedNow' = AdmittedNow
    BY <1>1, <2>1 DEF AdmittedNow, TypeOK
  <2>3. free' \in Nat /\ free' >= free
    BY <1>1, <1>7 DEF PreemptOne, PoolSwapOut, PoolTypeOK, poolVars
  <2>4. QED BY <1>1, <1>4, <2>1, <2>2, <2>3 DEF TypeOK, PoolTypeOK
<1>8. ASSUME pc \in {"admit", "preempt"}, UNCHANGED <<status, active, reserved, free>>
      PROVE  Counts(AdmittedNow', reserved', free')
  <2>1. AdmittedNow' = AdmittedNow
    BY <1>8 DEF AdmittedNow
  <2>2. QED BY <1>4, <1>8, <2>1
<1> HIDE DEF Counts
<1>9. QED
  BY <1>1, <1>3, <1>5, <1>6, <1>7, <1>8, AdmissionSteps, Zenon

\* The blocks that the requests admitted in this step will need are free, also
\* after preemptions in the middle of the loop.
THEOREM AdmissionKeepsItsPromise == Spec => []AdmissionFits
<1>1. Init => Prefilled /\ ReservedCounts
  BY DEF Init, Prefilled, ReservedCounts, AdmittedNow
<1>2. IInv /\ Prefilled /\ [Next]_vars => Prefilled'
  BY PrefilledStep DEF IInv
<1>3. IInv /\ Prefilled /\ ReservedCounts /\ [Next]_vars => ReservedCounts'
  BY ReservedStep
<1>4. ReservedCounts => AdmissionFits
  BY DEF ReservedCounts, AdmissionFits
<1>5. QED
  BY <1>1, <1>2, <1>3, <1>4, Invariance, PTL DEF Spec

=============================================================================

---------------------------- MODULE ServerProofs ----------------------------
(***************************************************************************)
(* Machine-checked proofs about Server: what clients are told is true and  *)
(* complete, for any number of requests and every interleaving of the      *)
(* event loop with the inference thread.  The server's steps are steps of  *)
(* the scheduler, so the scheduler's inductive invariant is available.     *)
(***************************************************************************)
EXTENDS Server, SchedulerProofs

-----------------------------------------------------------------------------
(* The server as a scheduler. *)

\* Every step of the server is a step of the scheduler, or leaves its state alone.
LEMMA ServerStepsAreSteps == [ServerNext]_serverVars => [Next]_vars
<1>1. \A r \in Requests : Submit(r) => Next
  BY Zenon DEF Submit, Next
<1>2. Delete => Next
  BY Zenon DEF Delete, Next
<1>3. GenerationLoop => Next
  BY Zenon DEF GenerationLoop, Next, ThreadStep
<1>4. Passing => Next
  BY Zenon DEF Passing, Next
<1>5. InferenceStep => Next
  BY Zenon DEF InferenceStep, EngineStep, ThreadListStep, Next, ThreadStep
<1>6. \A r \in Requests :
         WaiterReplies(r) \/ StreamStep(r) \/ StreamLeaves(r) => UNCHANGED vars
  BY Zenon DEF WaiterReplies, StreamStep, StreamTests, StreamCounts, StreamYields,
     StreamSleeps, StreamEnds, StreamLeaves
<1>7. UNCHANGED serverVars => UNCHANGED vars
  BY DEF serverVars
<1>8. QED
  BY <1>1, <1>2, <1>3, <1>4, <1>5, <1>6, <1>7, Zenon DEF ServerNext

\* The server is a scheduler: all of the scheduler's theorems hold of it.
THEOREM ServerImplementsScheduler == ServerSpec => Spec
<1>1. ServerInit => Init
  BY DEF ServerInit
<1>2. [ServerNext]_serverVars => [Next]_vars
  BY ServerStepsAreSteps
<1>3. QED
  BY <1>1, <1>2, PTL DEF ServerSpec, Spec

-----------------------------------------------------------------------------
(* Finished requests. *)

\* The inference thread is done with a finished request: it is not in a prefill
\* and waits for no token of a pass.
FinishedRests ==
    \A r \in Requests \ aborted :
        IsFinished(r) => r \notin entering \cup prefilling \cup decoding

\* Whatever finishes a request takes it from the thread's hands.
LEMMA FinishedRestsStep ==
    ASSUME TypeOK, OnePlace, ThreadOwns, FinishedRests, [Next]_vars
    PROVE  FinishedRests'
<1> USE DEF FinishedRests, IsFinished, Finished, SetStatus, loopVars, threadVars
<1>1. ASSUME NEW r \in Requests, AddRequest(r)
      PROVE  FinishedRests'
  BY <1>1 DEF AddRequest, TypeOK
<1>2. ASSUME NEW r \in Requests, AbortActive(r)
      PROVE  FinishedRests'
  BY <1>2 DEF AbortActive, TypeOK
<1>3. ASSUME NEW i \in DOMAIN pending, AbortPending(i)
      PROVE  FinishedRests'
  BY <1>3 DEF AbortPending, TypeOK
<1>4. ASSUME NEW i \in DOMAIN preempted, AbortPreempted(i)
      PROVE  FinishedRests'
  BY <1>4 DEF AbortPreempted, TypeOK
<1>5. Tick \/ StartStep \/ ReapDone \/ SwapInDone \/ TryPreempt => FinishedRests'
  BY DEF Tick, StartStep, ReapDone, SwapInDone, TryPreempt, requestVars, doneVars
<1>6. AdmitDone \/ PreemptExhausted \/ ReturnBatch \/ EndInfer => FinishedRests'
  BY DEF AdmitDone, PreemptExhausted, ReturnBatch, EndInfer, requestVars, doneVars
<1>7. \A r \in Requests : Reap(r) => FinishedRests'
  BY DEF Reap, requestVars
<1>8. ASSUME SwapInHead \/ AdmitHead
      PROVE  FinishedRests'
  BY <1>8 DEF SwapInHead, AdmitHead, TypeOK, doneVars
<1>9. ASSUME NEW r \in Requests, PreemptOne(r)
      PROVE  FinishedRests'
  BY <1>9 DEF PreemptOne, TypeOK, doneVars
<1>10. ASSUME NEW i \in DOMAIN pending, ForceAdd(i) \/ ForceSkip(i)
       PROVE  FinishedRests'
  BY <1>10 DEF ForceAdd, ForceSkip, TypeOK, requestVars, doneVars
<1>11. ASSUME NEW r \in Requests, SkipFinished(r) \/ CallPrefill(r) \/ Collect(r)
       PROVE  FinishedRests'
  BY <1>11 DEF SkipFinished, CallPrefill, Collect, requestVars, doneVars
<1>12. ASSUME NEW r \in Requests, BeginPrefill(r)
       PROVE  FinishedRests'
  BY <1>12 DEF BeginPrefill, TypeOK, doneVars
<1>13. ASSUME NEW r \in Requests, EndPrefill(r) \/ PrefillError(r)
       PROVE  FinishedRests'
  <2>1. prefilling' = {} /\ entering' = {} /\ decoding' = {}
    BY <1>13 DEF EndPrefill, PrefillError, ThreadOwns, BetweenRequests
  <2>2. QED BY <2>1
<1>14. ASSUME NEW r \in Requests, EmitToken(r)
       PROVE  FinishedRests'
  <2>1. prefilling' = {} /\ entering' = {} /\ decoding' = decoding \ {r}
    BY <1>14 DEF EmitToken, ThreadOwns, BetweenRequests
  <2>2. \A q \in Requests : q # r => status'[q] = status[q]
    BY <1>14 DEF EmitToken, TypeOK
  <2>3. aborted' = aborted
    BY <1>14 DEF EmitToken, doneVars
  <2>4. QED BY <2>1, <2>2, <2>3
<1>15. ASSUME NEW e \in Engines, BeginDecode(e)
       PROVE  FinishedRests'
  BY <1>15 DEF BeginDecode, requestVars, doneVars
<1>16. ASSUME NEW r \in Requests, DecodeError(r)
       PROVE  FinishedRests'
  <2>1. prefilling' = {} /\ entering' = {} /\ decoding' = {}
    BY <1>16 DEF DecodeError, ThreadOwns, BetweenRequests
  <2>2. QED BY <2>1
<1>17. \A r \in Requests, k \in 1..NumBlocks : AllocateFor(r, k) => FinishedRests'
  BY DEF AllocateFor, requestVars, doneVars
<1>18. UNCHANGED vars => FinishedRests'
  BY DEF vars, requestVars, doneVars
<1> HIDE DEF FinishedRests
<1>19. QED
  BY <1>1, <1>2, <1>3, <1>4, <1>5, <1>6, <1>7, <1>8, <1>9, <1>10, <1>11, <1>12,
     <1>13, <1>14, <1>15, <1>16, <1>17, <1>18, Zenon
  DEF Next, Abort, LoopStep, ThreadStep

\* What no step takes back.
Settled(r) ==
    /\ status[r] # "NEW" => status'[r] # "NEW"
    /\ r \notin aborted /\ IsFinished(r) =>
          /\ IsFinished(r)'
          /\ generated'[r] = generated[r]
          /\ status[r] = "FAILED" => status'[r] = "FAILED"

\* A finished request that no client has aborted keeps its tokens; it may at
\* most turn from COMPLETE to FAILED.
LEMMA SettledStep ==
    ASSUME TypeOK, OnePlace, ThreadOwns, Reaped, AbortedStatus, FinishedRests,
           [Next]_vars, NEW r \in Requests
    PROVE  Settled(r)
<1> USE DEF Settled, IsFinished, Finished, SetStatus
<1>1. ASSUME NEW q \in Requests, AddRequest(q)
      PROVE  Settled(r)
  BY <1>1 DEF AddRequest, TypeOK
<1>2. ASSUME NEW q \in Requests, AbortActive(q)
      PROVE  Settled(r)
  BY <1>2 DEF AbortActive, TypeOK
<1>3. ASSUME NEW i \in DOMAIN pending, AbortPending(i)
      PROVE  Settled(r)
  BY <1>3 DEF AbortPending, TypeOK
<1>4. ASSUME NEW i \in DOMAIN preempted, AbortPreempted(i)
      PROVE  Settled(r)
  BY <1>4 DEF AbortPreempted, TypeOK
<1>5. ASSUME NEW q \in Requests, Reap(q)
      PROVE  Settled(r)
  BY <1>5 DEF Reap, requestVars
<1>6. CASE SwapInHead
  <2>1. PICK h \in Requests : h = Head(preempted) /\ InPreempted(h)
    BY <1>6, PreemptedPopped, Zenon DEF SwapInHead, HeadComesBack, OnePlace
  <2>2. r = h => r \in aborted \/ ~IsFinished(r)
    BY <2>1 DEF OnePlace
  <2>3. QED BY <1>6, <2>1, <2>2 DEF SwapInHead, TypeOK
<1>7. CASE AdmitHead
  <2>1. PICK h \in Requests : h = Head(pending) /\ InPending(h)
    BY <1>7, PendingPopped, Zenon DEF AdmitHead, HeadAdmitted, HeadConsidered, OnePlace
  <2>2. r = h => r \in aborted \/ ~IsFinished(r)
    BY <2>1 DEF OnePlace
  <2>3. QED BY <1>7, <2>1, <2>2 DEF AdmitHead, TypeOK
<1>8. ASSUME NEW q \in Requests, PreemptOne(q)
      PROVE  Settled(r)
  <2>1. ~IsFinished(q)
    BY <1>8 DEF PreemptOne, Victim, Candidates, Reaped
  <2>2. QED BY <1>8, <2>1 DEF PreemptOne, TypeOK
<1>9. ASSUME NEW i \in DOMAIN pending, ForceAdd(i)
      PROVE  Settled(r)
  <2>1. PICK h \in Requests : h = pending[i] /\ InPending(h)
    BY <1>9, PendingRemoved, Zenon DEF ForceAdd, OnePlace
  <2>2. r = h => r \in aborted \/ ~IsFinished(r)
    BY <2>1 DEF OnePlace
  <2>3. QED BY <1>9, <2>1, <2>2 DEF ForceAdd, TypeOK
<1>10. ASSUME NEW q \in Requests, BeginPrefill(q) \/ EndPrefill(q) \/ PrefillError(q)
       PROVE  Settled(r)
  <2>1. q = r => r \in aborted \/ ~IsFinished(r)
    BY <1>10 DEF FinishedRests, BeginPrefill, EndPrefill, PrefillError
  <2>2. QED BY <1>10, <2>1
        DEF BeginPrefill, EndPrefill, PrefillError, StatusAfterToken, TypeOK
<1>11. ASSUME NEW q \in Requests, EmitToken(q)
       PROVE  Settled(r)
  <2>1. q = r => r \in aborted \/ ~IsFinished(r)
    BY <1>11 DEF FinishedRests, EmitToken
  <2>2. QED BY <1>11, <2>1 DEF EmitToken, StatusAfterToken, TypeOK
<1>12. ASSUME NEW q \in Requests, DecodeError(q)
       PROVE  Settled(r)
  <2>1. q = r => r \in aborted \/ ~IsFinished(r)
    BY <1>12 DEF FinishedRests, DecodeError
  <2>2. q # r => generated'[r] = generated[r]
    BY <1>12 DEF DecodeError, TypeOK
  <2>3. status'[r] = status[r] \/ status'[r] = "FAILED"
    BY <1>12 DEF DecodeError
  <2>4. QED BY <2>1, <2>2, <2>3
<1>13. ASSUME NEW q \in Requests, NEW k \in 1..NumBlocks, AllocateFor(q, k)
       PROVE  Settled(r)
  BY <1>13 DEF AllocateFor, requestVars
<1>14. CASE Quiet
  BY <1>14 DEF Quiet, requestVars
<1> HIDE DEF Settled
<1>15. QED
  BY StepKinds, <1>1, <1>2, <1>3, <1>4, <1>5, <1>6, <1>7, <1>8, <1>9, <1>10, <1>11,
     <1>12, <1>13, <1>14, Zenon

-----------------------------------------------------------------------------
(* The engine's store. *)

\* A request that runs or is preempted keeps what prefill has stored; a
\* completed one has nothing stored.
StoreInv ==
    /\ stored \in SUBSET Requests
    /\ \A r \in Requests :
          /\ status[r] \in {"GENERATING", "PREEMPTED"} => r \in stored
          /\ status[r] = "COMPLETE" => r \notin stored

\* The steps outside the engine: handlers, generation loop, clock, and what the
\* inference thread does with its lists.
OutsideEngine ==
    \/ \E r \in Requests : AddRequest(r)
    \/ Abort \/ LoopStep \/ EndInfer \/ Tick \/ ThreadListStep
    \/ UNCHANGED vars

\* They neither resume a request without its keys and values nor complete one.
LEMMA StoreOutsideEngine ==
    ASSUME TypeOK, OnePlace, Reaped, StoreInv, stored' = stored, OutsideEngine
    PROVE  StoreInv'
<1> USE DEF StoreInv, SetStatus
<1>1. ASSUME NEW q \in Requests, AddRequest(q) \/ AbortActive(q) \/ BeginPrefill(q)
      PROVE  StoreInv'
  BY <1>1 DEF AddRequest, AbortActive, BeginPrefill, TypeOK
<1>2. ASSUME NEW i \in DOMAIN pending, AbortPending(i) \/ ForceAdd(i)
      PROVE  StoreInv'
  BY <1>2 DEF AbortPending, ForceAdd, TypeOK
<1>3. ASSUME NEW i \in DOMAIN preempted, AbortPreempted(i)
      PROVE  StoreInv'
  BY <1>3 DEF AbortPreempted, TypeOK
<1>4. CASE SwapInHead
  <2>1. PICK h \in Requests : h = Head(preempted) /\ InPreempted(h)
    BY <1>4, PreemptedPopped, Zenon DEF SwapInHead, HeadComesBack, OnePlace
  <2>2. status[h] = "PREEMPTED"
    BY <2>1 DEF OnePlace
  <2>3. QED BY <1>4, <2>1, <2>2 DEF SwapInHead, TypeOK
<1>5. CASE AdmitHead
  BY <1>5 DEF AdmitHead, TypeOK
<1>6. ASSUME NEW q \in Requests, PreemptOne(q)
      PROVE  StoreInv'
  <2>1. q \in active /\ q \notin aborted /\ status[q] # "PREFILL" /\ ~IsFinished(q)
    BY <1>6 DEF PreemptOne, Victim, Candidates, Reaped, OnePlace
  <2>2. status[q] = "GENERATING"
    BY <2>1 DEF OnePlace, IsFinished
  <2>3. QED BY <1>6, <2>2 DEF PreemptOne, TypeOK
<1>7. UNCHANGED requestVars => StoreInv'
  BY DEF requestVars
<1> HIDE DEF StoreInv
<1>8. (\E q \in Requests : Reap(q)) => StoreInv'
  BY <1>7, Zenon DEF Reap
<1>9. StartStep \/ ReapDone \/ SwapInDone \/ TryPreempt \/ PreemptExhausted => StoreInv'
  BY <1>7, Zenon DEF StartStep, ReapDone, SwapInDone, TryPreempt, PreemptExhausted
<1>10. (\E i \in DOMAIN pending : ForceSkip(i)) \/ AdmitDone \/ ReturnBatch => StoreInv'
  BY <1>7, Zenon DEF ForceSkip, AdmitDone, ReturnBatch
<1>11. EndInfer \/ Tick \/ UNCHANGED vars => StoreInv'
  BY <1>7, Zenon DEF EndInfer, Tick, vars
<1>12. ThreadListStep => StoreInv'
  BY <1>1, <1>7, Zenon
  DEF ThreadListStep, SkipFinished, CallPrefill, Collect, BeginDecode
<1>13. QED
  BY <1>1, <1>2, <1>3, <1>4, <1>5, <1>6, <1>8, <1>9, <1>10, <1>11, <1>12, Zenon
  DEF OutsideEngine, Abort, LoopStep

\* The engine's steps: keys and values are stored before GENERATING is assigned,
\* and dropped with the assignment of COMPLETE.
LEMMA StoreInEngine ==
    ASSUME TypeOK, StoreInv, EngineStep
    PROVE  StoreInv'
<1> USE DEF StoreInv, SetStatus
<1>1. ASSUME NEW r \in Requests, EndPrefill(r), KVAfterToken(r)
      PROVE  StoreInv'
  <2>1. PICK s \in {"COMPLETE", "GENERATING"} : status' = [status EXCEPT ![r] = s]
    BY <1>1 DEF EndPrefill, StatusAfterToken
  <2>2. QED BY <1>1, <2>1 DEF KVAfterToken, TypeOK
<1>2. ASSUME NEW r \in Requests, PrefillError(r), stored' \in {stored, stored \cup {r}}
      PROVE  StoreInv'
  BY <1>2 DEF PrefillError, TypeOK
<1>3. ASSUME NEW r \in Requests, EmitToken(r), KVAfterToken(r)
      PROVE  StoreInv'
  <2>1. status' = [status EXCEPT ![r] = "COMPLETE"] \/ status' = status
    BY <1>3 DEF EmitToken, StatusAfterToken
  <2>2. QED BY <1>3, <2>1 DEF KVAfterToken, TypeOK
<1>4. ASSUME NEW r \in Requests, DecodeError(r), UNCHANGED stored
      PROVE  StoreInv'
  BY <1>4 DEF DecodeError, TypeOK
<1>5. QED
  BY <1>1, <1>2, <1>3, <1>4 DEF EngineStep

\* Every step of the server is an engine step, or leaves the store alone.
LEMMA StoreKinds ==
    ASSUME [ServerNext]_serverVars
    PROVE  EngineStep \/ (stored' = stored /\ OutsideEngine)
<1> USE DEF OutsideEngine
<1>1. \A r \in Requests : Submit(r) => stored' = stored /\ OutsideEngine
  BY Zenon DEF Submit
<1>2. Delete \/ GenerationLoop \/ Passing => stored' = stored /\ OutsideEngine
  BY Zenon DEF Delete, GenerationLoop, Passing
<1>3. InferenceStep => EngineStep \/ (stored' = stored /\ OutsideEngine)
  BY Zenon DEF InferenceStep
<1>4. \A r \in Requests :
         WaiterReplies(r) \/ StreamStep(r) \/ StreamLeaves(r)
            => stored' = stored /\ UNCHANGED vars
  BY Zenon DEF WaiterReplies, StreamStep, StreamTests, StreamCounts, StreamYields,
     StreamSleeps, StreamEnds, StreamLeaves
<1>5. UNCHANGED serverVars => stored' = stored /\ UNCHANGED vars
  BY DEF serverVars
<1>6. QED
  BY <1>1, <1>2, <1>3, <1>4, <1>5, Zenon DEF ServerNext

\* Every request decode_batch may be given has its keys and values, and a
\* completed one has given them up, through preemptions, resumptions, aborts and
\* errors.
THEOREM StoreFollowsStatus == ServerSpec => []StoredWhileGenerating
<1>1. ServerInit => StoreInv
  BY DEF ServerInit, Init, StoreInv
<1>2. ASSUME IInv, StoreInv, [ServerNext]_serverVars
      PROVE  StoreInv'
  BY <1>2, StoreKinds, StoreInEngine, StoreOutsideEngine DEF IInv
<1>3. StoreInv => StoredWhileGenerating
  BY DEF StoreInv, StoredWhileGenerating
<1>4. QED
  BY <1>1, <1>2, <1>3, ServerImplementsScheduler, Invariance, PTL DEF ServerSpec

-----------------------------------------------------------------------------
(* Clients. *)

ClientTypeOK ==
    /\ stream \in [Requests -> {"off", "test", "count", "yield", "countLast",
                                "yieldLast", "end", "gone"}]
    /\ count \in [Requests -> Nat]
    /\ sent \in [Requests -> Nat]
    /\ reply \in [Requests -> {"none", "stop", "error"}]
    /\ usage \in [Requests -> Nat]
    /\ busy \in SUBSET Requests

\* A reply is the end of a stream or the answer to a notified waiter.
Served(r) ==
    /\ stream[r] # "off" => r \in Streaming /\ status[r] # "NEW"
    /\ r \in busy => stream[r] \in {"count", "countLast"}
    /\ reply[r] # "none" => IF r \in Streaming THEN stream[r] = "end" ELSE r \in notified

\* A stream past its last test of is_finished, and an answer, belong to a request
\* that is finished and has all its tokens; what the client got are these.
Truthful(r) ==
    /\ stream[r] \in {"countLast", "yieldLast", "end"} => IsFinished(r)
    /\ stream[r] = "yieldLast" => count[r] = generated[r]
    /\ reply[r] # "none" =>
          /\ IsFinished(r)
          /\ sent[r] = generated[r]
          /\ usage[r] = generated[r]
          /\ reply[r] = "error" => status[r] = "FAILED"

ClientInv ==
    /\ ClientTypeOK
    /\ \A r \in Requests : Served(r)
    /\ \A r \in Requests \ aborted : Truthful(r)

\* Nothing is ever un-notified or un-aborted.
LEMMA OnlyGrow == [Next]_vars => notified \subseteq notified' /\ aborted \subseteq aborted'
<1> USE DEF doneVars
<1>1. \A r \in Requests : AddRequest(r) \/ AbortActive(r) \/ PreemptOne(r) =>
         notified \subseteq notified' /\ aborted \subseteq aborted'
  BY DEF AddRequest, AbortActive, PreemptOne
<1>2. \A i : AbortPending(i) \/ AbortPreempted(i) \/ ForceAdd(i) =>
         notified \subseteq notified' /\ aborted \subseteq aborted'
  BY DEF AbortPending, AbortPreempted, ForceAdd
<1>3. \A r \in Requests : Reap(r) => notified \subseteq notified' /\ aborted \subseteq aborted'
  BY DEF Reap
<1>4. SwapInHead \/ AdmitHead \/ Quiet =>
         notified \subseteq notified' /\ aborted \subseteq aborted'
  BY DEF SwapInHead, AdmitHead, Quiet
<1>5. \A r \in Requests : BeginPrefill(r) \/ EndPrefill(r) \/ PrefillError(r) =>
         notified \subseteq notified' /\ aborted \subseteq aborted'
  BY DEF BeginPrefill, EndPrefill, PrefillError
<1>6. \A r \in Requests : EmitToken(r) \/ DecodeError(r) =>
         notified \subseteq notified' /\ aborted \subseteq aborted'
  BY DEF EmitToken, DecodeError
<1>7. \A r \in Requests, k \in 1..NumBlocks : AllocateFor(r, k) =>
         notified \subseteq notified' /\ aborted \subseteq aborted'
  BY DEF AllocateFor
<1>8. QED
  BY StepKinds, <1>1, <1>2, <1>3, <1>4, <1>5, <1>6, <1>7, Zenon

\* The steps that clients take no part in keep what clients have been told true.
LEMMA ClientInvElsewhere ==
    ASSUME ClientInv, UNCHANGED clientVars, [Next]_vars, \A r \in Requests : Settled(r)
    PROVE  ClientInv'
<1>1. notified \subseteq notified' /\ aborted \subseteq aborted'
  BY OnlyGrow
<1>2. UNCHANGED <<stream, count, sent, reply, usage, busy>>
  BY DEF clientVars
<1>3. ClientTypeOK'
  BY <1>2 DEF ClientInv, ClientTypeOK
<1>4. ASSUME NEW r \in Requests
      PROVE  Served(r)'
  BY <1>1, <1>2 DEF ClientInv, Served, Settled
<1>5. ASSUME NEW r \in Requests \ aborted'
      PROVE  Truthful(r)'
  BY <1>1, <1>2 DEF ClientInv, Truthful, Settled
<1>6. QED
  BY <1>3, <1>4, <1>5 DEF ClientInv

\* A new request starts with no reply, and its stream with its first test.
LEMMA ClientInvSubmit ==
    ASSUME TypeOK, OnePlace, CallbackExactlyOnce, ClientInv, NEW q \in Requests, Submit(q),
           \A r \in Requests : Settled(r)
    PROVE  ClientInv'
<1> USE DEF ClientInv, ClientTypeOK
<1>1. /\ UNCHANGED <<count, sent, reply, usage, busy, generated, notified, aborted>>
      /\ status[q] = "NEW" /\ status' = [status EXCEPT ![q] = "PENDING"]
  BY DEF Submit, AddRequest, SetStatus
<1>2. stream' = IF q \in Streaming THEN [stream EXCEPT ![q] = "test"] ELSE stream
  BY DEF Submit
<1>3. q \notin notified /\ stream[q] = "off" /\ reply[q] = "none"
  <2>1. q \notin notified
    BY <1>1 DEF CallbackExactlyOnce, OnePlace, IsFinished, Finished
  <2>2. stream[q] = "off"
    BY <1>1 DEF Served
  <2>3. QED BY <2>1, <2>2 DEF Served
<1>4. ClientTypeOK'
  BY <1>1, <1>2
<1>5. ASSUME NEW r \in Requests
      PROVE  Served(r)'
  BY <1>1, <1>2, <1>3 DEF Served, Settled, TypeOK
<1>6. ASSUME NEW r \in Requests \ aborted'
      PROVE  Truthful(r)'
  BY <1>1, <1>2, <1>3 DEF Truthful, Settled, TypeOK, IsFinished
<1>7. QED
  BY <1>4, <1>5, <1>6

\* A waiter is only answered after its request was reaped, finished.
LEMMA ClientInvWaiter ==
    ASSUME TypeOK, OnePlace, CallbackExactlyOnce, ClientInv,
           NEW q \in Requests, WaiterReplies(q)
    PROVE  ClientInv'
<1> USE DEF ClientInv, ClientTypeOK
<1>1. /\ UNCHANGED <<status, generated, notified, aborted, stream, count, busy>>
      /\ q \in notified /\ q \notin Streaming
      /\ sent' = [sent EXCEPT ![q] = generated[q]]
      /\ usage' = [usage EXCEPT ![q] = generated[q]]
      /\ reply' = [reply EXCEPT ![q] = FinishReason(q)]
  BY DEF WaiterReplies, vars, requestVars, doneVars
<1>2. generated[q] \in Nat /\ FinishReason(q) \in {"stop", "error"}
  BY DEF TypeOK, FinishReason
<1>3. q \notin aborted => IsFinished(q)
  BY <1>1 DEF CallbackExactlyOnce, OnePlace
<1>4. ClientTypeOK'
  BY <1>1, <1>2
<1>5. ASSUME NEW r \in Requests
      PROVE  Served(r)'
  BY <1>1 DEF Served
<1>6. ASSUME NEW r \in Requests \ aborted'
      PROVE  Truthful(r)'
  <2>1. IsFinished(r)' <=> IsFinished(r)
    BY <1>1 DEF IsFinished
  <2>2. CASE r # q
    BY <1>1, <2>1, <2>2 DEF Truthful
  <2>3. CASE r = q
    <3>1. stream[q] = "off"
      BY <1>1 DEF Served
    <3>2. sent'[q] = generated'[q] /\ usage'[q] = generated'[q] /\ reply'[q] = FinishReason(q)
      BY <1>1
    <3>3. IsFinished(q) /\ (FinishReason(q) = "error" => status'[q] = "FAILED")
      BY <1>1, <1>3, <1>6, <2>3 DEF IsFinished, Finished, FinishReason
    <3>4. QED BY <1>1, <2>1, <2>3, <3>1, <3>2, <3>3 DEF Truthful
  <2>4. QED BY <2>2, <2>3
<1>7. QED
  BY <1>4, <1>5, <1>6

\* Each read of a stream leaves it with something true: after its last test the
\* request is finished, after its last count it has all tokens, and at its end
\* it has delivered them.
LEMMA ClientInvStream ==
    ASSUME TypeOK, ClientInv, NEW q \in Requests, StreamStep(q) \/ StreamLeaves(q)
    PROVE  ClientInv'
<1> USE DEF ClientInv, ClientTypeOK
<1>1. /\ UNCHANGED <<status, generated, notified, aborted>>
      /\ \A r : IsFinished(r)' <=> IsFinished(r)
  <2>1. UNCHANGED vars
    BY Zenon DEF StreamStep, StreamTests, StreamCounts, StreamYields, StreamSleeps,
       StreamEnds, StreamLeaves
  <2>2. QED BY <2>1 DEF vars, requestVars, doneVars, IsFinished
<1>2. generated[q] \in Nat /\ FinishReason(q) \in {"stop", "error"}
  BY DEF TypeOK, FinishReason
<1>3. stream[q] # "off" => q \in Streaming
  BY DEF Served
<1>4. stream[q] \notin {"off", "end"} => reply[q] = "none"
  BY <1>3 DEF Served
<1>5. CASE StreamTests(q)
  <2>1. /\ UNCHANGED <<count, sent, reply, usage>>
        /\ stream[q] = "test" /\ busy' = {q}
        /\ stream' = [stream EXCEPT ![q] = IF IsFinished(q) THEN "countLast" ELSE "count"]
    BY <1>5 DEF StreamTests
  <2>2. ClientTypeOK'
    BY <2>1
  <2>3. ASSUME NEW r \in Requests
        PROVE  Served(r)'
    BY <1>1, <1>3, <1>4, <2>1 DEF Served
  <2>4. ASSUME NEW r \in Requests \ aborted'
        PROVE  Truthful(r)'
    BY <1>1, <1>4, <2>1 DEF Truthful
  <2>5. QED BY <2>2, <2>3, <2>4
<1>6. CASE StreamCounts(q)
  <2>1. /\ UNCHANGED <<sent, reply, usage>>
        /\ q \in busy /\ busy' = {} /\ stream[q] \in {"count", "countLast"}
        /\ count' = [count EXCEPT ![q] = generated[q]]
        /\ stream' = [stream EXCEPT ![q] = IF stream[q] = "count" THEN "yield" ELSE "yieldLast"]
    BY <1>6 DEF StreamCounts, Served
  <2>2. ClientTypeOK'
    BY <1>2, <2>1
  <2>3. ASSUME NEW r \in Requests
        PROVE  Served(r)'
    BY <1>1, <1>3, <1>4, <2>1 DEF Served
  <2>4. ASSUME NEW r \in Requests \ aborted'
        PROVE  Truthful(r)'
    BY <1>1, <1>4, <2>1 DEF Truthful
  <2>5. QED BY <2>2, <2>3, <2>4
<1>7. CASE StreamYields(q)
  <2>1. /\ UNCHANGED <<stream, count, reply, usage, busy>>
        /\ stream[q] \in {"yield", "yieldLast"}
        /\ sent' = [sent EXCEPT ![q] = sent[q] + 1]
    BY <1>7 DEF StreamYields
  <2>2. ClientTypeOK'
    BY <2>1
  <2>3. ASSUME NEW r \in Requests
        PROVE  Served(r)'
    BY <1>1, <2>1 DEF Served
  <2>4. ASSUME NEW r \in Requests \ aborted'
        PROVE  Truthful(r)'
    BY <1>1, <1>4, <2>1 DEF Truthful
  <2>5. QED BY <2>2, <2>3, <2>4
<1>8. CASE StreamSleeps(q)
  <2>1. /\ UNCHANGED <<count, sent, reply, usage, busy>>
        /\ stream[q] = "yield" /\ stream' = [stream EXCEPT ![q] = "test"]
    BY <1>8 DEF StreamSleeps
  <2>2. ClientTypeOK'
    BY <2>1
  <2>3. ASSUME NEW r \in Requests
        PROVE  Served(r)'
    BY <1>1, <1>3, <1>4, <2>1 DEF Served
  <2>4. ASSUME NEW r \in Requests \ aborted'
        PROVE  Truthful(r)'
    BY <1>1, <1>4, <2>1 DEF Truthful
  <2>5. QED BY <2>2, <2>3, <2>4
<1>9. CASE StreamEnds(q)
  <2>1. /\ UNCHANGED <<count, sent, busy>>
        /\ stream[q] = "yieldLast" /\ sent[q] = count[q]
        /\ stream' = [stream EXCEPT ![q] = "end"]
        /\ reply' = [reply EXCEPT ![q] = FinishReason(q)]
        /\ usage' = [usage EXCEPT ![q] = generated[q]]
    BY <1>9 DEF StreamEnds
  <2>2. ClientTypeOK'
    BY <1>2, <2>1
  <2>3. ASSUME NEW r \in Requests
        PROVE  Served(r)'
    BY <1>1, <1>3, <2>1 DEF Served
  <2>4. ASSUME NEW r \in Requests \ aborted'
        PROVE  Truthful(r)'
    <3>1. CASE r # q
      BY <1>1, <2>1, <3>1 DEF Truthful
    <3>2. CASE r = q
      <4>1. IsFinished(q) /\ count[q] = generated[q]
        BY <1>1, <2>1, <2>4, <3>2 DEF Truthful
      <4>2. FinishReason(q) = "error" => status'[q] = "FAILED"
        BY <1>1, <4>1 DEF IsFinished, Finished, FinishReason
      <4>3. QED BY <1>1, <2>1, <3>2, <4>1, <4>2 DEF Truthful
    <3>3. QED BY <3>1, <3>2
  <2>5. QED BY <2>2, <2>3, <2>4
<1>10. CASE StreamLeaves(q)
  <2>1. /\ UNCHANGED <<count, sent, reply, usage, busy>>
        /\ stream[q] \in {"test", "yield", "yieldLast"}
        /\ stream' = [stream EXCEPT ![q] = "gone"]
        /\ busy = {}
    BY <1>10 DEF StreamLeaves, CanRun, LoopIdle
  <2>2. ClientTypeOK'
    BY <2>1
  <2>3. ASSUME NEW r \in Requests
        PROVE  Served(r)'
    BY <1>1, <1>3, <1>4, <2>1 DEF Served
  <2>4. ASSUME NEW r \in Requests \ aborted'
        PROVE  Truthful(r)'
    BY <1>1, <1>4, <2>1 DEF Truthful
  <2>5. QED BY <2>2, <2>3, <2>4
<1>11. QED
  BY <1>5, <1>6, <1>7, <1>8, <1>9, <1>10 DEF StreamStep

\* What clients have been told is complete and true, in every reachable state.
LEMMA ClientInvariance == ServerSpec => [](FinishedRests /\ ClientInv)
<1>1. ServerInit => FinishedRests /\ ClientInv
  BY DEF ServerInit, Init, FinishedRests, ClientInv, ClientTypeOK, Served, Truthful
<1>2. ASSUME IInv, FinishedRests, ClientInv, [ServerNext]_serverVars
      PROVE  FinishedRests' /\ ClientInv'
  <2>1. [Next]_vars
    BY <1>2, ServerStepsAreSteps
  <2>2. /\ TypeOK /\ OnePlace /\ ThreadOwns /\ Reaped /\ AbortedStatus
        /\ CallbackExactlyOnce
    BY <1>2 DEF IInv
  <2>3. FinishedRests'
    BY <1>2, <2>1, <2>2, FinishedRestsStep
  <2>4. \A r \in Requests : Settled(r)
    BY <1>2, <2>1, <2>2, SettledStep
  <2>5. UNCHANGED clientVars => ClientInv'
    BY <1>2, <2>1, <2>4, ClientInvElsewhere
  <2>6. \A r \in Requests : Submit(r) => ClientInv'
    BY <1>2, <2>2, <2>4, ClientInvSubmit
  <2>7. \A r \in Requests : WaiterReplies(r) => ClientInv'
    BY <1>2, <2>2, ClientInvWaiter
  <2>8. \A r \in Requests : StreamStep(r) \/ StreamLeaves(r) => ClientInv'
    BY <1>2, <2>2, ClientInvStream
  <2>9. Delete \/ GenerationLoop \/ InferenceStep \/ Passing => UNCHANGED clientVars
    BY Zenon DEF Delete, GenerationLoop, InferenceStep, Passing
  <2>10. UNCHANGED serverVars => UNCHANGED clientVars
    BY DEF serverVars
  <2>11. ClientInv'
    BY <1>2, <2>5, <2>6, <2>7, <2>8, <2>9, <2>10, Zenon DEF ServerNext
  <2>12. QED BY <2>3, <2>11
<1>3. QED
  BY <1>1, <1>2, ServerImplementsScheduler, Invariance, PTL DEF ServerSpec

\* A client whose answer has ended got every token its request ever generates,
\* and the announced number is that of the delivered ones.
THEOREM AnswersAreWhole == ServerSpec => []AnswerWhole
<1>1. ClientInv => AnswerWhole
  BY DEF ClientInv, Truthful, AnswerWhole
<1>2. QED
  BY <1>1, ClientInvariance, PTL

\* A waiter that got its answer is never contradicted, and a stream that was told
\* "error" is not either: the thread is done with a reaped request, and no step
\* takes FAILED back.
THEOREM AnswersStay == ServerSpec => AnswerStays
<1>1. ASSUME IInv, FinishedRests, ClientInv, [ServerNext]_serverVars,
             NEW r \in Requests \ aborted, reply[r] # "none",
             ~(reply[r] = "stop" /\ r \in Streaming)
      PROVE  status'[r] = status[r]
  <2>1. [Next]_vars
    BY <1>1, ServerStepsAreSteps
  <2>2. Served(r) /\ Truthful(r) /\ reply[r] \in {"none", "stop", "error"}
    BY <1>1 DEF ClientInv, ClientTypeOK
  <2>3. CASE r \in Streaming
    <3>1. status[r] = "FAILED" /\ IsFinished(r)
      BY <1>1, <2>2, <2>3 DEF Truthful
    <3>2. Settled(r)
      BY <1>1, <2>1, SettledStep DEF IInv
    <3>3. QED BY <1>1, <3>1, <3>2 DEF Settled
  <2>4. CASE r \notin Streaming
    <3>1. r \in completed
      BY <1>1, <2>2, <2>4 DEF Served, IInv, CallbackExactlyOnce
    <3>2. QED BY <1>1, <2>1, <3>1, ReapedRests
  <2>5. QED BY <2>3, <2>4
<1>2. IInv /\ FinishedRests /\ ClientInv /\ [ServerNext]_serverVars =>
        [\A r \in Requests \ aborted :
            \/ reply[r] = "none"
            \/ reply[r] = "stop" /\ r \in Streaming
            \/ status'[r] = status[r]]_serverVars
  BY <1>1
<1>3. QED
  BY <1>2, ServerImplementsScheduler, Invariance, ClientInvariance, PTL
  DEF ServerSpec, AnswerStays

=============================================================================

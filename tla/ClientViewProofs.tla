---------------------------- MODULE ClientViewProofs ----------------------------
(***************************************************************************)
(* Machine-checked proof that Server implements ClientView: whatever the   *)
(* two threads, the clock and the other clients do, each client sees only  *)
(* steps that ClientView allows it to see.                                 *)
(***************************************************************************)
EXTENDS ServerProofs

-----------------------------------------------------------------------------
(* What the scheduler does to one request. *)

\* Tokens are never taken back, and only a token completes a request.
LEMMA TokensGrow ==
    ASSUME TypeOK, [Next]_vars, NEW r \in Requests
    PROVE  /\ generated'[r] \in Nat
           /\ generated[r] <= generated'[r]
           /\ status'[r] = "COMPLETE" => status[r] = "COMPLETE" \/ generated'[r] > 0
<1> DEFINE Grows == /\ generated'[r] \in Nat
                    /\ generated[r] <= generated'[r]
                    /\ status'[r] = "COMPLETE" => status[r] = "COMPLETE" \/ generated'[r] > 0
<1> USE DEF SetStatus
<1>1. \A q \in Requests : AddRequest(q) \/ AbortActive(q) \/ BeginPrefill(q) => Grows
  BY DEF AddRequest, AbortActive, BeginPrefill, TypeOK
<1>2. \A i : AbortPending(i) \/ AbortPreempted(i) \/ ForceAdd(i) => Grows
  BY DEF AbortPending, AbortPreempted, ForceAdd, TypeOK
<1>3. UNCHANGED requestVars => Grows
  BY DEF requestVars, TypeOK
<1>4. \A q \in Requests : PreemptOne(q) \/ PrefillError(q) => Grows
  BY DEF PreemptOne, PrefillError, TypeOK
<1>5. SwapInHead \/ AdmitHead => Grows
  BY DEF SwapInHead, AdmitHead, TypeOK
<1>6. ASSUME NEW q \in Requests, EndPrefill(q) \/ EmitToken(q)
      PROVE  Grows
  <2>1. generated' = [generated EXCEPT ![q] = generated[q] + 1]
    BY <1>6 DEF EndPrefill, EmitToken
  <2>2. q # r => status'[r] = status[r]
    BY <1>6 DEF EndPrefill, EmitToken, TypeOK
  <2>3. generated \in [Requests -> Nat]
    BY DEF TypeOK
  <2>4. CASE q = r
    BY <2>1, <2>3, <2>4
  <2>5. CASE q # r
    BY <2>1, <2>2, <2>3, <2>5
  <2>6. QED BY <2>4, <2>5
<1>7. ASSUME NEW q \in Requests, DecodeError(q)
      PROVE  Grows
  <2>1. generated' = generated \/ generated' = [generated EXCEPT ![q] = generated[q] + 1]
    BY <1>7 DEF DecodeError
  <2>2. status'[r] = status[r] \/ status'[r] = "FAILED"
    BY <1>7 DEF DecodeError
  <2>3. generated \in [Requests -> Nat]
    BY DEF TypeOK
  <2>4. generated'[r] \in Nat /\ generated[r] <= generated'[r]
    BY <2>1, <2>3
  <2>5. QED BY <2>2, <2>4
<1> HIDE DEF Grows
<1>8. \A q \in Requests : Reap(q) => Grows
  BY <1>3, Zenon DEF Reap
<1>9. \A q \in Requests, k \in 1..NumBlocks : AllocateFor(q, k) => Grows
  BY <1>3, Zenon DEF AllocateFor
<1>10. Quiet => Grows
  BY <1>3, Zenon DEF Quiet
<1>11. Grows
  BY StepKinds, <1>1, <1>2, <1>4, <1>5, <1>6, <1>7, <1>8, <1>9, <1>10, Zenon
<1>12. QED
  BY <1>11 DEF Grows

\* The scheduler knows a request that waits to be reaped or has been: a step that
\* makes none known leaves the new ones new.
LEMMA KnownKept ==
    ASSUME IInv, [Next]_vars, callbacks' \cup completed' = callbacks \cup completed,
           NEW r \in Requests
    PROVE  status'[r] = "NEW" <=> status[r] = "NEW"
<1>1. IInv'
  BY InvStep
<1>2. status[r] # "NEW" <=> r \in callbacks \cup completed
  <2>1. r \in completed => status[r] # "NEW"
    BY DEF IInv, OnePlace, IsFinished, Finished
  <2>2. QED BY <2>1 DEF IInv, CallbackExactlyOnce
<1>3. status'[r] # "NEW" <=> r \in callbacks' \cup completed'
  <2>1. r \in completed' => status'[r] # "NEW"
    BY <1>1 DEF IInv, OnePlace, IsFinished, Finished
  <2>2. QED BY <1>1, <2>1 DEF IInv, CallbackExactlyOnce
<1>4. QED
  BY <1>2, <1>3

\* The server's steps that no client takes part in.
Background == Delete \/ GenerationLoop \/ InferenceStep \/ Passing

\* The generation loop records and notifies by reaping only, and the inference
\* thread not at all.
LEMMA LoopDoes == GenerationLoop => UNCHANGED doneVars \/ \E r \in Requests : Reap(r)
<1>1. EndInfer => UNCHANGED doneVars
  BY Zenon DEF EndInfer
<1>2. SwapInHead \/ AdmitHead \/ (\E r \in Requests : PreemptOne(r)) => UNCHANGED doneVars
  BY Zenon DEF SwapInHead, AdmitHead, PreemptOne
<1>3. (\E i \in DOMAIN pending : ForceAdd(i) \/ ForceSkip(i)) => UNCHANGED doneVars
  BY Zenon DEF ForceAdd, ForceSkip
<1>4. StartStep \/ ReapDone \/ SwapInDone \/ TryPreempt \/ PreemptExhausted \/ AdmitDone
         \/ ReturnBatch => UNCHANGED doneVars
  BY Zenon DEF StartStep, ReapDone, SwapInDone, TryPreempt, PreemptExhausted, AdmitDone,
     ReturnBatch
<1>5. QED
  BY <1>1, <1>2, <1>3, <1>4, Zenon DEF GenerationLoop, LoopStep

LEMMA ThreadDoes == InferenceStep \/ Passing => UNCHANGED doneVars
BY Zenon DEF InferenceStep, EngineStep, ThreadListStep, EndPrefill, PrefillError, EmitToken,
   DecodeError, SkipFinished, CallPrefill, BeginPrefill, Collect, BeginDecode, Passing, Tick

\* Reaping moves a request from the waiting to the done; nothing else in the
\* background makes a request known.
LEMMA BackgroundKnows ==
    ASSUME IInv, Background
    PROVE  callbacks' \cup completed' = callbacks \cup completed
<1>1. \A r \in Requests : AbortActive(r) => callbacks' = callbacks /\ completed' = completed
  BY DEF AbortActive
<1>2. \A i : AbortPending(i) \/ AbortPreempted(i) =>
                callbacks' = callbacks /\ completed' = completed
  BY DEF AbortPending, AbortPreempted
<1>3. Delete => callbacks' = callbacks /\ completed' = completed
  BY <1>1, <1>2, Zenon DEF Delete, Abort
<1>4. UNCHANGED doneVars => callbacks' = callbacks /\ completed' = completed
  BY DEF doneVars
<1>5. ASSUME NEW r \in Requests, Reap(r)
      PROVE  callbacks' \cup completed' = callbacks \cup completed
  <2>1. r \in callbacks \cup completed
    <3>1. r \notin aborted /\ status[r] # "NEW"
      BY <1>5 DEF IInv, OnePlace, Reap, IsFinished, Finished
    <3>2. QED BY <3>1 DEF IInv, CallbackExactlyOnce
  <2>2. callbacks' = callbacks \ {r} /\ completed' = completed \cup {r}
    BY <1>5 DEF Reap
  <2>3. QED BY <2>1, <2>2
<1>6. QED
  BY <1>3, <1>4, <1>5, LoopDoes, ThreadDoes DEF Background

-----------------------------------------------------------------------------
(* What the client has never exceeds what was generated. *)

Delivered ==
    \A r \in Requests :
        /\ count[r] <= generated[r]
        /\ sent[r] <= generated[r]
        /\ status[r] = "COMPLETE" => generated[r] > 0

LEMMA DeliveredStep ==
    ASSUME IInv, ClientInv, Delivered, [ServerNext]_serverVars
    PROVE  Delivered'
<1>1. /\ TypeOK /\ [Next]_vars /\ ClientTypeOK
  BY ServerStepsAreSteps DEF IInv, ClientInv
<1>2. ASSUME NEW r \in Requests
      PROVE  /\ generated[r] \in Nat /\ generated'[r] \in Nat
             /\ generated[r] <= generated'[r]
             /\ status'[r] = "COMPLETE" => status[r] = "COMPLETE" \/ generated'[r] > 0
             /\ count[r] \in Nat /\ sent[r] \in Nat
             /\ count[r] <= generated[r] /\ sent[r] <= generated[r]
             /\ status[r] = "COMPLETE" => generated[r] > 0
  BY <1>1, TokensGrow DEF TypeOK, ClientTypeOK, Delivered
<1>3. ASSUME UNCHANGED <<count, sent>>
      PROVE  Delivered'
  BY <1>2, <1>3 DEF Delivered
<1>4. ASSUME NEW q \in Requests, StreamCounts(q)
      PROVE  Delivered'
  <2>1. /\ sent' = sent /\ count' = [count EXCEPT ![q] = generated[q]]
    BY <1>4 DEF StreamCounts
  <2>2. QED BY <1>1, <1>2, <2>1 DEF Delivered, ClientTypeOK
<1>5. ASSUME NEW q \in Requests, StreamYields(q)
      PROVE  Delivered'
  <2>1. count' = count /\ sent[q] < count[q] /\ sent' = [sent EXCEPT ![q] = sent[q] + 1]
    BY <1>5 DEF StreamYields
  <2>2. QED BY <1>1, <1>2, <2>1 DEF Delivered, ClientTypeOK
<1>6. ASSUME NEW q \in Requests, WaiterReplies(q)
      PROVE  Delivered'
  <2>1. count' = count /\ sent' = [sent EXCEPT ![q] = generated[q]]
    BY <1>6 DEF WaiterReplies
  <2>2. QED BY <1>1, <1>2, <2>1 DEF Delivered, ClientTypeOK
<1>7. \A q \in Requests : Submit(q) \/ StreamTests(q) \/ StreamSleeps(q) \/ StreamEnds(q)
         \/ StreamLeaves(q) => UNCHANGED <<count, sent>>
  BY DEF Submit, StreamTests, StreamSleeps, StreamEnds, StreamLeaves
<1>8. Background => UNCHANGED <<count, sent>>
  <2>1. Background => UNCHANGED clientVars
    BY Zenon DEF Background, Delete, GenerationLoop, InferenceStep, Passing
  <2>2. QED BY <2>1 DEF clientVars
<1>9. UNCHANGED serverVars => UNCHANGED <<count, sent>>
  BY DEF serverVars, clientVars
<1>10. QED
  BY <1>3, <1>4, <1>5, <1>6, <1>7, <1>8, <1>9, Zenon DEF ServerNext, StreamStep, Background

LEMMA DeliveredInvariance == ServerSpec => []Delivered
<1>1. ServerInit => Delivered
  <2>1. SUFFICES ASSUME ServerInit, NEW r \in Requests
                 PROVE  /\ count[r] <= generated[r]
                        /\ sent[r] <= generated[r]
                        /\ status[r] = "COMPLETE" => generated[r] > 0
    BY DEF Delivered
  <2>2. count[r] = 0 /\ sent[r] = 0 /\ generated[r] = 0
    BY <2>1 DEF ServerInit, Init
  <2>3. status[r] # "COMPLETE"
    BY <2>1 DEF ServerInit, Init
  <2>4. QED BY <2>2, <2>3
<1>2. IInv /\ ClientInv /\ Delivered /\ [ServerNext]_serverVars => Delivered'
  BY DeliveredStep
<1>3. QED
  BY <1>1, <1>2, ServerImplementsScheduler, Invariance, ClientInvariance, PTL DEF ServerSpec

-----------------------------------------------------------------------------
(* Where each client stands. *)

MappedPhase == [r \in Requests |-> PhaseOf(r)]

\* A client stands where it stood when neither its stream goes, nor it gets a
\* reply, nor its request becomes known.
LEMMA PhaseKept ==
    ASSUME NEW r, stream'[r] = "gone" <=> stream[r] = "gone", reply'[r] = reply[r],
           status'[r] = "NEW" <=> status[r] = "NEW"
    PROVE  PhaseOf(r)' = PhaseOf(r)
BY DEF PhaseOf

\* The steps of ClientView over the mapped phase.
LEMMA ViewSteps ==
    ASSUME NEW r
    PROVE  /\ Client!Ask(r) <=>
                /\ MappedPhase[r] = "absent"
                /\ MappedPhase' = [MappedPhase EXCEPT ![r] = "waiting"]
                /\ UNCHANGED <<sent, reply, usage, aborted>>
           /\ Client!GetToken(r) <=>
                /\ MappedPhase[r] = "waiting"
                /\ r \in Streaming
                /\ sent[r] < MaxNew[r]
                /\ sent' = [sent EXCEPT ![r] = @ + 1]
                /\ UNCHANGED <<MappedPhase, reply, usage, aborted>>
           /\ Client!Leave(r) <=>
                /\ MappedPhase[r] = "waiting"
                /\ r \in Streaming
                /\ MappedPhase' = [MappedPhase EXCEPT ![r] = "gone"]
                /\ UNCHANGED <<sent, reply, usage, aborted>>
           /\ Client!AbortIt(r) <=>
                /\ MappedPhase[r] # "absent"
                /\ aborted' = aborted \cup {r}
                /\ UNCHANGED <<MappedPhase, sent, reply, usage>>
BY DEF Client!Ask, Client!GetToken, Client!Leave, Client!AbortIt, MappedPhase

LEMMA ViewAnswer ==
    ASSUME NEW r
    PROVE  Client!GetAnswer(r) <=>
              /\ MappedPhase[r] = "waiting"
              /\ MappedPhase' = [MappedPhase EXCEPT ![r] = "answered"]
              /\ \E reason \in {"stop", "error"}, n \in sent[r]..MaxNew[r] :
                    /\ reason = "stop" => n > 0
                    /\ r \in Streaming /\ r \notin aborted => n = sent[r]
                    /\ reply' = [reply EXCEPT ![r] = reason]
                    /\ usage' = [usage EXCEPT ![r] = n]
                    /\ sent' = IF r \in Streaming THEN sent ELSE [sent EXCEPT ![r] = n]
              /\ UNCHANGED aborted
BY DEF Client!GetAnswer, MappedPhase

\* One client's step leaves the others where they stand.
LEMMA PhaseUpdate ==
    ASSUME NEW r \in Requests, NEW p, PhaseOf(r)' = p,
           \A q \in Requests \ {r} : PhaseOf(q)' = PhaseOf(q)
    PROVE  MappedPhase' = [MappedPhase EXCEPT ![r] = p]
BY DEF MappedPhase

LEMMA AllPhasesKept ==
    ASSUME \A q \in Requests : PhaseOf(q)' = PhaseOf(q)
    PROVE  MappedPhase' = MappedPhase
BY DEF MappedPhase

-----------------------------------------------------------------------------
(* Every step of the server is a client's, or unseen by all of them. *)

\* Background steps change nothing that a client sees; an abort is its client's.
LEMMA BackgroundSeen ==
    ASSUME IInv, ClientInv, Background
    PROVE  (\E r \in Requests : Client!AbortIt(r)) \/ UNCHANGED Client!viewVars
<1>1. [Next]_vars
  <2>1. Background => ServerNext
    BY Zenon DEF Background, ServerNext
  <2>2. QED BY <2>1, ServerStepsAreSteps
<1>2. \A q \in Requests : status'[q] = "NEW" <=> status[q] = "NEW"
  BY <1>1, BackgroundKnows, KnownKept
<1>3. UNCHANGED <<stream, sent, reply, usage>>
  <2>1. Background => UNCHANGED clientVars
    BY Zenon DEF Background, Delete, GenerationLoop, InferenceStep, Passing
  <2>2. QED BY <2>1 DEF clientVars
<1>4. MappedPhase' = MappedPhase
  BY <1>2, <1>3, PhaseKept, AllPhasesKept
<1>5. CASE aborted' = aborted
  BY <1>3, <1>4, <1>5 DEF Client!viewVars, MappedPhase
<1>6. ASSUME NEW r \in Requests, aborted' = aborted \cup {r}, status[r] # "NEW"
      PROVE  Client!AbortIt(r)
  <2>1. MappedPhase[r] # "absent"
    BY <1>6 DEF MappedPhase, PhaseOf
  <2>2. QED BY <1>3, <1>4, <1>6, <2>1, ViewSteps
<1>7. CASE Delete
  <2>1. ASSUME NEW r \in Requests, AbortActive(r)
        PROVE  aborted' = aborted \cup {r} /\ status[r] # "NEW"
    BY <2>1 DEF AbortActive, IInv, OnePlace, Finished
  <2>2. ASSUME NEW i \in DOMAIN pending, AbortPending(i)
        PROVE  pending[i] \in Requests /\ aborted' = aborted \cup {pending[i]}
               /\ status[pending[i]] # "NEW"
    <3>1. pending[i] \in Requests /\ InPending(pending[i])
      BY <2>2, PendingRemoved, Zenon DEF IInv, OnePlace, AbortPending
    <3>2. status[pending[i]] = "PENDING"
      BY <3>1 DEF IInv, OnePlace
    <3>3. QED BY <2>2, <3>1, <3>2 DEF AbortPending
  <2>3. ASSUME NEW i \in DOMAIN preempted, AbortPreempted(i)
        PROVE  preempted[i] \in Requests /\ aborted' = aborted \cup {preempted[i]}
               /\ status[preempted[i]] # "NEW"
    <3>1. preempted[i] \in Requests /\ InPreempted(preempted[i])
      BY <2>3, PreemptedRemoved, Zenon DEF IInv, OnePlace, AbortPreempted
    <3>2. status[preempted[i]] = "PREEMPTED"
      BY <3>1 DEF IInv, OnePlace
    <3>3. QED BY <2>3, <3>1, <3>2 DEF AbortPreempted
  <2>4. QED
    BY <1>6, <1>7, <2>1, <2>2, <2>3, Zenon DEF Delete, Abort
<1>8. CASE GenerationLoop \/ InferenceStep \/ Passing
  <2>1. aborted' = aborted
    <3>1. UNCHANGED doneVars \/ (\E r \in Requests : Reap(r)) => aborted' = aborted
      BY DEF doneVars, Reap
    <3>2. GenerationLoop => UNCHANGED doneVars \/ \E r \in Requests : Reap(r)
      BY LoopDoes
    <3>3. InferenceStep \/ Passing => UNCHANGED doneVars
      BY ThreadDoes
    <3>4. QED BY <1>8, <3>1, <3>2, <3>3
  <2>2. QED BY <1>5, <2>1
<1>9. QED
  BY <1>7, <1>8 DEF Background

\* A submission is its client's request.
LEMMA SubmitSeen ==
    ASSUME IInv, ClientInv, NEW r \in Requests, Submit(r)
    PROVE  Client!Ask(r)
<1>1. /\ status[r] = "NEW" /\ status' = [status EXCEPT ![r] = "PENDING"]
      /\ UNCHANGED <<sent, reply, usage, aborted>>
      /\ stream' = IF r \in Streaming THEN [stream EXCEPT ![r] = "test"] ELSE stream
  BY DEF Submit, AddRequest, SetStatus
<1>2. stream[r] = "off" /\ reply[r] = "none"
  <2>1. r \notin notified
    BY <1>1 DEF IInv, CallbackExactlyOnce, OnePlace, IsFinished, Finished
  <2>2. stream[r] = "off"
    BY <1>1 DEF ClientInv, Served
  <2>3. QED BY <2>1, <2>2 DEF ClientInv, Served
<1>3. stream \in [Requests -> {"off", "test", "count", "yield", "countLast",
                                "yieldLast", "end", "gone"}]
      /\ status \in [Requests -> Statuses]
  BY DEF ClientInv, ClientTypeOK, IInv, TypeOK
<1>4. PhaseOf(r) = "absent"
  BY <1>1, <1>2 DEF PhaseOf
<1>5. PhaseOf(r)' = "waiting"
  <2>1. stream'[r] # "gone" /\ status'[r] = "PENDING" /\ reply'[r] = "none"
    BY <1>1, <1>2, <1>3
  <2>2. QED BY <2>1 DEF PhaseOf
<1>6. \A q \in Requests \ {r} : PhaseOf(q)' = PhaseOf(q)
  <2>1. \A q \in Requests \ {r} : /\ status'[q] = status[q]
                                  /\ stream'[q] = stream[q]
                                  /\ reply'[q] = reply[q]
    BY <1>1, <1>3
  <2>2. QED BY <2>1, PhaseKept
<1>7. MappedPhase' = [MappedPhase EXCEPT ![r] = "waiting"]
  BY <1>5, <1>6, PhaseUpdate
<1>8. MappedPhase[r] = "absent"
  BY <1>4 DEF MappedPhase
<1>9. QED
  BY <1>1, <1>7, <1>8, ViewSteps

\* Client steps of the server leave the scheduler alone.
LEMMA SchedulerKept ==
    ASSUME NEW r \in Requests, WaiterReplies(r) \/ StreamStep(r) \/ StreamLeaves(r)
    PROVE  status' = status /\ generated' = generated /\ aborted' = aborted
<1>1. UNCHANGED vars
  BY Zenon DEF WaiterReplies, StreamStep, StreamTests, StreamCounts, StreamYields, StreamSleeps,
     StreamEnds, StreamLeaves
<1>2. QED
  BY <1>1 DEF vars, requestVars, doneVars

\* What is known of a stream that has not ended.
LEMMA StreamWaits ==
    ASSUME IInv, ClientInv, NEW r \in Requests, stream[r] \notin {"off", "end", "gone"}
    PROVE  r \in Streaming /\ MappedPhase[r] = "waiting"
<1>1. r \in Streaming /\ status[r] # "NEW"
  BY DEF ClientInv, Served
<1>2. reply[r] = "none"
  BY <1>1 DEF ClientInv, Served
<1>3. QED
  BY <1>1, <1>2 DEF MappedPhase, PhaseOf

\* The numbers in an answer: no more than generated, no more than allowed.
LEMMA AnswerNumbers ==
    ASSUME IInv, ClientInv, Delivered, NEW r \in Requests
    PROVE  /\ generated[r] \in sent[r]..MaxNew[r]
           /\ FinishReason(r) \in {"stop", "error"}
           /\ FinishReason(r) = "stop" => generated[r] > 0
<1>1. generated[r] \in Nat /\ sent[r] \in Nat /\ MaxNew[r] \in Nat
  BY SchedulerAssumption DEF IInv, TypeOK, ClientInv, ClientTypeOK
<1>2. sent[r] <= generated[r] /\ generated[r] <= MaxNew[r]
  BY DEF Delivered, IInv, TokenLimit
<1>3. status[r] = "COMPLETE" => generated[r] > 0
  BY DEF Delivered
<1>4. QED
  BY <1>1, <1>2, <1>3 DEF FinishReason

\* A waiter's answer is its client's.
LEMMA WaiterSeen ==
    ASSUME IInv, ClientInv, Delivered, NEW r \in Requests, WaiterReplies(r)
    PROVE  Client!GetAnswer(r)
<1>1. /\ r \in notified /\ r \notin Streaming /\ reply[r] = "none"
      /\ sent' = [sent EXCEPT ![r] = generated[r]]
      /\ usage' = [usage EXCEPT ![r] = generated[r]]
      /\ reply' = [reply EXCEPT ![r] = FinishReason(r)]
      /\ stream' = stream
  BY DEF WaiterReplies
<1>2. status' = status /\ aborted' = aborted
  BY SchedulerKept
<1>3. status[r] # "NEW"
  BY <1>1 DEF IInv, CallbackExactlyOnce, OnePlace, IsFinished, Finished
<1>4. stream[r] = "off"
  BY <1>1 DEF ClientInv, Served
<1>5. reply'[r] = FinishReason(r) /\ FinishReason(r) # "none"
  BY <1>1, AnswerNumbers DEF ClientInv, ClientTypeOK
<1>6. PhaseOf(r)' = "answered"
  BY <1>1, <1>4, <1>5 DEF PhaseOf
<1>7. \A q \in Requests \ {r} : PhaseOf(q)' = PhaseOf(q)
  <2>1. \A q \in Requests \ {r} : reply'[q] = reply[q]
    BY <1>1 DEF ClientInv, ClientTypeOK
  <2>2. QED BY <1>1, <1>2, <2>1, PhaseKept
<1>8. MappedPhase' = [MappedPhase EXCEPT ![r] = "answered"]
  BY <1>6, <1>7, PhaseUpdate
<1>9. MappedPhase[r] = "waiting"
  BY <1>1, <1>3, <1>4 DEF MappedPhase, PhaseOf
<1>10. QED
  BY <1>1, <1>2, <1>8, <1>9, AnswerNumbers, ViewAnswer

\* The end of a stream is its client's answer.
LEMMA EndSeen ==
    ASSUME IInv, ClientInv, Delivered, NEW r \in Requests, StreamEnds(r)
    PROVE  Client!GetAnswer(r)
<1>1. /\ stream[r] = "yieldLast" /\ sent[r] = count[r] /\ sent' = sent
      /\ stream' = [stream EXCEPT ![r] = "end"]
      /\ reply' = [reply EXCEPT ![r] = FinishReason(r)]
      /\ usage' = [usage EXCEPT ![r] = generated[r]]
  BY DEF StreamEnds
<1>2. status' = status /\ aborted' = aborted
  BY SchedulerKept DEF StreamStep
<1>3. r \in Streaming /\ MappedPhase[r] = "waiting"
  BY <1>1, StreamWaits
<1>4. r \notin aborted => generated[r] = sent[r]
  BY <1>1 DEF ClientInv, Truthful
<1>5. /\ reply'[r] = FinishReason(r) /\ FinishReason(r) # "none"
      /\ stream'[r] = "end"
  BY <1>1, AnswerNumbers DEF ClientInv, ClientTypeOK
<1>6. PhaseOf(r)' = "answered"
  BY <1>5 DEF PhaseOf
<1>7. \A q \in Requests \ {r} : PhaseOf(q)' = PhaseOf(q)
  <2>1. \A q \in Requests \ {r} : reply'[q] = reply[q] /\ stream'[q] = stream[q]
    BY <1>1 DEF ClientInv, ClientTypeOK
  <2>2. QED BY <1>2, <2>1, PhaseKept
<1>8. MappedPhase' = [MappedPhase EXCEPT ![r] = "answered"]
  BY <1>6, <1>7, PhaseUpdate
<1>9. QED
  BY <1>1, <1>2, <1>3, <1>4, <1>8, AnswerNumbers, ViewAnswer

\* A yield is a token for its client.
LEMMA YieldSeen ==
    ASSUME IInv, ClientInv, Delivered, NEW r \in Requests, StreamYields(r)
    PROVE  Client!GetToken(r)
<1>1. /\ stream[r] \in {"yield", "yieldLast"} /\ sent[r] < count[r]
      /\ sent' = [sent EXCEPT ![r] = @ + 1]
      /\ UNCHANGED <<stream, reply, usage>>
  BY DEF StreamYields
<1>2. status' = status /\ aborted' = aborted
  BY SchedulerKept DEF StreamStep
<1>3. r \in Streaming /\ MappedPhase[r] = "waiting"
  BY <1>1, StreamWaits
<1>4. sent[r] < MaxNew[r]
  <2>1. sent[r] \in Nat /\ count[r] \in Nat /\ generated[r] \in Nat /\ MaxNew[r] \in Nat
    BY SchedulerAssumption DEF IInv, TypeOK, ClientInv, ClientTypeOK
  <2>2. count[r] <= generated[r] /\ generated[r] <= MaxNew[r]
    BY DEF Delivered, IInv, TokenLimit
  <2>3. QED BY <1>1, <2>1, <2>2
<1>5. MappedPhase' = MappedPhase
  BY <1>1, <1>2, PhaseKept, AllPhasesKept
<1>6. QED
  BY <1>1, <1>2, <1>3, <1>4, <1>5, ViewSteps

\* A client that closes its connection leaves.
LEMMA LeaveSeen ==
    ASSUME IInv, ClientInv, NEW r \in Requests, StreamLeaves(r)
    PROVE  Client!Leave(r)
<1>1. /\ stream[r] \in {"test", "yield", "yieldLast"}
      /\ stream' = [stream EXCEPT ![r] = "gone"]
      /\ UNCHANGED <<sent, reply, usage>>
  BY DEF StreamLeaves
<1>2. status' = status /\ aborted' = aborted
  BY SchedulerKept
<1>3. r \in Streaming /\ MappedPhase[r] = "waiting"
  BY <1>1, StreamWaits
<1>4. stream'[r] = "gone" /\ \A q \in Requests \ {r} : stream'[q] = stream[q]
  BY <1>1 DEF ClientInv, ClientTypeOK
<1>5. PhaseOf(r)' = "gone" /\ \A q \in Requests \ {r} : PhaseOf(q)' = PhaseOf(q)
  BY <1>1, <1>2, <1>4, PhaseKept DEF PhaseOf
<1>6. MappedPhase' = [MappedPhase EXCEPT ![r] = "gone"]
  BY <1>5, PhaseUpdate
<1>7. QED
  BY <1>1, <1>2, <1>3, <1>6, ViewSteps

\* A stream's reads, and its sleep, are unseen.
LEMMA ReadsUnseen ==
    ASSUME IInv, ClientInv, NEW r \in Requests,
           StreamTests(r) \/ StreamCounts(r) \/ StreamSleeps(r)
    PROVE  UNCHANGED Client!viewVars
<1>1. UNCHANGED <<sent, reply, usage>>
  BY DEF StreamTests, StreamCounts, StreamSleeps
<1>2. status' = status /\ aborted' = aborted
  BY SchedulerKept DEF StreamStep
<1>3. /\ stream[r] # "gone" /\ stream'[r] # "gone"
      /\ \A q \in Requests \ {r} : stream'[q] = stream[q]
  BY DEF StreamTests, StreamCounts, StreamSleeps, ClientInv, ClientTypeOK, Served
<1>4. MappedPhase' = MappedPhase
  BY <1>1, <1>2, <1>3, PhaseKept, AllPhasesKept
<1>5. QED
  BY <1>1, <1>2, <1>4 DEF Client!viewVars, MappedPhase

LEMMA ViewStep ==
    ASSUME IInv, ClientInv, Delivered, [ServerNext]_serverVars
    PROVE  [Client!ViewNext]_(Client!viewVars)
<1>1. ASSUME NEW r \in Requests, Submit(r)
      PROVE  Client!ViewNext
  BY <1>1, SubmitSeen DEF Client!ViewNext
<1>2. ASSUME NEW r \in Requests, WaiterReplies(r)
      PROVE  Client!ViewNext
  BY <1>2, WaiterSeen DEF Client!ViewNext
<1>3. ASSUME NEW r \in Requests, StreamStep(r)
      PROVE  Client!ViewNext \/ UNCHANGED Client!viewVars
  BY <1>3, EndSeen, YieldSeen, ReadsUnseen DEF StreamStep, Client!ViewNext
<1>4. ASSUME NEW r \in Requests, StreamLeaves(r)
      PROVE  Client!ViewNext
  BY <1>4, LeaveSeen DEF Client!ViewNext
<1>5. ASSUME Background
      PROVE  Client!ViewNext \/ UNCHANGED Client!viewVars
  BY <1>5, BackgroundSeen DEF Client!ViewNext
<1>6. ASSUME UNCHANGED serverVars
      PROVE  UNCHANGED Client!viewVars
  <2>1. status' = status /\ stream' = stream /\ sent' = sent /\ reply' = reply
        /\ usage' = usage /\ aborted' = aborted
    BY <1>6 DEF serverVars, vars, requestVars, doneVars, clientVars
  <2>2. MappedPhase' = MappedPhase
    BY <2>1, PhaseKept, AllPhasesKept
  <2>3. QED BY <2>1, <2>2 DEF Client!viewVars, MappedPhase
<1>7. QED
  BY <1>1, <1>2, <1>3, <1>4, <1>5, <1>6 DEF ServerNext, Background

LEMMA ViewStart == ServerInit => Client!ViewInit
<1>1. ASSUME ServerInit
      PROVE  MappedPhase = [r \in Requests |-> "absent"]
  <2>1. \A r \in Requests : stream[r] = "off" /\ reply[r] = "none" /\ status[r] = "NEW"
    BY <1>1 DEF ServerInit, Init
  <2>2. QED BY <2>1 DEF MappedPhase, PhaseOf
<1>2. QED
  BY <1>1 DEF ServerInit, Init, Client!ViewInit, MappedPhase

\* Each client gets its tokens in turn and never more than it asked for, one
\* finish reason and nothing afterwards, and a usage that counts what was
\* delivered unless the request was aborted: _stream_tokens and completions,
\* with the generation loop, the inference thread and all other clients running.
THEOREM ClientsSeeTheirView == ServerSpec => ImplementsClientView
<1>1. IInv /\ ClientInv /\ Delivered /\ [ServerNext]_serverVars
         => [Client!ViewNext]_(Client!viewVars)
  BY ViewStep
<1>2. QED
  BY <1>1, ViewStart, ServerImplementsScheduler, Invariance, ClientInvariance,
     DeliveredInvariance, PTL
  DEF ServerSpec, ImplementsClientView, Client!ViewSpec

=============================================================================

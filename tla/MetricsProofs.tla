----------------------------- MODULE MetricsProofs -----------------------------
(***************************************************************************)
(* Machine-checked proofs about Metrics: what /v1/metrics reports agrees    *)
(* with what happened, for any number of requests and wherever a counter's  *)
(* update falls between the steps of the two threads.  A step of Metrics is *)
(* a step of Server that also records, so the scheduler's and the clients'  *)
(* invariants are available.                                                *)
(***************************************************************************)
EXTENDS Metrics, ServerProofs

-----------------------------------------------------------------------------
(* The kinds of steps. *)

\* What the inference thread records after a prefill, after a token of a pass, at
\* the start of a pass, after an exception, and between two requests.
RecordsLater == UNCHANGED <<counterVars, gaugeVars, statVars, unreported>>

PrefillRecords(r) ==
    /\ ThreadFree /\ EndPrefill(r) /\ UNCHANGED clientVars /\ RecordsLater
    /\ owed' = 1
    /\ sampled' = SampleDue(r)
    /\ dated' = dated \cup DatedByEngine({r})

PassRecords(r) ==
    /\ ThreadFree /\ EmitToken(r) /\ UNCHANGED clientVars /\ RecordsLater
    /\ owed' = IF pass' = {} THEN PassTokens(pass) ELSE 0
    /\ dated' = dated \cup DatedByEngine({r})
    /\ UNCHANGED sampled

GroupRecords(e) ==
    /\ ThreadFree /\ BeginDecode(e) /\ UNCHANGED clientVars /\ RecordsLater
    /\ owed' = IF pass' = {} THEN PassTokens(group \ group') ELSE 0
    /\ UNCHANGED <<sampled, dated>>

ErrorRecords(r) ==
    /\ ThreadFree
    /\ PrefillError(r) \/ DecodeError(r)
    /\ UNCHANGED clientVars /\ RecordsLater
    /\ dated' = dated \cup (IF prefilling = {r} THEN {r} ELSE pass)
    /\ UNCHANGED <<owed, sampled>>

ListRecords(r) ==
    /\ SkipFinished(r) \/ CallPrefill(r) \/ BeginPrefill(r) \/ Collect(r)
    /\ UNCHANGED clientVars /\ RecordsLater /\ UNCHANGED recordVars

\* The steps that the inference thread takes no part in.
Elsewhere ==
    \/ LoopRecords
    \/ \E r \in Requests : EndsStream(r) \/ StreamRecords(r) \/ StreamLost(r)
    \/ Unrecorded
    \/ UNCHANGED metricsVars

LEMMA MetricsKinds ==
    ASSUME [MetricsNext]_metricsVars
    PROVE  \/ \E r \in Requests :
                 PrefillRecords(r) \/ PassRecords(r) \/ ErrorRecords(r) \/ ListRecords(r)
           \/ \E e \in Engines : GroupRecords(e)
           \/ RecordTokens
           \/ RecordTTFT
           \/ Elsewhere
<1>1. ASSUME InferenceRecords
      PROVE  \/ \E r \in Requests :
                   PrefillRecords(r) \/ PassRecords(r) \/ ErrorRecords(r) \/ ListRecords(r)
             \/ \E e \in Engines : GroupRecords(e)
  <2>1. ThreadFree /\ UNCHANGED clientVars /\ RecordsLater
    BY <1>1, Zenon DEF InferenceRecords, InferenceStep, RecordsLater
  <2>2. QED
    BY <1>1, <2>1, Zenon
    DEF InferenceRecords, PrefillRecords, PassRecords, GroupRecords, ErrorRecords, ListRecords
<1>2. QED
  BY <1>1, Zenon DEF MetricsNext, Elsewhere

\* Every step of Metrics is a step of the server, or leaves its state alone.
LEMMA MetricsStepsAreSteps == [MetricsNext]_metricsVars => [ServerNext]_serverVars
<1>1. InferenceRecords => ServerNext
  BY Zenon DEF InferenceRecords, ServerNext
<1>2. RecordTokens \/ RecordTTFT => UNCHANGED serverVars
  BY Zenon DEF RecordTokens, RecordTTFT
<1>3. LoopRecords => ServerNext
  BY Zenon DEF LoopRecords, ServerNext
<1>4. \A r \in Requests : EndsStream(r) => ServerNext
  BY Zenon DEF EndsStream, ServerNext, StreamStep
<1>5. \A r \in Requests : StreamRecords(r) \/ StreamLost(r) => UNCHANGED serverVars
  BY Zenon DEF StreamRecords, StreamLost
<1>6. Unrecorded => ServerNext
  BY Zenon DEF Unrecorded, ServerNext, StreamStep
<1>7. UNCHANGED metricsVars => UNCHANGED serverVars
  BY DEF metricsVars
<1>8. QED
  BY <1>1, <1>2, <1>3, <1>4, <1>5, <1>6, <1>7, Zenon DEF MetricsNext

\* Recording changes nothing that the server does: all of the server's and of the
\* scheduler's theorems hold with metrics.
THEOREM MetricsImplementServer == MetricsSpec => ServerSpec
<1>1. MetricsInit => ServerInit
  BY DEF MetricsInit
<1>2. [MetricsNext]_metricsVars => [ServerNext]_serverVars
  BY MetricsStepsAreSteps
<1>3. QED
  BY <1>1, <1>2, PTL DEF MetricsSpec, ServerSpec

-----------------------------------------------------------------------------
(* The requests the server knows are finitely many. *)

KnownFinite == IsFiniteSet(callbacks \cup completed)

\* Only add_request makes a request known.
LEMMA KnownFiniteStep ==
    ASSUME KnownFinite, [Next]_vars
    PROVE  KnownFinite'
<1> USE DEF doneVars
<1>1. ASSUME NEW r, callbacks' \cup completed' \subseteq (callbacks \cup completed) \cup {r}
      PROVE  KnownFinite'
  <2>1. IsFiniteSet((callbacks \cup completed) \cup {r})
    BY FS_AddElement DEF KnownFinite
  <2>2. QED BY <1>1, <2>1, FS_Subset DEF KnownFinite
<1>2. \A r \in Requests : AddRequest(r) \/ Reap(r) => KnownFinite'
  BY <1>1 DEF AddRequest, Reap
<1>3. UNCHANGED <<callbacks, completed>> => KnownFinite'
  BY DEF KnownFinite
<1>4. \A r \in Requests : AbortActive(r) \/ PreemptOne(r) => KnownFinite'
  BY <1>3 DEF AbortActive, PreemptOne
<1>5. \A i : AbortPending(i) \/ AbortPreempted(i) \/ ForceAdd(i) => KnownFinite'
  BY <1>3 DEF AbortPending, AbortPreempted, ForceAdd
<1>6. SwapInHead \/ AdmitHead \/ Quiet => KnownFinite'
  BY <1>3 DEF SwapInHead, AdmitHead, Quiet
<1>7. \A r \in Requests : BeginPrefill(r) \/ EndPrefill(r) \/ PrefillError(r) => KnownFinite'
  BY <1>3 DEF BeginPrefill, EndPrefill, PrefillError
<1>8. \A r \in Requests : EmitToken(r) \/ DecodeError(r) => KnownFinite'
  BY <1>3 DEF EmitToken, DecodeError
<1>9. \A r \in Requests, k \in 1..NumBlocks : AllocateFor(r, k) => KnownFinite'
  BY <1>3 DEF AllocateFor
<1>10. QED
  BY StepKinds, <1>2, <1>4, <1>5, <1>6, <1>7, <1>8, <1>9, Zenon

LEMMA KnownFiniteHolds == Spec => []KnownFinite
<1>1. Init => KnownFinite
  BY FS_EmptySet DEF Init, KnownFinite
<1>2. KnownFinite /\ [Next]_vars => KnownFinite'
  BY KnownFiniteStep
<1>3. QED
  BY <1>1, <1>2, PTL DEF Spec

\* A set of requests that are not new is finite.
LEMMA KnownSubset ==
    ASSUME IInv, KnownFinite, NEW S \in SUBSET Requests, \A r \in S : status[r] # "NEW"
    PROVE  IsFiniteSet(S)
<1>1. S \subseteq callbacks \cup completed
  BY DEF IInv, CallbackExactlyOnce
<1>2. QED
  BY <1>1, FS_Subset DEF KnownFinite

\* The streams that have sent their last chunk.
Ended == {r \in Requests : stream[r] = "end"}

\* The sets that are counted are finite.
SetsFinite ==
    /\ IsFiniteSet(active)
    /\ IsFiniteSet(aborted)
    /\ IsFiniteSet(completed)
    /\ IsFiniteSet(Range(preempted))
    /\ IsFiniteSet(group \cup pass)
    /\ IsFiniteSet(Failed)
    /\ IsFiniteSet(Ended)

LEMMA CountedSets ==
    ASSUME IInv, ClientInv, KnownFinite
    PROVE  SetsFinite
<1>1. TypeOK /\ OnePlace /\ ThreadOwns /\ AbortedStatus
  BY DEF IInv
<1>2. \A r \in aborted : status[r] # "NEW"
  BY <1>1 DEF AbortedStatus
<1>3. \A r \in active : status[r] # "NEW"
  BY <1>1 DEF OnePlace, Finished, TypeOK
<1>4. \A r \in completed : status[r] # "NEW"
  BY <1>1 DEF OnePlace, IsFinished, Finished, TypeOK
<1>5. Range(preempted) \subseteq Requests
  BY <1>1, RangeOfSeq DEF TypeOK
<1>6. \A r \in Range(preempted) : status[r] # "NEW"
  BY <1>1, <1>5 DEF OnePlace, InPreempted
<1>7. group \cup pass \subseteq active \cup aborted
  BY <1>1 DEF ThreadOwns
<1>8. \A r \in Failed : status[r] # "NEW"
  BY DEF Failed
<1>9. \A r \in Ended : status[r] # "NEW"
  BY DEF Ended, ClientInv, Served
<1>10. IsFiniteSet(active) /\ IsFiniteSet(aborted) /\ IsFiniteSet(completed)
  BY <1>1, <1>2, <1>3, <1>4, KnownSubset DEF TypeOK
<1>11. IsFiniteSet(Range(preempted)) /\ IsFiniteSet(Failed) /\ IsFiniteSet(Ended)
  BY <1>5, <1>6, <1>8, <1>9, KnownSubset DEF Failed, Ended
<1>12. IsFiniteSet(group \cup pass)
  BY <1>1, <1>2, <1>3, <1>7, KnownSubset DEF TypeOK
<1>13. QED
  BY <1>10, <1>11, <1>12 DEF SetsFinite

\* What is known of the scheduler and of the clients in every reachable state.
LEMMA MetricsKnown == MetricsSpec => [](IInv /\ ClientInv /\ SetsFinite)
<1>1. IInv /\ ClientInv /\ KnownFinite => SetsFinite
  BY CountedSets
<1>2. QED
  BY <1>1, MetricsImplementServer, ServerImplementsScheduler, Invariance, ClientInvariance,
     KnownFiniteHolds, PTL

-----------------------------------------------------------------------------
(* The batch gauge. *)

\* While the thread works the batch changes by aborts only; the thread gets to
\* work when schedule_step returns a batch.
LEMMA BatchWhileInferring ==
    ASSUME TypeOK, OnePlace, [Next]_vars, pc' = "infer"
    PROVE  \/ ReturnBatch
           \/ /\ pc = "infer"
              /\ \/ UNCHANGED <<active, aborted>>
                 \/ \E r \in active \ aborted : active' = active \ {r} /\ aborted' = aborted \cup {r}
                 \/ \E r : active' = active /\ aborted' = aborted \cup {r}
<1> DEFINE Rests == pc = "infer" /\ UNCHANGED <<active, aborted>>
           Aborts == /\ pc = "infer"
                     /\ \E r \in active \ aborted :
                           active' = active \ {r} /\ aborted' = aborted \cup {r}
           Adds == pc = "infer" /\ \E r : active' = active /\ aborted' = aborted \cup {r}
<1> USE DEF requestVars, queueVars, doneVars, loopVars
<1>1. ASSUME NEW r \in Requests, AddRequest(r)
      PROVE  Rests
  BY <1>1 DEF AddRequest
<1>2. ASSUME NEW r \in Requests, AbortActive(r)
      PROVE  Aborts
  <2>1. r \in active \ aborted
    BY <1>2 DEF AbortActive, OnePlace
  <2>2. QED BY <1>2, <2>1 DEF AbortActive
<1>3. ASSUME NEW i, AbortPending(i) \/ AbortPreempted(i)
      PROVE  Adds
  BY <1>3 DEF AbortPending, AbortPreempted
<1>4. ASSUME \/ StartStep \/ (\E r \in Requests : Reap(r)) \/ ReapDone \/ SwapInHead \/ SwapInDone
             \/ AdmitHead \/ TryPreempt \/ (\E r \in Requests : PreemptOne(r))
             \/ PreemptExhausted \/ AdmitDone \/ EndInfer
      PROVE  FALSE
  BY <1>4 DEF StartStep, Reap, ReapDone, SwapInHead, SwapInDone, AdmitHead, TryPreempt,
     PreemptOne, PreemptExhausted, AdmitDone, EndInfer
<1>5. ASSUME NEW i, ForceAdd(i) \/ ForceSkip(i)
      PROVE  FALSE
  BY <1>5 DEF ForceAdd, ForceSkip
<1>6. ASSUME NEW r \in Requests,
             SkipFinished(r) \/ CallPrefill(r) \/ BeginPrefill(r) \/ EndPrefill(r)
                \/ PrefillError(r) \/ Collect(r) \/ EmitToken(r) \/ DecodeError(r)
      PROVE  Rests
  BY <1>6 DEF SkipFinished, CallPrefill, BeginPrefill, EndPrefill, PrefillError, Collect,
     EmitToken, DecodeError
<1>7. ASSUME NEW e \in Engines, BeginDecode(e)
      PROVE  Rests
  BY <1>7 DEF BeginDecode
<1>8. ASSUME NEW r, NEW k, AllocateFor(r, k)
      PROVE  Rests
  BY <1>8 DEF AllocateFor
<1>9. Tick \/ UNCHANGED vars => Rests
  BY DEF Tick, vars
<1> HIDE DEF Rests, Aborts, Adds
<1>10. ReturnBatch \/ Rests \/ Aborts \/ Adds
  BY <1>1, <1>2, <1>3, <1>4, <1>5, <1>6, <1>7, <1>8, <1>9, Zenon
  DEF Next, Abort, LoopStep, ThreadStep
<1>11. QED
  BY <1>10, Zenon DEF Rests, Aborts, Adds

\* Only the generation loop sets the gauge, when it has a batch.
LEMMA GaugeSet ==
    ASSUME IInv, [MetricsNext]_metricsVars
    PROVE  /\ ReturnBatch /\ pc' = "infer" => batch_gauge' = Cardinality(active')
           /\ pc = "infer" => batch_gauge' = batch_gauge
<1> USE DEF gaugeVars
<1>1. pc # "infer" => ThreadDone /\ pass = {} /\ decoding = {}
  BY DEF IInv, ThreadOwns, ThreadDone
<1>2. ASSUME NEW r, PrefillRecords(r) \/ PassRecords(r) \/ ErrorRecords(r) \/ ListRecords(r)
      PROVE  pc' = pc /\ batch_gauge' = batch_gauge
  BY <1>2 DEF PrefillRecords, PassRecords, ErrorRecords, ListRecords, RecordsLater, EndPrefill,
     EmitToken, PrefillError, DecodeError, SkipFinished, CallPrefill, BeginPrefill, Collect,
     loopVars
<1>3. ASSUME NEW e, GroupRecords(e)
      PROVE  pc' = pc /\ batch_gauge' = batch_gauge
  BY <1>3 DEF GroupRecords, RecordsLater, BeginDecode, loopVars
<1>4. ASSUME RecordTokens \/ RecordTTFT
      PROVE  pc' = pc /\ batch_gauge' = batch_gauge
  BY <1>4 DEF RecordTokens, RecordTTFT, serverVars, vars, loopVars
<1>5. ASSUME LoopRecords
      PROVE  /\ pc = "force" /\ pc' = "infer" => batch_gauge' = Cardinality(active')
             /\ pc = "infer" => batch_gauge' = batch_gauge
  BY <1>5 DEF LoopRecords, GaugesDue, SetGauges
<1>6. ASSUME NEW r, EndsStream(r) \/ StreamRecords(r) \/ StreamLost(r)
      PROVE  pc' = pc /\ batch_gauge' = batch_gauge
  BY <1>6 DEF EndsStream, StreamEnds, StreamRecords, StreamLost, serverVars, vars, loopVars
<1>7. ASSUME Unrecorded
      PROVE  batch_gauge' = batch_gauge /\ pc' = pc
  <2>1. batch_gauge' = batch_gauge
    BY <1>7 DEF Unrecorded
  <2>2. \A r : Submit(r) => pc' = pc
    BY DEF Submit, AddRequest, loopVars
  <2>3. \A r : WaiterReplies(r) \/ StreamLeaves(r) \/ StreamTests(r) \/ StreamCounts(r)
                  \/ StreamYields(r) \/ StreamSleeps(r) => pc' = pc
    BY DEF WaiterReplies, StreamLeaves, StreamTests, StreamCounts, StreamYields, StreamSleeps,
       vars, loopVars
  <2>4. Delete => pc' = pc
    BY DEF Delete, Abort, AbortActive, AbortPending, AbortPreempted, loopVars
  <2>5. Passing => pc' = pc
    BY DEF Passing, Tick, loopVars
  <2>6. QED
    BY <1>7, <2>1, <2>2, <2>3, <2>4, <2>5, Zenon DEF Unrecorded
<1>8. ASSUME UNCHANGED metricsVars
      PROVE  batch_gauge' = batch_gauge /\ pc' = pc
  BY <1>8 DEF metricsVars, serverVars, vars, loopVars
<1>9. ReturnBatch => pc = "force"
  BY DEF ReturnBatch
<1>10. QED
  BY MetricsKinds, <1>2, <1>3, <1>4, <1>5, <1>6, <1>7, <1>8, <1>9 DEF Elsewhere

GaugeInv == GaugeTracksBatch /\ (pc = "infer" => batch_gauge \in Nat)

\* While the thread works, the gauge is the size of its batch, but for the requests
\* aborted since.
THEOREM GaugeIsBatch == MetricsSpec => []GaugeTracksBatch
<1>1. MetricsInit => GaugeInv
  BY DEF MetricsInit, ServerInit, Init, GaugeInv, GaugeTracksBatch
<1>2. ASSUME IInv, SetsFinite, SetsFinite', GaugeInv, [MetricsNext]_metricsVars
      PROVE  GaugeInv'
  <2>1. SUFFICES ASSUME pc' = "infer"
                 PROVE  /\ batch_gauge' \in Nat
                        /\ Cardinality(active') <= batch_gauge'
                        /\ batch_gauge' <= Cardinality(active') + Cardinality(aborted')
    BY DEF GaugeInv, GaugeTracksBatch
  <2>2. [Next]_vars
    BY <1>2, MetricsStepsAreSteps, ServerStepsAreSteps
  <2>4. IsFiniteSet(active) /\ IsFiniteSet(aborted)
    BY <1>2 DEF SetsFinite
  <2>5. IsFiniteSet(active') /\ IsFiniteSet(aborted')
    BY <1>2 DEF SetsFinite
  <2>6. /\ Cardinality(active) \in Nat /\ Cardinality(aborted) \in Nat
        /\ Cardinality(active') \in Nat /\ Cardinality(aborted') \in Nat
    BY <2>4, <2>5, FS_CardinalityType
  <2>7. CASE ReturnBatch
    BY <1>2, <2>1, <2>6, <2>7, GaugeSet
  <2>8. ASSUME pc = "infer"
        PROVE  /\ batch_gauge' = batch_gauge /\ batch_gauge \in Nat
               /\ Cardinality(active) <= batch_gauge
               /\ batch_gauge <= Cardinality(active) + Cardinality(aborted)
    BY <1>2, <2>8, GaugeSet DEF GaugeInv, GaugeTracksBatch
  <2>9. ASSUME pc = "infer", UNCHANGED <<active, aborted>>
        PROVE  /\ Cardinality(active') <= batch_gauge'
               /\ batch_gauge' <= Cardinality(active') + Cardinality(aborted')
    BY <2>8, <2>9
  <2>10. ASSUME pc = "infer", NEW r \in active \ aborted,
                active' = active \ {r}, aborted' = aborted \cup {r}
         PROVE  /\ Cardinality(active') <= batch_gauge'
                /\ batch_gauge' <= Cardinality(active') + Cardinality(aborted')
    <3>1. Cardinality(active') = Cardinality(active) - 1
      BY <2>4, <2>10, FS_RemoveElement
    <3>2. Cardinality(aborted') = Cardinality(aborted) + 1
      BY <2>4, <2>10, FS_AddElement
    <3>3. PICK a \in Nat, b \in Nat : a = Cardinality(active) /\ b = Cardinality(aborted)
      BY <2>6
    <3>4. PICK g : g = batch_gauge
      OBVIOUS
    <3>5. QED BY <2>8, <2>10, <3>1, <3>2, <3>3
  <2>11. ASSUME pc = "infer", NEW r, active' = active, aborted' = aborted \cup {r}
         PROVE  /\ Cardinality(active') <= batch_gauge'
                /\ batch_gauge' <= Cardinality(active') + Cardinality(aborted')
    <3>1. Cardinality(aborted) <= Cardinality(aborted')
      BY <2>5, <2>11, FS_Subset
    <3>2. QED BY <2>6, <2>8, <2>11, <3>1
  <2>12. ReturnBatch \/ pc = "infer"
    BY <1>2, <2>1, <2>2, BatchWhileInferring DEF IInv
  <2>13. batch_gauge' \in Nat
    BY <1>2, <2>1, <2>6, <2>8, <2>12, GaugeSet
  <2>14. /\ Cardinality(active') <= batch_gauge'
         /\ batch_gauge' <= Cardinality(active') + Cardinality(aborted')
    BY <1>2, <2>1, <2>2, <2>7, <2>9, <2>10, <2>11, BatchWhileInferring DEF IInv
  <2>15. QED BY <2>13, <2>14
<1>3. GaugeInv => GaugeTracksBatch
  BY DEF GaugeInv
<1>4. QED
  BY <1>1, <1>2, <1>3, MetricsKnown, PTL DEF MetricsSpec

-----------------------------------------------------------------------------
(* Completed requests. *)

\* Each stream counted in total_requests_completed has ended, was dated, and has
\* nothing left to record.
ReportedOnce ==
    /\ dated \subseteq Requests
    /\ unreported \subseteq Ended
    /\ requests_completed \in Nat
    /\ requests_completed <= Cardinality((Ended \cap dated) \ unreported)

\* A stream that has ended stays ended.
LEMMA EndedStays ==
    ASSUME ClientInv, [ServerNext]_serverVars
    PROVE  Ended \subseteq Ended'
<1>1. stream \in [Requests -> {"off", "test", "count", "yield", "countLast",
                               "yieldLast", "end", "gone"}]
  BY DEF ClientInv, ClientTypeOK
<1>2. UNCHANGED stream => Ended \subseteq Ended'
  BY DEF Ended
<1>3. ASSUME NEW r \in Requests, stream[r] # "end",
             NEW s, stream' = [stream EXCEPT ![r] = s]
      PROVE  Ended \subseteq Ended'
  BY <1>1, <1>3 DEF Ended
<1>4. ASSUME NEW r \in Requests, Submit(r)
      PROVE  Ended \subseteq Ended'
  <2>1. stream[r] # "end"
    BY <1>4 DEF Submit, AddRequest, ClientInv, Served
  <2>2. QED BY <1>2, <1>3, <1>4, <2>1 DEF Submit
<1>5. ASSUME NEW r \in Requests, WaiterReplies(r) \/ StreamYields(r)
      PROVE  Ended \subseteq Ended'
  BY <1>2, <1>5 DEF WaiterReplies, StreamYields
<1>6. ASSUME NEW r \in Requests, StreamTests(r)
      PROVE  Ended \subseteq Ended'
  <2>1. PICK s : stream' = [stream EXCEPT ![r] = s]
    BY <1>6 DEF StreamTests
  <2>2. QED BY <1>3, <1>6, <2>1 DEF StreamTests
<1>7. ASSUME NEW r \in Requests, StreamCounts(r)
      PROVE  Ended \subseteq Ended'
  <2>1. PICK s : s = IF stream[r] = "count" THEN "yield" ELSE "yieldLast"
    OBVIOUS
  <2>2. stream' = [stream EXCEPT ![r] = s]
    BY <1>7, <2>1 DEF StreamCounts
  <2>3. stream[r] # "end"
    BY <1>7 DEF StreamCounts, ClientInv, Served
  <2>4. QED BY <1>3, <2>2, <2>3
<1>8. ASSUME NEW r \in Requests, StreamSleeps(r) \/ StreamEnds(r)
      PROVE  Ended \subseteq Ended'
  BY <1>3, <1>8 DEF StreamSleeps, StreamEnds
<1>9. ASSUME NEW r \in Requests, StreamLeaves(r)
      PROVE  Ended \subseteq Ended'
  BY <1>3, <1>9 DEF StreamLeaves
<1>10. Delete \/ GenerationLoop \/ InferenceStep \/ Passing => UNCHANGED stream
  BY DEF Delete, GenerationLoop, InferenceStep, Passing, clientVars
<1>11. UNCHANGED serverVars => UNCHANGED stream
  BY DEF serverVars, clientVars
<1>12. QED
  BY <1>2, <1>4, <1>5, <1>6, <1>7, <1>8, <1>9, <1>10, <1>11, Zenon DEF ServerNext, StreamStep

\* What a step does to the record of completed requests.
LEMMA ReportSteps ==
    ASSUME IInv, dated \subseteq Requests, [MetricsNext]_metricsVars
    PROVE  \/ /\ dated \subseteq dated' /\ dated' \subseteq Requests
              /\ requests_completed' = requests_completed
              /\ unreported' \subseteq unreported
           \/ \E r \in Requests : EndsStream(r) \/ StreamRecords(r)
<1> DEFINE Rests == /\ dated \subseteq dated' /\ dated' \subseteq Requests
                    /\ requests_completed' = requests_completed
                    /\ unreported' \subseteq unreported
<1> USE DEF counterVars, recordVars
<1>1. pass \subseteq Requests
  BY DEF IInv, TypeOK
<1>2. ASSUME NEW r \in Requests,
             PrefillRecords(r) \/ PassRecords(r) \/ ErrorRecords(r) \/ ListRecords(r)
      PROVE  Rests
  BY <1>1, <1>2 DEF PrefillRecords, PassRecords, ErrorRecords, ListRecords, RecordsLater,
     DatedByEngine
<1>3. ASSUME NEW e, GroupRecords(e)
      PROVE  Rests
  BY <1>3 DEF GroupRecords, RecordsLater
<1>4. ASSUME RecordTokens \/ RecordTTFT
      PROVE  Rests
  BY <1>4 DEF RecordTokens, RecordTTFT
<1>5. ASSUME LoopRecords \/ Unrecorded
      PROVE  Rests
  BY <1>5 DEF LoopRecords, Unrecorded
<1>6. ASSUME NEW r, StreamLost(r)
      PROVE  Rests
  BY <1>6 DEF StreamLost
<1>7. ASSUME UNCHANGED metricsVars
      PROVE  Rests
  BY <1>7 DEF metricsVars
<1> HIDE DEF Rests
<1>8. Rests \/ \E r \in Requests : EndsStream(r) \/ StreamRecords(r)
  BY MetricsKinds, <1>2, <1>3, <1>4, <1>5, <1>6, <1>7, Zenon DEF Elsewhere
<1>9. QED
  BY <1>8 DEF Rests

\* total_requests_completed counts each stream that ended at most once, and none
\* whose request was aborted before the engine could finish it.
THEOREM CompletionsCounted == MetricsSpec => []CompletedCounted
<1> DEFINE Reported == (Ended \cap dated) \ unreported
<1>1. MetricsInit => ReportedOnce
  <2>1. ASSUME MetricsInit
        PROVE  ReportedOnce
    <3>1. dated = {} /\ unreported = {} /\ requests_completed = 0
      BY <2>1 DEF MetricsInit
    <3>2. (Ended \cap dated) \ unreported = {}
      BY <3>1
    <3>3. QED BY <3>1, <3>2, FS_EmptySet DEF ReportedOnce
  <2>2. QED BY <2>1
<1>2. ASSUME IInv, ClientInv, SetsFinite, SetsFinite', ReportedOnce, [MetricsNext]_metricsVars
      PROVE  ReportedOnce'
  <2>1. Ended \subseteq Ended'
    BY <1>2, EndedStays, MetricsStepsAreSteps
  <2>2. IsFiniteSet(Reported) /\ IsFiniteSet(Reported')
    BY <1>2, FS_Subset DEF SetsFinite
  <2>3. Cardinality(Reported) \in Nat /\ Cardinality(Reported') \in Nat
    BY <2>2, FS_CardinalityType
  <2>4. ASSUME dated \subseteq dated', dated' \subseteq Requests,
               requests_completed' = requests_completed, unreported' \subseteq unreported
        PROVE  ReportedOnce'
    <3>1. Reported \subseteq Reported'
      BY <2>1, <2>4
    <3>2. Cardinality(Reported) <= Cardinality(Reported')
      BY <2>2, <3>1, FS_Subset
    <3>3. QED BY <1>2, <2>1, <2>3, <2>4, <3>2 DEF ReportedOnce
  <2>5. ASSUME NEW r \in Requests, EndsStream(r)
        PROVE  ReportedOnce'
    <3>1. /\ unreported' = unreported \cup {r} /\ UNCHANGED <<dated, requests_completed>>
          /\ stream[r] # "end" /\ stream' = [stream EXCEPT ![r] = "end"]
      BY <2>5 DEF EndsStream, StreamEnds, counterVars, recordVars
    <3>2. r \notin Ended
      BY <3>1 DEF Ended
    <3>3. r \in Ended'
      BY <1>2, <3>1 DEF Ended, ClientInv, ClientTypeOK
    <3>4. Reported \subseteq Reported'
      BY <2>1, <3>1, <3>2
    <3>5. Cardinality(Reported) <= Cardinality(Reported')
      BY <2>2, <3>4, FS_Subset
    <3>6. QED BY <1>2, <2>1, <2>3, <3>1, <3>3, <3>5 DEF ReportedOnce
  <2>6. ASSUME NEW r \in Requests, StreamRecords(r)
        PROVE  ReportedOnce'
    <3>1. /\ r \in unreported /\ unreported' = unreported \ {r} /\ UNCHANGED dated
          /\ requests_completed' = requests_completed + (IF r \in dated THEN 1 ELSE 0)
      BY <2>6 DEF StreamRecords, recordVars
    <3>2. Ended' = Ended
      BY <2>6 DEF StreamRecords, serverVars, clientVars, Ended
    <3>3. CASE r \in dated
      <4>1. Reported' = Reported \cup {r} /\ r \notin Reported
        BY <1>2, <3>1, <3>2, <3>3 DEF ReportedOnce
      <4>2. Cardinality(Reported') = Cardinality(Reported) + 1
        BY <2>2, <4>1, FS_AddElement
      <4>3. QED BY <1>2, <2>3, <3>1, <3>2, <3>3, <4>2 DEF ReportedOnce
    <3>4. CASE r \notin dated
      <4>1. Reported' = Reported
        BY <3>1, <3>2, <3>4
      <4>2. QED BY <1>2, <3>1, <3>2, <3>4, <4>1 DEF ReportedOnce
    <3>5. QED BY <3>3, <3>4
  <2>7. QED
    BY <1>2, <2>4, <2>5, <2>6, ReportSteps DEF ReportedOnce
<1>3. ASSUME SetsFinite, ReportedOnce
      PROVE  CompletedCounted
  <2>1. PICK D : D = Ended \cap dated
    OBVIOUS
  <2>2. {r \in dated : stream[r] = "end"} = D /\ IsFiniteSet(D)
    BY <1>3, <2>1, FS_Subset DEF ReportedOnce, SetsFinite, Ended
  <2>3. D = (D \ unreported) \cup (unreported \cap dated)
    BY <1>3, <2>1 DEF ReportedOnce
  <2>4. (D \ unreported) \cap (unreported \cap dated) = {}
    OBVIOUS
  <2>5. IsFiniteSet(D \ unreported) /\ IsFiniteSet(unreported \cap dated)
    BY <2>2, <2>3, FS_Subset
  <2>6. Cardinality(D)
           = Cardinality(D \ unreported) + Cardinality(unreported \cap dated) - Cardinality({})
    BY <2>3, <2>4, <2>5, FS_Union
  <2>7. /\ Cardinality({}) = 0 /\ Cardinality(D \ unreported) \in Nat
        /\ Cardinality(unreported \cap dated) \in Nat
    BY <2>5, FS_EmptySet, FS_CardinalityType
  <2>8. requests_completed \in Nat /\ requests_completed <= Cardinality(D \ unreported)
    BY <1>3, <2>1 DEF ReportedOnce
  <2>9. PICK a \in Nat, b \in Nat :
           a = Cardinality(D \ unreported) /\ b = Cardinality(unreported \cap dated)
    BY <2>7
  <2>10. Cardinality(D) = a + b
    BY <2>6, <2>7, <2>9
  <2>11. requests_completed + Cardinality(unreported \cap dated) <= Cardinality(D)
    BY <2>8, <2>9, <2>10
  <2>12. QED BY <2>2, <2>11, Zenon DEF CompletedCounted
<1>4. QED
  BY <1>1, <1>2, <1>3, MetricsKnown, PTL DEF MetricsSpec

-----------------------------------------------------------------------------
(* First tokens. *)

\* The first token of a request is the one of its prefill: a request has none
\* before, and has one when it takes part in a pass.
FirstTokens ==
    /\ \A r \in Requests :
          status[r] \in {"NEW", "PENDING", "PREFILL"} => generated[r] = 0
    /\ \A r \in entering \cup prefilling : generated[r] = 0
    /\ \A r \in Requests :
          status[r] \in {"GENERATING", "PREEMPTED", "COMPLETE"} => generated[r] > 0
    /\ \A r \in group \cup pass : generated[r] > 0

LEMMA FirstTokensStep ==
    ASSUME IInv, FirstTokens, [Next]_vars
    PROVE  FirstTokens'
<1> USE DEF FirstTokens, SetStatus, requestVars, threadVars, loopVars
<1>1. TypeOK /\ OnePlace /\ ThreadOwns /\ Reaped
  BY DEF IInv
<1>2. generated \in [Requests -> Nat] /\ status \in [Requests -> Statuses]
  BY <1>1 DEF TypeOK
<1>3. \A r \in Requests : AddRequest(r) \/ AbortActive(r) => FirstTokens'
  BY <1>2 DEF AddRequest, AbortActive
<1>4. \A i : AbortPending(i) \/ AbortPreempted(i) => FirstTokens'
  BY <1>2 DEF AbortPending, AbortPreempted
<1>5. UNCHANGED requestVars /\ UNCHANGED <<entering, prefilling, group, pass>> => FirstTokens'
  OBVIOUS
<1>6. Tick \/ StartStep \/ ReapDone \/ SwapInDone \/ TryPreempt => FirstTokens'
  BY <1>5 DEF Tick, StartStep, ReapDone, SwapInDone, TryPreempt
<1>7. PreemptExhausted \/ AdmitDone \/ ReturnBatch \/ EndInfer => FirstTokens'
  BY <1>5 DEF PreemptExhausted, AdmitDone, ReturnBatch, EndInfer
<1>8. \A r \in Requests : Reap(r) \/ SkipFinished(r) => FirstTokens'
  BY <1>5 DEF Reap, SkipFinished
<1>9. ASSUME SwapInHead
      PROVE  FirstTokens'
  <2>1. PICK h \in Requests : h = Head(preempted) /\ InPreempted(h)
    BY <1>1, <1>9, PreemptedPopped, Zenon DEF SwapInHead, HeadComesBack, OnePlace
  <2>2. status[h] = "PREEMPTED"
    BY <1>1, <2>1 DEF OnePlace
  <2>3. QED BY <1>2, <1>9, <2>1, <2>2 DEF SwapInHead
<1>10. ASSUME AdmitHead
       PROVE  FirstTokens'
  <2>1. PICK h \in Requests : h = Head(pending) /\ InPending(h)
    BY <1>1, <1>10, PendingPopped, Zenon DEF AdmitHead, HeadAdmitted, HeadConsidered, OnePlace
  <2>2. status[h] = "PENDING"
    BY <1>1, <2>1 DEF OnePlace
  <2>3. QED BY <1>2, <1>10, <2>1, <2>2 DEF AdmitHead
<1>11. ASSUME NEW r \in Requests, PreemptOne(r)
       PROVE  FirstTokens'
  <2>1. r \in active /\ r \notin aborted /\ status[r] # "PREFILL" /\ ~IsFinished(r)
    BY <1>1, <1>11 DEF PreemptOne, Victim, Candidates, Reaped, OnePlace
  <2>2. status[r] = "GENERATING"
    BY <1>1, <2>1 DEF OnePlace, IsFinished
  <2>3. QED BY <1>2, <1>11, <2>2 DEF PreemptOne
<1>12. ASSUME NEW i \in DOMAIN pending, ForceAdd(i)
       PROVE  FirstTokens'
  <2>1. PICK h \in Requests : h = pending[i] /\ InPending(h)
    BY <1>1, <1>12, PendingRemoved, Zenon DEF ForceAdd, OnePlace
  <2>2. status[h] = "PENDING"
    BY <1>1, <2>1 DEF OnePlace
  <2>3. QED BY <1>2, <1>12, <2>1, <2>2 DEF ForceAdd
<1>13. \A i : ForceSkip(i) => FirstTokens'
  BY <1>5 DEF ForceSkip
<1>14. ASSUME NEW r \in Requests, CallPrefill(r) \/ Collect(r)
       PROVE  FirstTokens'
  BY <1>14 DEF CallPrefill, Collect
<1>15. ASSUME NEW r \in Requests, BeginPrefill(r)
       PROVE  FirstTokens'
  BY <1>2, <1>15 DEF BeginPrefill
<1>16. ASSUME NEW r \in Requests, EndPrefill(r)
       PROVE  FirstTokens'
  <2>1. PICK s \in {"COMPLETE", "GENERATING"} : status' = [status EXCEPT ![r] = s]
    BY <1>16 DEF EndPrefill, StatusAfterToken
  <2>2. /\ generated' = [generated EXCEPT ![r] = generated[r] + 1]
        /\ prefilling' = {} /\ entering' = {} /\ UNCHANGED <<group, pass>>
    BY <1>1, <1>16 DEF EndPrefill, ThreadOwns
  <2>3. generated'[r] > 0 /\ \A q \in Requests : q # r => generated'[q] = generated[q]
    BY <1>2, <2>2
  <2>4. group \cup pass \subseteq Requests
    BY <1>1 DEF TypeOK
  <2>5. QED BY <1>2, <2>1, <2>2, <2>3, <2>4
<1>17. ASSUME NEW r \in Requests, PrefillError(r)
       PROVE  FirstTokens'
  BY <1>2, <1>17 DEF PrefillError
<1>18. ASSUME NEW r \in Requests, EmitToken(r)
       PROVE  FirstTokens'
  <2>1. status' = [status EXCEPT ![r] = "COMPLETE"] \/ status' = status
    BY <1>18 DEF EmitToken, StatusAfterToken
  <2>2. /\ generated' = [generated EXCEPT ![r] = generated[r] + 1]
        /\ prefilling' = {} /\ entering' = {} /\ pass' \subseteq pass /\ group' = group
    BY <1>1, <1>18 DEF EmitToken, ThreadOwns, BetweenRequests
  <2>3. generated[r] > 0
    BY <1>1, <1>18 DEF EmitToken, ThreadOwns
  <2>4. generated'[r] > 0 /\ \A q \in Requests : q # r => generated'[q] = generated[q]
    BY <1>2, <2>2
  <2>5. group \cup pass \subseteq Requests
    BY <1>1 DEF TypeOK
  <2>6. QED BY <1>2, <2>1, <2>2, <2>3, <2>4, <2>5
<1>19. ASSUME NEW r \in Requests, DecodeError(r)
       PROVE  FirstTokens'
  <2>1. \A q \in Requests : status'[q] = status[q] \/ status'[q] = "FAILED"
    BY <1>19 DEF DecodeError
  <2>2. /\ generated' = generated \/ generated' = [generated EXCEPT ![r] = generated[r] + 1]
        /\ prefilling' = {} /\ entering' = {} /\ pass' = {} /\ group' = group
    BY <1>1, <1>19 DEF DecodeError, ThreadOwns, BetweenRequests
  <2>3. generated[r] > 0
    BY <1>1, <1>19 DEF DecodeError, ThreadOwns
  <2>4. generated'[r] > 0 /\ \A q \in Requests : q # r => generated'[q] = generated[q]
    BY <1>2, <2>2, <2>3
  <2>5. status[r] \notin {"NEW", "PENDING", "PREFILL"} /\ group \subseteq Requests
    BY <1>1, <2>3 DEF TypeOK
  <2>6. QED BY <1>2, <2>1, <2>2, <2>3, <2>4, <2>5
<1>20. ASSUME NEW e \in Engines, BeginDecode(e)
       PROVE  FirstTokens'
  <2>1. group' \cup pass' \subseteq group \cup pass /\ UNCHANGED <<entering, prefilling>>
    BY <1>20 DEF BeginDecode
  <2>2. QED BY <1>20, <2>1 DEF BeginDecode
<1>21. \A r \in Requests, k \in 1..NumBlocks : AllocateFor(r, k) => FirstTokens'
  BY <1>5 DEF AllocateFor
<1>22. UNCHANGED vars => FirstTokens'
  BY <1>5 DEF vars
<1> HIDE DEF FirstTokens
<1>23. QED
  BY <1>3, <1>4, <1>6, <1>7, <1>8, <1>9, <1>10, <1>11, <1>12, <1>13, <1>14, <1>15, <1>16,
     <1>17, <1>18, <1>19, <1>20, <1>21, <1>22, Zenon
  DEF Next, Abort, LoopStep, ThreadStep

LEMMA FirstTokensHold == Spec => []FirstTokens
<1>1. Init => FirstTokens
  BY DEF Init, FirstTokens
<1>2. IInv /\ FirstTokens /\ [Next]_vars => FirstTokens'
  BY FirstTokensStep
<1>3. QED
  BY <1>1, <1>2, Invariance, PTL DEF Spec

\* Elsewhere nothing is generated, and the thread's passes and counters rest.
LEMMA ElsewhereRests ==
    ASSUME IInv, Elsewhere
    PROVE  /\ UNCHANGED <<generated, entering, prefilling, group, pass, decoding>>
           /\ todo' \subseteq todo \cup active
           /\ UNCHANGED <<tokens_total, ttft_samples, owed, sampled>>
<1> DEFINE Rests == /\ UNCHANGED <<generated, entering, prefilling, group, pass, decoding>>
                    /\ todo' \subseteq todo \cup active
           Counters == UNCHANGED <<tokens_total, ttft_samples, owed, sampled>>
<1>1. UNCHANGED vars => Rests
  BY DEF vars, requestVars, threadVars
<1>2. \A r \in Requests : AddRequest(r) \/ AbortActive(r) \/ Reap(r) \/ PreemptOne(r) => Rests
  BY DEF AddRequest, AbortActive, Reap, PreemptOne, requestVars, threadVars
<1>3. \A i : AbortPending(i) \/ AbortPreempted(i) \/ ForceAdd(i) \/ ForceSkip(i) => Rests
  BY DEF AbortPending, AbortPreempted, ForceAdd, ForceSkip, requestVars, threadVars
<1>4. Tick \/ StartStep \/ ReapDone \/ SwapInHead \/ SwapInDone => Rests
  BY DEF Tick, StartStep, ReapDone, SwapInHead, SwapInDone, requestVars, threadVars
<1>5. AdmitHead \/ TryPreempt \/ PreemptExhausted \/ AdmitDone \/ ReturnBatch \/ EndInfer => Rests
  BY DEF AdmitHead, TryPreempt, PreemptExhausted, AdmitDone, ReturnBatch, EndInfer,
     requestVars, threadVars
<1> HIDE DEF Rests, Counters
<1>6. LoopRecords => Rests
  BY <1>2, <1>3, <1>4, <1>5, Zenon DEF LoopRecords, GenerationLoop, LoopStep
<1>7. \A r : EndsStream(r) \/ StreamRecords(r) \/ StreamLost(r) => Rests
  BY <1>1, Zenon DEF EndsStream, StreamEnds, StreamRecords, StreamLost, serverVars
<1>8. Unrecorded => Rests
  BY <1>1, <1>2, <1>3, <1>4, Zenon
  DEF Unrecorded, Submit, WaiterReplies, StreamLeaves, StreamTests, StreamCounts,
      StreamYields, StreamSleeps, Delete, Abort, Passing
<1>9. UNCHANGED metricsVars => Rests
  BY <1>1, Zenon DEF metricsVars, serverVars
<1>10. UNCHANGED <<counterVars, recordVars>> => Counters
  BY DEF counterVars, recordVars, Counters
<1>11. LoopRecords \/ Unrecorded => Counters
  BY <1>10, Zenon DEF LoopRecords, Unrecorded
<1>12. \A r : EndsStream(r) => Counters
  BY <1>10, Zenon DEF EndsStream
<1>13. \A r : StreamRecords(r) \/ StreamLost(r) => Counters
  BY DEF StreamRecords, StreamLost, counterVars, recordVars, Counters
<1>14. UNCHANGED metricsVars => Counters
  BY <1>10 DEF metricsVars
<1>15. Rests /\ Counters
  BY <1>6, <1>7, <1>8, <1>9, <1>11, <1>12, <1>13, <1>14, Zenon DEF Elsewhere
<1>16. QED
  BY <1>15 DEF Rests, Counters

Started == {r \in Requests \ Instant : generated[r] > 0}

Samples ==
    /\ sampled \in BOOLEAN
    /\ ttft_samples \in Nat
    /\ IsFiniteSet(Started)
    /\ SampledOnce

\* A step that starts no request and samples none keeps the account.
LEMMA SamplesRest ==
    ASSUME Samples, UNCHANGED <<sampled, ttft_samples>>, Started' = Started
    PROVE  Samples'
BY DEF Samples, SampledOnce, Started

\* Every request's first token gives one sample, no other token gives one, also
\* when the request is aborted under its prefill.
THEOREM FirstTokensSampled == MetricsSpec => []SampledOnce
<1>1. MetricsInit => Samples
  <2>1. ASSUME MetricsInit
        PROVE  Samples
    <3>1. Started = {} /\ sampled = FALSE /\ ttft_samples = 0
      BY <2>1 DEF MetricsInit, ServerInit, Init, Started
    <3>2. IsFiniteSet(Started) /\ Cardinality(Started) = 0
      BY <3>1, FS_EmptySet
    <3>3. ttft_samples + (IF sampled THEN 1 ELSE 0) = 0
      BY <3>1
    <3>4. SampledOnce
      BY <3>2, <3>3 DEF SampledOnce, Started
    <3>5. sampled \in BOOLEAN /\ ttft_samples \in Nat
      BY <3>1
    <3>6. QED BY <3>2, <3>4, <3>5 DEF Samples
  <2>2. QED BY <2>1
<1>2. ASSUME IInv, FirstTokens, Samples, [MetricsNext]_metricsVars
      PROVE  Samples'
  <2>1. generated \in [Requests -> Nat] /\ ThreadOwns
    BY <1>2 DEF IInv, TypeOK
  <2>2. generated' = generated => Started' = Started
    BY DEF Started
  <2>3. ASSUME NEW r \in Requests, PrefillRecords(r)
        PROVE  Samples'
    <3>1. /\ generated' = [generated EXCEPT ![r] = generated[r] + 1]
          /\ r \in prefilling /\ sampled' = SampleDue(r) /\ ~sampled
          /\ ttft_samples' = ttft_samples
      BY <2>3 DEF PrefillRecords, EndPrefill, ThreadFree, RecordsLater, counterVars
    <3>2. generated[r] = 0
      BY <1>2, <3>1 DEF FirstTokens
    <3>3. generated'[r] > 0
      BY <2>1, <3>1, <3>2
    <3>4. CASE r \in Instant
      <4>1. Started' = Started /\ UNCHANGED <<sampled, ttft_samples>>
        BY <1>2, <2>1, <3>1, <3>4 DEF SampleDue, Started, Samples
      <4>2. QED BY <1>2, <4>1, SamplesRest
    <3>5. CASE r \notin Instant
      <4>1. sampled' = TRUE
        BY <3>1, <3>5 DEF SampleDue
      <4>2. Started' = Started \cup {r} /\ r \notin Started
        BY <2>1, <3>1, <3>2, <3>3, <3>5 DEF Started
      <4>3. PICK S : S = Started
        OBVIOUS
      <4>4. /\ IsFiniteSet(S) /\ IsFiniteSet(S \cup {r})
            /\ Cardinality(S \cup {r}) = Cardinality(S) + 1
        BY <1>2, <4>2, <4>3, FS_AddElement DEF Samples
      <4>5. ttft_samples = Cardinality(S)
        BY <1>2, <3>1, <4>3 DEF Samples, SampledOnce, Started
      <4>6. ttft_samples' + 1 = Cardinality(Started') /\ IsFiniteSet(Started')
        BY <3>1, <4>2, <4>3, <4>4, <4>5
      <4>7. QED BY <1>2, <3>1, <4>6, <4>1 DEF Samples, SampledOnce, Started
    <3>6. QED BY <3>4, <3>5
  <2>4. ASSUME NEW r \in Requests, PassRecords(r)
        PROVE  Samples'
    <3>1. /\ generated' = [generated EXCEPT ![r] = generated[r] + 1] /\ r \in pass
          /\ UNCHANGED <<sampled, ttft_samples>>
      BY <2>1, <2>4 DEF PassRecords, EmitToken, RecordsLater, counterVars, ThreadOwns
    <3>2. generated[r] > 0
      BY <1>2, <3>1 DEF FirstTokens
    <3>3. Started' = Started
      BY <2>1, <3>1, <3>2 DEF Started
    <3>4. QED BY <1>2, <3>1, <3>3, SamplesRest
  <2>5. ASSUME NEW r \in Requests, ErrorRecords(r)
        PROVE  Samples'
    <3>1. /\ \/ generated' = generated
             \/ r \in pass /\ generated' = [generated EXCEPT ![r] = generated[r] + 1]
          /\ UNCHANGED <<sampled, ttft_samples>>
      BY <2>1, <2>5
      DEF ErrorRecords, PrefillError, DecodeError, RecordsLater, counterVars, ThreadOwns
    <3>2. r \in pass => generated[r] > 0
      BY <1>2 DEF FirstTokens
    <3>3. Started' = Started
      BY <2>1, <3>1, <3>2 DEF Started
    <3>4. QED BY <1>2, <3>1, <3>3, SamplesRest
  <2>6. ASSUME NEW r \in Requests, ListRecords(r)
        PROVE  Samples'
    <3>1. UNCHANGED <<generated, sampled, ttft_samples>>
      BY <2>6 DEF ListRecords, SkipFinished, CallPrefill, BeginPrefill, Collect, RecordsLater,
         counterVars, recordVars, requestVars
    <3>2. QED BY <1>2, <2>2, <3>1, SamplesRest
  <2>7. ASSUME NEW e \in Engines, GroupRecords(e)
        PROVE  Samples'
    <3>1. UNCHANGED <<generated, sampled, ttft_samples>>
      BY <2>7 DEF GroupRecords, BeginDecode, RecordsLater, counterVars, requestVars
    <3>2. QED BY <1>2, <2>2, <3>1, SamplesRest
  <2>8. ASSUME RecordTokens
        PROVE  Samples'
    <3>1. UNCHANGED <<generated, sampled, ttft_samples>>
      BY <2>8 DEF RecordTokens, serverVars, vars, requestVars
    <3>2. QED BY <1>2, <2>2, <3>1, SamplesRest
  <2>9. ASSUME RecordTTFT
        PROVE  Samples'
    <3>1. generated' = generated /\ sampled /\ ~sampled' /\ ttft_samples' = ttft_samples + 1
          /\ sampled' \in BOOLEAN
      BY <2>9 DEF RecordTTFT, serverVars, vars, requestVars
    <3>2. ttft_samples + 1 = Cardinality(Started) /\ ttft_samples \in Nat
      BY <1>2, <3>1 DEF Samples, SampledOnce, Started
    <3>3. QED BY <1>2, <2>2, <3>1, <3>2 DEF Samples, SampledOnce, Started
  <2>10. ASSUME Elsewhere
         PROVE  Samples'
    BY <1>2, <2>2, <2>10, ElsewhereRests, SamplesRest
  <2>11. QED
    BY <1>2, <2>3, <2>4, <2>5, <2>6, <2>7, <2>8, <2>9, <2>10, MetricsKinds
<1>3. Samples => SampledOnce
  BY DEF Samples
<1>4. QED
  BY <1>1, <1>2, <1>3, MetricsKnown, FirstTokensHold, MetricsImplementServer,
     ServerImplementsScheduler, PTL DEF MetricsSpec


-----------------------------------------------------------------------------
(* The scheduler's counters. *)

\* The requests that were admitted and not aborted: no step of schedule_step but
\* an admission changes this set.
Inside == active \cup Range(preempted) \cup completed

\* What a step of the generation loop is for the counters: it admits one request,
\* puts one aside, or only moves requests from one container to another.
Admits(h) ==
    /\ h \notin Inside \cup aborted /\ Inside' = Inside \cup {h}
    /\ Admissions = {h} /\ Preemptions = {}
    /\ UNCHANGED <<aborted, completed, preempted>>

PutsAside(r) ==
    /\ Inside' = Inside
    /\ Admissions = {} /\ Preemptions = {r}
    /\ UNCHANGED <<aborted, completed>>
    /\ Len(preempted') = Len(preempted) + 1

Moves ==
    /\ Inside' = Inside
    /\ Admissions = {} /\ Preemptions = {}
    /\ aborted' = aborted
    /\ completed \subseteq completed'
    /\ Len(preempted') <= Len(preempted)

LEMMA LoopCounts ==
    ASSUME IInv, LoopStep \/ EndInfer
    PROVE  Moves \/ \E r \in Requests : Admits(r) \/ PutsAside(r)
<1> USE DEF SetStatus, requestVars, queueVars, doneVars, loopVars
<1>1. TypeOK /\ OnePlace /\ Reaped
  BY DEF IInv
<1>2. preempted \in Seq(Requests) /\ Len(preempted) \in Nat /\ status \in [Requests -> Statuses]
  BY <1>1, LenProperties DEF TypeOK
<1>3. status' = status => Admissions = {} /\ Preemptions = {}
  BY DEF Admissions, Preemptions
<1>4. ASSUME UNCHANGED <<status, active, preempted, completed, aborted>>
      PROVE  Moves
  BY <1>2, <1>3, <1>4 DEF Moves, Inside
<1>5. StartStep \/ ReapDone \/ SwapInDone \/ TryPreempt => Moves
  BY <1>4 DEF StartStep, ReapDone, SwapInDone, TryPreempt
<1>6. PreemptExhausted \/ AdmitDone \/ ReturnBatch \/ EndInfer => Moves
  BY <1>4 DEF PreemptExhausted, AdmitDone, ReturnBatch, EndInfer
<1>7. \A i : ForceSkip(i) => Moves
  BY <1>4 DEF ForceSkip
<1>8. ASSUME NEW r \in Requests, Reap(r)
      PROVE  Moves
  BY <1>2, <1>3, <1>8 DEF Reap, Moves, Inside
<1>9. ASSUME SwapInHead
      PROVE  Moves
  <2>1. PICK h \in Requests : /\ h = Head(preempted) /\ InPreempted(h)
                              /\ Range(preempted') = Range(preempted) \ {h}
    BY <1>1, <1>9, PreemptedPopped, Zenon DEF SwapInHead, HeadComesBack, OnePlace
  <2>2. active' = active \cup {h} /\ UNCHANGED <<completed, aborted>>
    BY <1>9, <2>1 DEF SwapInHead
  <2>3. Inside' = Inside
    BY <2>1, <2>2 DEF Inside, InPreempted
  <2>4. status' = [status EXCEPT ![h] = "GENERATING"]
    BY <1>9, <2>1 DEF SwapInHead
  <2>5. Admissions = {} /\ Preemptions = {}
    BY <1>2, <2>4 DEF Admissions, Preemptions
  <2>6. Len(preempted') = Len(preempted) - 1
    BY <1>1, <1>2, <1>9, TailRange DEF SwapInHead, HeadComesBack, OnePlace
  <2>7. QED BY <1>2, <2>2, <2>3, <2>5, <2>6 DEF Moves
<1>10. ASSUME NEW h \in Requests, status[h] = "PENDING", h \notin aborted, InPending(h),
              active' = active \cup {h}, status' = [status EXCEPT ![h] = "PREFILL"],
              UNCHANGED <<preempted, completed, aborted>>
       PROVE  Admits(h)
  <2>1. h \notin Inside
    BY <1>1, <1>10 DEF OnePlace, Inside, InPreempted, IsFinished, Finished
  <2>2. Admissions = {h} /\ Preemptions = {}
    BY <1>2, <1>10 DEF Admissions, Preemptions
  <2>3. QED BY <1>10, <2>1, <2>2 DEF Admits, Inside
<1>11. ASSUME AdmitHead
       PROVE  \E h \in Requests : Admits(h)
  <2>1. PICK h \in Requests : h = Head(pending) /\ InPending(h)
    BY <1>1, <1>11, PendingPopped, Zenon DEF AdmitHead, HeadAdmitted, HeadConsidered, OnePlace
  <2>2. status[h] = "PENDING" /\ h \notin aborted
    BY <1>1, <2>1 DEF OnePlace
  <2>3. QED BY <1>10, <1>11, <2>1, <2>2 DEF AdmitHead
<1>12. ASSUME NEW i \in DOMAIN pending, ForceAdd(i)
       PROVE  \E h \in Requests : Admits(h)
  <2>1. PICK h \in Requests : h = pending[i] /\ InPending(h)
    BY <1>1, <1>12, PendingRemoved, Zenon DEF ForceAdd, OnePlace
  <2>2. status[h] = "PENDING" /\ h \notin aborted
    BY <1>1, <2>1 DEF OnePlace
  <2>3. QED BY <1>10, <1>12, <2>1, <2>2 DEF ForceAdd
<1>13. ASSUME NEW r \in Requests, PreemptOne(r)
       PROVE  PutsAside(r)
  <2>1. r \in active /\ active' = active \ {r} /\ UNCHANGED <<completed, aborted>>
    BY <1>13 DEF PreemptOne, Victim, Candidates
  <2>2. preempted' = Append(preempted, r)
    BY <1>13 DEF PreemptOne
  <2>3. Range(preempted') = Range(preempted) \cup {r} /\ Len(preempted') = Len(preempted) + 1
    BY <1>2, <2>2, AppendRange, AppendProperties
  <2>4. r \notin aborted /\ ~IsFinished(r)
    BY <1>1, <1>13, <2>1 DEF OnePlace, Reaped, PreemptOne
  <2>5. status[r] # "PREEMPTED" /\ status' = [status EXCEPT ![r] = "PREEMPTED"]
    BY <1>1, <1>13, <2>1, <2>4 DEF OnePlace, PreemptOne, Finished
  <2>6. Admissions = {} /\ Preemptions = {r}
    BY <1>2, <2>5 DEF Admissions, Preemptions
  <2>7. Inside' = Inside
    BY <2>1, <2>3 DEF Inside
  <2>8. QED BY <2>1, <2>3, <2>6, <2>7 DEF PutsAside
<1>14. QED
  BY <1>5, <1>6, <1>7, <1>8, <1>9, <1>11, <1>12, <1>13, Zenon DEF LoopStep

\* Every other step leaves the counters alone and the containers too, unless it
\* aborts a request.
LEMMA OutsideLoop ==
    ASSUME [MetricsNext]_metricsVars
    PROVE  \/ LoopRecords
           \/ /\ UNCHANGED statVars
              /\ Abort \/ UNCHANGED <<active, preempted, completed, aborted>>
<1> DEFINE Rests == UNCHANGED <<active, preempted, completed, aborted>>
<1> USE DEF queueVars, doneVars
<1>1. UNCHANGED vars => Rests
  BY DEF vars
<1>2. \A r : AddRequest(r) => Rests
  BY DEF AddRequest
<1>3. Tick => Rests
  BY DEF Tick
<1>4. \A r : SkipFinished(r) \/ CallPrefill(r) \/ BeginPrefill(r) \/ Collect(r) => Rests
  BY DEF SkipFinished, CallPrefill, BeginPrefill, Collect
<1>5. \A r : EndPrefill(r) \/ PrefillError(r) \/ EmitToken(r) \/ DecodeError(r) => Rests
  BY DEF EndPrefill, PrefillError, EmitToken, DecodeError
<1>6. \A e : BeginDecode(e) => Rests
  BY DEF BeginDecode
<1> HIDE DEF Rests
<1>7. \A r : PrefillRecords(r) \/ PassRecords(r) \/ ErrorRecords(r) \/ ListRecords(r)
         => Rests /\ UNCHANGED statVars
  BY <1>4, <1>5, Zenon DEF PrefillRecords, PassRecords, ErrorRecords, ListRecords, RecordsLater
<1>8. \A e : GroupRecords(e) => Rests /\ UNCHANGED statVars
  BY <1>6, Zenon DEF GroupRecords, RecordsLater
<1>9. RecordTokens \/ RecordTTFT => Rests /\ UNCHANGED statVars
  BY <1>1, Zenon DEF RecordTokens, RecordTTFT, serverVars
<1>10. \A r : EndsStream(r) => Rests /\ UNCHANGED statVars
  BY <1>1, Zenon DEF EndsStream, StreamEnds
<1>11. \A r : StreamRecords(r) \/ StreamLost(r) => Rests /\ UNCHANGED statVars
  BY <1>1, Zenon DEF StreamRecords, StreamLost, serverVars
<1>12. Unrecorded => UNCHANGED statVars /\ (Abort \/ Rests)
  BY <1>1, <1>2, <1>3, Zenon
  DEF Unrecorded, Submit, WaiterReplies, StreamLeaves, StreamTests, StreamCounts,
      StreamYields, StreamSleeps, Delete, Passing
<1>13. UNCHANGED metricsVars => Rests /\ UNCHANGED statVars
  BY <1>1, Zenon DEF metricsVars, serverVars
<1>14. LoopRecords \/ (UNCHANGED statVars /\ (Abort \/ Rests))
  BY MetricsKinds, <1>7, <1>8, <1>9, <1>10, <1>11, <1>12, <1>13, Zenon DEF Elsewhere
<1>15. QED
  BY <1>14, Zenon DEF Rests

\* An abort takes a request out of its container for good.
LEMMA AbortCounts ==
    ASSUME IInv, Abort
    PROVE  /\ Inside' \subseteq Inside
           /\ Inside \cup aborted \subseteq Inside' \cup aborted'
           /\ completed' = completed
           /\ Len(preempted') <= Len(preempted)
<1>1. TypeOK /\ OnePlace
  BY DEF IInv
<1>2. preempted \in Seq(Requests) /\ Len(preempted) \in Nat
  BY <1>1, LenProperties DEF TypeOK
<1>3. CASE \E r \in Requests : AbortActive(r)
  BY <1>2, <1>3 DEF AbortActive, Inside
<1>4. CASE \E i \in DOMAIN pending : AbortPending(i)
  BY <1>2, <1>4 DEF AbortPending, Inside
<1>5. ASSUME NEW i \in DOMAIN preempted, AbortPreempted(i)
      PROVE  /\ Inside' \subseteq Inside
             /\ Inside \cup aborted \subseteq Inside' \cup aborted'
             /\ completed' = completed
             /\ Len(preempted') <= Len(preempted)
  <2>1. PICK r : r = preempted[i]
    OBVIOUS
  <2>2. /\ active' = active /\ completed' = completed /\ aborted' = aborted \cup {r}
        /\ preempted' = RemoveAt(preempted, i)
    BY <1>5, <2>1 DEF AbortPreempted
  <2>3. Range(preempted') = Range(preempted) \ {r}
    BY <1>1, <2>1, <2>2, PreemptedRemoved, Zenon DEF OnePlace
  <2>4. i \in 1..Len(preempted)
    BY <1>2, LenProperties
  <2>5. Len(preempted') = Len(preempted) - 1
    BY <1>2, <2>2, <2>4, RemoveAtElements
  <2>6. QED BY <1>2, <2>2, <2>3, <2>5 DEF Inside
<1>6. QED
  BY <1>3, <1>4, <1>5, Zenon DEF Abort

Counts ==
    /\ total_scheduled \in Nat /\ total_completed \in Nat /\ total_preempted \in Nat
    /\ Cardinality(Inside) <= total_scheduled
    /\ total_scheduled <= Cardinality(Inside \cup aborted)
    /\ total_completed = Cardinality(completed)
    /\ Len(preempted) <= total_preempted

\* The scheduler counts each request once when it enters the batch and once when
\* it is reaped, whichever step admits it and however often it is preempted.
THEOREM SchedulerCountsOnce == MetricsSpec => []CountedOnce
<1>1. MetricsInit => Counts
  <2>1. ASSUME MetricsInit
        PROVE  Counts
    <3>1. /\ active = {} /\ preempted = <<>> /\ completed = {} /\ aborted = {}
          /\ total_scheduled = 0 /\ total_completed = 0 /\ total_preempted = 0
      BY <2>1 DEF MetricsInit, ServerInit, Init
    <3>2. Range(preempted) = {} /\ Len(preempted) = 0
      BY <3>1 DEF Range
    <3>3. Inside = {} /\ Inside \cup aborted = {}
      BY <3>1, <3>2 DEF Inside
    <3>4. QED BY <3>1, <3>2, <3>3, FS_EmptySet DEF Counts
  <2>2. QED BY <2>1
<1>2. ASSUME IInv, SetsFinite, SetsFinite', Counts, [MetricsNext]_metricsVars
      PROVE  Counts'
  <2>1. IsFiniteSet(Inside) /\ IsFiniteSet(Inside \cup aborted) /\ IsFiniteSet(completed)
    BY <1>2, FS_Union DEF SetsFinite, Inside
  <2>2. IsFiniteSet(Inside') /\ IsFiniteSet((Inside \cup aborted)') /\ IsFiniteSet(completed')
    BY <1>2, FS_Union DEF SetsFinite, Inside
  <2>3. /\ Cardinality(Inside) \in Nat /\ Cardinality(Inside \cup aborted) \in Nat
        /\ Cardinality(Inside') \in Nat /\ Cardinality((Inside \cup aborted)') \in Nat
        /\ Cardinality(completed) \in Nat /\ Cardinality(completed') \in Nat
    BY <2>1, <2>2, FS_CardinalityType
  <2>4. Len(preempted) \in Nat
    BY <1>2, LenProperties DEF IInv, TypeOK
  <2>5. ASSUME Abort, UNCHANGED statVars
        PROVE  Counts'
    <3>1. /\ Inside' \subseteq Inside /\ Inside \cup aborted \subseteq Inside' \cup aborted'
          /\ completed' = completed /\ Len(preempted') <= Len(preempted)
      BY <1>2, <2>5, AbortCounts
    <3>2. Cardinality(Inside') <= Cardinality(Inside)
      BY <2>1, <3>1, FS_Subset
    <3>3. Cardinality(Inside \cup aborted) <= Cardinality(Inside' \cup aborted')
      BY <2>2, <3>1, FS_Subset
    <3>4. UNCHANGED <<total_scheduled, total_completed, total_preempted>>
      BY <2>5 DEF statVars
    <3>5. PICK l : l = Len(preempted')
      OBVIOUS
    <3>6. QED BY <1>2, <2>3, <2>4, <3>1, <3>2, <3>3, <3>4 DEF Counts
  <2>6. ASSUME UNCHANGED <<active, preempted, completed, aborted>>, UNCHANGED statVars
        PROVE  Counts'
    BY <1>2, <2>6 DEF Counts, Inside, statVars
  <2>7. ASSUME LoopRecords
        PROVE  Counts'
    <3>1. /\ total_scheduled' = total_scheduled + Cardinality(Admissions)
          /\ total_preempted' = total_preempted + Cardinality(Preemptions)
          /\ total_completed' = total_completed + Cardinality(completed' \ completed)
          /\ LoopStep \/ EndInfer
      BY <2>7 DEF LoopRecords, GenerationLoop
    <3>2. \A r : Cardinality({r}) = 1
      BY FS_Singleton
    <3>3. Cardinality({}) = 0
      BY FS_EmptySet
    <3>4. PICK a \in Nat, b \in Nat, c \in Nat :
             a = total_scheduled /\ b = total_preempted /\ c = total_completed
      BY <1>2 DEF Counts
    <3>5. ASSUME NEW h \in Requests, Admits(h)
          PROVE  Counts'
      <4>1. /\ Cardinality(Inside') = Cardinality(Inside) + 1
            /\ Cardinality(Inside' \cup aborted') = Cardinality(Inside \cup aborted) + 1
        <5>1. Inside' \cup aborted' = (Inside \cup aborted) \cup {h} /\ h \notin Inside \cup aborted
          BY <3>5 DEF Admits
        <5>2. Inside' = Inside \cup {h} /\ h \notin Inside
          BY <3>5 DEF Admits
        <5>3. QED BY <2>1, <5>1, <5>2, FS_AddElement
      <4>2. Cardinality(Admissions) = 1 /\ Cardinality(Preemptions) = 0
        BY <3>2, <3>3, <3>5 DEF Admits
      <4>3. completed' = completed /\ completed' \ completed = {} /\ preempted' = preempted
        BY <3>5 DEF Admits
      <4>4. Cardinality(completed' \ completed) = 0
        BY <3>3, <4>3, Zenon
      <4>5. /\ total_scheduled' = total_scheduled + 1 /\ total_preempted' = total_preempted
            /\ total_completed' = total_completed
        BY <3>1, <3>4, <4>2, <4>4
      <4>6. QED BY <1>2, <2>3, <4>1, <4>3, <4>5 DEF Counts
    <3>6. ASSUME NEW r \in Requests, PutsAside(r)
          PROVE  Counts'
      <4>1. Cardinality(Admissions) = 0 /\ Cardinality(Preemptions) = 1
        BY <3>2, <3>3, <3>6 DEF PutsAside
      <4>2. /\ UNCHANGED <<completed, aborted>> /\ completed' \ completed = {} /\ Inside' = Inside
            /\ Len(preempted') = Len(preempted) + 1
        BY <3>6 DEF PutsAside
      <4>3. Cardinality(completed' \ completed) = 0
        BY <3>3, <4>2, Zenon
      <4>4. /\ total_scheduled' = total_scheduled /\ total_preempted' = total_preempted + 1
            /\ total_completed' = total_completed
        BY <3>1, <3>4, <4>1, <4>3
      <4>5. QED BY <1>2, <2>4, <4>2, <4>4 DEF Counts
    <3>7. ASSUME Moves
          PROVE  Counts'
      <4>1. Cardinality(Admissions) = 0 /\ Cardinality(Preemptions) = 0
        BY <3>3, <3>7 DEF Moves
      <4>2. /\ aborted' = aborted /\ completed \subseteq completed' /\ Inside' = Inside
            /\ Len(preempted') <= Len(preempted)
        BY <3>7 DEF Moves
      <4>3. PICK New : New = completed' \ completed
        OBVIOUS
      <4>4. completed' = completed \cup New /\ completed \cap New = {} /\ IsFiniteSet(New)
        BY <2>2, <4>2, <4>3, FS_Subset
      <4>5. Cardinality(completed') = Cardinality(completed) + Cardinality(New) - Cardinality({})
        BY <2>1, <4>4, FS_Union
      <4>6. PICK n \in Nat : n = Cardinality(New)
        BY <4>4, FS_CardinalityType
      <4>7. Cardinality(completed') = Cardinality(completed) + n
        BY <2>3, <3>3, <4>5, <4>6
      <4>8. /\ total_scheduled' = total_scheduled /\ total_preempted' = total_preempted
            /\ total_completed' = total_completed + n
        BY <1>2, <3>1, <4>1, <4>3, <4>6 DEF Counts
      <4>9. PICK l : l = Len(preempted')
        OBVIOUS
      <4>10. QED BY <1>2, <2>3, <2>4, <4>2, <4>7, <4>8 DEF Counts
    <3>8. QED BY <1>2, <3>1, <3>5, <3>6, <3>7, LoopCounts
  <2>8. QED BY <1>2, <2>5, <2>6, <2>7, OutsideLoop
<1>3. Counts => CountedOnce
  BY DEF Counts, CountedOnce, Inside
<1>4. QED
  BY <1>1, <1>2, <1>3, MetricsKnown, PTL DEF MetricsSpec


-----------------------------------------------------------------------------
(* Generated tokens. *)

\* What the thread works on is in one of its lists only, and a request waits for
\* its pass while it generates, unless it is aborted there: only aborted requests
\* are skipped by a pass.
GroupGenerates ==
    /\ todo \cap (entering \cup prefilling \cup group \cup pass) = {}
    /\ group \cap (entering \cup prefilling \cup pass) = {}
    /\ \A r \in group : r \in aborted \/ status[r] = "GENERATING"

LEMMA GroupStep ==
    ASSUME IInv, GroupGenerates, [Next]_vars
    PROVE  GroupGenerates'
<1> USE DEF GroupGenerates, SetStatus, requestVars, doneVars, threadVars
<1>1. TypeOK /\ OnePlace /\ ThreadOwns
  BY DEF IInv
<1>2. status \in [Requests -> Statuses] /\ group \subseteq Requests
  BY <1>1 DEF TypeOK
<1>3. pc # "infer" => ThreadDone /\ group \cup entering \cup prefilling \cup pass = {}
  BY <1>1 DEF ThreadOwns, ThreadDone, BetweenRequests
<1>4. UNCHANGED <<threadVars, status, aborted>> => GroupGenerates'
  OBVIOUS
<1>5. ASSUME NEW r \in Requests, status[r] = "NEW" \/ r \in aborted',
             \E s \in Statuses : status' = [status EXCEPT ![r] = s],
             UNCHANGED threadVars, aborted \subseteq aborted'
      PROVE  GroupGenerates'
  BY <1>2, <1>5
<1>6. ASSUME NEW r \in Requests, AddRequest(r) \/ AbortActive(r)
      PROVE  GroupGenerates'
  BY <1>5, <1>6 DEF AddRequest, AbortActive, Statuses, Finished, Live
<1>7. ASSUME NEW i \in DOMAIN pending, AbortPending(i)
      PROVE  GroupGenerates'
  <2>1. pending[i] \in Requests
    BY <1>1, <1>7, PendingRemoved, Zenon DEF AbortPending, OnePlace
  <2>2. QED BY <1>5, <1>7, <2>1 DEF AbortPending, Statuses, Finished, Live
<1>8. ASSUME NEW i \in DOMAIN preempted, AbortPreempted(i)
      PROVE  GroupGenerates'
  <2>1. preempted[i] \in Requests
    BY <1>1, <1>8, PreemptedRemoved, Zenon DEF AbortPreempted, OnePlace
  <2>2. QED BY <1>5, <1>8, <2>1 DEF AbortPreempted, Statuses, Finished, Live
<1>9. Tick \/ EndInfer \/ UNCHANGED vars => GroupGenerates'
  BY <1>4 DEF Tick, EndInfer, vars
<1>10. ASSUME NEW r, NEW k, AllocateFor(r, k)
       PROVE  GroupGenerates'
  BY <1>4, <1>10 DEF AllocateFor
<1>11. ASSUME LoopStep
       PROVE  GroupGenerates'
  <2>1. pc # "infer"
    BY <1>11
    DEF LoopStep, StartStep, Reap, ReapDone, SwapInHead, SwapInDone, AdmitHead, TryPreempt,
        PreemptOne, PreemptExhausted, AdmitDone, ForceAdd, ForceSkip, ReturnBatch
  <2>2. UNCHANGED <<entering, prefilling, group, pass>>
    BY <1>11
    DEF LoopStep, StartStep, Reap, ReapDone, SwapInHead, SwapInDone, AdmitHead, TryPreempt,
        PreemptOne, PreemptExhausted, AdmitDone, ForceAdd, ForceSkip, ReturnBatch
  <2>3. QED BY <1>3, <2>1, <2>2
<1>12. ASSUME NEW r \in Requests, SkipFinished(r) \/ CallPrefill(r) \/ Collect(r)
       PROVE  GroupGenerates'
  BY <1>1, <1>12 DEF SkipFinished, CallPrefill, Collect, ThreadOwns, BetweenRequests
<1>13. ASSUME NEW r \in Requests, BeginPrefill(r) \/ EndPrefill(r) \/ PrefillError(r)
       PROVE  GroupGenerates'
  <2>1. r \notin group /\ \A q \in Requests \ {r} : status'[q] = status[q]
    BY <1>2, <1>13 DEF BeginPrefill, EndPrefill, PrefillError
  <2>2. QED BY <1>2, <1>13, <2>1 DEF BeginPrefill, EndPrefill, PrefillError
<1>14. ASSUME NEW r \in Requests, EmitToken(r) \/ DecodeError(r)
       PROVE  GroupGenerates'
  <2>1. \A q \in group : status'[q] = status[q]
    BY <1>1, <1>2, <1>14 DEF EmitToken, DecodeError, ThreadOwns
  <2>2. QED BY <1>2, <1>14, <2>1 DEF EmitToken, DecodeError
<1>15. ASSUME NEW e \in Engines, BeginDecode(e)
       PROVE  GroupGenerates'
  BY <1>1, <1>15 DEF BeginDecode, BetweenRequests
<1> HIDE DEF GroupGenerates
<1>16. QED
  BY <1>6, <1>7, <1>8, <1>9, <1>10, <1>11, <1>12, <1>13, <1>14, <1>15, Zenon
  DEF Next, Abort, ThreadStep

LEMMA GroupHolds == Spec => []GroupGenerates
<1>1. Init => GroupGenerates
  BY DEF Init, GroupGenerates
<1>2. IInv /\ GroupGenerates /\ [Next]_vars => GroupGenerates'
  BY GroupStep
<1>3. QED
  BY <1>1, <1>2, Invariance, PTL DEF Spec

\* The requests that failed and are out of the thread's hands, and the aborted ones
\* that the pass they were collected for has skipped or served: where the counter
\* and the tokens may differ, by one each.
Lost == Failed \ (entering \cup prefilling \cup group \cup pass)
Overcounted == aborted \ (todo \cup group \cup decoding)

\* A request that is lost for the count, or counted once too often, stays so.
LEMMA AccountGrows ==
    ASSUME IInv, GroupGenerates, [Next]_vars
    PROVE  Lost \subseteq Lost' /\ Overcounted \subseteq Overcounted'
<1> DEFINE Grows == Lost \subseteq Lost' /\ Overcounted \subseteq Overcounted'
<1> USE DEF SetStatus, requestVars, doneVars, threadVars
<1>1. TypeOK /\ OnePlace /\ ThreadOwns /\ Reaped
  BY DEF IInv
<1>2. status \in [Requests -> Statuses]
  BY <1>1 DEF TypeOK
<1>3. UNCHANGED <<threadVars, status, aborted>> => Grows
  BY DEF Lost, Overcounted, Failed
<1>4. ASSUME NEW r \in Requests, status[r] # "FAILED" \/ status'[r] = "FAILED",
             \E s \in Statuses : status' = [status EXCEPT ![r] = s],
             UNCHANGED threadVars, aborted \subseteq aborted'
      PROVE  Grows
  BY <1>2, <1>4 DEF Lost, Overcounted, Failed
<1>5. ASSUME NEW r \in Requests, AddRequest(r) \/ AbortActive(r)
      PROVE  Grows
  BY <1>2, <1>4, <1>5 DEF AddRequest, AbortActive, Statuses, Finished, Live
<1>6. ASSUME NEW i \in DOMAIN pending, AbortPending(i)
      PROVE  Grows
  <2>1. pending[i] \in Requests
    BY <1>1, <1>6, PendingRemoved, Zenon DEF AbortPending, OnePlace
  <2>2. QED BY <1>2, <1>4, <1>6, <2>1 DEF AbortPending, Statuses, Finished, Live
<1>7. ASSUME NEW i \in DOMAIN preempted, AbortPreempted(i)
      PROVE  Grows
  <2>1. preempted[i] \in Requests
    BY <1>1, <1>7, PreemptedRemoved, Zenon DEF AbortPreempted, OnePlace
  <2>2. QED BY <1>2, <1>4, <1>7, <2>1 DEF AbortPreempted, Statuses, Finished, Live
<1>8. Tick \/ StartStep \/ ReapDone \/ SwapInDone \/ TryPreempt => Grows
  BY <1>3 DEF Tick, StartStep, ReapDone, SwapInDone, TryPreempt
<1>9. PreemptExhausted \/ AdmitDone \/ EndInfer \/ UNCHANGED vars => Grows
  BY <1>3 DEF PreemptExhausted, AdmitDone, EndInfer, vars
<1>10. \A r, k : Reap(r) \/ ForceSkip(r) \/ AllocateFor(r, k) => Grows
  BY <1>3 DEF Reap, ForceSkip, AllocateFor
<1>11. ASSUME ReturnBatch
       PROVE  Grows
  <2>1. active \cap aborted = {}
    BY <1>1 DEF OnePlace
  <2>2. QED BY <1>11, <2>1 DEF ReturnBatch, Lost, Overcounted, Failed
<1>12. ASSUME SwapInHead
       PROVE  Grows
  <2>1. PICK h \in Requests : h = Head(preempted) /\ InPreempted(h)
    BY <1>1, <1>12, PreemptedPopped, Zenon DEF SwapInHead, HeadComesBack, OnePlace
  <2>2. status[h] = "PREEMPTED"
    BY <1>1, <2>1 DEF OnePlace
  <2>3. QED BY <1>4, <1>12, <2>1, <2>2 DEF SwapInHead, Statuses, Live
<1>13. ASSUME AdmitHead
       PROVE  Grows
  <2>1. PICK h \in Requests : h = Head(pending) /\ InPending(h)
    BY <1>1, <1>13, PendingPopped, Zenon DEF AdmitHead, HeadAdmitted, HeadConsidered, OnePlace
  <2>2. status[h] = "PENDING"
    BY <1>1, <2>1 DEF OnePlace
  <2>3. QED BY <1>4, <1>13, <2>1, <2>2 DEF AdmitHead, Statuses, Live
<1>14. ASSUME NEW i \in DOMAIN pending, ForceAdd(i)
       PROVE  Grows
  <2>1. PICK h \in Requests : h = pending[i] /\ InPending(h)
    BY <1>1, <1>14, PendingRemoved, Zenon DEF ForceAdd, OnePlace
  <2>2. status[h] = "PENDING"
    BY <1>1, <2>1 DEF OnePlace
  <2>3. QED BY <1>4, <1>14, <2>1, <2>2 DEF ForceAdd, Statuses, Live
<1>15. ASSUME NEW r \in Requests, PreemptOne(r)
       PROVE  Grows
  <2>1. status[r] # "FAILED"
    BY <1>1, <1>15 DEF PreemptOne, Victim, Candidates, Reaped, IsFinished, Finished
  <2>2. QED BY <1>4, <1>15, <2>1 DEF PreemptOne, Statuses, Live
<1>16. ASSUME NEW r \in Requests, SkipFinished(r) \/ CallPrefill(r) \/ Collect(r)
       PROVE  Grows
  BY <1>16 DEF SkipFinished, CallPrefill, Collect, Lost, Overcounted, Failed
<1>17. ASSUME NEW r \in Requests, BeginPrefill(r) \/ EndPrefill(r) \/ PrefillError(r)
       PROVE  Grows
  <2>1. r \in entering \cup prefilling /\ \A q \in Requests \ {r} : status'[q] = status[q]
    BY <1>2, <1>17 DEF BeginPrefill, EndPrefill, PrefillError
  <2>2. entering' \cup prefilling' \subseteq entering \cup prefilling
    BY <1>17 DEF BeginPrefill, EndPrefill, PrefillError
  <2>3. UNCHANGED <<todo, group, pass, decoding, aborted>>
    BY <1>17 DEF BeginPrefill, EndPrefill, PrefillError
  <2>4. QED BY <2>1, <2>2, <2>3 DEF Lost, Overcounted, Failed
<1>18. ASSUME NEW r \in Requests, EmitToken(r) \/ DecodeError(r)
       PROVE  Grows
  <2>1. \A q \in Requests \ pass : status'[q] = status[q]
    BY <1>1, <1>2, <1>18 DEF EmitToken, DecodeError, ThreadOwns
  <2>2. pass' \subseteq pass /\ decoding' \subseteq decoding
    BY <1>18 DEF EmitToken, DecodeError
  <2>3. UNCHANGED <<todo, entering, prefilling, group, aborted>>
    BY <1>18 DEF EmitToken, DecodeError
  <2>4. QED BY <2>1, <2>2, <2>3 DEF Lost, Overcounted, Failed
<1>19. ASSUME NEW e \in Engines, BeginDecode(e)
       PROVE  Grows
  <2>1. group' \cup pass' \subseteq group \cup pass /\ group' \cup decoding' \subseteq group
    BY <1>19 DEF BeginDecode
  <2>2. UNCHANGED <<todo, entering, prefilling, status, aborted>>
    BY <1>19 DEF BeginDecode
  <2>3. QED BY <2>1, <2>2 DEF Lost, Overcounted, Failed
<1> HIDE DEF Grows
<1>20. Grows
  BY <1>5, <1>6, <1>7, <1>8, <1>9, <1>10, <1>11, <1>12, <1>13, <1>14, <1>15, <1>16, <1>17,
     <1>18, <1>19, Zenon
  DEF Next, Abort, LoopStep, ThreadStep
<1>21. QED
  BY <1>20 DEF Grows

\* What is recorded, or still to be recorded when the engine call returns.
Recorded == tokens_total + owed + Cardinality(pass \ decoding)

TokensAccounted ==
    /\ Generated <= Recorded + Cardinality(Lost)
    /\ Recorded <= Generated + Cardinality(Overcounted)

Tokens ==
    /\ IsFiniteSet(Slots(generated, Requests))
    /\ tokens_total \in Nat /\ owed \in Nat
    /\ TokensAccounted

\* One token more is one slot more.
LEMMA OneTokenMore ==
    ASSUME generated \in [Requests -> Nat], NEW r \in Requests,
           generated' = [generated EXCEPT ![r] = generated[r] + 1],
           IsFiniteSet(Slots(generated, Requests))
    PROVE  /\ IsFiniteSet(Slots(generated, Requests)')
           /\ Generated' = Generated + 1
<1>1. PICK n \in Nat : n = generated[r] + 1
  OBVIOUS
<1>2. PICK next : next = generated'
  OBVIOUS
<1>3. next = [generated EXCEPT ![r] = n]
  BY <1>1, <1>2
<1>4. /\ IsFiniteSet(Slots(next, Requests))
      /\ Cardinality(Slots(next, Requests))
           = Cardinality(Slots(generated, Requests)) - generated[r] + n
  BY <1>3, SlotsChange
<1>5. PICK c \in Nat : c = Cardinality(Slots(generated, Requests))
  BY FS_CardinalityType
<1>6. Cardinality(Slots(next, Requests)) = c + 1
  BY <1>1, <1>4, <1>5
<1>7. Slots(generated, Requests)' = Slots(next, Requests)
  BY <1>2
<1>8. QED
  BY <1>4, <1>5, <1>6, <1>7 DEF Generated

\* total_tokens_generated is the number of generated tokens, but for the pass that
\* is running, at most one token too few for each failed request, and at most one
\* too many for each aborted one.
THEOREM TokensAreCounted == MetricsSpec => []TokensCounted
<1>1. MetricsInit => Tokens
  <2>1. ASSUME MetricsInit
        PROVE  Tokens
    <3>1. /\ \A r \in Requests : generated[r] = 0
          /\ pass = {} /\ aborted = {} /\ tokens_total = 0 /\ owed = 0
          /\ \A r \in Requests : status[r] = "NEW"
      BY <2>1 DEF MetricsInit, ServerInit, Init
    <3>2. IsFiniteSet(Slots(generated, Requests)) /\ Generated = 0
      BY <3>1, SlotsNone DEF Generated
    <3>3. Lost = {} /\ Overcounted = {} /\ pass \ decoding = {}
      BY <3>1 DEF Lost, Failed, Overcounted
    <3>4. Recorded = 0
      BY <3>1, <3>3, FS_EmptySet DEF Recorded
    <3>5. QED BY <3>1, <3>2, <3>3, <3>4, FS_EmptySet DEF Tokens, TokensAccounted
  <2>2. QED BY <2>1
<1>2. ASSUME IInv, GroupGenerates, SetsFinite, SetsFinite', Tokens, [MetricsNext]_metricsVars
      PROVE  Tokens'
  <2>1. /\ generated \in [Requests -> Nat] /\ ThreadOwns
        /\ tokens_total \in Nat /\ owed \in Nat /\ IsFiniteSet(Slots(generated, Requests))
    BY <1>2 DEF IInv, TypeOK, Tokens
  <2>2. Lost \subseteq Lost' /\ Overcounted \subseteq Overcounted'
    BY <1>2, AccountGrows, MetricsStepsAreSteps, ServerStepsAreSteps
  <2>3. /\ IsFiniteSet(Lost) /\ IsFiniteSet(Overcounted)
        /\ IsFiniteSet(pass) /\ IsFiniteSet(group) /\ IsFiniteSet(pass \ decoding)
    BY <1>2, FS_Subset DEF SetsFinite, Lost, Overcounted
  <2>4. IsFiniteSet(Lost') /\ IsFiniteSet(Overcounted') /\ IsFiniteSet(pass')
    BY <1>2, FS_Subset DEF SetsFinite, Lost, Overcounted
  <2>5. Cardinality(Lost) <= Cardinality(Lost')
    BY <2>2, <2>4, FS_Subset
  <2>6. Cardinality(Overcounted) <= Cardinality(Overcounted')
    BY <2>2, <2>4, FS_Subset
  <2>7. PICK l \in Nat, ll \in Nat, o \in Nat, oo \in Nat :
           /\ l = Cardinality(Lost) /\ ll = Cardinality(Lost')
           /\ o = Cardinality(Overcounted) /\ oo = Cardinality(Overcounted')
    BY <2>3, <2>4, FS_CardinalityType
  <2>8. PICK g \in Nat, x \in Nat, d \in Nat :
           g = Generated /\ x = Recorded /\ d = Cardinality(pass \ decoding)
    BY <2>1, <2>3, FS_CardinalityType DEF Generated, Recorded
  <2>9. x = tokens_total + owed + d /\ g <= x + l /\ x <= g + o /\ l <= ll /\ o <= oo
    BY <1>2, <2>5, <2>6, <2>7, <2>8 DEF Tokens, TokensAccounted, Recorded
  <2>10. ASSUME NEW k \in Nat, Generated' = g + k, Recorded' = x + k
         PROVE  TokensAccounted'
    BY <2>7, <2>9, <2>10 DEF TokensAccounted
  <2>11. ASSUME generated' = generated, Recorded' = x, tokens_total' \in Nat, owed' \in Nat
         PROVE  Tokens'
    <3>1. Generated' = g /\ Slots(generated, Requests)' = Slots(generated, Requests)
      BY <2>8, <2>11 DEF Generated, Slots
    <3>2. TokensAccounted'
      BY <2>9, <2>10, <2>11, <3>1
    <3>3. QED BY <2>1, <2>11, <3>1, <3>2 DEF Tokens
  <2>12. ASSUME NEW r \in Requests, generated' = [generated EXCEPT ![r] = generated[r] + 1],
                Recorded' = x + 1, tokens_total' \in Nat, owed' \in Nat
         PROVE  Tokens'
    <3>1. Generated' = g + 1 /\ IsFiniteSet(Slots(generated, Requests)')
      BY <2>1, <2>8, <2>12, OneTokenMore
    <3>2. TokensAccounted'
      BY <2>10, <2>12, <3>1
    <3>3. QED BY <2>12, <3>1, <3>2 DEF Tokens
  <2>13. ASSUME NEW r \in Requests, PrefillRecords(r)
         PROVE  Tokens'
    <3>1. /\ generated' = [generated EXCEPT ![r] = generated[r] + 1]
          /\ owed = 0 /\ owed' = 1 /\ tokens_total' = tokens_total
          /\ UNCHANGED <<pass, decoding>>
      BY <2>13 DEF PrefillRecords, EndPrefill, ThreadFree, RecordsLater, counterVars
    <3>2. Recorded' = tokens_total + 1 + d
      BY <2>8, <3>1 DEF Recorded
    <3>3. Recorded' = x + 1 /\ tokens_total' \in Nat /\ owed' \in Nat
      BY <2>1, <2>9, <3>1, <3>2
    <3>4. QED BY <2>12, <3>1, <3>3
  <2>14. ASSUME NEW r \in Requests, PassRecords(r)
         PROVE  Tokens'
    <3>1. /\ generated' = [generated EXCEPT ![r] = generated[r] + 1]
          /\ owed = 0 /\ tokens_total' = tokens_total
          /\ owed' = (IF pass' = {} THEN Cardinality(pass) ELSE 0)
          /\ r \in decoding /\ decoding' = decoding \ {r}
          /\ pass' = (IF decoding = {r} THEN {} ELSE pass)
      BY <2>14 DEF PassRecords, EmitToken, ThreadFree, RecordsLater, counterVars, PassTokens
    <3>2. decoding \subseteq pass /\ r \notin pass \ decoding
      BY <2>1, <3>1 DEF ThreadOwns
    <3>3. Cardinality((pass \ decoding) \cup {r}) = d + 1
      BY <2>3, <2>8, <3>2, FS_AddElement
    <3>4. CASE decoding = {r}
      <4>1. pass = (pass \ decoding) \cup {r} /\ pass' = {} /\ pass' \ decoding' = {}
        BY <3>1, <3>2, <3>4
      <4>2. Cardinality(pass) = d + 1
        BY <3>3, <4>1
      <4>3. owed' = d + 1
        BY <3>1, <4>1, <4>2
      <4>4. Recorded' = tokens_total + (d + 1) + 0
        BY <3>1, <4>1, <4>3, FS_EmptySet DEF Recorded
      <4>5. Recorded' = x + 1 /\ tokens_total' \in Nat /\ owed' \in Nat
        BY <2>1, <2>9, <3>1, <4>3, <4>4
      <4>6. QED BY <2>12, <3>1, <4>5
    <3>5. CASE decoding # {r}
      <4>1. pass' = pass /\ pass # {} /\ pass' \ decoding' = (pass \ decoding) \cup {r}
        BY <3>1, <3>2, <3>5
      <4>2. Cardinality(pass' \ decoding') = d + 1
        BY <3>3, <4>1
      <4>3. owed' = 0
        BY <3>1, <4>1
      <4>4. Recorded' = tokens_total + 0 + (d + 1)
        BY <3>1, <4>2, <4>3 DEF Recorded
      <4>5. Recorded' = x + 1 /\ tokens_total' \in Nat /\ owed' \in Nat
        BY <2>1, <2>9, <3>1, <4>3, <4>4
      <4>6. QED BY <2>12, <3>1, <4>5
    <3>6. QED BY <3>4, <3>5
  <2>15. ASSUME NEW r \in Requests, ListRecords(r)
         PROVE  Tokens'
    <3>1. UNCHANGED <<generated, tokens_total, owed, pass, decoding>>
      BY <2>15 DEF ListRecords, SkipFinished, CallPrefill, BeginPrefill, Collect, RecordsLater,
         counterVars, recordVars, requestVars
    <3>2. Recorded' = x /\ tokens_total' \in Nat /\ owed' \in Nat
      BY <2>1, <2>8, <3>1 DEF Recorded
    <3>3. QED BY <2>11, <3>1, <3>2
  <2>16. ASSUME Elsewhere
         PROVE  Tokens'
    <3>1. UNCHANGED <<generated, tokens_total, owed, pass, decoding>>
      BY <1>2, <2>16, ElsewhereRests
    <3>2. Recorded' = x /\ tokens_total' \in Nat /\ owed' \in Nat
      BY <2>1, <2>8, <3>1 DEF Recorded
    <3>3. QED BY <2>11, <3>1, <3>2
  <2>17. ASSUME RecordTokens \/ RecordTTFT
         PROVE  Tokens'
    <3>1. /\ UNCHANGED <<generated, pass, decoding>>
          /\ \/ tokens_total' = tokens_total + owed /\ owed' = 0
             \/ tokens_total' = tokens_total /\ owed' = owed
      BY <2>17 DEF RecordTokens, RecordTTFT, serverVars, vars, requestVars, threadVars
    <3>2. tokens_total' \in Nat /\ owed' \in Nat /\ tokens_total' + owed' = tokens_total + owed
      BY <2>1, <3>1
    <3>3. Recorded' = tokens_total' + owed' + d
      BY <2>8, <3>1 DEF Recorded
    <3>4. Recorded' = x
      BY <2>9, <3>2, <3>3
    <3>5. QED BY <2>11, <3>1, <3>2, <3>4
  <2>18. ASSUME NEW e \in Engines, GroupRecords(e)
         PROVE  Tokens'
    <3>1. PICK mine : mine = {r \in group : EngineOf[r] = e}
      OBVIOUS
    <3>2. PICK live : live = {r \in mine : ~IsFinished(r)}
      OBVIOUS
    <3>3. /\ generated' = generated /\ tokens_total' = tokens_total /\ owed = 0 /\ pass = {}
          /\ owed' = (IF pass' = {} THEN Cardinality(group \ group') ELSE 0)
          /\ mine # {} /\ group' = group \ mine /\ decoding' = live
          /\ pass' = (IF live = {} THEN {} ELSE mine)
      BY <2>18, <3>1, <3>2
      DEF GroupRecords, BeginDecode, ThreadFree, RecordsLater, counterVars, requestVars,
          PassTokens
    <3>4. PICK Skipped : Skipped = mine \ live
      OBVIOUS
    <3>5. Recorded' = tokens_total + Cardinality(Skipped) /\ owed' \in Nat
      <4>1. mine \subseteq group /\ IsFiniteSet(mine) /\ IsFiniteSet(Skipped)
        BY <2>3, <3>1, <3>4, FS_Subset
      <4>2. Cardinality(Skipped) \in Nat /\ Cardinality({}) = 0
        BY <4>1, FS_CardinalityType, FS_EmptySet
      <4>3. CASE live = {}
        <5>1. pass' = {} /\ group \ group' = Skipped /\ pass' \ decoding' = {}
          BY <3>3, <3>4, <4>1, <4>3
        <5>2. owed' = Cardinality(Skipped) /\ Cardinality(pass' \ decoding') = 0
          BY <3>3, <4>2, <5>1
        <5>3. QED BY <2>1, <3>3, <4>2, <5>2 DEF Recorded
      <4>4. CASE live # {}
        <5>1. pass' = mine /\ pass' # {} /\ pass' \ decoding' = Skipped
          BY <3>3, <3>4, <4>4
        <5>2. owed' = 0 /\ Cardinality(pass' \ decoding') = Cardinality(Skipped)
          BY <3>3, <5>1
        <5>3. QED BY <2>1, <3>3, <4>2, <5>2 DEF Recorded
      <4>5. QED BY <4>3, <4>4
    <3>6. Skipped \subseteq Overcounted' /\ Skipped \cap Overcounted = {}
      <4>1. \A r \in Skipped : r \in group /\ IsFinished(r)
        BY <3>1, <3>2, <3>4
      <4>2. Skipped \subseteq aborted
        BY <1>2, <4>1 DEF GroupGenerates, IsFinished, Finished
      <4>3. todo' = {} /\ aborted' = aborted
        BY <2>18 DEF GroupRecords, BeginDecode, doneVars
      <4>4. Skipped \cap (group' \cup decoding') = {}
        BY <3>1, <3>3, <3>4
      <4>5. QED BY <4>1, <4>2, <4>3, <4>4 DEF Overcounted
    <3>7. PICK s \in Nat : s = Cardinality(Skipped)
      <4>1. IsFiniteSet(Skipped)
        BY <2>3, <3>1, <3>4, FS_Subset
      <4>2. QED BY <4>1, FS_CardinalityType
    <3>8. o + s <= oo
      <4>1. IsFiniteSet(Skipped)
        BY <2>4, <3>6, FS_Subset
      <4>2. Cardinality(Overcounted \cup Skipped)
               = Cardinality(Overcounted) + Cardinality(Skipped) - Cardinality(Overcounted \cap Skipped)
        BY <2>3, <4>1, FS_Union
      <4>3. Cardinality(Overcounted \cap Skipped) = 0
        BY <3>6, FS_EmptySet
      <4>4. Overcounted \cup Skipped \subseteq Overcounted'
        BY <2>2, <3>6
      <4>5. Cardinality(Overcounted \cup Skipped) <= Cardinality(Overcounted')
        BY <2>4, <4>4, FS_Subset
      <4>6. QED BY <2>7, <3>7, <4>2, <4>3, <4>5
    <3>9. x = tokens_total
      <4>1. d = 0
        BY <2>8, <3>3, FS_EmptySet
      <4>2. QED BY <2>1, <2>9, <3>3, <4>1
    <3>10. Recorded' = x + s
      BY <3>5, <3>7, <3>9
    <3>11. Generated' = g /\ Slots(generated, Requests)' = Slots(generated, Requests)
      BY <2>8, <3>3 DEF Generated, Slots
    <3>12. TokensAccounted'
      BY <2>7, <2>9, <3>8, <3>10, <3>11 DEF TokensAccounted
    <3>13. QED BY <2>1, <3>3, <3>5, <3>11, <3>12 DEF Tokens
  <2>19. ASSUME NEW r \in Requests, ErrorRecords(r)
         PROVE  Tokens'
    <3>1. owed' = owed /\ tokens_total' = tokens_total
      BY <2>19 DEF ErrorRecords, RecordsLater, counterVars
    <3>2. CASE PrefillError(r)
      <4>1. UNCHANGED <<generated, pass, decoding>>
        BY <3>2 DEF PrefillError
      <4>2. Recorded' = x
        BY <2>8, <3>1, <4>1 DEF Recorded
      <4>3. QED BY <2>1, <2>11, <3>1, <4>1, <4>2
    <3>3. CASE DecodeError(r)
      <4>1. /\ generated' = generated \/ generated' = [generated EXCEPT ![r] = generated[r] + 1]
            /\ pass' = {} /\ decoding' = {} /\ r \in decoding
            /\ UNCHANGED <<entering, prefilling, group>>
            /\ \A q \in Requests : q \in pass => status'[q] = "FAILED"
        BY <3>3 DEF DecodeError
      <4>2. PICK k \in {0, 1} : Generated' = g + k /\ IsFiniteSet(Slots(generated, Requests)')
        <5>1. CASE generated' = generated
          <6>1. Generated' = Generated /\ Slots(generated, Requests)' = Slots(generated, Requests)
            BY <5>1 DEF Generated, Slots
          <6>2. Generated' = g + 0
            BY <2>8, <6>1
          <6>3. QED BY <2>1, <6>1, <6>2
        <5>2. CASE generated' = [generated EXCEPT ![r] = generated[r] + 1]
          BY <2>1, <2>8, <5>2, OneTokenMore
        <5>3. QED BY <4>1, <5>1, <5>2
      <4>3. Recorded' = tokens_total + owed
        <5>1. pass' \ decoding' = {}
          BY <4>1
        <5>2. QED BY <2>1, <3>1, <5>1, FS_EmptySet DEF Recorded
      <4>4. PICK p \in Nat : p = Cardinality(pass)
        BY <2>3, FS_CardinalityType
      <4>5. d + 1 <= p
        <5>1. (pass \ decoding) \cup {r} \subseteq pass /\ r \notin pass \ decoding
          BY <2>1, <4>1 DEF ThreadOwns
        <5>2. Cardinality((pass \ decoding) \cup {r}) = d + 1
          BY <2>3, <2>8, <5>1, FS_AddElement
        <5>3. Cardinality((pass \ decoding) \cup {r}) <= Cardinality(pass)
          BY <2>3, <5>1, FS_Subset
        <5>4. QED BY <4>4, <5>2, <5>3
      <4>6. l + p <= ll
        <5>1. pass \subseteq Requests /\ entering = {} /\ prefilling = {} /\ pass \cap group = {}
          BY <1>2, <2>1, <4>1 DEF IInv, TypeOK, ThreadOwns, BetweenRequests, GroupGenerates
        <5>2. pass \subseteq Lost' /\ Lost \cap pass = {}
          BY <4>1, <5>1 DEF Lost, Failed
        <5>3. Cardinality(Lost \cup pass)
                 = Cardinality(Lost) + Cardinality(pass) - Cardinality(Lost \cap pass)
          BY <2>3, FS_Union
        <5>4. Cardinality(Lost \cap pass) = 0
          BY <5>2, FS_EmptySet
        <5>5. Cardinality(Lost \cup pass) <= Cardinality(Lost')
          BY <2>2, <2>4, <5>2, FS_Subset
        <5>6. QED BY <2>7, <4>4, <5>3, <5>4, <5>5
      <4>7. PICK y \in Nat : y = tokens_total + owed
        BY <2>1
      <4>8. x = y + d /\ Recorded' = y
        BY <2>9, <4>3, <4>7
      <4>9. g + k <= y + ll /\ y <= g + k + oo
        BY <2>9, <4>5, <4>6, <4>8
      <4>10. TokensAccounted'
        BY <2>7, <4>2, <4>8, <4>9 DEF TokensAccounted
      <4>11. QED BY <2>1, <3>1, <4>2, <4>10 DEF Tokens
    <3>4. QED BY <2>19, <3>2, <3>3 DEF ErrorRecords
  <2>20. QED
    BY <1>2, <2>13, <2>14, <2>15, <2>16, <2>17, <2>18, <2>19, MetricsKinds
<1>3. ASSUME IInv, SetsFinite, Tokens
      PROVE  TokensCounted
  <2>1. Lost \subseteq Failed /\ Overcounted \subseteq aborted
    BY DEF Lost, Overcounted
  <2>2. IsFiniteSet(Failed) /\ IsFiniteSet(aborted) /\ IsFiniteSet(pass \ decoding)
    BY <1>3, FS_Subset DEF SetsFinite
  <2>3. Cardinality(Lost) <= Cardinality(Failed)
    BY <2>1, <2>2, FS_Subset
  <2>4. Cardinality(Overcounted) <= Cardinality(aborted)
    BY <2>1, <2>2, FS_Subset
  <2>5. IsFiniteSet(Lost) /\ IsFiniteSet(Overcounted)
    BY <2>1, <2>2, FS_Subset
  <2>6. PICK l \in Nat, f \in Nat, o \in Nat, a \in Nat :
           /\ l = Cardinality(Lost) /\ f = Cardinality(Failed)
           /\ o = Cardinality(Overcounted) /\ a = Cardinality(aborted)
    BY <2>2, <2>5, FS_CardinalityType
  <2>7. PICK g \in Nat, d \in Nat : g = Generated /\ d = Cardinality(pass \ decoding)
    BY <1>3, <2>2, FS_CardinalityType DEF Tokens, Generated
  <2>8. /\ tokens_total \in Nat /\ owed \in Nat
        /\ g <= tokens_total + owed + d + l /\ tokens_total + owed + d <= g + o
    BY <1>3, <2>6, <2>7 DEF Tokens, TokensAccounted, Recorded
  <2>9. QED BY <2>3, <2>4, <2>6, <2>7, <2>8 DEF TokensCounted
<1>4. QED
  BY <1>1, <1>2, <1>3, MetricsKnown, GroupHolds, MetricsImplementServer,
     ServerImplementsScheduler, PTL DEF MetricsSpec

=============================================================================

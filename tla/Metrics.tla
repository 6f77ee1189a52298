-------------------------------- MODULE Metrics --------------------------------
(***************************************************************************)
(* What /v1/metrics reports: the counters of metrics/collector.py and the  *)
(* statistics of scheduler/scheduler.py, written by both threads while     *)
(* Server runs.                                                            *)
(*                                                                         *)
(* The inference thread records tokens after the engine has returned, so   *)
(* owed and sampled are what it still has to record before it goes on; the *)
(* event loop can read the counters in between.  A stream records its      *)
(* request after its last chunk.  Latencies and Prometheus's copies of the *)
(* counters are left out, and so are the counters that nothing updates:    *)
(* total_requests_failed, inter-token latency, preemptions_total and the   *)
(* cache's and the GPU's gauges.                                           *)
(*                                                                         *)
(* A definition whose name ends in _<Defect> is its neighbour with a       *)
(* plausible bug; it is used only to show that a property notices the bug. *)
(***************************************************************************)
EXTENDS Server

\* Requests whose first token comes within the resolution of time.time(): their
\* time to the first token is 0.0.
CONSTANT Instant

ASSUME MetricsAssumption == Instant \subseteq Requests

VARIABLES
    tokens_total,        \* _total_tokens_generated
    requests_completed,  \* _total_requests_completed
    ttft_samples,        \* len(_ttft_samples)
    batch_gauge,         \* batch_size and requests_in_progress: the same number
    depth_gauge,         \* queue_depth
    total_scheduled,     \* the scheduler's counters of these names
    total_completed,
    total_preempted,
    owed,                \* inference thread: tokens to record now
    sampled,             \* inference thread: a first token's latency to record now
    dated,               \* requests with a completion_time
    unreported           \* streams past their last chunk, still to record it

counterVars == <<tokens_total, requests_completed, ttft_samples>>
gaugeVars == <<batch_gauge, depth_gauge>>
statVars == <<total_scheduled, total_completed, total_preempted>>
recordVars == <<owed, sampled, dated>>
metricsVars == <<serverVars, counterVars, gaugeVars, statVars, recordVars, unreported>>

ThreadFree == owed = 0 /\ ~sampled

-----------------------------------------------------------------------------
(* The inference thread. *)

PassTokens_One(requests) == 1

\* record_token_generated(len(group)): the requests handed to decode_batch, also
\* those it skipped.
PassTokens(requests) == Cardinality(requests)

SampleDue_IfGoesOn(r) == r \notin Instant /\ status'[r] = "GENERATING"

\* record_ttft after a prefill.  The test is for a true value: every request has a
\* time_to_first_token by then, but 0.0 is not true.
SampleDue(r) == r \notin Instant

\* _complete sets completion_time.
DatedByEngine(requests) == {r \in requests : status'[r] = "COMPLETE"}

\* A step of _run_inference_step.  What the engine call has earned is recorded
\* when it returns; an exception skips the record and dates the requests it fails.
InferenceRecords ==
    /\ ThreadFree
    /\ InferenceStep
    /\ \/ \E r \in Requests :
             /\ EndPrefill(r)
             /\ owed' = 1
             /\ sampled' = SampleDue(r)
             /\ dated' = dated \cup DatedByEngine({r})
       \/ \E r \in Requests :
             /\ EmitToken(r)
             /\ owed' = IF pass' = {} THEN PassTokens(pass) ELSE 0
             /\ dated' = dated \cup DatedByEngine({r})
             /\ UNCHANGED sampled
       \/ \E e \in Engines :
             /\ BeginDecode(e)
             /\ owed' = IF pass' = {} THEN PassTokens(group \ group') ELSE 0
             /\ UNCHANGED <<sampled, dated>>
       \/ \E r \in Requests :
             /\ PrefillError(r) \/ DecodeError(r)
             /\ dated' = dated \cup (IF prefilling = {r} THEN {r} ELSE pass)
             /\ UNCHANGED <<owed, sampled>>
       \/ \E r \in Requests :
             /\ SkipFinished(r) \/ CallPrefill(r) \/ BeginPrefill(r) \/ Collect(r)
             /\ UNCHANGED recordVars
    /\ UNCHANGED <<counterVars, gaugeVars, statVars, unreported>>

\* record_token_generated
RecordTokens ==
    /\ owed > 0
    /\ tokens_total' = tokens_total + owed
    /\ owed' = 0
    /\ UNCHANGED <<serverVars, requests_completed, ttft_samples, gaugeVars, statVars,
                   sampled, dated, unreported>>

\* record_ttft
RecordTTFT ==
    /\ owed = 0
    /\ sampled
    /\ ttft_samples' = ttft_samples + 1
    /\ sampled' = FALSE
    /\ UNCHANGED <<serverVars, tokens_total, requests_completed, gaugeVars, statVars,
                   owed, dated, unreported>>

-----------------------------------------------------------------------------
(* The event loop. *)

MetricsInit ==
    /\ ServerInit
    /\ tokens_total = 0 /\ requests_completed = 0 /\ ttft_samples = 0
    /\ batch_gauge = 0 /\ depth_gauge = 0
    /\ total_scheduled = 0 /\ total_completed = 0 /\ total_preempted = 0
    /\ owed = 0 /\ sampled = FALSE /\ dated = {}
    /\ unreported = {}

Admissions_Step3Only ==
    {r \in Requests : pc = "admit" /\ status[r] = "PENDING" /\ status'[r] = "PREFILL"}

\* The requests that Step 3 or Step 4 puts into the batch.
Admissions == {r \in Requests : status[r] = "PENDING" /\ status'[r] = "PREFILL"}

\* The requests _try_preempt takes out of it.
Preemptions == {r \in Requests : status[r] # "PREEMPTED" /\ status'[r] = "PREEMPTED"}

GaugesDue_BeforeStep == pc = "idle" /\ pc' = "reap"

\* schedule_step has returned a batch.
GaugesDue == pc = "force" /\ pc' = "infer"

\* update_batch_size and update_requests_in_progress, and update_queue_depth.
SetGauges == batch_gauge' = Cardinality(active') /\ depth_gauge' = Len(pending')

\* The generation loop: schedule_step counts as it goes, the loop sets the
\* gauges when it has a batch, and the executor's future waits for the records.
LoopRecords ==
    /\ pc = "infer" => ThreadFree
    /\ GenerationLoop
    /\ total_scheduled' = total_scheduled + Cardinality(Admissions)
    /\ total_preempted' = total_preempted + Cardinality(Preemptions)
    /\ total_completed' = total_completed + Cardinality(completed' \ completed)
    /\ IF GaugesDue THEN SetGauges ELSE UNCHANGED gaugeVars
    /\ UNCHANGED <<counterVars, recordVars, unreported>>

\* A stream that sends its last chunk has its request to record.
EndsStream(r) ==
    /\ StreamEnds(r)
    /\ unreported' = unreported \cup {r}
    /\ UNCHANGED <<counterVars, gaugeVars, statVars, recordVars>>

StreamRecords_Undated(r) ==
    /\ CanRun
    /\ r \in unreported
    /\ requests_completed' = requests_completed + 1
    /\ unreported' = unreported \ {r}
    /\ UNCHANGED <<serverVars, tokens_total, ttft_samples, gaugeVars, statVars, recordVars>>

\* record_request_completed, for any request with a total_latency: also one the
\* engine has failed.
StreamRecords(r) ==
    /\ CanRun
    /\ r \in unreported
    /\ requests_completed' = requests_completed + (IF r \in dated THEN 1 ELSE 0)
    /\ unreported' = unreported \ {r}
    /\ UNCHANGED <<serverVars, tokens_total, ttft_samples, gaugeVars, statVars, recordVars>>

\* The client closes the connection at the last chunk: nothing is recorded.
StreamLost(r) ==
    /\ CanRun
    /\ r \in unreported
    /\ unreported' = unreported \ {r}
    /\ UNCHANGED <<serverVars, counterVars, gaugeVars, statVars, recordVars>>

\* The handlers that record nothing here.
Unrecorded ==
    /\ \/ \E r \in Requests :
             \/ Submit(r) \/ WaiterReplies(r) \/ StreamLeaves(r)
             \/ StreamTests(r) \/ StreamCounts(r) \/ StreamYields(r) \/ StreamSleeps(r)
       \/ Delete
       \/ Passing
    /\ UNCHANGED <<counterVars, gaugeVars, statVars, recordVars, unreported>>

MetricsNext ==
    \/ InferenceRecords
    \/ RecordTokens
    \/ RecordTTFT
    \/ LoopRecords
    \/ \E r \in Requests : EndsStream(r) \/ StreamRecords(r) \/ StreamLost(r)
    \/ Unrecorded

MetricsSpec == MetricsInit /\ [][MetricsNext]_metricsVars

-----------------------------------------------------------------------------
(* Properties. *)

Generated == Cardinality(Slots(generated, Requests))
Failed == {r \in Requests : status[r] = "FAILED"}

\* total_tokens_generated is the number of generated tokens, but for the pass that
\* is running, at most one token of each failed request (the pass that raised is
\* not counted), and at most one of each aborted request too many (the pass that
\* skipped it is).
TokensCounted ==
    /\ Generated <= tokens_total + owed + Cardinality(pass \ decoding) + Cardinality(Failed)
    /\ tokens_total + owed <= Generated + Cardinality(aborted)

\* Every first token gives one time-to-first-token sample, also when its request
\* is aborted under the prefill, and no other token gives one; only a latency of
\* 0.0 is not sampled.
SampledOnce ==
    ttft_samples + (IF sampled THEN 1 ELSE 0)
        = Cardinality({r \in Requests \ Instant : generated[r] > 0})

\* The scheduler counts each request once when it enters the batch, whichever
\* step admits it and however often it is preempted, and once when it is reaped:
\* what was scheduled is in the batch, preempted, done or aborted.
CountedOnce ==
    LET inside == active \cup Range(preempted) \cup completed
    IN  /\ Cardinality(inside) <= total_scheduled
        /\ total_scheduled <= Cardinality(inside \cup aborted)
        /\ total_completed = Cardinality(completed)
        /\ Len(preempted) <= total_preempted

\* total_requests_completed counts a stream once at most, and none whose request
\* was aborted before the engine could finish it.
CompletedCounted ==
    requests_completed + Cardinality(unreported \cap dated)
        <= Cardinality({r \in dated : stream[r] = "end"})

\* While the inference thread works, the gauges are those of its batch: only
\* aborts have made it smaller since.
GaugeTracksBatch ==
    pc = "infer" =>
        /\ Cardinality(active) <= batch_gauge
        /\ batch_gauge <= Cardinality(active) + Cardinality(aborted)

=============================================================================

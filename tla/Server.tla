------------------------------- MODULE Server -------------------------------
(***************************************************************************)
(* What a client sees of LiteServe: the completions handler and the token  *)
(* stream of server/app.py, and the key/value store _past_kv of            *)
(* engine/inference.py, composed with Scheduler.                           *)
(*                                                                         *)
(* A client of Streaming gets _stream_tokens, a coroutine of the event     *)
(* loop that reads status and generated_tokens of the request while the    *)
(* inference thread writes them; the others wait for the completion event. *)
(* A coroutine keeps the event loop from one await to the next.  busy is   *)
(* the stream that has read is_finished but not yet num_generated: the     *)
(* event loop does nothing else in between, the inference thread may.      *)
(*                                                                         *)
(* A definition whose name ends in _<Defect> is its neighbour with a       *)
(* plausible bug; it is used only to show that a property notices the bug. *)
(***************************************************************************)
EXTENDS Scheduler

CONSTANT Streaming   \* the requests with stream = True

ASSUME StreamingAssumption == Streaming \subseteq Requests

VARIABLES
    stored,   \* keys of _past_kv
    stream,   \* where _stream_tokens of each request is: "off", "test", "count",
              \* "yield", "countLast", "yieldLast", "end", "gone"
    count,    \* its current_count
    sent,     \* tokens delivered to the client
    reply,    \* finish_reason delivered to the client, "none" before
    usage,    \* completion_tokens delivered with the finish_reason
    busy      \* streams between their reads of is_finished and num_generated

clientVars == <<stream, count, sent, reply, usage, busy>>
serverVars == <<vars, stored, clientVars>>

\* No stream keeps the event loop, and a suspended coroutine can resume.
LoopIdle == busy = {}
CanRun == EventLoopFree /\ LoopIdle

FinishReason(r) == IF status[r] = "COMPLETE" THEN "stop" ELSE "error"

-----------------------------------------------------------------------------
(* The engine's store. *)

KVAfterToken_KeepsCompleted(r) == stored' = stored \cup {r}

\* prefill and decode_batch store the request's keys and values; _complete
\* drops them.
KVAfterToken(r) ==
    stored' = IF status'[r] = "COMPLETE" THEN stored \ {r} ELSE stored \cup {r}

\* The steps of the inference thread that reach the store.  A prefill can fail
\* before or after it stored; nothing frees what a failed request has stored.
EngineStep ==
    \E r \in Requests :
        \/ EndPrefill(r) /\ KVAfterToken(r)
        \/ PrefillError(r) /\ stored' \in {stored, stored \cup {r}}
        \/ EmitToken(r) /\ KVAfterToken(r)
        \/ DecodeError(r) /\ UNCHANGED stored

\* The other steps of the inference thread.
ThreadListStep ==
    \/ \E r \in Requests :
          SkipFinished(r) \/ CallPrefill(r) \/ BeginPrefill(r) \/ Collect(r)
    \/ \E e \in Engines : BeginDecode(e)

InferenceStep ==
    /\ EngineStep \/ (ThreadListStep /\ UNCHANGED stored)
    /\ UNCHANGED clientVars

-----------------------------------------------------------------------------
(* The event loop. *)

ServerInit ==
    /\ Init
    /\ stored = {}
    /\ stream = [r \in Requests |-> "off"]
    /\ count = [r \in Requests |-> 0]
    /\ sent = [r \in Requests |-> 0]
    /\ reply = [r \in Requests |-> "none"]
    /\ usage = [r \in Requests |-> 0]
    /\ busy = {}

\* completions: the request is queued, and a streaming client gets its stream.
Submit(r) ==
    /\ LoopIdle
    /\ AddRequest(r)
    /\ stream' = IF r \in Streaming THEN [stream EXCEPT ![r] = "test"] ELSE stream
    /\ UNCHANGED <<stored, count, sent, reply, usage, busy>>

\* DELETE /v1/requests/{id}: neither the event nor the stored keys and values
\* are touched.
Delete ==
    /\ LoopIdle
    /\ Abort
    /\ UNCHANGED <<stored, clientVars>>

\* The generation loop's task runs, or its future resolves.
GenerationLoop ==
    /\ LoopIdle
    /\ LoopStep \/ EndInfer
    /\ UNCHANGED <<stored, clientVars>>

Passing ==
    /\ Tick
    /\ UNCHANGED <<stored, clientVars>>

\* The waiting handler resumes after the completion event and answers.
WaiterReplies(r) ==
    /\ CanRun
    /\ r \in notified \ Streaming
    /\ reply[r] = "none"
    /\ sent' = [sent EXCEPT ![r] = generated[r]]
    /\ usage' = [usage EXCEPT ![r] = generated[r]]
    /\ reply' = [reply EXCEPT ![r] = FinishReason(r)]
    /\ UNCHANGED <<vars, stored, stream, count, busy>>

StreamTests_OnlyComplete(r) ==
    /\ CanRun
    /\ stream[r] = "test"
    /\ stream' = [stream EXCEPT ![r] = IF status[r] = "COMPLETE" THEN "countLast" ELSE "count"]
    /\ busy' = {r}
    /\ UNCHANGED <<vars, stored, count, sent, reply, usage>>

\* _stream_tokens tests is_finished.
StreamTests(r) ==
    /\ CanRun
    /\ stream[r] = "test"
    /\ stream' = [stream EXCEPT ![r] = IF IsFinished(r) THEN "countLast" ELSE "count"]
    /\ busy' = {r}
    /\ UNCHANGED <<vars, stored, count, sent, reply, usage>>

StreamCounts_Once(r) ==
    /\ r \in busy
    /\ count' = IF stream[r] = "count" THEN [count EXCEPT ![r] = generated[r]] ELSE count
    /\ stream' = [stream EXCEPT ![r] = IF @ = "count" THEN "yield" ELSE "yieldLast"]
    /\ busy' = {}
    /\ UNCHANGED <<vars, stored, sent, reply, usage>>

\* ... and then reads num_generated, once more after the last test.
StreamCounts(r) ==
    /\ r \in busy
    /\ count' = [count EXCEPT ![r] = generated[r]]
    /\ stream' = [stream EXCEPT ![r] = IF @ = "count" THEN "yield" ELSE "yieldLast"]
    /\ busy' = {}
    /\ UNCHANGED <<vars, stored, sent, reply, usage>>

StreamYields_OnePast(r) ==
    /\ CanRun
    /\ stream[r] \in {"yield", "yieldLast"}
    /\ sent[r] <= count[r]
    /\ sent' = [sent EXCEPT ![r] = @ + 1]
    /\ UNCHANGED <<vars, stored, stream, count, reply, usage, busy>>

\* One token is yielded, and the event loop is free until the client took it.
StreamYields(r) ==
    /\ CanRun
    /\ stream[r] \in {"yield", "yieldLast"}
    /\ sent[r] < count[r]
    /\ sent' = [sent EXCEPT ![r] = @ + 1]
    /\ UNCHANGED <<vars, stored, stream, count, reply, usage, busy>>

\* All counted tokens are delivered: the stream sleeps and tests again.
StreamSleeps(r) ==
    /\ CanRun
    /\ stream[r] = "yield"
    /\ sent[r] = count[r]
    /\ stream' = [stream EXCEPT ![r] = "test"]
    /\ UNCHANGED <<vars, stored, count, sent, reply, usage, busy>>

\* The last chunk: the finish reason and the usage are read when it is sent.
StreamEnds(r) ==
    /\ CanRun
    /\ stream[r] = "yieldLast"
    /\ sent[r] = count[r]
    /\ stream' = [stream EXCEPT ![r] = "end"]
    /\ reply' = [reply EXCEPT ![r] = FinishReason(r)]
    /\ usage' = [usage EXCEPT ![r] = generated[r]]
    /\ UNCHANGED <<vars, stored, count, sent, busy>>

\* The client of a stream disconnects: the framework cancels the coroutine at its
\* await or yield.  Nobody tells the scheduler, so the request goes on.
StreamLeaves(r) ==
    /\ CanRun
    /\ stream[r] \in {"test", "yield", "yieldLast"}
    /\ stream' = [stream EXCEPT ![r] = "gone"]
    /\ UNCHANGED <<vars, stored, count, sent, reply, usage, busy>>

StreamStep(r) ==
    \/ StreamTests(r)
    \/ StreamCounts(r)
    \/ StreamYields(r)
    \/ StreamSleeps(r)
    \/ StreamEnds(r)

ServerNext ==
    \/ \E r \in Requests :
          Submit(r) \/ WaiterReplies(r) \/ StreamStep(r) \/ StreamLeaves(r)
    \/ Delete
    \/ GenerationLoop
    \/ InferenceStep
    \/ Passing

ServerSpec == ServerInit /\ [][ServerNext]_serverVars

\* Every task of the event loop that is ready again and again gets its turn
\* (asyncio's queue of ready callbacks is first come, first served, and the
\* generation loop awaits between its steps); the inference thread and the
\* clock go on.
FairServerSpec ==
    /\ ServerSpec
    /\ WF_serverVars(InferenceStep)
    /\ WF_serverVars(Passing)
    /\ SF_serverVars(GenerationLoop)
    /\ \A r \in Requests :
          SF_serverVars(StreamStep(r)) /\ SF_serverVars(WaiterReplies(r))

-----------------------------------------------------------------------------
(* Properties. *)

\* What a client has when its answer ends is what was generated: no token is
\* missing or announced and not delivered, and none is generated later.
AnswerWhole ==
    \A r \in Requests \ aborted :
        reply[r] # "none" => sent[r] = generated[r] /\ usage[r] = generated[r]

\* A client that has been told how its request ended is never contradicted.
\* (A stream that was told "stop" can be: it ends with the last token of its
\* request, and the pass that produced the token may still fail as a whole.)
AnswerStays ==
    [][\A r \in Requests \ aborted :
          \/ reply[r] = "none"
          \/ reply[r] = "stop" /\ r \in Streaming
          \/ status'[r] = status[r]]_serverVars

\* decode_batch silently skips a request without stored keys and values, which
\* would then stay in the batch for ever: every request it may be given has
\* them, and a completed request has given them up
\* (test_inference_batching.py:71).
StoredWhileGenerating ==
    \A r \in Requests :
        /\ status[r] = "GENERATING" => r \in stored
        /\ status[r] = "COMPLETE" => r \notin stored

\* Every client of a request that fits gets a complete answer, unless a client
\* aborts the request or it leaves its stream itself.
ClientsAnswered ==
    \A r \in Requests :
        (status[r] # "NEW" /\ Need(r) <= NumBlocks)
            ~> (reply[r] # "none" \/ r \in aborted \/ stream[r] = "gone")

\* Where a client stands.
PhaseOf(r) ==
    IF stream[r] = "gone" THEN "gone"
    ELSE IF reply[r] # "none" THEN "answered"
    ELSE IF status[r] = "NEW" THEN "absent"
    ELSE "waiting"

Client == INSTANCE ClientView WITH phase <- [r \in Requests |-> PhaseOf(r)]

\* Whatever the two threads and the other clients do, each client sees what
\* ClientView promises: tokens in turn and never too many, one end, a usage that
\* counts what was delivered, and nothing afterwards (_stream_tokens, completions).
ImplementsClientView == Client!ViewSpec


=============================================================================

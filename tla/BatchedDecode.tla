----------------------------- MODULE BatchedDecode -----------------------------
(***************************************************************************)
(* prefill and decode_batch of engine/inference.py with the data that      *)
(* batching moves around: the cache of each request, left-padded to the    *)
(* longest of the batch, one forward pass over all of them, and the rows   *)
(* cut apart again.  Which requests form a batch is the scheduler's        *)
(* choice, so any group of requests may be handed in; Scheduler says when. *)
(*                                                                         *)
(* The forward pass is the library's: row by row it appends an entry for   *)
(* the new token and attends to the columns that the attention mask shows  *)
(* and that do not come after cache_position.                              *)
(*                                                                         *)
(* A definition whose name ends in _<Defect> is its neighbour with a       *)
(* plausible bug; it is used only to show that a property notices the bug. *)
(***************************************************************************)
EXTENDS Naturals, Sequences, FiniteSets, FiniteSetsExt, Functions, SequencesExt

CONSTANTS
    Requests,
    Vocabulary,  \* token ids
    Eos,         \* eos_token_id
    Prompt,      \* prompt_tokens of each request
    MaxNew       \* max_new_tokens of each request

\* encode adds special tokens, so no prompt is empty.
ASSUME DecodeAssumption ==
    /\ Eos \in Vocabulary
    /\ Prompt \in [Requests -> Seq(Vocabulary) \ {<<>>}]
    /\ MaxNew \in [Requests -> Nat \ {0}]

VARIABLES
    status,     \* Request.status; PREFILL and PREEMPTED are told apart in Scheduler
    generated,  \* generated_tokens
    past_kv,    \* _past_kv, <<>> where the request has no key
    seq_len,    \* _seq_len, 0 where the request has no key
    context,    \* the entries the logits of the last token were computed from
    group,      \* the group handed to the decode_batch that is running
    outputs     \* its forward pass's results, for the requests still to get a token

requestVars == <<status, generated, context>>
storeVars == <<past_kv, seq_len>>
passVars == <<group, outputs>>
batchVars == <<requestVars, storeVars, passVars>>

\* The keys and values of one token: they depend on the token and its position.
Entry(t, p) == [token |-> t, pos |-> p]

\* The entries a forward pass over a prompt leaves behind.
Entries(tokens) == [i \in DOMAIN tokens |-> Entry(tokens[i], i - 1)]

\* What has gone through the model so far: the prompt and all tokens but the last.
History(r) ==
    IF generated[r] = <<>> THEN <<>>
    ELSE Entries(Prompt[r] \o SubSeq(generated[r], 1, Len(generated[r]) - 1))

\* The single-request loop on the same requests.  It keeps its cache to the end;
\* once the store has given a request's up (or a failed pass left it behind) the
\* history stands in for it.
Sequential ==
    INSTANCE SequentialDecode WITH
        past <- [r \in Requests |-> IF status[r] = "GENERATING" THEN past_kv[r]
                                    ELSE History(r)]

-----------------------------------------------------------------------------
(* The batch's tensors. *)

\* new_zeros: what stands in the padding.
Padding == Entry("none", 0)

IsFinished(r) == status[r] \in {"COMPLETE", "FAILED"}

\* _is_done
IsDone(tokens, limit) == Last(tokens) = Eos \/ Len(tokens) >= limit

\* The requests of the call that are neither finished nor without a cache.
ActiveOf(requests) == {r \in requests : ~IsFinished(r) /\ past_kv[r] # <<>>}

\* The cache of a request, padded on the left to the longest of the batch.
LeftPadded(r, maxLen) ==
    [i \in 1..(maxLen - seq_len[r]) |-> Padding] \o past_kv[r]

MaskedColumns_NewOnly(r, maxLen) == {i \in 1..(maxLen + 1) : i > maxLen - seq_len[r] + 1}
MaskedColumns_All(r, maxLen) == 1..(maxLen + 1)

\* attn[i, max_len - seq_len:] = 1
MaskedColumns(r, maxLen) == {i \in 1..(maxLen + 1) : i > maxLen - seq_len[r]}

Position_Column(r, maxLen) == maxLen

\* position_ids: the unpadded length.
Position(r, maxLen) == seq_len[r]

\* cache_position = max_len: no column up to the new token's is hidden.
CausalColumns(maxLen) == {i \in 1..(maxLen + 1) : i <= maxLen + 1}

\* One row of the forward pass: the cache with the new token's entry, and the
\* entries that its logits are computed from.
Forward(r, maxLen) ==
    LET row == Append(LeftPadded(r, maxLen), Entry(Last(generated[r]), Position(r, maxLen)))
    IN  [row |-> row,
         attended |-> {row[i] : i \in MaskedColumns(r, maxLen) \cap CausalColumns(maxLen)}]

\* keys[..., -real_len:, :]
Unpadded(row, realLen) == SubSeq(row, Len(row) - realLen + 1, Len(row))

-----------------------------------------------------------------------------
BatchInit ==
    /\ status = [r \in Requests |-> "PENDING"]
    /\ generated = [r \in Requests |-> <<>>]
    /\ past_kv = [r \in Requests |-> <<>>]
    /\ seq_len = [r \in Requests |-> 0]
    /\ context = [r \in Requests |-> {}]
    /\ group = {}
    /\ outputs = <<>>

EngineFree == group = {}

Store(r, cache, len) ==
    /\ past_kv' = [past_kv EXCEPT ![r] = cache]
    /\ seq_len' = [seq_len EXCEPT ![r] = len]

\* The common end of prefill and of each round of decode_batch: the token is
\* appended and the cache stored; a request that is done gives its cache up
\* (_complete, free_request), another goes on with status s.
TakeToken(r, t, s, attended, cache, len) ==
    /\ generated' = [generated EXCEPT ![r] = Append(@, t)]
    /\ context' = [context EXCEPT ![r] = attended]
    /\ IF IsDone(generated'[r], MaxNew[r])
       THEN status' = [status EXCEPT ![r] = "COMPLETE"] /\ Store(r, <<>>, 0)
       ELSE status' = [status EXCEPT ![r] = s] /\ Store(r, cache, len)

\* prefill: one forward pass over the prompt.
Prefill(r) ==
    /\ EngineFree
    /\ status[r] = "PENDING"
    /\ LET cache == Entries(Prompt[r])
       IN  \E t \in Vocabulary :
             TakeToken(r, t, "GENERATING", Range(cache), cache, Len(cache))
    /\ UNCHANGED passVars

\* prefill raises, before or after it stored: the caller fails the request.
PrefillRaises(r) ==
    /\ EngineFree
    /\ status[r] = "PENDING"
    /\ status' = [status EXCEPT ![r] = "FAILED"]
    /\ UNCHANGED storeVars \/ Store(r, Entries(Prompt[r]), Len(Prompt[r]))
    /\ UNCHANGED <<generated, context, passVars>>

\* decode_batch up to the forward pass, for a list of requests that were
\* GENERATING when they were collected.
BeginPass(requests) ==
    /\ EngineFree
    /\ IsFiniteSet(requests)
    /\ \A r \in requests : generated[r] # <<>> /\ status[r] # "COMPLETE"
    /\ ActiveOf(requests) # {}
    /\ LET maxLen == Max({seq_len[r] : r \in ActiveOf(requests)})
       IN  outputs' = [r \in ActiveOf(requests) |-> Forward(r, maxLen)]
    /\ group' = requests
    /\ UNCHANGED <<requestVars, storeVars>>

\* One round of the loop after the forward pass.
EmitToken(r) ==
    /\ r \in DOMAIN outputs
    /\ LET realLen == seq_len[r] + 1
       IN  \E t \in Vocabulary :
             TakeToken(r, t, status[r], outputs[r].attended,
                       Unpadded(outputs[r].row, realLen), realLen)
    /\ outputs' = Restrict(outputs, DOMAIN outputs \ {r})
    /\ group' = IF DOMAIN outputs = {r} THEN {} ELSE group

\* decode_batch raises before a request's token or just after appending it; the
\* caller fails the whole group.
PassRaises(r) ==
    /\ r \in DOMAIN outputs
    /\ \/ UNCHANGED <<generated, context>>
       \/ /\ \E t \in Vocabulary : generated' = [generated EXCEPT ![r] = Append(@, t)]
          /\ context' = [context EXCEPT ![r] = outputs[r].attended]
    /\ status' = [q \in Requests |-> IF q \in group THEN "FAILED" ELSE status[q]]
    /\ outputs' = <<>>
    /\ group' = {}
    /\ UNCHANGED storeVars

\* abort_request on the event loop; the engine is not told.
Aborted(r) ==
    /\ ~IsFinished(r)
    /\ status' = [status EXCEPT ![r] = "FAILED"]
    /\ UNCHANGED <<generated, context, storeVars, passVars>>

BatchNext ==
    \/ \E r \in Requests :
          Prefill(r) \/ PrefillRaises(r) \/ EmitToken(r) \/ PassRaises(r) \/ Aborted(r)
    \/ \E requests \in SUBSET Requests : BeginPass(requests)

BatchSpec == BatchInit /\ [][BatchNext]_batchVars

-----------------------------------------------------------------------------
(* Properties. *)

CacheEntry == [token : Vocabulary, pos : Nat]

\* The types of the requests' and the engine's fields: no padding is ever kept
\* in a cache or attended to.
TypeOK ==
    /\ status \in [Requests -> {"PENDING", "GENERATING", "COMPLETE", "FAILED"}]
    /\ generated \in [Requests -> Seq(Vocabulary)]
    /\ past_kv \in [Requests -> Seq(CacheEntry)]
    /\ seq_len \in [Requests -> Nat]
    /\ \A r \in Requests : \A e \in context[r] : e \in CacheEntry
    /\ group \in SUBSET Requests
    /\ DOMAIN outputs \subseteq group

\* The cache of a generating request is its prompt and its tokens but the last,
\* each at its own position, however long the requests were that it has shared
\* passes with, and _seq_len agrees with it; a completed request has none.
CacheIsHistory ==
    \A r \in Requests :
        /\ status[r] = "GENERATING" => past_kv[r] = History(r)
        /\ seq_len[r] = Len(past_kv[r])
        /\ status[r] = "COMPLETE" => past_kv[r] = <<>>

\* Batched decoding is decoding each request on its own (inference.py:13,
\* "bit-for-bit equivalent"): in every mix of lengths every token is sampled
\* from logits over the same entries, and the cache grows by the same one.
ImplementsSequential == Sequential!SeqSpec

=============================================================================

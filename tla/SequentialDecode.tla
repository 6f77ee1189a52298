--------------------------- MODULE SequentialDecode ---------------------------
(***************************************************************************)
(* generate_sequential of engine/inference.py, the loop that decodes one   *)
(* request at a time: the reference that batched decoding must agree with. *)
(*                                                                         *)
(* The transformer is abstracted to what decides its output: a forward     *)
(* pass adds one entry to the cache for each of its input tokens, and the  *)
(* logits of the last one are a function of the entries it attends to.     *)
(* Sampling may then return any token.                                     *)
(***************************************************************************)
EXTENDS Naturals, Sequences, Functions, SequencesExt

CONSTANTS
    Requests,
    Vocabulary,  \* token ids
    Eos,         \* eos_token_id
    Prompt,      \* prompt_tokens of each request
    MaxNew       \* max_new_tokens of each request

VARIABLES
    generated,  \* generated_tokens
    past,       \* past_key_values
    context     \* the entries that the logits of the last token were computed from

seqVars == <<generated, past, context>>

\* The keys and values of one token: they depend on the token and its position.
Entry(t, p) == [token |-> t, pos |-> p]

\* The entries a forward pass over tokens leaves behind when the cache was empty.
Entries(tokens) == [i \in DOMAIN tokens |-> Entry(tokens[i], i - 1)]

\* The end-of-sequence token, or max_new_tokens.
Done(tokens, limit) == Last(tokens) = Eos \/ Len(tokens) >= limit

SeqInit ==
    /\ generated = [r \in Requests |-> <<>>]
    /\ past = [r \in Requests |-> <<>>]
    /\ context = [r \in Requests |-> {}]

\* The forward pass over the prompt, and the first token.
Start(r) ==
    /\ generated[r] = <<>>
    /\ past' = [past EXCEPT ![r] = Entries(Prompt[r])]
    /\ context' = [context EXCEPT ![r] = Range(Entries(Prompt[r]))]
    /\ \E t \in Vocabulary : generated' = [generated EXCEPT ![r] = <<t>>]

\* One iteration of the loop: the last token goes through the model at the
\* position that follows the cache, attends to the whole cache and itself, and
\* the next token is sampled.
Continue(r) ==
    /\ generated[r] # <<>>
    /\ ~Done(generated[r], MaxNew[r])
    /\ past' = [past EXCEPT ![r] = Append(@, Entry(Last(generated[r]), Len(@)))]
    /\ context' = [context EXCEPT ![r] = Range(past'[r])]
    /\ \E t \in Vocabulary : generated' = [generated EXCEPT ![r] = Append(@, t)]

SeqNext == \E r \in Requests : Start(r) \/ Continue(r)

SeqSpec == SeqInit /\ [][SeqNext]_seqVars

=============================================================================

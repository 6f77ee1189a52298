---------------------------- MODULE MCBatchedDecode ----------------------------
(* BatchedDecode on a small instance, for TLC. *)
EXTENDS BatchedDecode, TLC

CONSTANTS r1, r2, r3, a, b, eos

\* Three requests whose prompts differ in length and content; two of them take
\* part in two passes, so that a cache that a pass has cut is padded again.
MCRequests == {r1, r2, r3}
MCVocabulary == {a, b, eos}
MCPrompt == r1 :> <<a>> @@ r2 :> <<b, a>> @@ r3 :> <<a, b, b, a>>
MCMaxNew == r1 :> 3 @@ r2 :> 3 @@ r3 :> 2
=============================================================================

------------------------------ MODULE MCServer ------------------------------
(* Server on small instances, for TLC. *)
EXTENDS Server

CONSTANTS n1, h1, e1

\* A NORMAL request that streams two tokens and a HIGH one that waits for two;
\* both fit the cache together.
MCRequests == {n1, h1}
MCHigh == {h1}
MCPrompt == n1 :> 1 @@ h1 :> 1
MCMaxNew == n1 :> 2 @@ h1 :> 2
MCEngines == {e1}
MCEngineOf == n1 :> e1 @@ h1 :> e1
MCStreaming == {n1}
=============================================================================

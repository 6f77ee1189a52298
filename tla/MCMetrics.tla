------------------------------- MODULE MCMetrics -------------------------------
(* Metrics on a small instance, for TLC. *)
EXTENDS Metrics

CONSTANTS n1, n2, h1, e1

\* Two NORMAL requests, one streaming, whose passes overlap, and a HIGH one that
\* fits neither beside them nor alone, so that it preempts both.
MCRequests == {n1, n2, h1}
MCHigh == {h1}
MCPrompt == n1 :> 1 @@ n2 :> 1 @@ h1 :> 9
MCMaxNew == n1 :> 2 @@ n2 :> 2 @@ h1 :> 1
MCEngines == {e1}
MCEngineOf == n1 :> e1 @@ n2 :> e1 @@ h1 :> e1
MCStreaming == {n1}
MCInstant == {n2}
=============================================================================

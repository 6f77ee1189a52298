----------------------------- MODULE MCScheduler -----------------------------
(* Scheduler on small instances, for TLC.  n... are NORMAL, h... HIGH. *)
EXTENDS Scheduler

CONSTANTS n1, n2, h1, h2, e1, e2

\* One NORMAL and two HIGH requests on four blocks and two engines, every
\* request backed by the cache: n1 and h1 fit together, h2 beside neither.
\* Admission (of two in one step), preemption (of NORMAL and of HIGH), swap-in,
\* forced additions, engine errors and aborts all happen.
SafetyRequests == {n1, h1, h2}
SafetyHigh == {h1, h2}
SafetyPrompt == n1 :> 1 @@ h1 :> 2 @@ h2 :> 4
SafetyMaxNew == n1 :> 2 @@ h1 :> 2 @@ h2 :> 1
SafetyEngines == {e1, e2}
SafetyEngineOf == n1 :> e1 @@ h1 :> e1 @@ h2 :> e2

\* The deployed system (nothing tracked): a NORMAL request n1 that never fits,
\* one that does, and a HIGH request small enough never to need preemption.
LiveRequests == {n1, n2, h1}
LiveHigh == {h1}
LivePrompt == n1 :> 9 @@ n2 :> 1 @@ h1 :> 1
LiveMaxNew == n1 :> 1 @@ n2 :> 2 @@ h1 :> 1
LiveEngines == {e1}
LiveEngineOf == n1 :> e1 @@ n2 :> e1 @@ h1 :> e1

\* Two HIGH requests that fit the cache one at a time.
PairRequests == {h1, h2}
PairHigh == {h1, h2}
PairPrompt == h1 :> 2 @@ h2 :> 2
PairMaxNew == h1 :> 2 @@ h2 :> 2
PairEngines == {e1}
PairEngineOf == h1 :> e1 @@ h2 :> e1

\* A NORMAL request and a HIGH one that never fits.
ResumeRequests == {n1, h1}
ResumeHigh == {h1}
ResumePrompt == n1 :> 1 @@ h1 :> 9
ResumeMaxNew == n1 :> 2 @@ h1 :> 1
ResumeEngines == {e1}
ResumeEngineOf == n1 :> e1 @@ h1 :> e1

=============================================================================

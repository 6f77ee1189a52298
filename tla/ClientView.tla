------------------------------ MODULE ClientView ------------------------------
(***************************************************************************)
(* What server/app.py promises each client of /v1/completions: the tokens  *)
(* of a stream one at a time, those of a waiting client together with the  *)
(* answer, at most max_tokens of them; one finish reason and then nothing  *)
(* more; and a usage that counts what was delivered, unless the request    *)
(* was aborted.  Server is shown to implement it.                          *)
(***************************************************************************)
EXTENDS Naturals

CONSTANTS Requests, Streaming, MaxNew

VARIABLES
    phase,    \* "absent", "waiting", "answered" or "gone"
    sent,     \* tokens delivered
    reply,    \* finish_reason delivered, "none" before
    usage,    \* completion_tokens delivered with it
    aborted   \* the requests a client has aborted

viewVars == <<phase, sent, reply, usage, aborted>>

ViewInit ==
    /\ phase = [r \in Requests |-> "absent"]
    /\ sent = [r \in Requests |-> 0]
    /\ reply = [r \in Requests |-> "none"]
    /\ usage = [r \in Requests |-> 0]
    /\ aborted = {}

Ask(r) ==
    /\ phase[r] = "absent"
    /\ phase' = [phase EXCEPT ![r] = "waiting"]
    /\ UNCHANGED <<sent, reply, usage, aborted>>

GetToken(r) ==
    /\ phase[r] = "waiting"
    /\ r \in Streaming
    /\ sent[r] < MaxNew[r]
    /\ sent' = [sent EXCEPT ![r] = @ + 1]
    /\ UNCHANGED <<phase, reply, usage, aborted>>

\* The end of the answer.  "stop" comes with at least one token.
GetAnswer(r) ==
    /\ phase[r] = "waiting"
    /\ phase' = [phase EXCEPT ![r] = "answered"]
    /\ \E reason \in {"stop", "error"}, n \in sent[r]..MaxNew[r] :
          /\ reason = "stop" => n > 0
          /\ r \in Streaming /\ r \notin aborted => n = sent[r]
          /\ reply' = [reply EXCEPT ![r] = reason]
          /\ usage' = [usage EXCEPT ![r] = n]
          /\ sent' = IF r \in Streaming THEN sent ELSE [sent EXCEPT ![r] = n]
    /\ UNCHANGED aborted

\* The client of a stream closes the connection.
Leave(r) ==
    /\ phase[r] = "waiting"
    /\ r \in Streaming
    /\ phase' = [phase EXCEPT ![r] = "gone"]
    /\ UNCHANGED <<sent, reply, usage, aborted>>

\* DELETE, for a request that was accepted; its client may have left.
AbortIt(r) ==
    /\ phase[r] # "absent"
    /\ aborted' = aborted \cup {r}
    /\ UNCHANGED <<phase, sent, reply, usage>>

ViewNext ==
    \E r \in Requests : Ask(r) \/ GetToken(r) \/ GetAnswer(r) \/ Leave(r) \/ AbortIt(r)

ViewSpec == ViewInit /\ [][ViewNext]_viewVars

=============================================================================

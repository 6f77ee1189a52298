------------------------------ MODULE MCRouter ------------------------------
(* Router on a catalogue with one model of each quantization, for TLC. *)
EXTENDS Router, TLC

CONSTANTS fp16, int8, gptq, bnb

MCNames == {fp16, int8, gptq, bnb}
MCQuantization == fp16 :> "fp16" @@ int8 :> "int8" @@ gptq :> "int4-gptq" @@ bnb :> "int4-bnb"

\* Values below, at and above the thresholds of the configuration.
MCGpuLoads == {0, 20, 40, 85, 90}
MCQueueDepths == {0, 1, 2}
=============================================================================

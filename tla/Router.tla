------------------------------- MODULE Router -------------------------------
(***************************************************************************)
(* router/router.py: which of the loaded models serves a request, from its *)
(* preference, its priority and the load, by one of four strategies.       *)
(*                                                                         *)
(* The router does not read the load itself.  handle_completion of         *)
(* server/app.py routes a request and only then gives the router the       *)
(* current figures, so each request is routed with those of the one        *)
(* before.                                                                 *)
(*                                                                         *)
(* A definition whose name ends in _<Defect> is its neighbour with a       *)
(* plausible bug; it is used only to show that a property notices the bug. *)
(***************************************************************************)
EXTENDS ModelLoader

CONSTANTS
    GpuLoads, QueueDepths,      \* figures the server may measure; GPU in percent
    gpu_util_high_threshold,
    gpu_util_low_threshold,
    queue_depth_threshold,
    IdleGpu                     \* below it throughput_first takes the GPU for idle

ASSUME RouterAssumption ==
    /\ GpuLoads \subseteq Nat /\ QueueDepths \subseteq Nat
    /\ 0 \in GpuLoads /\ 0 \in QueueDepths
    /\ gpu_util_high_threshold \in Nat /\ gpu_util_low_threshold \in Nat
    /\ gpu_util_low_threshold <= gpu_util_high_threshold
    /\ queue_depth_threshold \in Nat /\ IdleGpu \in Nat

Strategies == {"quality_first", "throughput_first", "priority", "adaptive"}
Priorities == {"NORMAL", "HIGH"}
Loads == [gpu : GpuLoads, queue : QueueDepths]

\* A client may also name a model.
Preferences == {"auto", "fp16", "int8", "int4"} \cup Names

VARIABLES
    strategy,        \* config.strategy
    system_state,    \* _system_state
    assigned_model   \* of the request routed last

routerVars == <<loaderVars, strategy, system_state, assigned_model>>

-----------------------------------------------------------------------------
(* The strategies. *)

OrElse(m, other) == IF m # NoModel THEN m ELSE other

OrDefault(m) == OrElse(m, get_model(default_model))

FullQuality == get_model_by_quantization("fp16")

MostQuantized_Int8First ==
    OrElse(get_model_by_quantization("int8"),
           OrElse(get_model_by_quantization("int4-gptq"),
                  get_model_by_quantization("int4-bnb")))

MostQuantized ==
    OrElse(get_model_by_quantization("int4-gptq"),
           OrElse(get_model_by_quantization("int4-bnb"),
                  get_model_by_quantization("int8")))

HighLoad(load) ==
    load.gpu > gpu_util_high_threshold \/ load.queue > queue_depth_threshold

LowLoad_Inverted(load) == load.gpu >= gpu_util_low_threshold
LowLoad(load) == load.gpu < gpu_util_low_threshold

RouteThroughputFirst(load) ==
    LET idle == load.queue = 0 /\ load.gpu < IdleGpu
    IN  OrDefault(IF idle THEN OrElse(FullQuality, MostQuantized) ELSE MostQuantized)

RoutePriority(priority) ==
    OrDefault(IF priority = "HIGH" THEN FullQuality ELSE MostQuantized)

RouteAdaptive(priority, load) ==
    OrDefault(IF HighLoad(load) THEN MostQuantized
              ELSE IF priority = "HIGH" \/ LowLoad(load) THEN FullQuality
              ELSE get_model_by_quantization("int8"))

RouteByStrategy(priority, load) ==
    CASE strategy = "quality_first"    -> OrDefault(FullQuality)
      [] strategy = "throughput_first" -> RouteThroughputFirst(load)
      [] strategy = "priority"         -> RoutePriority(priority)
      [] strategy = "adaptive"         -> RouteAdaptive(priority, load)

GetByPreference_DropsFP16(preference) ==
    CASE preference = "int8" -> get_model_by_quantization("int8")
      [] preference = "int4" -> get_model_by_quantization("int4-gptq")
      [] OTHER -> get_model(preference)

GetByPreference(preference) ==
    CASE preference = "fp16" -> FullQuality
      [] preference = "int8" -> get_model_by_quantization("int8")
      [] preference = "int4" -> get_model_by_quantization("int4-gptq")
      [] OTHER -> get_model(preference)

\* route(request) under the given load; NoModel stands for the RuntimeError.
Route(priority, preference, load) ==
    OrElse(IF preference = "auto" THEN NoModel ELSE GetByPreference(preference),
           RouteByStrategy(priority, load))

-----------------------------------------------------------------------------
(* The router in the server. *)

Init ==
    /\ LoaderInit
    /\ strategy \in Strategies
    /\ system_state = [gpu |-> 0, queue |-> 0]
    /\ assigned_model = NoModel

\* handle_completion routes, then measures.  A request that no model can serve
\* raises before the measurement.
HandleCompletion(priority, preference, measured) ==
    /\ Route(priority, preference, system_state) # NoModel
    /\ assigned_model' = Route(priority, preference, system_state)
    /\ system_state' = measured
    /\ UNCHANGED <<loaderVars, strategy>>

Load(n, is_default) ==
    /\ LoadModel(n, is_default)
    /\ UNCHANGED <<strategy, system_state, assigned_model>>

Unload(n) ==
    /\ UnloadModel(n)
    /\ UNCHANGED <<strategy, system_state, assigned_model>>

Next ==
    \/ \E n \in Names, d \in BOOLEAN : Load(n, d)
    \/ \E n \in Names : Unload(n)
    \/ \E p \in Priorities, f \in Preferences, l \in Loads : HandleCompletion(p, f, l)

Spec == Init /\ [][Next]_routerVars

-----------------------------------------------------------------------------
(* Properties. *)

Bits(n) == CASE Quantization[n] = "fp16" -> 16
             [] Quantization[n] = "int8" -> 8
             [] OTHER -> 4

\* As long as a model is loaded, every request gets a loaded one, whatever was
\* loaded and unloaded before: route neither raises nor returns a dropped model.
Routable ==
    models # <<>> =>
        \A p \in Priorities, f \in Preferences, l \in Loads : Route(p, f, l) \in Loaded

\* A request that asks for a precision or a name gets it when such a model is
\* loaded, under every strategy and load (router.py:84).  The preference int4
\* means GPTQ: with only an int4-bnb model loaded the strategy decides.
PreferenceHonoured ==
    \A p \in Priorities, l \in Loads, n \in Loaded :
        /\ Route(p, n, l) = n
        /\ Quantization[n] = "fp16" => Bits(Route(p, "fp16", l)) = 16
        /\ Quantization[n] = "int8" => Bits(Route(p, "int8", l)) = 8
        /\ Quantization[n] = "int4-gptq" => Bits(Route(p, "int4", l)) = 4

\* Under high load the adaptive strategy never takes a model when a more
\* quantized one is loaded, also when it falls back to the default.
FastestUnderLoad ==
    strategy = "adaptive" =>
        \A p \in Priorities, l \in Loads, n \in Loaded :
            HighLoad(l) => Bits(Route(p, "auto", l)) <= Bits(n)

\* More load never means a less quantized model, if the default is the most
\* precise model loaded (as in every provided configuration): the thresholds
\* and the fallbacks of no strategy undo one another.
LoadMonotone ==
    (\A n \in Loaded : Bits(default_model) >= Bits(n)) =>
        \A p \in Priorities, l, m \in Loads :
            (models # <<>> /\ l.gpu <= m.gpu /\ l.queue <= m.queue) =>
                Bits(Route(p, "auto", m)) <= Bits(Route(p, "auto", l))

=============================================================================

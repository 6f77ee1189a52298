---------------------------- MODULE ModelLoader ----------------------------
(***************************************************************************)
(* The catalogue of models/loader.py: the dictionary of loaded models, in  *)
(* its order of insertion, and the default model.  Loading weights is left *)
(* out; a model is its name, and its quantization a constant of the name.  *)
(***************************************************************************)
EXTENDS Naturals, Sequences, SequencesExt

CONSTANTS
    Names,          \* names under which models may be loaded
    NoModel,        \* Python's None
    Quantization    \* Quantization[n]: "fp16" (None in the code), "int8",
                    \* "int4-gptq" or "int4-bnb"

Quantizations == {"fp16", "int8", "int4-gptq", "int4-bnb"}

ASSUME LoaderAssumption ==
    /\ NoModel \notin Names
    /\ Names \cap {"auto", "fp16", "int8", "int4"} = {}
    /\ Quantization \in [Names -> Quantizations]

VARIABLES
    models,         \* the keys of models, in insertion order
    default_model

loaderVars == <<models, default_model>>

Loaded == ToSet(models)

LoaderInit == models = <<>> /\ default_model = NoModel

\* get_model(name): the model itself when it is loaded.
get_model(n) == IF n \in Loaded THEN n ELSE NoModel

\* get_model_by_quantization: the first loaded one that matches.
get_model_by_quantization(q) ==
    LET matches == {i \in DOMAIN models : Quantization[models[i]] = q}
    IN  IF matches = {} THEN NoModel
        ELSE models[CHOOSE i \in matches : \A j \in matches : i <= j]

\* A name that is loaded again keeps its place.
LoadModel(n, is_default) ==
    /\ models' = IF n \in Loaded THEN models ELSE Append(models, n)
    /\ default_model' = IF is_default \/ default_model = NoModel THEN n ELSE default_model

PopModel(n) == \E i \in DOMAIN models : models[i] = n /\ models' = RemoveAt(models, i)

UnloadModel_KeepsDefault(n) ==
    /\ PopModel(n)
    /\ UNCHANGED default_model

\* The next default is the first model that is left.
UnloadModel(n) ==
    /\ PopModel(n)
    /\ default_model' =
          IF default_model # n THEN default_model
          ELSE IF models' = <<>> THEN NoModel ELSE Head(models')

=============================================================================

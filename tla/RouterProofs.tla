---------------------------- MODULE RouterProofs ----------------------------
(***************************************************************************)
(* Theorems about Router, for any catalogue, thresholds and loads.  The    *)
(* inductive invariant is about the catalogue alone: the default model is  *)
(* one of the loaded ones.  Everything a route can return follows from     *)
(* what the two lookups can return.                                        *)
(***************************************************************************)
EXTENDS Router, QueueLemmas, WellFoundedInduction

\* The default model is loaded, whatever was loaded and unloaded before; the
\* names in the dictionary are distinct.
Catalogue ==
    /\ models \in Seq(Names)
    /\ IsInjective(models)
    /\ default_model = NoModel <=> models = <<>>
    /\ default_model # NoModel => default_model \in Loaded
    /\ strategy \in Strategies

\* A nonempty set of indices has a least element.
LEMMA LeastIndex ==
    ASSUME NEW T \in SUBSET Nat, T # {}
    PROVE  \E i \in T : \A j \in T : i <= j
<1> DEFINE R == OpToRel(<, Nat)
<1>1. IsWellFoundedOn(R, Nat)
  BY NatLessThanWellFounded
<1>2. PICK i \in T : \A j \in T : ~(<<j, i>> \in R)
  <2>1. \E x \in T : \A y \in T : ~(<<y, x>> \in R)
    <3> HIDE DEF R
    <3> QED BY <1>1, WFMin
  <2>2. QED BY <2>1
<1>3. ASSUME NEW j \in T
      PROVE  i <= j
  <2>1. ~(j < i)
    BY <1>2 DEF OpToRel
  <2>2. QED BY <2>1
<1>4. QED BY <1>3

\* get_model_by_quantization returns a loaded model of that quantization, or
\* None if there is none.
LEMMA LookupByQuantization ==
    ASSUME models \in Seq(Names), NEW q
    PROVE  /\ get_model_by_quantization(q) # NoModel =>
                 /\ get_model_by_quantization(q) \in Loaded
                 /\ Quantization[get_model_by_quantization(q)] = q
           /\ (\E n \in Loaded : Quantization[n] = q) =>
                 get_model_by_quantization(q) # NoModel
<1> DEFINE matches == {i \in DOMAIN models : Quantization[models[i]] = q}
           least == CHOOSE i \in matches : \A j \in matches : i <= j
<1>1. DOMAIN models = 1..Len(models) /\ Len(models) \in Nat
  BY LenProperties
<1>2. \A i \in DOMAIN models : models[i] \in Names /\ models[i] \in Loaded
  BY <1>1, ElementOfSeq DEF Loaded, ToSet
<1>3. CASE matches = {}
  <2>1. get_model_by_quantization(q) = NoModel
    BY <1>3 DEF get_model_by_quantization
  <2>2. ~ \E n \in Loaded : Quantization[n] = q
    BY <1>3 DEF Loaded, ToSet
  <2>3. QED BY <2>1, <2>2
<1>4. CASE matches # {}
  <2>1. matches \in SUBSET Nat
    BY <1>1
  <2>2. \E i \in matches : \A j \in matches : i <= j
    <3> HIDE DEF matches
    <3> QED BY <2>1, <1>4, LeastIndex
  <2>3. least \in matches
    <3> HIDE DEF matches
    <3> QED BY <2>2
  <2>4. get_model_by_quantization(q) = models[least]
    BY <1>4 DEF get_model_by_quantization
  <2>5. models[least] \in Names /\ models[least] \in Loaded /\ Quantization[models[least]] = q
    <3> HIDE DEF least
    <3> QED BY <2>3, <1>2
  <2>6. models[least] # NoModel
    BY <2>5, LoaderAssumption
  <2>7. QED BY <2>4, <2>5, <2>6
<1>5. QED BY <1>3, <1>4

\* Loading and unloading keep the catalogue's invariant.
THEOREM CatalogueHolds == Spec => []Catalogue
<1>1. Init => Catalogue
  BY EmptySeq DEF Init, LoaderInit, Catalogue, IsInjective
<1>2. Catalogue /\ [Next]_routerVars => Catalogue'
  <2> SUFFICES ASSUME Catalogue, [Next]_routerVars
               PROVE  Catalogue'
    OBVIOUS
  <2>1. ASSUME NEW n \in Names, NEW d \in BOOLEAN, Load(n, d)
        PROVE  Catalogue'
    <3>1. CASE n \in Loaded
      BY <2>1, <3>1, LoaderAssumption, EmptySeq DEF Load, LoadModel, Catalogue, Loaded, ToSet
    <3>2. CASE n \notin Loaded
      <4>1. /\ models' \in Seq(Names)
            /\ IsInjective(models')
            /\ Range(models') = Range(models) \cup {n}
        BY <2>1, <3>2, AppendRange DEF Load, LoadModel, Catalogue, Loaded, ToSet, Range
      <4>2. n \in Loaded' /\ models' # <<>> /\ Loaded \subseteq Loaded'
        BY <4>1, EmptySeq DEF Loaded, ToSet, Range
      <4>3. QED BY <2>1, <4>1, <4>2, LoaderAssumption DEF Load, LoadModel, Catalogue
    <3>3. QED BY <3>1, <3>2
  <2>2. ASSUME NEW n \in Names, Unload(n)
        PROVE  Catalogue'
    <3>1. PICK i \in DOMAIN models : models[i] = n /\ models' = RemoveAt(models, i)
      BY <2>2 DEF Unload, UnloadModel, PopModel
    <3>2. i \in 1..Len(models)
      BY <3>1, LenProperties DEF Catalogue
    <3>3. /\ models' \in Seq(Names)
          /\ IsInjective(models')
          /\ Range(models') = Range(models) \ {n}
      BY <3>1, <3>2, RemoveAtRange DEF Catalogue
    <3>4. Loaded' = Loaded \ {n}
      BY <3>3 DEF Loaded, ToSet, Range
    <3>5. models # <<>>
      BY <3>2, EmptySeq
    <3>6. CASE default_model # n
      <4>1. default_model' = default_model /\ default_model \in Loaded'
        BY <2>2, <3>4, <3>5, <3>6 DEF Unload, UnloadModel, Catalogue
      <4>2. models' # <<>>
        BY <4>1, EmptySeq DEF Loaded, ToSet
      <4>3. default_model' # NoModel
        BY <4>1, <3>5 DEF Catalogue
      <4>4. QED BY <2>2, <3>3, <4>1, <4>2, <4>3 DEF Catalogue, Unload
    <3>7. CASE default_model = n
      <4>1. default_model' = IF models' = <<>> THEN NoModel ELSE Head(models')
        BY <2>2, <3>7 DEF Unload, UnloadModel
      <4>2. CASE models' = <<>>
        BY <2>2, <3>3, <4>1, <4>2 DEF Catalogue, Unload
      <4>3. CASE models' # <<>>
        <5>1. PICK t \in Seq(Names) : t = models'
          BY <3>3
        <5>2. Len(t) \in Nat /\ Len(t) # 0 /\ DOMAIN t = 1..Len(t)
          BY <4>3, <5>1, EmptySeq, LenProperties
        <5>3. Head(t) = t[1] /\ 1 \in DOMAIN t /\ t[1] \in Names
          BY <4>3, <5>1, <5>2, HeadTailProperties, ElementOfSeq
        <5>4. default_model' \in Loaded' /\ default_model' # NoModel
          BY <4>1, <4>3, <5>1, <5>3, LoaderAssumption DEF Loaded, ToSet
        <5>5. QED BY <2>2, <3>3, <4>3, <5>4 DEF Catalogue, Unload
      <4>4. QED BY <4>2, <4>3
    <3>8. QED BY <3>6, <3>7
  <2>3. ASSUME NEW p \in Priorities, NEW f \in Preferences, NEW l \in Loads,
               HandleCompletion(p, f, l)
        PROVE  Catalogue'
    BY <2>3 DEF HandleCompletion, Catalogue, loaderVars, Loaded
  <2>4. CASE UNCHANGED routerVars
    BY <2>4 DEF routerVars, loaderVars, Catalogue, Loaded
  <2>5. QED BY <2>1, <2>2, <2>3, <2>4 DEF Next
<1>3. QED BY <1>1, <1>2, PTL DEF Spec

\* What a route can return: the preferred model if there is one, otherwise what
\* the strategy finds, otherwise the default.
LEMMA RouteIsLoaded ==
    ASSUME Catalogue, models # <<>>, NEW p \in Priorities, NEW f, NEW l
    PROVE  Route(p, f, l) \in Loaded
<1>1. models \in Seq(Names) /\ default_model \in Loaded /\ get_model(default_model) \in Loaded
  BY DEF Catalogue, get_model
<1>2. Loaded \subseteq Names /\ NoModel \notin Loaded
  <2>1. Loaded \subseteq Names
    BY <1>1, LenProperties, ElementOfSeq DEF Loaded, ToSet
  <2>2. QED BY <2>1, LoaderAssumption
<1> DEFINE Ok(m) == m = NoModel \/ m \in Loaded
<1>3. \A q : Ok(get_model_by_quantization(q))
  BY <1>1, LookupByQuantization
<1>4. \A n : Ok(get_model(n))
  BY DEF get_model
<1>5. \A m : Ok(m) => OrDefault(m) \in Loaded
  BY <1>1 DEF OrDefault, OrElse
<1>6. Ok(FullQuality) /\ Ok(MostQuantized)
  BY <1>3 DEF FullQuality, MostQuantized, OrElse
<1>7. RouteThroughputFirst(l) \in Loaded
  BY <1>5, <1>6 DEF RouteThroughputFirst, OrElse
<1>8. RoutePriority(p) \in Loaded
  BY <1>5, <1>6 DEF RoutePriority
<1>9. RouteAdaptive(p, l) \in Loaded
  BY <1>3, <1>5, <1>6 DEF RouteAdaptive
<1>10. RouteByStrategy(p, l) \in Loaded
  BY <1>5, <1>6, <1>7, <1>8, <1>9 DEF RouteByStrategy, Strategies, Catalogue
<1>11. Ok(GetByPreference(f))
  BY <1>3, <1>4, <1>6 DEF GetByPreference
<1>12. QED BY <1>10, <1>11 DEF Route, OrElse

\* As long as a model is loaded, every request is given a loaded model, with
\* any order of loads, unloads and requests before it.
THEOREM AlwaysRoutable == Spec => []Routable
<1>1. Catalogue => Routable
  BY RouteIsLoaded DEF Routable
<1>2. QED BY <1>1, CatalogueHolds, PTL

\* A request that asks for fp16, int8, GPTQ's int4 or a name gets it when it is
\* loaded, under any load and strategy.
THEOREM PreferenceWins == Spec => []PreferenceHonoured
<1>1. Catalogue => PreferenceHonoured
  <2> SUFFICES ASSUME Catalogue, NEW p \in Priorities, NEW l \in Loads, NEW n \in Loaded
               PROVE  /\ Route(p, n, l) = n
                      /\ Quantization[n] = "fp16" => Bits(Route(p, "fp16", l)) = 16
                      /\ Quantization[n] = "int8" => Bits(Route(p, "int8", l)) = 8
                      /\ Quantization[n] = "int4-gptq" => Bits(Route(p, "int4", l)) = 4
    BY DEF PreferenceHonoured
  <2>1. models \in Seq(Names)
    BY DEF Catalogue
  <2>2. n \in Names /\ n # NoModel /\ n \notin {"auto", "fp16", "int8", "int4"}
    BY <2>1, LenProperties, ElementOfSeq, LoaderAssumption DEF Loaded, ToSet
  <2>3. Route(p, n, l) = n
    BY <2>2 DEF Route, OrElse, GetByPreference, get_model
  <2>4. Quantization[n] = "fp16" => Bits(Route(p, "fp16", l)) = 16
    BY <2>1, LookupByQuantization DEF Route, OrElse, GetByPreference, FullQuality, Bits
  <2>5. Quantization[n] = "int8" => Bits(Route(p, "int8", l)) = 8
    BY <2>1, LookupByQuantization DEF Route, OrElse, GetByPreference, Bits
  <2>6. Quantization[n] = "int4-gptq" => Bits(Route(p, "int4", l)) = 4
    BY <2>1, LookupByQuantization DEF Route, OrElse, GetByPreference, Bits
  <2>7. QED BY <2>3, <2>4, <2>5, <2>6
<1>2. QED BY <1>1, CatalogueHolds, PTL

\* What Bits says of the four quantizations.
LEMMA BitsOfLoaded ==
    ASSUME Catalogue, NEW n \in Loaded
    PROVE  /\ Bits(n) \in {4, 8, 16}
           /\ Bits(n) = 16 <=> Quantization[n] = "fp16"
           /\ Bits(n) = 8 <=> Quantization[n] = "int8"
           /\ Bits(n) = 4 <=> Quantization[n] \in {"int4-gptq", "int4-bnb"}
<1>1. n \in Names
  BY LenProperties, ElementOfSeq DEF Catalogue, Loaded, ToSet
<1>2. Quantization[n] \in Quantizations
  BY <1>1, LoaderAssumption
<1>3. CASE Quantization[n] = "fp16"
  BY <1>3 DEF Bits
<1>4. CASE Quantization[n] = "int8"
  BY <1>4 DEF Bits
<1>5. CASE Quantization[n] \in {"int4-gptq", "int4-bnb"}
  <2>1. Bits(n) = 4
    BY <1>5 DEF Bits
  <2>2. QED BY <1>5, <2>1
<1>6. QED BY <1>2, <1>3, <1>4, <1>5 DEF Quantizations

\* The lookup from most to least quantized finds a model than which no loaded
\* one is more quantized, and so does its fallback to the default.
LEMMA MostQuantizedIsLeast ==
    ASSUME Catalogue, models # <<>>, NEW n \in Loaded
    PROVE  /\ OrDefault(MostQuantized) \in Loaded
           /\ Bits(OrDefault(MostQuantized)) <= Bits(n)
<1> DEFINE m == OrDefault(MostQuantized)
<1>1. models \in Seq(Names) /\ default_model \in Loaded /\ get_model(default_model) = default_model
  BY DEF Catalogue, get_model
<1>2. Bits(n) \in {4, 8, 16}
  BY BitsOfLoaded
<1>3. CASE \E k \in Loaded : Quantization[k] \in {"int4-gptq", "int4-bnb"}
  <2>1. m \in Loaded /\ Quantization[m] \in {"int4-gptq", "int4-bnb"}
    BY <1>1, <1>3, LookupByQuantization DEF OrDefault, MostQuantized, OrElse
  <2>2. Bits(m) = 4
    BY <2>1, BitsOfLoaded
  <2>3. QED BY <1>2, <2>1, <2>2
<1>4. CASE /\ ~ \E k \in Loaded : Quantization[k] \in {"int4-gptq", "int4-bnb"}
           /\ \E k \in Loaded : Quantization[k] = "int8"
  <2>1. /\ get_model_by_quantization("int4-gptq") = NoModel
        /\ get_model_by_quantization("int4-bnb") = NoModel
    BY <1>1, <1>4, LookupByQuantization
  <2>2. m \in Loaded /\ Quantization[m] = "int8"
    BY <1>1, <1>4, <2>1, LookupByQuantization DEF OrDefault, MostQuantized, OrElse
  <2>3. Bits(m) = 8 /\ Bits(n) # 4
    BY <1>4, <2>2, BitsOfLoaded
  <2>4. QED BY <1>2, <2>2, <2>3
<1>5. CASE ~ \E k \in Loaded : Quantization[k] \in {"int4-gptq", "int4-bnb", "int8"}
  <2>1. /\ get_model_by_quantization("int4-gptq") = NoModel
        /\ get_model_by_quantization("int4-bnb") = NoModel
        /\ get_model_by_quantization("int8") = NoModel
    BY <1>1, <1>5, LookupByQuantization
  <2>2. m = default_model
    BY <1>1, <2>1 DEF OrDefault, MostQuantized, OrElse
  <2>3. Bits(m) = 16 /\ Bits(n) = 16
    BY <1>1, <1>5, <2>2, BitsOfLoaded
  <2>4. QED BY <1>1, <2>2, <2>3
<1>6. QED BY <1>3, <1>4, <1>5

\* If no loaded model is more precise than the default, none is more precise than
\* what the lookup of FP16 with its fallback returns.
LEMMA FullQualityIsGreatest ==
    ASSUME Catalogue, models # <<>>, NEW n \in Loaded,
           \A k \in Loaded : Bits(default_model) >= Bits(k)
    PROVE  Bits(OrDefault(FullQuality)) >= Bits(n)
<1>1. models \in Seq(Names) /\ default_model \in Loaded /\ get_model(default_model) = default_model
  BY DEF Catalogue, get_model
<1>2. Bits(n) \in {4, 8, 16}
  BY BitsOfLoaded
<1>3. CASE FullQuality = NoModel
  BY <1>1, <1>3 DEF OrDefault, OrElse
<1>4. CASE FullQuality # NoModel
  <2>1. FullQuality \in Loaded /\ Quantization[FullQuality] = "fp16"
    BY <1>1, <1>4, LookupByQuantization DEF FullQuality
  <2>2. Bits(FullQuality) = 16
    BY <2>1, BitsOfLoaded
  <2>3. QED BY <1>2, <1>4, <2>2 DEF OrDefault, OrElse
<1>5. QED BY <1>3, <1>4

\* Under high load the adaptive strategy takes a most quantized model, for every
\* catalogue and default.
THEOREM UnderLoadFastest == Spec => []FastestUnderLoad
<1>1. Catalogue => FastestUnderLoad
  <2> SUFFICES ASSUME Catalogue, strategy = "adaptive", NEW p \in Priorities,
                      NEW l \in Loads, NEW n \in Loaded, HighLoad(l)
               PROVE  Bits(Route(p, "auto", l)) <= Bits(n)
    BY DEF FastestUnderLoad
  <2>1. models # <<>>
    BY EmptySeq DEF Loaded, ToSet
  <2>2. RouteByStrategy(p, l) = OrDefault(MostQuantized)
    BY DEF RouteByStrategy, RouteAdaptive
  <2>3. Route(p, "auto", l) = OrDefault(MostQuantized)
    BY <2>2 DEF Route, OrElse
  <2>4. QED BY <2>1, <2>3, MostQuantizedIsLeast
<1>2. QED BY <1>1, CatalogueHolds, PTL

\* More load never means a less quantized model, for every catalogue whose
\* default is its most precise model and all thresholds with low <= high.
THEOREM Monotone == Spec => []LoadMonotone
<1>1. Catalogue => LoadMonotone
  <2> SUFFICES ASSUME Catalogue, \A k \in Loaded : Bits(default_model) >= Bits(k),
                      NEW p \in Priorities, NEW l \in Loads, NEW m \in Loads,
                      models # <<>>, l.gpu <= m.gpu, l.queue <= m.queue
               PROVE  Bits(Route(p, "auto", m)) <= Bits(Route(p, "auto", l))
    BY DEF LoadMonotone
  <2> DEFINE atL == RouteByStrategy(p, l)
             atM == RouteByStrategy(p, m)
  <2>1. Route(p, "auto", l) = atL /\ Route(p, "auto", m) = atM
    BY DEF Route, OrElse
  <2> SUFFICES Bits(atM) <= Bits(atL)
    BY <2>1
  <2>2. atL \in Loaded /\ atM \in Loaded
    BY <2>1, RouteIsLoaded
  <2>3. Bits(atL) \in {4, 8, 16} /\ Bits(atM) \in {4, 8, 16}
    BY <2>2, BitsOfLoaded
  <2>4. /\ l.gpu \in Nat /\ m.gpu \in Nat /\ l.queue \in Nat /\ m.queue \in Nat
    BY RouterAssumption DEF Loads
  <2>5. atM = OrDefault(MostQuantized) => Bits(atM) <= Bits(atL)
    BY <2>2, MostQuantizedIsLeast
  <2>6. atL = OrDefault(FullQuality) => Bits(atM) <= Bits(atL)
    BY <2>2, <2>3, FullQualityIsGreatest
  <2>7. atM = atL => Bits(atM) <= Bits(atL)
    BY <2>3
  <2>8. CASE strategy = "quality_first"
    BY <2>8, <2>7 DEF RouteByStrategy
  <2>9. CASE strategy = "priority"
    BY <2>9, <2>7 DEF RouteByStrategy
  <2>10. CASE strategy = "throughput_first"
    <3>1. atL = RouteThroughputFirst(l) /\ atM = RouteThroughputFirst(m)
      BY <2>10 DEF RouteByStrategy
    <3>2. CASE m.queue = 0 /\ m.gpu < IdleGpu
      <4>1. l.queue = 0 /\ l.gpu < IdleGpu
        BY <2>4, <3>2, RouterAssumption
      <4>2. atL = atM
        BY <3>1, <3>2, <4>1 DEF RouteThroughputFirst
      <4>3. QED BY <4>2, <2>7
    <3>3. CASE ~(m.queue = 0 /\ m.gpu < IdleGpu)
      BY <3>1, <3>3, <2>5 DEF RouteThroughputFirst
    <3>4. QED BY <3>2, <3>3
  <2>11. CASE strategy = "adaptive"
    <3>1. atL = RouteAdaptive(p, l) /\ atM = RouteAdaptive(p, m)
      BY <2>11 DEF RouteByStrategy
    <3>2. CASE HighLoad(m)
      BY <3>1, <3>2, <2>5 DEF RouteAdaptive
    <3>3. CASE ~HighLoad(m)
      <4>1. ~HighLoad(l)
        BY <2>4, <3>3, RouterAssumption DEF HighLoad
      <4>2. CASE p = "HIGH" \/ LowLoad(l)
        BY <3>1, <4>1, <4>2, <2>6 DEF RouteAdaptive
      <4>3. CASE ~(p = "HIGH" \/ LowLoad(l))
        <5>1. ~LowLoad(m)
          BY <2>4, <4>3, RouterAssumption DEF LowLoad
        <5>2. atL = atM
          BY <3>1, <3>3, <4>1, <4>3, <5>1 DEF RouteAdaptive
        <5>3. QED BY <5>2, <2>7
      <4>4. QED BY <4>2, <4>3
    <3>4. QED BY <3>2, <3>3
  <2>12. QED BY <2>8, <2>9, <2>10, <2>11 DEF Catalogue, Strategies
<1>2. QED BY <1>1, CatalogueHolds, PTL

=============================================================================

--------------------------- MODULE AllProcessorProofs ---------------------------
(***************************************************************************)
(* For every number of workers, items, results and updates: what the user  *)
(* sees he can re-evaluate, a kind that is assigned cannot panic, and what *)
(* overlapping updates leave behind is mended by one that runs alone.      *)
(***************************************************************************)
EXTENDS AllProcessor, SumTheorems, TLAPS

Update == [stage : Stage, item : Item \cup {Nobody}, pass : Pass, local : Int, nodes : SUBSET Item]

LEMMA Orders ==
  /\ Kind = {"daemonset", "deployment", "statefulset", "job", "pod"} /\ IsFiniteSet(Kind)
  /\ Len(Order) = 5 /\ \A n \in 1..5 : Order[n] \in Kind
<1>1. Len(Order) = 5 /\ DOMAIN Order = 1..5
  BY DEF Order
<1>2. Kind = {"daemonset", "deployment", "statefulset", "job", "pod"}
  BY <1>1 DEF Kind, Order, Range
<1>3. \A n \in 1..5 : Order[n] \in Kind
  BY <1>1 DEF Kind, Range
<1>4. IsFiniteSet(Kind)
  <2>1. Kind = ((((({} \cup {"daemonset"}) \cup {"deployment"}) \cup {"statefulset"}) \cup {"job"}) \cup {"pod"})
    BY <1>2
  <2>2. QED
    BY <2>1, FS_EmptySet, FS_AddElement
<1>5. QED
  BY <1>1, <1>2, <1>3, <1>4

\* An item is of one kind.
LEMMA KindOfItem ==
  /\ \A i \in Item : KindOf(i) \in Kind /\ i \in Items[KindOf(i)]
  /\ \A k \in Kind : \A i \in Items[k] : i \in Item /\ KindOf(i) = k
<1>1. ASSUME NEW i \in Item PROVE KindOf(i) \in Kind /\ i \in Items[KindOf(i)]
  <2>1. \E k \in Kind : i \in Items[k]
    BY DEF Item
  <2>2. QED
    BY <2>1 DEF KindOf
<1>2. ASSUME NEW k \in Kind, NEW i \in Items[k] PROVE i \in Item /\ KindOf(i) = k
  <2>1. i \in Item
    BY DEF Item
  <2>2. QED
    BY <1>1, <2>1, AllAssumption
<1>3. QED
  BY <1>1, <1>2

--------------------------------------------------------------------------------
(* The sums.                                                                 *)

\* The sums of the specification, of the functions they sum.
LEMMA SumsAre ==
  ASSUME NEW k \in Kind
  PROVE  /\ Aggregated(k) = SumOver(itemSummary, Items[k])
         /\ Aggregated(k)' = SumOver(itemSummary', Items[k])
<1>1. Aggregated(k) = SumOver(itemSummary, Items[k])
  BY Zenon DEF Aggregated, SumOver
<1>2. Aggregated(k)' = SumOver(itemSummary', Items[k])
  BY Zenon DEF Aggregated, SumOver, MapThenSumSet, MapThenFoldSet
<1>3. QED
  BY <1>1, <1>2

SumOfKinds == SumOver(summary, Kind)

LEMMA SumsOfKinds ==
  /\ MapThenSumSet(LAMBDA k : summary[k], Kind) = SumOfKinds
  /\ MapThenSumSet(LAMBDA k : summary[k], Kind)' = SumOfKinds'
<1>1. MapThenSumSet(LAMBDA k : summary[k], Kind) = SumOfKinds
  BY Zenon DEF SumOfKinds, SumOver
<1>2. MapThenSumSet(LAMBDA k : summary[k], Kind)' = SumOfKinds'
  BY Zenon DEF SumOfKinds, SumOver, MapThenSumSet, MapThenFoldSet
<1>3. QED
  BY <1>1, <1>2

LEMMA ResultsAreNumbers ==
  ASSUME TypeOK, NEW k \in Kind
  PROVE  IsFiniteSet(Items[k]) /\ \A i \in Items[k] : itemSummary[i] \in Int
<1>1. IsFiniteSet(Items[k]) /\ Value \cup {0} \subseteq Int
  BY AllAssumption
<1>2. itemSummary \in [Item -> Value \cup {0}]
  BY DEF TypeOK
<1>3. ASSUME NEW i \in Items[k] PROVE itemSummary[i] \in Int
  <2>1. i \in Item
    BY KindOfItem
  <2>2. itemSummary[i] \in Value \cup {0}
    BY <1>2, <2>1
  <2>3. QED
    BY <1>1, <2>2
<1>4. QED
  BY <1>1, <1>3

LEMMA SumTypes ==
  ASSUME TypeOK
  PROVE  SumOfKinds \in Int /\ \A k \in Kind : Aggregated(k) \in Int
<1>1. SumOfKinds \in Int
  BY Orders, SumOverType DEF SumOfKinds, TypeOK
<1>2. ASSUME NEW k \in Kind PROVE Aggregated(k) \in Int
  BY ResultsAreNumbers, SumOverType, SumsAre
<1>3. QED
  BY <1>1, <1>2

\* The sum of a kind changes only with the results of its items.
LEMMA SumKept ==
  ASSUME TypeOK, NEW k \in Kind, \A i \in Items[k] : itemSummary'[i] = itemSummary[i]
  PROVE  Aggregated(k)' = Aggregated(k)
BY ResultsAreNumbers, SumOverSame, SumsAre

--------------------------------------------------------------------------------
(* The steps of a worker.                                                    *)

\* What the parts of publishOptimizationItemFunc and publishResultSummaryFunc leave alone.
Untouched == <<mainVars, shown, itemsToProcessor, itemSummary, registered, reevaluated, updates,
               panicked, early, overlapped, alone>>

Route(w) ==
  /\ At(w, "route")
  /\ itemsToProcessor' = [itemsToProcessor EXCEPT ![work[w].item] = KindAt(w)]
  /\ work' = To(w, "show")
  /\ UNCHANGED <<mainVars, shown, itemSummary, registered, summary, total, table, reevaluated, updates,
                 panicked, early, overlapped, alone>>

Show(w) ==
  /\ At(w, "show")
  /\ shown' = shown \cup {work[w].item}
  /\ work' = To(w, "store")
  /\ UNCHANGED <<mainVars, itemsToProcessor, itemSummary, registered, summary, total, table, reevaluated,
                 updates, panicked, early, overlapped, alone>>

Aggregate(w) ==
  /\ At(w, "aggregate") /\ KindAt(w) \in processors
  /\ work' = [work EXCEPT ![w].local = Aggregated(KindAt(w)), ![w].stage = "set"]
  /\ UNCHANGED <<summary, total, table>> /\ UNCHANGED Untouched

Put(w) ==
  /\ At(w, "set")
  /\ summary' = [summary EXCEPT ![KindAt(w)] = work[w].local]
  /\ work' = To(w, AfterSet(w))
  /\ UNCHANGED <<total, table>> /\ UNCHANGED Untouched

AddUp(w) ==
  /\ At(w, "sum")
  /\ work' = [work EXCEPT ![w].stage = "publish", ![w].local = SumOfKinds]
  /\ UNCHANGED <<summary, total, table>> /\ UNCHANGED Untouched

Count(w) ==
  /\ Simulate(w)
  /\ UNCHANGED <<summary, total, table>> /\ UNCHANGED Untouched

Publish(w) ==
  /\ At(w, "publish")
  /\ total' = [total EXCEPT ![work[w].pass] = work[w].local]
  /\ table' = IF work[w].pass = "table" THEN work[w].nodes ELSE table
  /\ work' = IF work[w].pass = "table" THEN [work EXCEPT ![w] = Idle]
             ELSE [work EXCEPT ![w].stage = "aggregate", ![w].pass = "table"]
  /\ UNCHANGED summary /\ UNCHANGED Untouched

\* A worker takes one of ten steps.
LEMMA StepCases ==
  ASSUME NEW w \in Worker, WorkerStep(w)
  PROVE  \/ \E i \in Item : Begin(w, i)
         \/ Route(w) \/ Show(w)
         \/ \E v \in Value : UpdateSummary(w, v)
         \/ SummaryPanics(w)
         \/ Aggregate(w) \/ Put(w) \/ AddUp(w) \/ Count(w) \/ Publish(w)
<1>1. PublishOptimizationItem(w) => Route(w) \/ Show(w)
  BY DEF PublishOptimizationItem, PublishItem, Route, Show
<1>2. ASSUME PublishResultSummary(w) PROVE Aggregate(w) \/ Put(w) \/ AddUp(w) \/ Count(w) \/ Publish(w)
  <2>1. SetAggregate(w) /\ UNCHANGED <<total, table>> /\ UNCHANGED Untouched => Put(w) \/ AddUp(w)
    BY SumsOfKinds DEF SetAggregate, Put, AddUp
  <2>2. QED
    BY <1>2, <2>1 DEF PublishResultSummary, Untouched, Aggregate, Count, Publish
<1>3. QED
  BY <1>1, <1>2 DEF WorkerStep

--------------------------------------------------------------------------------
(* Types.                                                                    *)

LEMMA TypeInit == Init => TypeOK
<1> SUFFICES ASSUME Init PROVE TypeOK
  OBVIOUS
<1>1. Idle \in Update
  BY DEF Idle, Update, Stage, Pass
<1>2. work \in [Worker -> Update] /\ \A w \in Worker : At(w, "free")
  BY <1>1 DEF Init, At, Idle
<1>3. QED
  BY <1>2, Orders, AllAssumption DEF Init, TypeOK, Update, Pass

LEMMA TypeStep ==
  ASSUME TypeOK, NEW w \in Worker, WorkerStep(w)
  PROVE  /\ TypeOK'
         /\ work' \in [Worker -> Update] /\ \A v \in Worker \ {w} : work'[v] = work[v]
<1>1. /\ work \in [Worker -> Update] /\ Idle \in Update
      /\ \A v \in Worker : work[v].stage # "free" => work[v].item \in Item
  BY DEF TypeOK, Update, Idle, Stage, Pass, At
<1> DEFINE Moved(x) == /\ work' = [work EXCEPT ![w] = x]
                       /\ x \in Update /\ (x.stage # "free" => x.item \in Item)
<1>2. ASSUME NEW x, Moved(x)
      PROVE  /\ work' \in [Worker -> Update] /\ \A v \in Worker \ {w} : work'[v] = work[v]
             /\ \A v \in Worker : work'[v].stage # "free" => work'[v].item \in Item
  BY <1>1, <1>2
<1>3. ASSUME NEW i \in Item, Begin(w, i) PROVE TypeOK' /\ \E x : Moved(x)
  <2>1. Moved([Idle EXCEPT !.stage = "route", !.item = i])
    BY <1>1, <1>3 DEF Begin, Idle, Update, Stage
  <2>2. updates' \in 0..MaxUpdates
    BY <1>3, AllAssumption DEF Begin, TypeOK
  <2>3. QED
    BY <1>2, <1>3, <2>1, <2>2 DEF TypeOK, Begin, mainVars, At, Update
<1>4. ASSUME Route(w) PROVE TypeOK' /\ \E x : Moved(x)
  <2>1. work[w].item \in Item /\ KindAt(w) \in Kind
    BY <1>1, <1>4, KindOfItem DEF Route, At, KindAt
  <2>2. Moved([work[w] EXCEPT !.stage = "show"])
    BY <1>1, <1>4, <2>1 DEF Route, To, Update, Stage
  <2>3. itemsToProcessor' \in [Item -> Kind \cup {Unknown}]
    BY <1>4, <2>1 DEF Route, TypeOK
  <2>4. QED
    BY <1>2, <1>4, <2>2, <2>3 DEF TypeOK, Route, mainVars, At, Update
<1>5. ASSUME Show(w) PROVE TypeOK' /\ \E x : Moved(x)
  <2>1. work[w].item \in Item
    BY <1>1, <1>5 DEF Show, At
  <2>2. Moved([work[w] EXCEPT !.stage = "store"])
    BY <1>1, <1>5, <2>1 DEF Show, To, Update, Stage
  <2>3. QED
    BY <1>2, <1>5, <2>1, <2>2 DEF TypeOK, Show, mainVars, At, Update
<1>6. ASSUME NEW v \in Value, UpdateSummary(w, v) PROVE TypeOK' /\ \E x : Moved(x)
  <2>1. work[w].item \in Item
    BY <1>1, <1>6 DEF UpdateSummary, SetSummary, At
  <2>2. Moved([work[w] EXCEPT !.stage = "aggregate"])
    BY <1>1, <1>6, <2>1 DEF UpdateSummary, SetSummary, To, Update, Stage
  <2>3. itemSummary' \in [Item -> Value \cup {0}] /\ registered' \cup early' \subseteq Item
    BY <1>6, <2>1 DEF UpdateSummary, SetSummary, TypeOK
  <2>4. QED
    BY <1>2, <1>6, <2>2, <2>3 DEF TypeOK, UpdateSummary, mainVars, At, Update
<1>7. ASSUME SummaryPanics(w) PROVE TypeOK' /\ \E x : Moved(x)
  <2>1. work[w].item \in Item
    BY <1>1, <1>7 DEF SummaryPanics, At
  <2>2. Moved(Idle)
    BY <1>1, <1>7, <2>1 DEF SummaryPanics, Idle
  <2>3. QED
    BY <1>2, <1>7, <2>1, <2>2 DEF TypeOK, SummaryPanics, mainVars, At, Update
<1>8. ASSUME Aggregate(w) PROVE TypeOK' /\ \E x : Moved(x)
  <2>1. work[w].item \in Item
    BY <1>1, <1>8 DEF Aggregate, At
  <2>2. Aggregated(KindAt(w)) \in Int
    BY <2>1, KindOfItem, SumTypes DEF KindAt
  <2>3. Moved([work[w] EXCEPT !.local = Aggregated(KindAt(w)), !.stage = "set"])
    BY <1>1, <1>8, <2>1, <2>2 DEF Aggregate, Update, Stage
  <2>4. QED
    BY <1>2, <1>8, <2>3 DEF TypeOK, Aggregate, Untouched, mainVars, At, Update
<1>9. ASSUME Put(w) PROVE TypeOK' /\ \E x : Moved(x)
  <2>1. work[w].item \in Item /\ AfterSet(w) \in {"simulate", "sum"} /\ work[w].local \in Int
    BY <1>1, <1>9 DEF Put, At, AfterSet, Update
  <2>2. Moved([work[w] EXCEPT !.stage = AfterSet(w)])
    BY <1>1, <1>9, <2>1 DEF Put, To, Update, Stage
  <2>3. summary' \in [Kind -> Int]
    BY <1>9, <2>1 DEF Put, TypeOK
  <2>4. QED
    BY <1>2, <1>9, <2>2, <2>3 DEF TypeOK, Put, Untouched, mainVars, At, Update
<1>10. ASSUME AddUp(w) PROVE TypeOK' /\ \E x : Moved(x)
  <2>1. work[w].item \in Item /\ SumOfKinds \in Int
    BY <1>1, <1>10, SumTypes DEF AddUp, At
  <2>2. Moved([work[w] EXCEPT !.stage = "publish", !.local = SumOfKinds])
    BY <1>1, <1>10, <2>1 DEF AddUp, Update, Stage
  <2>3. QED
    BY <1>2, <1>10, <2>2 DEF TypeOK, AddUp, Untouched, mainVars, At, Update
<1>11. ASSUME Count(w) PROVE TypeOK' /\ \E x : Moved(x)
  <2>1. work[w].item \in Item /\ registered \subseteq Item
    BY <1>1, <1>11 DEF Count, Simulate, At, TypeOK
  <2>2. Moved([work[w] EXCEPT !.stage = "sum", !.nodes = registered])
    BY <1>1, <1>11, <2>1 DEF Count, Simulate, Update, Stage
  <2>3. QED
    BY <1>2, <1>11, <2>2 DEF TypeOK, Count, Untouched, mainVars, At, Update
<1>12. ASSUME Publish(w) PROVE TypeOK' /\ \E x : Moved(x)
  <2>1. /\ work[w].item \in Item /\ work[w].local \in Int /\ work[w].nodes \subseteq Item
        /\ work[w].pass \in Pass
    BY <1>1, <1>12 DEF Publish, At, Update
  <2>2. Moved(Idle) \/ Moved([work[w] EXCEPT !.stage = "aggregate", !.pass = "table"])
    BY <1>1, <1>12, <2>1 DEF Publish, Update, Stage, Pass, Idle
  <2>3. total' \in [Pass -> Int] /\ table' \subseteq Item
    BY <1>12, <2>1 DEF Publish, TypeOK
  <2>4. QED
    BY <1>2, <1>12, <2>2, <2>3 DEF TypeOK, Publish, Untouched, mainVars, At, Update
<1> HIDE DEF Moved
<1>13. TypeOK' /\ \E x : Moved(x)
  BY <1>3, <1>4, <1>5, <1>6, <1>7, <1>8, <1>9, <1>10, <1>11, <1>12, StepCases
<1>14. QED
  BY <1>2, <1>13

LEMMA TypeNext == TypeOK /\ [Next]_vars => TypeOK'
<1> SUFFICES ASSUME TypeOK, [Next]_vars PROVE TypeOK'
  OBVIOUS
<1>1. CASE NewProcessor
  <2>1. main.at \in 1..5 /\ Order[main.at] \in Kind /\ main' \in [at : 1..6, step : {"new", "sims", "assign"}]
    BY <1>1, Orders DEF NewProcessor, InitProcessor, TypeOK
  <2>2. processors' \cup simulated' \cup pushed' \subseteq Kind
    BY <1>1, <2>1 DEF NewProcessor, InitProcessor, TypeOK
  <2>3. QED
    BY <1>1, <2>1, <2>2, Orders DEF NewProcessor, TypeOK, At
<1>2. CASE \E w \in Worker : WorkerStep(w)
  BY <1>2, TypeStep
<1>3. CASE \E i \in Item : ReEvaluate(i)
  BY <1>3 DEF ReEvaluate, TypeOK, At, mainVars
<1>4. CASE UNCHANGED vars
  BY <1>4 DEF vars, TypeOK, At
<1>5. QED
  BY <1>1, <1>2, <1>3, <1>4 DEF Next

\* The processors, the simulations and the summaries keep their types, whatever kind is
\* assigned when.
THEOREM TypeCorrect == Spec => []TypeOK
BY TypeInit, TypeNext, PTL DEF Spec

--------------------------------------------------------------------------------
(* Re-evaluations reach the processor of the kind.                           *)

\* The kind is remembered before the item can be seen.
Routed ==
  /\ \A i \in shown : itemsToProcessor[i] = KindOf(i)
  /\ \A w \in Worker : At(w, "show") => itemsToProcessor[work[w].item] = KindAt(w)
  /\ reevaluated[1] # Nobody => reevaluated[2] = KindOf(reevaluated[1])

LEMMA RoutedStep ==
  ASSUME TypeOK, Routed, NEW w \in Worker, WorkerStep(w)
  PROVE  Routed'
<1>1. /\ work' \in [Worker -> Update] /\ work \in [Worker -> Update]
      /\ \A v \in Worker \ {w} : work'[v] = work[v]
      /\ itemsToProcessor \in [Item -> Kind \cup {Unknown}] /\ shown \subseteq Item
  BY TypeStep DEF TypeOK, Update
<1>2. \A v \in Worker : At(v, "show") \/ At(v, "route") => work[v].item \in Item
  BY DEF TypeOK, At
<1>3. CASE Route(w)
  <2>1. /\ itemsToProcessor' = [itemsToProcessor EXCEPT ![work[w].item] = KindOf(work[w].item)]
        /\ UNCHANGED <<shown, reevaluated>> /\ work[w].item \in Item
        /\ work'[w].item = work[w].item
    BY <1>1, <1>2, <1>3 DEF Route, KindAt, To, At, Update
  <2>2. \A i \in Item : itemsToProcessor[i] = KindOf(i) => itemsToProcessor'[i] = KindOf(i)
    BY <1>1, <2>1
  <2>3. itemsToProcessor'[work[w].item] = KindOf(work[w].item)
    BY <1>1, <2>1
  <2>4. ASSUME NEW v \in Worker, At(v, "show")' PROVE (itemsToProcessor[work[v].item] = KindAt(v))'
    <3>1. CASE v = w
      BY <2>1, <2>3, <3>1 DEF KindAt
    <3>2. CASE v # w
      BY <1>1, <1>2, <2>2, <2>4, <3>2 DEF KindAt, At, Routed
    <3>3. QED
      BY <3>1, <3>2
  <2>5. QED
    BY <1>1, <2>1, <2>2, <2>4 DEF Routed
<1>4. CASE Show(w)
  <2>1. /\ shown' = shown \cup {work[w].item} /\ work'[w].stage = "store"
        /\ UNCHANGED <<itemsToProcessor, reevaluated>>
    BY <1>1, <1>4 DEF Show, To, Update
  <2>2. itemsToProcessor[work[w].item] = KindOf(work[w].item)
    BY <1>4 DEF Routed, Show, KindAt
  <2>3. QED
    BY <1>1, <2>1, <2>2 DEF Routed, At, KindAt
<1>5. ASSUME UNCHANGED <<shown, itemsToProcessor, reevaluated>>, work'[w].stage # "show"
      PROVE  Routed'
  BY <1>1, <1>5 DEF Routed, At, KindAt
<1>6. Idle.stage = "free"
  BY DEF Idle
<1>7. ASSUME NEW i \in Item, Begin(w, i) PROVE Routed'
  <2>1. work'[w].stage = "route"
    BY <1>1, <1>7 DEF Begin, Idle
  <2>2. QED
    BY <1>5, <1>7, <2>1 DEF Begin
<1>8. ASSUME NEW v \in Value, UpdateSummary(w, v) PROVE Routed'
  <2>1. work'[w].stage = "aggregate"
    BY <1>1, <1>8 DEF UpdateSummary, SetSummary, To, Update
  <2>2. QED
    BY <1>5, <1>8, <2>1 DEF UpdateSummary
<1>9. CASE SummaryPanics(w)
  BY <1>1, <1>5, <1>6, <1>9 DEF SummaryPanics
<1>10. CASE Aggregate(w) \/ Put(w) \/ AddUp(w) \/ Count(w) \/ Publish(w)
  <2>1. work'[w].stage # "show"
    BY <1>1, <1>6, <1>10 DEF Aggregate, Put, AddUp, Count, Simulate, Publish, To, AfterSet, Update
  <2>2. QED
    BY <1>5, <1>10, <2>1 DEF Aggregate, Put, AddUp, Count, Publish, Untouched
<1>11. QED
  BY <1>3, <1>4, <1>7, <1>8, <1>9, <1>10, StepCases

\* ReEvaluationsReach: the processor that is asked is that of the item's kind.
THEOREM ReEvaluationsAreRouted == Spec => []ReEvaluationsReach
<1>1. Init => Routed
  BY DEF Init, Routed, At, Idle, Nobody
<1>2. TypeOK /\ Routed /\ [Next]_vars => Routed'
  <2> SUFFICES ASSUME TypeOK, Routed, [Next]_vars PROVE Routed'
    OBVIOUS
  <2>1. CASE NewProcessor
    BY <2>1 DEF NewProcessor, Routed, At, KindAt
  <2>2. CASE \E w \in Worker : WorkerStep(w)
    BY <2>2, RoutedStep
  <2>3. CASE \E i \in Item : ReEvaluate(i)
    BY <2>3 DEF ReEvaluate, Routed, At, KindAt
  <2>4. CASE UNCHANGED vars
    BY <2>4 DEF vars, Routed, At, KindAt
  <2>5. QED
    BY <2>1, <2>2, <2>3, <2>4 DEF Next
<1>3. TypeOK /\ Routed => ReEvaluationsReach
  BY DEF Routed, ReEvaluationsReach
<1>4. QED
  BY <1>1, <1>2, <1>3, TypeCorrect, PTL DEF Spec

--------------------------------------------------------------------------------
(* An assigned kind is safe.                                                 *)

\* The processor of a kind is assigned after it was given the simulations.
HandedOut ==
  /\ processors \subseteq simulated
  /\ main.step = "assign" => Order[main.at] \in simulated

SafeStep ==
  /\ \A i \in panicked' \ panicked : KindOf(i) \notin processors
  /\ \A i \in early' \ early : KindOf(i) \notin processors

\* AssignedKindsAreSafe: no job of an assigned kind panics or misses the simulations.
THEOREM AssignedIsSafe == Spec => AssignedKindsAreSafe
<1>1. Init => HandedOut
  BY DEF Init, HandedOut
<1>2. TypeOK /\ HandedOut /\ [Next]_vars => HandedOut' /\ [SafeStep]_vars
  <2> SUFFICES ASSUME TypeOK, HandedOut, [Next]_vars PROVE HandedOut' /\ [SafeStep]_vars
    OBVIOUS
  <2>1. CASE NewProcessor
    <3>1. HandedOut'
      BY <2>1 DEF NewProcessor, InitProcessor, HandedOut, TypeOK
    <3>2. QED
      BY <2>1, <3>1 DEF NewProcessor, SafeStep
  <2>2. ASSUME NEW w \in Worker, WorkerStep(w) PROVE HandedOut' /\ SafeStep
    <3>1. HandedOut'
      <4>1. UNCHANGED mainVars
        BY <2>2, StepCases DEF Begin, Route, Show, UpdateSummary, SummaryPanics, Aggregate, Put, AddUp, Count, Publish, Untouched
      <4>2. QED
        BY <4>1 DEF mainVars, HandedOut
    <3>2. ASSUME NEW v \in Value, UpdateSummary(w, v) PROVE SafeStep
      BY <3>2 DEF UpdateSummary, SetSummary, SafeStep, KindAt, HandedOut
    <3>3. SummaryPanics(w) => SafeStep
      BY DEF SummaryPanics, SafeStep, KindAt
    <3>4. UNCHANGED <<panicked, early>> => SafeStep
      BY DEF SafeStep
    <3>5. SafeStep
      BY <2>2, <3>2, <3>3, <3>4, StepCases DEF Begin, Route, Show, Aggregate, Put, AddUp, Count, Publish, Untouched
    <3>6. QED
      BY <3>1, <3>5
  <2>3. CASE \E i \in Item : ReEvaluate(i)
    BY <2>3 DEF ReEvaluate, mainVars, HandedOut, SafeStep
  <2>4. CASE UNCHANGED vars
    BY <2>4 DEF vars, HandedOut
  <2>5. QED
    BY <2>1, <2>2, <2>3, <2>4 DEF Next
<1>3. QED
  BY <1>1, <1>2, TypeCorrect, PTL DEF Spec, AssignedKindsAreSafe, SafeStep

--------------------------------------------------------------------------------
(* Summaries heal.                                                           *)

Busy(w) == work[w].stage # "free"
Summed == {"simulate", "sum", "publish"}

\* Once a worker of the kind set its summary, the summary is that of the items; and so it
\* is when all workers of the kind are done.  There is one worker of the kind at a time.
Sound(k) ==
  /\ \A v, w \in Worker : (Busy(v) /\ KindAt(v) = k /\ Busy(w) /\ KindAt(w) = k) => v = w
  /\ \A w \in Worker : (Busy(w) /\ KindAt(w) = k) =>
       /\ At(w, "set") => work[w].local = Aggregated(k)
       /\ work[w].stage \in Summed => summary[k] = Aggregated(k)
  /\ (Items[k] \cap panicked = {} /\ \A w \in Worker : ~(Busy(w) /\ KindAt(w) = k)) =>
       summary[k] = Aggregated(k)

Healthy == \A k \in Kind \ overlapped : Sound(k)

Mended ==
  /\ summary[KindOf(alone)] = Aggregated(KindOf(alone))
  /\ total["summary"] = SumOfKinds /\ total["table"] = SumOfKinds
  /\ Whole => table = registered

\* How far the worker that runs alone has mended them.
Mends(w) ==
  /\ work[w].stage \in {"route", "show", "store"} => work[w].pass = "summary"
  /\ At(w, "set") => work[w].local = Aggregated(KindOf(alone))
  /\ work[w].stage \in Summed => summary[KindOf(alone)] = Aggregated(KindOf(alone))
  /\ At(w, "publish") => work[w].local = SumOfKinds
  /\ work[w].pass = "table" =>
       /\ summary[KindOf(alone)] = Aggregated(KindOf(alone)) /\ total["summary"] = SumOfKinds
       /\ (Whole /\ work[w].stage \in {"sum", "publish"}) => work[w].nodes = registered

Undisturbed ==
  alone # Nobody =>
    /\ alone \in Item
    /\ \A w \in Worker : Busy(w) => work[w].item = alone /\ Mends(w)
    /\ \A v, w \in Worker : (Busy(v) /\ Busy(w)) => v = w
    /\ (alone \notin panicked /\ \A w \in Worker : ~Busy(w)) => Mended

\* What a step of a worker that is busy leaves alone.
LEMMA StepTouches ==
  ASSUME TypeOK, NEW w \in Worker, WorkerStep(w), Busy(w)
  PROVE  /\ \A k \in Kind \ {KindAt(w)} : summary'[k] = summary[k] /\ Items[k] \cap panicked' = Items[k] \cap panicked
         /\ \A k \in Kind : (k # KindAt(w) \/ ~At(w, "store")) => Aggregated(k)' = Aggregated(k)
         /\ ~At(w, "store") => UNCHANGED registered
         /\ ~At(w, "set") => UNCHANGED <<summary, SumOfKinds>>
         /\ ~At(w, "publish") => UNCHANGED <<total, table>>
         /\ overlapped' = overlapped /\ alone' = alone /\ panicked \subseteq panicked'
         /\ work'[w].stage # "free" => work'[w].item = work[w].item
<1>1. /\ work \in [Worker -> Update] /\ work[w].item \in Item /\ KindAt(w) \in Kind
      /\ itemSummary \in [Item -> Value \cup {0}] /\ summary \in [Kind -> Int]
  BY KindOfItem DEF TypeOK, Update, Busy, At, KindAt
<1>2. \A i \in Item : ~Begin(w, i)
  BY DEF Begin, At, Busy
<1>3. \A k \in Kind \ {KindAt(w)} : work[w].item \notin Items[k]
  BY KindOfItem DEF KindAt
<1>4. overlapped' = overlapped /\ alone' = alone
  BY <1>2, StepCases DEF Route, Show, UpdateSummary, SummaryPanics, Aggregate, Put, AddUp, Count, Publish, Untouched
<1>5. panicked' = panicked \/ panicked' = panicked \cup {work[w].item}
  BY <1>2, StepCases DEF Route, Show, UpdateSummary, SummaryPanics, Aggregate, Put, AddUp, Count, Publish, Untouched
<1>6. ~At(w, "set") => UNCHANGED summary
  BY <1>2, StepCases DEF Route, Show, UpdateSummary, SummaryPanics, Aggregate, Put, AddUp, Count, Publish
<1>7. UNCHANGED summary => UNCHANGED SumOfKinds
  BY DEF SumOfKinds
<1>8. ~At(w, "publish") => UNCHANGED <<total, table>>
  BY <1>2, StepCases DEF Route, Show, UpdateSummary, SummaryPanics, Aggregate, Put, AddUp, Count, Publish
<1>9. ~At(w, "store") => UNCHANGED <<registered, itemSummary>>
  BY <1>2, StepCases DEF Route, Show, UpdateSummary, SetSummary, SummaryPanics, Aggregate, Put, AddUp, Count, Publish, Untouched
<1>10. \A k \in Kind \ {KindAt(w)} : summary'[k] = summary[k]
  <2>1. Put(w) => summary' = [summary EXCEPT ![KindAt(w)] = work[w].local]
    BY DEF Put
  <2>2. summary' = summary \/ summary' = [summary EXCEPT ![KindAt(w)] = work[w].local]
    BY <1>2, <2>1, StepCases DEF Route, Show, UpdateSummary, SummaryPanics, Aggregate, AddUp, Count, Publish
  <2>3. QED
    BY <1>1, <2>2
<1>11. \A i \in Item \ {work[w].item} : itemSummary'[i] = itemSummary[i]
  <2>1. \/ itemSummary' = itemSummary
        \/ \E v \in Value : itemSummary' = [itemSummary EXCEPT ![work[w].item] = v]
    BY <1>2, StepCases DEF Route, Show, UpdateSummary, SetSummary, SummaryPanics, Aggregate, Put, AddUp, Count, Publish, Untouched
  <2>2. QED
    BY <1>1, <2>1
<1>12. ASSUME NEW k \in Kind, k # KindAt(w) \/ ~At(w, "store") PROVE Aggregated(k)' = Aggregated(k)
  <2>1. \A i \in Items[k] : itemSummary'[i] = itemSummary[i]
    BY <1>3, <1>9, <1>11, <1>12, KindOfItem
  <2>2. QED
    BY <2>1, SumKept
<1>13. work'[w].stage # "free" => work'[w].item = work[w].item
  <2>1. Idle.stage = "free"
    BY DEF Idle
  <2>2. Route(w) \/ Show(w) \/ Put(w) => work'[w].item = work[w].item
    BY <1>1 DEF Route, Show, Put, To, Update
  <2>3. ASSUME NEW v \in Value, UpdateSummary(w, v) PROVE work'[w].item = work[w].item
    BY <1>1, <2>3 DEF UpdateSummary, SetSummary, To, Update
  <2>4. Aggregate(w) \/ AddUp(w) \/ Count(w) => work'[w].item = work[w].item
    BY <1>1 DEF Aggregate, AddUp, Count, Simulate, Update
  <2>5. SummaryPanics(w) => work'[w].stage = "free"
    BY <1>1, <2>1 DEF SummaryPanics
  <2>6. Publish(w) => work'[w].stage = "free" \/ work'[w].item = work[w].item
    BY <1>1, <2>1 DEF Publish, Update
  <2>7. QED
    BY <1>2, <2>2, <2>3, <2>4, <2>5, <2>6, StepCases
<1>14. \A k \in Kind \ {KindAt(w)} : Items[k] \cap panicked' = Items[k] \cap panicked
  BY <1>3, <1>5
<1>15. QED
  BY <1>4, <1>5, <1>6, <1>7, <1>8, <1>9, <1>10, <1>12, <1>13, <1>14

\* Where a busy worker goes, and what it takes along.
LEMMA StepMoves ==
  ASSUME TypeOK, NEW w \in Worker, WorkerStep(w), Busy(w)
  PROVE  \/ /\ work'[w].stage = "show" /\ work[w].stage = "route" /\ work'[w].pass = work[w].pass
         \/ /\ work'[w].stage = "store" /\ work[w].stage = "show" /\ work'[w].pass = work[w].pass
         \/ /\ work'[w].stage = "aggregate" /\ work[w].stage = "store" /\ work'[w].pass = work[w].pass
         \/ /\ work'[w].stage = "free" /\ work[w].stage = "aggregate" /\ work[w].item \in panicked'
         \/ /\ work'[w].stage = "set" /\ work[w].stage = "aggregate" /\ work'[w].pass = work[w].pass
            /\ work'[w].local = Aggregated(KindAt(w))
         \/ /\ work'[w].stage \in {"simulate", "sum"} /\ work[w].stage = "set" /\ work'[w].pass = work[w].pass
            /\ summary' = [summary EXCEPT ![KindAt(w)] = work[w].local]
            /\ (work[w].pass = "table" /\ Whole) => work'[w].stage = "simulate"
         \/ /\ work'[w].stage = "sum" /\ work[w].stage = "simulate" /\ work'[w].pass = work[w].pass
            /\ work'[w].nodes = registered
         \/ /\ work'[w].stage = "publish" /\ work[w].stage = "sum" /\ work'[w].pass = work[w].pass
            /\ work'[w].local = SumOfKinds /\ work'[w].nodes = work[w].nodes
         \/ /\ work'[w].stage = "aggregate" /\ work[w].stage = "publish" /\ work'[w].pass = "table"
            /\ work[w].pass = "summary" /\ total' = [total EXCEPT !["summary"] = work[w].local]
         \/ /\ work'[w].stage = "free" /\ work[w].stage = "publish" /\ work[w].pass = "table"
            /\ total' = [total EXCEPT !["table"] = work[w].local] /\ table' = work[w].nodes
<1>1. work \in [Worker -> Update] /\ Idle.stage = "free" /\ work[w].pass \in {"summary", "table"}
  BY DEF TypeOK, Update, Idle, Pass
<1>2. \A i \in Item : ~Begin(w, i)
  BY DEF Begin, At, Busy
<1>3. CASE Route(w)
  BY <1>1, <1>3 DEF Route, To, At, Update
<1>4. CASE Show(w)
  BY <1>1, <1>4 DEF Show, To, At, Update
<1>5. CASE \E v \in Value : UpdateSummary(w, v)
  BY <1>1, <1>5 DEF UpdateSummary, SetSummary, To, At, Update
<1>6. CASE SummaryPanics(w)
  BY <1>1, <1>6 DEF SummaryPanics, At
<1>7. CASE Aggregate(w)
  BY <1>1, <1>7 DEF Aggregate, At, Update
<1>8. CASE Put(w)
  BY <1>1, <1>8 DEF Put, To, AfterSet, At, Update
<1>9. CASE AddUp(w)
  BY <1>1, <1>9 DEF AddUp, At, Update
<1>10. CASE Count(w)
  BY <1>1, <1>10 DEF Count, Simulate, At, Update
<1>11. CASE Publish(w)
  <2>1. CASE work[w].pass = "table"
    BY <1>1, <1>11, <2>1 DEF Publish, At
  <2>2. CASE work[w].pass = "summary"
    BY <1>1, <1>11, <2>2 DEF Publish, At, Update
  <2>3. QED
    BY <1>1, <2>1, <2>2
<1>12. QED
  BY <1>2, <1>3, <1>4, <1>5, <1>6, <1>7, <1>8, <1>9, <1>10, <1>11, StepCases

LEMMA HealthyInit == Init => Healthy
<1> SUFFICES ASSUME Init PROVE Healthy
  OBVIOUS
<1>1. TypeOK /\ \A w \in Worker : ~Busy(w) /\ ~At(w, "set")
  BY TypeInit DEF Init, Busy, Idle, At
<1>2. ASSUME NEW k \in Kind PROVE Aggregated(k) = 0
  <2>1. \A i \in Items[k] : itemSummary[i] = 0
    BY KindOfItem DEF Init
  <2>2. QED
    BY <1>1, <2>1, ResultsAreNumbers, SumOverZero, SumsAre
<1>3. \A k \in Kind : summary[k] = 0
  BY DEF Init
<1>4. QED
  BY <1>1, <1>2, <1>3 DEF Healthy, Sound

LEMMA HealthyBegin ==
  ASSUME TypeOK, Healthy, NEW w \in Worker, NEW i \in Item, Begin(w, i)
  PROVE  Healthy'
<1> SUFFICES ASSUME NEW k \in Kind \ overlapped' PROVE Sound(k)'
  BY DEF Healthy
<1>1. /\ \A v \in Worker \ {w} : work'[v] = work[v]
      /\ ~Busy(w) /\ work'[w].item = i /\ work'[w].stage = "route"
      /\ UNCHANGED <<summary, panicked, itemSummary>>
  BY DEF Begin, TypeOK, Update, Idle, At, Busy
<1>2. Aggregated(k)' = Aggregated(k)
  BY <1>1, SumKept
<1>3. k \notin overlapped /\ Sound(k)
  <2>1. k \notin overlapped
    BY DEF Begin
  <2>2. QED
    BY <2>1 DEF Healthy
<1>4. \A v \in Worker \ {w} : (Busy(v) <=> Busy(v)') /\ KindAt(v)' = KindAt(v) /\ At(v, "set")' = At(v, "set")
  BY <1>1 DEF Busy, KindAt, At
<1>5. KindAt(w)' = KindOf(i) /\ ~At(w, "set")' /\ Busy(w)' /\ work'[w].stage \notin Summed
  BY <1>1 DEF KindAt, At, Busy, Summed
<1>6. CASE KindOf(i) = k
  <2>1. \A v \in Worker : ~(Busy(v) /\ KindAt(v) = k)
    BY <1>6 DEF Begin, Busy, At
  <2>2. QED
    BY <1>4, <1>5, <1>6, <2>1 DEF Sound
<1>7. CASE KindOf(i) # k
  BY <1>1, <1>2, <1>3, <1>4, <1>5, <1>7 DEF Sound
<1>8. QED
  BY <1>6, <1>7

LEMMA HealthyStep ==
  ASSUME TypeOK, Healthy, NEW w \in Worker, WorkerStep(w)
  PROVE  Healthy'
<1>1. CASE ~Busy(w)
  <2>1. \E i \in Item : Begin(w, i)
    BY <1>1, StepCases DEF Route, Show, UpdateSummary, SetSummary, SummaryPanics, Aggregate, Put, AddUp, Count, Simulate, Publish, At, Busy
  <2>2. QED
    BY <2>1, HealthyBegin
<1>2. CASE Busy(w)
  <2> SUFFICES ASSUME NEW k \in Kind \ overlapped' PROVE Sound(k)'
    BY DEF Healthy
  <2>1. k \notin overlapped /\ Sound(k)
    <3>1. k \notin overlapped
      BY <1>2, StepTouches
    <3>2. QED
      BY <3>1 DEF Healthy
  <2>2. /\ \A v \in Worker \ {w} : work'[v] = work[v] /\ (Busy(v)' <=> Busy(v)) /\ KindAt(v)' = KindAt(v)
        /\ \A v \in Worker \ {w} : At(v, "set")' <=> At(v, "set")
    BY TypeStep DEF Busy, KindAt, At
  <2>3. Busy(w)' => KindAt(w)' = KindAt(w) /\ work'[w].item = work[w].item
    BY <1>2, StepTouches DEF Busy, KindAt
  <2>4. CASE KindAt(w) # k
    <3>1. summary'[k] = summary[k] /\ Aggregated(k)' = Aggregated(k) /\ Items[k] \cap panicked' = Items[k] \cap panicked
      BY <1>2, <2>4, StepTouches
    <3>2. QED
      BY <2>1, <2>2, <2>3, <2>4, <3>1 DEF Sound
  <2>5. CASE KindAt(w) = k
    <3>1. \A v \in Worker \ {w} : ~(Busy(v)' /\ KindAt(v)' = k)
      BY <1>2, <2>1, <2>2, <2>5 DEF Sound
    <3>2. work[w].item \in Items[k] /\ summary \in [Kind -> Int]
      BY <1>2, <2>5, KindOfItem DEF TypeOK, Busy, At, KindAt
    <3>3. /\ At(w, "set") => work[w].local = Aggregated(k)
          /\ work[w].stage \in Summed => summary[k] = Aggregated(k)
      BY <1>2, <2>1, <2>5 DEF Sound
    <3>4. /\ ~At(w, "store") => Aggregated(k)' = Aggregated(k)
          /\ ~At(w, "set") => summary'[k] = summary[k]
      BY <1>2, StepTouches
    <3>5. /\ At(w, "set")' => work'[w].local = Aggregated(k)'
          /\ work'[w].stage \in Summed => summary'[k] = Aggregated(k)'
          /\ ~Busy(w)' => summary'[k] = Aggregated(k)' \/ work[w].item \in panicked'
      BY <1>2, <2>5, <3>2, <3>3, <3>4, StepMoves DEF At, Summed, Busy
    <3>6. QED
      BY <2>3, <2>5, <3>1, <3>2, <3>5 DEF Sound
  <2>6. QED
    BY <2>4, <2>5
<1>3. QED
  BY <1>1, <1>2

LEMMA HealthyNext == TypeOK /\ Healthy /\ [Next]_vars => Healthy'
<1> SUFFICES ASSUME TypeOK, Healthy, [Next]_vars PROVE Healthy'
  OBVIOUS
<1>1. ASSUME UNCHANGED <<summary, work, itemSummary, panicked, overlapped>> PROVE Healthy'
  <2>1. \A k \in Kind : Aggregated(k)' = Aggregated(k)
    BY <1>1, SumKept
  <2>2. QED
    BY <1>1, <2>1 DEF Healthy, Sound, Busy, KindAt, At
<1>2. CASE NewProcessor
  BY <1>1, <1>2 DEF NewProcessor
<1>3. CASE \E w \in Worker : WorkerStep(w)
  BY <1>3, HealthyStep
<1>4. CASE \E i \in Item : ReEvaluate(i)
  BY <1>1, <1>4 DEF ReEvaluate
<1>5. CASE UNCHANGED vars
  BY <1>1, <1>5 DEF vars
<1>6. QED
  BY <1>2, <1>3, <1>4, <1>5 DEF Next

--------------------------------------------------------------------------------

LEMMA UndisturbedBegin ==
  ASSUME TypeOK, Undisturbed, NEW w \in Worker, NEW i \in Item, Begin(w, i)
  PROVE  Undisturbed'
<1> SUFFICES ASSUME alone' # Nobody PROVE Undisturbed'
  BY DEF Undisturbed
<1>1. /\ \A v \in Worker \ {w} : work'[v] = work[v]
      /\ work'[w].item = i /\ work'[w].stage = "route" /\ work'[w].pass = "summary"
  BY DEF Begin, TypeOK, Update, Idle
<1>2. alone' = i /\ \A v \in Worker : ~Busy(v)
  BY DEF Begin, Busy, At
<1>3. Mends(w)'
  BY <1>1 DEF Mends, At, Summed
<1>4. QED
  BY <1>1, <1>2, <1>3 DEF Undisturbed, Busy

LEMMA UndisturbedStep ==
  ASSUME TypeOK, Undisturbed, NEW w \in Worker, WorkerStep(w)
  PROVE  Undisturbed'
<1>1. CASE ~Busy(w)
  <2>1. \E i \in Item : Begin(w, i)
    BY <1>1, StepCases DEF Route, Show, UpdateSummary, SetSummary, SummaryPanics, Aggregate, Put, AddUp, Count, Simulate, Publish, At, Busy
  <2>2. QED
    BY <2>1, UndisturbedBegin
<1>2. CASE Busy(w) /\ alone # Nobody
  <2>1. /\ \A v \in Worker \ {w} : work'[v] = work[v] /\ ~Busy(v)' 
        /\ alone \in Item /\ work[w].item = alone /\ Mends(w)
    BY <1>2, TypeStep DEF Undisturbed, Busy
  <2>2. PICK k \in Kind : k = KindOf(alone)
    BY <2>1, KindOfItem
  <2>3. /\ alone' = alone /\ panicked \subseteq panicked' /\ KindAt(w) = k
        /\ work'[w].stage # "free" => work'[w].item = alone
        /\ ~At(w, "store") => Aggregated(k)' = Aggregated(k) /\ UNCHANGED registered
        /\ ~At(w, "set") => UNCHANGED <<summary, SumOfKinds>>
        /\ ~At(w, "publish") => UNCHANGED <<total, table>>
    BY <1>2, <2>1, <2>2, StepTouches DEF KindAt
  <2>4. KindOf(alone)' = k
    BY <2>2, <2>3
  <2>5. summary \in [Kind -> Int] /\ total \in [Pass -> Int] /\ work[w].pass \in {"summary", "table"}
    BY DEF TypeOK, Pass
  <2>6. /\ work[w].stage \in {"route", "show", "store"} => work[w].pass = "summary"
        /\ At(w, "set") => work[w].local = Aggregated(k)
        /\ work[w].stage \in Summed => summary[k] = Aggregated(k)
        /\ At(w, "publish") => work[w].local = SumOfKinds
        /\ work[w].pass = "table" => summary[k] = Aggregated(k) /\ total["summary"] = SumOfKinds
        /\ (work[w].pass = "table" /\ Whole /\ work[w].stage \in {"sum", "publish"}) => work[w].nodes = registered
    BY <2>1, <2>2 DEF Mends
  <2>7. (At(w, "set") /\ work[w].pass = "table") => UNCHANGED <<summary, SumOfKinds>>
    <3>1. (At(w, "set") /\ work[w].pass = "table") => summary' = [summary EXCEPT ![k] = summary[k]]
      BY <1>2, <2>3, <2>6, StepMoves DEF At
    <3>2. QED
      BY <2>5, <3>1 DEF SumOfKinds
  <2>8. work'[w].stage # "free" => Mends(w)'
    <3>1. /\ work'[w].stage \in {"route", "show", "store"} => work'[w].pass = "summary"
          /\ At(w, "set")' => work'[w].local = Aggregated(k)'
      BY <1>2, <2>3, <2>6, StepMoves DEF At
    <3>2. work'[w].stage \in Summed => summary'[k] = Aggregated(k)'
      BY <1>2, <2>3, <2>5, <2>6, StepMoves DEF At, Summed
    <3>3. At(w, "publish")' => work'[w].local = SumOfKinds'
      BY <1>2, <2>3, StepMoves DEF At
    <3>4. (work'[w].stage # "free" /\ work'[w].pass = "table") => summary'[k] = Aggregated(k)'
      BY <1>2, <2>3, <2>5, <2>6, <2>7, StepMoves DEF At, Summed
    <3>5. (work'[w].stage # "free" /\ work'[w].pass = "table") => total'["summary"] = SumOfKinds'
      BY <1>2, <2>3, <2>5, <2>6, <2>7, StepMoves DEF At, Pass
    <3>6. (work'[w].pass = "table" /\ Whole /\ work'[w].stage \in {"sum", "publish"}) => work'[w].nodes = registered'
      BY <1>2, <2>3, <2>6, StepMoves DEF At
    <3>7. QED
      BY <2>4, <3>1, <3>2, <3>3, <3>4, <3>5, <3>6 DEF Mends
  <2>9. (work'[w].stage = "free" /\ alone' \notin panicked') => Mended'
    <3> SUFFICES ASSUME work'[w].stage = "free", alone' \notin panicked' PROVE Mended'
      OBVIOUS
    <3>1. /\ At(w, "publish") /\ work[w].pass = "table" /\ table' = work[w].nodes
          /\ total' = [total EXCEPT !["table"] = work[w].local]
      BY <1>2, <2>1, <2>3, StepMoves DEF At
    <3>2. UNCHANGED <<summary, SumOfKinds, registered>> /\ Aggregated(k)' = Aggregated(k)
      BY <2>3, <3>1 DEF At
    <3>3. summary[k] = Aggregated(k) /\ total["summary"] = SumOfKinds /\ work[w].local = SumOfKinds
      BY <2>6, <3>1 DEF At
    <3>4. total'["summary"] = SumOfKinds /\ total'["table"] = SumOfKinds
      BY <2>5, <3>1, <3>3 DEF Pass
    <3>5. Whole => table' = registered
      BY <2>6, <3>1 DEF At
    <3>6. QED
      BY <2>4, <3>2, <3>3, <3>4, <3>5 DEF Mended
  <2>10. QED
    BY <2>1, <2>3, <2>8, <2>9 DEF Undisturbed, Busy
<1>3. CASE Busy(w) /\ alone = Nobody
  BY <1>3, StepTouches DEF Undisturbed
<1>4. QED
  BY <1>1, <1>2, <1>3

LEMMA UndisturbedNext == TypeOK /\ Undisturbed /\ [Next]_vars => Undisturbed'
<1> SUFFICES ASSUME TypeOK, Undisturbed, [Next]_vars PROVE Undisturbed'
  OBVIOUS
<1>1. ASSUME UNCHANGED <<itemSummary, registered, summary, total, table, work, panicked, alone>> PROVE Undisturbed'
  <2>1. \A k \in Kind : Aggregated(k)' = Aggregated(k)
    BY <1>1, SumKept
  <2>2. alone \in Item => KindOf(alone) \in Kind
    BY KindOfItem
  <2>3. SumOfKinds' = SumOfKinds
    BY <1>1 DEF SumOfKinds
  <2>4. QED
    BY <1>1, <2>1, <2>2, <2>3 DEF Undisturbed, Mends, Mended, Busy, At
<1>2. CASE NewProcessor
  BY <1>1, <1>2 DEF NewProcessor
<1>3. CASE \E w \in Worker : WorkerStep(w)
  BY <1>3, UndisturbedStep
<1>4. CASE \E i \in Item : ReEvaluate(i)
  BY <1>1, <1>4 DEF ReEvaluate
<1>5. CASE UNCHANGED vars
  BY <1>1, <1>5 DEF vars
<1>6. QED
  BY <1>2, <1>3, <1>4, <1>5 DEF Next

\* SummariesHeal: what overlapping updates leave behind is replaced by the next update
\* that runs alone, and kinds whose updates never overlapped are never behind.
THEOREM Healing == Spec => []SummariesHeal
<1>1. Init => Undisturbed
  BY DEF Init, Undisturbed
<1>2. TypeOK /\ Healthy /\ Undisturbed => SummariesHeal
  <2> SUFFICES ASSUME TypeOK, Healthy, Undisturbed PROVE SummariesHeal
    OBVIOUS
  <2>1. AggregateIsCurrent
    BY DEF AggregateIsCurrent, Healthy, Sound, Busy, At
  <2>2. TotalsHeal
    <3> SUFFICES ASSUME alone # Nobody, alone \notin panicked, \A w \in Worker : At(w, "free")
                 PROVE  /\ summary[KindOf(alone)] = Aggregated(KindOf(alone))
                        /\ \A pass \in DOMAIN total : total[pass] = MapThenSumSet(LAMBDA k : summary[k], Kind)
      BY DEF TotalsHeal
    <3>1. Mended
      BY DEF Undisturbed, At, Busy
    <3>2. DOMAIN total = {"summary", "table"}
      BY DEF TypeOK, Pass
    <3>3. \A pass \in DOMAIN total : total[pass] = SumOfKinds
      BY <3>1, <3>2 DEF Mended
    <3>4. MapThenSumSet(LAMBDA k : summary[k], Kind) = SumOfKinds
      BY SumsOfKinds
    <3>5. \A pass \in DOMAIN total : total[pass] = MapThenSumSet(LAMBDA k : summary[k], Kind)
      BY <3>3, <3>4, Zenon
    <3>6. QED
      BY <3>1, <3>5, Zenon DEF Mended
  <2>3. NodesMatchTotals
    BY DEF NodesMatchTotals, Undisturbed, Mended, Busy, At
  <2>4. QED
    BY <2>1, <2>2, <2>3 DEF SummariesHeal
<1>3. QED
  BY <1>1, <1>2, HealthyInit, HealthyNext, UndisturbedNext, TypeCorrect, PTL DEF Spec

================================================================================

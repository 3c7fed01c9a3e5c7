------------------------------ MODULE AllProcessor ------------------------------
(***************************************************************************)
(* plugin/processor/all: one processor over the five kinds of workloads.   *)
(* It remembers which kind an item belongs to, and adds the summaries of   *)
(* the kinds up to one of the cluster.                                     *)
(*                                                                         *)
(* The processors are made one after the other, each pushes its first job  *)
(* as it is made, and the workers call back: publishResultSummaryFunc and  *)
(* publishResultSummaryTableFunc read the processor of the kind, the       *)
(* summaries of its items, and the summaries of the other kinds, in steps  *)
(* that interleave with those of other workers.                            *)
(***************************************************************************)
EXTENDS Integers, Sequences, FiniteSets, FiniteSetsExt, Functions

CONSTANTS
  Worker,     \* the workers of the job queue
  Items,      \* kind -> the items its jobs find
  Value,      \* what a result may contribute to the summary
  Whole,      \* neither a namespace nor a selector restricts the cluster
  MaxUpdates  \* bound on the updates of the summary

\* The order the processors are made in.
Order == <<"daemonset", "deployment", "statefulset", "job", "pod">>
Kind == Range(Order)
Item == UNION {Items[k] : k \in Kind}
KindOf(i) == CHOOSE k \in Kind : i \in Items[k]

ASSUME AllAssumption ==
  /\ \A k, l \in Kind : k # l => Items[k] \cap Items[l] = {}
  /\ \A k \in Kind : IsFiniteSet(Items[k])
  /\ Value \subseteq Nat /\ MaxUpdates \in Nat /\ Whole \in BOOLEAN

VARIABLES
  main,              \* NewProcessor: the kind it is at, and how far it is with it
  pushed,            \* the kinds whose first job was pushed
  simulated,         \* the kinds that were given the simulations
  processors,        \* the kinds whose processor is assigned to p
  itemsToProcessor,  \* the items whose kind is known, with it
  shown,             \* the items that were published
  itemSummary,       \* the summary of each item, in the processor of its kind
  registered,        \* the items whose workload was added to the simulations
  summary,           \* p.summary: what the items of a kind amount to
  total,             \* the summary and the table last published
  table,             \* the items whose workloads the nodes of that table were computed for
  work,              \* worker -> the update it is at
  reevaluated,       \* the item last re-evaluated, and the kind whose processor was asked
  updates,           \* how many updates there were
  panicked,          \* history: the items a job of which hit a nil processor
  early,             \* history: items stored before their kind had the simulations
  overlapped,        \* history: the kinds of which two updates overlapped
  alone              \* history: the item of the last update, if no other overlapped it

vars == <<main, pushed, simulated, processors, itemsToProcessor, shown, itemSummary, registered,
          summary, total, table, work, reevaluated, updates, panicked, early, overlapped, alone>>
mainVars == <<main, pushed, simulated, processors>>

Unknown == "unknown"
Nobody == "nobody"
Pass == {"summary", "table"}
Idle == [stage |-> "free", item |-> Nobody, pass |-> "summary", local |-> 0, nodes |-> {}]

Init ==
  /\ main = [at |-> 1, step |-> "new"]
  /\ pushed = {} /\ simulated = {} /\ processors = {}
  /\ itemsToProcessor = [i \in Item |-> Unknown] /\ shown = {}
  /\ itemSummary = [i \in Item |-> 0] /\ registered = {}
  /\ summary = [k \in Kind |-> 0] /\ total = [pass \in Pass |-> 0] /\ table = {}
  /\ work = [w \in Worker |-> Idle]
  /\ reevaluated = <<Nobody, Unknown>>
  /\ updates = 0 /\ panicked = {} /\ early = {} /\ overlapped = {}
  /\ alone = Nobody

--------------------------------------------------------------------------------
(* NewProcessor.                                                             *)

\* Deviation: the simulations are handed out after the processor was assigned.
InitProcessorLate(k) ==
  \/ /\ main.step = "new" /\ pushed' = pushed \cup {k} /\ main' = [main EXCEPT !.step = "assign"]
     /\ UNCHANGED <<simulated, processors>>
  \/ /\ main.step = "assign" /\ processors' = processors \cup {k} /\ main' = [main EXCEPT !.step = "sims"]
     /\ UNCHANGED <<pushed, simulated>>
  \/ /\ main.step = "sims" /\ simulated' = simulated \cup {k}
     /\ main' = [at |-> main.at + 1, step |-> "new"]
     /\ UNCHANGED <<pushed, processors>>

\* initDaemonsetProcessor and so on: the processor of the kind is made, which pushes its
\* first job, and is given the simulations; what is returned is assigned.
InitProcessor(k) ==
  \/ /\ main.step = "new" /\ pushed' = pushed \cup {k} /\ main' = [main EXCEPT !.step = "sims"]
     /\ UNCHANGED <<simulated, processors>>
  \/ /\ main.step = "sims" /\ simulated' = simulated \cup {k} /\ main' = [main EXCEPT !.step = "assign"]
     /\ UNCHANGED <<pushed, processors>>
  \/ /\ main.step = "assign" /\ processors' = processors \cup {k}
     /\ main' = [at |-> main.at + 1, step |-> "new"]
     /\ UNCHANGED <<pushed, simulated>>

NewProcessor ==
  /\ main.at <= Len(Order)
  /\ InitProcessor(Order[main.at])
  /\ UNCHANGED <<itemsToProcessor, shown, itemSummary, registered, summary, total, table, work, reevaluated,
                 updates, panicked, early, overlapped, alone>>

--------------------------------------------------------------------------------
(* A job of a kind that publishes an item and updates the summary.           *)

\* Of worker w, the kind of the item it is at.
At(w, stage) == work[w].stage = stage
KindAt(w) == KindOf(work[w].item)
To(w, stage) == [work EXCEPT ![w].stage = stage]

\* A job reaches the end of its work on item i.
Begin(w, i) ==
  /\ At(w, "free") /\ KindOf(i) \in pushed /\ updates < MaxUpdates
  /\ updates' = updates + 1
  /\ work' = [work EXCEPT ![w] = [Idle EXCEPT !.stage = "route", !.item = i]]
  /\ overlapped' = IF \E v \in Worker : ~At(v, "free") /\ KindAt(v) = KindOf(i)
                   THEN overlapped \cup {KindOf(i)} ELSE overlapped
  /\ alone' = IF \A v \in Worker : At(v, "free") THEN i ELSE Nobody
  /\ UNCHANGED <<mainVars, itemsToProcessor, shown, itemSummary, registered, summary, total, table,
                 reevaluated, panicked, early>>

\* Deviation: the kind is remembered after the item was published.
PublishItemFirst(w) ==
  \/ /\ At(w, "route") /\ work[w].pass = "summary"
     /\ shown' = shown \cup {work[w].item} /\ work' = [work EXCEPT ![w].pass = "table"]
     /\ UNCHANGED itemsToProcessor
  \/ /\ At(w, "route") /\ work[w].pass = "table"
     /\ itemsToProcessor' = [itemsToProcessor EXCEPT ![work[w].item] = KindAt(w)]
     /\ work' = [work EXCEPT ![w].stage = "store", ![w].pass = "summary"]
     /\ UNCHANGED shown

\* publishOptimizationItemFunc
PublishItem(w) ==
  \/ /\ At(w, "route")
     /\ itemsToProcessor' = [itemsToProcessor EXCEPT ![work[w].item] = KindAt(w)]
     /\ work' = To(w, "show")
     /\ UNCHANGED shown
  \/ /\ At(w, "show")
     /\ shown' = shown \cup {work[w].item}
     /\ work' = To(w, "store")
     /\ UNCHANGED itemsToProcessor

PublishOptimizationItem(w) ==
  /\ PublishItem(w)
  /\ UNCHANGED <<mainVars, itemSummary, registered, summary, total, table, reevaluated, updates, panicked,
                 early, overlapped, alone>>

\* UpdateSummary stores the result of the item and adds its workload to the simulations,
\* if there are any by now.
SetSummary(w, v) ==
  /\ At(w, "store")
  /\ itemSummary' = [itemSummary EXCEPT ![work[w].item] = v]
  /\ IF KindAt(w) \in simulated
     THEN registered' = registered \cup {work[w].item} /\ UNCHANGED early
     ELSE early' = early \cup {work[w].item} /\ UNCHANGED registered
  /\ work' = To(w, "aggregate")

UpdateSummary(w, v) ==
  /\ SetSummary(w, v)
  /\ UNCHANGED <<mainVars, itemsToProcessor, shown, summary, total, table, reevaluated, updates, panicked, overlapped, alone>>

\* GetAggregatedResultsSummary of the processor of a kind.
Aggregated(k) == MapThenSumSet(LAMBDA i : itemSummary[i], Items[k])

\* The callback of the kind; its processor is not assigned yet: the job panics.
SummaryPanics(w) ==
  /\ At(w, "aggregate") /\ KindAt(w) \notin processors
  /\ panicked' = panicked \cup {work[w].item}
  /\ work' = [work EXCEPT ![w] = Idle]
  /\ UNCHANGED <<mainVars, itemsToProcessor, shown, itemSummary, registered, summary, total, table,
                 reevaluated, updates, early, overlapped, alone>>

\* Before the sum for the table, the whole cluster is simulated, as it was and right-sized.
AfterSet(w) == IF work[w].pass = "table" /\ Whole THEN "simulate" ELSE "sum"

\* p.summary.Set(kuberType, *resourceSummary), and then the sum over the kinds.
SetAggregate(w) ==
  \/ /\ At(w, "set")
     /\ summary' = [summary EXCEPT ![KindAt(w)] = work[w].local]
     /\ work' = To(w, AfterSet(w))
  \/ /\ At(w, "sum")
     /\ work' = [work EXCEPT ![w].stage = "publish", ![w].local = MapThenSumSet(LAMBDA k : summary[k], Kind)]
     /\ UNCHANGED summary

\* Deviation: only the workloads of the kind are simulated.
SimulateKind(w) ==
  /\ At(w, "simulate")
  /\ work' = [work EXCEPT ![w].stage = "sum", ![w].nodes = registered \cap Items[KindAt(w)]]

\* schedulingSim.Simulate and schedulingSimPrev.Simulate, of what is registered by then;
\* the two, one right after the other, are taken for one.
Simulate(w) ==
  /\ At(w, "simulate")
  /\ work' = [work EXCEPT ![w].stage = "sum", ![w].nodes = registered]

\* publishResultSummaryFunc, and then publishResultSummaryTableFunc.
PublishResultSummary(w) ==
  /\ \/ /\ At(w, "aggregate") /\ KindAt(w) \in processors
        /\ work' = [work EXCEPT ![w].local = Aggregated(KindAt(w)), ![w].stage = "set"]
        /\ UNCHANGED <<summary, total, table>>
     \/ SetAggregate(w) /\ UNCHANGED <<total, table>>
     \/ Simulate(w) /\ UNCHANGED <<summary, total, table>>
     \/ /\ At(w, "publish")
        /\ total' = [total EXCEPT ![work[w].pass] = work[w].local]
        /\ table' = IF work[w].pass = "table" THEN work[w].nodes ELSE table
        /\ work' = IF work[w].pass = "table" THEN [work EXCEPT ![w] = Idle]
                   ELSE [work EXCEPT ![w].stage = "aggregate", ![w].pass = "table"]
        /\ UNCHANGED summary
  /\ UNCHANGED <<mainVars, itemsToProcessor, shown, itemSummary, registered, reevaluated, updates,
                 panicked, early, overlapped, alone>>

\* The user re-evaluates an item he sees; only its kind is looked up.
ReEvaluate(i) ==
  /\ main.at > Len(Order) /\ i \in shown
  /\ reevaluated' = <<i, itemsToProcessor[i]>>
  /\ UNCHANGED <<mainVars, itemsToProcessor, shown, itemSummary, registered, summary, total, table, work, updates,
                 panicked, early, overlapped, alone>>

--------------------------------------------------------------------------------

WorkerStep(w) ==
  \/ \E i \in Item : Begin(w, i)
  \/ PublishOptimizationItem(w)
  \/ \E v \in Value : UpdateSummary(w, v)
  \/ SummaryPanics(w) \/ PublishResultSummary(w)

Next == NewProcessor \/ (\E w \in Worker : WorkerStep(w)) \/ \E i \in Item : ReEvaluate(i)

Spec == Init /\ [][Next]_vars

--------------------------------------------------------------------------------
(* Properties.                                                               *)

Stage == {"free", "route", "show", "store", "aggregate", "set", "simulate", "sum", "publish"}

\* The types of the state.
TypeOK ==
  /\ main \in [at : 1..(Len(Order) + 1), step : {"new", "sims", "assign"}]
  /\ processors \cup simulated \cup pushed \subseteq Kind
  /\ itemsToProcessor \in [Item -> Kind \cup {Unknown}]
  /\ itemSummary \in [Item -> Value \cup {0}]
  /\ summary \in [Kind -> Int]
  /\ total \in [Pass -> Int]
  /\ work \in [Worker -> [stage : Stage, item : Item \cup {Nobody}, pass : Pass, local : Int, nodes : SUBSET Item]]
  /\ \A w \in Worker : ~At(w, "free") => work[w].item \in Item
  /\ shown \cup registered \cup panicked \cup early \cup table \subseteq Item
  /\ updates \in 0..MaxUpdates

\* Whatever the user can see he can re-evaluate: the processor of the item's kind is
\* asked, never another one and never none (and the state is well typed).
ReEvaluationsReach ==
  /\ TypeOK
  /\ \A i \in shown : itemsToProcessor[i] = KindOf(i)
  /\ reevaluated[1] # Nobody => reevaluated[2] = KindOf(reevaluated[1])

\* However the updates of other kinds interleave with it, the summary of a kind is that
\* of all its items when its updates are over; only two updates of the same kind that
\* overlap (or one that panicked) can leave an older one behind.
AggregateIsCurrent ==
  \A k \in Kind \ overlapped :
    (Items[k] \cap panicked = {} /\ \A w \in Worker : At(w, "free") \/ KindAt(w) # k) =>
      summary[k] = Aggregated(k)

\* Whatever older sums overlapping updates left published, the next update that runs
\* alone mends them: the user sees the sum over the kinds, and its own kind is current.
TotalsHeal ==
  (alone # Nobody /\ alone \notin panicked /\ \A w \in Worker : At(w, "free")) =>
    /\ summary[KindOf(alone)] = Aggregated(KindOf(alone))
    /\ \A pass \in DOMAIN total : total[pass] = MapThenSumSet(LAMBDA k : summary[k], Kind)

\* The removable nodes beside those sums: whatever overlapping updates left published,
\* after one that runs alone they are those of all the workloads registered by then.
NodesMatchTotals ==
  (alone # Nobody /\ alone \notin panicked /\ Whole /\ \A w \in Worker : At(w, "free")) =>
    table = registered

\* In one: what overlapping updates of the kinds leave behind is never more than an
\* older value, which the next undisturbed update replaces on all levels.
SummariesHeal == AggregateIsCurrent /\ TotalsHeal /\ NodesMatchTotals

\* Once the processor of a kind is assigned, no job of that kind panics, and what it
\* stores is simulated.
AssignedKindsAreSafe ==
  [][ /\ \A i \in panicked' \ panicked : KindOf(i) \notin processors
      /\ \A i \in early' \ early : KindOf(i) \notin processors ]_vars

================================================================================

--------------------------- MODULE PrometheusQueries ---------------------------
(***************************************************************************)
(* The Prometheus client, plugin/prometheus/api.go, and the average that   *)
(* the optimization jobs make of what it returns,                          *)
(* plugin/processor/shared/resource_cost.go.                               *)
(*                                                                         *)
(* NewPrometheus estimates the scrape interval once.  A getter asks for a  *)
(* period of days, cut into windows of a day, at a step of four scrape     *)
(* intervals; the answers of the windows are merged per pod and container. *)
(* Prometheus itself is external: it scrapes the containers while they     *)
(* live and answers a range query with the points of the range's own grid. *)
(* The times are small integers; Day, Hour and Minute keep their order.    *)
(***************************************************************************)
EXTENDS Integers, Sequences, FiniteSets, FiniteSetsExt

CONSTANTS
  Pod, Container,
  Day, Hour, Minute,
  Lookback,     \* how old a sample Prometheus still answers with
  Scrapes,      \* the scrape intervals Prometheus may have
  Counts,       \* the samples a day it may have of a metric
  Lifetimes,    \* the intervals in which a container may live
  BusyTimes,    \* the sets of times at which the containers may be busy
  ObservabilityDays, Nows

ASSUME PrometheusAssumption ==
  /\ {Day, Hour, Minute, Lookback} \subseteq Nat \ {0} /\ Minute <= Hour /\ Hour <= Day
  /\ Scrapes \cup Counts \cup ObservabilityDays \cup Nows \subseteq Nat \ {0}
  /\ Lifetimes \subseteq Nat \X Nat
  /\ \A now \in Nows, days \in ObservabilityDays : days * Day <= now

VARIABLES
  scrape, life, busy,  \* the real scrape interval, lives and load
  probes, minV,        \* the probes answered, and the smallest count so far
  scrapeInterval,      \* what NewPrometheus made of them
  phase,               \* "probe", "ready", "query", "done" or "failed"
  request,             \* the getter that runs: its metric, pods, days, from and to
  rangeStart,          \* where its next window begins
  result               \* pod -> container -> datapoints; empty before the first window

queryVars == <<scrape, life, busy, probes, minV, scrapeInterval, phase, request, rangeStart, result>>

Truth == <<scrape, life, busy>>
Series == Pod \X Container
NoResult == << >>  \* no pod yet
MaxInt == 10 * Day   \* above every count
Trough == 1
Peak == 2

\* up, prometheus_ready, and those of the four getters: six in api.go, three here.
ProbedMetrics == 3

--------------------------------------------------------------------------------
(* What Prometheus holds and answers.                                        *)

\* How many samples a series has in start..end: one at each scrape of its life.
Samples(s, start, end) ==
  LET first == Max({start, life[s][1]})
      last == Min({end, life[s][2]})
  IN  IF first > last THEN 0 ELSE (last \div scrape) - ((first - 1) \div scrape)

\* A rate needs two samples in the step before t, a gauge a recent one.
HasPoint(metric, s, t, step) ==
  IF metric = "memory" THEN Samples(s, t - Lookback + 1, t) >= 1
                       ELSE Samples(s, t - step + 1, t) >= 2

\* The places of some times in their order.  sort.Slice leaves open which of two points
\* of the same time is first; they have the same value, and here they keep their places.
NotAfter(at, i, j) == at[i] < at[j] \/ (at[i] = at[j] /\ i <= j)

InOrder(at) ==
  [n \in 1..Cardinality(DOMAIN at) |->
     CHOOSE i \in DOMAIN at : Cardinality({j \in DOMAIN at : NotAfter(at, j, i)}) = n]

\* The grid of a range query begins where the range begins.
Grid(start, end, step) == {t \in start..end : (t - start) % step = 0}

Datapoint(t) == [at |-> t, value |-> IF t \in busy THEN Peak ELSE Trough]

\* What is answered is collected and sorted.
ParsedPoints(s, start, end, step) ==
  LET times == {t \in Grid(start, end, step) : HasPoint(request.metric, s, t, step)}
      order == InOrder([t \in times |-> t])
  IN  [n \in DOMAIN order |-> Datapoint(order[n])]

QueryRange(start, end, step) ==
  LET points(s) == ParsedPoints(s, start, end, step)
      containers(p) == {c \in Container : points(<<p, c>>) # << >>}
  IN  [p \in {q \in request.pods : containers(q) # {}} |->
         [c \in containers(p) |-> points(<<p, c>>)]]

--------------------------------------------------------------------------------
(* Merging and averaging.                                                    *)

\* Keys of one side only are kept; those of both are merged one level down.
MergeMaps(d1, d2, Merge(_, _)) ==
  [k \in DOMAIN d1 \cup DOMAIN d2 |->
     CASE k \notin DOMAIN d2 -> d1[k]
       [] k \notin DOMAIN d1 -> d2[k]
       [] OTHER -> Merge(d1[k], d2[k])]

MergePoints(p1, p2) ==
  LET merged == p1 \o p2
      order  == InOrder([i \in DOMAIN merged |-> merged[i].at])
  IN  [n \in DOMAIN order |-> merged[order[n]]]

MergeContainers(c1, c2) == MergeMaps(c1, c2, MergePoints)

MergeDimensions(d1, d2) == MergeMaps(d1, d2, MergeContainers)

\* Deviation: without the test for neighbours at the same time.
MinDurationWithZero(points) ==
  Min({points[i + 1].at - points[i].at : i \in 1..Len(points) - 1} \cup {Hour})

\* The smallest distance of two neighbours that are not at the same time, at most an hour.
MinDuration(points) ==
  LET gaps == {points[i + 1].at - points[i].at : i \in 1..Len(points) - 1}
  IN  Min((gaps \ {0}) \cup {Hour})

SumOfValues(values) == MapThenSumSet(LAMBDA i : values[i], DOMAIN values)

\* The sum of the values divided by the number of points the period should have,
\* as the pair of a numerator and a denominator.
MetricAverageOverObservabilityPeriod(points, period) ==
  CASE Len(points) = 0 -> <<0, 1>>
    [] Len(points) = 1 -> <<points[1].value, 1>>
    [] OTHER -> << SumOfValues([i \in DOMAIN points |-> points[i].value]) * MinDuration(points), period >>

--------------------------------------------------------------------------------
QueriesInit ==
  /\ scrape \in Scrapes
  /\ life \in [Series -> Lifetimes]
  /\ busy \in BusyTimes
  /\ probes = 0 /\ minV = MaxInt
  /\ scrapeInterval = Minute
  /\ phase = "probe"
  /\ request = [metric |-> "none", pods |-> {}, days |-> 0, from |-> 0, to |-> 0]
  /\ rangeStart = 0
  /\ result = NoResult

FewestSamples(c) == Min({minV, c})

\* The estimate of the metric with the fewest samples; without any, the default stays.
Estimate(fewest) == IF fewest = MaxInt THEN Minute ELSE Day \div fewest

\* One metric after the other; a metric nobody has counts as NaN.
ProbeAnswered ==
  /\ phase = "probe"
  /\ probes' = probes + 1
  /\ \/ UNCHANGED minV
     \/ \E c \in {n \in Counts : n * scrape <= Day} : minV' = FewestSamples(c)
  /\ IF probes' < ProbedMetrics
     THEN UNCHANGED <<scrapeInterval, phase>>
     ELSE scrapeInterval' = Estimate(minV') /\ phase' = "ready"
  /\ UNCHANGED <<Truth, request, rangeStart, result>>

\* The first error ends the estimation; NewPrometheus keeps the default.
ProbeFails ==
  /\ phase = "probe"
  /\ phase' = "ready"
  /\ minV' = MaxInt
  /\ UNCHANGED <<Truth, probes, scrapeInterval, request, rangeStart, result>>

Step == Max({Minute, 4 * scrapeInterval})

Truncate(t) == t - (t % Step)

\* The clock is read for the begin of the period and again for its end.
GetMetrics(metric, pods) ==
  /\ phase \in {"ready", "done", "failed"}
  /\ \E days \in ObservabilityDays, now, later \in Nows :
       /\ now <= later
       /\ request' = [metric |-> metric, pods |-> pods, days |-> days,
                      from |-> Truncate(now - days * Day), to |-> Truncate(later)]
       /\ rangeStart' = Truncate(now - days * Day)
  /\ phase' = "query"
  /\ result' = NoResult
  /\ UNCHANGED <<Truth, probes, minV, scrapeInterval>>

GetCpuMetricsForPod               == \E p \in Pod : GetMetrics("cpu", {p})
GetCpuMetricsForPodOwnerPrefix    == GetMetrics("cpu", Pod)
GetMemoryMetricsForPod            == \E p \in Pod : GetMetrics("memory", {p})
GetMemoryMetricsForPodOwnerPrefix == GetMetrics("memory", Pod)

\* The throttling metrics are a quotient of two rates.
GetCpuThrottlingMetricsForPod            == \E p \in Pod : GetMetrics("throttling", {p})
GetCpuThrottlingMetricsForPodOwnerPrefix == GetMetrics("throttling", Pod)

\* A period of less than a day is one window, a longer one has a window for each day.
RangeEndStep ==
  IF request.to - request.from < Day THEN request.to ELSE Min({rangeStart + Day, request.to})

\* Deviation: every window begins where the period begins.
WindowStartFirst == request.from

WindowStart == rangeStart

\* Deviation: the next window leaves two steps out.
NextRangeStartLate == RangeEndStep + 2 * Step

\* Both neighbours contain their border.
NextRangeStart == RangeEndStep

WindowAnswered ==
  /\ phase = "query"
  /\ LET dim == QueryRange(WindowStart, RangeEndStep, Step)
     IN  result' = MergeDimensions(result, dim)
  /\ rangeStart' = NextRangeStart
  /\ phase' = IF rangeStart' < request.to THEN "query" ELSE "done"
  /\ UNCHANGED <<Truth, probes, minV, scrapeInterval, request>>

\* An error, or the minute that all windows of a getter share is over.
WindowFails ==
  /\ phase = "query"
  /\ phase' = "failed"
  /\ result' = NoResult
  /\ UNCHANGED <<Truth, probes, minV, scrapeInterval, request, rangeStart>>

QueriesNext ==
  \/ ProbeAnswered \/ ProbeFails
  \/ GetCpuMetricsForPod \/ GetCpuMetricsForPodOwnerPrefix
  \/ GetMemoryMetricsForPod \/ GetMemoryMetricsForPodOwnerPrefix
  \/ GetCpuThrottlingMetricsForPod \/ GetCpuThrottlingMetricsForPodOwnerPrefix
  \/ WindowAnswered \/ WindowFails

QueriesSpec == QueriesInit /\ [][QueriesNext]_queryVars

--------------------------------------------------------------------------------
(* Properties.                                                               *)

Merged == phase = "done"

\* Every value has its type: the interval is positive and the series of the
\* result belong to the pods asked for (api.go:143).
QueriesTypeOK ==
  /\ scrape \in Scrapes /\ life \in [Series -> Lifetimes] /\ busy \in BusyTimes
  /\ probes \in 0..ProbedMetrics /\ minV \in Counts \cup {MaxInt}
  /\ scrapeInterval \in 1..Day
  /\ phase \in {"probe", "ready", "query", "done", "failed"}
  /\ request.pods \subseteq Pod
  /\ rangeStart \in Nat
  /\ DOMAIN result \subseteq request.pods
  /\ \A p \in DOMAIN result : DOMAIN result[p] \subseteq Container

\* When Prometheus answered the probes, a step holds two samples of every
\* series, however few of a metric it had: the rates the getters ask for
\* exist (api.go:350, step is four scrape intervals).
StepSpansTwoScrapes ==
  phase # "probe" /\ minV # MaxInt => Step >= 2 * scrape

\* The container of a series lived from a step before the period to its end.
AliveThroughout(s) ==
  /\ s[1] \in request.pods
  /\ life[s][1] <= request.from - Step - Lookback /\ request.to <= life[s][2]
  /\ Step >= 2 * scrape /\ Lookback >= scrape

\* A container that lived throughout has no hole in what is merged: the first
\* point is the begin of the period, neighbours are at most a step apart and
\* the last one is less than a step before the end, wherever the borders of
\* the windows are (api.go:308), because a step spans two scrapes.
SampledThroughout ==
  /\ QueriesTypeOK /\ StepSpansTwoScrapes
  /\ Merged => \A s \in Series : AliveThroughout(s) =>
       /\ s[1] \in DOMAIN result /\ s[2] \in DOMAIN result[s[1]]
       /\ LET points == result[s[1]][s[2]]
          IN  /\ points[1].at = request.from
              /\ \A i \in 1..Len(points) - 1 : points[i + 1].at - points[i].at \in 0..Step
              /\ request.to - points[Len(points)].at \in 0..Step - 1

\* No datapoint is outside the period, and one is there twice only at the
\* border of two windows, which belongs to both of them (api.go:309).
DuplicatesOnlyAtBorders ==
  Merged => \A p \in DOMAIN result : \A c \in DOMAIN result[p] :
    LET points == result[p][c]
        times(t) == Cardinality({i \in DOMAIN points : points[i].at = t})
        border(t) == t # request.from /\ t # request.to /\ (t - request.from) % Day = 0
    IN  \A i \in DOMAIN points :
          /\ points[i].at \in request.from..request.to
          /\ times(points[i].at) <= IF border(points[i].at) THEN 2 ELSE 1

\* The average exceeds the largest value by no more than what the truncated begin adds
\* to the period, and the smallest distance once more for every doubled border and for
\* the first point (resource_cost.go:37).
AverageAtMostPeak ==
  Merged => \A p \in DOMAIN result : \A c \in DOMAIN result[p] :
    LET points  == result[p][c]
        period  == request.days * Day
        average == MetricAverageOverObservabilityPeriod(points, period)
        borders == {t \in request.from + 1..request.to - 1 : (t - request.from) % Day = 0}
        counted == request.to - request.from + (Cardinality(borders) + 1) * MinDuration(points)
    IN  average[1] * period <= Peak * Max({period, counted}) * average[2]

\* When the step divides a day and is at most an hour, a container that lived
\* throughout is never averaged below its smallest value (resource_cost.go:22:
\* two points of the same time are no distance).
AlignedAverageAtLeastTrough ==
  Merged /\ Day % Step = 0 /\ Step <= Hour =>
    \A s \in Series : AliveThroughout(s) =>
      LET average == MetricAverageOverObservabilityPeriod(result[s[1]][s[2]], request.days * Day)
      IN  average[1] >= Trough * average[2]

\* What a container is priced by lies between its smallest and its largest value, as
\* far as the doubled borders and a step that does not divide the day allow.
AverageBounded == AverageAtMostPeak /\ AlignedAverageAtLeastTrough

================================================================================

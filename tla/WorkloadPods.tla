------------------------------ MODULE WorkloadPods ------------------------------
(***************************************************************************)
(* Which pods, and which replica sets of the past, an item of the plugin   *)
(* stands for: the reads of plugin/kubernetes/api.go.                      *)
(*                                                                         *)
(* A deployment is listed, and later a job reads its replica sets and then *)
(* its pods; the pods of the other kinds are read at once.  The cluster    *)
(* goes on between the reads: its controllers are external, and create and *)
(* delete replica sets and pods, start pods, and adopt and release them,   *)
(* at any time.  A time is a day.                                          *)
(***************************************************************************)
EXTENDS Integers, Sequences, FiniteSets, SequencesExt

CONSTANTS
  Pod,
  Deployment, StatefulSet, DaemonSet, Job,
  ReplicaSet,
  RSOwner,    \* replica set -> its deployment, or NoOwner
  OtherOwner, \* owners of pods that the plugin has no processor for
  NoOwner,
  Days,       \* the days of the present
  MaxDays     \* observabilityDays

Controller == StatefulSet \cup DaemonSet \cup Job

\* An object is of one kind, and there are finitely many.
ASSUME WorkloadPodsAssumption ==
  /\ RSOwner \in [ReplicaSet -> Deployment \cup {NoOwner}]
  /\ Days \subseteq Nat /\ MaxDays \in Nat
  /\ IsFiniteSet(Pod) /\ IsFiniteSet(ReplicaSet)
  /\ Deployment \cap Controller = {} /\ ReplicaSet \cap (Deployment \cup Controller) = {}
  /\ NoOwner \notin Deployment \cup Controller \cup ReplicaSet

Item == Deployment \cup Controller
Owner == ReplicaSet \cup Controller \cup OtherOwner \cup {NoOwner}

VARIABLES
  now, created,   \* the day, and the day each replica set was created on
  removed,        \* the replica sets that were deleted
  pods,           \* pod -> its owner and its phase
  step,           \* item -> how far its reads are
  seenReplicas,   \* deployment -> Status.Replicas when it was listed
  active, history, timeCut,  \* deployment -> what the read of the replica sets made
  itemPods,       \* item -> the pods read for it
  podList,        \* the namespace's pods: what was listed, and what was kept
  quiet,          \* deployments of which nothing changed since they were listed
  steady          \* pods that run, under the owner they had when the first read was made

cluster == <<now, created, removed, pods>>
reads == <<step, seenReplicas, active, history, timeCut, itemPods, podList>>
vars == <<cluster, reads, quiet, steady>>

Absent == -1
Unread == [listed |-> {}, orphans |-> {}, done |-> FALSE]

--------------------------------------------------------------------------------
(* The cluster.                                                              *)

Alive(p) == pods[p].phase \in {"pending", "running"}
Exists(p) == pods[p].phase \notin {"unborn", "gone"}
Running(o) == {p \in Pod : pods[p].owner = o /\ pods[p].phase = "running"}
Replicas(rs) == Cardinality({p \in Pod : pods[p].owner = rs /\ Alive(p)})
Stands(rs) == created[rs] # Absent /\ rs \notin removed
SetsOf(d) == {rs \in ReplicaSet : RSOwner[rs] = d /\ Stands(rs)}
StatusReplicas(d) == Cardinality({p \in Pod : pods[p].owner \in SetsOf(d) /\ Alive(p)})
DeploymentOf(o) == IF o \in ReplicaSet THEN RSOwner[o] ELSE NoOwner

NothingRead == (\A i \in Item : step[i] = "unlisted") /\ ~podList.done

Disturb(owners) == quiet' = quiet \ {DeploymentOf(o) : o \in owners}

CreatePod ==
  \E p \in Pod, o \in Owner :
    /\ pods[p].phase = "unborn"
    /\ o \in ReplicaSet => Stands(o)
    /\ pods' = [pods EXCEPT ![p] = [owner |-> o, phase |-> "pending"]]
    /\ Disturb({o})
    /\ UNCHANGED <<now, created, removed, reads, steady>>

\* A pod starts, ends by itself, or is deleted.
PodProceeds ==
  \E p \in Pod, phase \in {"running", "succeeded", "gone"} :
    /\ CASE phase = "running"   -> pods[p].phase = "pending"
         [] phase = "succeeded" -> pods[p].phase = "running" /\ pods[p].owner \in Job
         [] phase = "gone"      -> Exists(p)
    /\ pods' = [pods EXCEPT ![p] = [owner |-> IF phase = "gone" THEN NoOwner ELSE @.owner,
                                    phase |-> phase]]
    /\ Disturb({pods[p].owner})
    /\ steady' = IF phase = "running" /\ NothingRead THEN steady \cup {p} ELSE steady \ {p}
    /\ UNCHANGED <<now, created, removed, reads>>

\* A pod without an owner is adopted, or one that has an owner is released.
ChangeOwner ==
  \E p \in Pod, o \in Owner :
    /\ Exists(p) /\ o # pods[p].owner /\ NoOwner \in {o, pods[p].owner}
    /\ o \in ReplicaSet => Stands(o)
    /\ pods' = [pods EXCEPT ![p].owner = o]
    /\ Disturb({o, pods[p].owner})
    /\ steady' = IF NothingRead THEN steady ELSE steady \ {p}
    /\ UNCHANGED <<now, created, removed, reads>>

\* A rollout begins with a new replica set.
CreateReplicaSet ==
  \E rs \in ReplicaSet :
    /\ created[rs] = Absent
    /\ created' = [created EXCEPT ![rs] = now]
    /\ Disturb({rs})
    /\ UNCHANGED <<now, removed, pods, reads, steady>>

\* A replica set is deleted; its pods are then deleted or released.
DeleteReplicaSet ==
  \E rs \in ReplicaSet :
    /\ Stands(rs)
    /\ removed' = removed \cup {rs}
    /\ Disturb({rs})
    /\ UNCHANGED <<now, created, pods, reads, steady>>

--------------------------------------------------------------------------------
(* The deployments.                                                          *)

Init ==
  /\ now \in Days
  /\ created \in [ReplicaSet -> {Absent} \cup 0..now] /\ removed = {}
  /\ pods = [p \in Pod |-> [owner |-> NoOwner, phase |-> "unborn"]]
  /\ step = [i \in Item |-> "unlisted"]
  /\ seenReplicas = [d \in Deployment |-> 0]
  /\ active = [d \in Deployment |-> NoOwner]
  /\ history = [d \in Deployment |-> << >>]
  /\ timeCut = [d \in Deployment |-> 0]
  /\ itemPods = [i \in Item |-> {}]
  /\ podList = Unread
  /\ quiet = {} /\ steady = {}

\* The listing keeps the deployment as it is now.
ListDeployment(d) ==
  /\ step[d] = "unlisted"
  /\ step' = [step EXCEPT ![d] = "listed"]
  /\ seenReplicas' = [seenReplicas EXCEPT ![d] = StatusReplicas(d)]
  /\ quiet' = quiet \cup {d}
  /\ UNCHANGED <<cluster, active, history, timeCut, itemPods, podList, steady>>

\* Deviation: only replica sets that have replicas.
ActiveNonEmpty(d) == {rs \in SetsOf(d) : Replicas(rs) = seenReplicas[d] /\ Replicas(rs) > 0}

\* As many replicas as the deployment had when it was listed.
ActiveReplicaSets(d) == {rs \in SetsOf(d) : Replicas(rs) = seenReplicas[d]}

\* The youngest, any of them when two are of the same day.
YoungestOf(sets) == {rs \in sets : \A other \in sets : created[other] <= created[rs]}

\* The orders the sort may leave: the youngest first.
Sorted(sets) ==
  {s \in SetToSeqs(sets) : \A i \in 1..Len(s) - 1 : created[s[i + 1]] <= created[s[i]]}

\* The loop that leaves out those before the cut, in the order it leaves them in.
Within(order, cut) ==
  LET names[n \in 0..Len(order)] ==
        CASE n = 0 -> << >>
          [] n > 0 /\ created[order[n]] < cut -> names[n - 1]
          [] OTHER -> Append(names[n - 1], order[n])
  IN  names[Len(order)]

\* Deviation: those before the cut are not left out.
HistoryWithAll(a, order, cut) == IF created[a] < cut THEN << >> ELSE order

\* Nothing when the active one covers the cut; else those that are not before the cut,
\* or, when there is none, the last of the order.  The branch of line 214 asks, inside
\* the loop over the historical sets, that there are none: it is never taken.
HistoricalReplicaSetNames(a, order, cut) ==
  LET within == Within(order, cut)
  IN  IF created[a] < cut THEN << >>
      ELSE IF within = << >> /\ order # << >> THEN <<Last(order)>>
      ELSE within

ReadReplicaSets(d) ==
  /\ step[d] = "listed"
  /\ LET cut == now - MaxDays
         candidates == ActiveReplicaSets(d)
     IN  \/ /\ candidates = {}
            /\ step' = [step EXCEPT ![d] = "failed"]
            /\ UNCHANGED <<active, history, timeCut>>
         \/ \E a \in YoungestOf(candidates) : \E order \in Sorted(SetsOf(d) \ {a}) :
              /\ active' = [active EXCEPT ![d] = a]
              /\ history' = [history EXCEPT ![d] = HistoricalReplicaSetNames(a, order, cut)]
              /\ timeCut' = [timeCut EXCEPT ![d] = cut]
              /\ step' = [step EXCEPT ![d] = "sets"]
  /\ UNCHANGED <<cluster, seenReplicas, itemPods, podList, quiet, steady>>

\* Of the pods the selector finds, the running ones of the active set.
ReadDeploymentPods(d) ==
  /\ step[d] = "sets"
  /\ itemPods' = [itemPods EXCEPT ![d] = Running(active[d])]
  /\ step' = [step EXCEPT ![d] = "done"]
  /\ UNCHANGED <<cluster, seenReplicas, active, history, timeCut, podList, quiet, steady>>

ListDeploymentPodsAndHistoricalReplicaSets(d) == ReadReplicaSets(d) \/ ReadDeploymentPods(d)

--------------------------------------------------------------------------------
(* The other kinds, and the pods themselves.                                 *)

ListControllerPods(i) ==
  /\ step[i] = "unlisted"
  /\ itemPods' = [itemPods EXCEPT ![i] = Running(i)]
  /\ step' = [step EXCEPT ![i] = "done"]
  /\ UNCHANGED <<cluster, seenReplicas, active, history, timeCut, podList, quiet, steady>>

ListStatefulsetPods == \E s \in StatefulSet : ListControllerPods(s)
ListDaemonsetPods   == \E s \in DaemonSet : ListControllerPods(s)
ListJobPods         == \E j \in Job : ListControllerPods(j)

\* Deviation: the kinds the comment of ProcessorModeOrphan names, without the jobs.
OwnedButJobs(p) == pods[p].owner \in ReplicaSet \cup StatefulSet \cup DaemonSet

\* By the kind of the owner, whoever owns that owner.
IsOwned(p) == pods[p].owner \in ReplicaSet \cup Controller

\* Pods of every phase.
ListPodsInNamespace ==
  /\ ~podList.done
  /\ LET listed == {p \in Pod : Exists(p)}
     IN  podList' = [listed |-> listed, orphans |-> {p \in listed : ~IsOwned(p)}, done |-> TRUE]
  /\ UNCHANGED <<cluster, step, seenReplicas, active, history, timeCut, itemPods, quiet, steady>>

\* A read fails, and with it the job; the item stays without pods.
ReadFails(i) ==
  /\ step[i] \in {"unlisted", "listed", "sets"}
  /\ step' = [step EXCEPT ![i] = "failed"]
  /\ quiet' = quiet \ {i}
  /\ UNCHANGED <<cluster, seenReplicas, active, history, timeCut, itemPods, podList, steady>>

Next ==
  \/ CreatePod \/ PodProceeds \/ ChangeOwner \/ CreateReplicaSet \/ DeleteReplicaSet
  \/ \E d \in Deployment : ListDeployment(d) \/ ListDeploymentPodsAndHistoricalReplicaSets(d)
  \/ ListStatefulsetPods \/ ListDaemonsetPods \/ ListJobPods \/ ListPodsInNamespace
  \/ \E i \in Item : ReadFails(i)

Spec == Init /\ [][Next]_vars

--------------------------------------------------------------------------------
(* Properties.                                                               *)

\* Every value has its type, and an item has pods only when its reads are done
\* (api.go:154, the error returns).
TypeOK ==
  /\ created \in [ReplicaSet -> {Absent} \cup 0..now]
  /\ \A p \in Pod : pods[p].owner \in Owner
  /\ step \in [Item -> {"unlisted", "listed", "sets", "done", "failed"}]
  /\ active \in [Deployment -> ReplicaSet \cup {NoOwner}]
  /\ \A d \in Deployment : ToSet(history[d]) \subseteq ReplicaSet
  /\ \A i \in Item : itemPods[i] \subseteq Pod /\ (itemPods[i] # {} => step[i] = "done")
  /\ podList.orphans \subseteq podList.listed /\ quiet \subseteq Deployment
  /\ removed \subseteq ReplicaSet /\ steady \subseteq Pod

\* Where a pod is counted: in items, and as a pod of its own (NoOwner); and where
\* its owner says that it should be, of the places that have been read.
Places(p) ==
  {i \in Item : p \in itemPods[i]} \cup (IF p \in podList.orphans THEN {NoOwner} ELSE {})
Read == {i \in Item : step[i] = "done"} \cup (IF podList.done THEN {NoOwner} ELSE {})
Home(p) ==
  LET o == pods[p].owner
  IN  IF o \in Controller THEN {o}
      ELSE IF o \in ReplicaSet THEN {d \in Deployment : active[d] = o}
      ELSE {NoOwner}

\* A pod that runs under one owner from before the first read on is counted in one
\* place at most, and in that of its owner as soon as that is read, while the
\* reads are made at different times and the cluster changes around it; the pods
\* of a replica set that is not the active one are counted nowhere (api.go:98,
\* :232 and its twins).  A pod that is counted twice was adopted or released, or
\* was not there from the start.
SteadyPodsCountedOnce ==
  /\ TypeOK
  /\ \A p \in steady :
       /\ \A i, j \in Places(p) : i = j
       /\ Places(p) = Home(p) \cap Read

\* No pod is counted twice.
\* TLC refutes it: a pod without an owner that is listed and then adopted is.
PodsCountedOnce == \A p \in Pod : \A i, j \in Places(p) : i = j

\* When nothing of a deployment changed from its listing to its last read, the
\* item has all its running pods: the others of its replica sets are empty
\* (api.go:177).
QuietReadIsComplete ==
  \A d \in quiet : step[d] = "done" =>
    itemPods[d] = {p \in Pod : pods[p].phase = "running" /\ pods[p].owner \in SetsOf(d)}

\* When nothing of it changed, the replica sets are read in vain only in the
\* middle of a rollout, or when there is no replica set (api.go:190).
FailsOnlyInRollout ==
  \A d \in quiet : step[d] = "failed" =>
    SetsOf(d) = {} \/ \E r1, r2 \in SetsOf(d) : r1 # r2 /\ Replicas(r1) > 0 /\ Replicas(r2) > 0

\* A deployment that is scaled to nothing is known by its youngest replica set:
\* all of them have as many replicas as it (api.go:183, the sort).
ScaledDownPicksYoungest ==
  \A d \in quiet : step[d] \in {"sets", "done"} /\ seenReplicas[d] = 0 =>
    \A rs \in SetsOf(d) : created[rs] <= created[active[d]]

\* What the reads of a deployment make when nothing of it changes meanwhile: the
\* item has all its running pods, a failure means a rollout, and a deployment that
\* is scaled to nothing is known by its youngest replica set (api.go:154-200).
QuietReads == QuietReadIsComplete /\ FailsOnlyInRollout /\ ScaledDownPicksYoungest

\* The history never names the active set, names none twice, nothing at all when
\* the active set covers the cut, and at most one set from before the cut, alone
\* (api.go:202).
HistoryIsRecent ==
  \A d \in Deployment : step[d] \in {"sets", "done"} =>
    LET names == history[d]
        old == {rs \in ToSet(names) : created[rs] < timeCut[d]}
    IN  /\ active[d] \notin ToSet(names)
        /\ IsInjective(names)
        /\ created[active[d]] < timeCut[d] => names = << >>
        /\ old # {} => Len(names) = 1

\* The sets of a deployment from before the cut that were there when it was read.
BeforeCut(d) == {rs \in SetsOf(d) \ {active[d]} : created[rs] < timeCut[d]}
NeedsHistory(d) == d \in quiet /\ step[d] = "sets" /\ created[active[d]] >= timeCut[d]

\* "add the last replicaset before the time cut to the list to make sure we have
\* the within the time cut" (api.go:209).
\* TLC refutes it: the branch is never taken.
LastBeforeCutIncluded ==
  \A d \in Deployment : NeedsHistory(d) /\ BeforeCut(d) # {} =>
    YoungestOf(BeforeCut(d)) \cap ToSet(history[d]) # {}

\* "if there are no historical replica sets within the time cut [...] add the
\* last historical replica set (for the same reason as above)" (api.go:219).
\* TLC refutes it: the oldest one is added.
LastHistoricalAdded ==
  \A d \in Deployment :
    NeedsHistory(d) /\ BeforeCut(d) # {} /\ BeforeCut(d) = SetsOf(d) \ {active[d]} =>
      \E rs \in YoungestOf(BeforeCut(d)) : history[d] = <<rs>>

\* A deployment, statefulset, daemonset or job manages the pod.
Managed(p) ==
  pods[p].owner \in Controller \/ (DeploymentOf(pods[p].owner) \in Deployment)

\* "Orphan pods are pods that are not managed by any other kaytu supported
\* resources" (pods/pod.go:26).
\* TLC refutes it: the kind of the owner decides.
OrphansAreUnmanaged ==
  podList.done => podList.orphans = {p \in podList.listed : ~Managed(p)}
================================================================================

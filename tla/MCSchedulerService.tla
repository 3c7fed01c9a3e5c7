--------------------------- MODULE MCSchedulerService ---------------------------
(* Small clusters and sets of workloads for the SchedulerService.            *)
EXTENDS SchedulerService

PlainPod(c, m, labels) ==
  [initContainers |-> <<>>, containers |-> <<[cpu |-> c, mem |-> m]>>, labels |-> labels,
   tolerations |-> {}, nodeSelector |-> {}, nodeAffinity |-> {}, podAffinity |-> {},
   podAntiAffinity |-> {}]

App(a) == {<<"app", a>>}

MCNode == {"n1", "n2", "n3"}
MCNodeOrder == <<"n1", "n2", "n3">>
PlainNode(c, m, p) == [vcores |-> c, memory |-> m, maxPods |-> p, taints |-> {},
                       labels |-> {<<"zone", "a">>}]
MCNodeSpec ==
  [n1 |-> PlainNode(4, 5, 5), n2 |-> PlainNode(3, 5, 4),
   n3 |-> [PlainNode(3, 4, 4) EXCEPT !.taints = {[key |-> "gpu", value |-> "a", effect |-> "NoSchedule"]}]]

\* web and its right-sized version fat, a spread statefulset, a daemon set that
\* tolerates everything.
MCTemplate == {"web", "fat", "db", "agent", "task"}
MCPodSpec ==
  [web   |-> PlainPod(1, 1, App("web")),
   fat   |-> PlainPod(2, 1, App("web")),
   task  |-> PlainPod(1, 0, App("task")),
   db    |-> [PlainPod(1, 2, App("db")) EXCEPT
                !.podAntiAffinity = {[selector |-> App("db"), topologyKey |-> "zone"]}],
   agent |-> [PlainPod(0, 1, App("agent")) EXCEPT
                !.tolerations = {[key |-> "", value |-> "", effect |-> "NoSchedule"]}]]

MCWorkloadSpec ==
  [web           |-> [key |-> "web",   kind |-> "deployment",  template |-> "web",   replicas |-> 2],
   webRightSized |-> [key |-> "web",   kind |-> "deployment",  template |-> "fat",   replicas |-> 2],
   db            |-> [key |-> "db",    kind |-> "statefulset", template |-> "db",    replicas |-> 2],
   agent         |-> [key |-> "agent", kind |-> "daemonset",   template |-> "agent", replicas |-> 0],
   batch         |-> [key |-> "batch", kind |-> "job",         template |-> "task",  replicas |-> 1]]

MCKinds == <<"daemonset", "deployment", "job", "statefulset", "pod">>

\* Only the CPU factor changes, once, from 85 to 60 per cent, and two of the four
\* workloads are registered at a time.
SmallInstance ==
  /\ \A f \in Factors \ {"cpu"} : headroom[f] = 85
  /\ Cardinality(registered) <= 2

HeadroomFalls == headroom'["cpu"] <= headroom["cpu"]

================================================================================

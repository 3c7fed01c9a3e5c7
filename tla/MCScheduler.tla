------------------------------ MODULE MCScheduler ------------------------------
(* Small clusters and workloads for the Scheduler.                           *)
EXTENDS Scheduler

Cpu(c, m)  == <<[cpu |-> c, mem |-> m]>>
Label(k, v) == <<k, v>>
PlainPod(c, m, labels) ==
  [initContainers |-> <<>>, containers |-> Cpu(c, m), labels |-> labels, tolerations |-> {},
   nodeSelector |-> {}, nodeAffinity |-> {}, podAffinity |-> {}, podAntiAffinity |-> {}]

App(a) == {Label("app", a)}
GpuToleration == [key |-> "gpu", value |-> "b", effect |-> "NoSchedule"]

\* Two general nodes in one zone and a tainted one that carries no zone label.
MCNode == {"n1", "n2", "n3"}
MCNodeSpec ==
  [n1 |-> [vcores |-> 4, memory |-> 4, maxPods |-> 4, taints |-> {},
           labels |-> {Label("zone", "a"), Label("disk", "ssd")}],
   n2 |-> [vcores |-> 3, memory |-> 5, maxPods |-> 3, taints |-> {},
           labels |-> {Label("zone", "a"), Label("disk", "hdd")}],
   n3 |-> [vcores |-> 2, memory |-> 3, maxPods |-> 2, taints |-> {[key |-> "gpu", value |-> "a", effect |-> "NoSchedule"]},
           labels |-> {Label("pool", "gpu")}]]

\* web: unconstrained. db: ssd only, never two on a node of a zone. ml: tolerates
\* the taint of n3 and asks for memory only through its init container.
\* side: must sit with a web pod, on a node with a slow disk.
MCTemplate == {"web", "db", "ml", "side"}
MCPodSpec ==
  [web  |-> PlainPod(1, 1, App("web")),
   db   |-> [PlainPod(1, 0, App("db")) EXCEPT
               !.nodeAffinity = {{{[key |-> "disk", operator |-> "In", values |-> {"ssd"}]},
                                  {[key |-> "pool", operator |-> "Exists", values |-> {}]}}},
               !.podAntiAffinity = {[selector |-> App("db"), topologyKey |-> "zone"]}],
   ml   |-> [PlainPod(1, 0, App("ml")) EXCEPT !.initContainers = Cpu(0, 1),
                                              !.tolerations = {GpuToleration}],
   side |-> [PlainPod(0, 1, App("web")) EXCEPT
               !.podAffinity = {[selector |-> App("web"), topologyKey |-> ""]},
               !.nodeSelector = {Label("disk", "hdd")}]]

MCPdb == {"webs"}
MCPdbSpec == [webs |-> [selector |-> App("web"), minAvailable |-> {2}, maxUnavailable |-> {}]]

================================================================================

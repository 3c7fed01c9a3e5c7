--------------------------- MODULE MCWorkloadPipeline ---------------------------
(* Workloads of the five kinds, and what the cluster says of them.             *)
EXTENDS WorkloadPipeline, TLC

\* Two namespaces that are listed concurrently, with two deployments in one of them.
MCListingThree == [deployment |-> [shop |-> <<"web", "cart">>, data |-> <<"db">>] @@ ("kube-system" :> <<"dns">>)]

\* One namespace in which every kind has a workload.
MCShop == [statefulset |-> <<"store">>, daemonset |-> <<"agent">>, job |-> <<"import", "nightly">>,
           pod |-> <<"web-1", "far", "shell">>, deployment |-> <<"web", "cart">>]
MCListingKinds == [k \in Kind |-> [ns \in Namespace |-> IF ns = "shop" THEN MCShop[k] ELSE <<>>]]

\* A command starts one kind, or all of them; a kind with nothing listed is left out.
MCStarted == {{"deployment"}, {"pod"}, {"statefulset", "daemonset"}, {"job"}}

NoReport == [k \in Kind |-> <<>>]

Replicas(n) == [availableReplicas |-> n]
Runs(phase) == [phase |-> phase]

\* A stateful set that is down, a job that is a work queue.
MCStatus ==
  [web |-> Replicas(2), cart |-> Replicas(1), db |-> Replicas(1), dns |-> Replicas(1),
   store |-> Replicas(1), cache |-> Replicas(0),
   agent |-> [currentNumberScheduled |-> 2],
   import |-> [active |-> 0, succeeded |-> 1, failed |-> 0, completions |-> <<1>>],
   nightly |-> [active |-> 1, succeeded |-> 0, failed |-> 0, completions |-> <<>>],
   shell |-> Runs("Running"), far |-> Runs("Running")] @@ ("web-1" :> Runs("Running"))

================================================================================

----------------------------- MODULE MCWorkloadPods -----------------------------
(* A deployment with its replica sets, alone; and a pod among one owner of      *)
(* every kind, with a replica set that no deployment owns.                      *)
EXTENDS WorkloadPods, TLC

CONSTANTS d, r1, r2, r3, bare, p1, p2, p3

MCKinds == [rs \in ReplicaSet |-> IF rs = bare THEN NoOwner ELSE d]

\* Nothing tells the pods apart before they are created, nor the replica sets of
\* one deployment.
Symmetry == Permutations(Pod) \cup Permutations(ReplicaSet \ {bare})

OnlyDeployment ==
  /\ created[bare] = Absent
  /\ \A p \in Pod : pods[p].owner \in SetsOf(d) \cup removed \cup {NoOwner}
  /\ \A i \in Controller : step[i] = "unlisted"
  /\ ~podList.done

\* Where a pod is counted depends on no age.  What a read finds depends on no other read,
\* so that one of the controllers is read; and one that fails finds nothing.
OnlyOnePod ==
  /\ Cardinality({p \in Pod : pods[p].phase # "unborn"}) <= 1
  /\ Cardinality({rs \in ReplicaSet \ {bare} : created[rs] # Absent}) <= 2
  /\ \A rs \in ReplicaSet : created[rs] \in {Absent, now}
  /\ \A i \in Item : step[i] # "failed"
  /\ Cardinality({i \in Controller : step[i] # "unlisted"}) <= 1

\* Two parts of the state space: the deployment alone, with all its replica sets and
\* pods; and one pod among owners of every kind, with two of the replica sets and bare.
SmallCluster == OnlyDeployment \/ OnlyOnePod

================================================================================

------------------------------ MODULE NodeRemoval ------------------------------
(***************************************************************************)
(* What a node removal simulation promises, without saying how it packs:   *)
(* nodes are taken out one at a time, never the last one, and each only    *)
(* when the pods that the cluster carried at that moment can be arranged   *)
(* on the nodes that are left, each node within its headroom and each pod  *)
(* where it is admitted.                                                   *)
(***************************************************************************)
EXTENDS SchedulingRules

CONSTANT Headroom  \* the headroom factors, constant here

VARIABLES
  kept,   \* the nodes not removed yet
  load,   \* how many pods of each template the cluster carries
  answer  \* the sequence of nodes last reported as removable

vars == <<kept, load, answer>>

NoLoad == [t \in Template |-> 0]

Pods(l) == {p \in Template \X (1..MapThenSumSet(LAMBDA t : l[t], Template)) : p[2] <= l[p[1]]}

\* Pods ps on node n, counted together.
Fits(ps, n) ==
  LET total(request(_)) == MapThenSumSet(LAMBDA p : request(p[1]), ps)
  IN  /\ \A p \in ps : Admits(n, p[1])
      /\ 100 * total(CpuRequest) <= NodeSpec[n].vcores * Headroom.cpu
      /\ 100 * total(MemRequest) <= NodeSpec[n].memory * Headroom.mem
      /\ Cardinality(ps) <= PodLimit(n, Headroom.pod)

\* Some arrangement of the load exists; nothing is said about finding it.
Packable(l, nodes) ==
  \E at \in [Pods(l) -> nodes] : \A n \in nodes : Fits({p \in Pods(l) : at[p] = n}, n)

Init == kept = Node /\ load = NoLoad /\ answer = <<>>

\* A new simulation begins with all the nodes, or the workloads are put on the
\* nodes again.
Reload == /\ kept' \in {kept, Node}
          /\ load' \in [Template -> Nat]
          /\ UNCHANGED answer

Remove(n) ==
  /\ kept # {n} /\ Packable(load, kept \ {n})
  /\ kept' = kept \ {n}
  /\ UNCHANGED <<load, answer>>

Report ==
  /\ Range(answer') = Node \ kept /\ Len(answer') = Cardinality(Node \ kept)
  /\ UNCHANGED <<kept, load>>

Next == Reload \/ Report \/ \E n \in kept : Remove(n)

Spec == Init /\ [][Next]_vars

================================================================================

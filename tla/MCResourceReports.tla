--------------------------- MODULE MCResourceReports ---------------------------
(* An item of every kind, two containers, two resources and two nodes.     *)
EXTENDS ResourceReports

CONSTANTS job, pod, deployment, statefulset, daemonset, c1, c2, n1, n2

MCKind ==
  [i \in Item |-> CASE i = job -> "job" [] i = pod -> "pod" [] i = deployment -> "deployment"
                    [] i = statefulset -> "statefulset" [] i = daemonset -> "daemonset"]

\* What a container may ask for: both resources, or only the request.
Asks(request, limit) == [r \in Resource |-> IF r = "request" THEN request ELSE limit]

MCTemplates ==
  { [c \in {c1, c2} |-> IF c = c1 THEN Asks(2, 0) ELSE Asks(1, 1)],
    [c \in {c1, c2} |-> Asks(1, 2)] }

MCRecommendations == { Asks(1, 2), Asks(3, 1) }

MCTypeOf == [n \in Node |-> IF n = n1 THEN "large" ELSE "small"]

Default(i) == [template |-> [c \in {c1, c2} |-> Asks(1, 2)],
               replicas |-> IF i = daemonset THEN 2 ELSE Unset]

\* Beside the pod one other item differs from the default or has an answer; none does
\* in the states that go on once a node has a cost or is removable.
Others ==
  {i \in Item \ {pod} :
    resizing[i] # NoAnswer \/ template[i] # Default(i).template \/ replicas[i] # Default(i).replicas}
OneAndAPod == Cardinality(Others) <= IF HasCost \/ table.removable # {} THEN 0 ELSE 1

================================================================================

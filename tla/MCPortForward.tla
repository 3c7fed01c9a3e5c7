----------------------------- MODULE MCPortForward -----------------------------
(* Two queries, a connection that breaks, and four clusters.                  *)
EXTENDS PortForward

Service(named, ports, pods) == [named |-> named, ports |-> ports, pods |-> pods]

\* An operator of Prometheus on another port, Prometheus, both flavours of
\* VictoriaMetrics, and a Prometheus without pods.
Operator   == Service({"prometheus"}, {8080}, 1)
Prometheus == Service({"prometheus"}, {8080, 9090}, 1)
Stopped    == Service({"prometheus"}, {9090}, 0)
Select     == Service({"vmselect"}, {8481}, 1)
Single     == Service({"vmsingle"}, {8429}, 2)

MCCatalogs == { <<Operator, Single, Prometheus, Select>>, <<Operator, Single, Select>>,
                <<Single, Operator>>, <<Stopped, Select>> }

================================================================================

----------------------------- MODULE MCAllProcessor -----------------------------
(* Two daemon sets, the first kind that is made, and a pod, of the last.       *)
EXTENDS AllProcessor
MCItems == [k \in Kind |-> CASE k = "daemonset" -> {"log", "net"} [] k = "pod" -> {"shell"} [] OTHER -> {}]
================================================================================

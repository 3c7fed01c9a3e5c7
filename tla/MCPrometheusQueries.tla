-------------------------- MODULE MCPrometheusQueries --------------------------
(* Two pods of two containers, which live throughout, begin or end within the  *)
(* period, and are busy all the time or for a while.                           *)
EXTENDS PrometheusQueries, TLC

MCLifetimes == { <<0, 120>>, <<75, 120>>, <<0, 60>> }
MCBusyTimes == { 0..120, 90..100 }

\* The pods are only told apart by their lives.
Symmetry == Permutations(Pod)

================================================================================

----------------------------- MODULE ItemLifecycle -----------------------------
(***************************************************************************)
(* What the user is promised of the items on his screen, without jobs,     *)
(* retries or workers: an item appears once and stays; what is shown as    *)
(* lazy, or has its recommendation, changes only because he asked for it;  *)
(* what is loading ends in a recommendation or is skipped.                 *)
(*                                                                         *)
(* Nothing is promised of what is shown of an item he asked for again      *)
(* while work on it was under way, but that it stays on the screen; and    *)
(* one that lost its work to failures may go on showing what it shows.     *)
(***************************************************************************)

CONSTANT Id

VARIABLES
  screen,      \* what is shown of each item
  requested,   \* the items asked for, until their new state is shown
  overlapped,  \* the items asked for while work on them was under way
  lost         \* the items some work on which was given up

vars == <<screen, requested, overlapped, lost>>

Shown == {"lazy", "loading", "skipped", "ready"}

Init ==
  /\ screen = [i \in Id |-> "absent"]
  /\ requested = {} /\ overlapped = {} /\ lost = {}

Show(i, new) == screen' = [screen EXCEPT ![i] = new]

Appear(i) ==
  /\ screen[i] = "absent"
  /\ \E new \in Shown : Show(i, new)
  /\ UNCHANGED <<requested, overlapped, lost>>

Ask(i) ==
  /\ screen[i] # "absent"
  /\ requested' = requested \cup {i}
  /\ overlapped' \in {overlapped, overlapped \cup {i}}
  /\ UNCHANGED <<screen, lost>>

\* A request is taken up; an item that is skipped still says so.
Begin(i) ==
  /\ i \in requested
  /\ Show(i, IF screen[i] = "skipped" THEN "skipped" ELSE "loading")
  /\ requested' = requested \ {i}
  /\ UNCHANGED <<overlapped, lost>>

Settle(i) ==
  /\ screen[i] \in {"loading", "skipped"}
  /\ Show(i, "skipped") \/ Show(i, "ready")
  /\ UNCHANGED <<requested, overlapped, lost>>

GiveUp(i) ==
  /\ screen[i] # "absent" /\ lost' = lost \cup {i}
  /\ UNCHANGED <<screen, requested, overlapped>>

\* Work that overlapped a request shows what it was at.
Overwrite(i) ==
  /\ i \in overlapped
  /\ \E new \in Shown : Show(i, new)
  /\ requested' \in {requested, requested \ {i}}
  /\ UNCHANGED <<overlapped, lost>>

Next == \E i \in Id : Appear(i) \/ Ask(i) \/ Begin(i) \/ Settle(i) \/ GiveUp(i) \/ Overwrite(i)

Spec == Init /\ [][Next]_vars

\* Loading comes to an end, or its work is given up.
End(i) == screen[i] = "loading" /\ i \notin lost /\ (Settle(i) \/ GiveUp(i))

FairSpec == /\ Spec
            /\ \A i \in Id : WF_vars(Begin(i)) /\ WF_vars(End(i))

================================================================================

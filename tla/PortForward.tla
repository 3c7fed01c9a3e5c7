------------------------------ MODULE PortForward ------------------------------
(***************************************************************************)
(* The forwarded port through which the plugin reaches Prometheus (or the  *)
(* agent), plugin/kubernetes/metric.go, and the lock at the head of every  *)
(* query of plugin/prometheus/api.go.                                      *)
(*                                                                         *)
(* reconnect takes the mutex, starts a goroutine that dials and forwards,  *)
(* waits until that goroutine is ready and gives the mutex back.  When the *)
(* goroutine ends, however it ends, its deferred function calls reconnect  *)
(* again.  A query locks and unlocks the mutex, to wait for a connection,  *)
(* and is then sent.                                                       *)
(***************************************************************************)
EXTENDS Integers, Sequences, FiniteSets, SequencesExt

CONSTANTS
  Query,        \* the goroutines that query Prometheus
  Catalogs,     \* the service lists the cluster may have
  MaxAttempts,  \* bound on the calls of reconnect
  MaxFailures   \* bound on the dials that fail before they are ready

Attempt == 1..MaxAttempts

ASSUME PortForwardAssumption ==
  /\ MaxAttempts \in Nat \ {0} /\ MaxFailures \in Nat
  /\ Query \cap (0..MaxAttempts) = {}
  /\ \A catalog \in Catalogs : catalog \in Seq(Range(catalog))

VARIABLES
  services,   \* the services of the cluster, in the order they are listed
  main,       \* GetConfig: "discover", "connect" or "error"
  target,     \* the index of the service that is forwarded
  mutex,      \* reconnectWait: the attempt or the query that holds it
  reconnect,  \* attempt -> where its call of reconnect is
  dialer,     \* attempt -> the goroutine it started
  query,      \* query -> where it is
  failures    \* how many dials failed before they were ready

vars == <<services, main, target, mutex, reconnect, dialer, query, failures>>

Free == 0

--------------------------------------------------------------------------------
(* Discovery.                                                                *)

\* What is looked for, in this order: a part of the name, and a port.
Wanted == << <<"prometheus", 9090>>, <<"vmselect", 8481>>, <<"vmsingle", 8429>> >>

Matches(svc, wanted) == wanted[1] \in svc.named /\ wanted[2] \in svc.ports

\* Deviation: the part of the name is enough.
FindByName(wanted) == SelectInSeq(services, LAMBDA svc : wanted[1] \in svc.named)

\* The first service, over all namespaces, with that name and port; 0 when there is none.
FindService(wanted) == SelectInSeq(services, LAMBDA svc : Matches(svc, wanted))

\* The service found for the first entry of Wanted that has one.
Discovered ==
  LET first == SelectInSeq(Wanted, LAMBDA wanted : FindService(wanted) # 0)
  IN  IF first = 0 THEN 0 ELSE FindService(Wanted[first])

\* No call of reconnect was made, and no goroutine started.
Init ==
  /\ services \in Catalogs
  /\ main = "discover" /\ target = 0
  /\ mutex = Free
  /\ reconnect = [a \in Attempt |-> "idle"]
  /\ dialer = [a \in Attempt |-> "none"]
  /\ query = [q \in Query |-> "idle"]
  /\ failures = 0

\* A call of the API fails, nothing suitable was found, or it has no pod.
DiscoverFails ==
  /\ main = "discover"
  /\ main' = "error"
  /\ UNCHANGED <<services, target, mutex, reconnect, dialer, query, failures>>

\* The service without a pod is an error; the next kind of service is not tried.
Discover ==
  /\ main = "discover" /\ Discovered # 0 /\ services[Discovered].pods > 0
  /\ main' = "connect" /\ target' = Discovered
  /\ reconnect' = [reconnect EXCEPT ![1] = "lock"]
  /\ UNCHANGED <<services, mutex, dialer, query, failures>>

--------------------------------------------------------------------------------
(* Connecting.                                                               *)

\* mutex.Lock() and the start of the goroutine.
Lock(a) ==
  /\ reconnect[a] = "lock" /\ mutex = Free
  /\ mutex' = a
  /\ reconnect' = [reconnect EXCEPT ![a] = "wait"]
  /\ dialer' = [dialer EXCEPT ![a] = "dialing"]
  /\ UNCHANGED <<services, main, target, query, failures>>

\* The deferred call of reconnect.
Again(a) == IF a = MaxAttempts THEN reconnect ELSE [reconnect EXCEPT ![a + 1] = "lock"]

\* The goroutine ends before it is ready: nobody closes its ready channel.
DialFails(a) ==
  /\ dialer[a] = "dialing" /\ failures < MaxFailures
  /\ failures' = failures + 1
  /\ dialer' = [dialer EXCEPT ![a] = "failed"]
  /\ reconnect' = Again(a)
  /\ UNCHANGED <<services, main, target, mutex, query>>

Ready(a) ==
  /\ dialer[a] = "dialing"
  /\ dialer' = [dialer EXCEPT ![a] = "forwarding"]
  /\ UNCHANGED <<services, main, target, mutex, reconnect, query, failures>>

\* Deviation: the old connection is not gone when the next attempt is made.
LoseHalf(a) ==
  /\ dialer[a] = "forwarding" /\ a < MaxAttempts /\ reconnect[a + 1] = "idle"
  /\ reconnect' = Again(a)
  /\ UNCHANGED <<services, main, target, mutex, dialer, query, failures>>

\* The connection breaks, at any time once it is ready (bounded by MaxAttempts).
Lose(a) ==
  /\ dialer[a] = "forwarding" /\ a < MaxAttempts
  /\ dialer' = [dialer EXCEPT ![a] = "lost"]
  /\ reconnect' = Again(a)
  /\ UNCHANGED <<services, main, target, mutex, query, failures>>

\* Deviation: the mutex is released without waiting on the channel.
UnlockEarly(a) ==
  /\ reconnect[a] = "wait"
  /\ mutex' = Free
  /\ reconnect' = [reconnect EXCEPT ![a] = "done"]
  /\ UNCHANGED <<services, main, target, dialer, query, failures>>

\* Deviation: the mutex is kept.
UnlockNever(a) ==
  /\ reconnect[a] = "wait" /\ dialer[a] \in {"forwarding", "lost"}
  /\ reconnect' = [reconnect EXCEPT ![a] = "done"]
  /\ UNCHANGED <<services, main, target, mutex, dialer, query, failures>>

\* <-readyChan, mutex.Unlock() and the return.
Unlock(a) ==
  /\ reconnect[a] = "wait" /\ dialer[a] \in {"forwarding", "lost"}
  /\ mutex' = Free
  /\ reconnect' = [reconnect EXCEPT ![a] = "done"]
  /\ UNCHANGED <<services, main, target, dialer, query, failures>>

--------------------------------------------------------------------------------
(* A query.                                                                  *)

\* Jobs run once GetConfig has returned.
Ask(q) ==
  /\ query[q] = "idle" /\ reconnect[1] = "done"
  /\ query' = [query EXCEPT ![q] = "lock"]
  /\ UNCHANGED <<services, main, target, mutex, reconnect, dialer, failures>>

QueryLock(q) ==
  /\ query[q] = "lock" /\ mutex = Free
  /\ mutex' = q
  /\ query' = [query EXCEPT ![q] = "gate"]
  /\ UNCHANGED <<services, main, target, reconnect, dialer, failures>>

QueryUnlock(q) ==
  /\ query[q] = "gate"
  /\ mutex' = Free
  /\ query' = [query EXCEPT ![q] = "sent"]
  /\ UNCHANGED <<services, main, target, reconnect, dialer, failures>>

\* The query is answered, or fails when the connection is gone meanwhile.
Answer(q) ==
  /\ query[q] = "sent"
  /\ query' = [query EXCEPT ![q] = "idle"]
  /\ UNCHANGED <<services, main, target, mutex, reconnect, dialer, failures>>

--------------------------------------------------------------------------------

Connecting(a) == Lock(a) \/ DialFails(a) \/ Ready(a) \/ Lose(a) \/ Unlock(a)
Querying(q) == Ask(q) \/ QueryLock(q) \/ QueryUnlock(q) \/ Answer(q)

Next ==
  \/ DiscoverFails \/ Discover
  \/ \E a \in Attempt : Connecting(a)
  \/ \E q \in Query : Querying(q)

Spec == Init /\ [][Next]_vars

\* The goroutines go on, and a dial ends.  A sync.Mutex that is free again and again is
\* given to a goroutine that waits (it queues the waiters once they starve).
FairSpec ==
  /\ Spec
  /\ \A a \in Attempt : SF_vars(Lock(a)) /\ WF_vars(Ready(a) \/ DialFails(a)) /\ WF_vars(Unlock(a))
  /\ \A q \in Query : SF_vars(QueryLock(q)) /\ WF_vars(QueryUnlock(q))

--------------------------------------------------------------------------------
(* Properties.                                                               *)

\* The types of the state.
TypeOK ==
  /\ main \in {"discover", "connect", "error"}
  /\ mutex \in {Free} \cup Attempt \cup Query
  /\ reconnect \in [Attempt -> {"idle", "lock", "wait", "done"}]
  /\ dialer \in [Attempt -> {"none", "dialing", "forwarding", "lost", "failed"}]
  /\ query \in [Query -> {"idle", "lock", "gate", "sent"}]
  /\ failures \in 0..MaxFailures

\* While a query holds the mutex nobody is dialling: it was let through because a
\* connection was established, and the next dial waits until it has passed.
GateMeansConnected ==
  mutex \in Query => \A a \in Attempt : dialer[a] # "dialing"

\* However connections break and queries interleave, two connections never exist at
\* once (they forward the same local port).
OneConnection ==
  \A a, b \in Attempt :
    {dialer[a], dialer[b]} \subseteq {"dialing", "forwarding"} => a = b

\* The service that is forwarded serves one of the wanted ports, and no kind that is
\* looked for earlier has any service in the cluster that does.
TargetIsBestService ==
  target # 0 =>
    \E k \in DOMAIN Wanted :
      /\ Matches(services[target], Wanted[k])
      /\ \A j \in 1..(k - 1), i \in DOMAIN services : ~Matches(services[i], Wanted[j])

\* A query that waits for the connection is sent in the end, however often it breaks,
\* unless a dial failed before it was ready.
QueriesPass == \A q \in Query : query[q] = "lock" ~> (query[q] = "sent" \/ failures > 0)

\* reconnect returns once it began to wait: "This line will block until the port
\* forwarding is ready to get traffic" (metric.go:223).
\* TLC refutes it: a dial that fails first leaves the mutex locked.
ReconnectReturns == \A a \in Attempt : reconnect[a] = "wait" ~> reconnect[a] = "done"

================================================================================

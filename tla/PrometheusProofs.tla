--------------------------- MODULE PrometheusProofs ---------------------------
(***************************************************************************)
(* For every number of attempts, failures and queries: the mutex and the   *)
(* chain of reconnections keep two connections from existing at once, and  *)
(* no query passes the gate while a connection is being dialled.  And for  *)
(* every cluster, what discovery picks is the best service there is.       *)
(*                                                                         *)
(* For every period, scrape interval and life of the containers: what a    *)
(* getter merges from its windows has no hole where the container lived,   *)
(* and a time twice at the borders of the windows only; and the average    *)
(* over the period is bounded by what that makes of it.                    *)
(***************************************************************************)
EXTENDS PortForward, PrometheusQueries, SumTheorems, SequenceTheorems, TLAPS

\* An attempt that is still going to connect, or is connected.
Live(a) == reconnect[a] = "lock" \/ dialer[a] \in {"dialing", "forwarding"}

\* What goes on in reconnect and its goroutine, attempt by attempt.
Phases ==
  \A a \in Attempt :
    /\ reconnect[a] \in {"idle", "lock"} <=> dialer[a] = "none"
    /\ dialer[a] = "dialing" => reconnect[a] = "wait"

\* The mutex is held by the attempt that waits for its connection, or by the query at
\* the gate.
Holders ==
  /\ \A a \in Attempt : reconnect[a] = "wait" <=> mutex = a
  /\ \A q \in Query : query[q] = "gate" <=> mutex = q

\* The attempts form a chain: after a live one there is none.
Chain ==
  /\ main = "discover" => \A a \in Attempt : reconnect[a] = "idle"
  /\ \A a, b \in Attempt : Live(a) /\ a < b => reconnect[b] = "idle"

IInv == TypeOK /\ Phases /\ Holders /\ Chain

\* An attempt is a positive number, a query is none, and neither is the free mutex.
LEMMA Disjoint ==
  /\ Attempt \subseteq Nat \ {0} /\ 1 \in Attempt
  /\ Query \cap Attempt = {} /\ Free \notin Query /\ Free \notin Attempt
<1>1. MaxAttempts \in Nat \ {0} /\ Query \cap (0..MaxAttempts) = {}
  BY PortForwardAssumption
<1>2. Attempt \subseteq Nat \ {0} /\ 1 \in Attempt /\ Attempt \subseteq 0..MaxAttempts /\ 0 \in 0..MaxAttempts
  BY <1>1 DEF Attempt
<1>3. QED
  BY <1>1, <1>2 DEF Free

LEMMA InitImpliesIInv == Init => IInv
<1>. SUFFICES ASSUME Init PROVE IInv
  OBVIOUS
<1>1. TypeOK
  BY PortForwardAssumption DEF Init, TypeOK, Free
<1>2. Phases
  BY DEF Init, Phases
<1>3. Holders
  BY Disjoint DEF Init, Holders
<1>4. Chain
  BY DEF Init, Chain, Live
<1>5. QED
  BY <1>1, <1>2, <1>3, <1>4 DEF IInv

\* The deferred reconnect of an attempt that is over: the next attempt of the chain.
LEMMA AgainKeepsChain ==
  ASSUME IInv, NEW a \in Attempt, dialer[a] \in {"dialing", "forwarding"},
         main' = main, reconnect' = Again(a),
         dialer'[a] \notin {"none", "dialing", "forwarding"},
         \A b \in Attempt \ {a} : dialer'[b] = dialer[b]
  PROVE  /\ \A b \in Attempt : b # a + 1 => reconnect'[b] = reconnect[b]
         /\ a + 1 \in Attempt => /\ reconnect[a + 1] = "idle" /\ dialer[a + 1] = "none"
                                 /\ reconnect'[a + 1] = "lock"
         /\ reconnect' \in [Attempt -> {"idle", "lock", "wait", "done"}]
         /\ Chain'
<1>1. a \in Nat \ {0} /\ MaxAttempts \in Nat \ {0} /\ Attempt = 1..MaxAttempts
  BY Disjoint, PortForwardAssumption DEF Attempt
<1>2. \A b \in Attempt : a < b => reconnect[b] = "idle" /\ dialer[b] = "none"
  BY DEF IInv, Chain, Live, Phases
<1>3. \A c \in Attempt : c < a => ~Live(c)
  BY DEF IInv, Chain, Phases
<1>4. reconnect \in [Attempt -> {"idle", "lock", "wait", "done"}]
  BY DEF IInv, TypeOK
<1>5. reconnect' = IF a = MaxAttempts THEN reconnect ELSE [reconnect EXCEPT ![a + 1] = "lock"]
  BY DEF Again
<1>6. \A b \in Attempt : b # a + 1 => reconnect'[b] = reconnect[b]
  BY <1>4, <1>5
<1>7. a + 1 \in Attempt => /\ reconnect[a + 1] = "idle" /\ dialer[a + 1] = "none"
                           /\ reconnect'[a + 1] = "lock"
  BY <1>1, <1>2, <1>4, <1>5
<1>8. reconnect' \in [Attempt -> {"idle", "lock", "wait", "done"}]
  BY <1>4, <1>5
<1>9. reconnect[a] \notin {"idle", "lock"}
  BY DEF IInv, Phases
<1>10. main # "discover"
  BY <1>9 DEF IInv, Chain
<1>11. ASSUME NEW c \in Attempt, NEW b \in Attempt, Live(c)', c < b
       PROVE  reconnect'[b] = "idle"
  <2>1. c # a
    BY <1>1, <1>6, <1>9, <1>11 DEF Live
  <2>2. ~(c < a)
    <3>1. SUFFICES ASSUME c < a PROVE FALSE
      OBVIOUS
    <3>2. c # a + 1
      BY <1>1, <3>1
    <3>3. Live(c)
      BY <1>6, <1>11, <2>1, <3>2 DEF Live
    <3>4. QED
      BY <1>3, <3>1, <3>3
  <2>3. a < c /\ b # a + 1 /\ a < b
    BY <1>1, <1>11, <2>1, <2>2
  <2>4. QED
    BY <1>2, <1>6, <2>3
<1>12. QED
  BY <1>6, <1>7, <1>8, <1>10, <1>11 DEF Chain

LEMMA IInvStep == IInv /\ [Next]_vars => IInv'
<1>. SUFFICES ASSUME IInv, [Next]_vars PROVE IInv'
  OBVIOUS
<1>. USE DEF IInv
<1>0. /\ reconnect \in [Attempt -> {"idle", "lock", "wait", "done"}]
      /\ dialer \in [Attempt -> {"none", "dialing", "forwarding", "lost", "failed"}]
      /\ query \in [Query -> {"idle", "lock", "gate", "sent"}]
      /\ failures \in 0..MaxFailures /\ MaxFailures \in Nat
  BY PortForwardAssumption DEF TypeOK
<1>1. CASE DiscoverFails
  BY <1>1 DEF DiscoverFails, TypeOK, Phases, Holders, Chain, Live
<1>2. CASE Discover
  <2>1. \A a \in Attempt : reconnect[a] = "idle" /\ dialer[a] = "none"
    BY <1>2 DEF Discover, Chain, Phases
  <2>2. \A a \in Attempt : reconnect'[a] = IF a = 1 THEN "lock" ELSE "idle"
    BY <1>0, <1>2, <2>1, Disjoint DEF Discover
  <2>3. TypeOK'
    BY <1>0, <1>2, Disjoint DEF Discover, TypeOK
  <2>4. Phases'
    BY <1>2, <2>1, <2>2 DEF Discover, Phases
  <2>5. Holders'
    BY <1>2, <2>1, <2>2 DEF Discover, Holders
  <2>6. Chain'
    BY <1>2, <2>1, <2>2, Disjoint DEF Discover, Chain, Live
  <2>7. QED
    BY <2>3, <2>4, <2>5, <2>6
<1>3. ASSUME NEW a \in Attempt, Lock(a) PROVE IInv'
  <2>1. /\ dialer[a] = "none" /\ main # "discover"
        /\ \A b \in Attempt : a < b => reconnect[b] = "idle"
        /\ \A c \in Attempt : c < a => ~Live(c)
    BY <1>3 DEF Lock, Phases, Chain, Live
  <2>2. TypeOK'
    BY <1>0, <1>3 DEF Lock, TypeOK
  <2>3. Phases'
    BY <1>0, <1>3 DEF Lock, Phases
  <2>4. Holders'
    BY <1>0, <1>3, Disjoint DEF Lock, Holders
  <2>5. Chain'
    BY <1>0, <1>3, <2>1, Disjoint DEF Lock, Chain, Live
  <2>6. QED
    BY <2>2, <2>3, <2>4, <2>5
<1>4. ASSUME NEW a \in Attempt, DialFails(a) \/ Lose(a) PROVE IInv'
  <2>1. PICK end \in {"lost", "failed"} : dialer' = [dialer EXCEPT ![a] = end]
    BY <1>4 DEF DialFails, Lose
  <2>2. /\ dialer[a] \in {"dialing", "forwarding"} /\ reconnect' = Again(a)
        /\ main' = main /\ mutex' = mutex /\ query' = query /\ failures' \in 0..MaxFailures
    BY <1>0, <1>4 DEF DialFails, Lose
  <2>3. /\ dialer'[a] = end /\ \A b \in Attempt \ {a} : dialer'[b] = dialer[b]
        /\ dialer' \in [Attempt -> {"none", "dialing", "forwarding", "lost", "failed"}]
    BY <1>0, <2>1
  <2>4. /\ \A b \in Attempt : b # a + 1 => reconnect'[b] = reconnect[b]
        /\ a + 1 \in Attempt => /\ reconnect[a + 1] = "idle" /\ dialer[a + 1] = "none"
                                /\ reconnect'[a + 1] = "lock"
        /\ reconnect' \in [Attempt -> {"idle", "lock", "wait", "done"}]
        /\ Chain'
    BY <2>2, <2>3, AgainKeepsChain
  <2>5. a # a + 1
    BY Disjoint
  <2>6. TypeOK'
    BY <2>2, <2>3, <2>4 DEF TypeOK
  <2>7. Phases'
    BY <2>2, <2>3, <2>4, <2>5 DEF Phases
  <2>8. Holders'
    BY <2>2, <2>4 DEF Holders
  <2>9. QED
    BY <2>4, <2>6, <2>7, <2>8
<1>5. ASSUME NEW a \in Attempt, Ready(a) PROVE IInv'
  <2>1. TypeOK'
    BY <1>0, <1>5 DEF Ready, TypeOK
  <2>2. Phases'
    BY <1>0, <1>5 DEF Ready, Phases
  <2>3. Holders'
    BY <1>5 DEF Ready, Holders
  <2>4. Chain'
    BY <1>0, <1>5 DEF Ready, Chain, Live
  <2>5. QED
    BY <2>1, <2>2, <2>3, <2>4
<1>6. ASSUME NEW a \in Attempt, Unlock(a) PROVE IInv'
  <2>1. TypeOK'
    BY <1>0, <1>6 DEF Unlock, TypeOK
  <2>2. Phases'
    BY <1>0, <1>6 DEF Unlock, Phases
  <2>3. Holders'
    BY <1>0, <1>6, Disjoint DEF Unlock, Holders
  <2>4. Chain'
    BY <1>0, <1>6 DEF Unlock, Chain, Live
  <2>5. QED
    BY <2>1, <2>2, <2>3, <2>4
<1>7. ASSUME NEW q \in Query, Querying(q) PROVE IInv'
  <2>1. TypeOK'
    BY <1>0, <1>7 DEF Querying, Ask, QueryLock, QueryUnlock, Answer, TypeOK
  <2>2. Phases' /\ Chain'
    BY <1>7 DEF Querying, Ask, QueryLock, QueryUnlock, Answer, Phases, Chain, Live
  <2>3. Holders'
    BY <1>0, <1>7, Disjoint DEF Querying, Ask, QueryLock, QueryUnlock, Answer, Holders
  <2>4. QED
    BY <2>1, <2>2, <2>3
<1>8. CASE UNCHANGED vars
  BY <1>8 DEF vars, TypeOK, Phases, Holders, Chain, Live
<1>9. QED
  BY <1>1, <1>2, <1>3, <1>4, <1>5, <1>6, <1>7, <1>8 DEF Next, Connecting

LEMMA IInvHolds == Spec => []IInv
<1>1. QED
  BY InitImpliesIInv, IInvStep, PTL DEF Spec

\* The state of the connection keeps its type (metric.go:191, api.go:292).
THEOREM TypeCorrect == Spec => []TypeOK
<1>1. IInv => TypeOK
  BY DEF IInv
<1>2. QED
  BY <1>1, IInvHolds, PTL

\* No query is let through while a connection is being dialled: the attempt that dials
\* holds the mutex, and a query that holds it is no attempt (metric.go:195, api.go:292).
THEOREM GateIsConnected == Spec => []GateMeansConnected
<1>1. IInv => GateMeansConnected
  <2>1. SUFFICES ASSUME IInv, mutex \in Query, NEW a \in Attempt, dialer[a] = "dialing"
                 PROVE  FALSE
    BY DEF GateMeansConnected
  <2>2. mutex = a
    BY <2>1 DEF IInv, Phases, Holders
  <2>3. QED
    BY <2>1, <2>2, Disjoint
<1>2. QED
  BY <1>1, IInvHolds, PTL

\* Two connections to the same local port never exist: an attempt is made only once the
\* one before it is over (metric.go:203).
THEOREM OneConnectionAtATime == Spec => []OneConnection
<1>1. IInv => OneConnection
  <2>1. SUFFICES ASSUME IInv, NEW a \in Attempt, NEW b \in Attempt,
                        dialer[a] \in {"dialing", "forwarding"},
                        dialer[b] \in {"dialing", "forwarding"}
                 PROVE  a = b
    BY DEF OneConnection
  <2>2. ~(a < b) /\ ~(b < a)
    BY <2>1 DEF IInv, Chain, Live, Phases
  <2>3. QED
    BY <2>2, Disjoint
<1>2. QED
  BY <1>1, IInvHolds, PTL

--------------------------------------------------------------------------------

\* What FindService finds is the first service that matches; it finds one when there is one.
LEMMA Found ==
  ASSUME services \in Catalogs, NEW wanted
  PROVE  /\ FindService(wanted) # 0 =>
              FindService(wanted) \in DOMAIN services /\ Matches(services[FindService(wanted)], wanted)
         /\ FindService(wanted) = 0 => \A i \in DOMAIN services : ~Matches(services[i], wanted)
<1>1. PICK s : s = services
  OBVIOUS
<1>2. Len(s) \in Nat /\ DOMAIN s = 1..Len(s)
  <2>1. s \in Seq(Range(s))
    BY <1>1, PortForwardAssumption
  <2>2. QED
    BY <2>1
<1>3. PICK I : I = {i \in 1..Len(s) : Matches(s[i], wanted)}
  OBVIOUS
<1>4. FindService(wanted) = IF I # {} THEN Min(I) ELSE 0
  BY <1>1, <1>3, Zenon DEF FindService, SelectInSeq
<1>5. I # {} => Min(I) \in I
  BY <1>2, <1>3, SmallestOf
<1>6. QED
  BY <1>1, <1>2, <1>3, <1>4, <1>5

\* What is discovered serves the first wanted kind that any service serves.
LEMMA DiscoveredIsBest ==
  ASSUME services \in Catalogs, Discovered # 0
  PROVE  \E k \in DOMAIN Wanted :
           /\ Matches(services[Discovered], Wanted[k])
           /\ \A j \in 1..(k - 1), i \in DOMAIN services : ~Matches(services[i], Wanted[j])
<1>1. DOMAIN Wanted = 1..3 /\ Len(Wanted) = 3
  BY DEF Wanted
<1>2. PICK W, I : W = Wanted /\ I = {k \in 1..Len(W) : FindService(W[k]) # 0}
  OBVIOUS
<1>3. PICK first : first = SelectInSeq(Wanted, LAMBDA wanted : FindService(wanted) # 0)
  OBVIOUS
<1>4. first = IF I # {} THEN Min(I) ELSE 0
  BY <1>2, <1>3, Zenon DEF SelectInSeq
<1>5. Discovered = IF first = 0 THEN 0 ELSE FindService(Wanted[first])
  BY <1>3, Zenon DEF Discovered
<1>6. first \in I /\ \A k \in I : first <= k
  BY <1>1, <1>2, <1>4, <1>5, SmallestOf
<1>7. first \in 1..3 /\ FindService(Wanted[first]) # 0 /\ Discovered = FindService(Wanted[first])
  BY <1>1, <1>2, <1>5, <1>6
<1>8. Matches(services[Discovered], Wanted[first])
  BY <1>7, Found
<1>9. ASSUME NEW j \in 1..(first - 1), NEW i \in DOMAIN services PROVE ~Matches(services[i], Wanted[j])
  <2>1. j \in 1..3 /\ ~(first <= j)
    BY <1>7
  <2>2. FindService(Wanted[j]) = 0
    BY <1>1, <1>2, <1>6, <2>1
  <2>3. QED
    BY <2>2, Found
<1>10. QED
  BY <1>1, <1>7, <1>8, <1>9

\* The service that is forwarded matches the first entry of the wanted list that any
\* service of the cluster matches (metric.go:31).
THEOREM BestServiceIsForwarded == Spec => []TargetIsBestService
<1> DEFINE Inv == services \in Catalogs /\ TargetIsBestService
<1>1. Init => Inv
  BY DEF Init, TargetIsBestService
<1>2. Inv /\ [Next]_vars => Inv'
  <2> SUFFICES ASSUME Inv, [Next]_vars PROVE Inv'
    OBVIOUS
  <2>1. CASE Discover
    <3>1. services' = services /\ target' = Discovered /\ Discovered # 0
      BY <2>1 DEF Discover
    <3>2. QED
      BY <3>1, DiscoveredIsBest DEF TargetIsBestService
  <2>2. CASE UNCHANGED <<services, target>>
    BY <2>2 DEF TargetIsBestService, Matches
  <2>3. QED
    BY <2>1, <2>2
    DEF vars, Next, DiscoverFails, Connecting, Lock, DialFails, Ready, Lose, Unlock,
        Querying, Ask, QueryLock, QueryUnlock, Answer
<1>3. QED
  BY <1>1, <1>2, PTL DEF Spec
--------------------------------------------------------------------------------
(* Times in their order.                                                     *)

\* Everything that is not after a place, the place included.
UpTo(at, i) == {j \in DOMAIN at : NotAfter(at, j, i)}
RankOf(at) == [i \in DOMAIN at |-> Cardinality(UpTo(at, i))]

LEMMA RanksDiffer ==
  ASSUME NEW D, IsFiniteSet(D), D \subseteq Int, NEW at \in [D -> Int],
         NEW i \in D, NEW j \in D, i # j, NotAfter(at, i, j)
  PROVE  RankOf(at)[i] < RankOf(at)[j]
<1>1. UpTo(at, i) \subseteq UpTo(at, j)
  <2> SUFFICES ASSUME NEW k \in D, NotAfter(at, k, i) PROVE NotAfter(at, k, j)
    BY DEF UpTo
  <2>1. k \in Int /\ i \in Int /\ j \in Int /\ at[k] \in Int /\ at[i] \in Int /\ at[j] \in Int
    OBVIOUS
  <2>2. QED
    BY <2>1 DEF NotAfter
<1>2. j \in UpTo(at, j) /\ j \notin UpTo(at, i)
  <2>1. i \in Int /\ j \in Int /\ at[i] \in Int /\ at[j] \in Int
    OBVIOUS
  <2>2. QED
    BY <2>1 DEF UpTo, NotAfter
<1>3. IsFiniteSet(UpTo(at, i)) /\ IsFiniteSet(UpTo(at, j))
  <2>1. UpTo(at, i) \subseteq D /\ UpTo(at, j) \subseteq D
    BY DEF UpTo
  <2>2. QED
    BY <2>1, FS_Subset
<1>4. Cardinality(UpTo(at, i)) < Cardinality(UpTo(at, j))
  <2>1. UpTo(at, i) # UpTo(at, j)
    BY <1>2
  <2>2. Cardinality(UpTo(at, i)) <= Cardinality(UpTo(at, j))
        /\ Cardinality(UpTo(at, i)) # Cardinality(UpTo(at, j))
    BY <1>1, <1>3, <2>1, FS_Subset
  <2>3. Cardinality(UpTo(at, i)) \in Nat /\ Cardinality(UpTo(at, j)) \in Nat
    BY <1>3, FS_CardinalityType
  <2>4. QED
    BY <2>2, <2>3
<1>5. QED
  BY <1>4 DEF RankOf

Orders(o, at, D, N) ==
  /\ o \in [1..N -> D] /\ \A m, n \in 1..N : o[m] = o[n] => m = n
  /\ \A i \in D : \E n \in 1..N : o[n] = i
  /\ \A m, n \in 1..N : m < n => at[o[m]] <= at[o[n]]

\* The order names every place once, the earlier ones first.
LEMMA InOrderIs ==
  ASSUME NEW D, IsFiniteSet(D), D \subseteq Int, NEW at \in [D -> Int], NEW o, o = InOrder(at)
  PROVE  Cardinality(D) \in Nat /\ Orders(o, at, D, Cardinality(D))
<1>1. PICK N, rank : N = Cardinality(D) /\ rank = RankOf(at)
  OBVIOUS
<1>2. N \in Nat /\ IsFiniteSet(1..N) /\ Cardinality(1..N) = N
  BY <1>1, FS_CardinalityType, FS_Interval
<1>3. ASSUME NEW i \in D PROVE rank[i] \in 1..N
  <2>1. UpTo(at, i) \subseteq D /\ i \in UpTo(at, i)
    <3>1. i \in Int /\ at[i] \in Int
      OBVIOUS
    <3>2. QED
      BY <3>1 DEF UpTo, NotAfter
  <2>2. IsFiniteSet(UpTo(at, i)) /\ Cardinality(UpTo(at, i)) <= N
    BY <1>1, <2>1, FS_Subset
  <2>3. Cardinality(UpTo(at, i)) \in Nat /\ Cardinality(UpTo(at, i)) # 0
    BY <2>1, <2>2, FS_CardinalityType, FS_EmptySet
  <2>4. QED
    BY <1>1, <1>2, <2>2, <2>3 DEF RankOf
<1>4. rank \in [D -> 1..N]
  <2>1. rank = [i \in D |-> rank[i]]
    BY <1>1 DEF RankOf
  <2>2. QED
    BY <1>3, <2>1
<1>5. \A i, j \in D : i # j => rank[i] # rank[j] /\ (NotAfter(at, i, j) => rank[i] < rank[j])
  <2> SUFFICES ASSUME NEW i \in D, NEW j \in D, i # j
               PROVE  rank[i] # rank[j] /\ (NotAfter(at, i, j) => rank[i] < rank[j])
    OBVIOUS
  <2>1. NotAfter(at, i, j) => rank[i] < rank[j]
    BY <1>1, RanksDiffer
  <2>2. NotAfter(at, j, i) => rank[j] < rank[i]
    BY <1>1, RanksDiffer
  <2>3. NotAfter(at, i, j) \/ NotAfter(at, j, i)
    <3>1. i \in Int /\ j \in Int /\ at[i] \in Int /\ at[j] \in Int
      OBVIOUS
    <3>2. QED
      BY <3>1 DEF NotAfter
  <2>4. rank[i] \in Int /\ rank[j] \in Int
    BY <1>3
  <2>5. QED
    BY <2>1, <2>2, <2>3, <2>4
<1>6. rank \in Surjection(D, 1..N)
  <2>1. rank \in Injection(D, 1..N)
    BY <1>4, <1>5, Fun_IsInj
  <2>2. QED
    BY <1>1, <1>2, <2>1, FS_Injection
<1>7. \A n \in 1..N : \E i \in D : rank[i] = n
  BY <1>6, Fun_SurjectionProperties
<1>8. \A i \in D : rank[i] = Cardinality({j \in DOMAIN at : NotAfter(at, j, i)})
  BY <1>1 DEF RankOf, UpTo
<1>9. /\ o = [n \in 1..N |-> o[n]]
      /\ \A n \in 1..N : o[n] = CHOOSE i \in DOMAIN at : Cardinality({j \in DOMAIN at : NotAfter(at, j, i)}) = n
  <2>1. o = [n \in 1..Cardinality(DOMAIN at) |->
               CHOOSE i \in DOMAIN at : Cardinality({j \in DOMAIN at : NotAfter(at, j, i)}) = n]
    BY Zenon DEF InOrder
  <2>2. N = Cardinality(DOMAIN at)
    BY <1>1
  <2>3. QED
    BY <2>1, <2>2
<1>10. ASSUME NEW n \in 1..N PROVE o[n] \in D /\ rank[o[n]] = n
  <2>1. \E i \in DOMAIN at : Cardinality({j \in DOMAIN at : NotAfter(at, j, i)}) = n
    BY <1>7, <1>8
  <2>2. o[n] \in DOMAIN at /\ Cardinality({j \in DOMAIN at : NotAfter(at, j, o[n])}) = n
    BY Zenon, <1>9, <2>1
  <2>3. QED
    BY <1>8, <2>2
<1>11. /\ o \in [1..N -> D] /\ \A m, n \in 1..N : o[m] = o[n] => m = n
       /\ \A i \in D : \E n \in 1..N : o[n] = i
  <2>1. o \in [1..N -> D]
    BY <1>9, <1>10
  <2>2. \A m, n \in 1..N : o[m] = o[n] => m = n
    BY <1>10
  <2>3. \A i \in D : \E n \in 1..N : o[n] = i
    BY <1>3, <1>5, <1>10
  <2>4. QED
    BY <2>1, <2>2, <2>3
<1>12. ASSUME NEW m \in 1..N, NEW n \in 1..N, m < n PROVE at[o[m]] <= at[o[n]]
  <2>1. o[m] \in D /\ o[n] \in D /\ rank[o[m]] = m /\ rank[o[n]] = n
    BY <1>10
  <2>2. m \in Int /\ n \in Int /\ at[o[m]] \in Int /\ at[o[n]] \in Int
    <3>1. at[o[m]] \in Int /\ at[o[n]] \in Int
      BY <2>1
    <3>2. m \in Int /\ n \in Int
      BY <1>2
    <3>3. QED
      BY <3>1, <3>2
  <2>3. ~ (at[o[n]] < at[o[m]])
    <3> SUFFICES ASSUME at[o[n]] < at[o[m]] PROVE FALSE
      OBVIOUS
    <3>1. NotAfter(at, o[n], o[m])
      BY DEF NotAfter
    <3>2. n < m
      BY <1>5, <1>12, <2>1, <3>1
    <3>3. QED
      BY <1>12, <2>2, <3>2
  <2>4. QED
    BY <2>2, <2>3
<1>13. QED
  BY <1>1, <1>2, <1>11, <1>12 DEF Orders

--------------------------------------------------------------------------------
(* The points of a series.                                                   *)

Points == [at : Int, value : {Trough, Peak}]

InTime(points)   == \A m, n \in 1..Len(points) : m < n => points[m].at <= points[n].at
Times(points)    == {points[i].at : i \in 1..Len(points)}
Copies(points, t) == {i \in 1..Len(points) : points[i].at = t}

LEMMA CopiesFinite ==
  ASSUME NEW points \in Seq(Points), NEW t
  PROVE  IsFiniteSet(Copies(points, t)) /\ Cardinality(Copies(points, t)) \in Nat
<1>1. PICK L : L = Len(points)
  OBVIOUS
<1>2. L \in Nat /\ IsFiniteSet(1..L)
  BY <1>1, LenProperties, FS_Interval
<1>3. Copies(points, t) \subseteq 1..L
  BY <1>1 DEF Copies
<1>4. IsFiniteSet(Copies(points, t))
  BY <1>2, <1>3, FS_Subset
<1>5. QED
  BY <1>4, FS_CardinalityType

\* What is parsed: the points of the times, one each.
LEMMA ParsedIs ==
  ASSUME NEW T, IsFiniteSet(T), T \subseteq Int, NEW o, o = InOrder([t \in T |-> t]),
         NEW points, points = [n \in DOMAIN o |-> Datapoint(o[n])]
  PROVE  /\ points \in Seq(Points) /\ InTime(points) /\ Times(points) = T /\ Len(points) = Cardinality(T)
         /\ \A t : Cardinality(Copies(points, t)) <= 1
<1>1. PICK at : at = [t \in T |-> t]
  OBVIOUS
<1>2. at \in [T -> Int] /\ o = InOrder(at) /\ \A t \in T : at[t] = t
  BY <1>1
<1>3. PICK N : N = Cardinality(T)
  OBVIOUS
<1>14. N \in Nat /\ Orders(o, at, T, N)
  BY <1>2, <1>3, InOrderIs
<1>4. N \in Nat /\ \A m, n \in 1..N : m < n => at[o[m]] <= at[o[n]]
  BY <1>14 DEF Orders
<1>5. /\ o \in [1..N -> T] /\ \A m, n \in 1..N : o[m] = o[n] => m = n
      /\ \A t \in T : \E n \in 1..N : o[n] = t
  BY <1>14 DEF Orders
<1>6. DOMAIN o = 1..N /\ \A n \in 1..N : o[n] \in T /\ o[n] \in Int
  BY <1>5
<1>7. \A n \in 1..N : Datapoint(o[n]) \in Points /\ Datapoint(o[n]).at = o[n]
  BY <1>6 DEF Datapoint, Points
<1>8. points = [n \in 1..N |-> Datapoint(o[n])]
  BY <1>6
<1>9. points \in [1..N -> Points] /\ \A n \in 1..N : points[n].at = o[n]
  BY <1>7, <1>8
<1>10. points \in Seq(Points) /\ Len(points) = N
  BY <1>4, <1>9, IsASeq, LenProperties
<1>11. InTime(points)
  <2> SUFFICES ASSUME NEW m \in 1..N, NEW n \in 1..N, m < n PROVE points[m].at <= points[n].at
    BY <1>10 DEF InTime
  <2>1. at[o[m]] <= at[o[n]] /\ at[o[m]] = o[m] /\ at[o[n]] = o[n]
    BY <1>2, <1>4, <1>6
  <2>2. QED
    BY <1>9, <2>1
<1>12. Times(points) = T
  <2>1. Times(points) = {points[n].at : n \in 1..N}
    BY <1>10 DEF Times
  <2>2. Times(points) \subseteq T
    BY <1>6, <1>9, <2>1
  <2>3. ASSUME NEW t \in T PROVE t \in Times(points)
    <3>1. PICK n \in 1..N : o[n] = t
      BY <1>5
    <3>2. QED
      BY <1>9, <2>1, <3>1
  <2>4. QED
    BY <2>2, <2>3
<1>13. ASSUME NEW t PROVE Cardinality(Copies(points, t)) <= 1
  <2>1. ASSUME NEW m \in Copies(points, t), NEW n \in Copies(points, t) PROVE m = n
    <3>1. m \in 1..N /\ n \in 1..N /\ points[m].at = t /\ points[n].at = t
      BY <1>10 DEF Copies
    <3>2. o[m] = o[n]
      BY <1>9, <3>1
    <3>3. QED
      BY <1>5, <3>1, <3>2
  <2>2. CASE Copies(points, t) = {}
    <3>1. Cardinality(Copies(points, t)) = 0
      BY <2>2, FS_EmptySet
    <3>2. QED
      BY <3>1
  <2>3. ASSUME NEW m \in Copies(points, t) PROVE Cardinality(Copies(points, t)) = 1
    <3>1. Copies(points, t) = {m}
      BY <2>1
    <3>2. QED
      BY <3>1, FS_Singleton
  <2>4. CASE Copies(points, t) # {}
    <3>1. PICK m : m \in Copies(points, t)
      BY <2>4
    <3>2. Cardinality(Copies(points, t)) = 1
      BY <2>3, <3>1
    <3>3. QED
      BY <3>2
  <2>5. QED
    BY <2>2, <2>4
<1>15. QED
  BY <1>3, <1>10, <1>11, <1>12, <1>13

\* What is merged: the points of both, each as often as both have it.
LEMMA MergedIs ==
  ASSUME NEW p1 \in Seq(Points), NEW p2 \in Seq(Points), NEW points, points = MergePoints(p1, p2)
  PROVE  /\ points \in Seq(Points) /\ InTime(points) /\ Times(points) = Times(p1) \cup Times(p2)
         /\ Len(points) = Len(p1) + Len(p2)
         /\ \A t : Cardinality(Copies(points, t)) = Cardinality(Copies(p1, t)) + Cardinality(Copies(p2, t))
<1>1. PICK merged, at, o, L1, L2, N :
        /\ merged = p1 \o p2 /\ at = [i \in DOMAIN merged |-> merged[i].at] /\ o = InOrder(at)
        /\ L1 = Len(p1) /\ L2 = Len(p2) /\ N = L1 + L2
  OBVIOUS
<1>2. L1 \in Nat /\ L2 \in Nat /\ N \in Nat
  BY <1>1, LenProperties
<1>3. /\ merged \in Seq(Points) /\ Len(merged) = N /\ DOMAIN merged = 1..N
      /\ \A i \in 1..L1 : merged[i] = p1[i]
      /\ \A i \in 1..L2 : merged[L1 + i] = p2[i]
  <2>1. merged \in Seq(Points) /\ Len(merged) = N
    BY <1>1, <1>2, ConcatProperties
  <2>2. DOMAIN merged = 1..N
    BY <2>1, LenProperties
  <2>3. \A i \in 1..L1 : merged[i] = p1[i]
    BY <1>1, <1>2, ConcatProperties
  <2>4. \A i \in 1..L2 : merged[L1 + i] = p2[i]
    BY <1>1, <1>2, ConcatProperties
  <2>5. QED
    BY <2>1, <2>2, <2>3, <2>4
<1>4. \A i \in 1..N : merged[i] \in Points /\ merged[i].at \in Int
  <2>1. \A i \in 1..N : merged[i] \in Points
    BY <1>3, ElementOfSeq
  <2>2. QED
    BY <2>1 DEF Points
<1>5. at \in [1..N -> Int] /\ \A i \in 1..N : at[i] = merged[i].at
  BY <1>1, <1>3, <1>4
<1>6. IsFiniteSet(1..N) /\ Cardinality(1..N) = N /\ 1..N \subseteq Int
  BY <1>2, FS_Interval
<1>20. PICK I : I = 1..N
  OBVIOUS
<1>21. at \in [I -> Int] /\ IsFiniteSet(I) /\ I \subseteq Int /\ Cardinality(I) = N
  BY <1>5, <1>6, <1>20
<1>22. Orders(o, at, I, N)
  BY <1>1, <1>21, InOrderIs
<1>7. \A m, n \in 1..N : m < n => at[o[m]] <= at[o[n]]
  BY <1>22 DEF Orders
<1>8. /\ o \in [1..N -> 1..N] /\ \A m, n \in 1..N : o[m] = o[n] => m = n
      /\ \A t \in 1..N : \E n \in 1..N : o[n] = t
  BY <1>20, <1>22 DEF Orders
<1>9. DOMAIN o = 1..N /\ \A n \in 1..N : o[n] \in 1..N
  BY <1>8
<1>10. points = [n \in 1..N |-> merged[o[n]]]
  <2>1. points = [n \in DOMAIN o |-> merged[o[n]]]
    BY Zenon, <1>1 DEF MergePoints
  <2>2. QED
    BY <1>9, <2>1
<1>11. points \in [1..N -> Points] /\ \A n \in 1..N : points[n] = merged[o[n]]
  BY <1>4, <1>9, <1>10
<1>12. points \in Seq(Points) /\ Len(points) = N
  BY <1>2, <1>11, IsASeq, LenProperties
<1>13. InTime(points)
  <2> SUFFICES ASSUME NEW m \in 1..N, NEW n \in 1..N, m < n PROVE points[m].at <= points[n].at
    BY <1>12 DEF InTime
  <2>1. at[o[m]] <= at[o[n]] /\ at[o[m]] = merged[o[m]].at /\ at[o[n]] = merged[o[n]].at
    BY <1>5, <1>7, <1>9
  <2>2. QED
    BY <1>11, <2>1
<1>14. \A i \in 1..N : i \in 1..L1 \/ \E j \in 1..L2 : i = L1 + j
  <2> SUFFICES ASSUME NEW i \in 1..N, i \notin 1..L1 PROVE \E j \in 1..L2 : i = L1 + j
    OBVIOUS
  <2>1. i - L1 \in 1..L2 /\ i = L1 + (i - L1)
    BY <1>1, <1>2
  <2>2. QED
    BY <2>1
<1>15. \A i \in 1..L1 : i \in 1..N
  BY <1>1, <1>2
<1>16. \A j \in 1..L2 : L1 + j \in 1..N
  BY <1>1, <1>2
<1>17. Times(points) = Times(p1) \cup Times(p2)
  <2>1. ASSUME NEW t \in Times(points) PROVE t \in Times(p1) \cup Times(p2)
    <3>1. PICK n \in 1..N : t = points[n].at
      BY <1>12 DEF Times
    <3>2. PICK i \in 1..N : t = merged[i].at
      BY <1>9, <1>11, <3>1
    <3>3. CASE i \in 1..L1
      BY <1>1, <1>3, <3>2, <3>3 DEF Times
    <3>4. ASSUME NEW j \in 1..L2, i = L1 + j PROVE t \in Times(p2)
      BY <1>1, <1>3, <3>2, <3>4 DEF Times
    <3>5. QED
      BY <1>14, <3>3, <3>4
  <2>2. ASSUME NEW i \in 1..N PROVE merged[i].at \in Times(points)
    <3>1. PICK n \in 1..N : o[n] = i
      BY <1>8
    <3>2. QED
      BY <1>11, <1>12, <3>1 DEF Times
  <2>3. ASSUME NEW t \in Times(p1) PROVE t \in Times(points)
    <3>1. PICK i \in 1..L1 : t = p1[i].at
      BY <1>1 DEF Times
    <3>2. QED
      BY <1>3, <1>15, <2>2, <3>1
  <2>4. ASSUME NEW t \in Times(p2) PROVE t \in Times(points)
    <3>1. PICK i \in 1..L2 : t = p2[i].at
      BY <1>1 DEF Times
    <3>2. QED
      BY <1>3, <1>16, <2>2, <3>1
  <2>5. QED
    BY <2>1, <2>3, <2>4
<1>18. ASSUME NEW t PROVE Cardinality(Copies(points, t)) = Cardinality(Copies(p1, t)) + Cardinality(Copies(p2, t))
  <2>1. PICK A, B, C, D, E : /\ A = Copies(points, t) /\ B = Copies(merged, t) /\ C = Copies(p1, t)
                             /\ D = Copies(p2, t) /\ E = {L1 + j : j \in D}
    OBVIOUS
  <2>2. IsFiniteSet(A) /\ IsFiniteSet(B) /\ IsFiniteSet(C) /\ IsFiniteSet(D)
    BY <1>3, <1>12, <2>1, CopiesFinite
  <2>3. Cardinality(A) = Cardinality(B)
    <3>1. PICK u : u = [n \in A |-> o[n]]
      OBVIOUS
    <3>2. A \subseteq 1..N /\ \A n \in 1..N : n \in A <=> o[n] \in B
      BY <1>3, <1>9, <1>11, <1>12, <2>1 DEF Copies
    <3>3. u \in [A -> B] /\ \A m, n \in A : u[m] = u[n] => m = n
      BY <1>8, <3>1, <3>2
    <3>4. \A i \in B : \E n \in A : u[n] = i
      <4> SUFFICES ASSUME NEW i \in B PROVE \E n \in A : u[n] = i
        OBVIOUS
      <4>1. i \in 1..N
        BY <1>3, <2>1 DEF Copies
      <4>2. PICK n \in 1..N : o[n] = i
        BY <1>8, <4>1
      <4>3. QED
        BY <3>1, <3>2, <4>2
    <3>5. u \in Bijection(A, B)
      BY <3>3, <3>4, Fun_IsBij
    <3>6. ExistsBijection(A, B)
      BY <3>5 DEF ExistsBijection
    <3>7. QED
      BY <2>2, <3>6, FS_Bijection
  <2>4. B = C \cup E /\ C \cap E = {}
    <3>1. \A i \in 1..L1 : i \in B <=> i \in C
      BY <1>1, <1>3, <1>15, <2>1 DEF Copies
    <3>2. \A j \in 1..L2 : L1 + j \in B <=> j \in D
      BY <1>1, <1>3, <1>16, <2>1 DEF Copies
    <3>3. B \subseteq 1..N /\ C \subseteq 1..L1 /\ D \subseteq 1..L2
      BY <1>1, <1>3, <2>1 DEF Copies
    <3>4. \A j \in 1..L2 : L1 + j \notin 1..L1
      BY <1>2
    <3>5. B \subseteq C \cup E
      BY <1>14, <2>1, <3>1, <3>2, <3>3
    <3>6. C \subseteq B
      BY <3>1, <3>3
    <3>7. E \subseteq B
      BY <2>1, <3>2, <3>3
    <3>8. C \cap E = {}
      BY <2>1, <3>3, <3>4
    <3>9. QED
      BY <3>5, <3>6, <3>7, <3>8
  <2>5. IsFiniteSet(E) /\ Cardinality(E) = Cardinality(D)
    <3>1. PICK u : u = [j \in D |-> L1 + j]
      OBVIOUS
    <3>2. D \subseteq Int
      BY <2>1 DEF Copies
    <3>3. u \in [D -> E] /\ \A i, j \in D : u[i] = u[j] => i = j
      BY <1>2, <2>1, <3>1, <3>2
    <3>4. \A e \in E : \E j \in D : u[j] = e
      BY <2>1, <3>1
    <3>5. u \in Bijection(D, E)
      BY <3>3, <3>4, Fun_IsBij
    <3>6. ExistsBijection(D, E)
      BY <3>5 DEF ExistsBijection
    <3>7. QED
      BY <2>2, <3>5, <3>6, FS_Bijection
  <2>6. Cardinality(B) = Cardinality(C) + Cardinality(E) - Cardinality({})
    BY <2>2, <2>4, <2>5, FS_Union
  <2>7. Cardinality({}) = 0 /\ Cardinality(C) \in Nat /\ Cardinality(E) \in Nat
    BY <2>2, <2>5, FS_EmptySet, FS_CardinalityType
  <2>8. QED
    BY <2>1, <2>3, <2>5, <2>6, <2>7
<1>19. QED
  BY <1>1, <1>12, <1>13, <1>17, <1>18

--------------------------------------------------------------------------------
(* Division.                                                                 *)

LEMMA DivMod ==
  ASSUME NEW a \in Int, NEW q \in Nat \ {0}
  PROVE  a \div q \in Int /\ a % q \in Int /\ 0 <= a % q /\ a % q < q /\ a = q * (a \div q) + (a % q)
OBVIOUS

LEMMA Quotient ==
  ASSUME NEW a \in Int, NEW q \in Nat \ {0}, NEW k \in Int, NEW r \in Int, 0 <= r, r < q, a = q * k + r
  PROVE  a \div q = k /\ a % q = r
OBVIOUS

LEMMA Multiples ==
  ASSUME NEW q \in Nat \ {0}, NEW k \in Int, NEW l \in Int
  PROVE  /\ q * k \in Int /\ q * (k + l) = q * k + q * l /\ q * (k - l) = q * k - q * l
         /\ (k < l => q * k + q <= q * l) /\ (k <= l => q * k <= q * l)
OBVIOUS

\* In m times q there are at least m multiples of q.
LEMMA Spanned ==
  ASSUME NEW x \in Int, NEW q \in Nat \ {0}, NEW m \in Nat, NEW w \in Int, w >= m * q
  PROVE  (x \div q) - ((x - w) \div q) >= m
<1>1. PICK a, r, b, s : /\ a = x \div q /\ r = x % q /\ b = (x - w) \div q /\ s = (x - w) % q
  OBVIOUS
<1>2. a \in Int /\ r \in Int /\ 0 <= r /\ r < q /\ x = q * a + r
  BY <1>1, DivMod
<1>3. b \in Int /\ s \in Int /\ 0 <= s /\ s < q /\ x - w = q * b + s
  BY <1>1, DivMod
<1>4. SUFFICES ASSUME a - b < m PROVE FALSE
  BY <1>1, <1>2, <1>3
<1>5. PICK d \in Int : d = a - b
  BY <1>2, <1>3
<1>6. q * d = q * a - q * b /\ q * d \in Int /\ q * a \in Int /\ q * b \in Int
  BY <1>2, <1>3, <1>5, Multiples
<1>7. q * d + q <= q * m /\ q * m \in Int
  BY <1>4, <1>5, Multiples
<1>8. q * m = m * q
  OBVIOUS
<1>9. w = q * d + r - s
  BY <1>2, <1>3, <1>6
<1>10. QED
  BY <1>2, <1>3, <1>6, <1>7, <1>8, <1>9

LEMMA Smaller == ASSUME NEW a \in Int, NEW b \in Int PROVE Min({a, b}) = IF a <= b THEN a ELSE b
<1>1. CASE a <= b
  BY <1>1 DEF Min
<1>2. CASE ~(a <= b)
  BY <1>2 DEF Min
<1>3. QED
  BY <1>1, <1>2

LEMMA Larger == ASSUME NEW a \in Int, NEW b \in Int PROVE Max({a, b}) = IF a <= b THEN b ELSE a
<1>1. CASE a <= b
  BY <1>1 DEF Max
<1>2. CASE ~(a <= b)
  BY <1>2 DEF Max
<1>3. QED
  BY <1>1, <1>2

\* A series that lives has a sample for every scrape in the time.
LEMMA SamplesOfAlive ==
  ASSUME NEW s, NEW t \in Int, NEW w \in Nat, NEW m \in Nat, scrape \in Nat \ {0}, w >= m * scrape, m > 0,
         life[s] \in Int \X Int, life[s][1] <= t - w, t <= life[s][2]
  PROVE  Samples(s, t - w + 1, t) >= m
<1>1. PICK a, b : a = life[s][1] /\ b = life[s][2]
  OBVIOUS
<1>2. a \in Int /\ b \in Int /\ a <= t - w /\ t <= b
  BY <1>1
<1>3. Max({t - w + 1, a}) = t - w + 1 /\ Min({t, b}) = t
  BY <1>2, Larger, Smaller
<1>4. w > 0
  <2>1. m * scrape > 0
    OBVIOUS
  <2>2. m * scrape \in Int
    OBVIOUS
  <2>3. QED
    BY <2>1, <2>2
<1>5. ~(t - w + 1 > t) /\ (t - w + 1) - 1 = t - w
  BY <1>4
<1>6. Samples(s, t - w + 1, t) = (t \div scrape) - ((t - w) \div scrape)
  BY <1>1, <1>3, <1>5 DEF Samples
<1>7. QED
  BY <1>6, Spanned

\* A time at the begin, and one in every step up to the end.
Whole(times, from, end, step) ==
  from \in times /\ \A x \in from..end : \E t \in times : x - step < t /\ t <= x

\* The grid begins where the range begins and has no hole.
LEMMA GridCovers ==
  ASSUME NEW start \in Int, NEW end \in Int, NEW step \in Nat \ {0}
  PROVE  /\ IsFiniteSet(Grid(start, end, step)) /\ Grid(start, end, step) \subseteq start..end
         /\ start <= end => Whole(Grid(start, end, step), start, end, step)
<1>1. Grid(start, end, step) \subseteq start..end
  BY DEF Grid
<1>2. IsFiniteSet(Grid(start, end, step))
  BY <1>1, FS_Interval, FS_Subset
<1>3. ASSUME start <= end PROVE start \in Grid(start, end, step)
  <2>1. 0 = step * 0 + 0
    OBVIOUS
  <2>2. (start - start) % step = 0
    BY <2>1, Quotient
  <2>3. QED
    BY <1>3, <2>2 DEF Grid
<1>4. ASSUME NEW x \in start..end PROVE \E t \in Grid(start, end, step) : x - step < t /\ t <= x
  <2>1. PICK a, r : a = (x - start) \div step /\ r = (x - start) % step
    OBVIOUS
  <2>2. a \in Int /\ r \in Int /\ 0 <= r /\ r < step /\ x - start = step * a + r /\ x \in Int
    BY <2>1, DivMod
  <2>3. PICK t : t = x - r
    OBVIOUS
  <2>4. step * a \in Int /\ t \in Int /\ t - start = step * a + 0 /\ t <= x /\ x - step < t
    BY <2>2, <2>3, Multiples
  <2>5. (t - start) % step = 0
    BY <2>2, <2>4, Quotient
  <2>6. t >= start
    <3>1. a >= 0
      <4> SUFFICES ASSUME a < 0 PROVE FALSE
        BY <2>2
      <4>1. step * a + step <= step * 0
        BY <2>2, Multiples
      <4>2. QED
        BY <2>2, <2>4, <4>1
    <3>2. step * 0 <= step * a
      BY <2>2, <3>1, Multiples
    <3>3. QED
      BY <2>4, <3>2
  <2>7. t \in Grid(start, end, step)
    BY <2>2, <2>4, <2>5, <2>6 DEF Grid
  <2>8. QED
    BY <2>4, <2>7
<1>5. QED
  BY <1>1, <1>2, <1>3, <1>4 DEF Whole

--------------------------------------------------------------------------------
(* The estimate of the scrape interval.                                      *)

Stages == {"probe", "ready", "query", "done", "failed"}

Probed ==
  /\ scrape \in Scrapes /\ life \in [Series -> Lifetimes] /\ busy \in BusyTimes
  /\ probes \in 0..ProbedMetrics /\ phase \in Stages
  /\ phase = "probe" => probes < ProbedMetrics
  /\ minV = MaxInt \/ (minV \in Counts /\ minV * scrape <= Day)
  /\ scrapeInterval = IF phase = "probe" THEN Minute ELSE Estimate(minV)

LEMMA Constants ==
  /\ Day \in Nat \ {0} /\ Hour \in Nat \ {0} /\ Minute \in Nat \ {0} /\ Lookback \in Nat \ {0}
  /\ Minute <= Hour /\ Hour <= Day /\ MaxInt \in Nat /\ MaxInt > Day
  /\ Scrapes \subseteq Nat \ {0} /\ Counts \subseteq Nat \ {0}
<1>1. Day \in Nat \ {0} /\ Hour \in Nat \ {0} /\ Minute \in Nat \ {0} /\ Lookback \in Nat \ {0}
  BY PrometheusAssumption
<1>2. MaxInt \in Nat /\ MaxInt > Day
  BY <1>1 DEF MaxInt
<1>3. QED
  BY <1>1, <1>2, PrometheusAssumption

\* Fewer samples a day make a longer interval.
LEMMA EstimateIs ==
  ASSUME NEW n \in Nat \ {0}, NEW s \in Nat \ {0}, n * s <= Day
  PROVE  n <= Day /\ Estimate(n) = Day \div n /\ Estimate(n) \in 1..Day /\ Estimate(n) >= s
<1>1. PICK k, r : k = Day \div n /\ r = Day % n
  OBVIOUS
<1>2. k \in Int /\ r \in Int /\ 0 <= r /\ r < n /\ Day = n * k + r /\ Day \in Nat \ {0} /\ MaxInt > Day
  BY <1>1, DivMod, Constants
<1>3. n * 1 <= n * s /\ n * s \in Int
  BY Multiples
<1>4. n <= Day
  BY <1>2, <1>3
<1>5. k >= s
  <2> SUFFICES ASSUME k < s PROVE FALSE
    BY <1>2
  <2>1. n * k + n <= n * s /\ n * k \in Int
    BY <1>2, Multiples
  <2>2. QED
    BY <1>2, <1>3, <2>1
<1>6. k <= Day
  <2> SUFFICES ASSUME k > Day PROVE FALSE
    BY <1>2
  <2>1. 1 * k <= n * k
    <3>1. k \in Nat \ {0} /\ k * 1 <= k * n
      BY <1>2, <1>5, Multiples
    <3>2. QED
      BY <3>1
  <2>2. n * k \in Int
    BY <1>2, Multiples
  <2>3. QED
    BY <1>2, <2>1, <2>2
<1>7. MaxInt \in Nat
  BY Constants
<1>8. Estimate(n) = k
  BY <1>1, <1>2, <1>4, <1>7 DEF Estimate
<1>9. QED
  BY <1>1, <1>2, <1>4, <1>5, <1>6, <1>8

\* A step holds two scrapes.
LEMMA StepIs ==
  ASSUME Probed
  PROVE  /\ scrape \in Nat \ {0} /\ scrapeInterval \in 1..Day /\ Step \in Nat \ {0} /\ Step >= Minute
         /\ StepSpansTwoScrapes /\ minV \in Counts \cup {MaxInt}
<1>1. scrape \in Nat \ {0} /\ minV \in Counts \cup {MaxInt}
  BY Constants DEF Probed
<1>2. ASSUME minV # MaxInt PROVE Estimate(minV) \in 1..Day /\ Estimate(minV) >= scrape
  <2>1. minV \in Nat \ {0} /\ minV * scrape <= Day
    BY <1>2, Constants DEF Probed
  <2>2. QED
    BY <1>1, <2>1, EstimateIs
<1>3. Minute \in 1..Day /\ Minute \in Nat \ {0}
  BY Constants
<1>4. minV = MaxInt => Estimate(minV) = Minute
  BY DEF Estimate
<1>5. scrapeInterval = Minute \/ (minV # MaxInt /\ scrapeInterval = Estimate(minV))
  BY <1>4 DEF Probed
<1>6. scrapeInterval \in 1..Day
  BY <1>2, <1>3, <1>5
<1>7. 4 * scrapeInterval \in Nat /\ 4 * scrapeInterval >= 4
  BY <1>6, Constants
<1>8. Step = IF Minute <= 4 * scrapeInterval THEN 4 * scrapeInterval ELSE Minute
  BY <1>3, <1>7, Larger DEF Step
<1>9. Step \in Nat \ {0} /\ Step >= Minute /\ Step >= 4 * scrapeInterval
  BY <1>3, <1>7, <1>8
<1>10. StepSpansTwoScrapes
  <2> SUFFICES ASSUME phase # "probe", minV # MaxInt PROVE Step >= 2 * scrape
    BY DEF StepSpansTwoScrapes
  <2>1. scrapeInterval = Estimate(minV)
    BY DEF Probed
  <2>2. scrapeInterval >= scrape
    BY <1>2, <2>1
  <2>3. QED
    BY <1>1, <1>6, <1>9, <2>2
<1>11. QED
  BY <1>1, <1>6, <1>9, <1>10

LEMMA ProbedInit == QueriesInit => Probed
<1> SUFFICES ASSUME QueriesInit PROVE Probed
  OBVIOUS
<1>1. QED
  BY DEF QueriesInit, Probed, Stages, ProbedMetrics

LEMMA ProbedGet ==
  ASSUME Probed, NEW m, NEW pods, GetMetrics(m, pods)
  PROVE  Probed'
BY DEF GetMetrics, Probed, Truth, Stages, MaxInt, Estimate

LEMMA ProbedStep ==
  ASSUME Probed, [QueriesNext]_queryVars
  PROVE  Probed'
<1>1. CASE ProbeAnswered
  <2>1. /\ phase = "probe" /\ probes' = probes + 1 /\ UNCHANGED Truth
        /\ scrapeInterval = Minute /\ probes \in 0..2 /\ phase \in Stages
    BY <1>1 DEF ProbeAnswered, Probed, ProbedMetrics
  <2>2. /\ phase' \in {"probe", "ready"}
        /\ phase' = "probe" => probes' < ProbedMetrics /\ scrapeInterval' = scrapeInterval
        /\ phase' # "probe" => scrapeInterval' = Estimate(minV')
    BY <1>1, <2>1 DEF ProbeAnswered
  <2>3. minV' = MaxInt \/ (minV' \in Counts /\ minV' * scrape <= Day)
    <3>1. CASE UNCHANGED minV
      BY <3>1 DEF Probed
    <3>2. ASSUME NEW c \in Counts, c * scrape <= Day, minV' = FewestSamples(c)
          PROVE  minV' = MaxInt \/ (minV' \in Counts /\ minV' * scrape <= Day)
      <4>1. c \in Int /\ minV \in Int
        <5>1. minV = MaxInt \/ minV \in Counts
          BY DEF Probed
        <5>2. MaxInt \in Int /\ \A n \in Counts : n \in Int
          BY Constants
        <5>3. QED
          BY <5>1, <5>2
      <4>2. minV' = IF minV <= c THEN minV ELSE c
        BY <3>2, <4>1, Smaller DEF FewestSamples
      <4>3. QED
        BY <3>2, <4>2 DEF Probed
    <3>3. QED
      BY <1>1, <3>1, <3>2 DEF ProbeAnswered
  <2>4. scrape' \in Scrapes /\ life' \in [Series -> Lifetimes] /\ busy' \in BusyTimes /\ scrape' = scrape
    BY <2>1 DEF Probed, Truth
  <2>5. probes' \in 0..ProbedMetrics
    BY <2>1 DEF ProbedMetrics
  <2>6. QED
    BY <2>1, <2>2, <2>3, <2>4, <2>5 DEF Probed, Stages, MaxInt, Estimate
<1>2. CASE ProbeFails
  BY <1>2 DEF ProbeFails, Probed, Truth, Stages, MaxInt, Estimate, ProbedMetrics
<1>3. ASSUME NEW m, NEW pods, GetMetrics(m, pods) PROVE Probed'
  BY <1>3, ProbedGet
<1>4. CASE WindowAnswered
  BY <1>4 DEF WindowAnswered, Probed, Truth, Stages, MaxInt, Estimate
<1>5. CASE WindowFails
  BY <1>5 DEF WindowFails, Probed, Truth, Stages, MaxInt, Estimate
<1>6. CASE UNCHANGED queryVars
  BY <1>6 DEF queryVars, Probed, Truth, Stages, MaxInt, Estimate
<1>7. QED
  BY <1>1, <1>2, <1>3, <1>4, <1>5, <1>6
     DEF QueriesNext, GetCpuMetricsForPod, GetCpuMetricsForPodOwnerPrefix, GetMemoryMetricsForPod,
         GetMemoryMetricsForPodOwnerPrefix, GetCpuThrottlingMetricsForPod,
         GetCpuThrottlingMetricsForPodOwnerPrefix

--------------------------------------------------------------------------------
(* What the windows are asked and what they bring.                           *)

\* The points of a series, none if it has no entry.
SeriesOf(res, p, c) == IF p \in DOMAIN res /\ c \in DOMAIN res[p] THEN res[p][c] ELSE << >>

IsSeries(points) == points \in Seq(Points) /\ InTime(points)

\* A result of some pods, whose entries are not empty.
IsResult(res, pods) ==
  /\ DOMAIN res \subseteq pods
  /\ \A p \in DOMAIN res : DOMAIN res[p] \subseteq Container
  /\ \A p \in pods, c \in Container :
       /\ IsSeries(SeriesOf(res, p, c))
       /\ p \in DOMAIN res /\ c \in DOMAIN res[p] => SeriesOf(res, p, c) # << >>

LEMMA NoPoints ==
  /\ << >> \in Seq(Points) /\ InTime(<< >>) /\ Times(<< >>) = {} /\ Len(<< >>) = 0
  /\ \A t : Copies(<< >>, t) = {} /\ Cardinality(Copies(<< >>, t)) = 0
<1>1. << >> \in Seq(Points) /\ Len(<< >>) = 0
  BY EmptySeq
<1>2. 1..0 = {}
  OBVIOUS
<1>3. InTime(<< >>) /\ Times(<< >>) = {} /\ \A t : Copies(<< >>, t) = {}
  BY <1>1, <1>2 DEF InTime, Times, Copies
<1>4. Cardinality({}) = 0
  BY FS_EmptySet
<1>5. QED
  BY <1>1, <1>3, <1>4

LEMMA EmptyResult ==
  ASSUME NEW pods
  PROVE  IsResult(NoResult, pods) /\ \A p, c : SeriesOf(NoResult, p, c) = << >>
<1>1. DOMAIN NoResult = {}
  BY DEF NoResult
<1>2. \A p, c : SeriesOf(NoResult, p, c) = << >>
  BY <1>1 DEF SeriesOf
<1>3. QED
  BY <1>1, <1>2, NoPoints DEF IsResult, IsSeries

\* The times at which a window has a point of a series.
SampledTimes(s, start, end) == {t \in Grid(start, end, Step) : HasPoint(request.metric, s, t, Step)}

\* The points of one window: those times, each once.
OncePerTime(points, T) ==
  /\ IsSeries(points) /\ Times(points) = T
  /\ \A t : Cardinality(Copies(points, t)) <= 1

LEMMA ParsedWindow ==
  ASSUME NEW start \in Int, NEW end \in Int, Step \in Nat \ {0}, NEW s
  PROVE  OncePerTime(ParsedPoints(s, start, end, Step), SampledTimes(s, start, end))
<1>1. PICK T, o, points : /\ T = SampledTimes(s, start, end) /\ o = InOrder([t \in T |-> t])
                          /\ points = [n \in DOMAIN o |-> Datapoint(o[n])]
  OBVIOUS
<1>2. T \subseteq Grid(start, end, Step)
  BY <1>1 DEF SampledTimes
<1>3. T \subseteq Int /\ IsFiniteSet(T)
  <2>1. IsFiniteSet(Grid(start, end, Step)) /\ Grid(start, end, Step) \subseteq start..end
    BY GridCovers
  <2>2. QED
    BY <1>2, <2>1, FS_Subset
<1>4. OncePerTime(points, T)
  BY <1>1, <1>3, ParsedIs DEF OncePerTime, IsSeries
<1>5. ParsedPoints(s, start, end, Step) = points
  BY Zenon, <1>1 DEF ParsedPoints, SampledTimes
<1>6. QED
  BY <1>1, <1>4, <1>5

LEMMA WindowIs ==
  ASSUME NEW start \in Int, NEW end \in Int, Step \in Nat \ {0}, NEW dim, dim = QueryRange(start, end, Step)
  PROVE  /\ IsResult(dim, request.pods)
         /\ \A p \in request.pods, c \in Container :
              OncePerTime(SeriesOf(dim, p, c), SampledTimes(<<p, c>>, start, end))
<1>1. PICK all : all = [s \in request.pods \X Container |-> ParsedPoints(s, start, end, Step)]
  OBVIOUS
<1>2. PICK pods : pods = {q \in request.pods : {c \in Container : ParsedPoints(<<q, c>>, start, end, Step) # << >>} # {}}
  OBVIOUS
<1>3. dim = [p \in pods |-> [c \in {c \in Container : ParsedPoints(<<p, c>>, start, end, Step) # << >>} |->
                               ParsedPoints(<<p, c>>, start, end, Step)]]
  BY Zenon, <1>2 DEF QueryRange
<1>4. DOMAIN dim = pods /\ pods \subseteq request.pods
  BY <1>2, <1>3
<1>5. ASSUME NEW p \in DOMAIN dim
      PROVE  /\ DOMAIN dim[p] = {c \in Container : ParsedPoints(<<p, c>>, start, end, Step) # << >>}
             /\ \A c \in DOMAIN dim[p] : dim[p][c] = ParsedPoints(<<p, c>>, start, end, Step)
  BY <1>3
<1>6. ASSUME NEW p \in request.pods, NEW c \in Container
      PROVE  SeriesOf(dim, p, c) = ParsedPoints(<<p, c>>, start, end, Step)
  <2>1. CASE p \in DOMAIN dim /\ c \in DOMAIN dim[p]
    BY <1>5, <2>1 DEF SeriesOf
  <2>2. CASE p \in DOMAIN dim /\ c \notin DOMAIN dim[p]
    BY <1>5, <2>2 DEF SeriesOf
  <2>3. CASE p \notin DOMAIN dim
    BY <1>2, <1>4, <2>3 DEF SeriesOf
  <2>4. QED
    BY <2>1, <2>2, <2>3
<1>7. \A p \in request.pods, c \in Container :
        OncePerTime(SeriesOf(dim, p, c), SampledTimes(<<p, c>>, start, end))
  BY <1>6, ParsedWindow
<1>8. \A p \in request.pods, c \in Container : IsSeries(SeriesOf(dim, p, c))
  BY <1>7 DEF OncePerTime
<1>9. \A p \in DOMAIN dim : DOMAIN dim[p] \subseteq Container
  BY <1>5
<1>10. ASSUME NEW p \in DOMAIN dim, NEW c \in DOMAIN dim[p] PROVE SeriesOf(dim, p, c) # << >>
  <2>1. c \in {x \in Container : ParsedPoints(<<p, x>>, start, end, Step) # << >>}
    BY <1>5
  <2>2. dim[p][c] = ParsedPoints(<<p, c>>, start, end, Step) /\ SeriesOf(dim, p, c) = dim[p][c]
    BY <1>5 DEF SeriesOf
  <2>3. QED
    BY <2>1, <2>2
<1>11. QED
  BY <1>4, <1>7, <1>8, <1>9, <1>10 DEF IsResult

\* Two results merged: every series has the points of both.
Joins(points, p1, p2) ==
  /\ IsSeries(points) /\ Times(points) = Times(p1) \cup Times(p2) /\ Len(points) = Len(p1) + Len(p2)
  /\ \A t : Cardinality(Copies(points, t)) = Cardinality(Copies(p1, t)) + Cardinality(Copies(p2, t))

LEMMA JoinsNothing ==
  ASSUME NEW points, IsSeries(points)
  PROVE  Joins(points, points, << >>) /\ Joins(points, << >>, points)
<1>1. Len(points) \in Nat /\ points \in Seq(Points)
  BY LenProperties DEF IsSeries
<1>2. \A t : Cardinality(Copies(points, t)) \in Nat
  BY <1>1, CopiesFinite
<1>3. QED
  BY <1>1, <1>2, NoPoints DEF Joins

LEMMA JoinsMerged ==
  ASSUME NEW p1, NEW p2, IsSeries(p1), IsSeries(p2)
  PROVE  Joins(MergePoints(p1, p2), p1, p2)
<1>1. PICK points : points = MergePoints(p1, p2)
  OBVIOUS
<1>2. p1 \in Seq(Points) /\ p2 \in Seq(Points)
  BY DEF IsSeries
<1>3. Joins(points, p1, p2)
  <2>1. points \in Seq(Points) /\ InTime(points) /\ Times(points) = Times(p1) \cup Times(p2)
        /\ Len(points) = Len(p1) + Len(p2)
    BY <1>1, <1>2, MergedIs
  <2>2. \A t : Cardinality(Copies(points, t)) = Cardinality(Copies(p1, t)) + Cardinality(Copies(p2, t))
    BY <1>1, <1>2, MergedIs
  <2>3. QED
    BY <2>1, <2>2 DEF Joins, IsSeries
<1>4. QED
  BY <1>1, <1>3

Union(m, c1, c2) ==
  /\ DOMAIN m = DOMAIN c1 \cup DOMAIN c2
  /\ \A c \in DOMAIN m : /\ c \notin DOMAIN c2 => m[c] = c1[c]
                         /\ c \notin DOMAIN c1 => m[c] = c2[c]
                         /\ c \in DOMAIN c1 /\ c \in DOMAIN c2 => m[c] = MergePoints(c1[c], c2[c])

LEMMA ContainersMerged == \A c1, c2 : Union(MergeContainers(c1, c2), c1, c2)
<1> SUFFICES ASSUME NEW c1, NEW c2, NEW m, m = MergeContainers(c1, c2) PROVE Union(m, c1, c2)
  OBVIOUS
<1>1. QED
  BY DEF MergeContainers, MergeMaps, Union

LEMMA MergedResult ==
  ASSUME NEW pods, NEW d1, NEW d2, IsResult(d1, pods), IsResult(d2, pods), NEW d, d = MergeDimensions(d1, d2)
  PROVE  /\ IsResult(d, pods)
         /\ \A p \in pods, c \in Container : Joins(SeriesOf(d, p, c), SeriesOf(d1, p, c), SeriesOf(d2, p, c))
<1>1. /\ DOMAIN d = DOMAIN d1 \cup DOMAIN d2
      /\ \A p \in DOMAIN d : d[p] = CASE p \notin DOMAIN d2 -> d1[p]
                                      [] p \notin DOMAIN d1 -> d2[p]
                                      [] OTHER -> MergeContainers(d1[p], d2[p])
  BY DEF MergeDimensions, MergeMaps
<1>2. ASSUME NEW p \in DOMAIN d PROVE /\ p \notin DOMAIN d2 => d[p] = d1[p]
                                      /\ p \notin DOMAIN d1 => d[p] = d2[p]
                                      /\ p \in DOMAIN d1 /\ p \in DOMAIN d2 => d[p] = MergeContainers(d1[p], d2[p])
  BY <1>1
<1>4. ASSUME NEW p \in DOMAIN d
      PROVE  /\ p \in DOMAIN d1 /\ p \in DOMAIN d2 => DOMAIN d[p] = DOMAIN d1[p] \cup DOMAIN d2[p]
             /\ p \notin DOMAIN d2 => DOMAIN d[p] = DOMAIN d1[p]
             /\ p \notin DOMAIN d1 => DOMAIN d[p] = DOMAIN d2[p]
  <2>1. CASE p \in DOMAIN d1 /\ p \in DOMAIN d2
    <3>1. Union(d[p], d1[p], d2[p])
      BY <1>2, <2>1, ContainersMerged
    <3>2. QED
      BY <2>1, <3>1 DEF Union
  <2>2. QED
    BY <1>2, <2>1
<1>5. /\ DOMAIN d \subseteq pods
      /\ \A p \in DOMAIN d : DOMAIN d[p] \subseteq Container
  BY <1>1, <1>4 DEF IsResult
<1>6. ASSUME NEW p \in pods, NEW c \in Container
      PROVE  Joins(SeriesOf(d, p, c), SeriesOf(d1, p, c), SeriesOf(d2, p, c))
  <2>1. PICK x, y, z : x = SeriesOf(d1, p, c) /\ y = SeriesOf(d2, p, c) /\ z = SeriesOf(d, p, c)
    OBVIOUS
  <2>2. IsSeries(x) /\ IsSeries(y)
    BY <2>1 DEF IsResult
  <2>7. CASE p \in DOMAIN d1 /\ p \in DOMAIN d2
    <3>1. p \in DOMAIN d /\ Union(d[p], d1[p], d2[p])
      BY <1>1, <1>2, <2>7, ContainersMerged
    <3>2. PICK e, e1, e2 : e = d[p] /\ e1 = d1[p] /\ e2 = d2[p]
      OBVIOUS
    <3>3. /\ x = IF c \in DOMAIN e1 THEN e1[c] ELSE << >>
          /\ y = IF c \in DOMAIN e2 THEN e2[c] ELSE << >>
          /\ z = IF c \in DOMAIN e THEN e[c] ELSE << >>
      BY <2>1, <2>7, <3>1, <3>2 DEF SeriesOf
    <3>4. /\ DOMAIN e = DOMAIN e1 \cup DOMAIN e2
          /\ c \in DOMAIN e => /\ c \notin DOMAIN e2 => e[c] = e1[c]
                               /\ c \notin DOMAIN e1 => e[c] = e2[c]
                               /\ c \in DOMAIN e1 /\ c \in DOMAIN e2 => e[c] = MergePoints(e1[c], e2[c])
      BY <3>1, <3>2 DEF Union
    <3>5. CASE c \notin DOMAIN e2
      <4>1. y = << >> /\ z = x
        BY <3>3, <3>4, <3>5
      <4>2. QED
        BY <2>1, <2>2, <4>1, JoinsNothing
    <3>6. CASE c \in DOMAIN e2 /\ c \notin DOMAIN e1
      <4>1. x = << >> /\ z = y
        BY <3>3, <3>4, <3>6
      <4>2. QED
        BY <2>1, <2>2, <4>1, JoinsNothing
    <3>7. CASE c \in DOMAIN e2 /\ c \in DOMAIN e1
      <4>1. z = MergePoints(x, y)
        BY <3>3, <3>4, <3>7
      <4>2. QED
        BY <2>1, <2>2, <4>1, JoinsMerged
    <3>8. QED
      BY <3>5, <3>6, <3>7
  <2>3. CASE p \notin DOMAIN d2
    <3>1. y = << >>
      BY <2>1, <2>3 DEF SeriesOf
    <3>2. p \in DOMAIN d <=> p \in DOMAIN d1
      BY <1>1, <2>3
    <3>3. p \in DOMAIN d => d[p] = d1[p]
      BY <1>2, <2>3
    <3>4. z = x
      BY <2>1, <3>2, <3>3 DEF SeriesOf
    <3>5. QED
      BY <2>1, <2>2, <3>1, <3>4, JoinsNothing
  <2>4. CASE p \notin DOMAIN d1
    <3>1. x = << >>
      BY <2>1, <2>4 DEF SeriesOf
    <3>2. p \in DOMAIN d <=> p \in DOMAIN d2
      BY <1>1, <2>4
    <3>3. p \in DOMAIN d => d[p] = d2[p]
      BY <1>2, <2>4
    <3>4. z = y
      BY <2>1, <3>2, <3>3 DEF SeriesOf
    <3>5. QED
      BY <2>1, <2>2, <3>1, <3>4, JoinsNothing
  <2>6. QED
    BY <2>3, <2>4, <2>7
<1>7. \A p \in pods, c \in Container : IsSeries(SeriesOf(d, p, c))
  BY <1>6 DEF Joins
<1>8. ASSUME NEW p \in DOMAIN d, NEW c \in DOMAIN d[p] PROVE SeriesOf(d, p, c) # << >>
  <2>1. PICK x, y, z : x = SeriesOf(d1, p, c) /\ y = SeriesOf(d2, p, c) /\ z = SeriesOf(d, p, c)
    OBVIOUS
  <2>2. p \in pods /\ c \in Container
    BY <1>5
  <2>3. IsSeries(x) /\ IsSeries(y) /\ Len(z) = Len(x) + Len(y)
    BY <1>6, <2>1, <2>2 DEF IsResult, Joins
  <2>4. x # << >> \/ y # << >>
    <3>1. (p \in DOMAIN d1 /\ c \in DOMAIN d1[p]) \/ (p \in DOMAIN d2 /\ c \in DOMAIN d2[p])
      BY <1>1, <1>4
    <3>2. QED
      BY <2>1, <2>2, <3>1 DEF IsResult
  <2>5. /\ Len(x) \in Nat /\ Len(y) \in Nat /\ (Len(x) = 0 => x = << >>) /\ (Len(y) = 0 => y = << >>)
    BY <2>3, EmptySeq, LenProperties DEF IsSeries
  <2>6. Len(z) # 0
    BY <2>3, <2>4, <2>5
  <2>7. QED
    BY <2>1, <2>6, NoPoints
<1>9. QED
  BY <1>5, <1>6, <1>7, <1>8 DEF IsResult

--------------------------------------------------------------------------------
(* The inductive invariant: what is merged so far is right up to the border    *)
(* that has been reached.                                                    *)

Running == {"query", "done"}

Asked ==
  /\ request.pods \subseteq Pod /\ rangeStart \in Nat
  /\ request.from \in Nat /\ request.to \in Nat /\ request.from <= request.to
  /\ phase \in Running => /\ request.from <= rangeStart /\ rangeStart <= request.to
                          /\ rangeStart = request.to \/ (rangeStart - request.from) % Day = 0
  /\ phase = "query" => rangeStart < request.to \/ rangeStart = request.from
  /\ phase = "done" => rangeStart = request.to
  /\ IsResult(result, request.pods)
  /\ phase \notin Running \/ (phase = "query" /\ rangeStart = request.from) => result = NoResult

\* A window has been answered.
Answered == phase = "done" \/ (phase = "query" /\ rangeStart > request.from)

\* No point outside, and two at a time only at the borders passed.
Bounded(points, from, end) ==
  /\ Times(points) \subseteq from..end
  /\ \A t \in from..end :
       Cardinality(Copies(points, t)) <= IF from < t /\ t < end /\ (t - from) % Day = 0 THEN 2 ELSE 1

AllBounded == \A p \in request.pods, c \in Container : Bounded(SeriesOf(result, p, c), request.from, rangeStart)

LivingWhole ==
  \A p \in request.pods, c \in Container :
    AliveThroughout(<<p, c>>) => Whole(Times(SeriesOf(result, p, c)), request.from, rangeStart, Step)

QueriesInv ==
  /\ Probed /\ Asked
  /\ phase \in Running => AllBounded
  /\ Answered => LivingWhole

\* Before the first getter there is no result.
LEMMA QueriesStart == QueriesInit => QueriesInv
<1> SUFFICES ASSUME QueriesInit PROVE QueriesInv
  OBVIOUS
<1>1. /\ phase = "probe" /\ rangeStart = 0 /\ result = NoResult
      /\ request = [metric |-> "none", pods |-> {}, days |-> 0, from |-> 0, to |-> 0]
  BY DEF QueriesInit
<1>2. Probed
  BY ProbedInit
<1>3. IsResult(result, request.pods)
  BY <1>1, EmptyResult
<1>4. Asked
  BY <1>1, <1>3 DEF Asked, Running
<1>5. QED
  BY <1>1, <1>2, <1>4 DEF QueriesInv, Running, Answered

\* The period keeps its order when its ends are cut down to a step.
LEMMA TruncateIs ==
  ASSUME Step \in Nat \ {0}, NEW t \in Nat, NEW u \in Nat, t <= u
  PROVE  Truncate(t) \in Nat /\ Truncate(u) \in Nat /\ Truncate(t) <= Truncate(u)
         /\ Truncate(t) <= t /\ t - Truncate(t) < Step
<1>1. PICK s, a, b, j, k : /\ s = Step /\ a = t \div s /\ j = t % s /\ b = u \div s /\ k = u % s
  OBVIOUS
<1>2. a \in Int /\ j \in Int /\ 0 <= j /\ j < s /\ t = s * a + j /\ s \in Nat \ {0}
  BY <1>1, DivMod
<1>3. b \in Int /\ k \in Int /\ 0 <= k /\ k < s /\ u = s * b + k
  BY <1>1, DivMod
<1>4. s * a \in Int /\ s * b \in Int /\ s * 0 = 0
  BY <1>2, <1>3, Multiples
<1>5. a >= 0 /\ b >= 0 /\ a <= b
  <2>1. s * a + s > 0 /\ s * b + s > 0 /\ s * a < s * b + s
    BY <1>2, <1>3, <1>4
  <2>2. a < 0 => s * a + s <= 0
    BY <1>2, <1>4, Multiples
  <2>3. b < 0 => s * b + s <= 0
    BY <1>2, <1>3, <1>4, Multiples
  <2>4. b < a => s * b + s <= s * a
    BY <1>2, <1>3, <1>4, Multiples
  <2>5. QED
    BY <1>2, <1>3, <1>4, <2>1, <2>2, <2>3, <2>4
<1>6. 0 <= s * a /\ 0 <= s * b /\ s * a <= s * b
  BY <1>2, <1>3, <1>4, <1>5, Multiples
<1>7. Truncate(t) = s * a /\ Truncate(u) = s * b
  BY <1>1, <1>2, <1>3, <1>4 DEF Truncate
<1>8. QED
  BY <1>1, <1>2, <1>4, <1>6, <1>7

\* A getter begins.
LEMMA GetStep ==
  ASSUME QueriesInv, NEW m, NEW pods, pods \subseteq Pod, GetMetrics(m, pods)
  PROVE  QueriesInv'
<1>1. Probed'
  BY ProbedGet DEF QueriesInv
<1>2. PICK days \in ObservabilityDays, now \in Nows, later \in Nows :
        /\ now <= later
        /\ request' = [metric |-> m, pods |-> pods, days |-> days,
                       from |-> Truncate(now - days * Day), to |-> Truncate(later)]
        /\ rangeStart' = Truncate(now - days * Day)
  BY DEF GetMetrics
<1>3. phase' = "query" /\ result' = NoResult
  BY DEF GetMetrics
<1>4. Step \in Nat \ {0}
  BY StepIs DEF QueriesInv
<1>5. PICK first, f, t : first = now - days * Day /\ f = Truncate(first) /\ t = Truncate(later)
  OBVIOUS
<1>6. now - days * Day \in Nat /\ now - days * Day <= later /\ later \in Nat
  <2>1. now \in Nat /\ later \in Nat /\ days \in Nat \ {0} /\ days * Day <= now /\ Day \in Nat \ {0}
    BY PrometheusAssumption
  <2>2. days * Day \in Nat
    BY <2>1
  <2>3. QED
    BY <1>2, <2>1, <2>2
<1>7. f \in Nat /\ t \in Nat /\ f <= t
  BY <1>4, <1>5, <1>6, TruncateIs
<1>8. request'.pods = pods /\ request'.from = f /\ request'.to = t /\ rangeStart' = f
  BY <1>2, <1>5
<1>9. IsResult(result', request'.pods) /\ \A p, c : SeriesOf(result', p, c) = << >>
  BY <1>3, EmptyResult
<1>10. (f - f) % Day = 0
  <2>1. Day \in Nat \ {0} /\ 0 = Day * 0 + 0 /\ f - f = 0
    BY <1>7, Constants
  <2>2. QED
    BY <2>1, Quotient
<1>11. Asked'
  BY <1>3, <1>7, <1>8, <1>9, <1>10 DEF Asked
<1>12. Bounded(<< >>, f, f)
  BY NoPoints DEF Bounded
<1>13. AllBounded'
  BY <1>8, <1>9, <1>12 DEF AllBounded
<1>14. ~Answered'
  BY <1>3, <1>7, <1>8 DEF Answered
<1>15. QED
  BY <1>1, <1>11, <1>13, <1>14 DEF QueriesInv

\* A window brings a point of every step to a series that lives throughout.
LEMMA WindowWhole ==
  ASSUME Probed, Asked, NEW start \in Nat, NEW end \in Nat, request.from <= start, start <= end, end <= request.to,
         NEW p \in request.pods, NEW c \in Container, AliveThroughout(<<p, c>>)
  PROVE  Whole(SampledTimes(<<p, c>>, start, end), start, end, Step)
<1>1. PICK s : s = <<p, c>>
  OBVIOUS
<1>2. Step \in Nat \ {0} /\ scrape \in Nat \ {0} /\ Lookback \in Nat \ {0}
  BY StepIs, Constants
<1>9. PICK step, back : step = Step /\ back = Lookback
  OBVIOUS
<1>3. life[s] \in Nat \X Nat
  <2>1. s \in Series
    BY <1>1 DEF Series, Asked
  <2>2. QED
    BY <2>1, PrometheusAssumption DEF Probed
<1>4. /\ life[s][1] <= request.from - Step - Lookback /\ request.to <= life[s][2]
      /\ Step >= 2 * scrape /\ Lookback >= scrape /\ request.from \in Nat /\ request.to \in Nat
  BY <1>1 DEF AliveThroughout, Asked
<1>5. ASSUME NEW t \in start..end PROVE HasPoint(request.metric, s, t, Step)
  <2>1. t \in Int /\ life[s] \in Int \X Int /\ life[s][1] \in Int /\ life[s][2] \in Int
    BY <1>3
  <2>2. life[s][1] <= t - Step /\ life[s][1] <= t - Lookback /\ t <= life[s][2]
    BY <1>2, <1>4, <2>1
  <2>3. Samples(s, t - step + 1, t) >= 2
    <3>1. PICK m \in Nat : m = 2
      OBVIOUS
    <3>2. step \in Nat /\ m > 0 /\ step >= m * scrape /\ life[s][1] <= t - step
      BY <1>2, <1>4, <1>9, <2>2, <3>1
    <3>3. Samples(s, t - step + 1, t) >= m
      BY <1>2, <2>1, <2>2, <3>1, <3>2, SamplesOfAlive
    <3>4. QED
      BY <3>1, <3>3
  <2>5. Samples(s, t - back + 1, t) >= 1
    <3>1. PICK m \in Nat : m = 1
      OBVIOUS
    <3>2. back \in Nat /\ m > 0 /\ back >= m * scrape /\ life[s][1] <= t - back
      BY <1>2, <1>4, <1>9, <2>2, <3>1
    <3>3. Samples(s, t - back + 1, t) >= m
      BY <1>2, <2>1, <2>2, <3>1, <3>2, SamplesOfAlive
    <3>4. QED
      BY <3>1, <3>3
  <2>6. QED
    BY <1>9, <2>3, <2>5 DEF HasPoint
<1>6. Grid(start, end, step) \subseteq SampledTimes(s, start, end)
  <2>1. Grid(start, end, step) \subseteq start..end
    BY <1>2, <1>9, GridCovers
  <2>2. QED
    BY <1>5, <1>9, <2>1 DEF SampledTimes
<1>7. Whole(Grid(start, end, step), start, end, step)
  BY <1>2, <1>9, GridCovers
<1>8. QED
  BY <1>1, <1>6, <1>7, <1>9 DEF Whole

\* A time without a point has no copies.
LEMMA NoCopies ==
  ASSUME NEW points \in Seq(Points), NEW t, t \notin Times(points)
  PROVE  Cardinality(Copies(points, t)) = 0
<1>1. Copies(points, t) = {}
  BY DEF Copies, Times
<1>2. QED
  BY <1>1, FS_EmptySet

\* The next border is no earlier, and later but for an empty period.
LEMMA BorderIs ==
  ASSUME Asked, phase = "query", NEW a, NEW b, a = rangeStart, b = RangeEndStep
  PROVE  /\ a \in Nat /\ b \in Nat /\ request.from <= a /\ a <= b /\ b <= request.to
         /\ a < b \/ (a = request.from /\ b = request.to)
         /\ b = request.to \/ (b - request.from) % Day = 0
         /\ a = request.from \/ (request.from < a /\ a < b /\ (a - request.from) % Day = 0)
<1>1. PICK f, t, d : f = request.from /\ t = request.to /\ d = Day
  OBVIOUS
<1>2. /\ a \in Nat /\ f \in Nat /\ t \in Nat /\ f <= a /\ a <= t /\ d \in Nat \ {0}
      /\ a = t \/ (a - f) % d = 0
      /\ a < t \/ a = f
  BY <1>1, Constants DEF Asked, Running
<1>3. b = IF t - f < d THEN t ELSE Min({a + d, t})
  BY <1>1 DEF RangeEndStep
<1>4. Min({a + d, t}) = IF a + d <= t THEN a + d ELSE t
  BY <1>2, Smaller
<1>5. b = t \/ (b = a + d /\ a + d <= t)
  BY <1>3, <1>4
<1>6. a < b \/ (a = f /\ b = t)
  BY <1>2, <1>5
<1>7. b = t \/ (b - f) % d = 0
  <2> SUFFICES ASSUME b # t PROVE (b - f) % d = 0
    OBVIOUS
  <2>1. b = a + d /\ (a - f) % d = 0
    BY <1>2, <1>5
  <2>2. PICK k : k = (a - f) \div d
    OBVIOUS
  <2>3. k \in Int /\ a - f = d * k + 0
    BY <1>2, <2>1, <2>2, DivMod
  <2>4. k + 1 \in Int /\ d * (k + 1) = d * k + d * 1 /\ d * k \in Int
    BY <1>2, <2>3, Multiples
  <2>5. b - f = d * (k + 1) + 0
    BY <1>2, <2>1, <2>3, <2>4
  <2>6. QED
    BY <1>2, <2>1, <2>4, <2>5, Quotient
<1>8. a = f \/ (f < a /\ a < b /\ (a - f) % d = 0)
  BY <1>2, <1>5, <1>6
<1>9. QED
  BY <1>1, <1>2, <1>5, <1>6, <1>7, <1>8

\* A window after a bounded series, both with their common border.
LEMMA BoundedJoins ==
  ASSUME NEW f \in Int, NEW a \in Int, NEW b \in Int, f <= a, a <= b,
         a = f \/ (f < a /\ a < b /\ (a - f) % Day = 0),
         NEW p1, NEW p2, NEW points, IsSeries(p1), IsSeries(p2), Joins(points, p1, p2),
         Bounded(p1, f, a), a = f => p1 = << >>,
         Times(p2) \subseteq a..b, \A t : Cardinality(Copies(p2, t)) <= 1
  PROVE  Bounded(points, f, b)
<1>1. p1 \in Seq(Points) /\ p2 \in Seq(Points)
  BY DEF IsSeries
<1>2. Times(points) \subseteq f..b
  BY DEF Joins, Bounded
<1>3. ASSUME NEW t \in f..b
      PROVE  Cardinality(Copies(points, t)) <= IF f < t /\ t < b /\ (t - f) % Day = 0 THEN 2 ELSE 1
  <2>1. PICK n1, n2 : n1 = Cardinality(Copies(p1, t)) /\ n2 = Cardinality(Copies(p2, t))
    OBVIOUS
  <2>2. n1 \in Nat /\ n2 \in Nat /\ n2 <= 1 /\ Cardinality(Copies(points, t)) = n1 + n2
    BY <1>1, <2>1, CopiesFinite DEF Joins
  <2>3. CASE t < a
    <3>1. t \notin Times(p2)
      BY <2>3
    <3>2. n2 = 0
      BY <1>1, <2>1, <3>1, NoCopies
    <3>3. n1 <= IF f < t /\ t < a /\ (t - f) % Day = 0 THEN 2 ELSE 1
      BY <2>1, <2>3 DEF Bounded
    <3>4. QED
      BY <2>2, <2>3, <3>2, <3>3
  <2>4. CASE t = a
    <3>1. n1 <= 1
      BY <2>1, <2>4 DEF Bounded
    <3>2. a = f => n1 = 0
      BY <2>1, NoPoints
    <3>3. QED
      BY <2>2, <2>4, <3>1, <3>2
  <2>5. CASE t > a
    <3>1. t \notin Times(p1)
      BY <2>5 DEF Bounded
    <3>2. n1 = 0
      BY <1>1, <2>1, <3>1, NoCopies
    <3>3. QED
      BY <2>2, <3>2
  <2>6. QED
    BY <2>3, <2>4, <2>5
<1>4. QED
  BY <1>2, <1>3 DEF Bounded

\* Two neighbours without a hole are one without a hole.
LEMMA WholeJoins ==
  ASSUME NEW f \in Int, NEW a \in Int, NEW b \in Int, f <= a, a <= b, NEW T1, NEW T2, NEW step,
         a = f \/ Whole(T1, f, a, step), Whole(T2, a, b, step)
  PROVE  Whole(T1 \cup T2, f, b, step)
<1>1. f \in T1 \cup T2
  BY DEF Whole
<1>2. ASSUME NEW x \in f..b PROVE \E t \in T1 \cup T2 : x - step < t /\ t <= x
  <2>1. CASE x \in a..b
    BY <2>1 DEF Whole
  <2>2. CASE x \notin a..b
    <3>1. x \in f..a /\ a # f
      BY <2>2
    <3>2. QED
      BY <3>1 DEF Whole
  <2>3. QED
    BY <2>1, <2>2
<1>3. QED
  BY <1>1, <1>2 DEF Whole

\* What one more window makes of the result.
LEMMA WindowBrings ==
  ASSUME QueriesInv, phase = "query", NEW a, NEW b, a = rangeStart, b = RangeEndStep,
         NEW dim, dim = QueryRange(a, b, Step), NEW res, res = MergeDimensions(result, dim)
  PROVE  /\ IsResult(res, request.pods)
         /\ \A p \in request.pods, c \in Container :
              /\ Bounded(SeriesOf(res, p, c), request.from, b)
              /\ AliveThroughout(<<p, c>>) => Whole(Times(SeriesOf(res, p, c)), request.from, b, Step)
<1>1. Probed /\ Asked /\ AllBounded /\ (Answered => LivingWhole)
  BY DEF QueriesInv, Running
<1>2. PICK f, t : f = request.from /\ t = request.to
  OBVIOUS
<1>3. /\ a \in Nat /\ b \in Nat /\ f \in Nat /\ f <= a /\ a <= b /\ b <= t
      /\ a = f \/ (f < a /\ a < b /\ (a - f) % Day = 0)
  <2>1. /\ a \in Nat /\ b \in Nat /\ request.from <= a /\ a <= b /\ b <= request.to
        /\ a = request.from \/ (request.from < a /\ a < b /\ (a - request.from) % Day = 0)
    BY <1>1, BorderIs
  <2>2. QED
    BY <1>1, <1>2, <2>1 DEF Asked
<1>4. Step \in Nat \ {0}
  BY <1>1, StepIs
<1>5. /\ IsResult(dim, request.pods)
      /\ \A p \in request.pods, c \in Container :
           OncePerTime(SeriesOf(dim, p, c), SampledTimes(<<p, c>>, a, b))
  BY <1>3, <1>4, WindowIs
<1>6. IsResult(result, request.pods)
  BY <1>1 DEF Asked
<1>7. /\ IsResult(res, request.pods)
      /\ \A p \in request.pods, c \in Container :
           Joins(SeriesOf(res, p, c), SeriesOf(result, p, c), SeriesOf(dim, p, c))
  BY <1>5, <1>6, MergedResult
<1>8. a = f => result = NoResult
  BY <1>1, <1>2 DEF Asked
<1>9. a # f => LivingWhole
  BY <1>1, <1>2, <1>3 DEF Answered
<1>10. ASSUME NEW p \in request.pods, NEW c \in Container
       PROVE  /\ Bounded(SeriesOf(res, p, c), f, b)
              /\ AliveThroughout(<<p, c>>) => Whole(Times(SeriesOf(res, p, c)), f, b, Step)
  <2>1. PICK x, y, z, T : /\ x = SeriesOf(result, p, c) /\ y = SeriesOf(dim, p, c) /\ z = SeriesOf(res, p, c)
                          /\ T = SampledTimes(<<p, c>>, a, b)
    OBVIOUS
  <2>2. IsSeries(x) /\ IsSeries(y) /\ Joins(z, x, y) /\ Times(y) = T /\ \A u : Cardinality(Copies(y, u)) <= 1
    BY <1>5, <1>6, <1>7, <2>1 DEF IsResult, OncePerTime
  <2>3. T \subseteq a..b
    <3>1. Grid(a, b, Step) \subseteq a..b
      BY <1>3, <1>4, GridCovers
    <3>2. QED
      BY <2>1, <3>1 DEF SampledTimes
  <2>4. a = f => x = << >>
    BY <1>8, <2>1, EmptyResult
  <2>5. Bounded(x, f, a)
    BY <1>1, <1>2, <2>1 DEF AllBounded
  <2>9. f \in Int /\ a \in Int /\ b \in Int /\ f <= a /\ a <= b
    BY <1>3
  <2>10. Times(y) \subseteq a..b
    BY <2>2, <2>3
  <2>6. Bounded(z, f, b)
    BY <1>3, <2>2, <2>4, <2>5, <2>9, <2>10, BoundedJoins
  <2>7. ASSUME AliveThroughout(<<p, c>>) PROVE Whole(Times(z), f, b, Step)
    <3>1. Whole(T, a, b, Step)
      BY <1>1, <1>2, <1>3, <2>1, <2>7, WindowWhole
    <3>2. a = f \/ Whole(Times(x), f, a, Step)
      BY <1>2, <1>9, <2>1, <2>7 DEF LivingWhole
    <3>3. Times(z) = Times(x) \cup T
      BY <2>2 DEF Joins
    <3>4. PICK step : step = Step
      OBVIOUS
    <3>5. Whole(Times(x) \cup T, f, b, step)
      BY <2>9, <3>1, <3>2, <3>4, WholeJoins
    <3>6. QED
      BY <3>3, <3>4, <3>5
  <2>8. QED
    BY <2>1, <2>6, <2>7
<1>11. QED
  BY <1>2, <1>7, <1>10

\* The invariant moves on to the next border.
LEMMA WindowStep ==
  ASSUME QueriesInv, WindowAnswered
  PROVE  QueriesInv'
<1>1. PICK a, b : a = rangeStart /\ b = RangeEndStep
  OBVIOUS
<1>2. PICK dim : dim = QueryRange(a, b, Step)
  OBVIOUS
<1>3. /\ phase = "query" /\ result' = MergeDimensions(result, dim) /\ rangeStart' = b
      /\ phase' = (IF b < request.to THEN "query" ELSE "done")
      /\ UNCHANGED <<Truth, probes, minV, scrapeInterval, request>>
  BY <1>1, <1>2 DEF WindowAnswered, WindowStart, NextRangeStart
<1>4. PICK res : res = MergeDimensions(result, dim)
  OBVIOUS
<1>5. /\ IsResult(res, request.pods)
      /\ \A p \in request.pods, c \in Container :
           /\ Bounded(SeriesOf(res, p, c), request.from, b)
           /\ AliveThroughout(<<p, c>>) => Whole(Times(SeriesOf(res, p, c)), request.from, b, Step)
  BY <1>1, <1>2, <1>3, <1>4, WindowBrings
<1>6. Probed' /\ Asked
  <2>1. QueriesNext
    BY DEF QueriesNext
  <2>2. QED
    BY <2>1, ProbedStep DEF QueriesInv
<1>7. /\ a \in Nat /\ b \in Nat /\ request.from <= a /\ a <= b /\ b <= request.to
      /\ a < b \/ (a = request.from /\ b = request.to)
      /\ b = request.to \/ (b - request.from) % Day = 0
  BY <1>1, <1>3, <1>6, BorderIs
<1>8. request' = request /\ result' = res /\ rangeStart' = b /\ phase' \in Running
      /\ request.from \in Nat /\ request.to \in Nat /\ request.from <= request.to /\ request.pods \subseteq Pod
  BY <1>3, <1>4, <1>6 DEF Asked, Running
<1>9. Asked'
  <2>1. IsResult(result', request'.pods)
    BY <1>5, <1>8
  <2>2. phase' = "query" => b < request.to /\ b # request.from
    BY <1>3, <1>7, <1>8
  <2>3. phase' = "done" => b = request.to
    BY <1>3, <1>7, <1>8
  <2>4. QED
    BY <1>7, <1>8, <2>1, <2>2, <2>3 DEF Asked
<1>10. AllBounded'
  BY <1>5, <1>8 DEF AllBounded
<1>11. Step' = Step /\ \A s : AliveThroughout(s)' = AliveThroughout(s)
  BY <1>3 DEF Step, AliveThroughout, Truth
<1>12. LivingWhole'
  BY <1>5, <1>8, <1>11 DEF LivingWhole
<1>13. QED
  BY <1>6, <1>9, <1>10, <1>12 DEF QueriesInv

\* What has been merged stays right from window to window.
LEMMA QueriesStep == QueriesInv /\ [QueriesNext]_queryVars => QueriesInv'
<1> SUFFICES ASSUME QueriesInv, [QueriesNext]_queryVars PROVE QueriesInv'
  OBVIOUS
<1>1. Probed' /\ Asked
  BY ProbedStep DEF QueriesInv
<1>2. CASE ProbeAnswered
  <2>1. phase = "probe" /\ phase' \in {"probe", "ready"} /\ UNCHANGED <<request, rangeStart, result>>
    BY <1>2 DEF ProbeAnswered
  <2>2. Asked'
    BY <1>1, <2>1 DEF Asked, Running
  <2>3. QED
    BY <1>1, <2>1, <2>2 DEF QueriesInv, Running, Answered
<1>3. CASE ProbeFails
  <2>1. phase = "probe" /\ phase' = "ready" /\ UNCHANGED <<request, rangeStart, result>>
    BY <1>3 DEF ProbeFails
  <2>2. Asked'
    BY <1>1, <2>1 DEF Asked, Running
  <2>3. QED
    BY <1>1, <2>1, <2>2 DEF QueriesInv, Running, Answered
<1>4. ASSUME NEW m, NEW pods \in SUBSET Pod, GetMetrics(m, pods) PROVE QueriesInv'
  BY <1>4, GetStep
<1>5. CASE WindowAnswered
  BY <1>5, WindowStep
<1>6. CASE WindowFails
  <2>1. phase' = "failed" /\ result' = NoResult /\ UNCHANGED <<request, rangeStart>>
    BY <1>6 DEF WindowFails
  <2>2. IsResult(result', request'.pods)
    BY <2>1, EmptyResult
  <2>3. Asked'
    BY <1>1, <2>1, <2>2 DEF Asked, Running
  <2>4. QED
    BY <1>1, <2>1, <2>3 DEF QueriesInv, Running, Answered
<1>7. CASE UNCHANGED queryVars
  <2>1. UNCHANGED <<scrape, life, busy, scrapeInterval, phase, request, rangeStart, result>>
    BY <1>7 DEF queryVars
  <2>2. Asked'
    BY <1>1, <2>1 DEF Asked
  <2>3. AllBounded' = AllBounded /\ Answered' = Answered
    BY <2>1 DEF AllBounded, Answered
  <2>4. Step' = Step /\ \A s : AliveThroughout(s)' = AliveThroughout(s)
    BY <2>1 DEF Step, AliveThroughout
  <2>5. LivingWhole' = LivingWhole
    BY <2>1, <2>4 DEF LivingWhole
  <2>6. QED
    BY <1>1, <2>1, <2>2, <2>3, <2>5 DEF QueriesInv
<1>8. \A p \in Pod : {p} \in SUBSET Pod /\ Pod \in SUBSET Pod
  OBVIOUS
<1>9. QED
  BY <1>2, <1>3, <1>4, <1>5, <1>6, <1>7, <1>8
     DEF QueriesNext, GetCpuMetricsForPod, GetCpuMetricsForPodOwnerPrefix, GetMemoryMetricsForPod,
         GetMemoryMetricsForPodOwnerPrefix, GetCpuThrottlingMetricsForPod,
         GetCpuThrottlingMetricsForPodOwnerPrefix

--------------------------------------------------------------------------------
(* The properties.                                                           *)

\* A series without a hole, point by point.
LEMMA WholeSeries ==
  ASSUME NEW points, IsSeries(points), NEW f \in Int, NEW e \in Int, f <= e, NEW step \in Nat \ {0},
         Whole(Times(points), f, e, step), Times(points) \subseteq f..e
  PROVE  /\ points # << >> /\ points[1].at = f
         /\ \A i \in 1..Len(points) - 1 : points[i + 1].at - points[i].at \in 0..step
         /\ e - points[Len(points)].at \in 0..step - 1
<1>1. PICK L : L = Len(points)
  OBVIOUS
<1>2. L \in Nat /\ InTime(points)
  BY <1>1, LenProperties DEF IsSeries
<1>3. \A i \in 1..L : points[i].at \in f..e
  BY <1>1 DEF Times
<1>4. \A i, j \in 1..L : i <= j => points[i].at <= points[j].at
  <2>1. \A i, j \in 1..L : i < j => points[i].at <= points[j].at
    BY <1>1, <1>2 DEF InTime
  <2>2. QED
    BY <1>2, <1>3, <2>1
<1>5. PICK k \in 1..L : points[k].at = f
  BY <1>1 DEF Whole, Times
<1>6. L >= 1 /\ points[1].at = f
  <2>1. 1 \in 1..L /\ 1 <= k
    BY <1>2
  <2>2. points[1].at <= f /\ points[1].at \in f..e
    BY <1>3, <1>4, <1>5, <2>1
  <2>3. QED
    BY <1>2, <2>1, <2>2
<1>7. \A x \in f..e : \E j \in 1..L : x - step < points[j].at /\ points[j].at <= x
  BY <1>1 DEF Whole, Times
<1>8. ASSUME NEW i \in 1..L - 1 PROVE points[i + 1].at - points[i].at \in 0..step
  <2>1. i \in 1..L /\ i + 1 \in 1..L /\ i <= i + 1
    BY <1>2
  <2>2. PICK u, v : u = points[i].at /\ v = points[i + 1].at
    OBVIOUS
  <2>3. u \in f..e /\ v \in f..e /\ u <= v
    BY <1>3, <1>4, <2>1, <2>2
  <2>4. SUFFICES ASSUME v - u > step PROVE FALSE
    BY <2>2, <2>3
  <2>5. v - 1 \in f..e
    BY <2>3, <2>4
  <2>6. PICK j \in 1..L : v - 1 - step < points[j].at /\ points[j].at <= v - 1
    BY <1>7, <2>5
  <2>7. points[j].at \in Int /\ points[j].at > u /\ points[j].at < v
    BY <1>3, <2>3, <2>4, <2>6
  <2>8. j <= i \/ i + 1 <= j
    BY <1>2
  <2>9. QED
    BY <1>4, <2>1, <2>2, <2>3, <2>7, <2>8
<1>9. e - points[L].at \in 0..step - 1
  <2>1. PICK j \in 1..L : e - step < points[j].at /\ points[j].at <= e
    BY <1>7
  <2>2. L \in 1..L /\ j <= L
    BY <1>2, <1>6
  <2>3. points[j].at <= points[L].at /\ points[L].at \in f..e /\ points[j].at \in f..e
    BY <1>3, <1>4, <2>2
  <2>4. QED
    BY <2>1, <2>3
<1>10. points # << >>
  BY <1>1, <1>6, NoPoints
<1>11. QED
  BY <1>1, <1>6, <1>8, <1>9, <1>10

\* The types of the properties, out of the invariant's.
LEMMA InvTyped == QueriesInv => QueriesTypeOK /\ StepSpansTwoScrapes
<1> SUFFICES ASSUME QueriesInv PROVE QueriesTypeOK /\ StepSpansTwoScrapes
  OBVIOUS
<1>1. Probed /\ Asked
  BY DEF QueriesInv
<1>2. scrapeInterval \in 1..Day /\ StepSpansTwoScrapes /\ minV \in Counts \cup {MaxInt}
  BY <1>1, StepIs
<1>3. scrape \in Scrapes /\ life \in [Series -> Lifetimes] /\ busy \in BusyTimes
      /\ probes \in 0..ProbedMetrics /\ phase \in {"probe", "ready", "query", "done", "failed"}
  BY <1>1 DEF Probed, Stages
<1>4. /\ request.pods \subseteq Pod /\ rangeStart \in Nat /\ DOMAIN result \subseteq request.pods
      /\ \A p \in DOMAIN result : DOMAIN result[p] \subseteq Container
  BY <1>1 DEF Asked, IsResult
<1>5. QED
  BY <1>2, <1>3, <1>4 DEF QueriesTypeOK

\* At the last border the whole period is merged.
LEMMA InvSampled == QueriesInv => SampledThroughout
<1> SUFFICES ASSUME QueriesInv PROVE SampledThroughout
  OBVIOUS
<1>1. QueriesTypeOK /\ StepSpansTwoScrapes
  BY InvTyped
<1>2. ASSUME Merged, NEW s \in Series, AliveThroughout(s)
      PROVE  /\ s[1] \in DOMAIN result /\ s[2] \in DOMAIN result[s[1]]
             /\ result[s[1]][s[2]][1].at = request.from
             /\ \A i \in 1..Len(result[s[1]][s[2]]) - 1 :
                  result[s[1]][s[2]][i + 1].at - result[s[1]][s[2]][i].at \in 0..Step
             /\ request.to - result[s[1]][s[2]][Len(result[s[1]][s[2]])].at \in 0..Step - 1
  <2>1. PICK p, c : p = s[1] /\ c = s[2]
    OBVIOUS
  <2>2. s = <<p, c>> /\ c \in Container /\ p \in request.pods
    BY <1>2, <2>1 DEF Series, AliveThroughout
  <2>3. phase = "done"
    BY <1>2 DEF Merged
  <2>4. PICK points, f, e, step : points = SeriesOf(result, p, c) /\ f = request.from /\ e = request.to /\ step = Step
    OBVIOUS
  <2>5. Asked /\ AllBounded /\ LivingWhole /\ Probed
    BY <2>3 DEF QueriesInv, Running, Answered
  <2>6. f \in Int /\ e \in Int /\ f <= e /\ rangeStart = e /\ IsSeries(points)
    BY <2>2, <2>3, <2>4, <2>5 DEF Asked, IsResult
  <2>7. Whole(Times(points), f, e, step)
    BY <1>2, <2>2, <2>4, <2>5, <2>6 DEF LivingWhole
  <2>8. Times(points) \subseteq f..e
    BY <2>2, <2>4, <2>5, <2>6 DEF AllBounded, Bounded
  <2>9. step \in Nat \ {0}
    BY <2>4, <2>5, StepIs
  <2>10. /\ points # << >> /\ points[1].at = f
         /\ \A i \in 1..Len(points) - 1 : points[i + 1].at - points[i].at \in 0..step
         /\ e - points[Len(points)].at \in 0..step - 1
    BY <2>6, <2>7, <2>8, <2>9, WholeSeries
  <2>11. p \in DOMAIN result /\ c \in DOMAIN result[p] /\ result[p][c] = points
    BY <2>4, <2>10 DEF SeriesOf
  <2>12. QED
    BY <2>1, <2>4, <2>10, <2>11
<1>3. QED
  BY <1>1, <1>2, Zenon DEF SampledThroughout

\* The borders passed are all the borders there are.
LEMMA InvBorders == QueriesInv => DuplicatesOnlyAtBorders
<1> SUFFICES ASSUME QueriesInv, Merged, NEW p \in DOMAIN result, NEW c \in DOMAIN result[p],
                    NEW points, points = result[p][c], NEW i \in DOMAIN points, NEW t, t = points[i].at
             PROVE  /\ t \in request.from..request.to
                    /\ Cardinality({j \in DOMAIN points : points[j].at = t})
                         <= IF t # request.from /\ t # request.to /\ (t - request.from) % Day = 0 THEN 2 ELSE 1
  BY DEF DuplicatesOnlyAtBorders
<1>1. phase = "done" /\ Asked /\ AllBounded
  BY DEF QueriesInv, Running, Merged
<1>2. p \in request.pods /\ c \in Container /\ points = SeriesOf(result, p, c)
  BY <1>1 DEF Asked, IsResult, SeriesOf
<1>3. Bounded(points, request.from, request.to) /\ IsSeries(points)
  BY <1>1, <1>2 DEF AllBounded, Asked, IsResult
<1>4. DOMAIN points = 1..Len(points)
  BY <1>3, LenProperties DEF IsSeries
<1>5. Copies(points, t) = {j \in DOMAIN points : points[j].at = t} /\ t \in Times(points)
  BY <1>4 DEF Copies, Times
<1>6. t \in request.from..request.to
  BY <1>3, <1>5 DEF Bounded
<1>7. Cardinality(Copies(points, t))
        <= IF request.from < t /\ t < request.to /\ (t - request.from) % Day = 0 THEN 2 ELSE 1
  BY <1>3, <1>6 DEF Bounded
<1>8. request.from \in Int /\ request.to \in Int
  BY <1>1 DEF Asked
<1>9. request.from < t <=> t # request.from
  BY <1>6, <1>8
<1>10. t < request.to <=> t # request.to
  BY <1>6, <1>8
<1>11. QED
  BY <1>5, <1>6, <1>7, <1>9, <1>10

\* Wherever the borders of its windows are, a getter returns the whole period of a
\* container that lived throughout, without a hole of more than a step (api.go:308).
THEOREM SampledAlways == QueriesSpec => []SampledThroughout
<1>1. QueriesSpec => []QueriesInv
  <2>1. QueriesInit => QueriesInv
    BY QueriesStart
  <2>2. QueriesInv /\ [QueriesNext]_queryVars => QueriesInv'
    BY QueriesStep
  <2>3. QED
    BY <2>1, <2>2, PTL DEF QueriesSpec
<1>2. QueriesInv => SampledThroughout
  BY InvSampled
<1>3. QED
  BY <1>1, <1>2, PTL

\* A getter returns nothing outside of the period it was asked for, and a time twice
\* only at the border of two windows (api.go:309).
THEOREM DuplicatesAlways == QueriesSpec => []DuplicatesOnlyAtBorders
<1>1. QueriesSpec => []QueriesInv
  <2>1. QueriesInit => QueriesInv
    BY QueriesStart
  <2>2. QueriesInv /\ [QueriesNext]_queryVars => QueriesInv'
    BY QueriesStep
  <2>3. QED
    BY <2>1, <2>2, PTL DEF QueriesSpec
<1>2. QueriesInv => DuplicatesOnlyAtBorders
  BY InvBorders
<1>3. QED
  BY <1>1, <1>2, PTL

--------------------------------------------------------------------------------
(* The average over the period.                                              *)

\* The sum of the same number over and over.
LEMMA ConstantTotal ==
  ASSUME NEW S, IsFiniteSet(S), NEW k \in Int, NEW f \in [S -> Int], \A x \in S : f[x] = k
  PROVE  Total(f) = k * Cardinality(S)
<1>1. PICK g : g = [s \in SUBSET S |-> k * Cardinality(s)]
  OBVIOUS
<1>2. \A s \in SUBSET S : IsFiniteSet(s) /\ Cardinality(s) \in Nat
  BY FS_Subset, FS_CardinalityType
<1>3. g \in [SUBSET S -> Int] /\ g[{}] = 0
  <2>1. \A s \in SUBSET S : k * Cardinality(s) \in Int
    BY <1>2
  <2>2. Cardinality({}) = 0 /\ k * 0 = 0
    BY FS_EmptySet
  <2>3. QED
    BY <1>1, <2>1, <2>2
<1>4. ASSUME NEW s \in SUBSET S, NEW x \in s PROVE g[s] = f[x] + g[s \ {x}]
  <2>1. PICK m, n : m = Cardinality(s) /\ n = Cardinality(s \ {x})
    OBVIOUS
  <2>2. n = m - 1 /\ m \in Nat
    BY <1>2, <2>1, FS_RemoveElement
  <2>3. s \ {x} \in SUBSET S /\ x \in S
    OBVIOUS
  <2>4. g[s] = k * m /\ g[s \ {x}] = k * n /\ f[x] = k
    BY <1>1, <2>1, <2>3
  <2>5. k * m = k + k * (m - 1)
    BY <2>2
  <2>6. QED
    BY <2>2, <2>4, <2>5
<1>5. IsTotal(g, f, S)
  BY <1>3, <1>4 DEF IsTotal
<1>6. Total(f) = g[S]
  BY <1>5, TotalIs
<1>7. QED
  BY <1>1, <1>6

\* Smaller numbers add up to no more.
LEMMA SmallerTotal ==
  ASSUME NEW S, IsFiniteSet(S), NEW f \in [S -> Int], NEW h \in [S -> Nat], \A x \in S : f[x] <= h[x]
  PROVE  Total(f) <= Total(h)
<1>1. PICK u : u = [x \in S |-> x]
  OBVIOUS
<1>2. u \in Injection(S, S) /\ \A x \in S : f[x] <= h[u[x]]
  BY <1>1 DEF Injection, IsInjective
<1>3. QED
  BY <1>2, InjectedTotal

LEMMA SumIsTotal == \A values : SumOfValues(values) = Total(values)
BY DEF SumOfValues, Total

\* The values of n points add up to something between n troughs and n peaks.
LEMMA ValuesBetween ==
  ASSUME NEW points \in Seq(Points), NEW sum, sum = SumOfValues([i \in DOMAIN points |-> points[i].value])
  PROVE  sum \in Int /\ Trough * Len(points) <= sum /\ sum <= Peak * Len(points)
<1>1. PICK S, f, low, high : /\ S = 1..Len(points) /\ f = [i \in S |-> points[i].value]
                             /\ low = [i \in S |-> Trough] /\ high = [i \in S |-> Peak]
  OBVIOUS
<1>2. Len(points) \in Nat /\ DOMAIN points = S
  BY <1>1, LenProperties
<1>3. IsFiniteSet(S) /\ Cardinality(S) = Len(points)
  <2>1. PICK n : n = Len(points)
    OBVIOUS
  <2>2. n \in Nat /\ S = 1..n
    BY <1>1, <1>2, <2>1
  <2>3. IsFiniteSet(1..n) /\ Cardinality(1..n) = n
    BY <2>2, FS_Interval
  <2>4. QED
    BY <2>1, <2>2, <2>3
<1>4. ASSUME NEW i \in S PROVE points[i].value \in {Trough, Peak}
  <2>1. points[i] \in Points
    BY <1>1, ElementOfSeq
  <2>2. QED
    BY <2>1 DEF Points
<1>5. f \in [S -> Nat] /\ f \in [S -> Int] /\ low \in [S -> Nat] /\ low \in [S -> Int] /\ high \in [S -> Nat]
      /\ high \in [S -> Int]
  <2>1. \A i \in S : points[i].value \in Nat /\ points[i].value \in Int
    BY <1>4 DEF Trough, Peak
  <2>2. Trough \in Nat /\ Trough \in Int /\ Peak \in Nat /\ Peak \in Int
    BY DEF Trough, Peak
  <2>3. f \in [S -> Nat] /\ f \in [S -> Int]
    BY <1>1, <2>1
  <2>4. low \in [S -> Nat] /\ low \in [S -> Int] /\ high \in [S -> Nat] /\ high \in [S -> Int]
    BY <1>1, <2>2
  <2>5. QED
    BY <2>3, <2>4
<1>6. \A i \in S : low[i] <= f[i] /\ f[i] <= high[i]
  BY <1>1, <1>4 DEF Trough, Peak
<1>7. Total(low) <= Total(f) /\ Total(f) <= Total(high)
  BY <1>3, <1>5, <1>6, SmallerTotal
<1>8. Total(low) = Trough * Len(points)
  <2>1. \A i \in S : low[i] = Trough
    BY <1>1
  <2>2. Trough \in Int
    BY DEF Trough
  <2>3. QED
    BY <1>3, <1>5, <2>1, <2>2, ConstantTotal
<1>9. Total(high) = Peak * Len(points)
  <2>1. \A i \in S : high[i] = Peak
    BY <1>1
  <2>2. Peak \in Int
    BY DEF Peak
  <2>3. QED
    BY <1>3, <1>5, <2>1, <2>2, ConstantTotal
<1>10. sum = Total(f)
  BY <1>1, <1>2, SumIsTotal
<1>11. Total(f) \in Int
  BY <1>3, <1>5, TotalType
<1>12. QED
  BY <1>7, <1>8, <1>9, <1>10, <1>11

LEMMA RangeCount ==
  ASSUME NEW a \in Int, NEW b \in Int, a <= b
  PROVE  IsFiniteSet(a..b) /\ Cardinality(a..b) = b - a + 1
BY FS_Interval

\* The places within a distance.
Offsets(d) == {j \in Nat : j < d}

LEMMA OffsetsCount ==
  ASSUME NEW d \in Nat \ {0}
  PROVE  IsFiniteSet(Offsets(d)) /\ Cardinality(Offsets(d)) = d
<1>1. PICK l : l = d - 1
  OBVIOUS
<1>2. l \in Int /\ 0 <= l /\ Offsets(d) = 0..l
  BY <1>1 DEF Offsets
<1>3. 0 \in Int /\ IsFiniteSet(0..l) /\ Cardinality(0..l) = l - 0 + 1
  BY <1>2, RangeCount
<1>4. QED
  BY <1>1, <1>2, <1>3

\* Times that are d apart from each other.
Apart(T, d) == \A t, u \in T : t < u => u - t >= d

\* In a range there are no more than fit in.
LEMMA ApartFit ==
  ASSUME NEW f \in Int, NEW e \in Int, f <= e, NEW T, T \subseteq f..e, NEW d \in Nat \ {0}, Apart(T, d)
  PROVE  IsFiniteSet(T) /\ Cardinality(T) * d <= e - f + d
<1>1. PICK g : g = e + d - 1
  OBVIOUS
<1>2. g \in Int /\ f <= g /\ g - f + 1 = e - f + d
  BY <1>1
<1>3. /\ IsFiniteSet(T) /\ IsFiniteSet(Offsets(d)) /\ Cardinality(Offsets(d)) = d
      /\ IsFiniteSet(f..g) /\ Cardinality(f..g) = g - f + 1
  <2>1. IsFiniteSet(f..e)
    BY RangeCount
  <2>2. IsFiniteSet(f..g) /\ Cardinality(f..g) = g - f + 1
    BY <1>2, RangeCount
  <2>3. IsFiniteSet(T)
    BY <2>1, FS_Subset
  <2>4. QED
    BY <2>2, <2>3, OffsetsCount
<1>4. PICK S : S = T \X Offsets(d)
  OBVIOUS
<1>5. PICK u : u = [x \in S |-> x[1] + x[2]]
  OBVIOUS
<1>6. ASSUME NEW x \in S
      PROVE  x[1] \in T /\ x[1] \in f..e /\ x[2] \in Offsets(d) /\ u[x] \in f..g /\ u[x] = x[1] + x[2]
  <2>1. x[1] \in T /\ x[2] \in Offsets(d) /\ u[x] = x[1] + x[2]
    BY <1>4, <1>5
  <2>2. PICK a, b : a = x[1] /\ b = x[2]
    OBVIOUS
  <2>3. a \in f..e /\ b \in Nat /\ b < d
    BY <2>1, <2>2 DEF Offsets
  <2>4. a + b \in f..g
    BY <1>1, <2>3
  <2>5. QED
    BY <2>1, <2>2, <2>3, <2>4
<1>7. ASSUME NEW x \in S, NEW y \in S, u[x] = u[y] PROVE x = y
  <2>1. PICK a, b, i, j : a = x[1] /\ b = y[1] /\ i = x[2] /\ j = y[2]
    OBVIOUS
  <2>2. x = <<a, i>> /\ y = <<b, j>>
    BY <1>4, <2>1
  <2>3. a \in T /\ b \in T /\ a \in Int /\ b \in Int /\ i \in Nat /\ i < d /\ j \in Nat /\ j < d /\ a + i = b + j
    BY <1>6, <1>7, <2>1 DEF Offsets
  <2>4. (a < b => b - a >= d) /\ (b < a => a - b >= d)
    BY <2>3 DEF Apart
  <2>5. a = b /\ i = j
    BY <2>3, <2>4
  <2>6. QED
    BY <2>2, <2>5
<1>8. u \in Injection(S, f..g)
  <2>1. u \in [S -> f..g]
    BY <1>5, <1>6
  <2>2. QED
    BY <1>7, <2>1 DEF Injection, IsInjective
<1>9. Cardinality(S) <= Cardinality(f..g)
  BY <1>3, <1>8, FS_Injection
<1>10. Cardinality(S) = Cardinality(T) * Cardinality(Offsets(d))
  BY <1>3, <1>4, FS_Product
<1>11. QED
  BY <1>2, <1>3, <1>9, <1>10

\* A range without a hole needs as many as fill it.
LEMMA WholeFills ==
  ASSUME NEW f \in Int, NEW e \in Int, f <= e, NEW T, T \subseteq f..e, NEW step \in Nat \ {0}, Whole(T, f, e, step)
  PROVE  IsFiniteSet(T) /\ e - f + 1 <= Cardinality(T) * step
<1>1. /\ IsFiniteSet(T) /\ IsFiniteSet(Offsets(step)) /\ Cardinality(Offsets(step)) = step
      /\ Cardinality(f..e) = e - f + 1
  <2>1. IsFiniteSet(f..e) /\ Cardinality(f..e) = e - f + 1
    BY RangeCount
  <2>2. IsFiniteSet(T)
    BY <2>1, FS_Subset
  <2>3. QED
    BY <2>1, <2>2, OffsetsCount
<1>2. PICK S : S = T \X Offsets(step)
  OBVIOUS
<1>3. PICK w : w = [x \in f..e |-> CHOOSE t \in T : x - step < t /\ t <= x]
  OBVIOUS
<1>4. \A x \in f..e : w[x] \in T /\ x - step < w[x] /\ w[x] <= x
  BY <1>3 DEF Whole
<1>5. PICK u : u = [x \in f..e |-> <<w[x], x - w[x]>>]
  OBVIOUS
<1>6. ASSUME NEW x \in f..e PROVE u[x] \in S
  <2>1. PICK t : t = w[x]
    OBVIOUS
  <2>2. t \in T /\ t \in f..e /\ x - step < t /\ t <= x
    BY <1>4, <2>1
  <2>3. x - t \in Offsets(step)
    BY <2>2 DEF Offsets
  <2>4. QED
    BY <1>2, <1>5, <2>1, <2>2, <2>3
<1>7. ASSUME NEW x \in f..e, NEW y \in f..e, u[x] = u[y] PROVE x = y
  <2>1. PICK t, v : t = w[x] /\ v = w[y]
    OBVIOUS
  <2>2. t = v /\ x - t = y - v
    BY <1>5, <1>7, <2>1
  <2>3. t \in f..e
    BY <1>4, <2>1
  <2>4. QED
    BY <2>2, <2>3
<1>8. u \in Injection(f..e, S)
  <2>1. u \in [f..e -> S]
    BY <1>5, <1>6
  <2>2. QED
    BY <1>7, <2>1 DEF Injection, IsInjective
<1>9. IsFiniteSet(S) /\ Cardinality(S) = Cardinality(T) * Cardinality(Offsets(step))
  BY <1>1, <1>2, FS_Product
<1>10. Cardinality(f..e) <= Cardinality(S)
  BY <1>8, <1>9, FS_Injection
<1>11. QED
  BY <1>1, <1>9, <1>10

\* The smallest distance: between two neighbours, or an hour, and no two times are closer.
LEMMA MinDurationIs ==
  ASSUME NEW points, IsSeries(points), NEW f \in Int, NEW e \in Int, f <= e, Times(points) \subseteq f..e,
         NEW d, d = MinDuration(points)
  PROVE  /\ d \in Nat \ {0} /\ Apart(Times(points), d)
         /\ d = Hour \/ \E t, u \in Times(points) : t < u /\ d = u - t
<1>1. PICK L : L = Len(points)
  OBVIOUS
<1>2. L \in Nat /\ InTime(points) /\ Hour \in Nat \ {0}
  BY <1>1, LenProperties, Constants DEF IsSeries
<1>3. \A i \in 1..L : points[i].at \in f..e /\ points[i].at \in Times(points)
  BY <1>1 DEF Times
<1>4. \A i, j \in 1..L : i < j => points[i].at <= points[j].at
  BY <1>1, <1>2 DEF InTime
<1>5. PICK gaps, I, n : /\ gaps = {points[i + 1].at - points[i].at : i \in 1..L - 1}
                        /\ I = (gaps \ {0}) \cup {Hour} /\ n = Hour + (e - f)
  OBVIOUS
<1>6. d = Min(I)
  BY <1>1, <1>5 DEF MinDuration
<1>7. ASSUME NEW i \in 1..L - 1
      PROVE  /\ i \in 1..L /\ i + 1 \in 1..L /\ points[i].at \in f..e /\ points[i + 1].at \in f..e
             /\ points[i].at <= points[i + 1].at
  <2>1. i \in 1..L /\ i + 1 \in 1..L /\ i < i + 1
    BY <1>2
  <2>2. QED
    BY <1>3, <1>4, <2>1
<1>8. n \in Nat /\ I # {} /\ I \subseteq 1..n
  <2>1. n \in Nat /\ Hour \in 1..n
    BY <1>2, <1>5
  <2>2. ASSUME NEW x \in gaps \ {0} PROVE x \in 1..n
    <3>1. PICK i \in 1..L - 1 : x = points[i + 1].at - points[i].at
      BY <1>5, <2>2
    <3>2. PICK t, u : t = points[i].at /\ u = points[i + 1].at
      OBVIOUS
    <3>3. t \in f..e /\ u \in f..e /\ t <= u /\ x = u - t /\ x # 0
      BY <1>7, <2>2, <3>1, <3>2
    <3>4. QED
      BY <1>2, <1>5, <3>3
  <2>3. QED
    BY <1>5, <2>1, <2>2
<1>9. d \in I /\ \A x \in I : d <= x
  BY <1>6, <1>8, SmallestOf
<1>10. d \in Nat \ {0}
  BY <1>8, <1>9
<1>11. d = Hour \/ \E t, u \in Times(points) : t < u /\ d = u - t
  <2> SUFFICES ASSUME d # Hour PROVE \E t, u \in Times(points) : t < u /\ d = u - t
    OBVIOUS
  <2>1. PICK i \in 1..L - 1 : d = points[i + 1].at - points[i].at
    BY <1>5, <1>9
  <2>2. PICK t, u : t = points[i].at /\ u = points[i + 1].at
    OBVIOUS
  <2>3. t \in f..e /\ u \in f..e /\ t \in Times(points) /\ u \in Times(points) /\ d = u - t
    BY <1>3, <1>7, <2>1, <2>2
  <2>4. t < u
    BY <1>10, <2>3
  <2>5. QED
    BY <2>3, <2>4
<1>12. ASSUME NEW t \in Times(points), NEW u \in Times(points), t < u PROVE u - t >= d
  <2>1. PICK i \in 1..L : points[i].at = t
    BY <1>1 DEF Times
  <2>2. PICK j \in 1..L : points[j].at = u
    BY <1>1 DEF Times
  <2>3. t \in f..e /\ u \in f..e
    OBVIOUS
  <2>4. PICK S : S = {m \in 1..L : points[m].at <= t}
    OBVIOUS
  <2>5. IsFiniteSet(S) /\ S \subseteq Int /\ S # {}
    <3>1. IsFiniteSet(1..L) /\ S \subseteq 1..L
      BY <1>2, <2>4, FS_Interval
    <3>2. i \in S
      BY <2>1, <2>3, <2>4
    <3>3. IsFiniteSet(S)
      BY <3>1, FS_Subset
    <3>4. S \subseteq Int
      BY <2>4
    <3>5. QED
      BY <3>2, <3>3, <3>4
  <2>6. PICK k : k = Max(S)
    OBVIOUS
  <2>7. k \in S /\ \A m \in S : m <= k
    BY <2>5, <2>6, LargestOf
  <2>8. k \in 1..L /\ points[k].at <= t /\ points[k].at \in f..e
    BY <1>3, <2>4, <2>7
  <2>9. k < j
    <3> SUFFICES ASSUME ~(k < j) PROVE FALSE
      OBVIOUS
    <3>1. j = k \/ j < k
      BY <2>8
    <3>2. points[j].at <= points[k].at
      BY <1>4, <2>2, <2>3, <2>8, <3>1
    <3>3. QED
      BY <1>12, <2>2, <2>3, <2>8, <3>2
  <2>10. k \in 1..L - 1 /\ k + 1 \in 1..L /\ k + 1 <= j /\ i <= k
    <3>1. i \in S
      BY <2>1, <2>3, <2>4
    <3>2. QED
      BY <1>2, <2>7, <2>8, <2>9, <3>1
  <2>11. points[k + 1].at > t
    <3>1. k + 1 \notin S
      BY <2>7, <2>8
    <3>2. points[k + 1].at \in f..e
      BY <1>3, <2>10
    <3>3. QED
      BY <2>3, <2>4, <2>10, <3>1, <3>2
  <2>12. PICK v : v = points[k + 1].at
    OBVIOUS
  <2>13. v \in f..e /\ v > t /\ v <= u
    <3>1. v \in f..e /\ v > t
      BY <1>3, <2>10, <2>11, <2>12
    <3>2. k + 1 = j \/ k + 1 < j
      BY <2>8, <2>10
    <3>3. v <= u
      BY <1>4, <2>2, <2>10, <2>12, <3>1, <3>2
    <3>4. QED
      BY <3>1, <3>3
  <2>14. points[k].at = t
    <3>1. i = k \/ i < k
      BY <2>8, <2>10
    <3>2. t <= points[k].at
      BY <1>4, <2>1, <2>3, <2>8, <3>1
    <3>3. QED
      BY <2>3, <2>8, <3>2
  <2>15. v - t \in I
    <3>1. v - t \in gaps /\ v - t # 0
      BY <1>5, <2>3, <2>10, <2>12, <2>13, <2>14
    <3>2. QED
      BY <1>5, <3>1
  <2>16. d <= v - t
    BY <1>9, <2>15
  <2>17. QED
    BY <1>10, <2>3, <2>13, <2>16
<1>13. QED
  BY <1>10, <1>11, <1>12 DEF Apart

\* The borders within a period.
Borders(f, e) == {t \in f + 1..e - 1 : (t - f) % Day = 0}

LEMMA BordersFinite ==
  ASSUME NEW f \in Int, NEW e \in Int
  PROVE  IsFiniteSet(Borders(f, e)) /\ Cardinality(Borders(f, e)) \in Nat
<1>1. PICK a, b : a = f + 1 /\ b = e - 1
  OBVIOUS
<1>2. a \in Int /\ b \in Int /\ Borders(f, e) \subseteq a..b
  BY <1>1 DEF Borders
<1>3. IsFiniteSet(a..b)
  BY <1>2, FS_Interval
<1>4. IsFiniteSet(Borders(f, e))
  BY <1>2, <1>3, FS_Subset
<1>5. QED
  BY <1>4, FS_CardinalityType

\* A set with two elements that has a third has three.
LEMMA TwoOrThree ==
  ASSUME NEW S, IsFiniteSet(S), NEW a \in S, NEW b \in S, a # b
  PROVE  Cardinality(S) >= 2 /\ (Cardinality(S) <= 2 => \A c \in S : c = a \/ c = b)
<1>1. IsFiniteSet({a}) /\ Cardinality({a}) = 1
  BY FS_Singleton
<1>2. IsFiniteSet({a} \cup {b}) /\ Cardinality({a} \cup {b}) = 2
  <2>1. b \notin {a}
    OBVIOUS
  <2>2. IsFiniteSet({a} \cup {b}) /\ Cardinality({a} \cup {b}) = 1 + 1
    BY <1>1, <2>1, FS_AddElement
  <2>3. QED
    BY <2>2
<1>3. {a} \cup {b} \subseteq S
  OBVIOUS
<1>4. Cardinality(S) \in Nat /\ 2 <= Cardinality(S)
  BY <1>2, <1>3, FS_Subset, FS_CardinalityType
<1>5. ASSUME NEW c \in S, c # a, c # b PROVE 3 <= Cardinality(S)
  <2>1. c \notin {a} \cup {b}
    BY <1>5
  <2>2. Cardinality(({a} \cup {b}) \cup {c}) = 2 + 1
    BY <1>2, <2>1, FS_AddElement
  <2>3. ({a} \cup {b}) \cup {c} \subseteq S
    OBVIOUS
  <2>4. Cardinality(({a} \cup {b}) \cup {c}) <= Cardinality(S)
    BY <2>3, FS_Subset
  <2>5. QED
    BY <2>2, <2>4
<1>6. QED
  BY <1>4, <1>5

\* A series has as many points as times, and at most one more for each border.
LEMMA CountedPoints ==
  ASSUME NEW points, IsSeries(points), NEW f \in Int, NEW e \in Int, Bounded(points, f, e)
  PROVE  /\ IsFiniteSet(Times(points)) /\ Len(points) \in Nat
         /\ Cardinality(Times(points)) <= Len(points)
         /\ Len(points) <= Cardinality(Times(points)) + Cardinality(Borders(f, e))
<1>1. PICK T, L, B : T = Times(points) /\ L = Len(points) /\ B = Borders(f, e)
  OBVIOUS
<1>2. L \in Nat /\ points \in Seq(Points) /\ T = {points[i].at : i \in 1..L} /\ T \subseteq f..e
  BY <1>1, LenProperties DEF IsSeries, Bounded, Times
<1>3. IsFiniteSet(1..L) /\ Cardinality(1..L) = L
  BY <1>2, FS_Interval
<1>4. PICK one : one = [t \in T |-> CHOOSE i \in 1..L : points[i].at = t]
  OBVIOUS
<1>5. \A t \in T : one[t] \in 1..L /\ points[one[t]].at = t
  BY <1>2, <1>4
<1>6. one \in Injection(T, 1..L)
  <2>1. one \in [T -> 1..L]
    BY <1>4, <1>5
  <2>2. \A t, u \in T : one[t] = one[u] => t = u
    BY <1>5
  <2>3. QED
    BY <2>1, <2>2 DEF Injection, IsInjective
<1>7. IsFiniteSet(T) /\ Cardinality(T) <= L
  BY <1>3, <1>6, FS_Injection
<1>8. IsFiniteSet(B)
  BY <1>1, BordersFinite
<1>9. PICK X, Y : X = {1} \X T /\ Y = {2} \X B
  OBVIOUS
<1>10. PICK u : u = [i \in 1..L |-> IF one[points[i].at] = i THEN <<1, points[i].at>> ELSE <<2, points[i].at>>]
  OBVIOUS
<1>11. ASSUME NEW i \in 1..L, NEW t, t = points[i].at
       PROVE  /\ t \in T /\ i \in Copies(points, t) /\ one[t] \in Copies(points, t)
              /\ IsFiniteSet(Copies(points, t))
              /\ Cardinality(Copies(points, t)) \in Nat
              /\ Cardinality(Copies(points, t)) <= IF t \in B THEN 2 ELSE 1
  <2>1. t \in T
    BY <1>2, <1>11
  <2>2. i \in Copies(points, t) /\ one[t] \in Copies(points, t)
    BY <1>1, <1>5, <1>11, <2>1 DEF Copies
  <2>3. IsFiniteSet(Copies(points, t)) /\ Cardinality(Copies(points, t)) \in Nat
    BY <1>2, CopiesFinite
  <2>4. Cardinality(Copies(points, t)) <= IF f < t /\ t < e /\ (t - f) % Day = 0 THEN 2 ELSE 1
    BY <1>2, <2>1 DEF Bounded
  <2>5. f < t /\ t < e /\ (t - f) % Day = 0 => t \in B
    <3>1. t \in f..e
      BY <1>2, <2>1
    <3>2. f < t /\ t < e => t \in f + 1..e - 1
      BY <3>1
    <3>3. QED
      BY <1>1, <3>2 DEF Borders
  <2>6. QED
    BY <2>1, <2>2, <2>3, <2>4, <2>5
<1>12. ASSUME NEW i \in 1..L PROVE u[i] \in X \cup Y
  <2>1. PICK t : t = points[i].at
    OBVIOUS
  <2>2. CASE one[t] = i
    <3>1. u[i] = <<1, t>> /\ t \in T
      BY <1>10, <1>11, <2>1, <2>2
    <3>2. QED
      BY <1>9, <3>1
  <2>3. CASE one[t] # i
    <3>1. Cardinality(Copies(points, t)) >= 2
      BY <1>11, <2>1, <2>3, TwoOrThree
    <3>2. t \in B
      BY <1>11, <2>1, <3>1
    <3>3. u[i] = <<2, t>>
      BY <1>10, <2>1, <2>3
    <3>4. QED
      BY <1>9, <3>2, <3>3
  <2>4. QED
    BY <2>2, <2>3
<1>13. ASSUME NEW i \in 1..L, NEW j \in 1..L, u[i] = u[j] PROVE i = j
  <2>1. PICK t, v : t = points[i].at /\ v = points[j].at
    OBVIOUS
  <2>2. /\ u[i] = IF one[t] = i THEN <<1, t>> ELSE <<2, t>>
        /\ u[j] = IF one[v] = j THEN <<1, v>> ELSE <<2, v>>
    BY <1>10, <2>1
  <2>7. u[i][2] = t /\ u[j][2] = v /\ (u[i][1] = 1 <=> one[t] = i) /\ (u[j][1] = 1 <=> one[v] = j)
    BY <2>2
  <2>3. t = v /\ (one[t] = i <=> one[t] = j)
    BY <1>13, <2>7
  <2>4. CASE one[t] = i
    BY <2>3, <2>4
  <2>5. CASE one[t] # i
    <3>1. /\ IsFiniteSet(Copies(points, t)) /\ Cardinality(Copies(points, t)) <= 2
          /\ i \in Copies(points, t) /\ one[t] \in Copies(points, t)
      BY <1>11, <2>1
    <3>2. j \in Copies(points, t)
      BY <1>11, <2>1, <2>3
    <3>3. j = one[t] \/ j = i
      BY <2>5, <3>1, <3>2, TwoOrThree
    <3>4. QED
      BY <2>3, <2>5, <3>3
  <2>6. QED
    BY <2>4, <2>5
<1>14. u \in Injection(1..L, X \cup Y)
  <2>1. u \in [1..L -> X \cup Y]
    BY <1>10, <1>12
  <2>2. QED
    BY <1>13, <2>1 DEF Injection, IsInjective
<1>15. /\ IsFiniteSet(X \cup Y) /\ Cardinality(X \cup Y) <= Cardinality(T) + Cardinality(B)
  <2>1. IsFiniteSet({1}) /\ Cardinality({1}) = 1 /\ IsFiniteSet({2}) /\ Cardinality({2}) = 1
    BY FS_Singleton
  <2>2. IsFiniteSet(X) /\ Cardinality(X) = 1 * Cardinality(T)
    BY <1>7, <1>9, <2>1, FS_Product
  <2>3. IsFiniteSet(Y) /\ Cardinality(Y) = 1 * Cardinality(B)
    BY <1>8, <1>9, <2>1, FS_Product
  <2>4. IsFiniteSet(X \cap Y)
    BY <2>2, FS_Subset
  <2>5. /\ Cardinality(T) \in Nat /\ Cardinality(B) \in Nat /\ Cardinality(X \cap Y) \in Nat
    BY <1>7, <1>8, <2>4, FS_CardinalityType
  <2>6. IsFiniteSet(X \cup Y) /\ Cardinality(X \cup Y) = Cardinality(X) + Cardinality(Y) - Cardinality(X \cap Y)
    BY <2>2, <2>3, FS_Union
  <2>7. QED
    BY <2>2, <2>3, <2>5, <2>6
<1>16. L <= Cardinality(X \cup Y)
  BY <1>3, <1>14, <1>15, FS_Injection
<1>17. Cardinality(T) \in Nat /\ Cardinality(B) \in Nat /\ Cardinality(X \cup Y) \in Nat
  BY <1>7, <1>8, <1>15, FS_CardinalityType
<1>18. QED
  BY <1>1, <1>2, <1>7, <1>15, <1>16, <1>17

\* The points of a series, each with the smallest distance, fill no more than the period
\* and the distance once more for each border and for the first point.
LEMMA CountedTime ==
  ASSUME NEW points, IsSeries(points), NEW f \in Int, NEW e \in Int, f <= e, Bounded(points, f, e),
         NEW d, d = MinDuration(points), NEW b, b = Cardinality(Borders(f, e))
  PROVE  d \in Nat \ {0} /\ Len(points) \in Nat /\ b \in Nat /\ d * Len(points) <= e - f + (b + 1) * d
<1>1. PICK L, T, k : L = Len(points) /\ T = Times(points) /\ k = Cardinality(T)
  OBVIOUS
<1>2. T \subseteq f..e
  BY <1>1 DEF Bounded
<1>3. d \in Nat \ {0} /\ Apart(T, d)
  BY <1>1, <1>2, MinDurationIs
<1>4. IsFiniteSet(T) /\ k * d <= e - f + d
  BY <1>1, <1>2, <1>3, ApartFit
<1>5. L \in Nat /\ L <= k + b
  BY <1>1, CountedPoints
<1>6. k \in Nat /\ b \in Nat
  BY <1>1, <1>4, BordersFinite, FS_CardinalityType
<1>7. d * L <= d * (k + b) /\ d * (k + b) = d * k + d * b
  BY <1>3, <1>5, <1>6, Multiples
<1>8. d * k = k * d /\ (b + 1) * d = d * b + d
  BY <1>3, <1>6
<1>9. d * k \in Int /\ d * b \in Int /\ d * L \in Int
  BY <1>3, <1>5, <1>6
<1>10. QED
  <2>1. PICK dL, dk, db : dL = d * L /\ dk = d * k /\ db = d * b
    OBVIOUS
  <2>2. dL \in Int /\ dk \in Int /\ db \in Int /\ dL <= dk + db /\ dk <= e - f + d /\ (b + 1) * d = db + d
    BY <1>4, <1>7, <1>8, <1>9, <2>1
  <2>3. dL <= e - f + (db + d)
    BY <1>3, <2>2
  <2>4. QED
    BY <1>1, <1>3, <1>5, <1>6, <2>1, <2>2, <2>3

\* What the average is, as numbers.
IsAverage(average, n, sum, d, period) ==
  /\ sum \in Int /\ n \in Nat /\ n <= sum /\ sum <= 2 * n
  /\ n = 0 => average = <<0, 1>>
  /\ n = 1 => average = <<sum, 1>>
  /\ n > 1 => average = <<sum * d, period>>

LEMMA AverageIs ==
  ASSUME NEW points, IsSeries(points), NEW period, NEW d, d = MinDuration(points), NEW average,
         average = MetricAverageOverObservabilityPeriod(points, period)
  PROVE  \E sum : IsAverage(average, Len(points), sum, d, period)
<1>1. PICK L, values : L = Len(points) /\ values = [i \in DOMAIN points |-> points[i].value]
  OBVIOUS
<1>2. L \in Nat /\ points \in Seq(Points) /\ DOMAIN points = 1..L
  BY <1>1, LenProperties DEF IsSeries
<1>3. PICK sum : sum = SumOfValues(values)
  OBVIOUS
<1>4. sum \in Int /\ L <= sum /\ sum <= 2 * L
  BY <1>1, <1>2, <1>3, ValuesBetween DEF Trough, Peak
<1>5. /\ L = 0 => average = <<0, 1>>
      /\ L = 1 => average = <<points[1].value, 1>>
      /\ L > 1 => average = <<sum * d, period>>
  <2>1. L = 0 => average = <<0, 1>>
    BY <1>1 DEF MetricAverageOverObservabilityPeriod
  <2>2. L = 1 => average = <<points[1].value, 1>>
    BY <1>1 DEF MetricAverageOverObservabilityPeriod
  <2>3. ASSUME L > 1 PROVE average = <<sum * d, period>>
    <3>1. Len(points) # 0 /\ Len(points) # 1
      BY <1>1, <1>2, <2>3
    <3>2. average = <<SumOfValues([i \in DOMAIN points |-> points[i].value]) * MinDuration(points), period>>
      BY <3>1, Zenon DEF MetricAverageOverObservabilityPeriod
    <3>3. QED
      BY <1>1, <1>3, <3>2
  <2>4. QED
    BY <2>1, <2>2, <2>3
<1>6. CASE L # 1
  <2>1. IsAverage(average, L, sum, d, period)
    BY <1>2, <1>4, <1>5, <1>6 DEF IsAverage
  <2>2. QED
    BY <1>1, <2>1
<1>7. CASE L = 1
  <2>1. points[1] \in Points
    BY <1>1, <1>2, <1>7, ElementOfSeq
  <2>2. points[1].value \in Int /\ 1 <= points[1].value /\ points[1].value <= 2
    BY <2>1 DEF Points, Trough, Peak
  <2>3. average = <<points[1].value, 1>>
    BY <1>5, <1>7
  <2>4. IsAverage(average, L, points[1].value, d, period)
    BY <1>7, <2>2, <2>3 DEF IsAverage
  <2>5. QED
    BY <1>1, <2>4
<1>8. QED
  BY <1>6, <1>7

\* The average of bounded points is bounded.
LEMMA AverageBelow ==
  ASSUME NEW points, IsSeries(points), NEW f \in Int, NEW e \in Int, f <= e, Bounded(points, f, e),
         NEW period \in Nat \ {0}, NEW b, b = Cardinality(Borders(f, e)),
         NEW average, average = MetricAverageOverObservabilityPeriod(points, period),
         NEW counted, counted = e - f + (b + 1) * MinDuration(points)
  PROVE  average[1] * period <= Peak * Max({period, counted}) * average[2]
<1>1. PICK L, d : L = Len(points) /\ d = MinDuration(points)
  OBVIOUS
<1>2. L \in Nat /\ d \in Nat \ {0} /\ b \in Nat /\ d * L <= e - f + (b + 1) * d
  BY <1>1, CountedTime
<1>3. counted \in Int /\ d * L <= counted /\ d * L \in Nat
  <2>1. (b + 1) * d \in Int /\ d * L \in Nat
    BY <1>2
  <2>2. QED
    BY <1>1, <1>2, <2>1
<1>4. PICK m : m = Max({period, counted})
  OBVIOUS
<1>5. m \in Int /\ period <= m /\ counted <= m
  <2>1. m = IF period <= counted THEN counted ELSE period
    BY <1>3, <1>4, Larger
  <2>2. QED
    BY <1>3, <2>1
<1>12. PICK sum : IsAverage(average, L, sum, d, period)
  BY <1>1, AverageIs
<1>6. /\ sum \in Int /\ L <= sum /\ sum <= 2 * L
      /\ L = 0 => average = <<0, 1>>
      /\ L = 1 => average = <<sum, 1>>
      /\ L > 1 => average = <<sum * d, period>>
  BY <1>12 DEF IsAverage
<1>7. SUFFICES average[1] * period <= 2 * m * average[2]
  BY <1>4 DEF Peak
<1>8. CASE L = 0
  <2>1. average[1] = 0 /\ average[2] = 1
    BY <1>6, <1>8
  <2>2. 0 * period = 0 /\ 2 * m * 1 >= 0
    BY <1>5
  <2>3. QED
    BY <2>1, <2>2
<1>9. CASE L = 1
  <2>1. average[1] = sum /\ average[2] = 1
    BY <1>6, <1>9
  <2>2. sum \in 0..2
    BY <1>6, <1>9
  <2>3. period * sum <= period * 2
    BY <2>2, Multiples
  <2>4. sum * period = period * sum /\ period * sum \in Int /\ 2 * m * 1 = 2 * m /\ period * 2 <= 2 * m
    BY <1>5, <2>2
  <2>5. QED
    BY <1>5, <2>1, <2>3, <2>4
<1>10. CASE L > 1
  <2>1. average[1] = sum * d /\ average[2] = period
    BY <1>2, <1>6, <1>10
  <2>2. PICK x : x = sum * d
    OBVIOUS
  <2>3. x \in Int /\ x <= 2 * m
    <3>1. sum <= L + L /\ L \in Int /\ L + L \in Int
      BY <1>2, <1>6
    <3>2. d * sum <= d * (L + L) /\ d * sum \in Int /\ d * (L + L) = d * L + d * L
      BY <1>2, <1>6, <3>1, Multiples
    <3>3. sum * d = d * sum
      BY <1>2, <1>6
    <3>4. d * L + d * L <= 2 * m
      BY <1>3, <1>5
    <3>5. QED
      BY <1>3, <1>5, <2>2, <3>2, <3>3, <3>4
  <2>4. PICK y : y = 2 * m
    OBVIOUS
  <2>5. y \in Int /\ x <= y
    BY <1>5, <2>3, <2>4
  <2>6. period * x <= period * y
    BY <2>3, <2>5, Multiples
  <2>7. x * period = period * x /\ y * period = period * y
    BY <2>3, <2>5
  <2>8. QED
    BY <2>1, <2>2, <2>4, <2>6, <2>7
<1>11. QED
  BY <1>2, <1>8, <1>9, <1>10

\* The average of points without a hole on one grid is not below their smallest value.
LEMMA AverageAbove ==
  ASSUME NEW points, IsSeries(points), NEW f \in Int, NEW e \in Int, f <= e, Bounded(points, f, e),
         NEW step \in Nat \ {0}, Whole(Times(points), f, e, step), step <= Hour,
         \A t \in Times(points) : (t - f) % step = 0,
         NEW period \in Nat \ {0}, period <= e - f,
         NEW average, average = MetricAverageOverObservabilityPeriod(points, period)
  PROVE  average[1] >= Trough * average[2]
<1>1. PICK L, d, T, k : L = Len(points) /\ d = MinDuration(points) /\ T = Times(points) /\ k = Cardinality(T)
  OBVIOUS
<1>2. T \subseteq f..e
  BY <1>1 DEF Bounded
<1>3. d \in Nat \ {0} /\ (d = Hour \/ \E t, u \in T : t < u /\ d = u - t)
  BY <1>1, <1>2, MinDurationIs
<1>4. d >= step
  <2>1. Hour \in Nat
    BY Constants
  <2>2. CASE d = Hour
    BY <2>1, <2>2
  <2>3. CASE d # Hour
    <3>1. PICK t \in T, u \in T : t < u /\ d = u - t
      BY <1>3, <2>3
    <3>2. t \in f..e /\ u \in f..e
      BY <1>2
    <3>3. t - f \in Int /\ u - f \in Int /\ (t - f) % step = 0 /\ (u - f) % step = 0
      BY <1>1, <3>2
    <3>4. PICK i, j : i = (t - f) \div step /\ j = (u - f) \div step
      OBVIOUS
    <3>5. i \in Int /\ t - f = step * i + 0
      BY <3>3, <3>4, DivMod
    <3>6. j \in Int /\ u - f = step * j + 0
      BY <3>3, <3>4, DivMod
    <3>7. (i < j => step * i + step <= step * j) /\ (j <= i => step * j <= step * i) /\ step * i \in Int
          /\ step * j \in Int
      BY <3>5, <3>6, Multiples
    <3>8. QED
      BY <3>1, <3>2, <3>5, <3>6, <3>7
  <2>4. QED
    BY <2>2, <2>3
<1>5. IsFiniteSet(T) /\ e - f + 1 <= k * step
  BY <1>1, <1>2, WholeFills
<1>6. L \in Nat /\ k \in Nat /\ k <= L
  BY <1>1, <1>5, CountedPoints, FS_CardinalityType
<1>7. k >= 1
  <2>1. f \in T
    BY <1>1 DEF Whole
  <2>2. k # 0
    BY <1>1, <1>5, <2>1, FS_EmptySet
  <2>3. QED
    BY <1>6, <2>2
<1>8. PICK sum : IsAverage(average, L, sum, d, period)
  BY <1>1, AverageIs
<1>9. /\ sum \in Int /\ L <= sum /\ L >= 1
      /\ L = 1 => average = <<sum, 1>>
      /\ L > 1 => average = <<sum * d, period>>
  BY <1>6, <1>7, <1>8 DEF IsAverage
<1>10. SUFFICES average[1] >= average[2]
  <2>1. average[2] \in Int
    BY <1>6, <1>9
  <2>2. Trough * average[2] = average[2]
    BY <2>1 DEF Trough
  <2>3. QED
    BY <1>10, <2>2
<1>11. CASE L = 1
  BY <1>9, <1>11
<1>12. CASE L > 1
  <2>1. d * k <= d * sum /\ d * sum \in Int
    BY <1>3, <1>6, <1>9, Multiples
  <2>2. k * step <= k * d
    BY <1>3, <1>4, <1>6, <1>7, Multiples
  <2>3. k * d = d * k /\ sum * d = d * sum /\ d * k \in Int /\ k * step \in Int
    BY <1>3, <1>6, <1>9
  <2>4. period <= sum * d
    BY <1>5, <2>1, <2>2, <2>3
  <2>5. average[1] = sum * d /\ average[2] = period
    BY <1>9, <1>12
  <2>6. QED
    BY <2>1, <2>3, <2>4, <2>5
<1>13. QED
  BY <1>6, <1>9, <1>11, <1>12

--------------------------------------------------------------------------------
(* When the step divides a day all windows have one grid, and the cut period   *)
(* is no shorter than the one asked for.                                       *)

OnGrid(points, from, step) == \A t \in Times(points) : (t - from) % step = 0

AllOnGrid == \A p \in request.pods, c \in Container : OnGrid(SeriesOf(result, p, c), request.from, Step)

Aligned ==
  phase \in Running =>
    /\ request.days \in ObservabilityDays
    /\ Day % Step = 0 => request.days * Day <= request.to - request.from /\ AllOnGrid

AlignedInv == QueriesInv /\ Aligned

\* What divides two numbers divides their sum.
LEMMA SumDivides ==
  ASSUME NEW s \in Nat \ {0}, NEW x \in Int, NEW y \in Int, x % s = 0, y % s = 0
  PROVE  (x + y) % s = 0
<1>1. PICK i, j : i = x \div s /\ j = y \div s
  OBVIOUS
<1>2. i \in Int /\ x = s * i + 0
  BY <1>1, DivMod
<1>3. j \in Int /\ y = s * j + 0
  BY <1>1, DivMod
<1>4. s * (i + j) = s * i + s * j /\ s * i \in Int /\ s * j \in Int /\ i + j \in Int
  BY <1>2, <1>3, Multiples
<1>5. x + y = s * (i + j) + 0
  BY <1>2, <1>3, <1>4
<1>6. QED
  BY <1>4, <1>5, Quotient

\* What divides a divisor divides the number.
LEMMA MultipleDivides ==
  ASSUME NEW s \in Nat \ {0}, NEW d \in Nat \ {0}, d % s = 0, NEW x \in Int, x % d = 0
  PROVE  x % s = 0
<1>1. PICK i, j : i = x \div d /\ j = d \div s
  OBVIOUS
<1>2. i \in Int /\ x = d * i + 0
  BY <1>1, DivMod
<1>3. j \in Int /\ d = s * j + 0
  BY <1>1, DivMod
<1>4. PICK m : m = j * i
  OBVIOUS
<1>5. m \in Int /\ (s * j) * i = s * m /\ s * m \in Int /\ s * j \in Int
  BY <1>2, <1>3, <1>4
<1>6. x = s * m + 0
  BY <1>2, <1>3, <1>5
<1>7. QED
  BY <1>5, <1>6, Quotient

\* Cut down to a step that divides the day, the period keeps its length.
LEMMA TruncateShift ==
  ASSUME Step \in Nat \ {0}, Day % Step = 0, NEW now \in Nat, NEW days \in Nat
  PROVE  Truncate(now - days * Day) = Truncate(now) - days * Day
<1>1. PICK s, d : s = Step /\ d = Day
  OBVIOUS
<1>2. s \in Nat \ {0} /\ d \in Nat \ {0} /\ d % s = 0
  BY <1>1, Constants
<1>3. PICK a, r, j : a = now \div s /\ r = now % s /\ j = d \div s
  OBVIOUS
<1>4. a \in Int /\ r \in Int /\ 0 <= r /\ r < s /\ now = s * a + r
  BY <1>2, <1>3, DivMod
<1>5. j \in Int /\ d = s * j + 0
  BY <1>2, <1>3, DivMod
<1>6. PICK m : m = days * j
  OBVIOUS
<1>7. m \in Int /\ s * j \in Int
  BY <1>2, <1>5, <1>6
<1>8. days * d = s * m
  <2>1. d = s * j
    BY <1>5, <1>7
  <2>2. days * (s * j) = s * (days * j)
    BY <1>2, <1>5
  <2>3. QED
    BY <1>6, <2>1, <2>2
<1>9. s * (a - m) = s * a - s * m /\ s * a \in Int /\ s * m \in Int /\ a - m \in Int
  BY <1>2, <1>4, <1>7, Multiples
<1>10. PICK first : first = now - s * m
  OBVIOUS
<1>11. first = s * (a - m) + r /\ first \in Int
  BY <1>4, <1>9, <1>10
<1>12. first % s = r
  BY <1>2, <1>4, <1>9, <1>11, Quotient
<1>13. Truncate(first) = first - r /\ Truncate(now) = now - r
  BY <1>1, <1>3, <1>12 DEF Truncate
<1>14. Truncate(first) = Truncate(now) - s * m
  BY <1>4, <1>9, <1>10, <1>13
<1>15. QED
  BY <1>1, <1>8, <1>10, <1>14

\* A getter cuts both ends of its period down alike.
LEMMA AlignedGet ==
  ASSUME QueriesInv, NEW m, NEW pods, GetMetrics(m, pods)
  PROVE  Aligned'
<1>1. PICK days \in ObservabilityDays, now \in Nows, later \in Nows :
        /\ now <= later
        /\ request' = [metric |-> m, pods |-> pods, days |-> days,
                       from |-> Truncate(now - days * Day), to |-> Truncate(later)]
  BY DEF GetMetrics
<1>2. result' = NoResult /\ scrapeInterval' = scrapeInterval
  BY DEF GetMetrics
<1>3. Step \in Nat \ {0} /\ Step' = Step
  BY <1>2, StepIs DEF QueriesInv, Step
<1>4. now \in Nat /\ later \in Nat /\ days \in Nat /\ Day \in Nat
  BY PrometheusAssumption
<1>5. PICK f, t, n, p : f = Truncate(now - days * Day) /\ t = Truncate(later) /\ n = Truncate(now) /\ p = days * Day
  OBVIOUS
<1>6. n \in Nat /\ t \in Nat /\ n <= t
  BY <1>1, <1>3, <1>4, <1>5, TruncateIs
<1>7. p \in Nat
  BY <1>4, <1>5
<1>8. ASSUME Day % Step = 0 PROVE p <= t - f
  <2>1. f = n - p
    BY <1>3, <1>4, <1>5, <1>8, TruncateShift
  <2>2. QED
    BY <1>6, <1>7, <2>1
<1>9. request'.days = days /\ request'.from = f /\ request'.to = t
  BY <1>1, <1>5
<1>10. AllOnGrid'
  <2>1. \A q, c : SeriesOf(result', q, c) = << >>
    BY <1>2, EmptyResult
  <2>2. \A x, y : OnGrid(<< >>, x, y)
    BY NoPoints DEF OnGrid
  <2>3. QED
    BY <2>1, <2>2 DEF AllOnGrid
<1>11. QED
  BY <1>3, <1>5, <1>8, <1>9, <1>10 DEF Aligned

\* The next window continues the grid.
LEMMA AlignedWindow ==
  ASSUME AlignedInv, WindowAnswered
  PROVE  Aligned'
<1>1. PICK a, b : a = rangeStart /\ b = RangeEndStep
  OBVIOUS
<1>2. PICK dim : dim = QueryRange(a, b, Step)
  OBVIOUS
<1>3. /\ phase = "query" /\ result' = MergeDimensions(result, dim)
      /\ request' = request /\ scrapeInterval' = scrapeInterval
  BY <1>1, <1>2 DEF WindowAnswered, WindowStart
<1>4. Probed /\ Asked /\ Aligned
  BY DEF AlignedInv, QueriesInv
<1>5. PICK f, s : f = request.from /\ s = Step
  OBVIOUS
<1>6. s \in Nat \ {0} /\ Step' = Step /\ f \in Nat
  BY <1>3, <1>4, <1>5, StepIs DEF Step, Asked
<1>7. a \in Nat /\ b \in Nat /\ (a = f \/ (a - f) % Day = 0)
  <2>1. a \in Nat /\ b \in Nat /\ (a = request.from \/ (a - request.from) % Day = 0)
    BY <1>1, <1>3, <1>4, BorderIs
  <2>2. QED
    BY <1>5, <2>1
<1>8. request.days \in ObservabilityDays
      /\ (Day % Step = 0 => request.days * Day <= request.to - request.from /\ AllOnGrid)
  BY <1>3, <1>4 DEF Aligned, Running
<1>9. ASSUME Day % Step = 0, NEW p \in request.pods, NEW c \in Container
      PROVE  OnGrid(SeriesOf(result', p, c), f, s)
  <2>1. PICK x, y, z, T : /\ x = SeriesOf(result, p, c) /\ y = SeriesOf(dim, p, c) /\ z = SeriesOf(result', p, c)
                          /\ T = SampledTimes(<<p, c>>, a, b)
    OBVIOUS
  <2>2. /\ IsResult(dim, request.pods) /\ OncePerTime(y, T)
    <3>1. IsResult(dim, request.pods)
          /\ \A q \in request.pods, e \in Container : OncePerTime(SeriesOf(dim, q, e), SampledTimes(<<q, e>>, a, b))
      BY <1>2, <1>5, <1>6, <1>7, WindowIs
    <3>2. QED
      BY <2>1, <3>1
  <2>3. Joins(z, x, y)
    <3>1. IsResult(result, request.pods)
      BY <1>4 DEF Asked
    <3>2. \A q \in request.pods, e \in Container :
            Joins(SeriesOf(result', q, e), SeriesOf(result, q, e), SeriesOf(dim, q, e))
      BY <1>3, <2>2, <3>1, MergedResult
    <3>3. QED
      BY <2>1, <3>2
  <2>4. Times(z) = Times(x) \cup T
    BY <2>2, <2>3 DEF Joins, OncePerTime
  <2>5. \A t \in Times(x) : (t - f) % s = 0
    BY <1>5, <1>8, <1>9, <2>1 DEF AllOnGrid, OnGrid
  <2>6. ASSUME NEW t \in T PROVE (t - f) % s = 0
    <3>1. t \in a..b /\ (t - a) % s = 0
      BY <1>5, <2>1 DEF SampledTimes, Grid
    <3>2. CASE a = f
      BY <3>1, <3>2
    <3>3. CASE a # f
      <4>1. PICK u, v : u = t - a /\ v = a - f
        OBVIOUS
      <4>2. u \in Int /\ v \in Int /\ t - f = u + v /\ u % s = 0 /\ v % Day = 0
        BY <1>6, <1>7, <3>1, <3>3, <4>1
      <4>3. Day \in Nat \ {0} /\ Day % s = 0
        BY <1>5, <1>9, Constants
      <4>4. v % s = 0
        BY <1>6, <4>2, <4>3, MultipleDivides
      <4>5. (u + v) % s = 0
        BY <1>6, <4>2, <4>4, SumDivides
      <4>6. QED
        BY <4>2, <4>5
    <3>4. QED
      BY <3>2, <3>3
  <2>7. QED
    BY <2>1, <2>4, <2>5, <2>6 DEF OnGrid
<1>10. Day % Step = 0 => AllOnGrid'
  BY <1>3, <1>5, <1>6, <1>9 DEF AllOnGrid
<1>11. QED
  BY <1>3, <1>6, <1>8, <1>10 DEF Aligned

LEMMA AlignedStep == AlignedInv /\ [QueriesNext]_queryVars => AlignedInv'
<1> SUFFICES ASSUME AlignedInv, [QueriesNext]_queryVars PROVE Aligned'
  BY QueriesStep DEF AlignedInv
<1>1. QueriesInv /\ Aligned /\ Asked
  BY DEF AlignedInv, QueriesInv
<1>2. CASE ProbeAnswered
  <2>1. phase' \in {"probe", "ready"}
    BY <1>2 DEF ProbeAnswered
  <2>2. QED
    BY <2>1 DEF Aligned, Running
<1>3. CASE ProbeFails
  BY <1>3 DEF ProbeFails, Aligned, Running
<1>4. ASSUME NEW m, NEW pods, GetMetrics(m, pods) PROVE Aligned'
  BY <1>1, <1>4, AlignedGet
<1>5. CASE WindowAnswered
  BY <1>5, AlignedWindow
<1>6. CASE WindowFails
  BY <1>6 DEF WindowFails, Aligned, Running
<1>7. CASE UNCHANGED queryVars
  <2>1. UNCHANGED <<scrapeInterval, phase, request, result>>
    BY <1>7 DEF queryVars
  <2>2. Step' = Step
    BY <2>1 DEF Step
  <2>3. AllOnGrid' = AllOnGrid
    BY <2>1, <2>2 DEF AllOnGrid
  <2>4. QED
    BY <1>1, <2>1, <2>2, <2>3 DEF Aligned
<1>8. QED
  BY <1>2, <1>3, <1>4, <1>5, <1>6, <1>7
     DEF QueriesNext, GetCpuMetricsForPod, GetCpuMetricsForPodOwnerPrefix, GetMemoryMetricsForPod,
         GetMemoryMetricsForPodOwnerPrefix, GetCpuThrottlingMetricsForPod,
         GetCpuThrottlingMetricsForPodOwnerPrefix

\* What the average of a merged series is bounded by.
LEMMA InvAverage == AlignedInv => AverageBounded
<1> SUFFICES ASSUME AlignedInv, Merged PROVE AverageBounded
  BY DEF AverageBounded, AverageAtMostPeak, AlignedAverageAtLeastTrough
<1>1. phase = "done" /\ Probed /\ Asked /\ AllBounded /\ LivingWhole /\ Aligned
  BY DEF AlignedInv, QueriesInv, Running, Answered, Merged
<1>2. PICK f, e, period, step : f = request.from /\ e = request.to /\ period = request.days * Day /\ step = Step
  OBVIOUS
<1>3. f \in Int /\ e \in Int /\ f <= e /\ rangeStart = e /\ IsResult(result, request.pods)
  BY <1>1, <1>2 DEF Asked
<1>4. /\ request.days \in ObservabilityDays
      /\ Day % Step = 0 => period <= e - f /\ AllOnGrid
  BY <1>1, <1>2 DEF Aligned, Running
<1>5. period \in Nat \ {0}
  <2>1. request.days \in Nat \ {0} /\ Day \in Nat \ {0}
    BY <1>4, PrometheusAssumption
  <2>2. QED
    BY <1>2, <2>1
<1>6. step \in Nat \ {0}
  BY <1>1, <1>2, StepIs
<1>7. ASSUME NEW p \in request.pods, NEW c \in Container
      PROVE  IsSeries(SeriesOf(result, p, c)) /\ Bounded(SeriesOf(result, p, c), f, e)
  BY <1>1, <1>2, <1>3 DEF IsResult, AllBounded
<1>8. AverageAtMostPeak
  <2>1. ASSUME NEW p \in DOMAIN result, NEW c \in DOMAIN result[p],
               NEW points, points = result[p][c],
               NEW average, average = MetricAverageOverObservabilityPeriod(points, period),
               NEW counted, counted = e - f + (Cardinality(Borders(f, e)) + 1) * MinDuration(points)
        PROVE  average[1] * period <= Peak * Max({period, counted}) * average[2]
    <3>1. p \in request.pods /\ c \in Container /\ points = SeriesOf(result, p, c)
      BY <1>3, <2>1 DEF IsResult, SeriesOf
    <3>2. IsSeries(points) /\ Bounded(points, f, e)
      BY <1>7, <3>1
    <3>3. QED
      BY <1>3, <1>5, <2>1, <3>2, AverageBelow
  <2>2. Borders(f, e) = {t \in request.from + 1..request.to - 1 : (t - request.from) % Day = 0}
    BY <1>2 DEF Borders
  <2>3. QED
    BY <1>2, <2>1, <2>2 DEF AverageAtMostPeak
<1>9. AlignedAverageAtLeastTrough
  <2>1. ASSUME Day % Step = 0, Step <= Hour, NEW s \in Series, AliveThroughout(s),
               NEW points, points = result[s[1]][s[2]],
               NEW average, average = MetricAverageOverObservabilityPeriod(points, period)
        PROVE  average[1] >= Trough * average[2]
    <3>1. PICK p, c : p = s[1] /\ c = s[2]
      OBVIOUS
    <3>2. s = <<p, c>> /\ c \in Container /\ p \in request.pods
      BY <2>1, <3>1 DEF Series, AliveThroughout
    <3>3. PICK x : x = SeriesOf(result, p, c)
      OBVIOUS
    <3>4. IsSeries(x) /\ Bounded(x, f, e)
      BY <1>7, <3>2, <3>3
    <3>5. Whole(Times(x), f, e, step)
      BY <1>1, <1>2, <1>3, <2>1, <3>2, <3>3 DEF LivingWhole
    <3>6. \A t \in Times(x) : (t - f) % step = 0
      BY <1>2, <1>4, <2>1, <3>2, <3>3 DEF AllOnGrid, OnGrid
    <3>7. Times(x) \subseteq f..e
      BY <3>4 DEF Bounded
    <3>8. x # << >>
      BY <3>5, NoPoints DEF Whole
    <3>9. points = x
      BY <2>1, <3>1, <3>3, <3>8 DEF SeriesOf
    <3>10. period <= e - f /\ step <= Hour
      BY <1>2, <1>4, <2>1
    <3>11. QED
      BY <1>3, <1>5, <1>6, <2>1, <3>4, <3>5, <3>6, <3>9, <3>10, AverageAbove
  <2>2. QED
    BY <1>2, <2>1 DEF AlignedAverageAtLeastTrough
<1>10. QED
  BY <1>8, <1>9 DEF AverageBounded

\* Whatever the scrape interval and the lives, the average a container is priced by is no
\* larger than the doubled borders and the truncated begin explain, and no smaller than
\* its smallest value when the step divides a day (resource_cost.go:10).
THEOREM AverageIsBounded == QueriesSpec => []AverageBounded
<1>1. QueriesInit => AlignedInv
  <2> SUFFICES ASSUME QueriesInit PROVE AlignedInv
    OBVIOUS
  <2>1. phase = "probe"
    BY DEF QueriesInit
  <2>2. QED
    BY <2>1, QueriesStart DEF AlignedInv, Aligned, Running
<1>2. AlignedInv /\ [QueriesNext]_queryVars => AlignedInv'
  BY AlignedStep
<1>3. AlignedInv => AverageBounded
  BY InvAverage
<1>4. QED
  BY <1>1, <1>2, <1>3, PTL DEF QueriesSpec

================================================================================

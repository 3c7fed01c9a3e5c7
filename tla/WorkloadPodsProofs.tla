--------------------------- MODULE WorkloadPodsProofs ---------------------------
(***************************************************************************)
(* For every cluster, however it changes between the reads: a pod that     *)
(* stays as it is is counted once, a deployment that is left alone is read *)
(* completely, and the history of replica sets is one of the past.         *)
(***************************************************************************)
EXTENDS WorkloadPods, SumTheorems, FiniteSetTheorems, SequenceTheorems, TLAPS

Phase == {"unborn", "pending", "running", "succeeded", "gone"}
Step == {"unlisted", "listed", "sets", "done", "failed"}

\* The types of the state.
Types ==
  /\ now \in Nat /\ created \in [ReplicaSet -> {Absent} \cup 0..now]
  /\ pods \in [Pod -> [owner : Owner, phase : Phase]]
  /\ step \in [Item -> Step]
  /\ seenReplicas \in [Deployment -> Nat] /\ timeCut \in [Deployment -> Int]
  /\ active \in [Deployment -> ReplicaSet \cup {NoOwner}]
  /\ history \in [Deployment -> Seq(ReplicaSet)]
  /\ itemPods \in [Item -> SUBSET Pod]
  /\ podList \in [listed : SUBSET Pod, orphans : SUBSET Pod, done : BOOLEAN]
  /\ quiet \subseteq Deployment /\ removed \subseteq ReplicaSet /\ steady \subseteq Pod

\* Pods and orphans are what the reads found.
Rooted ==
  /\ \A i \in Item : itemPods[i] # {} => step[i] = "done"
  /\ podList.orphans \subseteq podList.listed
  /\ podList.orphans # {} => podList.done

\* Where a pod that stays as it is was counted.
Counted ==
  \A p \in steady :
    /\ pods[p].phase = "running"
    /\ \A c \in Controller : step[c] = "done" => (p \in itemPods[c] <=> pods[p].owner = c)
    /\ \A d \in Deployment : step[d] = "done" => (p \in itemPods[d] <=> pods[p].owner = active[d])
    /\ podList.done => (p \in podList.orphans <=> ~IsOwned(p))

\* The replica sets of a deployment, the deleted ones included.
SetsEver(d) == {rs \in ReplicaSet : RSOwner[rs] = d /\ created[rs] # Absent}

--------------------------------------------------------------------------------
(* The loop over the historical replica sets.                                *)

LEMMA OneMore ==
  ASSUME NEW s \in Seq(ReplicaSet), NEW m \in 1..Len(s)
  PROVE  SubSeq(s, 1, m) = Append(SubSeq(s, 1, m - 1), s[m])
OBVIOUS

\* The replica sets of the order that are not before the cut come first.
LEMMA CutAt ==
  ASSUME Types, NEW S \in SUBSET ReplicaSet, NEW order \in Sorted(S), NEW cut \in Int,
         \A rs \in S : created[rs] \in Nat
  PROVE  /\ order \in Seq(ReplicaSet) /\ IsInjective(order) /\ \A n \in 1..Len(order) : order[n] \in S
         /\ \E k \in 0..Len(order) :
              /\ \A n \in 1..k : created[order[n]] >= cut
              /\ \A n \in (k + 1)..Len(order) : created[order[n]] < cut
<1>1. IsFiniteSet(S) /\ Cardinality(S) \in Nat
  BY WorkloadPodsAssumption, FS_Subset, FS_CardinalityType
<1>2. /\ order \in [1..Cardinality(S) -> S]
      /\ \A i, j \in 1..Cardinality(S) : i # j => order[i] # order[j]
      /\ \A i \in 1..Len(order) - 1 : created[order[i + 1]] <= created[order[i]]
  BY DEF Sorted, SetToSeqs
<1>3. order \in Seq(ReplicaSet) /\ Len(order) = Cardinality(S) /\ DOMAIN order = 1..Len(order)
  BY <1>1, <1>2
<1>4. IsInjective(order) /\ \A n \in 1..Len(order) : order[n] \in S
  BY <1>2, <1>3 DEF IsInjective
<1>5. PICK old : old = {n \in 1..Len(order) : created[order[n]] < cut}
  OBVIOUS
<1>6. \A n \in 1..Len(order) : created[order[n]] \in Nat
  BY <1>4
<1>7. CASE old = {}
  <2>1. PICK len \in Nat : len = Len(order)
    BY <1>3
  <2>2. \A n \in 1..len : created[order[n]] >= cut
    BY <1>5, <1>6, <1>7, <2>1
  <2>3. len \in 0..len /\ (len + 1)..len = {}
    OBVIOUS
  <2>4. QED
    BY <1>3, <1>4, <2>1, <2>2, <2>3
<1>8. CASE old # {}
  <2>1. Min(old) \in old /\ \A n \in old : Min(old) <= n
    <3>1. PICK len \in Nat : len = Len(order)
      BY <1>3
    <3>2. old \subseteq 1..len
      BY <1>5, <3>1
    <3>3. QED
      BY <1>8, <3>2, SmallestOf
  <2>2. PICK m \in 1..Len(order) : m \in old /\ \A n \in old : m <= n
    BY <1>5, <2>1
  <2>3. \A n \in 1..(m - 1) : created[order[n]] >= cut
    <3> SUFFICES ASSUME NEW n \in 1..(m - 1) PROVE created[order[n]] >= cut
      OBVIOUS
    <3>1. n \in 1..Len(order) /\ n \notin old
      BY <2>2
    <3>2. QED
      BY <1>5, <1>6, <3>1
  <2>4. \A n \in m..Len(order) : created[order[n]] < cut
    <3> SUFFICES ASSUME NEW b \in m..Len(order), created[order[b]] >= cut PROVE FALSE
      BY <1>3, <1>6
    <3>1. PICK late : late = {n \in 1..Len(order) : n >= m /\ created[order[n]] >= cut}
      OBVIOUS
    <3>2. Min(late) \in late /\ \A n \in late : Min(late) <= n
      <4>1. PICK len \in Nat : len = Len(order)
        BY <1>3
      <4>2. late \subseteq 1..len /\ b \in late
        BY <2>2, <3>1, <4>1
      <4>3. QED
        BY <4>2, SmallestOf
    <3>3. PICK l \in 1..Len(order) : l \in late /\ \A n \in late : l <= n
      BY <3>1, <3>2
    <3>4. l >= m /\ created[order[l]] >= cut /\ created[order[m]] < cut
      BY <1>5, <2>2, <3>1, <3>3
    <3>5. l # m /\ l - 1 \in 1..Len(order) - 1 /\ l - 1 >= m
      BY <1>3, <1>6, <3>4
    <3>6. created[order[l]] <= created[order[l - 1]]
      BY <1>2, <3>5
    <3>7. created[order[l - 1]] >= cut /\ l - 1 \in 1..Len(order)
      BY <1>3, <1>6, <3>4, <3>5, <3>6
    <3>8. l - 1 \in late
      BY <3>1, <3>5, <3>7
    <3>9. QED
      BY <3>3, <3>8
  <2>5. m - 1 \in 0..Len(order) /\ (m - 1) + 1 = m
    BY <1>3
  <2>6. QED
    BY <1>3, <1>4, <2>3, <2>4, <2>5
<1>9. QED
  BY <1>3, <1>4, <1>7, <1>8

\* The loop yields that first part of the order.
LEMMA WithinIs ==
  ASSUME NEW order \in Seq(ReplicaSet), NEW cut \in Int, NEW k \in 0..Len(order),
         \A n \in 1..Len(order) : created[order[n]] \in Int,
         \A n \in 1..k : created[order[n]] >= cut,
         \A n \in (k + 1)..Len(order) : created[order[n]] < cut
  PROVE  Within(order, cut) = SubSeq(order, 1, k)
<1> DEFINE Rec(f) == f = [n \in 0..Len(order) |->
                            CASE n = 0 -> << >>
                              [] n > 0 /\ created[order[n]] < cut -> f[n - 1]
                              [] OTHER -> Append(f[n - 1], order[n])]
<1>1. \E f : Rec(f)
  <2>1. PICK f : f = [n \in 0..Len(order) |-> SubSeq(order, 1, IF n <= k THEN n ELSE k)]
    OBVIOUS
  <2>2. PICK g : g = [n \in 0..Len(order) |->
                            CASE n = 0 -> << >>
                              [] n > 0 /\ created[order[n]] < cut -> f[n - 1]
                              [] OTHER -> Append(f[n - 1], order[n])]
    OBVIOUS
  <2>3. ASSUME NEW n \in 0..Len(order) PROVE f[n] = g[n]
    <3>1. CASE n = 0
      <4>1. f[n] = SubSeq(order, 1, 0)
        BY <2>1, <3>1
      <4>2. SubSeq(order, 1, 0) = << >>
        OBVIOUS
      <4>3. QED
        BY <2>2, <3>1, <4>1, <4>2
    <3>2. CASE n \in 1..k
      <4>1. n - 1 \in 0..Len(order) /\ n - 1 <= k /\ n <= k /\ ~(created[order[n]] < cut)
        BY <3>2
      <4>2. f[n] = SubSeq(order, 1, n) /\ f[n - 1] = SubSeq(order, 1, n - 1)
        BY <2>1, <4>1
      <4>3. SubSeq(order, 1, n) = Append(SubSeq(order, 1, n - 1), order[n])
        BY <3>2, OneMore
      <4>4. g[n] = Append(f[n - 1], order[n])
        BY <2>2, <3>2, <4>1
      <4>5. QED
        BY <4>2, <4>3, <4>4
    <3>3. CASE n \in (k + 1)..Len(order)
      <4>1. n - 1 \in 0..Len(order) /\ created[order[n]] < cut /\ n > 0
        BY <3>3
      <4>2. f[n] = SubSeq(order, 1, k) /\ f[n - 1] = SubSeq(order, 1, k)
        <5>1. ~(n <= k) /\ (n - 1 <= k => n - 1 = k)
          BY <3>3
        <5>2. QED
          BY <2>1, <4>1, <5>1
      <4>3. g[n] = f[n - 1]
        BY <2>2, <3>3, <4>1
      <4>4. QED
        BY <4>2, <4>3
    <3>4. QED
      BY <3>1, <3>2, <3>3
  <2>4. f = g
    BY <2>1, <2>2, <2>3
  <2>5. Rec(f)
    BY <2>2, <2>4
  <2>6. QED
    BY <2>5
<1>2. Rec(CHOOSE f : Rec(f))
  BY <1>1, Zenon
<1>3. Within(order, cut) = (CHOOSE f : Rec(f))[Len(order)]
  BY Zenon DEF Within
<1>4. PICK f : Rec(f) /\ Within(order, cut) = f[Len(order)]
  BY <1>2, <1>3
<1> HIDE DEF Rec
<1>5. /\ f[0] = << >>
      /\ \A n \in 1..Len(order) : created[order[n]] < cut => f[n] = f[n - 1]
      /\ \A n \in 1..Len(order) : ~(created[order[n]] < cut) => f[n] = Append(f[n - 1], order[n])
  <2>1. f = [n \in 0..Len(order) |->
               CASE n = 0 -> << >>
                 [] n > 0 /\ created[order[n]] < cut -> f[n - 1]
                 [] OTHER -> Append(f[n - 1], order[n])]
    BY <1>4 DEF Rec
  <2>2. f[0] = << >>
    <3>1. 0 \in 0..Len(order)
      OBVIOUS
    <3>2. f[0] = CASE 0 = 0 -> << >>
                   [] 0 > 0 /\ created[order[0]] < cut -> f[0 - 1]
                   [] OTHER -> Append(f[0 - 1], order[0])
      BY <2>1, <3>1
    <3>3. QED
      BY <3>2
  <2>3. ASSUME NEW n \in 1..Len(order)
        PROVE  /\ created[order[n]] < cut => f[n] = f[n - 1]
               /\ ~(created[order[n]] < cut) => f[n] = Append(f[n - 1], order[n])
    <3>1. n \in 0..Len(order) /\ n # 0 /\ n > 0
      OBVIOUS
    <3>2. f[n] = CASE n = 0 -> << >>
                   [] n > 0 /\ created[order[n]] < cut -> f[n - 1]
                   [] OTHER -> Append(f[n - 1], order[n])
      BY <2>1, <3>1
    <3>3. QED
      BY <3>1, <3>2
  <2>4. QED
    BY <2>2, <2>3
<1>6. ASSUME NEW n \in 0..Len(order) PROVE f[n] = SubSeq(order, 1, IF n <= k THEN n ELSE k)
  <2> DEFINE Good(m) == f[m] = SubSeq(order, 1, IF m <= k THEN m ELSE k)
  <2>1. Good(0)
    BY <1>5
  <2>2. ASSUME NEW m \in 1..Len(order), Good(m - 1) PROVE Good(m)
    <3>1. CASE m <= k
      <4>1. f[m - 1] = SubSeq(order, 1, m - 1) /\ ~(created[order[m]] < cut)
        BY <2>2, <3>1
      <4>2. SubSeq(order, 1, m) = Append(SubSeq(order, 1, m - 1), order[m])
        BY OneMore
      <4>3. QED
        BY <1>5, <3>1, <4>1, <4>2
    <3>2. CASE m > k
      <4>1. f[m - 1] = SubSeq(order, 1, k) /\ created[order[m]] < cut
        <5>1. m - 1 <= k => m - 1 = k
          BY <3>2
        <5>2. QED
          BY <2>2, <3>2, <5>1
      <4>2. QED
        BY <1>5, <3>2, <4>1
    <3>3. QED
      BY <3>1, <3>2
  <2> HIDE DEF Good
  <2>3. ASSUME ~Good(n) PROVE FALSE
    <3>1. PICK bad : bad = {m \in 1..Len(order) : ~Good(m)}
      OBVIOUS
    <3>2. n \in bad /\ bad \subseteq 1..Len(order)
      BY <2>1, <2>3, <3>1
    <3>3. Min(bad) \in bad /\ \A m \in bad : Min(bad) <= m
      <4>1. PICK len \in Nat : len = Len(order)
        OBVIOUS
      <4>2. bad \subseteq 1..len
        BY <3>2, <4>1
      <4>3. QED
        BY <3>2, <4>2, SmallestOf
    <3>4. PICK l \in 1..Len(order) : ~Good(l) /\ \A m \in bad : l <= m
      BY <3>1, <3>3
    <3>5. l - 1 \in 0..Len(order) /\ l - 1 \notin bad
      BY <3>4
    <3>6. Good(l - 1)
      BY <2>1, <3>1, <3>5
    <3>7. QED
      BY <2>2, <3>4, <3>6
  <2>4. QED
    BY <2>3 DEF Good
<1>7. QED
  BY <1>4, <1>6

\* What the names of a history are, given the active set and the cut.
Recent(d, a, names, cut) ==
  /\ \A n \in 1..Len(names) : names[n] \in SetsEver(d) /\ names[n] # a
  /\ IsInjective(names)
  /\ created[a] < cut => names = << >>
  /\ (\E n \in 1..Len(names) : created[names[n]] < cut) => Len(names) = 1

LEMMA SetsCreated ==
  ASSUME Types, NEW d \in Deployment
  PROVE  /\ SetsOf(d) \in SUBSET ReplicaSet /\ ActiveReplicaSets(d) \in SUBSET SetsOf(d)
         /\ SetsOf(d) \in SUBSET SetsEver(d)
         /\ \A rs \in SetsOf(d) : created[rs] \in Nat
BY DEF Types, SetsOf, Stands, SetsEver, ActiveReplicaSets, Absent

\* The names that are chosen are recent.
LEMMA NamesAreRecent ==
  ASSUME Types, NEW d \in Deployment, NEW a \in SetsOf(d), NEW order \in Sorted(SetsOf(d) \ {a}), NEW cut \in Int,
         NEW names, names = HistoricalReplicaSetNames(a, order, cut)
  PROVE  names \in Seq(ReplicaSet) /\ Recent(d, a, names, cut)
<1>1. PICK S \in SUBSET ReplicaSet : S = SetsOf(d) \ {a} /\ \A rs \in S : created[rs] \in Nat
  BY SetsCreated
<1>2. /\ order \in Seq(ReplicaSet) /\ IsInjective(order) /\ \A n \in 1..Len(order) : order[n] \in S
      /\ \E k \in 0..Len(order) :
              /\ \A n \in 1..k : created[order[n]] >= cut
              /\ \A n \in (k + 1)..Len(order) : created[order[n]] < cut
  BY <1>1, CutAt
<1>3. PICK k \in 0..Len(order) :
              /\ \A n \in 1..k : created[order[n]] >= cut
              /\ \A n \in (k + 1)..Len(order) : created[order[n]] < cut
  BY <1>2
<1>4. \A n \in 1..Len(order) : created[order[n]] \in Nat
  BY <1>1, <1>2
<1>5. Within(order, cut) = SubSeq(order, 1, k)
  <2>1. \A n \in 1..Len(order) : created[order[n]] \in Int
    BY <1>4
  <2>2. QED
    BY <1>2, <1>3, <2>1, WithinIs
<1>6. PICK within \in Seq(ReplicaSet) : within = Within(order, cut)
  BY <1>2, <1>5
<1>7. Len(within) = k /\ DOMAIN within = 1..k /\ \A n \in 1..k : within[n] = order[n]
  BY <1>2, <1>5, <1>6
<1>8. names = IF created[a] < cut THEN << >>
              ELSE IF within = << >> /\ order # << >> THEN <<Last(order)>>
              ELSE within
  BY <1>6 DEF HistoricalReplicaSetNames
<1>9. \A rs \in S : rs \in SetsEver(d) /\ rs # a
  BY <1>1, SetsCreated
<1>10. created[a] \in Nat
  BY SetsCreated
<1>11. CASE names = << >>
  BY <1>11 DEF Recent, IsInjective
<1>12. CASE names = <<Last(order)>> /\ order # << >> /\ ~(created[a] < cut)
  <2>1. Last(order) \in S
    BY <1>2, <1>12 DEF Last
  <2>2. QED
    BY <1>9, <1>12, <2>1 DEF Recent, IsInjective
<1>13. CASE names = within /\ ~(created[a] < cut)
  <2>1. \A n \in 1..Len(names) : names[n] \in S /\ created[names[n]] >= cut
    BY <1>2, <1>3, <1>7, <1>13
  <2>2. IsInjective(names)
    <3>1. DOMAIN order = 1..Len(order)
      BY <1>2
    <3>2. QED
      BY <1>2, <1>7, <1>13, <3>1 DEF IsInjective
  <2>3. \A n \in 1..Len(names) : created[names[n]] \in Nat
    BY <1>1, <2>1
  <2>4. QED
    BY <1>6, <1>9, <1>13, <2>1, <2>2, <2>3 DEF Recent
<1>15. CASE ~(created[a] < cut) /\ within = << >> /\ order # << >>
  <2>1. names = <<Last(order)>>
    BY <1>8, <1>15
  <2>2. QED
    BY <1>12, <1>15, <2>1
<1>16. CASE ~(created[a] < cut) /\ ~(within = << >> /\ order # << >>)
  <2>1. names = within
    BY <1>8, <1>16
  <2>2. QED
    BY <1>13, <1>16, <2>1
<1>17. CASE created[a] < cut
  <2>1. names = << >>
    BY <1>8, <1>17
  <2>2. QED
    BY <1>11, <2>1
<1>18. QED
  BY <1>15, <1>16, <1>17

\* The read of the replica sets ends in one of two ways.
LEMMA ReadsSets ==
  ASSUME Types, NEW d \in Deployment, ReadReplicaSets(d)
  PROVE  /\ step[d] = "listed" /\ UNCHANGED <<cluster, seenReplicas, itemPods, podList, quiet, steady>>
         /\ \/ /\ ActiveReplicaSets(d) = {} /\ step' = [step EXCEPT ![d] = "failed"]
               /\ UNCHANGED <<active, history, timeCut>>
            \/ \E a \in ActiveReplicaSets(d), names \in Seq(ReplicaSet) :
                 /\ a \in YoungestOf(ActiveReplicaSets(d)) /\ Recent(d, a, names, now - MaxDays)
                 /\ active' = [active EXCEPT ![d] = a]
                 /\ history' = [history EXCEPT ![d] = names]
                 /\ timeCut' = [timeCut EXCEPT ![d] = now - MaxDays]
                 /\ step' = [step EXCEPT ![d] = "sets"]
<1>1. CASE /\ ActiveReplicaSets(d) = {} /\ step' = [step EXCEPT ![d] = "failed"]
           /\ UNCHANGED <<active, history, timeCut>>
  BY <1>1 DEF ReadReplicaSets
<1>2. CASE \E a \in YoungestOf(ActiveReplicaSets(d)) : \E order \in Sorted(SetsOf(d) \ {a}) :
              /\ active' = [active EXCEPT ![d] = a]
              /\ history' = [history EXCEPT ![d] = HistoricalReplicaSetNames(a, order, now - MaxDays)]
              /\ timeCut' = [timeCut EXCEPT ![d] = now - MaxDays]
              /\ step' = [step EXCEPT ![d] = "sets"]
  <2>1. PICK a, order, names :
              /\ a \in YoungestOf(ActiveReplicaSets(d))
              /\ order \in Sorted(SetsOf(d) \ {a})
              /\ names = HistoricalReplicaSetNames(a, order, now - MaxDays)
              /\ active' = [active EXCEPT ![d] = a]
              /\ history' = [history EXCEPT ![d] = names]
              /\ timeCut' = [timeCut EXCEPT ![d] = now - MaxDays]
              /\ step' = [step EXCEPT ![d] = "sets"]
    BY <1>2
  <2>2. a \in ActiveReplicaSets(d) /\ a \in SetsOf(d)
    BY <2>1, SetsCreated DEF YoungestOf
  <2>3. now - MaxDays \in Int
    BY WorkloadPodsAssumption DEF Types
  <2>4. names \in Seq(ReplicaSet) /\ Recent(d, a, names, now - MaxDays)
    BY <2>1, <2>2, <2>3, NamesAreRecent
  <2>5. QED
    BY <2>1, <2>2, <2>4 DEF ReadReplicaSets
<1>3. QED
  BY <1>1, <1>2 DEF ReadReplicaSets

--------------------------------------------------------------------------------
(* Types.                                                                    *)

LEMMA NextCases ==
  ASSUME [Next]_vars
  PROVE  \/ CreatePod \/ PodProceeds \/ ChangeOwner \/ CreateReplicaSet \/ DeleteReplicaSet
         \/ ListPodsInNamespace \/ UNCHANGED vars
         \/ \E d \in Deployment : ListDeployment(d) \/ ReadReplicaSets(d) \/ ReadDeploymentPods(d)
         \/ \E i \in Controller : ListControllerPods(i)
         \/ \E i \in Item : ReadFails(i)
BY DEF Next, ListStatefulsetPods, ListDaemonsetPods, ListJobPods, ListDeploymentPodsAndHistoricalReplicaSets, Controller

LEMMA TypesInit == Init => Types
<1> SUFFICES ASSUME Init PROVE Types
  OBVIOUS
<1>1. podList \in [listed : SUBSET Pod, orphans : SUBSET Pod, done : BOOLEAN]
  BY DEF Init, Unread
<1>2. pods \in [Pod -> [owner : Owner, phase : Phase]]
  BY DEF Init, Owner, Phase
<1>3. history \in [Deployment -> Seq(ReplicaSet)]
  BY DEF Init
<1>4. QED
  BY <1>1, <1>2, <1>3, WorkloadPodsAssumption DEF Init, Types, Step

LEMMA TypesNext == Types /\ [Next]_vars => Types'
<1> SUFFICES ASSUME Types, [Next]_vars PROVE Types'
  OBVIOUS
<1>1. Deployment \subseteq Item /\ Controller \subseteq Item
  BY DEF Item
<1>2. CASE CreatePod
  <2>1. pods' \in [Pod -> [owner : Owner, phase : Phase]]
    BY <1>2 DEF CreatePod, Types, Phase
  <2>2. quiet' \subseteq Deployment
    BY <1>2 DEF CreatePod, Disturb, Types
  <2>3. QED
    BY <1>2, <2>1, <2>2 DEF CreatePod, reads, Types
<1>3. CASE PodProceeds
  <2>1. pods' \in [Pod -> [owner : Owner, phase : Phase]]
    BY <1>3 DEF PodProceeds, Types, Phase, Owner
  <2>2. quiet' \subseteq Deployment /\ steady' \subseteq Pod
    BY <1>3 DEF PodProceeds, Disturb, Types
  <2>3. QED
    BY <1>3, <2>1, <2>2 DEF PodProceeds, reads, Types
<1>13. CASE ChangeOwner
  <2>1. PICK p \in Pod, o \in Owner :
          /\ pods' = [pods EXCEPT ![p].owner = o]
          /\ quiet' = quiet \ {DeploymentOf(q) : q \in {o, pods[p].owner}}
          /\ steady' = IF NothingRead THEN steady ELSE steady \ {p}
          /\ UNCHANGED <<now, created, removed, reads>>
    BY <1>13 DEF ChangeOwner, Disturb
  <2>2. pods' \in [Pod -> [owner : Owner, phase : Phase]]
    BY <2>1 DEF Types
  <2>3. quiet' \subseteq Deployment /\ steady' \subseteq Pod
    BY <2>1 DEF Types
  <2>4. QED
    BY <2>1, <2>2, <2>3 DEF reads, Types
<1>14. CASE DeleteReplicaSet
  <2>1. quiet' \subseteq Deployment /\ removed' \subseteq ReplicaSet
    BY <1>14 DEF DeleteReplicaSet, Disturb, Types
  <2>2. QED
    BY <1>14, <2>1 DEF DeleteReplicaSet, reads, Types
<1>4. CASE CreateReplicaSet
  <2>1. created' \in [ReplicaSet -> {Absent} \cup 0..now]
    BY <1>4 DEF CreateReplicaSet, Types
  <2>2. quiet' \subseteq Deployment
    BY <1>4 DEF CreateReplicaSet, Disturb, Types
  <2>3. QED
    BY <1>4, <2>1, <2>2 DEF CreateReplicaSet, reads, Types
<1>5. CASE ListPodsInNamespace
  <2>1. podList' \in [listed : SUBSET Pod, orphans : SUBSET Pod, done : BOOLEAN]
    BY <1>5 DEF ListPodsInNamespace
  <2>2. QED
    BY <1>5, <2>1 DEF ListPodsInNamespace, cluster, Types
<1>6. ASSUME NEW d \in Deployment, ListDeployment(d) PROVE Types'
  <2>1. StatusReplicas(d) \in Nat
    BY WorkloadPodsAssumption, FS_Subset, FS_CardinalityType DEF StatusReplicas
  <2>2. step' \in [Item -> Step] /\ seenReplicas' \in [Deployment -> Nat] /\ quiet' \subseteq Deployment
    BY <1>1, <1>6, <2>1 DEF ListDeployment, Types, Step
  <2>3. QED
    BY <1>6, <2>2 DEF ListDeployment, cluster, Types
<1>7. ASSUME NEW d \in Deployment, ReadReplicaSets(d) PROVE Types'
  <2>1. UNCHANGED <<now, created, pods, removed, seenReplicas, itemPods, podList, quiet, steady>> /\ now - MaxDays \in Int
    BY <1>7, ReadsSets, WorkloadPodsAssumption DEF cluster, Types
  <2>2. /\ step' \in [Item -> Step] /\ active' \in [Deployment -> ReplicaSet \cup {NoOwner}]
        /\ history' \in [Deployment -> Seq(ReplicaSet)] /\ timeCut' \in [Deployment -> Int]
    <3>1. CASE step' = [step EXCEPT ![d] = "failed"] /\ UNCHANGED <<active, history, timeCut>>
      BY <1>1, <3>1 DEF Types, Step
    <3>2. CASE \E a \in ActiveReplicaSets(d), names \in Seq(ReplicaSet) :
                 /\ active' = [active EXCEPT ![d] = a]
                 /\ history' = [history EXCEPT ![d] = names]
                 /\ timeCut' = [timeCut EXCEPT ![d] = now - MaxDays]
                 /\ step' = [step EXCEPT ![d] = "sets"]
      <4>1. \A a \in ActiveReplicaSets(d) : a \in ReplicaSet
        BY SetsCreated
      <4>2. QED
        BY <1>1, <2>1, <3>2, <4>1 DEF Types, Step
    <3>3. QED
      BY <1>7, <3>1, <3>2, ReadsSets
  <2>3. QED
    BY <2>1, <2>2 DEF Types
<1>8. ASSUME NEW d \in Deployment, ReadDeploymentPods(d) PROVE Types'
  <2>1. Running(active[d]) \subseteq Pod
    BY DEF Running
  <2>2. step' \in [Item -> Step] /\ itemPods' \in [Item -> SUBSET Pod]
    BY <1>1, <1>8, <2>1 DEF ReadDeploymentPods, Types, Step
  <2>3. QED
    BY <1>8, <2>2 DEF ReadDeploymentPods, cluster, Types
<1>9. ASSUME NEW i \in Controller, ListControllerPods(i) PROVE Types'
  <2>1. Running(i) \subseteq Pod
    BY DEF Running
  <2>2. step' \in [Item -> Step] /\ itemPods' \in [Item -> SUBSET Pod]
    BY <1>1, <1>9, <2>1 DEF ListControllerPods, Types, Step
  <2>3. QED
    BY <1>9, <2>2 DEF ListControllerPods, cluster, Types
<1>10. ASSUME NEW i \in Item, ReadFails(i) PROVE Types'
  <2>1. step' \in [Item -> Step] /\ quiet' \subseteq Deployment
    BY <1>10 DEF ReadFails, Types, Step
  <2>2. QED
    BY <1>10, <2>1 DEF ReadFails, cluster, Types
<1>11. CASE UNCHANGED vars
  BY <1>11 DEF vars, cluster, reads, Types
<1>12. QED
  BY <1>2, <1>3, <1>4, <1>5, <1>6, <1>7, <1>8, <1>9, <1>10, <1>11, <1>13, <1>14, NextCases

--------------------------------------------------------------------------------
(* The history.                                                              *)

\* What the read of the replica sets made stays what it was: a day is never changed.
Past ==
  \A d \in Deployment : step[d] \in {"sets", "done"} =>
    active[d] \in SetsEver(d) /\ Recent(d, active[d], history[d], timeCut[d])

\* A replica set keeps the day it was created on.
LEMMA DayIsKept ==
  ASSUME Types, [Next]_vars
  PROVE  \A rs \in ReplicaSet : created[rs] # Absent => created'[rs] = created[rs]
<1>1. CASE CreateReplicaSet
  BY <1>1 DEF CreateReplicaSet, Types
<1>2. CASE created' = created
  BY <1>2
<1>3. QED
  BY <1>1, <1>2, NextCases, ReadsSets DEF CreatePod, PodProceeds, ChangeOwner, DeleteReplicaSet, ListPodsInNamespace,
     ListDeployment, ReadDeploymentPods, ListControllerPods, ReadFails, cluster, vars

\* What was made for a deployment is carried on, or was made in this step.
LEMMA Carries ==
  ASSUME Types, [Next]_vars, NEW d \in Deployment, step'[d] \in {"sets", "done"}
  PROVE  \/ /\ step[d] \in {"sets", "done"} /\ active'[d] = active[d] /\ history'[d] = history[d]
            /\ timeCut'[d] = timeCut[d] /\ seenReplicas'[d] = seenReplicas[d]
         \/ /\ UNCHANGED <<cluster, seenReplicas>> /\ active'[d] \in YoungestOf(ActiveReplicaSets(d))
            /\ active'[d] \in ActiveReplicaSets(d) /\ step[d] = "listed"
            /\ Recent(d, active'[d], history'[d], timeCut'[d])
<1>1. d \in Item /\ d \notin Controller
  BY WorkloadPodsAssumption DEF Item
<1>2. CASE UNCHANGED <<step, active, history, timeCut, seenReplicas>>
  BY <1>2
<1>3. ASSUME NEW e \in Deployment, ListDeployment(e)
      PROVE  d # e /\ step'[d] = step[d] /\ UNCHANGED <<active, history, timeCut>> /\ seenReplicas'[d] = seenReplicas[d]
  BY <1>1, <1>3 DEF ListDeployment, Types
<1>4. ASSUME NEW e \in Deployment, ReadDeploymentPods(e)
      PROVE  step[d] \in {"sets", "done"} /\ UNCHANGED <<active, history, timeCut, seenReplicas>>
  BY <1>1, <1>4 DEF ReadDeploymentPods, Types
<1>5. ASSUME NEW i \in Controller, ListControllerPods(i)
      PROVE  step[d] \in {"sets", "done"} /\ UNCHANGED <<active, history, timeCut, seenReplicas>>
  BY <1>1, <1>5 DEF ListControllerPods, Types
<1>6. ASSUME NEW i \in Item, ReadFails(i)
      PROVE  step[d] \in {"sets", "done"} /\ UNCHANGED <<active, history, timeCut, seenReplicas>>
  BY <1>1, <1>6 DEF ReadFails, Types
<1>7. ASSUME NEW e \in Deployment, ReadReplicaSets(e)
      PROVE  \/ /\ step[d] \in {"sets", "done"} /\ active'[d] = active[d] /\ history'[d] = history[d]
                /\ timeCut'[d] = timeCut[d] /\ seenReplicas'[d] = seenReplicas[d]
             \/ /\ UNCHANGED <<cluster, seenReplicas>> /\ active'[d] \in YoungestOf(ActiveReplicaSets(d))
                /\ active'[d] \in ActiveReplicaSets(d) /\ step[d] = "listed"
                /\ Recent(d, active'[d], history'[d], timeCut'[d])
  <2>1. step[e] = "listed" /\ UNCHANGED <<cluster, seenReplicas>>
    BY <1>7, ReadsSets
  <2>2. CASE step' = [step EXCEPT ![e] = "failed"] /\ UNCHANGED <<active, history, timeCut>>
    BY <1>1, <2>1, <2>2 DEF Types
  <2>3. CASE \E a \in ActiveReplicaSets(e), names \in Seq(ReplicaSet) :
                 /\ a \in YoungestOf(ActiveReplicaSets(e)) /\ Recent(e, a, names, now - MaxDays)
                 /\ active' = [active EXCEPT ![e] = a]
                 /\ history' = [history EXCEPT ![e] = names]
                 /\ timeCut' = [timeCut EXCEPT ![e] = now - MaxDays]
                 /\ step' = [step EXCEPT ![e] = "sets"]
    <3>1. PICK a \in ActiveReplicaSets(e), names \in Seq(ReplicaSet) :
                 /\ a \in YoungestOf(ActiveReplicaSets(e)) /\ Recent(e, a, names, now - MaxDays)
                 /\ active' = [active EXCEPT ![e] = a]
                 /\ history' = [history EXCEPT ![e] = names]
                 /\ timeCut' = [timeCut EXCEPT ![e] = now - MaxDays]
                 /\ step' = [step EXCEPT ![e] = "sets"]
      BY <2>3
    <3>2. CASE e = d
      <4>1. active'[d] = a /\ history'[d] = names /\ timeCut'[d] = now - MaxDays
        BY <3>1, <3>2 DEF Types
      <4>2. QED
        BY <2>1, <3>1, <3>2, <4>1
    <3>3. CASE e # d
      BY <1>1, <2>1, <3>1, <3>3 DEF Types
    <3>4. QED
      BY <3>2, <3>3
  <2>4. QED
    BY <1>7, <2>2, <2>3, ReadsSets
<1>8. CASE \/ CreatePod \/ PodProceeds \/ ChangeOwner \/ CreateReplicaSet \/ DeleteReplicaSet
           \/ ListPodsInNamespace \/ UNCHANGED vars
  BY <1>8 DEF CreatePod, PodProceeds, ChangeOwner, CreateReplicaSet, DeleteReplicaSet, ListPodsInNamespace, reads, vars
<1>9. QED
  BY <1>2, <1>3, <1>4, <1>5, <1>6, <1>7, <1>8, NextCases

\* A recent history stays recent, for the days of its sets are kept.
LEMMA StaysRecent ==
  ASSUME Types, Types', [Next]_vars, NEW d \in Deployment, NEW a \in SetsEver(d), NEW names, NEW cut, Recent(d, a, names, cut)
  PROVE  a \in SetsEver(d)' /\ Recent(d, a, names, cut)'
<1>1. \A rs \in SetsEver(d) : rs \in SetsEver(d)' /\ created'[rs] = created[rs]
  BY DayIsKept DEF SetsEver, Types, Absent
<1>2. QED
  BY <1>1 DEF Recent

LEMMA PastNext ==
  ASSUME Types, Types', Past, [Next]_vars
  PROVE  Past'
<1> SUFFICES ASSUME NEW d \in Deployment, step'[d] \in {"sets", "done"}
             PROVE  active'[d] \in SetsEver(d)' /\ Recent(d, active[d], history[d], timeCut[d])'
  BY DEF Past
<1>1. active'[d] \in SetsEver(d) /\ Recent(d, active'[d], history'[d], timeCut'[d])
  <2>1. CASE /\ step[d] \in {"sets", "done"} /\ active'[d] = active[d] /\ history'[d] = history[d]
             /\ timeCut'[d] = timeCut[d]
    BY <2>1 DEF Past
  <2>2. CASE active'[d] \in ActiveReplicaSets(d) /\ Recent(d, active'[d], history'[d], timeCut'[d])
    BY <2>2, SetsCreated
  <2>3. QED
    BY <2>1, <2>2, Carries
<1>2. PICK a, names, cut : a = active'[d] /\ names = history'[d] /\ cut = timeCut'[d]
  OBVIOUS
<1>3. a \in SetsEver(d)' /\ Recent(d, a, names, cut)'
  BY <1>1, <1>2, StaysRecent
<1>4. QED
  BY <1>2, <1>3 DEF Recent

--------------------------------------------------------------------------------
(* Counting.                                                                 *)

LEMMA RootedNext ==
  ASSUME Types, Types', Rooted, [Next]_vars
  PROVE  Rooted'
<1>1. \A i \in Item : itemPods'[i] # {} => step'[i] = "done"
  <2> SUFFICES ASSUME NEW i \in Item, itemPods'[i] # {} PROVE step'[i] = "done"
    OBVIOUS
  <2>1. Deployment \subseteq Item /\ Controller \subseteq Item
    BY DEF Item
  <2>2. CASE UNCHANGED <<step, itemPods>>
    BY <2>2 DEF Rooted
  <2>3. ASSUME NEW d \in Deployment, ListDeployment(d) \/ ReadReplicaSets(d) PROVE step'[i] = "done"
    <3>1. itemPods' = itemPods /\ step[d] # "done" /\ \A e \in Item : e # d => step'[e] = step[e]
      BY <2>1, <2>3, ReadsSets DEF ListDeployment, Types
    <3>2. QED
      BY <3>1 DEF Rooted
  <2>4. ASSUME NEW d \in Deployment, ReadDeploymentPods(d) PROVE step'[i] = "done"
    BY <2>1, <2>4 DEF ReadDeploymentPods, Types, Rooted
  <2>5. ASSUME NEW c \in Controller, ListControllerPods(c) PROVE step'[i] = "done"
    BY <2>1, <2>5 DEF ListControllerPods, Types, Rooted
  <2>6. ASSUME NEW c \in Item, ReadFails(c) PROVE step'[i] = "done"
    BY <2>6 DEF ReadFails, Types, Rooted
  <2>7. QED
    BY <2>2, <2>3, <2>4, <2>5, <2>6, NextCases DEF CreatePod, PodProceeds, ChangeOwner, CreateReplicaSet,
       DeleteReplicaSet, ListPodsInNamespace, reads, vars
<1>2. podList'.orphans \subseteq podList'.listed /\ (podList'.orphans # {} => podList'.done)
  <2>1. CASE ListPodsInNamespace
    <3>1. podList' = [listed |-> {p \in Pod : Exists(p)}, orphans |-> {p \in {q \in Pod : Exists(q)} : ~IsOwned(p)},
                      done |-> TRUE]
      BY <2>1 DEF ListPodsInNamespace
    <3>2. QED
      BY <3>1
  <2>2. CASE podList' = podList
    BY <2>2 DEF Rooted
  <2>3. QED
    BY <2>1, <2>2, NextCases, ReadsSets DEF ListDeployment, CreatePod, PodProceeds, ChangeOwner, CreateReplicaSet,
       DeleteReplicaSet, ReadDeploymentPods, ListControllerPods, ReadFails, reads, vars
<1>3. QED
  BY <1>1, <1>2 DEF Rooted

\* What a step of the cluster does to the pods that stay as they are: it leaves them
\* alone, unless nothing has been read yet.
LEMMA SteadyStays ==
  ASSUME Types, Counted, CreatePod \/ PodProceeds \/ ChangeOwner \/ CreateReplicaSet \/ DeleteReplicaSet
  PROVE  /\ UNCHANGED reads /\ \A p \in steady' : pods'[p].phase = "running"
         /\ NothingRead \/ \A p \in steady' : p \in steady /\ pods'[p] = pods[p]
<1>1. CASE CreatePod
  <2>1. PICK p \in Pod, o \in Owner :
          pods[p].phase = "unborn" /\ pods' = [pods EXCEPT ![p] = [owner |-> o, phase |-> "pending"]]
    BY <1>1 DEF CreatePod
  <2>2. p \notin steady
    BY <2>1 DEF Counted
  <2>3. \A q \in steady : pods'[q] = pods[q] /\ pods[q].phase = "running"
    BY <2>1, <2>2 DEF Types, Counted
  <2>4. QED
    BY <1>1, <2>3 DEF CreatePod
<1>2. CASE PodProceeds
  <2>1. PICK p \in Pod, phase \in {"running", "succeeded", "gone"} :
          /\ pods' = [pods EXCEPT ![p] = [owner |-> IF phase = "gone" THEN NoOwner ELSE @.owner, phase |-> phase]]
          /\ steady' = IF phase = "running" /\ NothingRead THEN steady \cup {p} ELSE steady \ {p}
          /\ UNCHANGED reads
    BY <1>2 DEF PodProceeds
  <2>2. pods'[p].phase = phase /\ \A q \in Pod : q # p => pods'[q] = pods[q]
    BY <2>1 DEF Types
  <2>3. \A q \in steady' : q # p => q \in steady /\ pods'[q] = pods[q] /\ pods[q].phase = "running"
    BY <2>1, <2>2 DEF Types, Counted
  <2>4. p \in steady' => phase = "running" /\ NothingRead
    BY <2>1
  <2>5. QED
    BY <2>1, <2>2, <2>3, <2>4
<1>3. CASE ChangeOwner
  <2>1. PICK p \in Pod, o \in Owner :
          /\ pods' = [pods EXCEPT ![p].owner = o]
          /\ steady' = IF NothingRead THEN steady ELSE steady \ {p}
          /\ UNCHANGED reads
    BY <1>3 DEF ChangeOwner
  <2>2. pods'[p].phase = pods[p].phase /\ \A q \in Pod : q # p => pods'[q] = pods[q]
    BY <2>1 DEF Types
  <2>3. \A q \in steady' : q \in steady /\ pods'[q].phase = "running"
    BY <2>1, <2>2 DEF Types, Counted
  <2>4. NothingRead \/ p \notin steady'
    BY <2>1
  <2>5. NothingRead \/ \A q \in steady' : q \in steady /\ pods'[q] = pods[q]
    BY <2>2, <2>3, <2>4 DEF Types
  <2>6. QED
    BY <2>1, <2>3, <2>5
<1>4. CASE CreateReplicaSet \/ DeleteReplicaSet
  BY <1>4 DEF CreateReplicaSet, DeleteReplicaSet, Counted
<1>5. QED
  BY <1>1, <1>2, <1>3, <1>4

\* A read of an item's pods counts the pods that stay as they are where they belong.
LEMMA CountedAnew ==
  ASSUME Types, Counted, NEW i \in Item, NEW o,
         i \in Deployment => active[i] = o,
         i \in Controller => i = o,
         itemPods' = [itemPods EXCEPT ![i] = Running(o)], step' = [step EXCEPT ![i] = "done"],
         UNCHANGED <<pods, podList, active, steady>>
  PROVE  Counted'
<1>1. itemPods'[i] = Running(o) /\ \A j \in Item : j # i => itemPods'[j] = itemPods[j] /\ step'[j] = step[j]
  BY DEF Types
<1>2. SUFFICES ASSUME NEW p \in steady
      PROVE  /\ \A c \in Controller : step'[c] = "done" => (p \in itemPods'[c] <=> pods[p].owner = c)
             /\ \A d \in Deployment : step'[d] = "done" => (p \in itemPods'[d] <=> pods[p].owner = active[d])
  BY DEF Counted, IsOwned
<1>3. p \in Pod /\ pods[p].phase = "running"
  BY DEF Types, Counted
<1>4. p \in itemPods'[i] <=> pods[p].owner = o
  BY <1>1, <1>3 DEF Running
<1>5. ASSUME NEW c \in Controller, step'[c] = "done" PROVE p \in itemPods'[c] <=> pods[p].owner = c
  BY <1>1, <1>4, <1>5 DEF Counted, Item
<1>6. ASSUME NEW d \in Deployment, step'[d] = "done" PROVE p \in itemPods'[d] <=> pods[p].owner = active[d]
  BY <1>1, <1>4, <1>6 DEF Counted, Item
<1>7. QED
  BY <1>5, <1>6

LEMMA CountedNext ==
  ASSUME Types, Types', Counted, [Next]_vars
  PROVE  Counted'
<1>1. Deployment \subseteq Item /\ Controller \subseteq Item /\ Deployment \cap Controller = {}
  BY WorkloadPodsAssumption DEF Item
<1>2. CASE CreatePod \/ PodProceeds \/ ChangeOwner \/ CreateReplicaSet \/ DeleteReplicaSet
  <2>1. UNCHANGED <<step, itemPods, podList, active>> /\ \A p \in steady' : pods'[p].phase = "running"
    BY <1>2, SteadyStays DEF reads
  <2>2. CASE NothingRead
    BY <1>1, <2>1, <2>2 DEF NothingRead, Counted
  <2>3. CASE \A p \in steady' : p \in steady /\ pods'[p] = pods[p]
    BY <2>1, <2>3 DEF Counted, IsOwned
  <2>4. QED
    BY <1>2, <2>2, <2>3, SteadyStays
<1>3. ASSUME NEW d \in Deployment, ReadDeploymentPods(d) PROVE Counted'
  BY <1>1, <1>3, CountedAnew DEF ReadDeploymentPods, cluster
<1>4. ASSUME NEW c \in Controller, ListControllerPods(c) PROVE Counted'
  BY <1>1, <1>4, CountedAnew DEF ListControllerPods, cluster
<1>5. CASE ListPodsInNamespace
  <2>1. PICK listed \in SUBSET Pod : listed = {p \in Pod : Exists(p)}
    OBVIOUS
  <2>2. podList'.done /\ podList'.orphans = {p \in listed : ~IsOwned(p)}
    BY <1>5, <2>1 DEF ListPodsInNamespace
  <2>3. UNCHANGED <<pods, itemPods, step, active, steady>>
    BY <1>5 DEF ListPodsInNamespace, cluster
  <2>4. \A p \in steady : p \in listed
    BY <2>1 DEF Types, Counted, Exists
  <2>5. QED
    BY <2>2, <2>3, <2>4 DEF Counted, IsOwned
<1>6. ASSUME NEW i \in Item, step'[i] # "done",
             \A j \in Item : j # i => step'[j] = step[j] /\ (j \in Deployment => active'[j] = active[j]),
             UNCHANGED <<pods, itemPods, podList, steady>>
      PROVE  Counted'
  BY <1>1, <1>6 DEF Counted, IsOwned
<1>7. ASSUME NEW d \in Deployment, ListDeployment(d) PROVE Counted'
  BY <1>1, <1>6, <1>7 DEF ListDeployment, cluster, Types
<1>8. ASSUME NEW i \in Item, ReadFails(i) PROVE Counted'
  BY <1>1, <1>6, <1>8 DEF ReadFails, cluster, Types
<1>9. ASSUME NEW d \in Deployment, ReadReplicaSets(d) PROVE Counted'
  <2>1. UNCHANGED <<pods, itemPods, podList, steady>>
    BY <1>9, ReadsSets DEF cluster
  <2>2. step'[d] # "done" /\ \A j \in Item : j # d => step'[j] = step[j] /\ (j \in Deployment => active'[j] = active[j])
    <3>1. CASE step' = [step EXCEPT ![d] = "failed"] /\ UNCHANGED active
      BY <1>1, <3>1 DEF Types
    <3>2. CASE \E a : active' = [active EXCEPT ![d] = a] /\ step' = [step EXCEPT ![d] = "sets"]
      BY <1>1, <3>2 DEF Types
    <3>3. QED
      BY <1>9, <3>1, <3>2, ReadsSets
  <2>3. QED
    BY <1>1, <1>6, <2>1, <2>2
<1>10. CASE UNCHANGED vars
  BY <1>10 DEF vars, cluster, reads, Counted, IsOwned
<1>11. QED
  BY <1>2, <1>3, <1>4, <1>5, <1>7, <1>8, <1>9, <1>10, NextCases

--------------------------------------------------------------------------------
(* A deployment that is left alone.                                          *)

\* What the reads made of a deployment nothing of which changed since it was listed.
LeftAlone(d) ==
  /\ step[d] # "unlisted" /\ seenReplicas[d] = StatusReplicas(d)
  /\ step[d] \in {"sets", "done"} =>
       /\ active[d] \in SetsOf(d) /\ Replicas(active[d]) = seenReplicas[d]
       /\ seenReplicas[d] = 0 => \A rs \in SetsOf(d) : created[rs] <= created[active[d]]
  /\ step[d] = "done" => itemPods[d] = Running(active[d])
  /\ step[d] = "failed" => ActiveReplicaSets(d) = {}

Quiet == \A d \in quiet : LeftAlone(d)

\* A replica set has no more replicas than its deployment, and when it has as many
\* they are all of the deployment's.
LEMMA ReplicasOfSets ==
  ASSUME NEW d \in Deployment, NEW rs \in SetsOf(d)
  PROVE  /\ Replicas(rs) \in Nat /\ StatusReplicas(d) \in Nat /\ Replicas(rs) <= StatusReplicas(d)
         /\ Replicas(rs) = StatusReplicas(d) => \A p \in Pod : pods[p].owner \in SetsOf(d) /\ Alive(p) => pods[p].owner = rs
         /\ Replicas(rs) = 0 => \A p \in Pod : pods[p].owner = rs => ~Alive(p)
         /\ StatusReplicas(d) # 0 => \E p \in Pod : pods[p].owner \in SetsOf(d) /\ Alive(p)
<1>1. PICK all \in SUBSET Pod : all = {p \in Pod : pods[p].owner \in SetsOf(d) /\ Alive(p)}
  OBVIOUS
<1>2. PICK some \in SUBSET all : some = {p \in Pod : pods[p].owner = rs /\ Alive(p)}
  BY <1>1
<1>3. IsFiniteSet(all) /\ IsFiniteSet(some)
  BY WorkloadPodsAssumption, FS_Subset
<1>4. /\ Cardinality(all) \in Nat /\ Cardinality(some) \in Nat /\ Cardinality(some) <= Cardinality(all)
      /\ Cardinality(all) = Cardinality(some) => all = some
  BY <1>3, FS_Subset, FS_CardinalityType
<1>5. (Cardinality(some) = 0 => some = {}) /\ (Cardinality(all) # 0 => all # {})
  BY <1>3, FS_EmptySet
<1>6. Replicas(rs) = Cardinality(some) /\ StatusReplicas(d) = Cardinality(all)
  BY <1>1, <1>2 DEF Replicas, StatusReplicas
<1>7. QED
  BY <1>1, <1>2, <1>4, <1>5, <1>6

\* A step that leaves a deployment alone leaves its replica sets and their pods.
LEMMA Alone ==
  ASSUME Types, [Next]_vars, NEW d \in Deployment, d \in quiet, d \in quiet'
  PROVE  /\ SetsOf(d)' = SetsOf(d) /\ \A rs \in SetsOf(d) : created'[rs] = created[rs]
         /\ StatusReplicas(d)' = StatusReplicas(d)
         /\ \A rs \in SetsOf(d) : Replicas(rs)' = Replicas(rs) /\ Running(rs)' = Running(rs)
<1>1. ASSUME created' = created, removed' = removed, pods' = pods
      PROVE  /\ SetsOf(d)' = SetsOf(d) /\ \A rs \in SetsOf(d) : created'[rs] = created[rs]
             /\ StatusReplicas(d)' = StatusReplicas(d)
             /\ \A rs \in SetsOf(d) : Replicas(rs)' = Replicas(rs) /\ Running(rs)' = Running(rs)
  <2>1. SetsOf(d)' = SetsOf(d)
    BY <1>1 DEF SetsOf, Stands
  <2>2. QED
    BY <1>1, <2>1 DEF StatusReplicas, Replicas, Running, Alive
<1>2. ASSUME created' = created, removed' = removed,
             \A p \in Pod : pods'[p] = pods[p] \/ (pods'[p].owner \notin SetsOf(d) /\ (pods[p].owner \in SetsOf(d) => ~Alive(p)))
      PROVE  /\ SetsOf(d)' = SetsOf(d) /\ \A rs \in SetsOf(d) : created'[rs] = created[rs]
             /\ StatusReplicas(d)' = StatusReplicas(d)
             /\ \A rs \in SetsOf(d) : Replicas(rs)' = Replicas(rs) /\ Running(rs)' = Running(rs)
  <2>1. SetsOf(d)' = SetsOf(d)
    BY <1>2 DEF SetsOf, Stands
  <2>2. {p \in Pod : pods'[p].owner \in SetsOf(d)' /\ Alive(p)'} = {p \in Pod : pods[p].owner \in SetsOf(d) /\ Alive(p)}
    BY <1>2, <2>1 DEF Alive
  <2>3. StatusReplicas(d)' = StatusReplicas(d)
    BY <2>2 DEF StatusReplicas
  <2>4. ASSUME NEW rs \in SetsOf(d) PROVE Replicas(rs)' = Replicas(rs) /\ Running(rs)' = Running(rs)
    <3>1. {p \in Pod : pods'[p].owner = rs /\ Alive(p)'} = {p \in Pod : pods[p].owner = rs /\ Alive(p)}
      BY <1>2 DEF Alive
    <3>2. {p \in Pod : pods'[p].owner = rs /\ pods'[p].phase = "running"} = {p \in Pod : pods[p].owner = rs /\ pods[p].phase = "running"}
      BY <1>2 DEF Alive
    <3>3. QED
      BY <3>1, <3>2 DEF Replicas, Running
  <2>5. QED
    BY <1>2, <2>1, <2>3, <2>4
<1>3. CASE CreatePod
  <2>1. PICK p \in Pod, o \in Owner :
          /\ pods[p].phase = "unborn" /\ pods' = [pods EXCEPT ![p] = [owner |-> o, phase |-> "pending"]]
          /\ quiet' = quiet \ {DeploymentOf(q) : q \in {o}} /\ UNCHANGED <<created, removed>>
    BY <1>3 DEF CreatePod, Disturb
  <2>2. o \notin SetsOf(d) /\ ~Alive(p)
    BY <2>1 DEF SetsOf, DeploymentOf, Alive
  <2>3. pods'[p].owner = o /\ \A q \in Pod : q # p => pods'[q] = pods[q]
    BY <2>1 DEF Types
  <2>4. QED
    BY <1>2, <2>1, <2>2, <2>3
<1>4. CASE PodProceeds
  <2>1. PICK p \in Pod, phase \in {"running", "succeeded", "gone"} :
          /\ pods' = [pods EXCEPT ![p] = [owner |-> IF phase = "gone" THEN NoOwner ELSE @.owner, phase |-> phase]]
          /\ quiet' = quiet \ {DeploymentOf(q) : q \in {pods[p].owner}} /\ UNCHANGED <<created, removed>>
    BY <1>4 DEF PodProceeds, Disturb
  <2>2. pods[p].owner \notin SetsOf(d) /\ NoOwner \notin SetsOf(d)
    BY <2>1, WorkloadPodsAssumption DEF SetsOf, DeploymentOf
  <2>3. pods'[p].owner \notin SetsOf(d) /\ \A q \in Pod : q # p => pods'[q] = pods[q]
    BY <2>1, <2>2 DEF Types
  <2>4. QED
    BY <1>2, <2>1, <2>2, <2>3
<1>5. CASE CreateReplicaSet
  <2>1. PICK rs \in ReplicaSet : created[rs] = Absent /\ created' = [created EXCEPT ![rs] = now]
                                 /\ quiet' = quiet \ {DeploymentOf(rs)} /\ UNCHANGED <<pods, removed>>
    BY <1>5 DEF CreateReplicaSet, Disturb
  <2>2. RSOwner[rs] # d /\ rs \notin SetsOf(d)
    BY <2>1 DEF SetsOf, DeploymentOf
  <2>3. SetsOf(d)' = SetsOf(d)
    BY <2>1, <2>2 DEF SetsOf, Stands, Types
  <2>4. \A r \in SetsOf(d) : created'[r] = created[r]
    BY <2>1, <2>2 DEF SetsOf, Types
  <2>5. QED
    BY <2>1, <2>3, <2>4 DEF StatusReplicas, Replicas, Running, Alive
<1>7. CASE ChangeOwner
  <2>1. PICK p \in Pod, o \in Owner :
          /\ pods' = [pods EXCEPT ![p].owner = o]
          /\ quiet' = quiet \ {DeploymentOf(q) : q \in {o, pods[p].owner}} /\ UNCHANGED <<created, removed>>
    BY <1>7 DEF ChangeOwner, Disturb
  <2>2. pods[p].owner \notin SetsOf(d) /\ o \notin SetsOf(d)
    BY <2>1 DEF SetsOf, DeploymentOf
  <2>3. pods'[p].owner = o /\ \A q \in Pod : q # p => pods'[q] = pods[q]
    BY <2>1 DEF Types
  <2>4. QED
    BY <1>2, <2>1, <2>2, <2>3
<1>8. CASE DeleteReplicaSet
  <2>1. PICK rs \in ReplicaSet : removed' = removed \cup {rs} /\ quiet' = quiet \ {DeploymentOf(rs)}
                                 /\ UNCHANGED <<created, pods>>
    BY <1>8 DEF DeleteReplicaSet, Disturb
  <2>2. SetsOf(d)' = SetsOf(d)
    BY <2>1 DEF SetsOf, Stands, DeploymentOf
  <2>3. QED
    BY <2>1, <2>2 DEF StatusReplicas, Replicas, Running, Alive
<1>6. QED
  BY <1>1, <1>3, <1>4, <1>5, <1>7, <1>8, NextCases, ReadsSets DEF ListPodsInNamespace, ListDeployment,
     ReadDeploymentPods, ListControllerPods, ReadFails, cluster, vars

\* What a step makes of the reads of a deployment that stays listed.
LEMMA StepsOfReads ==
  ASSUME Types, [Next]_vars, NEW d \in Deployment, d \in quiet', step[d] # "unlisted"
  PROVE  /\ step'[d] # "unlisted" /\ seenReplicas'[d] = seenReplicas[d]
         /\ step'[d] = "done" => \/ step[d] = "done" /\ itemPods'[d] = itemPods[d]
                                 \/ UNCHANGED pods /\ itemPods'[d] = Running(active'[d])
         /\ step'[d] = "failed" => step[d] = "failed" \/ (UNCHANGED cluster /\ ActiveReplicaSets(d) = {})
<1>1. d \in Item /\ d \notin Controller /\ Deployment \subseteq Item
  BY WorkloadPodsAssumption DEF Item
<1>2. CASE UNCHANGED <<step, seenReplicas, itemPods>>
  BY <1>2
<1>3. ASSUME NEW e \in Deployment, ListDeployment(e)
      PROVE  step'[d] = step[d] /\ seenReplicas'[d] = seenReplicas[d] /\ itemPods' = itemPods
  BY <1>1, <1>3 DEF ListDeployment, Types
<1>4. ASSUME NEW e \in Deployment, ReadDeploymentPods(e)
      PROVE  /\ step'[d] # "unlisted" /\ seenReplicas'[d] = seenReplicas[d]
             /\ \/ step'[d] = step[d] /\ itemPods'[d] = itemPods[d]
                \/ UNCHANGED pods /\ itemPods'[d] = Running(active'[d]) /\ step'[d] = "done"
  <2>1. CASE e = d
    BY <1>1, <1>4, <2>1 DEF ReadDeploymentPods, Types, cluster
  <2>2. CASE e # d
    BY <1>1, <1>4, <2>2 DEF ReadDeploymentPods, Types
  <2>3. QED
    BY <2>1, <2>2
<1>5. ASSUME NEW i \in Controller, ListControllerPods(i)
      PROVE  step'[d] = step[d] /\ seenReplicas' = seenReplicas /\ itemPods'[d] = itemPods[d]
  BY <1>1, <1>5 DEF ListControllerPods, Types
<1>6. ASSUME NEW i \in Item, ReadFails(i)
      PROVE  step'[d] = step[d] /\ seenReplicas' = seenReplicas /\ itemPods' = itemPods
  BY <1>1, <1>6 DEF ReadFails, Types
<1>7. ASSUME NEW e \in Deployment, ReadReplicaSets(e)
      PROVE  /\ step'[d] # "unlisted" /\ seenReplicas' = seenReplicas /\ itemPods' = itemPods
             /\ step'[d] = step[d] \/ (step'[d] = "failed" /\ UNCHANGED cluster /\ ActiveReplicaSets(d) = {}) \/ step'[d] = "sets"
  <2>1. step[e] = "listed" /\ UNCHANGED <<cluster, seenReplicas, itemPods>> /\ e \in Item
    BY <1>1, <1>7, ReadsSets
  <2>2. \/ ActiveReplicaSets(e) = {} /\ step' = [step EXCEPT ![e] = "failed"]
        \/ step' = [step EXCEPT ![e] = "sets"]
    BY <1>7, ReadsSets
  <2>3. QED
    BY <1>1, <2>1, <2>2 DEF Types
<1>8. CASE \/ CreatePod \/ PodProceeds \/ ChangeOwner \/ CreateReplicaSet \/ DeleteReplicaSet
           \/ ListPodsInNamespace \/ UNCHANGED vars
  BY <1>8 DEF CreatePod, PodProceeds, ChangeOwner, CreateReplicaSet, DeleteReplicaSet, ListPodsInNamespace, reads, vars
<1>9. QED
  BY <1>2, <1>3, <1>4, <1>5, <1>6, <1>7, <1>8, NextCases

LEMMA QuietNext ==
  ASSUME Types, Types', Quiet, [Next]_vars
  PROVE  Quiet'
<1> SUFFICES ASSUME NEW d \in quiet' PROVE LeftAlone(d)'
  BY DEF Quiet
<1>1. d \in Deployment
  BY DEF Types
<1>2. CASE ListDeployment(d)
  <2>1. step'[d] = "listed" /\ seenReplicas'[d] = StatusReplicas(d) /\ UNCHANGED cluster
    BY <1>1, <1>2 DEF ListDeployment, Types, Item
  <2>2. StatusReplicas(d)' = StatusReplicas(d)
    BY <2>1 DEF StatusReplicas, SetsOf, Stands, Alive, cluster
  <2>3. QED
    BY <2>1, <2>2 DEF LeftAlone
<1>3. CASE ~ListDeployment(d)
  <2>1. d \in quiet
    <3>1. \A e \in Deployment : ListDeployment(e) => e # d
      BY <1>3
    <3>2. QED
      BY <3>1, NextCases, ReadsSets DEF CreatePod, PodProceeds, ChangeOwner, CreateReplicaSet, DeleteReplicaSet, Disturb, ListPodsInNamespace,
         ListDeployment, ReadDeploymentPods, ListControllerPods, ReadFails, vars
  <2>2. LeftAlone(d)
    BY <2>1 DEF Quiet
  <2>3. /\ SetsOf(d)' = SetsOf(d) /\ \A rs \in SetsOf(d) : created'[rs] = created[rs]
        /\ StatusReplicas(d)' = StatusReplicas(d)
        /\ \A rs \in SetsOf(d) : Replicas(rs)' = Replicas(rs) /\ Running(rs)' = Running(rs)
    BY <1>1, <2>1, Alone
  <2>4. /\ step'[d] # "unlisted" /\ seenReplicas'[d] = seenReplicas[d]
        /\ step'[d] = "done" => \/ step[d] = "done" /\ itemPods'[d] = itemPods[d]
                                \/ UNCHANGED pods /\ itemPods'[d] = Running(active'[d])
        /\ step'[d] = "failed" => step[d] = "failed" \/ (UNCHANGED cluster /\ ActiveReplicaSets(d) = {})
    BY <1>1, <2>2, StepsOfReads DEF LeftAlone
  <2>5. step'[d] # "unlisted" /\ seenReplicas'[d] = StatusReplicas(d)'
    BY <2>2, <2>3, <2>4 DEF LeftAlone
  <2>6. ActiveReplicaSets(d)' = ActiveReplicaSets(d)
    BY <2>3, <2>4 DEF ActiveReplicaSets
  <2>7. step'[d] = "failed" => ActiveReplicaSets(d)' = {}
    BY <2>2, <2>4, <2>6 DEF LeftAlone
  <2>8. ASSUME step'[d] \in {"sets", "done"}
        PROVE  /\ active'[d] \in SetsOf(d)
               /\ Replicas(active'[d]) = seenReplicas[d]
               /\ seenReplicas[d] = 0 => \A rs \in SetsOf(d) : created[rs] <= created[active'[d]]
               /\ step[d] = "listed" \/ (step[d] \in {"sets", "done"} /\ active'[d] = active[d])
    <3>1. CASE step[d] \in {"sets", "done"} /\ active'[d] = active[d]
      BY <2>2, <3>1 DEF LeftAlone
    <3>2. CASE active'[d] \in YoungestOf(ActiveReplicaSets(d)) /\ active'[d] \in ActiveReplicaSets(d) /\ step[d] = "listed"
      <4>1. active'[d] \in SetsOf(d) /\ Replicas(active'[d]) = seenReplicas[d]
        BY <3>2 DEF ActiveReplicaSets
      <4>2. seenReplicas[d] = 0 => ActiveReplicaSets(d) = SetsOf(d)
        <5>1. \A rs \in SetsOf(d) : Replicas(rs) \in Nat /\ Replicas(rs) <= StatusReplicas(d)
          BY <1>1, ReplicasOfSets
        <5>2. seenReplicas[d] = StatusReplicas(d)
          BY <2>2 DEF LeftAlone
        <5>3. seenReplicas[d] = 0 => \A rs \in SetsOf(d) : Replicas(rs) = seenReplicas[d]
          BY <5>1, <5>2
        <5>4. QED
          BY <5>3 DEF ActiveReplicaSets
      <4>3. seenReplicas[d] = 0 => \A rs \in SetsOf(d) : created[rs] <= created[active'[d]]
        BY <3>2, <4>2 DEF YoungestOf
      <4>4. QED
        BY <3>2, <4>1, <4>3
    <3>3. QED
      BY <1>1, <2>8, <3>1, <3>2, Carries
  <2>9. ASSUME step'[d] \in {"sets", "done"}
        PROVE  /\ active'[d] \in SetsOf(d)' /\ Replicas(active[d])' = seenReplicas'[d]
               /\ seenReplicas'[d] = 0 => \A rs \in SetsOf(d)' : created'[rs] <= created'[active'[d]]
    <3>1. PICK a \in SetsOf(d) : a = active'[d]
      BY <2>8, <2>9
    <3>2. Replicas(a)' = Replicas(a) /\ Replicas(a) = seenReplicas[d] /\ created'[a] = created[a]
      BY <2>3, <2>8, <2>9, <3>1
    <3>3. Replicas(active[d])' = seenReplicas'[d]
      <4>1. Replicas(active[d])' = Replicas(a)'
        BY <3>1 DEF Replicas
      <4>2. QED
        BY <2>4, <3>2, <4>1
    <3>4. QED
      BY <2>3, <2>4, <2>8, <2>9, <3>1, <3>2, <3>3
  <2>10. ASSUME step'[d] = "done" PROVE itemPods'[d] = Running(active[d])'
    <3>1. PICK a \in SetsOf(d) : a = active'[d]
      BY <2>8, <2>10
    <3>2. Running(active[d])' = Running(a)' /\ Running(a)' = Running(a)
      BY <2>3, <3>1 DEF Running
    <3>3. CASE step[d] = "done" /\ itemPods'[d] = itemPods[d]
      <4>1. active'[d] = active[d] /\ itemPods[d] = Running(active[d])
        BY <2>2, <2>8, <2>10, <3>3 DEF LeftAlone
      <4>2. QED
        BY <3>1, <3>2, <3>3, <4>1
    <3>4. CASE UNCHANGED pods /\ itemPods'[d] = Running(active'[d])
      BY <3>1, <3>2, <3>4
    <3>5. QED
      BY <2>4, <2>10, <3>3, <3>4
  <2>11. QED
    BY <2>5, <2>7, <2>9, <2>10 DEF LeftAlone
<1>4. QED
  BY <1>2, <1>3

--------------------------------------------------------------------------------
(* The theorems.                                                             *)

IInv == Types /\ Past /\ Rooted /\ Counted /\ Quiet

LEMMA IInvInit == Init => IInv
<1> SUFFICES ASSUME Init PROVE IInv
  OBVIOUS
<1>1. Types
  BY TypesInit
<1>2. \A d \in Deployment : step[d] = "unlisted"
  BY DEF Init, Item
<1>3. (\A i \in Item : itemPods[i] = {}) /\ podList.orphans = {} /\ podList.listed = {}
  BY DEF Init, Unread
<1>5. Past
  BY <1>2 DEF Past
<1>6. Rooted
  BY <1>3 DEF Rooted
<1>7. Counted
  BY DEF Init, Counted
<1>8. Quiet
  BY DEF Init, Quiet
<1>9. QED
  BY <1>1, <1>5, <1>6, <1>7, <1>8 DEF IInv

\* The invariant the theorems below follow from.
THEOREM Invariance == Spec => []IInv
<1>1. IInv /\ [Next]_vars => IInv'
  BY TypesNext, PastNext, RootedNext, CountedNext, QuietNext DEF IInv
<1>2. QED
  BY <1>1, IInvInit, PTL DEF Spec

\* Every value has its type (api.go:98-240).
THEOREM TypeCorrect == Spec => []TypeOK
<1>1. ASSUME IInv PROVE TypeOK
  <2>1. \A p \in Pod : pods[p].owner \in Owner
    BY <1>1 DEF IInv, Types
  <2>2. ASSUME NEW d \in Deployment PROVE ToSet(history[d]) \subseteq ReplicaSet
    BY <1>1 DEF IInv, Types, ToSet
  <2>3. \A i \in Item : itemPods[i] \subseteq Pod /\ (itemPods[i] # {} => step[i] = "done")
    BY <1>1 DEF IInv, Types, Rooted
  <2>4. QED
    BY <1>1, <2>1, <2>2, <2>3 DEF IInv, Types, Rooted, Step, TypeOK
<1>2. QED
  BY <1>1, Invariance, PTL

\* A pod that runs under one owner from before the first read on is counted in one
\* place at most, which is its owner's, and there as soon as that is read, however
\* the other pods and the replica sets change between the reads (api.go:98, :232).
THEOREM SteadyPodsAreCountedOnce == Spec => []SteadyPodsCountedOnce
<1>1. ASSUME IInv, TypeOK PROVE SteadyPodsCountedOnce
  <2> SUFFICES ASSUME NEW p \in steady
               PROVE  (\A i, j \in Places(p) : i = j) /\ Places(p) = Home(p) \cap Read
    BY <1>1 DEF SteadyPodsCountedOnce
  <2>1. PICK o : o = pods[p].owner
    OBVIOUS
  <2>2. /\ \A c \in Controller : step[c] = "done" => (p \in itemPods[c] <=> o = c)
        /\ \A d \in Deployment : step[d] = "done" => (p \in itemPods[d] <=> o = active[d])
        /\ podList.done => (p \in podList.orphans <=> o \notin ReplicaSet \cup Controller)
    BY <1>1, <2>1 DEF IInv, Counted, IsOwned
  <2>3. \A d \in Deployment : step[d] = "done" => active[d] \in ReplicaSet /\ RSOwner[active[d]] = d
    BY <1>1 DEF IInv, Past, SetsEver
  <2>4. /\ \A i \in Item : p \in itemPods[i] => step[i] = "done"
        /\ p \in podList.orphans => podList.done
    BY <1>1 DEF IInv, Rooted
  <2>5. /\ Item = Deployment \cup Controller /\ NoOwner \notin Item
        /\ ReplicaSet \cap Controller = {} /\ Deployment \cap Controller = {}
    BY WorkloadPodsAssumption DEF Item
  <2>6. CASE o \in Controller
    <3>1. Home(p) = {o}
      BY <2>1, <2>6 DEF Home
    <3>2. Places(p) = {o} \cap Read
      BY <2>2, <2>3, <2>4, <2>5, <2>6 DEF Places, Read
    <3>3. QED
      BY <3>1, <3>2
  <2>7. CASE o \in ReplicaSet
    <3>1. Home(p) = {d \in Deployment : active[d] = o}
      BY <2>1, <2>5, <2>7 DEF Home
    <3>2. Places(p) = {d \in Deployment : active[d] = o /\ step[d] = "done"}
      BY <2>2, <2>4, <2>5, <2>7 DEF Places
    <3>3. Places(p) = Home(p) \cap Read
      BY <2>5, <3>1, <3>2 DEF Read
    <3>4. \A i, j \in Places(p) : i = j
      BY <2>3, <3>2
    <3>5. QED
      BY <3>3, <3>4
  <2>8. CASE o \notin ReplicaSet \cup Controller
    <3>1. Home(p) = {NoOwner}
      BY <2>1, <2>8 DEF Home
    <3>2. Places(p) = {NoOwner} \cap Read
      BY <2>2, <2>3, <2>4, <2>5, <2>8 DEF Places, Read
    <3>3. QED
      BY <3>1, <3>2
  <2>9. QED
    BY <2>6, <2>7, <2>8
<1>2. QED
  BY <1>1, Invariance, TypeCorrect, PTL

\* The history of a deployment never names its active set, names none twice, nothing at
\* all when the active set covers the cut, and a set from before the cut only alone
\* (api.go:202).
THEOREM HistoriesAreRecent == Spec => []HistoryIsRecent
<1>1. ASSUME IInv PROVE HistoryIsRecent
  <2> SUFFICES ASSUME NEW d \in Deployment, step[d] \in {"sets", "done"}
               PROVE  /\ active[d] \notin ToSet(history[d])
                      /\ IsInjective(history[d])
                      /\ created[active[d]] < timeCut[d] => history[d] = << >>
                      /\ {rs \in ToSet(history[d]) : created[rs] < timeCut[d]} # {} => Len(history[d]) = 1
    BY DEF HistoryIsRecent
  <2>1. history[d] \in Seq(ReplicaSet) /\ Recent(d, active[d], history[d], timeCut[d])
    BY <1>1 DEF IInv, Types, Past
  <2>2. \A rs \in ToSet(history[d]) : \E n \in 1..Len(history[d]) : history[d][n] = rs
    BY <2>1 DEF ToSet
  <2>3. QED
    BY <2>1, <2>2 DEF Recent
<1>2. QED
  BY <1>1, Invariance, PTL

\* A deployment nothing of which changes between its listing and its last read has all
\* its running pods, fails only in a rollout, and is known by its youngest replica set
\* when it is scaled to nothing (api.go:154-200).
THEOREM QuietReadsAreRight == Spec => []QuietReads
<1>1. ASSUME IInv PROVE QuietReads
  <2>1. \A d \in quiet : d \in Deployment /\ LeftAlone(d)
    BY <1>1 DEF IInv, Types, Quiet
  <2>2. ASSUME NEW d \in quiet, step[d] = "done"
        PROVE  itemPods[d] = {p \in Pod : pods[p].phase = "running" /\ pods[p].owner \in SetsOf(d)}
    <3>1. active[d] \in SetsOf(d) /\ itemPods[d] = Running(active[d]) /\ Replicas(active[d]) = StatusReplicas(d)
      BY <2>1, <2>2 DEF LeftAlone
    <3>2. \A p \in Pod : pods[p].owner \in SetsOf(d) /\ Alive(p) => pods[p].owner = active[d]
      BY <2>1, <3>1, ReplicasOfSets
    <3>3. ASSUME NEW p \in Pod, pods[p].phase = "running"
          PROVE  pods[p].owner \in SetsOf(d) <=> pods[p].owner = active[d]
      BY <3>1, <3>2, <3>3 DEF Alive
    <3>4. QED
      BY <3>1, <3>3 DEF Running
  <2>3. ASSUME NEW d \in quiet, step[d] = "failed", SetsOf(d) # {}
        PROVE  \E r1, r2 \in SetsOf(d) : r1 # r2 /\ Replicas(r1) > 0 /\ Replicas(r2) > 0
    <3>1. d \in Deployment /\ \A rs \in SetsOf(d) : Replicas(rs) # StatusReplicas(d)
      BY <2>1, <2>3 DEF LeftAlone, ActiveReplicaSets
    <3>2. ASSUME NEW p \in Pod, pods[p].owner \in SetsOf(d), Alive(p) PROVE Replicas(pods[p].owner) > 0
      BY <3>1, <3>2, ReplicasOfSets
    <3>3. ASSUME NEW p \in Pod, pods[p].owner \in SetsOf(d), Alive(p)
          PROVE  \E q \in Pod : pods[q].owner \in SetsOf(d) /\ Alive(q) /\ pods[q].owner # pods[p].owner
      <4>1. PICK rs \in SetsOf(d) : rs = pods[p].owner
        BY <3>3
      <4>2. IsFiniteSet(Pod)
        BY WorkloadPodsAssumption
      <4>3. Replicas(rs) # StatusReplicas(d)
        BY <3>1
      <4>4. ASSUME \A q \in Pod : pods[q].owner \in SetsOf(d) /\ Alive(q) => pods[q].owner = rs
            PROVE  Replicas(rs) = StatusReplicas(d)
        <5>1. {q \in Pod : pods[q].owner = rs /\ Alive(q)} = {q \in Pod : pods[q].owner \in SetsOf(d) /\ Alive(q)}
          BY <4>4
        <5>2. QED
          BY <5>1 DEF Replicas, StatusReplicas
      <4>5. QED
        BY <4>1, <4>3, <4>4
    <3>4. PICK rs \in SetsOf(d) : TRUE
      BY <2>3
    <3>5. StatusReplicas(d) # 0
      BY <3>1, <3>4, ReplicasOfSets
    <3>6. PICK p \in Pod : pods[p].owner \in SetsOf(d) /\ Alive(p)
      BY <3>1, <3>4, <3>5, ReplicasOfSets
    <3>7. PICK q \in Pod : pods[q].owner \in SetsOf(d) /\ Alive(q) /\ pods[q].owner # pods[p].owner
      BY <3>3, <3>6
    <3>8. Replicas(pods[p].owner) > 0 /\ Replicas(pods[q].owner) > 0
      BY <3>2, <3>6, <3>7
    <3>9. QED
      BY <3>6, <3>7, <3>8
  <2>4. ASSUME NEW d \in quiet, step[d] \in {"sets", "done"}, seenReplicas[d] = 0
        PROVE  \A rs \in SetsOf(d) : created[rs] <= created[active[d]]
    BY <2>1, <2>4 DEF LeftAlone
  <2>5. QED
    BY <2>2, <2>3, <2>4 DEF QuietReads, QuietReadIsComplete, FailsOnlyInRollout, ScaledDownPicksYoungest
<1>2. QED
  BY <1>1, Invariance, PTL

================================================================================

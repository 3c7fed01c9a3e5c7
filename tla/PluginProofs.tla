----------------------------- MODULE PluginProofs -----------------------------
(***************************************************************************)
(* What a user gets to see.                                                *)
(*                                                                         *)
(* For every set of flags, every number of workers, jobs and               *)
(* re-evaluations, and every call that fails: a processor has one source   *)
(* of metrics, and that the results are ready is said neither too early    *)
(* nor, if the callback is registered when the queue empties, too late.    *)
(*                                                                         *)
(* For all items, containers, templates, replicas, answers, nodes and      *)
(* costs: the table adds up, and what is shown with an item, its summary   *)
(* and its exported rows are the same change.                              *)
(***************************************************************************)
EXTENDS PluginStart, ResourceReports, SumTheorems, SequenceTheorems, TLAPS

State == {"kubernetes", "agent", "ping", "prometheus", "configuration", "command", "chart",
          "construct", "finish", "returned", "error", "panicked", "hung"}
Message == {"not ready", "error", "ready", "answer", "chart", "export"}
Stage == Job \cup {"free", "export", "ready"}

\* A command makes one to five processors, each with a first job.
LEMMA FirstJobs ==
  ASSUME NEW c \in Command, c \notin AgentCommand
  PROVE  /\ Len(Processors[c]) \in 1..5 /\ DOMAIN Processors[c] = 1..Len(Processors[c])
         /\ \A n \in 1..Len(Processors[c]) : Processors[c][n] \in Job
<1>1. c \in DOMAIN Processors
  BY DEF Command
<1>2. DOMAIN Processors = {"kubernetes", "kubernetes-pods", "kubernetes-deployments", "kubernetes-statefulsets",
                           "kubernetes-daemonsets", "kubernetes-jobs"}
  BY DEF Processors
<1>3. CASE c = "kubernetes"
  <2>1. Processors[c] = <<"daemonset", "deployment", "statefulset", "job", "pod">>
    BY <1>3 DEF Processors
  <2>2. QED
    BY <2>1 DEF Job
<1>4. CASE c = "kubernetes-pods"
  <2>1. Processors[c] = <<"pod">>
    BY <1>4 DEF Processors
  <2>2. QED
    BY <2>1 DEF Job
<1>5. CASE c = "kubernetes-deployments"
  <2>1. Processors[c] = <<"deployment">>
    BY <1>5 DEF Processors
  <2>2. QED
    BY <2>1 DEF Job
<1>6. CASE c = "kubernetes-statefulsets"
  <2>1. Processors[c] = <<"statefulset">>
    BY <1>6 DEF Processors
  <2>2. QED
    BY <2>1 DEF Job
<1>7. CASE c = "kubernetes-daemonsets"
  <2>1. Processors[c] = <<"daemonset">>
    BY <1>7 DEF Processors
  <2>2. QED
    BY <2>1 DEF Job
<1>8. CASE c = "kubernetes-jobs"
  <2>1. Processors[c] = <<"job">>
    BY <1>8 DEF Processors
  <2>2. QED
    BY <2>1 DEF Job
<1>9. QED
  BY <1>1, <1>2, <1>3, <1>4, <1>5, <1>6, <1>7, <1>8

--------------------------------------------------------------------------------
(* Types, and the source of the metrics.                                     *)

Types == TypeOK /\ pc \in State /\ sent \in Seq(Message) /\ ran \subseteq Job /\ early \in BOOLEAN

\* Where StartProcess is when it may have made processors, and when it knows its source.
Making == {"construct", "finish", "returned"}
Connecting == {"kubernetes", "agent", "ping", "prometheus"}

\* Prometheus is connected in one step, after the agent is known and for good.
Sourced ==
  /\ pc \in Connecting => ~prometheus.connected
  /\ pc \in Making \cup {"configuration", "command", "chart"} => agent.enabled # prometheus.connected
  /\ made > 0 => pc \in Making
  /\ pc \in {"chart", "construct", "finish"} => command \notin AgentCommand

SourceInv == Types /\ Sourced

LEMMA SourceInit == Init => SourceInv
<1> SUFFICES ASSUME Init PROVE SourceInv
  OBVIOUS
<1>1. Types
  <2>1. queue \in [Job -> Nat] /\ work \in [Worker -> Stage] /\ sent \in Seq(Message)
    BY DEF Init, Stage
  <2>2. conf.days >= 1 /\ conf.waits \in BOOLEAN
    BY DEF Init
  <2>3. agent \in [address : {"none", "given", "forwarded"}, enabled : BOOLEAN]
    BY DEF Init
  <2>4. prometheus \in [connected : BOOLEAN, auth : {"none", "basic", "oauth2"}]
    BY DEF Init
  <2>5. command \in Command /\ flags \in FlagSets /\ made \in 0..5 /\ ran \subseteq Job /\ pc \in State
    BY DEF Init, State
  <2>6. listed \in BOOLEAN /\ processor \in BOOLEAN /\ onFinish \in BOOLEAN /\ early \in BOOLEAN
    BY Zenon DEF Init
  <2>7. QED
    BY <2>1, <2>2, <2>3, <2>4, <2>5, <2>6 DEF Types, TypeOK, Stage
<1>2. Sourced
  BY DEF Init, Sourced, Making
<1>3. QED
  BY <1>1, <1>2 DEF SourceInv

LEMMA SourceNext == SourceInv /\ [Next]_vars => SourceInv'
<1> SUFFICES ASSUME SourceInv, [Next]_vars PROVE SourceInv'
  OBVIOUS
<1>1. Types /\ Sourced /\ TypeOK /\ sent \in Seq(Message)
  BY DEF SourceInv, Types
<1>2. \A m \in Message : Append(sent, m) \in Seq(Message)
  BY <1>1
<1>3. \A j \in Job : queue[j] \in Nat
  BY <1>1 DEF TypeOK
<1>4. CASE ConnectCluster
  BY <1>1, <1>4 DEF ConnectCluster, connection, jobs, SourceInv, Types, TypeOK, State, Sourced, Making, Connecting
<1>5. CASE ConnectAgent
  <2>1. agent' \in [address : {"none", "given", "forwarded"}, enabled : BOOLEAN]
    BY <1>5 DEF ConnectAgent
  <2>2. QED
    BY <1>1, <1>5, <2>1 DEF ConnectAgent, Step, jobs, SourceInv, Types, TypeOK, State, Sourced, Making, Connecting
<1>6. CASE PingAgent
  BY <1>1, <1>6 DEF PingAgent, Step, connection, jobs, SourceInv, Types, TypeOK, State, Sourced, Making, Connecting
<1>7. CASE ConnectPrometheus
  <2>1. prometheus' \in [connected : BOOLEAN, auth : {"none", "basic", "oauth2"}]
    BY <1>1, <1>7 DEF ConnectPrometheus, AuthType, TypeOK
  <2>2. agent.enabled \in BOOLEAN /\ agent.enabled # prometheus'.connected
    BY <1>1, <1>7 DEF ConnectPrometheus, NeedsPrometheus, Step, TypeOK, Sourced, Connecting
  <2>3. sent' \in Seq(Message)
    BY <1>2, <1>7 DEF ConnectPrometheus, Message
  <2>4. QED
    BY <1>1, <1>7, <2>1, <2>2, <2>3 DEF ConnectPrometheus, Step, jobs, SourceInv, Types, TypeOK, State, Sourced, Making, Connecting
<1>8. CASE Configure
  <2>1. flags.days \in Int
    BY <1>1, StartAssumption DEF TypeOK, Flags
  <2>2. conf'.days >= 1 /\ conf'.waits \in BOOLEAN
    BY <1>8, <2>1 DEF Configure
  <2>3. QED
    BY <1>1, <1>8, <2>2 DEF Configure, Step, jobs, SourceInv, Types, TypeOK, State, Sourced, Making, Connecting
<1>9. CASE CallFails \/ CallHangs
  <2>1. pc' \in {"error", "hung"} /\ UNCHANGED <<connection, jobs, made, processor, onFinish, sent, reevaluations>>
    BY <1>9 DEF CallFails, CallHangs
  <2>2. pc \notin Making
    BY <1>9 DEF CallFails, CallHangs, InCall, Making
  <2>3. QED
    BY <1>1, <2>1, <2>2 DEF connection, jobs, SourceInv, Types, TypeOK, State, Sourced, Making, Connecting
<1>10. CASE NoAgent \/ AgentAnswers \/ TriggerFails \/ JobStatusFails
  <2>1. sent' \in Seq(Message)
    <3>1. \A m1, m2 \in Message : sent \o <<m1, m2>> \in Seq(Message)
      BY <1>1
    <3>2. QED
      BY <1>1, <1>2, <3>1, <1>10 DEF NoAgent, AgentAnswers, TriggerFails, JobStatusFails, AskAgent, Message
  <2>2. /\ UNCHANGED <<connection, jobs, made, processor, onFinish, reevaluations>>
        /\ pc = "command" /\ pc' \in {"returned", "error", "panicked"}
    BY <1>10 DEF NoAgent, AgentAnswers, TriggerFails, JobStatusFails, AskAgent
  <2>3. QED
    BY <1>1, <2>1, <2>2 DEF connection, jobs, SourceInv, Types, TypeOK, State, Sourced, Making, Connecting
<1>11. CASE NodesProcessor
  <2>1. queue' \in [Job -> Nat]
    BY <1>1, <1>3, <1>11 DEF NodesProcessor, Push, TypeOK, Job
  <2>2. QED
    BY <1>1, <1>11, <2>1 DEF NodesProcessor, connection, SourceInv, Types, TypeOK, State, Sourced, Making, Connecting
<1>12. CASE UpdateChart
  <2>1. sent' \in Seq(Message) /\ pc = "chart" /\ pc' \in {"construct", "error"}
    BY <1>1, <1>2, <1>12 DEF UpdateChart, Message
  <2>2. QED
    BY <1>1, <1>12, <2>1 DEF UpdateChart, connection, jobs, SourceInv, Types, TypeOK, State, Sourced, Making, Connecting
<1>13. CASE Construct
  <2>1. /\ pc = "construct" /\ made \in Nat /\ command \in Command /\ command \notin AgentCommand
        /\ Len(Processors[command]) \in 1..5 /\ made < Len(Processors[command])
    BY <1>1, <1>13, FirstJobs DEF Construct, TypeOK, Sourced
  <2>2. queue' \in [Job -> Nat]
    <3>1. Processors[command][made + 1] \in Job
      BY <2>1, FirstJobs
    <3>2. QED
      BY <1>1, <1>3, <1>13, <3>1 DEF Construct, Push, TypeOK
  <2>3. made' \in 0..5
    BY <1>13, <2>1 DEF Construct
  <2>4. QED
    BY <1>1, <1>13, <2>1, <2>2, <2>3 DEF Construct, connection, SourceInv, Types, TypeOK, State, Sourced, Making, Connecting
<1>14. CASE Assign \/ SetOnFinish
  BY <1>1, <1>14 DEF Assign, SetOnFinish, Step, connection, jobs, SourceInv, Types, TypeOK, State, Sourced, Making, Connecting
<1>15. CASE ReEvaluate
  <2>1. queue' \in [Job -> Nat]
    BY <1>1, <1>3, <1>15 DEF ReEvaluate, Push, TypeOK, Job
  <2>2. QED
    BY <1>1, <1>15, <2>1 DEF ReEvaluate, connection, SourceInv, Types, TypeOK, Sourced
<1>16. ASSUME NEW w \in Worker, Take(w) PROVE SourceInv'
  <2>1. queue' \in [Job -> Nat] /\ work' \in [Worker -> Stage]
    BY <1>1, <1>3, <1>16 DEF Take, TypeOK, Stage
  <2>2. QED
    BY <1>1, <1>16, <2>1 DEF Take, connection, SourceInv, Types, TypeOK, Sourced, Stage
<1>17. ASSUME NEW w \in Worker, PushFollower(w) PROVE SourceInv'
  <2>1. queue' \in [Job -> Nat]
    BY <1>1, <1>3, <1>17 DEF PushFollower, Push, TypeOK, Job
  <2>2. QED
    BY <1>1, <1>17, <2>1 DEF PushFollower, connection, SourceInv, Types, TypeOK, Sourced
<1>18. ASSUME NEW w \in Worker, EndJob(w) PROVE SourceInv'
  <2>1. work' \in [Worker -> Stage] /\ listed' \in BOOLEAN /\ ran' \subseteq Job /\ early' \in BOOLEAN
    BY <1>1, <1>18 DEF EndJob, Types, TypeOK, Stage
  <2>2. QED
    BY <1>1, <1>18, <2>1 DEF EndJob, connection, SourceInv, Types, TypeOK, Sourced, Stage
<1>19. ASSUME NEW w \in Worker, Publish(w) PROVE SourceInv'
  <2>1. work' \in [Worker -> Stage] /\ sent' \in Seq(Message)
    BY <1>1, <1>2, <1>19 DEF Publish, TypeOK, Stage, Message
  <2>2. QED
    BY <1>1, <1>19, <2>1 DEF Publish, connection, SourceInv, Types, TypeOK, Sourced, Stage
<1>20. CASE UNCHANGED vars
  BY <1>1, <1>20 DEF vars, connection, jobs, SourceInv, Types, TypeOK, Sourced
<1>21. QED
  BY <1>4, <1>5, <1>6, <1>7, <1>8, <1>9, <1>10, <1>11, <1>12, <1>13, <1>14, <1>15, <1>16, <1>17, <1>18, <1>19, <1>20
  DEF Next, Start, Waiting, WorkerStep

\* OneSource: a processor is made with the agent or with Prometheus, never with both or none.
THEOREM OneSourceOnly == Spec => []OneSource
<1>1. SourceInv => OneSource
  BY DEF SourceInv, Types, Sourced, Making, OneSource
<1>2. QED
  BY <1>1, SourceInit, SourceNext, PTL DEF Spec

--------------------------------------------------------------------------------
(* What is announced.                                                        *)

Asks == command \in AgentCommand
FirstJob(n) == Processors[command][n]
AllRan == \A n \in 1..Len(Processors[command]) : FirstJob(n) \in ran

\* A command to the agent makes no job; for the others the callback is registered when
\* all processors are made, at the end of the start.
Registered ==
  /\ Asks => /\ (\A j \in Job : queue[j] = 0) /\ (\A w \in Worker : work[w] = "free")
             /\ ~onFinish /\ ~processor
  /\ ~Asks => (onFinish <=> pc = "returned")
  /\ (~Asks /\ pc \in {"finish", "returned"}) => made = Len(Processors[command])
  /\ pc # "returned" => reevaluations = 0

\* A job is queued, runs, or ran; and so does the first of every processor that was made.
InPlace(j) == j \in ran \/ queue[j] > 0 \/ \E w \in Worker : work[w] = j
Accounted ==
  ~Asks => made <= Len(Processors[command]) /\ \A n \in 1..made : InPlace(FirstJob(n))

\* The callback is called when they ran.
Called ==
  ~Asks => /\ Ready => AllRan
           /\ \A w \in Worker : work[w] \in {"export", "ready"} => onFinish /\ AllRan

\* Something is left to do.
Active == (\E j \in Job : queue[j] > 0) \/ \E w \in Worker : work[w] # "free"

\* From the listing of the nodes on the queue is empty only if it was noticed, or after
\* the callback was called.
Noticed ==
  /\ (pc \in {"chart", "construct", "finish"} /\ ~early) => Active
  /\ (pc = "returned" /\ ~Active /\ (reevaluations > 0 \/ ~early)) => (sent # <<>> /\ sent[Len(sent)] = "ready")

AnnounceInv == SourceInv /\ Registered /\ Accounted /\ Called /\ Noticed

LEMMA AnnounceInit == Init => AnnounceInv
<1> SUFFICES ASSUME Init PROVE AnnounceInv
  OBVIOUS
<1>1. SourceInv
  BY SourceInit
<1>2. Registered
  BY DEF Init, Registered, Asks
<1>3. Accounted
  BY DEF Init, Accounted
<1>4. Called
  BY DEF Init, Called, Ready
<1>5. Noticed
  BY DEF Init, Noticed
<1>6. QED
  BY <1>1, <1>2, <1>3, <1>4, <1>5 DEF AnnounceInv

\* The steps of StartProcess before the command.
Prepare == \/ ConnectCluster \/ ConnectAgent \/ PingAgent \/ ConnectPrometheus \/ Configure \/ CallFails
           \/ CallHangs /\ pc # "command"

Answer == NoAgent \/ AgentAnswers \/ TriggerFails \/ JobStatusFails \/ (CallHangs /\ pc = "command")

LEMMA Prepares ==
  ASSUME Prepare
  PROVE  /\ pc \in Connecting \cup {"configuration"}
         /\ pc' \in Connecting \cup {"configuration", "command", "error", "hung"}
         /\ UNCHANGED <<command, jobs, made, processor, onFinish, reevaluations>>
         /\ sent' = sent \/ sent' = Append(sent, "not ready")
BY DEF Prepare, ConnectCluster, ConnectAgent, PingAgent, ConnectPrometheus, Configure, CallFails, CallHangs, InCall, Step,
     Connecting, connection

LEMMA Answers ==
  ASSUME Answer
  PROVE  /\ pc = "command" /\ Asks /\ pc' \in {"returned", "error", "panicked", "hung"}
         /\ UNCHANGED <<command, jobs, made, processor, onFinish, reevaluations>>
         /\ pc' = "returned" => \E m \in Message : sent' = sent \o <<m, "ready">>
BY DEF Answer, NoAgent, AgentAnswers, TriggerFails, JobStatusFails, CallHangs, InCall, AskAgent, Asks, connection, Message

LEMMA Cases ==
  ASSUME [Next]_vars
  PROVE  \/ Prepare \/ Answer \/ NodesProcessor \/ UpdateChart \/ Construct \/ Assign \/ SetOnFinish \/ ReEvaluate
         \/ \E w \in Worker : Take(w) \/ PushFollower(w) \/ EndJob(w) \/ Publish(w)
         \/ UNCHANGED vars
BY DEF Next, Start, Waiting, WorkerStep, Prepare, Answer

LEMMA RegisteredNext == SourceInv /\ Registered /\ [Next]_vars => Registered'
<1> SUFFICES ASSUME SourceInv, Registered, [Next]_vars PROVE Registered'
  OBVIOUS
<1>1. TypeOK /\ Sourced
  BY DEF SourceInv, Types
<1>2. queue \in [Job -> Nat] /\ work \in [Worker -> Stage]
  BY <1>1 DEF TypeOK, Stage
<1>3. CASE Prepare
  <2>1. pc # "returned" /\ pc' \notin {"finish", "returned"}
    BY <1>3, Prepares DEF Connecting
  <2>2. UNCHANGED <<command, queue, work, made, processor, onFinish, reevaluations>>
    BY <1>3, Prepares DEF jobs
  <2>3. QED
    BY <2>1, <2>2 DEF Registered, Asks
<1>4. CASE Answer
  BY <1>4, Answers DEF Registered, Asks, jobs
<1>5. CASE NodesProcessor
  BY <1>5 DEF NodesProcessor, Registered, Asks, connection
<1>6. CASE UpdateChart
  BY <1>1, <1>6 DEF UpdateChart, Registered, Sourced, Asks, connection, jobs
<1>7. CASE Construct
  BY <1>1, <1>7 DEF Construct, Registered, Sourced, Asks, connection
<1>8. CASE Assign
  BY <1>1, <1>8 DEF Assign, Step, Registered, Sourced, Asks, connection, jobs
<1>9. CASE SetOnFinish
  BY <1>1, <1>9 DEF SetOnFinish, Step, Registered, Sourced, Asks, connection, jobs
<1>10. CASE ReEvaluate
  BY <1>10 DEF ReEvaluate, Registered, Asks, connection
<1>11. ASSUME NEW w \in Worker, Take(w) PROVE Registered'
  BY <1>2, <1>11 DEF Take, Registered, Asks, connection
<1>12. ASSUME NEW w \in Worker, PushFollower(w) PROVE Registered'
  BY <1>12 DEF PushFollower, Registered, Asks, connection, Job
<1>13. ASSUME NEW w \in Worker, EndJob(w) PROVE Registered'
  BY <1>13 DEF EndJob, Registered, Asks, connection, Job
<1>14. ASSUME NEW w \in Worker, Publish(w) PROVE Registered'
  BY <1>14 DEF Publish, Registered, Asks, connection
<1>15. CASE UNCHANGED vars
  BY <1>15 DEF vars, connection, jobs, Registered, Asks
<1>16. QED
  BY <1>3, <1>4, <1>5, <1>6, <1>7, <1>8, <1>9, <1>10, <1>11, <1>12, <1>13, <1>14, <1>15, Cases

\* A job that was pushed stays queued, runs, or ran.
LEMMA StaysInPlace ==
  ASSUME SourceInv, [Next]_vars, NEW j \in Job, InPlace(j)
  PROVE  InPlace(j)'
<1>1. /\ queue \in [Job -> Nat] /\ work \in [Worker -> Stage]
      /\ j \notin {"free", "export", "ready"}
  BY DEF SourceInv, Types, TypeOK, Stage, Job
<1>2. UNCHANGED <<ran, queue, work>> => InPlace(j)'
  BY DEF InPlace
<1>3. ASSUME NEW i \in Job, Push(i), UNCHANGED <<ran, work>> PROVE InPlace(j)'
  <2>1. queue[j] > 0 => queue'[j] > 0
    BY <1>1, <1>3 DEF Push
  <2>2. QED
    BY <1>3, <2>1 DEF InPlace
<1>4. CASE Prepare \/ Answer \/ UpdateChart \/ Assign \/ SetOnFinish
  BY <1>2, <1>4, Prepares, Answers DEF UpdateChart, Assign, SetOnFinish, jobs
<1>5. CASE NodesProcessor
  BY <1>3, <1>5 DEF NodesProcessor, Job
<1>6. CASE Construct
  <2>1. /\ pc = "construct" /\ command \in Command /\ command \notin AgentCommand /\ made \in Nat
        /\ made < Len(Processors[command])
    BY <1>6 DEF Construct, SourceInv, Types, TypeOK, Sourced
  <2>2. Processors[command][made + 1] \in Job
    BY <2>1, FirstJobs
  <2>3. QED
    BY <1>3, <1>6, <2>2 DEF Construct
<1>7. CASE ReEvaluate
  BY <1>3, <1>7 DEF ReEvaluate, Job
<1>8. ASSUME NEW w \in Worker, Take(w) PROVE InPlace(j)'
  <2>1. PICK i \in Job : /\ queue[i] > 0 /\ queue' = [queue EXCEPT ![i] = @ - 1]
                         /\ work' = [work EXCEPT ![w] = i]
    BY <1>8 DEF Take
  <2>2. CASE i = j
    BY <1>1, <2>1, <2>2 DEF InPlace
  <2>3. CASE i # j
    <3>1. queue'[j] = queue[j] /\ \A v \in Worker : work[v] = j => work'[v] = j
      BY <1>1, <1>8, <2>1, <2>3 DEF Take
    <3>2. QED
      BY <1>8, <3>1 DEF InPlace, Take
  <2>4. QED
    BY <2>2, <2>3
<1>9. ASSUME NEW w \in Worker, PushFollower(w) PROVE InPlace(j)'
  BY <1>3, <1>9 DEF PushFollower, Job
<1>10. ASSUME NEW w \in Worker, EndJob(w) PROVE InPlace(j)'
  <2>1. ran' = ran \cup {work[w]} /\ queue' = queue /\ \A v \in Worker \ {w} : work'[v] = work[v]
    BY <1>1, <1>10 DEF EndJob
  <2>2. QED
    BY <2>1 DEF InPlace
<1>11. ASSUME NEW w \in Worker, Publish(w) PROVE InPlace(j)'
  <2>1. ran' = ran /\ queue' = queue /\ work[w] # j /\ \A v \in Worker \ {w} : work'[v] = work[v]
    BY <1>1, <1>11 DEF Publish
  <2>2. QED
    BY <2>1 DEF InPlace
<1>12. CASE UNCHANGED vars
  BY <1>2, <1>12 DEF vars, jobs
<1>13. QED
  BY <1>4, <1>5, <1>6, <1>7, <1>8, <1>9, <1>10, <1>11, <1>12, Cases

LEMMA CommandKept ==
  ASSUME [Next]_vars
  PROVE  command' = command
BY Cases, Prepares, Answers
DEF NodesProcessor, UpdateChart, Construct, Assign, SetOnFinish, ReEvaluate, Take, PushFollower, EndJob, Publish,
    vars, connection

LEMMA AccountedNext == SourceInv /\ Accounted /\ [Next]_vars => Accounted'
<1> SUFFICES ASSUME SourceInv, Accounted, [Next]_vars, ~Asks PROVE Accounted'
  BY CommandKept DEF Accounted, Asks
<1>1. /\ command' = command /\ command \in Command /\ command \notin AgentCommand /\ made \in 0..5
      /\ queue \in [Job -> Nat]
  BY CommandKept DEF SourceInv, Types, TypeOK, Asks
<1>2. \A n \in 1..Len(Processors[command]) : FirstJob(n) \in Job /\ FirstJob(n)' = FirstJob(n)
  BY <1>1, FirstJobs DEF FirstJob
<1>3. CASE Construct
  <2>1. /\ made' = made + 1 /\ made < Len(Processors[command]) /\ Len(Processors[command]) \in 1..5
        /\ queue' = [queue EXCEPT ![FirstJob(made + 1)] = @ + 1]
    BY <1>1, <1>3, FirstJobs DEF Construct, Push, FirstJob
  <2>2. ASSUME NEW n \in 1..made' PROVE \E j \in Job : j = FirstJob(n)' /\ InPlace(j)'
    <3>1. PICK j \in Job : j = FirstJob(n) /\ j = FirstJob(n)'
      BY <1>1, <1>2, <2>1
    <3>2. CASE n \in 1..made
      <4>1. InPlace(j)
        BY <3>1, <3>2 DEF Accounted
      <4>2. QED
        BY <3>1, <4>1, StaysInPlace
    <3>3. CASE n = made + 1
      <4>1. queue[j] \in Nat /\ queue'[j] = queue[j] + 1
        BY <1>1, <2>1, <3>1, <3>3
      <4>2. InPlace(j)'
        BY <4>1 DEF InPlace
      <4>3. QED
        BY <3>1, <4>2
    <3>4. QED
      BY <1>1, <2>1, <3>2, <3>3
  <2>3. QED
    BY <1>1, <2>1, <2>2 DEF Accounted
<1>4. CASE ~Construct
  <2>1. made' = made
    BY <1>4, Cases, Prepares, Answers
    DEF NodesProcessor, UpdateChart, Assign, SetOnFinish, ReEvaluate, Take, PushFollower, EndJob, Publish, vars
  <2>2. ASSUME NEW n \in 1..made PROVE \E j \in Job : j = FirstJob(n)' /\ InPlace(j)'
    <3>1. n \in 1..Len(Processors[command])
      BY <1>1, FirstJobs DEF Accounted, Asks
    <3>2. PICK j \in Job : j = FirstJob(n) /\ j = FirstJob(n)'
      BY <1>2, <3>1
    <3>3. InPlace(j)
      BY <3>2 DEF Accounted
    <3>4. QED
      BY <3>2, <3>3, StaysInPlace
  <2>3. QED
    BY <1>1, <2>1, <2>2 DEF Accounted
<1>5. QED
  BY <1>3, <1>4

\* The worker that ends the last job is the last one at a job, and nothing is queued.
LEMMA LastJob ==
  ASSUME SourceInv, Registered, Accounted, NEW w \in Worker, EndJob(w), Drained(w), onFinish
  PROVE  ~Asks => AllRan'
<1> SUFFICES ASSUME ~Asks PROVE AllRan'
  OBVIOUS
<1>1. /\ command \in Command /\ command \notin AgentCommand /\ pc = "returned"
      /\ made = Len(Processors[command]) /\ queue \in [Job -> Nat]
  BY DEF SourceInv, Types, TypeOK, Asks, Registered
<1>2. command' = command /\ ran' = ran \cup {work[w]}
  BY DEF EndJob, connection
<1>3. ASSUME NEW n \in 1..Len(Processors[command]) PROVE FirstJob(n) \in ran'
  <2>1. FirstJob(n) \in Job /\ InPlace(FirstJob(n))
    BY <1>1, FirstJobs DEF Accounted, FirstJob
  <2>2. queue[FirstJob(n)] = 0 /\ \A v \in Worker \ {w} : work[v] # FirstJob(n)
    BY <2>1 DEF Drained
  <2>3. QED
    BY <1>2, <2>1, <2>2 DEF InPlace
<1>4. QED
  BY <1>2, <1>3 DEF AllRan, FirstJob

LEMMA CalledNext == SourceInv /\ Registered /\ Accounted /\ Called /\ [Next]_vars => Called'
<1> SUFFICES ASSUME SourceInv, Registered, Accounted, Called, [Next]_vars, ~Asks PROVE Called'
  BY CommandKept DEF Called, Asks
<1>1. /\ command' = command /\ work \in [Worker -> Stage] /\ sent \in Seq(Message) /\ Sourced
  BY CommandKept DEF SourceInv, Types, TypeOK, Stage
<1>2. AllRan => AllRan'
  <2>1. ran \subseteq ran'
    BY Cases, Prepares, Answers
    DEF NodesProcessor, UpdateChart, Construct, Assign, SetOnFinish, ReEvaluate, Take, PushFollower, EndJob, Publish,
        vars, jobs
  <2>2. QED
    BY <1>1, <2>1 DEF AllRan, FirstJob
<1>3. ASSUME NEW m \in Message, m # "ready", sent' = sent \/ sent' = Append(sent, m) PROVE Ready' => Ready
  BY <1>1, <1>3 DEF Ready
<1>4. ASSUME UNCHANGED work, onFinish => onFinish', Ready' => Ready PROVE Called'
  BY <1>1, <1>2, <1>4 DEF Called, Asks
<1>5. CASE Prepare
  BY <1>3, <1>4, <1>5, Prepares DEF jobs, Message
<1>6. CASE Answer
  BY <1>6, Answers
<1>7. CASE NodesProcessor \/ Construct \/ Assign \/ SetOnFinish \/ ReEvaluate
  <2>1. sent' = sent /\ work' = work /\ (onFinish => onFinish')
    BY <1>7 DEF NodesProcessor, Construct, Assign, SetOnFinish, ReEvaluate, jobs
  <2>2. QED
    BY <1>4, <2>1 DEF Ready
<1>8. CASE UpdateChart
  BY <1>3, <1>4, <1>8 DEF UpdateChart, jobs, Message
<1>9. ASSUME NEW w \in Worker, Take(w) PROVE Called'
  <2>1. \A v \in Worker : work'[v] \in {"export", "ready"} => work[v] = work'[v]
    BY <1>1, <1>9 DEF Take, Job
  <2>2. sent' = sent /\ onFinish' = onFinish
    BY <1>9 DEF Take
  <2>3. QED
    BY <1>1, <1>2, <2>1, <2>2 DEF Called, Asks, Ready
<1>10. ASSUME NEW w \in Worker, PushFollower(w) PROVE Called'
  BY <1>4, <1>10 DEF PushFollower, Ready
<1>11. ASSUME NEW w \in Worker, EndJob(w) PROVE Called'
  <2>1. sent' = sent /\ onFinish' = onFinish /\ \A v \in Worker \ {w} : work'[v] = work[v]
    BY <1>1, <1>11 DEF EndJob
  <2>2. work'[w] = IF Drained(w) /\ onFinish THEN "export" ELSE "free"
    BY <1>1, <1>11 DEF EndJob
  <2>3. CASE Drained(w) /\ onFinish
    BY <1>1, <1>11, <2>1, <2>3, LastJob DEF Called
  <2>4. CASE ~(Drained(w) /\ onFinish)
    BY <1>1, <1>2, <2>1, <2>2, <2>4 DEF Called, Asks, Ready
  <2>5. QED
    BY <2>3, <2>4
<1>12. ASSUME NEW w \in Worker, Publish(w) PROVE Called'
  <2>1. AllRan /\ onFinish /\ onFinish' = onFinish
    BY <1>12 DEF Publish, Called
  <2>2. \A v \in Worker : work'[v] \in {"export", "ready"} => work[v] \in {"export", "ready"}
    BY <1>1, <1>12 DEF Publish
  <2>3. QED
    BY <1>2, <2>1 DEF Called
<1>13. CASE UNCHANGED vars
  BY <1>4, <1>13 DEF vars, jobs, Ready
<1>14. QED
  BY <1>5, <1>6, <1>7, <1>8, <1>9, <1>10, <1>11, <1>12, <1>13, Cases

LEMMA NoticedNext == SourceInv /\ Registered /\ Called /\ Noticed /\ [Next]_vars => Noticed'
<1> SUFFICES ASSUME SourceInv, Registered, Called, Noticed, [Next]_vars PROVE Noticed'
  OBVIOUS
<1>1. /\ queue \in [Job -> Nat] /\ work \in [Worker -> Stage] /\ sent \in Seq(Message) /\ Sourced
      /\ command \in Command /\ made \in 0..5
  BY DEF SourceInv, Types, TypeOK, Stage
<1>3. ASSUME NEW j \in Job, Push(j) PROVE Active'
  <2>1. queue'[j] > 0
    BY <1>1, <1>3 DEF Push
  <2>2. QED
    BY <2>1 DEF Active
<1>4. Active' => Noticed'
  BY DEF Noticed
<1>5. ASSUME UNCHANGED <<queue, work>> PROVE Active' <=> Active
  BY <1>5 DEF Active
<1>6. CASE Prepare
  BY <1>6, Prepares DEF Noticed, Connecting
<1>7. CASE Answer
  <2>1. pc' \in {"returned", "error", "panicked", "hung"}
    BY <1>7, Answers
  <2>2. CASE pc' = "returned"
    <3>1. PICK m \in Message : sent' = sent \o <<m, "ready">>
      BY <1>7, <2>2, Answers
    <3>2. sent' # <<>> /\ sent'[Len(sent')] = "ready"
      BY <1>1, <3>1
    <3>3. QED
      BY <2>2, <3>2 DEF Noticed
  <2>3. QED
    BY <2>1, <2>2 DEF Noticed
<1>8. CASE NodesProcessor
  BY <1>3, <1>4, <1>8 DEF NodesProcessor, Job
<1>9. CASE UpdateChart
  BY <1>5, <1>9 DEF UpdateChart, jobs, Noticed
<1>10. CASE Construct
  <2>1. command \notin AgentCommand /\ made < Len(Processors[command]) /\ Push(Processors[command][made + 1])
    BY <1>1, <1>10 DEF Construct, Sourced
  <2>2. Processors[command][made + 1] \in Job
    BY <1>1, <2>1, FirstJobs
  <2>3. QED
    BY <1>3, <1>4, <2>1, <2>2
<1>11. CASE Assign
  BY <1>5, <1>11 DEF Assign, Step, jobs, Noticed
<1>12. CASE SetOnFinish
  <2>1. pc = "finish" /\ pc' = "returned" /\ UNCHANGED <<jobs, sent, reevaluations>> /\ reevaluations = 0
    BY <1>12 DEF SetOnFinish, Step, Registered
  <2>2. UNCHANGED <<queue, work, early>>
    BY <2>1 DEF jobs
  <2>3. QED
    BY <1>5, <2>1, <2>2 DEF Noticed
<1>13. CASE ReEvaluate
  BY <1>3, <1>4, <1>13 DEF ReEvaluate, Job
<1>14. ASSUME NEW w \in Worker, Take(w) PROVE Noticed'
  <2>1. work'[w] # "free"
    BY <1>1, <1>14 DEF Take, Job
  <2>2. QED
    BY <1>4, <2>1 DEF Active
<1>15. ASSUME NEW w \in Worker, PushFollower(w) PROVE Noticed'
  BY <1>3, <1>4, <1>15 DEF PushFollower, Job
<1>16. ASSUME NEW w \in Worker, EndJob(w) PROVE Noticed'
  <2>1. /\ queue' = queue /\ \A v \in Worker \ {w} : work'[v] = work[v]
        /\ work'[w] = IF Drained(w) /\ onFinish THEN "export" ELSE "free"
        /\ early' = (early \/ (Drained(w) /\ ~onFinish))
        /\ pc' = pc /\ work[w] # "free"
    BY <1>1, <1>16 DEF EndJob, Job
  <2>2. CASE Drained(w) /\ onFinish
    <3>1. work'[w] # "free"
      BY <2>1, <2>2
    <3>2. QED
      BY <1>4, <3>1 DEF Active
  <2>3. CASE Drained(w) /\ ~onFinish
    <3>1. early' /\ pc' # "returned"
      BY <2>1, <2>3 DEF Registered
    <3>2. QED
      BY <3>1 DEF Noticed
  <2>4. CASE ~Drained(w)
    <3>1. CASE \E j \in Job : queue[j] # 0
      <4>1. \E j \in Job : queue'[j] > 0
        BY <1>1, <2>1, <3>1
      <4>2. QED
        BY <1>4, <4>1 DEF Active
    <3>2. CASE \E v \in Worker \ {w} : work[v] \in Job
      <4>1. \E v \in Worker : work'[v] # "free"
        BY <2>1, <3>2 DEF Job
      <4>2. QED
        BY <1>4, <4>1 DEF Active
    <3>3. QED
      BY <2>4, <3>1, <3>2 DEF Drained
  <2>5. QED
    BY <2>2, <2>3, <2>4
<1>17. ASSUME NEW w \in Worker, Publish(w) PROVE Noticed'
  <2>1. CASE work[w] = "export"
    <3>1. work'[w] # "free"
      BY <1>1, <1>17, <2>1 DEF Publish
    <3>2. QED
      BY <1>4, <3>1 DEF Active
  <2>2. CASE work[w] = "ready"
    <3>1. sent' = Append(sent, "ready") /\ pc' = pc /\ "ready" \in Message
      BY <1>17, <2>2 DEF Publish, Message
    <3>2. sent' # <<>> /\ sent'[Len(sent')] = "ready"
      BY <1>1, <3>1
    <3>3. pc = "returned"
      BY <2>2 DEF Registered, Called
    <3>4. QED
      BY <3>1, <3>2, <3>3 DEF Noticed
  <2>3. QED
    BY <1>17, <2>1, <2>2 DEF Publish
<1>18. CASE UNCHANGED vars
  BY <1>5, <1>18 DEF vars, jobs, Noticed
<1>19. QED
  BY <1>6, <1>7, <1>8, <1>9, <1>10, <1>11, <1>12, <1>13, <1>14, <1>15, <1>16, <1>17, <1>18, Cases

LEMMA AnnounceNext == AnnounceInv /\ [Next]_vars => AnnounceInv'
BY SourceNext, RegisteredNext, AccountedNext, CalledNext, NoticedNext DEF AnnounceInv

\* Announced: the results are said to be ready when the first jobs of all processors ended,
\* and it is the last word when nothing is left to do, unless the queue was empty before
\* the callback was registered and nobody asked again.
THEOREM AnnouncedInTime == Spec => []Announced
<1>1. AnnounceInv => Announced
  <2> SUFFICES ASSUME AnnounceInv PROVE Announced
    OBVIOUS
  <2>1. NotAnnouncedEarly
    <3> SUFFICES ASSUME Ready, ~Asks PROVE \A n \in DOMAIN Processors[command] : Processors[command][n] \in ran
      BY DEF NotAnnouncedEarly, Asks
    <3>1. command \in Command /\ command \notin AgentCommand
      BY DEF AnnounceInv, SourceInv, Types, TypeOK, Asks
    <3>2. DOMAIN Processors[command] = 1..Len(Processors[command])
      BY <3>1, FirstJobs
    <3>3. QED
      BY <3>2 DEF AnnounceInv, Called, AllRan, FirstJob
  <2>2. QuietIsReady
    <3>1. Quiet => ~Active /\ pc = "returned"
      BY DEF Quiet, Active, AnnounceInv, SourceInv, Types, TypeOK
    <3>2. QED
      BY <3>1 DEF AnnounceInv, Noticed, QuietIsReady
  <2>3. QED
    BY <2>1, <2>2 DEF Announced
<1>2. QED
  BY <1>1, AnnounceInit, AnnounceNext, PTL DEF Spec

--------------------------------------------------------------------------------
(* What is reported.  The summary of an item, said of the template of the    *)
(* cluster and of the answer that the processor keeps.                       *)

Counted(t, q, r) == {c \in DOMAIN q : c \in DOMAIN t /\ t[c][r] # 0}
Current(t, q, r) == [c \in Counted(t, q, r) |-> q[c].current[r]]
Advised(t, q, r) == [c \in Counted(t, q, r) |-> q[c].recommended[r]]
Moved(t, q, r)   == [c \in Counted(t, q, r) |-> q[c].recommended[r] - q[c].current[r]]

Summarised(t, q, count) ==
  [replicas |-> count,
   down  |-> [r \in Resource |-> Min({0, Sum(Moved(t, q, r))})],
   up    |-> [r \in Resource |-> Max({0, Sum(Moved(t, q, r))})],
   total |-> [r \in Resource |-> Sum(Current(t, q, r))]]

ChangeShown(q, count) ==
  [r \in Resource |-> count * Sum([c \in DOMAIN q |-> q[c].recommended[r] - q[c].current[r]])]

\* An answer repeats the quantities of the containers it is about.
AnswerTo(q, t) ==
  /\ DOMAIN q \subseteq DOMAIN t
  /\ \A c \in DOMAIN q : q[c].current = t[c] /\ q[c].recommended \in [Resource -> Nat]

LEMMA SumIsTotal == \A f : Sum(f) = Total(f)
BY DEF Sum, Total

LEMMA MinAndMax ==
  ASSUME NEW x \in Int
  PROVE  /\ Min({0, x}) \in Int /\ Min({0, x}) <= 0 /\ Max({0, x}) \in Nat
         /\ Max({0, x}) + Min({0, x}) = x
<1>1. CASE x <= 0
  <2>1. Min({0, x}) = x
    BY <1>1 DEF Min
  <2>2. Max({0, x}) = 0
    BY <1>1 DEF Max
  <2>3. QED
    BY <1>1, <2>1, <2>2
<1>2. CASE x > 0
  <2>1. Min({0, x}) = 0
    BY <1>2 DEF Min
  <2>2. Max({0, x}) = x
    BY <1>2 DEF Max
  <2>3. QED
    BY <1>2, <2>1, <2>2
<1>3. QED
  BY <1>1, <1>2

\* The quantities of an answer are numbers, and the current ones it counts are not zero.
LEMMA AnswerTyped ==
  ASSUME NEW t \in Templates, NEW q, AnswerTo(q, t), NEW r \in Resource
  PROVE  /\ IsFiniteSet(DOMAIN q) /\ IsFiniteSet(Counted(t, q, r)) /\ Counted(t, q, r) \subseteq DOMAIN q
         /\ \A c \in DOMAIN q : q[c].current[r] \in Nat /\ q[c].recommended[r] \in Nat
         /\ \A c \in Counted(t, q, r) : q[c].current[r] # 0
<1>1. /\ IsFiniteSet(Container) /\ DOMAIN t \subseteq Container /\ t \in [DOMAIN t -> [Resource -> Nat]]
      /\ DOMAIN q \subseteq DOMAIN t
  BY ReportsAssumption DEF AnswerTo
<1>2. IsFiniteSet(DOMAIN q)
  BY <1>1, FS_Subset
<1>3. Counted(t, q, r) \subseteq DOMAIN q
  BY DEF Counted
<1>4. IsFiniteSet(Counted(t, q, r))
  BY <1>2, <1>3, FS_Subset
<1>5. ASSUME NEW c \in DOMAIN q PROVE q[c].current[r] \in Nat /\ q[c].recommended[r] \in Nat /\ q[c].current[r] = t[c][r]
  <2>1. q[c].current = t[c] /\ q[c].recommended \in [Resource -> Nat] /\ t[c] \in [Resource -> Nat]
    BY <1>1 DEF AnswerTo
  <2>2. QED
    BY <2>1
<1>6. \A c \in Counted(t, q, r) : q[c].current[r] # 0
  BY <1>3, <1>5 DEF Counted
<1>7. QED
  BY <1>2, <1>3, <1>4, <1>5, <1>6

\* A summary of an item adds up: what there is and what changes is what is advised, and of
\* nothing nothing changes.
LEMMA SummaryAddsUp ==
  ASSUME NEW t \in Templates, NEW q, AnswerTo(q, t), NEW count, NEW s, s = Summarised(t, q, count), NEW r \in Resource
  PROVE  /\ s.replicas = count /\ s.total[r] \in Nat /\ s.up[r] \in Nat /\ s.down[r] \in Int /\ s.down[r] <= 0
         /\ s.up[r] + s.down[r] = Sum(Moved(t, q, r))
         /\ s.total[r] + (s.up[r] + s.down[r]) = Sum(Advised(t, q, r))
         /\ s.total[r] = 0 => s.up[r] + s.down[r] = 0
<1>1. PICK C, cur, adv, mov :
        C = Counted(t, q, r) /\ cur = Current(t, q, r) /\ adv = Advised(t, q, r) /\ mov = Moved(t, q, r)
  OBVIOUS
<1>2. /\ IsFiniteSet(C) /\ \A c \in C : q[c].current[r] \in Nat /\ q[c].recommended[r] \in Nat /\ q[c].current[r] # 0
  BY <1>1, AnswerTyped
<1>3. cur \in [C -> Nat] /\ adv \in [C -> Int] /\ mov \in [C -> Int] /\ cur \in [C -> Int]
  BY <1>1, <1>2 DEF Current, Advised, Moved
<1>4. \A c \in C : mov[c] = adv[c] - cur[c] /\ cur[c] # 0
  BY <1>1, <1>2 DEF Current, Advised, Moved
<1>5. Total(mov) = Total(adv) - Total(cur)
  BY <1>2, <1>3, <1>4, TotalMinus
<1>6. Total(cur) \in Nat /\ Total(adv) \in Int /\ Total(mov) \in Int
  BY <1>2, <1>3, TotalNat, TotalType
<1>7. Total(cur) = 0 => Total(mov) = 0
  <2> SUFFICES ASSUME Total(cur) = 0 PROVE Total(mov) = 0
    OBVIOUS
  <2>1. \A c \in C : cur[c] = 0
    BY <1>2, <1>3, TotalOfZeros
  <2>2. C = {}
    BY <1>4, <2>1
  <2>3. QED
    BY <1>3, <2>2, TotalEmpty
<1>8. Sum(cur) = Total(cur) /\ Sum(adv) = Total(adv) /\ Sum(mov) = Total(mov)
  BY SumIsTotal
<1>9. s.replicas = count /\ s.total[r] = Sum(cur) /\ s.up[r] = Max({0, Sum(mov)}) /\ s.down[r] = Min({0, Sum(mov)})
  BY <1>1 DEF Summarised
<1>10. QED
  BY <1>1, <1>5, <1>6, <1>7, <1>8, <1>9, MinAndMax

\* What is known of the cost of some nodes.
KnownIn(costs, nodes) == Sum([n \in {n \in nodes : costs[n] # NoCost} |-> costs[n]])

\* A table shows the sums of the summaries it was made of, and the nodes and costs of then.
Tabled(tb, s) ==
  /\ tb.removable \in SUBSET Node /\ tb.costs \in [Node -> Costs \cup {NoCost}]
  /\ \A r \in Resource : /\ tb.total[r] = AggregatedTotal(s, r)
                         /\ tb.change[r] = AggregatedChange(s, r)
                         /\ tb.recommended[r] = AggregatedTotal(s, r) + AggregatedChange(s, r)
  /\ tb.nodes = NodeList(Node) /\ tb.nodesAfter = NodeList(Node \ tb.removable)
  /\ tb.removed = NodeList(tb.removable)
  /\ tb.costAfter = KnownIn(tb.costs, Node) - KnownIn(tb.costs, tb.removable)

LEMMA TableIs ==
  ASSUME NEW s, NEW removable \in SUBSET Node, cost \in [Node -> Costs \cup {NoCost}],
         NEW tb, tb = SummaryTable(s, removable)
  PROVE  Tabled(tb, s)
<1>1. \A nodes : KnownCost(nodes) = KnownIn(cost, nodes)
  BY DEF KnownCost, KnownIn
<1>2. PICK k : k = KnownIn(cost, Node) - KnownIn(cost, removable)
  OBVIOUS
<1>3. /\ tb.removable = removable /\ tb.costs = cost
      /\ tb.nodes = NodeList(Node) /\ tb.nodesAfter = NodeList(Node \ removable) /\ tb.removed = NodeList(removable)
      /\ tb.costAfter = k
  BY <1>1, <1>2 DEF SummaryTable, Diff, ReducedCost
<1>4. \A r \in Resource : /\ tb.total[r] = AggregatedTotal(s, r)
                          /\ tb.change[r] = AggregatedChange(s, r)
                          /\ tb.recommended[r] = AggregatedTotal(s, r) + AggregatedChange(s, r)
  BY DEF SummaryTable
<1>5. QED
  BY <1>2, <1>3, <1>4 DEF Tabled

--------------------------------------------------------------------------------
(* The inductive invariant of the reports: the answers fit the templates, every *)
(* summary is that of the answer kept, and the table that of the summaries.  *)

ItemsTyped ==
  /\ template \in [Item -> Templates] /\ replicas \in [Item -> Replicas \cup {Unset}]
  /\ \A i \in Item : /\ Kind[i] = "daemonset" => replicas[i] # Unset
                     /\ Kind[i] = "pod" => replicas[i] = Unset
  /\ stored = template
  /\ resizing = [i \in Item |-> resizing[i]] /\ shown = [i \in Item |-> shown[i]]
  /\ \A i \in Item : AnswerTo(resizing[i], template[i])
  /\ cost \in [Node -> Costs \cup {NoCost}]

SummaryOf(i) == Summarised(template[i], resizing[i], Pieces(i))

Summaries ==
  \A i \in DOMAIN summary : /\ i \in Item /\ resizing[i] # NoAnswer
                            /\ summary[i] = SummaryOf(i)
                            /\ shown[i] = ChangeShown(resizing[i], Pieces(i))

ReportsInv == ItemsTyped /\ Summaries /\ Tabled(table, summary)

LEMMA ReportsStart == ReportsInit => ReportsInv
<1> SUFFICES ASSUME ReportsInit PROVE ReportsInv
  OBVIOUS
<1>1. DOMAIN NoAnswer = {}
  BY DEF NoAnswer
<1>2. \A t : AnswerTo(NoAnswer, t)
  BY <1>1 DEF AnswerTo
<1>3. /\ template \in [Item -> Templates] /\ replicas \in [Item -> Replicas \cup {Unset}]
      /\ \A i \in Item : /\ Kind[i] = "daemonset" => replicas[i] # Unset
                         /\ Kind[i] = "pod" => replicas[i] = Unset
      /\ stored = template /\ summary = NoAnswer
  BY DEF ReportsInit
<1>4. /\ resizing = [i \in Item |-> NoAnswer] /\ shown = [i \in Item |-> [r \in Resource |-> 0]]
      /\ cost = [n \in Node |-> NoCost] /\ table = SummaryTable(NoAnswer, {})
  BY DEF ReportsInit
<1>5. cost \in [Node -> Costs \cup {NoCost}]
  BY <1>4
<1>6. ItemsTyped
  <2>1. \A i \in Item : AnswerTo(resizing[i], template[i])
    BY <1>2, <1>4
  <2>2. resizing = [i \in Item |-> resizing[i]] /\ shown = [i \in Item |-> shown[i]]
    BY <1>4
  <2>3. QED
    BY <1>3, <1>5, <2>1, <2>2 DEF ItemsTyped
<1>7. Summaries
  BY <1>1, <1>3 DEF Summaries
<1>8. Tabled(table, summary)
  BY <1>3, <1>4, <1>5, TableIs
<1>9. QED
  BY <1>6, <1>7, <1>8 DEF ReportsInv

\* The replicas of each kind.
LEMMA PiecesOf ==
  ASSUME ItemsTyped, NEW i \in Item
  PROVE  /\ Pieces(i) \in Nat /\ SetOrOne(replicas[i]) = Pieces(i)
         /\ Kind[i] = "daemonset" => replicas[i] = Pieces(i)
         /\ Kind[i] = "pod" => Pieces(i) = 1
BY ReportsAssumption DEF ItemsTyped, Pieces, SetOrOne

\* What UpdateSummary computes of the kept template and the answer just given.
LEMMA ItemSummaryIs ==
  ASSUME NEW i, NEW count
  PROVE  ItemSummary(i, count) = Summarised(stored[i], resizing'[i], count)
BY Zenon DEF ItemSummary, Summarised, Configured, Change, Counted, Current, Moved

LEMMA ItemChangeIs ==
  ASSUME NEW i, NEW count
  PROVE  ItemChange(i, count) = ChangeShown(resizing'[i], count)
BY Zenon DEF ItemChange, ChangeShown, Change

\* An item is listed: there is no answer yet.
LEMMA ListStep ==
  ASSUME ReportsInv, NEW i \in Item, NEW count, List(i, count)
  PROVE  ReportsInv'
<1>1. /\ UNCHANGED <<template, replicas, resizing, shown, cost, summary, stored>>
      /\ table' = SummaryTable(summary', {})
  BY DEF List, UpdateSummary, HasAnswer
<1>2. ItemsTyped' /\ Summaries'
  BY <1>1 DEF ReportsInv, ItemsTyped, Summaries, SummaryOf, Pieces
<1>3. Tabled(table', summary')
  BY <1>1, TableIs DEF ReportsInv, ItemsTyped
<1>4. QED
  BY <1>2, <1>3 DEF ReportsInv, Tabled, AggregatedTotal, AggregatedChange, NodeList, KnownIn

\* An answer is given.
LEMMA OptimizeStep ==
  ASSUME ReportsInv, NEW i \in Item, NEW count, count = Pieces(i), Optimize(i, count)
  PROVE  ReportsInv'
<1>21. PICK some \in (SUBSET DOMAIN stored[i]) \ {{}} : \E answer \in [some -> Recommendations] :
         resizing' = [resizing EXCEPT ![i] = [c \in some |-> [current |-> stored[i][c], recommended |-> answer[c]]]]
  BY Zenon DEF Optimize
<1>1. PICK answer \in [some -> Recommendations] :
        resizing' = [resizing EXCEPT ![i] = [c \in some |-> [current |-> stored[i][c], recommended |-> answer[c]]]]
  BY <1>21
<1>2. /\ shown' = [shown EXCEPT ![i] = ItemChange(i, count)] /\ UNCHANGED <<template, replicas, cost>>
      /\ UpdateSummary(i, count) /\ ItemsTyped
  BY DEF Optimize, ReportsInv
<1>3. PICK q : q = [c \in some |-> [current |-> stored[i][c], recommended |-> answer[c]]]
  OBVIOUS
<1>4. resizing'[i] = q /\ \A j \in Item \ {i} : resizing'[j] = resizing[j]
  BY <1>1, <1>2, <1>3 DEF ItemsTyped
<1>5. resizing' = [j \in Item |-> resizing'[j]]
  BY <1>1, <1>2 DEF ItemsTyped
<1>6. shown'[i] = ChangeShown(q, count) /\ \A j \in Item \ {i} : shown'[j] = shown[j]
  BY <1>2, <1>4, ItemChangeIs DEF ItemsTyped
<1>7. shown' = [j \in Item |-> shown'[j]]
  BY <1>2 DEF ItemsTyped
<1>8. DOMAIN q = some /\ \A c \in some : q[c].current = stored[i][c] /\ q[c].recommended = answer[c]
  BY <1>3
<1>9. AnswerTo(q, template[i])
  BY <1>21, <1>1, <1>2, <1>8, ReportsAssumption DEF AnswerTo, ItemsTyped
<1>10. q # NoAnswer
  BY <1>21, <1>8 DEF NoAnswer
<1>11. PICK removable \in SUBSET Node : table' = SummaryTable(summary', removable)
  BY <1>2, <1>4, <1>10 DEF UpdateSummary, HasAnswer
<1>12. /\ summary' = [j \in DOMAIN summary \cup {i} |-> IF j = i THEN ItemSummary(i, count) ELSE summary[j]]
       /\ stored' = [stored EXCEPT ![i] = StoredAfter(i)]
  BY <1>2, <1>4, <1>10 DEF UpdateSummary, HasAnswer
<1>13. stored' = template'
  BY <1>2, <1>12 DEF StoredAfter, ItemsTyped
<1>14. ItemsTyped'
  <2>1. \A j \in Item : AnswerTo(resizing'[j], template'[j])
    BY <1>2, <1>4, <1>9 DEF ItemsTyped
  <2>2. /\ template' \in [Item -> Templates] /\ replicas' \in [Item -> Replicas \cup {Unset}]
        /\ \A j \in Item : /\ Kind[j] = "daemonset" => replicas'[j] # Unset
                           /\ Kind[j] = "pod" => replicas'[j] = Unset
        /\ cost' \in [Node -> Costs \cup {NoCost}]
    BY <1>2 DEF ItemsTyped
  <2>3. QED
    BY <1>5, <1>7, <1>13, <2>1, <2>2 DEF ItemsTyped, AnswerTo
<1>15. summary'[i] = Summarised(template[i], q, count) /\ DOMAIN summary' = DOMAIN summary \cup {i}
  BY <1>2, <1>4, <1>12, ItemSummaryIs DEF ItemsTyped
<1>16. \A j : Pieces(j)' = Pieces(j)
  BY <1>2 DEF Pieces
<1>17. Summaries'
  <2> SUFFICES ASSUME NEW j \in DOMAIN summary'
               PROVE  /\ j \in Item /\ resizing'[j] # NoAnswer /\ summary'[j] = SummaryOf(j)'
                      /\ shown'[j] = ChangeShown(resizing'[j], Pieces(j)')
    BY DEF Summaries, ChangeShown
  <2>1. CASE j = i
    <3>1. template' = template /\ Pieces(j)' = count /\ j \in Item
      BY <1>2, <1>16, <2>1
    <3>2. SummaryOf(j)' = Summarised(template'[j], resizing'[j], Pieces(j)')
      BY DEF SummaryOf
    <3>3. SummaryOf(j)' = summary'[j]
      BY <1>4, <1>15, <2>1, <3>1, <3>2
    <3>4. QED
      BY <1>4, <1>6, <1>10, <2>1, <3>1, <3>3
  <2>2. CASE j # i
    <3>1. j \in DOMAIN summary /\ j \in Item \ {i} /\ summary'[j] = summary[j]
      BY <1>12, <1>15, <2>2 DEF ReportsInv, Summaries
    <3>2. QED
      BY <1>2, <1>4, <1>6, <1>16, <3>1 DEF ReportsInv, Summaries, SummaryOf
  <2>3. QED
    BY <2>1, <2>2
<1>18. Tabled(table', summary')
  BY <1>2, <1>11, TableIs DEF ItemsTyped
<1>19. QED
  BY <1>14, <1>17, <1>18 DEF ReportsInv

LEMMA ReportsStep ==
  ASSUME ReportsInv, [ReportsNext]_reportVars
  PROVE  ReportsInv'
<1>1. ASSUME NEW i \in Item,
             ListDeployment(i) \/ ListStatefulSet(i) \/ ListDaemonSet(i) \/ ListJob(i) \/ ListPod(i)
      PROVE  ReportsInv'
  BY <1>1, ListStep DEF ListDeployment, ListStatefulSet, ListDaemonSet, ListJob, ListPod
<1>2. ASSUME NEW i \in Item, \/ OptimizeDeployment(i) \/ OptimizeStatefulSet(i) \/ OptimizeDaemonSet(i)
                             \/ OptimizeJob(i) \/ OptimizePod(i)
      PROVE  ReportsInv'
  BY <1>2, OptimizeStep, PiecesOf
     DEF OptimizeDeployment, OptimizeStatefulSet, OptimizeDaemonSet, OptimizeJob, OptimizePod, ReportsInv
<1>3. CASE NodeCost
  <2>1. PICK n \in Node, v \in Costs : cost' = [cost EXCEPT ![n] = v]
    BY <1>3 DEF NodeCost
  <2>2. UNCHANGED <<template, replicas, stored, resizing, shown, summary, simulated, table>>
    BY <1>3 DEF NodeCost
  <2>3. cost' \in [Node -> Costs \cup {NoCost}]
    BY <2>1 DEF ReportsInv, ItemsTyped
  <2>4. QED
    BY <2>2, <2>3 DEF ReportsInv, ItemsTyped, Summaries, SummaryOf, Pieces
<1>4. CASE UNCHANGED reportVars
  BY <1>4 DEF reportVars, ReportsInv, ItemsTyped, Summaries, SummaryOf, Pieces
<1>5. QED
  BY <1>1, <1>2, <1>3, <1>4 DEF ReportsNext

--------------------------------------------------------------------------------
(* The table.                                                                *)

\* What an item brings into the table.
LEMMA ItemAddsUp ==
  ASSUME ReportsInv, NEW i \in DOMAIN summary, NEW r \in Resource
  PROVE  /\ i \in Item /\ summary[i].replicas = Pieces(i) /\ Pieces(i) \in Nat
         /\ summary[i].total[r] \in Nat /\ summary[i].up[r] \in Nat
         /\ summary[i].down[r] \in Int /\ summary[i].down[r] <= 0
         /\ summary[i].up[r] + summary[i].down[r] = Sum(Moved(template[i], resizing[i], r))
         /\ summary[i].total[r] + (summary[i].up[r] + summary[i].down[r])
              = Sum(Advised(template[i], resizing[i], r))
         /\ summary[i].total[r] = 0 => summary[i].up[r] + summary[i].down[r] = 0
<1>1. /\ i \in Item /\ summary[i] = Summarised(template[i], resizing[i], Pieces(i))
      /\ template[i] \in Templates /\ AnswerTo(resizing[i], template[i])
  BY DEF ReportsInv, Summaries, SummaryOf, ItemsTyped
<1>2. Pieces(i) \in Nat
  BY <1>1, PiecesOf DEF ReportsInv
<1>3. PICK t, q, s, k : t = template[i] /\ q = resizing[i] /\ s = summary[i] /\ k = Pieces(i)
  OBVIOUS
<1>5. t \in Templates /\ AnswerTo(q, t) /\ s = Summarised(t, q, k)
  BY <1>1, <1>3
<1>4. QED
  BY <1>1, <1>2, <1>3, <1>5, SummaryAddsUp

LEMMA Distributed ==
  ASSUME NEW x \in Int, NEW y \in Int, NEW k \in Int
  PROVE  x * k \in Int /\ y * k \in Int /\ x * k + y * k = k * (x + y)
OBVIOUS

\* The totals and changes of all items, in one resource.
TotalsOf(s, r)  == [i \in DOMAIN s |-> s[i].total[r] * s[i].replicas]
ChangesOf(s, r) == [i \in DOMAIN s |-> (s[i].up[r] + s[i].down[r]) * s[i].replicas]
WantedOf(r) ==
  [i \in DOMAIN summary |-> Pieces(i) * Sum([c \in CountedIn(i, r) |-> resizing[i][c].recommended[r]])]

LEMMA ColumnsTyped ==
  ASSUME ReportsInv, NEW r \in Resource
  PROVE  /\ IsFiniteSet(DOMAIN summary) /\ DOMAIN summary \subseteq Item
         /\ TotalsOf(summary, r) \in [DOMAIN summary -> Nat]
         /\ ChangesOf(summary, r) \in [DOMAIN summary -> Int]
         /\ WantedOf(r) \in [DOMAIN summary -> Int]
         /\ \A i \in DOMAIN summary : WantedOf(r)[i] = TotalsOf(summary, r)[i] + ChangesOf(summary, r)[i]
         /\ \A i \in DOMAIN summary : TotalsOf(summary, r)[i] = 0 => ChangesOf(summary, r)[i] = 0
<1>1. DOMAIN summary \subseteq Item
  BY DEF ReportsInv, Summaries
<1>2. IsFiniteSet(DOMAIN summary)
  BY <1>1, ReportsAssumption, FS_Subset
<1>3. ASSUME NEW i \in DOMAIN summary
      PROVE  /\ TotalsOf(summary, r)[i] \in Nat /\ ChangesOf(summary, r)[i] \in Int /\ WantedOf(r)[i] \in Int
             /\ WantedOf(r)[i] = TotalsOf(summary, r)[i] + ChangesOf(summary, r)[i]
             /\ TotalsOf(summary, r)[i] = 0 => ChangesOf(summary, r)[i] = 0
  <2>1. PICK x \in Nat, u \in Nat, d \in Int, k \in Nat :
          x = summary[i].total[r] /\ u = summary[i].up[r] /\ d = summary[i].down[r] /\ k = summary[i].replicas
    BY ItemAddsUp
  <2>2. k = Pieces(i) /\ x + (u + d) = Sum(Advised(template[i], resizing[i], r)) /\ (x = 0 => u + d = 0) /\ i \in Item
    BY <2>1, ItemAddsUp
  <2>3. TotalsOf(summary, r)[i] = x * k /\ ChangesOf(summary, r)[i] = (u + d) * k
    BY <2>1 DEF TotalsOf, ChangesOf
  <2>4. Counted(template[i], resizing[i], r) = CountedIn(i, r)
    BY <2>2 DEF Counted, CountedIn, ReportsInv, ItemsTyped, AnswerTo
  <2>5. WantedOf(r)[i] = k * (x + (u + d))
    BY <2>2, <2>4 DEF WantedOf, Advised
  <2>6. PICK y \in Int : y = u + d
    BY <2>1
  <2>7. x * k \in Nat /\ y * k \in Int /\ x * k + y * k = k * (x + y)
    BY <2>1, <2>6, Distributed
  <2>8. x * k = 0 => y * k = 0
    <3>1. CASE k = 0
      BY <3>1, <2>6
    <3>2. CASE k # 0 /\ x * k = 0
      <4>1. x = 0
        BY <2>1, <3>2
      <4>2. QED
        BY <2>1, <2>2, <2>6, <4>1
    <3>3. QED
      BY <3>1, <3>2
  <2>9. QED
    BY <2>3, <2>5, <2>6, <2>7, <2>8
<1>4. TotalsOf(summary, r) \in [DOMAIN summary -> Nat]
  <2>1. TotalsOf(summary, r) = [i \in DOMAIN summary |-> TotalsOf(summary, r)[i]]
    BY DEF TotalsOf
  <2>2. QED
    BY <1>3, <2>1
<1>5. ChangesOf(summary, r) \in [DOMAIN summary -> Int]
  <2>1. ChangesOf(summary, r) = [i \in DOMAIN summary |-> ChangesOf(summary, r)[i]]
    BY DEF ChangesOf
  <2>2. QED
    BY <1>3, <2>1
<1>6. WantedOf(r) \in [DOMAIN summary -> Int]
  <2>1. WantedOf(r) = [i \in DOMAIN summary |-> WantedOf(r)[i]]
    BY DEF WantedOf
  <2>2. QED
    BY <1>3, <2>1
<1>7. QED
  BY <1>1, <1>2, <1>3, <1>4, <1>5, <1>6

LEMMA TableColumns ==
  ASSUME ReportsInv, NEW r \in Resource
  PROVE  /\ table.recommended[r] = Sum(WantedOf(r))
         /\ table.total[r] = 0 => table.change[r] = 0
<1>1. PICK D, tot, chg, wan : /\ D = DOMAIN summary /\ tot = TotalsOf(summary, r)
                              /\ chg = ChangesOf(summary, r) /\ wan = WantedOf(r)
  OBVIOUS
<1>2. /\ IsFiniteSet(D) /\ tot \in [D -> Nat] /\ chg \in [D -> Int] /\ wan \in [D -> Int] /\ tot \in [D -> Int]
      /\ \A i \in D : wan[i] = tot[i] + chg[i] /\ (tot[i] = 0 => chg[i] = 0)
  BY <1>1, ColumnsTyped
<1>3. Total(wan) = Total(tot) + Total(chg)
  BY <1>2, TotalPlus
<1>4. Total(tot) = 0 => Total(chg) = 0
  <2> SUFFICES ASSUME Total(tot) = 0 PROVE Total(chg) = 0
    OBVIOUS
  <2>1. \A i \in D : tot[i] = 0
    BY <1>2, TotalOfZeros
  <2>2. \A i \in D : chg[i] = 0 /\ chg[i] \in Nat
    BY <1>2, <2>1
  <2>3. SumOver(chg, D) = 0
    BY <1>2, <2>2, SumOverZero
  <2>4. DOMAIN chg = D
    BY <1>2
  <2>5. QED
    BY <2>3, <2>4 DEF SumOver, Total
<1>5. AggregatedTotal(summary, r) = Total(tot) /\ AggregatedChange(summary, r) = Total(chg) /\ Sum(WantedOf(r)) = Total(wan)
  BY <1>1, SumIsTotal DEF AggregatedTotal, AggregatedChange, TotalsOf, ChangesOf
<1>6. /\ table.total[r] = AggregatedTotal(summary, r) /\ table.change[r] = AggregatedChange(summary, r)
      /\ table.recommended[r] = AggregatedTotal(summary, r) + AggregatedChange(summary, r)
  BY DEF ReportsInv, Tabled
<1>7. QED
  BY <1>3, <1>4, <1>5, <1>6

LEMMA NodesSplit ==
  ASSUME ReportsInv
  PROVE  NodesAddUp
<1>1. PICK away, stay, costs : away = table.removable /\ stay = Node \ away /\ costs = table.costs
  OBVIOUS
<1>2. /\ away \in SUBSET Node /\ costs \in [Node -> Costs \cup {NoCost}]
      /\ table.nodes = NodeList(Node) /\ table.nodesAfter = NodeList(stay) /\ table.removed = NodeList(away)
      /\ table.costAfter = KnownIn(costs, Node) - KnownIn(costs, away)
  BY <1>1 DEF ReportsInv, Tabled
<1>3. ASSUME NEW t \in InstanceType PROVE table.nodesAfter[t] + table.removed[t] = table.nodes[t]
  <2>1. PICK A, B, C : /\ A = {n \in stay : TypeOf[n] = t} /\ B = {n \in away : TypeOf[n] = t}
                       /\ C = {n \in Node : TypeOf[n] = t}
    OBVIOUS
  <2>2. IsFiniteSet(A) /\ IsFiniteSet(B) /\ A \cap B = {} /\ A \cup B = C
    <3>1. C \subseteq Node /\ A \subseteq Node /\ B \subseteq Node
      BY <1>1, <1>2, <2>1
    <3>2. IsFiniteSet(A) /\ IsFiniteSet(B)
      BY <3>1, ReportsAssumption, FS_Subset
    <3>3. QED
      BY <1>1, <1>2, <2>1, <3>2
  <2>3. Cardinality(C) = Cardinality(A) + Cardinality(B) - Cardinality({})
    BY <2>2, FS_Union
  <2>4. Cardinality(A) \in Nat /\ Cardinality(B) \in Nat /\ Cardinality({}) = 0
    BY <2>2, FS_CardinalityType, FS_EmptySet
  <2>5. table.nodesAfter[t] = Cardinality(A) /\ table.removed[t] = Cardinality(B) /\ table.nodes[t] = Cardinality(C)
    BY <1>2, <2>1 DEF NodeList
  <2>6. QED
    BY <2>3, <2>4, <2>5
<1>4. table.costAfter = Sum([n \in {n \in stay : costs[n] # NoCost} |-> costs[n]])
  <2>1. PICK S, A, B : /\ S = {n \in Node : costs[n] # NoCost} /\ A = {n \in stay : costs[n] # NoCost}
                       /\ B = {n \in away : costs[n] # NoCost}
    OBVIOUS
  <2>2. A \in SUBSET S /\ B \in SUBSET S /\ A \cap B = {} /\ A \cup B = S /\ S \subseteq Node
    BY <1>1, <1>2, <2>1
  <2>3. IsFiniteSet(S)
    BY <2>2, ReportsAssumption, FS_Subset
  <2>4. \A n \in S : costs[n] \in Int
    BY <1>2, <2>1, ReportsAssumption
  <2>5. PICK f, a, b : f = [n \in S |-> costs[n]] /\ a = [n \in A |-> costs[n]] /\ b = [n \in B |-> costs[n]]
    OBVIOUS
  <2>6. /\ f \in [S -> Int] /\ a \in [A -> Int] /\ b \in [B -> Int]
        /\ (\A n \in A : a[n] = f[n]) /\ (\A n \in B : b[n] = f[n])
    BY <2>2, <2>4, <2>5
  <2>7. Total(f) = Total(a) + Total(b)
    <3>1. PartsOf(S, A, B)
      BY <2>2 DEF PartsOf
    <3>2. SameOn(a, f, A) /\ SameOn(b, f, B)
      BY <2>6 DEF SameOn
    <3>3. QED
      BY <2>3, <2>6, <3>1, <3>2, TotalSplit
  <2>8. Total(a) \in Int /\ Total(b) \in Int
    <3>1. IsFiniteSet(A) /\ IsFiniteSet(B)
      BY <2>2, <2>3, FS_Subset
    <3>2. QED
      BY <2>6, <3>1, TotalType
  <2>9. KnownIn(costs, Node) = Total(f) /\ KnownIn(costs, away) = Total(b)
    BY <2>1, <2>5, SumIsTotal DEF KnownIn
  <2>10. QED
    BY <1>2, <2>1, <2>5, <2>7, <2>8, <2>9, SumIsTotal
<1>5. QED
  BY <1>1, <1>3, <1>4 DEF NodesAddUp

LEMMA TableIsRight == ReportsInv => TableAddsUp
<1> SUFFICES ASSUME ReportsInv PROVE TableAddsUp
  OBVIOUS
<1>1. ReportsTypeOK
  <2>1. /\ template \in [Item -> Templates] /\ replicas \in [Item -> Replicas \cup {Unset}]
        /\ cost \in [Node -> Costs \cup {NoCost}] /\ table.removable \subseteq Node
    BY DEF ReportsInv, ItemsTyped, Tabled
  <2>2. DOMAIN summary \subseteq {i \in Item : resizing[i] # NoAnswer}
    BY DEF ReportsInv, Summaries
  <2>3. \A i \in DOMAIN summary : \A r \in Resource :
          summary[i].down[r] <= 0 /\ summary[i].up[r] >= 0 /\ summary[i].total[r] >= 0
    BY ItemAddsUp
  <2>4. QED
    BY <2>1, <2>2, <2>3 DEF ReportsTypeOK
<1>2. TableSumsRecommendations
  BY TableColumns DEF TableSumsRecommendations, WantedOf
<1>3. NoChangeOfNothing
  BY TableColumns DEF NoChangeOfNothing
<1>4. QED
  BY <1>1, <1>2, <1>3, NodesSplit DEF TableAddsUp

\* After any sequence of listings, answers and costs the table is right, for all items,
\* templates, replicas and recommendations: what it recommends is the sum of what is
\* recommended, nothing changes where there is nothing, and its nodes and their costs add
\* up (summary.go:32-314, deployment.go:98-207 and its counterparts).
THEOREM TableIsRightAlways == ReportsSpec => []TableAddsUp
<1>1. ReportsInv /\ [ReportsNext]_reportVars => ReportsInv'
  BY ReportsStep
<1>2. QED
  BY <1>1, ReportsStart, TableIsRight, PTL DEF ReportsSpec

--------------------------------------------------------------------------------
(* The reports agree.                                                        *)

LEMMA ShownIsSummarised == ReportsInv => ItemAgreesWithSummary
<1> SUFFICES ASSUME ReportsInv, NEW i \in DOMAIN summary, NEW r \in Resource, CountedIn(i, r) = DOMAIN resizing[i]
             PROVE  shown[i][r] = (summary[i].up[r] + summary[i].down[r]) * summary[i].replicas
  BY DEF ItemAgreesWithSummary
<1>1. PICK u \in Nat, d \in Int, k \in Nat :
        u = summary[i].up[r] /\ d = summary[i].down[r] /\ k = summary[i].replicas
  BY ItemAddsUp
<1>2. k = Pieces(i) /\ u + d = Sum(Moved(template[i], resizing[i], r)) /\ i \in Item
  BY <1>1, ItemAddsUp
<1>3. shown[i] = ChangeShown(resizing[i], Pieces(i)) /\ AnswerTo(resizing[i], template[i])
  BY <1>2 DEF ReportsInv, Summaries, ItemsTyped
<1>4. Counted(template[i], resizing[i], r) = DOMAIN resizing[i]
  BY <1>3 DEF Counted, CountedIn, AnswerTo
<1>5. Moved(template[i], resizing[i], r)
        = [c \in DOMAIN resizing[i] |-> resizing[i][c].recommended[r] - resizing[i][c].current[r]]
  BY Zenon, <1>4 DEF Moved
<1>6. shown[i][r] = k * Sum(Moved(template[i], resizing[i], r))
  BY <1>2, <1>3, <1>5 DEF ChangeShown
<1>7. PICK x \in Int : x = u + d
  BY <1>1
<1>8. QED
  BY <1>1, <1>2, <1>6, <1>7

\* The rows that show a change of a resource, and what they show.
RowsFor(r)   == {row \in ExportCsv : r \in DOMAIN row.change}
RowChange(r) == [row \in RowsFor(r) |-> row.change[r]]
PodOfRow(r)  == [row \in RowsFor(r) |-> row.pod]

\* Those of a pod, and what its summary says.
PodRows(i, r) == {CsvRow(i, c) : c \in Counted(stored[i], resizing[i], r)}
PodChange(r)  == [i \in Pods |-> summary[i].up[r] + summary[i].down[r]]

LEMMA RowIs ==
  ASSUME NEW i, NEW c, NEW r \in Resource
  PROVE  /\ CsvRow(i, c).pod = i /\ CsvRow(i, c).container = c
         /\ r \in DOMAIN CsvRow(i, c).change <=> c \in DOMAIN resizing[i] /\ stored[i][c][r] # 0
         /\ r \in DOMAIN CsvRow(i, c).change =>
              CsvRow(i, c).change[r] = resizing[i][c].recommended[r] - stored[i][c][r]
<1>1. PICK R : R = {s \in Resource : c \in DOMAIN resizing[i] /\ stored[i][c][s] # 0}
  OBVIOUS
<1>2. PICK g : g = [s \in R |-> ExportedChange(i, c, s)]
  OBVIOUS
<1>3. CsvRow(i, c) = [pod |-> i, container |-> c, change |-> g]
  BY <1>1, <1>2 DEF CsvRow
<1>4. r \in R => g[r] = resizing[i][c].recommended[r] - stored[i][c][r]
  BY <1>2 DEF ExportedChange
<1>5. QED
  BY <1>1, <1>2, <1>3, <1>4

LEMMA RowsOfPods ==
  ASSUME ReportsInv, NEW r \in Resource
  PROVE  /\ \A i \in Pods : PodRows(i, r) \subseteq RowsFor(r)
         /\ \A row \in RowsFor(r) : row.pod \in Pods /\ row \in PodRows(row.pod, r)
         /\ \A i \in Pods : Fibre(PodOfRow(r), i) = PodRows(i, r)
<1>1. ASSUME NEW i \in Pods, NEW c \in Counted(stored[i], resizing[i], r)
      PROVE  CsvRow(i, c) \in RowsFor(r) /\ CsvRow(i, c).pod = i
  <2>1. c \in DOMAIN stored[i] /\ c \in DOMAIN resizing[i] /\ stored[i][c][r] # 0
    BY DEF Counted
  <2>2. CsvRow(i, c) \in ExportCsv
    BY <2>1 DEF ExportCsv
  <2>3. QED
    BY <2>1, <2>2, RowIs DEF RowsFor
<1>2. ASSUME NEW row \in RowsFor(r) PROVE row.pod \in Pods /\ row \in PodRows(row.pod, r)
  <2>1. PICK i \in Pods : \E c \in DOMAIN stored[i] : row = CsvRow(i, c)
    BY DEF RowsFor, ExportCsv
  <2>2. PICK c \in DOMAIN stored[i] : row = CsvRow(i, c)
    BY <2>1
  <2>3. r \in DOMAIN CsvRow(i, c).change
    BY <2>2 DEF RowsFor
  <2>4. row.pod = i /\ c \in DOMAIN resizing[i] /\ stored[i][c][r] # 0
    BY <2>2, <2>3, RowIs
  <2>5. c \in Counted(stored[i], resizing[i], r)
    BY <2>4 DEF Counted
  <2>6. QED
    BY <2>1, <2>2, <2>4, <2>5 DEF PodRows
<1>3. ASSUME NEW i \in Pods PROVE Fibre(PodOfRow(r), i) = PodRows(i, r)
  <2>1. ASSUME NEW row \in Fibre(PodOfRow(r), i) PROVE row \in PodRows(i, r)
    <3>1. row \in RowsFor(r) /\ row.pod = i
      BY DEF Fibre, PodOfRow
    <3>2. QED
      BY <1>2, <3>1
  <2>2. ASSUME NEW row \in PodRows(i, r) PROVE row \in Fibre(PodOfRow(r), i)
    <3>1. row \in RowsFor(r) /\ row.pod = i
      BY <1>1 DEF PodRows
    <3>2. QED
      BY <3>1 DEF Fibre, PodOfRow
  <2>3. QED
    BY <2>1, <2>2
<1>4. \A i \in Pods : PodRows(i, r) \subseteq RowsFor(r)
  BY <1>1 DEF PodRows
<1>5. QED
  BY <1>2, <1>3, <1>4

\* The rows of a pod sum to the change of its summary.
LEMMA PodAgrees ==
  ASSUME ReportsInv, NEW r \in Resource, NEW i \in Pods
  PROVE  /\ IsFiniteSet(PodRows(i, r)) /\ \A row \in PodRows(i, r) : row.change[r] \in Int
         /\ Total([row \in PodRows(i, r) |-> row.change[r]]) = PodChange(r)[i]
         /\ PodChange(r)[i] \in Int
<1>1. /\ i \in DOMAIN summary /\ i \in Item /\ stored[i] = template[i]
      /\ template[i] \in Templates /\ AnswerTo(resizing[i], template[i])
  BY DEF Pods, ReportsInv, ItemsTyped, Summaries
<1>2. PICK C, m, u : /\ C = Counted(template[i], resizing[i], r) /\ m = Moved(template[i], resizing[i], r)
                     /\ u = [c \in C |-> CsvRow(i, c)]
  OBVIOUS
<1>3. /\ IsFiniteSet(C) /\ C \subseteq DOMAIN resizing[i]
      /\ \A c \in DOMAIN resizing[i] : /\ resizing[i][c].current[r] \in Nat /\ resizing[i][c].recommended[r] \in Nat
                                       /\ resizing[i][c].current = template[i][c]
  BY <1>1, <1>2, AnswerTyped DEF AnswerTo
<1>4. m \in [C -> Int] /\ \A c \in C : m[c] = resizing[i][c].recommended[r] - resizing[i][c].current[r]
  BY <1>2, <1>3 DEF Moved
<1>5. PICK Q : Q = PodRows(i, r)
  OBVIOUS
<1>6. \A row : row \in Q <=> \E c \in C : row = CsvRow(i, c)
  BY <1>1, <1>2, <1>5 DEF PodRows
<1>7. ASSUME NEW c \in C PROVE CsvRow(i, c).container = c /\ CsvRow(i, c).change[r] = m[c]
  <2>1. c \in DOMAIN resizing[i] /\ stored[i][c][r] # 0 /\ stored[i][c] = resizing[i][c].current
    BY <1>1, <1>2, <1>3 DEF Counted
  <2>2. QED
    BY <1>4, <2>1, RowIs
<1>8. u \in Bijection(C, Q)
  <2>1. u \in [C -> Q]
    BY <1>2, <1>6
  <2>2. \A a, b \in C : u[a] = u[b] => a = b
    <3> SUFFICES ASSUME NEW a \in C, NEW b \in C, u[a] = u[b] PROVE a = b
      OBVIOUS
    <3>1. CsvRow(i, a) = CsvRow(i, b)
      BY <1>2
    <3>2. CsvRow(i, a).container = a /\ CsvRow(i, b).container = b
      BY <1>7
    <3>3. QED
      BY <3>1, <3>2
  <2>3. \A t \in Q : \E c \in C : u[c] = t
    BY <1>2, <1>6
  <2>4. QED
    BY <2>1, <2>2, <2>3, Fun_IsBij
<1>9. PICK h : h = [row \in Q |-> row.change[r]]
  OBVIOUS
<1>10. \A row \in Q : row.change[r] \in Int
  BY <1>4, <1>6, <1>7
<1>11. h \in [Q -> Int]
  BY <1>9, <1>10
<1>12. \A c \in C : m[c] = h[u[c]]
  BY <1>2, <1>6, <1>7, <1>9
<1>13. IsFiniteSet(Q) /\ Total(m) = Total(h)
  BY <1>3, <1>4, <1>8, <1>11, <1>12, TotalReindex
<1>14. PodChange(r)[i] = Sum(m)
  BY <1>1, <1>2, ItemAddsUp DEF PodChange
<1>15. Total(m) \in Int
  BY <1>3, <1>4, TotalType
<1>16. QED
  BY <1>5, <1>9, <1>10, <1>13, <1>14, <1>15, SumIsTotal

LEMMA CsvIsSummarised == ReportsInv => CsvAgreesWithSummary
<1> SUFFICES ASSUME ReportsInv, NEW r \in Resource PROVE Sum(RowChange(r)) = Sum(PodChange(r))
  BY DEF CsvAgreesWithSummary, RowsFor, RowChange, PodChange
<1>1. PICK S, T, f, p, h : /\ S = RowsFor(r) /\ T = Pods /\ f = RowChange(r) /\ p = PodOfRow(r)
                           /\ h = PodChange(r)
  OBVIOUS
<1>2. IsFiniteSet(T)
  <2>1. T \subseteq Item
    BY <1>1 DEF Pods, ReportsInv, Summaries
  <2>2. QED
    BY <2>1, ReportsAssumption, FS_Subset
<1>3. IsFiniteSet(S)
  <2>1. PICK all : all = [i \in T |-> PodRows(i, r)]
    OBVIOUS
  <2>2. PICK F : F = {all[i] : i \in T}
    OBVIOUS
  <2>3. IsFiniteSet(F)
    <3>1. all \in [T -> F]
      BY <2>1, <2>2
    <3>2. all \in Surjection(T, F)
      BY <2>2, <3>1, Fun_IsSurj
    <3>3. QED
      BY <1>2, <3>2, FS_Surjection
  <2>4. \A s \in F : IsFiniteSet(s)
    BY <1>1, <2>1, <2>2, PodAgrees
  <2>5. S \subseteq UNION F
    BY <1>1, <2>1, <2>2, RowsOfPods
  <2>6. QED
    BY <2>3, <2>4, <2>5, FS_UNION, FS_Subset
<1>4. \A row \in S : row.pod \in T /\ row \in PodRows(row.pod, r)
  BY <1>1, RowsOfPods
<1>5. \A row \in S : row.change[r] \in Int
  BY <1>1, <1>4, PodAgrees
<1>6. f \in [S -> Int] /\ p \in [S -> T]
  BY <1>1, <1>4, <1>5 DEF RowChange, PodOfRow
<1>7. h \in [T -> Int]
  <2>1. h = [i \in T |-> h[i]]
    BY <1>1 DEF PodChange
  <2>2. \A i \in T : h[i] \in Int
    BY <1>1, PodAgrees
  <2>3. QED
    BY <2>1, <2>2
<1>8. ASSUME NEW t \in T PROVE h[t] = Total([row \in Fibre(p, t) |-> f[row]])
  <2>1. PICK Q : Q = PodRows(t, r)
    OBVIOUS
  <2>2. Fibre(p, t) = Q /\ Q \subseteq S
    BY <1>1, <2>1, RowsOfPods
  <2>3. \A row \in Q : f[row] = row.change[r]
    BY <1>1, <2>2 DEF RowChange
  <2>4. [row \in Fibre(p, t) |-> f[row]] = [row \in Q |-> row.change[r]]
    BY <2>2, <2>3
  <2>5. Total([row \in Q |-> row.change[r]]) = h[t]
    BY <1>1, <2>1, PodAgrees
  <2>6. QED
    BY <2>4, <2>5
<1>9. Total(f) = Total(h)
  BY <1>2, <1>3, <1>6, <1>7, <1>8, TotalFibres
<1>10. QED
  BY <1>1, <1>9, SumIsTotal

\* After any sequence of listings, answers and costs the template of the cluster is the one
\* the processor keeps, what is shown with an item is the change its summary brings into
\* the table, and the exported rows of the pods are the changes of their summaries
\* (deployment.go:98-189, deployment_item.go:202, pods/pod.go:105-260).
THEOREM ReportsAgreeAlways == ReportsSpec => []ReportsAgree
<1>1. ReportsInv /\ [ReportsNext]_reportVars => ReportsInv'
  BY ReportsStep
<1>2. ReportsInv => ReportsAgree
  BY ShownIsSummarised, CsvIsSummarised DEF ReportsAgree, TemplateIsKept, ReportsInv, ItemsTyped
<1>3. QED
  BY <1>1, <1>2, ReportsStart, PTL DEF ReportsSpec
================================================================================

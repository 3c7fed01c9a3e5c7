------------------------------ MODULE PluginStart ------------------------------
(***************************************************************************)
(* StartProcess of plugin/service.go: the flags, the cluster, the agent or *)
(* Prometheus, the configuration, and then the command: one question to    *)
(* the agent, or the processors of one or all kinds of workloads.  The     *)
(* workers of the job queue run from the first push on, and the callback   *)
(* that announces the results is registered last.                          *)
(*                                                                         *)
(* The queue is external: when a job ends and no other is left, it calls   *)
(* what was registered by then.  So are the client, which passes every     *)
(* flag the plugin registers, an empty one when the user gave none, and    *)
(* sends nothing else before StartProcess returned, and the services,      *)
(* which answer, fail, or never answer: the calls have no deadline.        *)
(***************************************************************************)
EXTENDS Integers, Sequences, FiniteSets, FiniteSetsExt

CONSTANTS
  Worker,
  FlagSets,          \* the flags a user may give
  MaxFollowers,      \* bound on the jobs that jobs push
  MaxReEvaluations   \* bound on the re-evaluations

AgentCommand == {"agent-trigger", "agent-job-status"}

\* The processors of a command, in the order they are made.
Processors ==
  [command \in {"kubernetes", "kubernetes-pods", "kubernetes-deployments", "kubernetes-statefulsets",
                "kubernetes-daemonsets", "kubernetes-jobs"} |->
     CASE command = "kubernetes" -> <<"daemonset", "deployment", "statefulset", "job", "pod">>
       [] command = "kubernetes-pods"         -> <<"pod">>
       [] command = "kubernetes-deployments"  -> <<"deployment">>
       [] command = "kubernetes-statefulsets" -> <<"statefulset">>
       [] command = "kubernetes-daemonsets"   -> <<"daemonset">>
       [] command = "kubernetes-jobs"         -> <<"job">>]
Command == AgentCommand \cup DOMAIN Processors
Job == {"nodes", "follower", "daemonset", "deployment", "statefulset", "job", "pod"}

Value == {"absent", "empty", "set"}
Flags == [agentDisabled : {"true", "false", "unreadable"}, agentAddress : Value,
          basic : Value, oauth : Value, output : {"interactive", "csv"}, days : Int]

ASSUME StartAssumption ==
  /\ FlagSets \subseteq Flags
  /\ MaxFollowers \in Nat /\ MaxReEvaluations \in Nat

VARIABLES
  pc,          \* where StartProcess is
  command, flags,
  agent,       \* the address of the agent, and whether it is used
  prometheus,  \* whether there is a client, and how it authenticates
  conf,        \* the days to observe, and whether items may wait to be loaded
  listed,      \* the barrier of the nodes' processor is open
  made,        \* how many processors of the command were made
  processor,   \* p.processor is assigned
  onFinish,    \* a callback is registered
  queue,       \* job -> how many of it are queued
  work,        \* worker -> the job or the stage of the callback it is at
  sent,        \* the messages to the client, apart from items and summaries
  ran,         \* history: the jobs that ended
  early,       \* history: the queue was empty before the callback was registered
  followers, reevaluations, statusFailed

connection == <<command, flags, agent, prometheus, conf>>
jobs == <<listed, queue, work, ran, early, followers>>
vars == <<pc, connection, jobs, made, processor, onFinish, sent, reevaluations, statusFailed>>

Init ==
  /\ pc = "kubernetes" /\ command \in Command /\ flags \in FlagSets
  /\ agent = [address |-> "none", enabled |-> FALSE]
  /\ prometheus = [connected |-> FALSE, auth |-> "none"]
  /\ conf = [days |-> 1, waits |-> TRUE]
  /\ listed = FALSE /\ made = 0 /\ processor = FALSE /\ onFinish = FALSE
  /\ queue = [j \in Job |-> 0] /\ work = [w \in Worker |-> "free"]
  /\ sent = <<>> /\ ran = {} /\ early = FALSE
  /\ followers = 0 /\ reevaluations = 0 /\ statusFailed = FALSE

Push(j) == queue' = [queue EXCEPT ![j] = @ + 1]
Step(from, to) == pc = from /\ pc' = to

--------------------------------------------------------------------------------
(* Connecting.                                                               *)

\* Deviation: an agent that does not answer is looked for again.
CallFailsRetried ==
  /\ pc \in {"kubernetes", "agent", "ping", "prometheus", "configuration"}
  /\ pc = "ping" => agent.enabled
  /\ pc = "prometheus" => ~agent.enabled
  /\ pc' = IF pc = "ping" THEN "agent" ELSE "error"
  /\ UNCHANGED <<connection, jobs, made, processor, onFinish, sent, reevaluations, statusFailed>>

\* Whichever call fails, its error is returned at once.
CallFails ==
  /\ pc \in {"kubernetes", "agent", "ping", "prometheus", "configuration"}
  /\ pc = "ping" => agent.enabled
  /\ pc = "prometheus" => ~agent.enabled
  /\ pc' = "error"
  /\ UNCHANGED <<connection, jobs, made, processor, onFinish, sent, reevaluations, statusFailed>>

\* The agent is looked for, unless its address is given or it is disabled.
LooksForAgent == flags.agentAddress # "set" /\ flags.agentDisabled # "true"

\* StartProcess is in a call without a deadline: a discovery, whose forwarding waits for
\* a first connection that may have failed, or a request to the agent, to Prometheus or
\* for the configuration.
InCall ==
  \/ pc = "agent" /\ LooksForAgent
  \/ pc = "ping" /\ agent.enabled
  \/ pc = "prometheus" /\ ~agent.enabled
  \/ pc = "configuration"
  \/ pc = "command" /\ command \in AgentCommand /\ agent.enabled

\* The call never returns.
CallHangs ==
  /\ InCall /\ pc' = "hung"
  /\ UNCHANGED <<connection, jobs, made, processor, onFinish, sent, reevaluations, statusFailed>>

\* The cluster, and the flag that says whether to look for the agent.
ConnectCluster ==
  /\ pc = "kubernetes"
  /\ pc' = IF flags.agentDisabled = "unreadable" THEN "error" ELSE "agent"
  /\ UNCHANGED <<connection, jobs, made, processor, onFinish, sent, reevaluations, statusFailed>>

\* Its address is given, or it is looked for unless it is disabled; no agent is no error.
ConnectAgent ==
  /\ Step("agent", "ping")
  /\ \E address \in IF flags.agentAddress = "set" THEN {"given"}
                    ELSE IF LooksForAgent THEN {"forwarded", "none"} ELSE {"none"} :
       agent' = [address |-> address, enabled |-> address # "none" /\ flags.agentDisabled = "false"]
  /\ UNCHANGED <<command, flags, prometheus, conf, jobs, made, processor, onFinish, sent, reevaluations, statusFailed>>

PingAgent ==
  /\ Step("ping", "prometheus")
  /\ UNCHANGED <<connection, jobs, made, processor, onFinish, sent, reevaluations, statusFailed>>

Given(value) == value # "absent"

AuthType == IF Given(flags.basic) THEN "basic" ELSE IF Given(flags.oauth) THEN "oauth2" ELSE "none"

\* Deviation: Prometheus is asked when the user disabled the agent.
NeedsPrometheusIfDisabled == flags.agentDisabled = "true"

NeedsPrometheus == ~agent.enabled

\* Its address is given or it is looked for; without one the call fails.
ConnectPrometheus ==
  /\ Step("prometheus", "configuration")
  /\ prometheus' = IF NeedsPrometheus THEN [connected |-> TRUE, auth |-> AuthType] ELSE prometheus
  /\ sent' = Append(sent, "not ready")
  /\ UNCHANGED <<command, flags, agent, conf, jobs, made, processor, onFinish, reevaluations, statusFailed>>

\* What does not read as a positive number of days is one day.
Configure ==
  /\ Step("configuration", "command")
  /\ conf' = [days |-> IF flags.days > 0 THEN flags.days ELSE 1, waits |-> flags.output = "interactive"]
  /\ UNCHANGED <<command, flags, agent, prometheus, jobs, made, processor, onFinish, sent, reevaluations, statusFailed>>

--------------------------------------------------------------------------------
(* The commands.                                                             *)

\* A question to the agent, when there is one.
AskAgent(outcome) ==
  /\ pc = "command" /\ command \in AgentCommand
  /\ UNCHANGED <<connection, jobs, made, processor, onFinish, reevaluations>>
  /\ outcome

NoAgent ==
  AskAgent(/\ ~agent.enabled /\ pc' = "returned"
           /\ sent' = sent \o <<"error", "ready">> /\ UNCHANGED statusFailed)

AgentAnswers ==
  AskAgent(/\ agent.enabled /\ pc' = "returned"
           /\ sent' = sent \o <<"answer", "ready">> /\ UNCHANGED statusFailed)

TriggerFails ==
  AskAgent(/\ agent.enabled /\ command = "agent-trigger" /\ pc' = "error"
           /\ UNCHANGED <<sent, statusFailed>>)

\* The error is sent, and then the answer that is not there is read.
JobStatusFails ==
  AskAgent(/\ agent.enabled /\ command = "agent-job-status" /\ pc' = "panicked"
           /\ sent' = Append(sent, "error") /\ statusFailed' = TRUE)

\* Deviation: the callback is registered first.
NodesProcessorAnnounced ==
  /\ pc = "command" /\ command \notin AgentCommand
  /\ pc' = IF command = "kubernetes-pods" THEN "construct" ELSE "chart"
  /\ Push("nodes") /\ onFinish' = TRUE
  /\ UNCHANGED <<connection, listed, work, ran, early, followers, made, processor, sent, reevaluations, statusFailed>>

\* Only the command for pods keeps the columns the plugin has registered.
NodesProcessor ==
  /\ pc = "command" /\ command \notin AgentCommand
  /\ pc' = IF command = "kubernetes-pods" THEN "construct" ELSE "chart"
  /\ Push("nodes")
  /\ UNCHANGED <<connection, listed, work, ran, early, followers, made, processor, onFinish, sent, reevaluations,
                 statusFailed>>

UpdateChart ==
  /\ pc = "chart"
  /\ \/ pc' = "construct" /\ sent' = Append(sent, "chart")
     \/ pc' = "error" /\ UNCHANGED sent
  /\ UNCHANGED <<connection, jobs, made, processor, onFinish, reevaluations, statusFailed>>

\* The next processor of the command is made, which pushes its first job; all but the
\* command for pods wait for the nodes.
Construct ==
  /\ pc = "construct" /\ made < Len(Processors[command])
  /\ listed \/ command = "kubernetes-pods"
  /\ Push(Processors[command][made + 1])
  /\ made' = made + 1
  /\ UNCHANGED <<pc, connection, listed, work, ran, early, followers, processor, onFinish, sent, reevaluations,
                 statusFailed>>

\* What the constructors return is assigned.
Assign ==
  /\ Step("construct", "finish") /\ made = Len(Processors[command])
  /\ processor' = TRUE
  /\ UNCHANGED <<connection, jobs, made, onFinish, sent, reevaluations, statusFailed>>

SetOnFinish ==
  /\ Step("finish", "returned")
  /\ onFinish' = TRUE
  /\ UNCHANGED <<connection, jobs, made, processor, sent, reevaluations, statusFailed>>

\* The user asks for an item again, one that a job has shown: its processor pushes a job.
ReEvaluate ==
  /\ pc = "returned" /\ processor /\ reevaluations < MaxReEvaluations
  /\ ran \ {"nodes"} # {}
  /\ reevaluations' = reevaluations + 1
  /\ Push("follower")
  /\ UNCHANGED <<pc, connection, listed, work, ran, early, followers, made, processor, onFinish, sent, statusFailed>>

--------------------------------------------------------------------------------
(* The workers.                                                              *)

Take(w) ==
  /\ work[w] = "free"
  /\ \E j \in Job : /\ queue[j] > 0
                    /\ queue' = [queue EXCEPT ![j] = @ - 1]
                    /\ work' = [work EXCEPT ![w] = j]
  /\ UNCHANGED <<pc, connection, listed, ran, early, followers, made, processor, onFinish, sent, reevaluations,
                 statusFailed>>

\* A job pushes another, as those that list and those that load do.
PushFollower(w) ==
  /\ work[w] \in Job /\ followers < MaxFollowers
  /\ followers' = followers + 1
  /\ Push("follower")
  /\ UNCHANGED <<pc, connection, listed, work, ran, early, made, processor, onFinish, sent, reevaluations, statusFailed>>

\* No job is queued, and no other worker is at one.
Drained(w) == (\A j \in Job : queue[j] = 0) /\ \A v \in Worker \ {w} : work[v] \notin Job

\* A job ends, with an error or without; the listing opens the barrier in both cases.
\* With the last job the callback is called.
EndJob(w) ==
  /\ work[w] \in Job
  /\ listed' = (listed \/ work[w] = "nodes")
  /\ ran' = ran \cup {work[w]}
  /\ work' = [work EXCEPT ![w] = IF Drained(w) /\ onFinish THEN "export" ELSE "free"]
  /\ early' = (early \/ (Drained(w) /\ ~onFinish))
  /\ UNCHANGED <<pc, connection, queue, followers, made, processor, onFinish, sent, reevaluations, statusFailed>>

\* The callback sends the export, and then that the results are ready.
Publish(w) ==
  /\ work[w] \in {"export", "ready"}
  /\ sent' = Append(sent, work[w])
  /\ work' = [work EXCEPT ![w] = IF @ = "export" THEN "ready" ELSE "free"]
  /\ UNCHANGED <<pc, connection, listed, queue, ran, early, followers, made, processor, onFinish, reevaluations,
                 statusFailed>>

--------------------------------------------------------------------------------

Start ==
  \/ ConnectCluster \/ ConnectAgent \/ PingAgent \/ ConnectPrometheus \/ Configure \/ CallFails
  \/ CallHangs
  \/ NoAgent \/ AgentAnswers \/ TriggerFails \/ JobStatusFails
  \/ NodesProcessor \/ UpdateChart \/ Construct \/ Assign \/ SetOnFinish

WorkerStep(w) == Take(w) \/ PushFollower(w) \/ EndJob(w) \/ Publish(w)

\* Between calls the process waits for the client.
Waiting == /\ pc \in {"returned", "error", "panicked", "hung"}
           /\ \A w \in Worker : work[w] = "free"
           /\ \A j \in Job : queue[j] = 0
           /\ UNCHANGED vars

Next == Start \/ ReEvaluate \/ Waiting \/ \E w \in Worker : WorkerStep(w)

Spec == Init /\ [][Next]_vars

\* StartProcess goes on, to the call that hangs if there is one, and so does every worker:
\* the jobs it is at end.
FairSpec == Spec /\ WF_vars(Start) /\ \A w \in Worker : WF_vars(WorkerStep(w))

--------------------------------------------------------------------------------
(* Properties.                                                               *)

Ready == \E n \in DOMAIN sent : sent[n] = "ready"
Quiet == pc = "returned" /\ (\A j \in Job : queue[j] = 0) /\ \A w \in Worker : work[w] = "free"

\* The types, and a period to divide by (service.go:468).
TypeOK ==
  /\ command \in Command /\ flags \in FlagSets
  /\ agent \in [address : {"none", "given", "forwarded"}, enabled : BOOLEAN]
  /\ prometheus \in [connected : BOOLEAN, auth : {"none", "basic", "oauth2"}]
  /\ conf.days >= 1 /\ conf.waits \in BOOLEAN
  /\ listed \in BOOLEAN /\ processor \in BOOLEAN /\ onFinish \in BOOLEAN /\ made \in 0..5
  /\ queue \in [Job -> Nat] /\ work \in [Worker -> Job \cup {"free", "export", "ready"}]

\* Whatever is disabled, given, found or not found, a processor is made with one source
\* of metrics, the agent or Prometheus: its jobs ask that one without looking
\* (service.go:360).
OneSource == TypeOK /\ (made > 0 => agent.enabled # prometheus.connected)

\* Nothing is announced before the first jobs of all processors of the command ended:
\* the queue is empty between the listing of the nodes and the first of them
\* (service.go:882).
NotAnnouncedEarly ==
  (Ready /\ command \notin AgentCommand) =>
    \A n \in DOMAIN Processors[command] : Processors[command][n] \in ran

\* When nothing is left to do the last word is that the results are ready, after a
\* re-evaluation as well (service.go:882).
QuietIsReady == (Quiet /\ (reevaluations > 0 \/ ~early)) => sent[Len(sent)] = "ready"

\* That the results are ready is said when they are, and again after every change
\* (service.go:882).
Announced == NotAnnouncedEarly /\ QuietIsReady

\* A start that is not held up by a call that never returns comes to an end: an error, a
\* crash, or results that are announced, unless the queue was empty before the callback
\* was registered (service.go:882, metric.go:223).
StartEnds == <>(pc \in {"error", "panicked", "hung"} \/ Ready \/ early)

\* "Prometheus OAuth2 client id" (service.go:97): a user who gives the OAuth2 flags, and
\* no user name, is authenticated by them.
\* TLC refutes it: an empty flag counts as given.
OAuthIsUsed ==
  (prometheus.connected /\ flags.oauth = "set" /\ flags.basic # "set") => prometheus.auth = "oauth2"

\* "failed to get job status" (service.go:546): a failure is sent and the command goes on.
\* TLC refutes it: the answer that is not there is read.
StatusFailureIsReported == statusFailed => pc # "panicked"
================================================================================

SPECIFICATION ReportsSpec
CONSTANTS
  job = job
  pod = pod
  deployment = deployment
  statefulset = statefulset
  daemonset = daemonset
  c1 = c1
  c2 = c2
  n1 = n1
  n2 = n2
  Item = {job, pod, deployment, statefulset, daemonset}
  Kind <- MCKind
  Container = {c1, c2}
  Resource = {"request", "limit"}
  Templates <- MCTemplates
  Replicas = {0, 2}
  Unset = Unset
  Recommendations <- MCRecommendations
  Node = {n1, n2}
  InstanceType = {"large", "small"}
  TypeOf <- MCTypeOf
  NoType = NoType
  Costs = {2}
  NoCost = NoCost
INVARIANTS TableAddsUp ReportsAgree
CONSTRAINT OneAndAPod

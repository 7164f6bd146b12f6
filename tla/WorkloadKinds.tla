--------------------------- MODULE WorkloadKinds ---------------------------
(***************************************************************************)
(* The kinds the process reports on, one record for each reconciler of     *)
(* internal/controller: its kind, whether the WatchSupervisor runs it (or  *)
(* the manager, on the shared cache), whether it lists what its workload   *)
(* owns transitively (rootDescendants), and the kind of the objects that   *)
(* own its pods directly.  Everything else in a reconciler's Reconcile is  *)
(* the request it hands to reconcileWorkload, which carries the kind, the  *)
(* workload's identity and generation, these pods and this owned list.     *)
(***************************************************************************)

managed(kind, podOwner) ==
  [kind |-> kind, supervised |-> FALSE, descends |-> FALSE, podOwner |-> podOwner]
supervisedRoot(kind) ==
  [kind |-> kind, supervised |-> TRUE, descends |-> TRUE, podOwner |-> "any"]

DeploymentReconciler == managed("Deployment", "ReplicaSet")
StatefulSetReconciler == managed("StatefulSet", "StatefulSet")
DaemonSetReconciler == managed("DaemonSet", "DaemonSet")
JobReconciler == managed("Job", "Job")
CronJobReconciler == [managed("CronJob", "any") EXCEPT !.descends = TRUE]
KServeInferenceServiceReconciler == supervisedRoot("InferenceService")
DynamoGraphDeploymentReconciler == supervisedRoot("DynamoGraphDeployment")
DynamoComponentDeploymentReconciler == supervisedRoot("DynamoComponentDeployment")
NIMServiceReconciler == supervisedRoot("NIMService")
LeaderWorkerSetReconciler == supervisedRoot("LeaderWorkerSet")
DisaggregatedSetReconciler == supervisedRoot("DisaggregatedSet")

Reconcilers ==
  {DeploymentReconciler, StatefulSetReconciler, DaemonSetReconciler, JobReconciler,
   CronJobReconciler, KServeInferenceServiceReconciler, DynamoGraphDeploymentReconciler,
   DynamoComponentDeploymentReconciler, NIMServiceReconciler, LeaderWorkerSetReconciler,
   DisaggregatedSetReconciler}

ReportingKinds == {r.kind : r \in Reconcilers}
SupervisedKinds == {r.kind : r \in {s \in Reconcilers : s.supervised}}
ManagedKinds == ReportingKinds \ SupervisedKinds
\* The typed kinds besides pods, which the manager's informer caches serve.
CachedKinds == ManagedKinds \cup {"ReplicaSet"}
ReconcilerOf(k) == CHOOSE r \in Reconcilers : r.kind = k

\* The kinds rootDescendants lists: LeaderWorkerSet only when it is tracked.
intermediateKinds ==
  {"DynamoComponentDeployment", "PodCliqueSet", "PodCliqueScalingGroup", "PodClique"}
ListedKinds(tracked) ==
  {"Deployment", "ReplicaSet", "StatefulSet", "Job"} \cup intermediateKinds
    \cup ({"LeaderWorkerSet"} \cap tracked)
=============================================================================

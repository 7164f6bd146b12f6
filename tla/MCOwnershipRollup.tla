------------------------- MODULE MCOwnershipRollup -------------------------
(***************************************************************************)
(* OwnershipRollup on a DynamoComponentDeployment, its Deployment, the     *)
(* ReplicaSet of that and a pod; and on the same chain with the            *)
(* DynamoGraphDeployment above it, which lists the component on its way    *)
(* down.                                                                   *)
(***************************************************************************)
EXTENDS OwnershipRollup

MCObjects == {"component", "deployment", "replicaset", "pod"}
MCKindOf == [component |-> "DynamoComponentDeployment", deployment |-> "Deployment",
             replicaset |-> "ReplicaSet", pod |-> "Pod"]
MCOwnerRef == [component |-> Nil, deployment |-> "component",
               replicaset |-> "deployment", pod |-> "replicaset"]

GraphObjects == MCObjects \cup {"graph"}
GraphKindOf ==
  [o \in GraphObjects |-> IF o = "graph" THEN "DynamoGraphDeployment" ELSE MCKindOf[o]]
GraphOwnerRef ==
  [o \in GraphObjects |-> CASE o = "graph" -> Nil
                            [] o = "component" -> "graph"
                            [] OTHER -> MCOwnerRef[o]]
=============================================================================

-------------------------- MODULE MCConfiguration --------------------------
(***************************************************************************)
(* Configuration with a handful of specs: a plain one, one that restricts  *)
(* the kinds and needs a Secret, one whose sinks are built and thrown away *)
(* because another part is wrong.                                          *)
(***************************************************************************)
EXTENDS Configuration

Deployment == [group |-> "apps", kind |-> "Deployment"]
LWS == [group |-> "leaderworkerset.x-k8s.io", kind |-> "LeaderWorkerSet"]
MCKnownWorkloadKinds == {Deployment, LWS}

GCS == [name |-> "archive", type |-> "GCS", webhook |-> Nil,
        gcs |-> [bucket |-> "set", credentialsSecretRef |-> Nil]]
Hook == [name |-> "siem", type |-> "Webhook", gcs |-> Nil,
         webhook |-> [endpoint |-> "https",
                      auth |-> [bearerToken |-> "token", mtls |-> Nil]]]

Plain == [selector |-> Nil, patterns |-> <<>>, workloadKinds |-> <<>>, sinks |-> <<GCS>>,
          verification |-> Nil, inline |-> 0, stale |-> 0]
Restricted == [Plain EXCEPT !.selector = "team", !.sinks = <<Hook>>,
                            !.workloadKinds = <<<<"apps", "Deployment">>>>]
Mistyped == [Plain EXCEPT !.workloadKinds = <<<<"apps", "Deploymnet">>>>]
MCSpecs == {Plain, Restricted, Mistyped}

MCExpectedFields == {<<"discovery">>, <<"discovery", "workloadKinds">>, <<"verification">>}
Current == [discovery |-> {"workloadKinds", "namespaceSelector"}, verification |-> Nil]
Older == [discovery |-> {"namespaceSelector"}, verification |-> Nil]
MCSchemas == {Current, Older}
OneSchema == {Current}
=============================================================================

------------------------- MODULE ResourceReconcilers -------------------------
(***************************************************************************)
(* The five dependent-resource reconcilers of the GPU add-on operator.     *)
(* Each is a stateless struct implementing Reconcile(ctx, client, gpuAddon)*)
(* -> ([]Condition, error) and Delete(ctx, client).  A call is modelled by *)
(* the SET of its possible outcomes: every client call (Get, CreateOrPatch,*)
(* Delete, List) may fail with a transient error, and the outcome where it *)
(* does is an element of the set marked fault = TRUE.  An outcome records  *)
(* the store after the call, the conditions returned, and whether an error *)
(* was returned.  An error that is not a client fault (err /\ ~fault) is   *)
(* one the code produces deterministically from the store.                 *)
(***************************************************************************)
EXTENDS ClusterStore

Reconcilers == {"NGCSecret", "ClusterPolicy", "NetworkOperator",
                "NicClusterPolicy", "MacvlanNetwork"}

\* The condition types.  SubscriptionDeployed belongs to the gpu-operator
\* subscription step, which the NGC secret reconciler also writes (below).
CondTypes == {"NGCSecretDeployed", "ClusterPolicyDeployed", "NetworkOperatorDeployed",
              "NicClusterPolicyDeployed", "MacvlanNetworkDeployed", "SubscriptionDeployed"}

\* The condition type constant each reconciler declares.
CondType == [r \in Reconcilers |->
                CASE r = "NGCSecret"        -> "NGCSecretDeployed"
                  [] r = "ClusterPolicy"    -> "ClusterPolicyDeployed"
                  [] r = "NetworkOperator"  -> "NetworkOperatorDeployed"
                  [] r = "NicClusterPolicy" -> "NicClusterPolicyDeployed"
                  [] r = "MacvlanNetwork"   -> "MacvlanNetworkDeployed"]

Reasons == {"Success", "Failed", "NotConfigured", "FetchCrFailed", "CreateCrFailed",
            "CreateCrSuccess", "AddonParametersSecretNotPresent",
            "AddonParametersSecretNotValid", "FetchAddonParametersFailed",
            "FetchSecretFailed", "CreateSecretFailed", "CreateSecretSuccess"}

Condition == [type : CondTypes, status : {"True", "False"}, reason : Reasons]

\* common.NewCondition, without the message and the timestamp.
NewCondition(type, status, reason) == [type |-> type, status |-> status, reason |-> reason]

ReconcileOutcome == [store : Store, conds : Seq(Condition), err : BOOLEAN, fault : BOOLEAN]
DeleteOutcome == [store : Store, err : BOOLEAN, fault : BOOLEAN]

Outcome(st, c, err, fault) == [store |-> st, conds |-> <<c>>, err |-> err, fault |-> fault]
Deleted(st, err, fault) == [store |-> st, err |-> err, fault |-> fault]

(***************************************************************************)
(* NGCSecretResourceReconciler                                             *)
(***************************************************************************)

\* Mutant: the condition type misspelt as the reconciler's name.
NGCSecretConditionWrongType(reason) == NewCondition("NGCSecret", "True", reason)

\* The getDeployedCondition* helpers.  Every one reports status True, and
\* the CreateSecretFailed one carries SubscriptionDeployedCondition.
NGCSecretCondition(reason) ==
    NewCondition(IF reason = "CreateSecretFailed" THEN "SubscriptionDeployed"
                                                  ELSE "NGCSecretDeployed",
                 "True", reason)

\* isAddonParametersSecretValid: both ngc-email and ngc-api-key non-empty.
IsAddonParametersSecretValid(aps) == aps.data \in Creds

\* setDesiredNGCSecret: the dockerconfigjson built from the two parameters,
\* with the controller reference to the GPUAddon.
SetDesiredNGCSecret(aps) == [owned |-> TRUE, data |-> aps.data]

\* Mutant: an invalid parameters secret returned as an error (the err of
\* isAddonParametersSecretValid handed back to the caller).
NGCSecretReconcileInvalidIsError(st) ==
    LET aps == st["ParamsSecret"] IN
    { Outcome(st, NGCSecretCondition("FetchAddonParametersFailed"), TRUE, TRUE) }
    \cup
    IF aps = Absent
    THEN { Outcome(st, NGCSecretCondition("AddonParametersSecretNotPresent"), FALSE, FALSE) }
    ELSE IF ~IsAddonParametersSecretValid(aps)
    THEN { Outcome(st, NGCSecretCondition("AddonParametersSecretNotValid"), TRUE, FALSE) }
    ELSE { Outcome(st, NGCSecretCondition("FetchSecretFailed"), TRUE, TRUE),
           Outcome(st, NGCSecretCondition("CreateSecretFailed"), TRUE, TRUE),
           Outcome([st EXCEPT !["NGCSecret"] = SetDesiredNGCSecret(aps)],
                   NGCSecretCondition("CreateSecretSuccess"), FALSE, FALSE) }

NGCSecretReconcile(st) ==
    LET aps == st["ParamsSecret"] IN
    { Outcome(st, NGCSecretCondition("FetchAddonParametersFailed"), TRUE, TRUE) }
    \cup
    IF aps = Absent
    THEN { Outcome(st, NGCSecretCondition("AddonParametersSecretNotPresent"), FALSE, FALSE) }
    ELSE IF ~IsAddonParametersSecretValid(aps)
    THEN { Outcome(st, NGCSecretCondition("AddonParametersSecretNotValid"), FALSE, FALSE) }
    ELSE { Outcome(st, NGCSecretCondition("FetchSecretFailed"), TRUE, TRUE),
           Outcome(st, NGCSecretCondition("CreateSecretFailed"), TRUE, TRUE),
           Outcome([st EXCEPT !["NGCSecret"] = SetDesiredNGCSecret(aps)],
                   NGCSecretCondition("CreateSecretSuccess"), FALSE, FALSE) }

NGCSecretDelete(st) ==
    { Deleted(st, TRUE, TRUE), Deleted(DeleteObject(st, "NGCSecret"), FALSE, FALSE) }

(***************************************************************************)
(* ClusterPolicyResourceReconciler: the dcgm-exporter ConfigMap, then the  *)
(* cluster-scoped ClusterPolicy, which cannot carry a namespaced owner.    *)
(***************************************************************************)

\* Mutant: the condition type copied from the network operator reconciler.
ClusterPolicyConditionCopiedType(reason) ==
    NewCondition("NetworkOperatorDeployed", IF reason = "Success" THEN "True" ELSE "False", reason)

ClusterPolicyCondition(reason) ==
    NewCondition("ClusterPolicyDeployed", IF reason = "Success" THEN "True" ELSE "False", reason)

\* setDesiredDcgmExporterConfigMap: the fixed dcgm-metrics.csv data, and
\* the controller reference to the GPUAddon.
SetDesiredDcgmExporterConfigMap == [owned |-> TRUE, data |-> [spec |-> "DcgmMetrics"]]

\* setDesiredClusterPolicy: the fixed gpu-operator spec; the call to
\* SetControllerReference is commented out, so no owner.
SetDesiredClusterPolicy == [owned |-> FALSE, data |-> [spec |-> "ClusterPolicy"]]

\* reconcileDcgmExporterConfigMap: Get, then CreateOrPatch.
ReconcileDcgmExporterConfigMap(st) ==
    CreateOrPatch(st, "DcgmConfigMap", SetDesiredDcgmExporterConfigMap)

\* reconcileClusterPolicy: Get, then CreateOrPatch.
ReconcileClusterPolicy(st) == CreateOrPatch(st, "ClusterPolicy", SetDesiredClusterPolicy)

ClusterPolicyReconcile(st) ==
    LET withCM == ReconcileDcgmExporterConfigMap(st) IN
    { Outcome(st, ClusterPolicyCondition("Failed"), TRUE, TRUE),
      Outcome(withCM, ClusterPolicyCondition("Failed"), TRUE, TRUE),
      Outcome(ReconcileClusterPolicy(withCM), ClusterPolicyCondition("Success"), FALSE, FALSE) }

\* Mutant: the error of deleting the ClusterPolicy is dropped.
ClusterPolicyDeleteSwallowsError(st) ==
    LET noCP == DeleteObject(st, "ClusterPolicy") IN
    { Deleted(DeleteObject(st, "DcgmConfigMap"), FALSE, TRUE),
      Deleted(noCP, TRUE, TRUE),
      Deleted(DeleteObject(noCP, "DcgmConfigMap"), FALSE, FALSE) }

ClusterPolicyDelete(st) ==
    LET noCP == DeleteObject(st, "ClusterPolicy") IN
    { Deleted(st, TRUE, TRUE),
      Deleted(noCP, TRUE, TRUE),
      Deleted(DeleteObject(noCP, "DcgmConfigMap"), FALSE, FALSE) }

(***************************************************************************)
(* NetworkOperatorResourceReconciler: the OLM Subscription (owned), then   *)
(* the cluster-scoped resources Namespace (not owned).                     *)
(***************************************************************************)

\* Both getDeployedCondition* helpers report status True.
NetworkOperatorCondition(reason) == NewCondition("NetworkOperatorDeployed", "True", reason)

\* setDesiredSubscription: the fixed channel, package and catalog source,
\* and the controller reference to the GPUAddon.
SetDesiredSubscription == [owned |-> TRUE, data |-> [spec |-> "Subscription"]]

\* setDesiredNamespace: the name only; no owner.
SetDesiredNamespace == [owned |-> FALSE, data |-> [spec |-> "Namespace"]]

\* reconcileSubscription and reconcileNamespace: Get, then CreateOrPatch.
ReconcileSubscription(st) == CreateOrPatch(st, "Subscription", SetDesiredSubscription)

ReconcileNamespace(st) == CreateOrPatch(st, "ResourcesNamespace", SetDesiredNamespace)

NetworkOperatorReconcile(st) ==
    LET withSub == ReconcileSubscription(st) IN
    { Outcome(st, NetworkOperatorCondition("Failed"), TRUE, TRUE),
      Outcome(withSub, NetworkOperatorCondition("Failed"), TRUE, TRUE),
      Outcome(ReconcileNamespace(withSub), NetworkOperatorCondition("Success"), FALSE, FALSE) }

\* deleteCSV: common.GetCsvWithPrefix lists the CSVs of the add-on
\* namespace and returns the one named after the package; it returns an
\* error when the List fails (a fault) and when no CSV matches (no fault:
\* there is no CSV it could hand to c.Delete).  Then c.Delete(csv).
DeleteCSV(st) ==
    { Deleted(st, TRUE, TRUE) }
    \cup
    IF st["CSV"] = Absent
    THEN { Deleted(st, TRUE, FALSE) }
    ELSE { Deleted(DeleteObject(st, "CSV"), FALSE, FALSE) }

\* Delete: deleteSubscription, deleteCSV, deleteNamespace, each returning
\* on error.
NetworkOperatorDelete(st) ==
    LET noSub == DeleteObject(st, "Subscription") IN
    { Deleted(st, TRUE, TRUE) }
    \cup
    { o \in DeleteCSV(noSub) : o.err }
    \cup
    UNION { { Deleted(o.store, TRUE, TRUE),
              Deleted(DeleteObject(o.store, "ResourcesNamespace"), FALSE, FALSE) }
            : o \in { p \in DeleteCSV(noSub) : ~p.err } }

(***************************************************************************)
(* NicClusterPolicyResourceReconciler and MacvlanNetworkResourceReconciler:*)
(* guarded by GPUAddonSpec.RDMA, cluster-scoped, no owner reference; the   *)
(* desired spec embeds the RDMA configuration.                             *)
(***************************************************************************)

RdmaCondition(r, reason) == NewCondition(CondType[r], "True", reason)

\* setDesiredNicClusterPolicy: the fixed OFED and device-plugin images and
\* the device-plugin config that getK8sRdmaSharedDevicePluginConfig
\* renders from GPUAddonSpec.RDMA; no owner.
SetDesiredNicClusterPolicy(rdma) ==
    [owned |-> FALSE,
     data  |-> [rdmaSharedDevicePlugin |-> RdmaSharedDevicePluginConfig(rdma)]]

\* setDesiredMacvlanNetwork: the fixed mtu and mode, the master interface
\* hard-coded as ens2f0np0 (RDMA.MacvlanNetwork.Master is not read), and
\* the IPAM config that getMacvlanNetworkIPAMConfig renders from
\* GPUAddonSpec.RDMA; no owner.
SetDesiredMacvlanNetwork(rdma) ==
    [owned |-> FALSE,
     data  |-> [master |-> "ens2f0np0", ipam |-> MacvlanNetworkIPAMConfig(rdma)]]

\* The desired object of RDMA reconciler r.
SetDesiredRdmaCr(r, rdma) ==
    IF r = "NicClusterPolicy" THEN SetDesiredNicClusterPolicy(rdma)
                              ELSE SetDesiredMacvlanNetwork(rdma)

\* Mutant: client.Create when absent, and nothing when present.
RdmaReconcileCreateOnly(r, k, st, rdma) ==
    IF rdma = NoRdma
    THEN { Outcome(st, RdmaCondition(r, "NotConfigured"), FALSE, FALSE) }
    ELSE { Outcome(IF st[k] = Absent THEN CreateOrPatch(st, k, SetDesiredRdmaCr(r, rdma)) ELSE st,
                   RdmaCondition(r, "CreateCrSuccess"), FALSE, FALSE) }

\* Reconcile of the two RDMA reconcilers, for key k of reconciler r.
RdmaReconcile(r, k, st, rdma) ==
    IF rdma = NoRdma
    THEN { Outcome(st, RdmaCondition(r, "NotConfigured"), FALSE, FALSE) }
    ELSE { Outcome(st, RdmaCondition(r, "FetchCrFailed"), TRUE, TRUE),
           Outcome(st, RdmaCondition(r, "CreateCrFailed"), TRUE, TRUE),
           Outcome(CreateOrPatch(st, k, SetDesiredRdmaCr(r, rdma)),
                   RdmaCondition(r, "CreateCrSuccess"), FALSE, FALSE) }

NicClusterPolicyReconcile(st, rdma) == RdmaReconcile("NicClusterPolicy", "NicClusterPolicy", st, rdma)
MacvlanNetworkReconcile(st, rdma) == RdmaReconcile("MacvlanNetwork", "MacvlanNetwork", st, rdma)

\* Delete of a single cluster-scoped object, NotFound ignored.
SingleDelete(k, st) == { Deleted(st, TRUE, TRUE), Deleted(DeleteObject(st, k), FALSE, FALSE) }

NicClusterPolicyDelete(st) == SingleDelete("NicClusterPolicy", st)
MacvlanNetworkDelete(st) == SingleDelete("MacvlanNetwork", st)

(***************************************************************************)
(* The ResourceReconciler interface: dispatch by reconciler.               *)
(***************************************************************************)

Reconcile(r, st, rdma) ==
    CASE r = "NGCSecret"        -> NGCSecretReconcile(st)
      [] r = "ClusterPolicy"    -> ClusterPolicyReconcile(st)
      [] r = "NetworkOperator"  -> NetworkOperatorReconcile(st)
      [] r = "NicClusterPolicy" -> NicClusterPolicyReconcile(st, rdma)
      [] r = "MacvlanNetwork"   -> MacvlanNetworkReconcile(st, rdma)

Delete(r, st) ==
    CASE r = "NGCSecret"        -> NGCSecretDelete(st)
      [] r = "ClusterPolicy"    -> ClusterPolicyDelete(st)
      [] r = "NetworkOperator"  -> NetworkOperatorDelete(st)
      [] r = "NicClusterPolicy" -> NicClusterPolicyDelete(st)
      [] r = "MacvlanNetwork"   -> MacvlanNetworkDelete(st)

=============================================================================

---------------------------- MODULE ClusterStore ----------------------------
(***************************************************************************)
(* The cluster object store as the reconcilers of the GPU add-on operator  *)
(* see it through the controller-runtime client, and the GPUAddon parent   *)
(* resource.  Every dependent object has a fixed, orchestrator-owned key   *)
(* (its name never derives from the parent's name), so the store is a      *)
(* function from those keys to either Absent or an object.  An object     *)
(* keeps only what the properties tell apart: whether it carries a         *)
(* controller reference to the GPUAddon (so the garbage collector removes  *)
(* it with the parent) and the value its desired-state function wrote.     *)
(***************************************************************************)
EXTENDS GPUAddonSpec

CONSTANTS
    Absent,        \* the client's NotFound: no object under this key
    Creds,         \* (ngc-api-key, ngc-email) pairs that pass validation
    Invalid        \* an add-on parameters secret missing one of the two keys

\* The spec of an object whose desired-state function writes only literals
\* (the dcgm metrics, the ClusterPolicy, the subscription, the namespace)
\* or that OLM writes (the CSV): a record naming the literal.
FixedSpec == [spec : {"DcgmMetrics", "ClusterPolicy", "Subscription", "Namespace", "CSV"}]

\* The spec of a NicClusterPolicy: its rdma shared device plugin config.
NicClusterPolicySpec == [rdmaSharedDevicePlugin : UserConfigList]

\* The spec of a MacvlanNetwork: its master interface (the one literal
\* the code writes) and its IPAM config.
MacvlanNetworkCrSpec == [master : {"ens2f0np0"}, ipam : IPAMConfig]

\* The data an object's desired-state function writes: the NGC credentials
\* (or the invalid parameters the user wrote), a literal, or a rendered
\* custom-resource spec.
Data == Creds \cup {Invalid} \cup FixedSpec \cup NicClusterPolicySpec \cup MacvlanNetworkCrSpec

Object == [owned : BOOLEAN, data : Data]

ASSUME StoreAssumption ==
    /\ Absent \notin Object
    /\ Invalid \notin Creds

\* The keys of the objects the reconcilers read or write.
\*   ParamsSecret       addon-nvidia-gpu-addon-parameters (written by the user)
\*   NGCSecret          ngc-secret, in the parent's namespace
\*   DcgmConfigMap      custom-dcgm-metrics, in the add-on namespace
\*   ClusterPolicy      the cluster-scoped gpu-operator ClusterPolicy
\*   Subscription       the nvidia-network-operator OLM Subscription
\*   CSV                the ClusterServiceVersion OLM installs for it
\*   ResourcesNamespace the cluster-scoped network-operator resources namespace
\*   NicClusterPolicy   the cluster-scoped NicClusterPolicy
\*   MacvlanNetwork     the cluster-scoped macvlannetwork-gpu-addon
Keys == {"ParamsSecret", "NGCSecret", "DcgmConfigMap", "ClusterPolicy",
         "Subscription", "CSV", "ResourcesNamespace", "NicClusterPolicy",
         "MacvlanNetwork"}

\* The objects the operator itself creates (the parameters secret is the
\* user's, the CSV is OLM's).
Dependents == Keys \ {"ParamsSecret", "CSV"}

Store == [Keys -> Object \cup {Absent}]

\* The values of the add-on parameters secret: absent, invalid, or valid.
ParamsValues == {Absent} \cup {[owned |-> FALSE, data |-> d] : d \in Creds \cup {Invalid}}

\* controllerutil.CreateOrPatch with a mutate function that writes the
\* desired object obj (its data and, when the mutate function calls
\* SetControllerReference, its owner): creates the object when absent,
\* patches it in place when present.
CreateOrPatch(st, k, obj) == [st EXCEPT ![k] = obj]

\* client.Delete with NotFound treated as success.
DeleteObject(st, k) == [st EXCEPT ![k] = Absent]

\* A store with only the user's parameters secret, as a fresh cluster is.
EmptyStore(params) == [k \in Keys |-> IF k = "ParamsSecret" THEN params ELSE Absent]

=============================================================================

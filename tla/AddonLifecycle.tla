--------------------------- MODULE AddonLifecycle ---------------------------
(***************************************************************************)
(* What the GPU add-on operator promises about the dependents of a        *)
(* GPUAddon, without passes, steps, conditions, faults or retries.  The   *)
(* cluster holds the dependents; the parent is Live, Deleting (it has a    *)
(* deletion timestamp) or Gone (its finalizer was removed).                *)
(*   - The controller observes the spec from time to time (it fetches the *)
(*     parent).  A write sets some dependents, each to a desired object    *)
(*     for the spec last observed and the current parameters; only a       *)
(*     wanted dependent is written.                                        *)
(*   - Dependents are removed only once the parent is being deleted.       *)
(*   - OLM installs the CSV only for an existing subscription.             *)
(*   - The user edits the spec and the parameters only while Live.         *)
(*   - The parent is Gone only when nothing it caused to exist is left,    *)
(*     and after that nothing changes.                                     *)
(***************************************************************************)
EXTENDS ClusterStore

VARIABLES
    objects,   \* the cluster store
    rdma,      \* GPUAddon.Spec.RDMA
    observed,  \* the spec as the controller last fetched it
    phase      \* "Live", "Deleting" or "Gone"

avars == <<objects, rdma, observed, phase>>

\* The dependents and the CSV: what must be gone with the parent.
Caused == Keys \ {"ParamsSecret"}

\* The device list the RDMA spec asks for.
RequestedDevices(rd) ==
    [i \in DOMAIN rd.devices |->
        [resourceName |-> rd.devices[i].resourceName,
         selectors    |-> rd.devices[i].selectors,
         rdmaHcaMax   |-> 1000]]

\* The IPAM the RDMA spec asks for.
RequestedIPAM(rd) ==
    [type |-> "whereabouts", range |-> rd.macvlanNetwork.ipam.range,
     omitRanges |-> rd.macvlanNetwork.ipam.omitRanges]

\* Dependent k is wanted for the spec rd and the parameters secret params.
Wanted(k, rd, params) ==
    CASE k = "NGCSecret" -> params # Absent /\ params.data \in Creds
      [] k \in {"NicClusterPolicy", "MacvlanNetwork"} -> rd # NoRdma
      [] OTHER -> k \in Dependents

\* obj is a desired object for wanted dependent k: its owner reference
\* and the data the spec and the parameters determine.  The MacvlanNetwork
\* master is left free.
DesiredFor(k, obj, rd, params) ==
    /\ obj # Absent
    /\ CASE k = "NGCSecret" -> obj = [owned |-> TRUE, data |-> params.data]
         [] k = "DcgmConfigMap" -> obj = [owned |-> TRUE, data |-> [spec |-> "DcgmMetrics"]]
         [] k = "ClusterPolicy" -> obj = [owned |-> FALSE, data |-> [spec |-> "ClusterPolicy"]]
         [] k = "Subscription" -> obj = [owned |-> TRUE, data |-> [spec |-> "Subscription"]]
         [] k = "ResourcesNamespace" -> obj = [owned |-> FALSE, data |-> [spec |-> "Namespace"]]
         [] k = "NicClusterPolicy" ->
               /\ ~obj.owned
               /\ obj.data.rdmaSharedDevicePlugin.configList = RequestedDevices(rd)
         [] k = "MacvlanNetwork" ->
               /\ ~obj.owned
               /\ obj.data.ipam = RequestedIPAM(rd)

AInit ==
    /\ \E params \in ParamsValues : objects = EmptyStore(params)
    /\ rdma \in RdmaValues
    /\ observed = rdma
    /\ phase = "Live"

\* The controller fetches the parent and takes in its current spec.
Observe ==
    /\ phase # "Gone"
    /\ observed' = rdma
    /\ UNCHANGED <<objects, rdma, phase>>

\* Some wanted dependents are set to desired objects, the rest is kept.
Write ==
    /\ phase # "Gone"
    /\ DOMAIN objects' = Keys
    /\ \A k \in Keys :
          \/ objects'[k] = objects[k]
          \/ /\ k \in Dependents
             /\ Wanted(k, observed, objects["ParamsSecret"])
             /\ DesiredFor(k, objects'[k], observed, objects["ParamsSecret"])
    /\ UNCHANGED <<rdma, observed, phase>>

\* Some of what the parent caused is removed, while it is being deleted;
\* the parent may go with the last of it.
Remove ==
    /\ phase = "Deleting"
    /\ DOMAIN objects' = Keys
    /\ \A k \in Keys : objects'[k] = objects[k] \/ (k \in Caused /\ objects'[k] = Absent)
    /\ phase' \in {"Deleting"} \cup
                  (IF \A k \in Caused : objects'[k] = Absent THEN {"Gone"} ELSE {})
    /\ UNCHANGED <<rdma, observed>>

\* OLM installs the CSV of an existing subscription.
InstallCSV ==
    /\ objects["Subscription"] # Absent
    /\ objects["CSV"] = Absent
    /\ objects' = [objects EXCEPT !["CSV"] = [owned |-> FALSE, data |-> [spec |-> "CSV"]]]
    /\ UNCHANGED <<rdma, observed, phase>>

\* The user edits the spec or the parameters secret of a live parent.
Edit ==
    /\ phase = "Live"
    /\ rdma' \in RdmaValues
    /\ \E p \in ParamsValues : objects' = [objects EXCEPT !["ParamsSecret"] = p]
    /\ UNCHANGED <<observed, phase>>

\* The user deletes the parent.
DeleteParent ==
    /\ phase = "Live"
    /\ phase' = "Deleting"
    /\ UNCHANGED <<objects, rdma, observed>>

ANext == Observe \/ Write \/ Remove \/ InstallCSV \/ Edit \/ DeleteParent

ASpec == AInit /\ [][ANext]_avars

=============================================================================

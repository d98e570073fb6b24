------------------------ MODULE LifecycleRefinementProofs ------------------------
(***************************************************************************)
(* The GPUAddon controller implements the lifecycle promise AddonLifecycle *)
(* under the mapping of GPUAddonController (objects <- cluster,            *)
(* observed <- passRdma, phase <- Phase), for every value of the           *)
(* constants.                                                              *)
(***************************************************************************)
EXTENDS GPUAddonControllerProofs

\* The objects each reconciler writes or deletes (the network operator's
\* Delete also removes the CSV OLM installed for its subscription).
KeysOf(r) ==
    CASE r = "NGCSecret"        -> {"NGCSecret"}
      [] r = "ClusterPolicy"    -> {"DcgmConfigMap", "ClusterPolicy"}
      [] r = "NetworkOperator"  -> {"Subscription", "CSV", "ResourcesNamespace"}
      [] r = "NicClusterPolicy" -> {"NicClusterPolicy"}
      [] r = "MacvlanNetwork"   -> {"MacvlanNetwork"}

\* The reconcilers the controller runs.
InOrder == {Order[i] : i \in 1..N}

\* What the refinement rests on: a pass runs only for an existing parent; a
\* teardown pass runs only for a parent being deleted and has removed the
\* objects of every reconciler it has finished; the objects of a reconciler
\* the controller does not run never exist; and a parent that is gone left
\* nothing behind and has no pass running.
RInv ==
    /\ pass # "none" => parentExists
    /\ pass = "teardown" =>
          /\ deleting
          /\ \A j \in 1..(step - 1) : \A k \in KeysOf(Order[N + 1 - j]) : cluster[k] = Absent
    /\ \A r \in Reconcilers \ InOrder : \A k \in KeysOf(r) : cluster[k] = Absent
    /\ ~parentExists =>
          /\ pass = "none"
          /\ \A k \in LC!Caused : cluster[k] = Absent

(***************************************************************************)
(* What a reconciler call may do to the store.                             *)
(***************************************************************************)

\* new differs from st only in objects of reconciler r that are wanted and
\* desired for the spec rd and the parameters of st.
Writes(r, new, st, rd) ==
    \A k \in Keys :
        \/ new[k] = st[k]
        \/ /\ k \in KeysOf(r) \cap Dependents
           /\ LC!Wanted(k, rd, st["ParamsSecret"])
           /\ LC!DesiredFor(k, new[k], rd, st["ParamsSecret"])

\* new differs from st only in objects of reconciler r that were removed.
Removes(r, new, st) ==
    \A k \in Keys : new[k] = st[k] \/ (k \in KeysOf(r) /\ new[k] = Absent)

LEMMA KeysOfFacts ==
    /\ \A r \in Reconcilers : KeysOf(r) \subseteq LC!Caused
    /\ \A r1, r2 \in Reconcilers : r1 # r2 => KeysOf(r1) \cap KeysOf(r2) = {}
    /\ \A k \in LC!Caused : \E r \in Reconcilers : k \in KeysOf(r)
<1>1. /\ KeysOf("NGCSecret") = {"NGCSecret"}
      /\ KeysOf("ClusterPolicy") = {"DcgmConfigMap", "ClusterPolicy"}
      /\ KeysOf("NetworkOperator") = {"Subscription", "CSV", "ResourcesNamespace"}
      /\ KeysOf("NicClusterPolicy") = {"NicClusterPolicy"}
      /\ KeysOf("MacvlanNetwork") = {"MacvlanNetwork"}
  BY DEF KeysOf
<1>2. \A r \in Reconcilers : KeysOf(r) \subseteq LC!Caused
  BY <1>1 DEF Reconcilers, LC!Caused, LC!Keys, Keys
<1>3. \A r1, r2 \in Reconcilers : r1 # r2 => KeysOf(r1) \cap KeysOf(r2) = {}
  BY <1>1 DEF Reconcilers
<1>4. \A k \in LC!Caused : \E r \in Reconcilers : k \in KeysOf(r)
  BY <1>1 DEF Reconcilers, LC!Caused, LC!Keys, Keys
<1>5. QED
  BY <1>2, <1>3, <1>4

\* The device list the NicClusterPolicy is rendered with is the one the
\* RDMA spec asks for.
LEMMA RenderedDevices ==
    ASSUME NEW rd \in RDMASpec
    PROVE  RdmaSharedDevicePluginConfig(rd).configList = LC!RequestedDevices(rd)
<1> DEFINE devs == rd.devices
<1>1. devs \in Seq(DeviceSpec)
  BY DEF RDMASpec
<1>2. \A i \in DOMAIN devs : devs[i] \in DeviceSpec
  BY <1>1, ElementOfSeq, LenProperties
<1>3. \A i \in DOMAIN devs : devs[i].selectors = [ifNames |-> devs[i].selectors.ifNames]
  BY <1>2 DEF DeviceSpec, Selectors
<1>4. QED
  BY <1>3 DEF RdmaSharedDevicePluginConfig, LC!RequestedDevices

\* A reconciler's desired objects are objects, hence not Absent.
LEMMA AbsentNotObject ==
    ASSUME NEW obj \in Object PROVE obj # Absent
BY StoreAssumption

LEMMA NGCSecretWrites ==
    ASSUME NEW st \in Store, st["ParamsSecret"] \in ParamsValues, NEW rd
    PROVE  \A o \in NGCSecretReconcile(st) : Writes("NGCSecret", o.store, st, rd)
<1> DEFINE aps == st["ParamsSecret"]
           new == [st EXCEPT !["NGCSecret"] = SetDesiredNGCSecret(aps)]
<1>1. Writes("NGCSecret", st, st, rd)
  BY DEF Writes
<1>2. ASSUME aps # Absent, IsAddonParametersSecretValid(aps)
      PROVE  Writes("NGCSecret", new, st, rd)
  <2>1. aps.data \in Creds
    BY <1>2 DEF IsAddonParametersSecretValid
  <2>2. SetDesiredNGCSecret(aps) \in Object
    BY <2>1 DEF SetDesiredNGCSecret, Object, Data
  <2>3. new["NGCSecret"] = [owned |-> TRUE, data |-> aps.data]
    BY DEF Store, Keys, SetDesiredNGCSecret
  <2>4. LC!Wanted("NGCSecret", rd, aps)
    BY <1>2, <2>1 DEF LC!Wanted
  <2>5. LC!DesiredFor("NGCSecret", new["NGCSecret"], rd, aps)
    BY <2>2, <2>3, AbsentNotObject DEF LC!DesiredFor, SetDesiredNGCSecret
  <2>6. \A k \in Keys \ {"NGCSecret"} : new[k] = st[k]
    BY DEF Store
  <2>7. QED
    BY <2>4, <2>5, <2>6 DEF Writes, KeysOf, Dependents, Keys
<1>3. QED
  BY <1>1, <1>2 DEF NGCSecretReconcile, Outcome

LEMMA ClusterPolicyWrites ==
    ASSUME NEW st \in Store, NEW rd
    PROVE  \A o \in ClusterPolicyReconcile(st) : Writes("ClusterPolicy", o.store, st, rd)
<1> DEFINE params == st["ParamsSecret"]
           cm     == SetDesiredDcgmExporterConfigMap
           cp     == SetDesiredClusterPolicy
           withCM == ReconcileDcgmExporterConfigMap(st)
           full   == ReconcileClusterPolicy(withCM)
<1>1. /\ withCM = [st EXCEPT !["DcgmConfigMap"] = cm]
      /\ full = [withCM EXCEPT !["ClusterPolicy"] = cp]
  BY DEF ReconcileDcgmExporterConfigMap, ReconcileClusterPolicy, CreateOrPatch
<1>2. /\ "DcgmConfigMap" \in KeysOf("ClusterPolicy") \cap Dependents
      /\ "ClusterPolicy" \in KeysOf("ClusterPolicy") \cap Dependents
      /\ LC!Wanted("DcgmConfigMap", rd, params)
      /\ LC!Wanted("ClusterPolicy", rd, params)
  BY DEF KeysOf, Dependents, Keys, LC!Wanted, LC!Dependents, LC!Keys
<1>3. /\ LC!DesiredFor("DcgmConfigMap", cm, rd, params)
      /\ LC!DesiredFor("ClusterPolicy", cp, rd, params)
  <2>1. cm # Absent /\ cp # Absent
    BY AbsentNotObject DEF SetDesiredDcgmExporterConfigMap, SetDesiredClusterPolicy,
       Object, Data, FixedSpec
  <2>2. QED
    BY <2>1 DEF LC!DesiredFor, SetDesiredDcgmExporterConfigMap, SetDesiredClusterPolicy
<1>4. Writes("ClusterPolicy", withCM, st, rd)
  <2>1. withCM["DcgmConfigMap"] = cm /\ \A k \in Keys \ {"DcgmConfigMap"} : withCM[k] = st[k]
    BY <1>1 DEF Store, Keys
  <2>2. QED
    BY <1>2, <1>3, <2>1 DEF Writes
<1>5. Writes("ClusterPolicy", full, st, rd)
  <2>1. /\ full["DcgmConfigMap"] = cm
        /\ full["ClusterPolicy"] = cp
        /\ \A k \in Keys \ {"DcgmConfigMap", "ClusterPolicy"} : full[k] = st[k]
    BY <1>1 DEF Store, Keys
  <2>2. QED
    BY <1>2, <1>3, <2>1 DEF Writes
<1>6. Writes("ClusterPolicy", st, st, rd)
  BY DEF Writes
<1>7. QED
  BY <1>4, <1>5, <1>6 DEF ClusterPolicyReconcile, Outcome

LEMMA NetworkOperatorWrites ==
    ASSUME NEW st \in Store, NEW rd
    PROVE  \A o \in NetworkOperatorReconcile(st) : Writes("NetworkOperator", o.store, st, rd)
<1> DEFINE params  == st["ParamsSecret"]
           sub     == SetDesiredSubscription
           ns      == SetDesiredNamespace
           withSub == ReconcileSubscription(st)
           full    == ReconcileNamespace(withSub)
<1>1. /\ withSub = [st EXCEPT !["Subscription"] = sub]
      /\ full = [withSub EXCEPT !["ResourcesNamespace"] = ns]
  BY DEF ReconcileSubscription, ReconcileNamespace, CreateOrPatch
<1>2. /\ "Subscription" \in KeysOf("NetworkOperator") \cap Dependents
      /\ "ResourcesNamespace" \in KeysOf("NetworkOperator") \cap Dependents
      /\ LC!Wanted("Subscription", rd, params)
      /\ LC!Wanted("ResourcesNamespace", rd, params)
  BY DEF KeysOf, Dependents, Keys, LC!Wanted, LC!Dependents, LC!Keys
<1>3. /\ LC!DesiredFor("Subscription", sub, rd, params)
      /\ LC!DesiredFor("ResourcesNamespace", ns, rd, params)
  <2>1. sub # Absent /\ ns # Absent
    BY AbsentNotObject DEF SetDesiredSubscription, SetDesiredNamespace, Object, Data, FixedSpec
  <2>2. QED
    BY <2>1 DEF LC!DesiredFor, SetDesiredSubscription, SetDesiredNamespace
<1>4. Writes("NetworkOperator", withSub, st, rd)
  <2>1. withSub["Subscription"] = sub /\ \A k \in Keys \ {"Subscription"} : withSub[k] = st[k]
    BY <1>1 DEF Store, Keys
  <2>2. QED
    BY <1>2, <1>3, <2>1 DEF Writes
<1>5. Writes("NetworkOperator", full, st, rd)
  <2>1. /\ full["Subscription"] = sub
        /\ full["ResourcesNamespace"] = ns
        /\ \A k \in Keys \ {"Subscription", "ResourcesNamespace"} : full[k] = st[k]
    BY <1>1 DEF Store, Keys
  <2>2. QED
    BY <1>2, <1>3, <2>1 DEF Writes
<1>6. Writes("NetworkOperator", st, st, rd)
  BY DEF Writes
<1>7. QED
  BY <1>4, <1>5, <1>6 DEF NetworkOperatorReconcile, Outcome

LEMMA RdmaWrites ==
    ASSUME NEW r \in {"NicClusterPolicy", "MacvlanNetwork"}, NEW st \in Store,
           NEW rd \in RdmaValues
    PROVE  \A o \in RdmaReconcile(r, r, st, rd) : Writes(r, o.store, st, rd)
<1> DEFINE new == CreateOrPatch(st, r, SetDesiredRdmaCr(r, rd))
<1>1. Writes(r, st, st, rd)
  BY DEF Writes
<1>2. ASSUME rd # NoRdma PROVE Writes(r, new, st, rd)
  <2>1. rd \in RDMASpec
    BY <1>2, RdmaAssumption, Zenon DEF RdmaValues
  <2>2. new[r] = SetDesiredRdmaCr(r, rd)
    BY DEF CreateOrPatch, Store, Keys
  <2>3. \A k \in Keys \ {r} : new[k] = st[k]
    BY DEF CreateOrPatch, Store
  <2>4. LC!Wanted(r, rd, st["ParamsSecret"])
    BY <1>2 DEF LC!Wanted, LC!Dependents, LC!Keys
  <2>5. SetDesiredRdmaCr(r, rd) # Absent
    BY <2>1, SetDesiredRdmaCrTyped, AbsentNotObject
  <2>6. CASE r = "NicClusterPolicy"
    <3>1. RdmaSharedDevicePluginConfig(rd).configList = LC!RequestedDevices(rd)
      BY <2>1, RenderedDevices
    <3>2. LC!DesiredFor(r, new[r], rd, st["ParamsSecret"])
      BY <2>2, <2>5, <2>6, <3>1 DEF LC!DesiredFor, SetDesiredRdmaCr, SetDesiredNicClusterPolicy
    <3>3. QED
      BY <2>3, <2>4, <2>6, <3>2 DEF Writes, KeysOf, Dependents, Keys
  <2>7. CASE r = "MacvlanNetwork"
    <3>1. LC!DesiredFor(r, new[r], rd, st["ParamsSecret"])
      BY <2>2, <2>5, <2>7 DEF LC!DesiredFor, SetDesiredRdmaCr, SetDesiredMacvlanNetwork,
         MacvlanNetworkIPAMConfig, LC!RequestedIPAM
    <3>2. QED
      BY <2>3, <2>4, <2>7, <3>1 DEF Writes, KeysOf, Dependents, Keys
  <2>8. QED
    BY <2>6, <2>7
<1>3. QED
  BY <1>1, <1>2 DEF RdmaReconcile, Outcome

LEMMA ReconcileWrites ==
    ASSUME NEW r \in Reconcilers, NEW st \in Store, st["ParamsSecret"] \in ParamsValues,
           NEW rd \in RdmaValues
    PROVE  \A o \in Reconcile(r, st, rd) : Writes(r, o.store, st, rd)
<1>1. CASE r = "NGCSecret"
  BY <1>1, NGCSecretWrites DEF Reconcile
<1>2. CASE r = "ClusterPolicy"
  BY <1>2, ClusterPolicyWrites DEF Reconcile
<1>3. CASE r = "NetworkOperator"
  BY <1>3, NetworkOperatorWrites DEF Reconcile
<1>4. CASE r = "NicClusterPolicy"
  BY <1>4, RdmaWrites DEF Reconcile, NicClusterPolicyReconcile
<1>5. CASE r = "MacvlanNetwork"
  BY <1>5, RdmaWrites DEF Reconcile, MacvlanNetworkReconcile
<1>6. QED
  BY <1>1, <1>2, <1>3, <1>4, <1>5 DEF Reconcilers


\* Every object of reconciler r is absent from new.
Cleared(r, new) == \A k \in KeysOf(r) : new[k] = Absent

\* What a Delete call may do: remove objects of its reconciler, and all of
\* them when it returns no error.
RemovesOwn(r, o, st) == Removes(r, o.store, st) /\ (~o.err => Cleared(r, o.store))

LEMMA NGCSecretDeleteRemoves ==
    ASSUME NEW st \in Store
    PROVE  \A o \in NGCSecretDelete(st) : RemovesOwn("NGCSecret", o, st)
<1> DEFINE none == DeleteObject(st, "NGCSecret")
<1>1. none = [st EXCEPT !["NGCSecret"] = Absent]
  BY DEF DeleteObject
<1>2. Removes("NGCSecret", st, st)
  BY DEF Removes
<1>3. Removes("NGCSecret", none, st) /\ Cleared("NGCSecret", none)
  BY <1>1 DEF Removes, Cleared, KeysOf, Store, Keys
<1>4. QED
  BY <1>2, <1>3 DEF NGCSecretDelete, Deleted, RemovesOwn

LEMMA ClusterPolicyDeleteRemoves ==
    ASSUME NEW st \in Store
    PROVE  \A o \in ClusterPolicyDelete(st) : RemovesOwn("ClusterPolicy", o, st)
<1> DEFINE noCP == DeleteObject(st, "ClusterPolicy")
           none == DeleteObject(noCP, "DcgmConfigMap")
<1>1. noCP = [st EXCEPT !["ClusterPolicy"] = Absent]
      /\ none = [noCP EXCEPT !["DcgmConfigMap"] = Absent]
  BY DEF DeleteObject
<1>2. Removes("ClusterPolicy", noCP, st)
  BY <1>1 DEF Removes, KeysOf, Store, Keys
<1>3. Removes("ClusterPolicy", none, st) /\ Cleared("ClusterPolicy", none)
  BY <1>1 DEF Removes, Cleared, KeysOf, Store, Keys
<1>4. Removes("ClusterPolicy", st, st)
  BY DEF Removes
<1>5. QED
  BY <1>2, <1>3, <1>4 DEF ClusterPolicyDelete, Deleted, RemovesOwn

LEMMA NetworkOperatorDeleteRemoves ==
    ASSUME NEW st \in Store
    PROVE  \A o \in NetworkOperatorDelete(st) : RemovesOwn("NetworkOperator", o, st)
<1> DEFINE noSub == DeleteObject(st, "Subscription")
           noCSV == DeleteObject(noSub, "CSV")
           none  == DeleteObject(noCSV, "ResourcesNamespace")
<1>1. /\ noSub = [st EXCEPT !["Subscription"] = Absent]
      /\ noCSV = [noSub EXCEPT !["CSV"] = Absent]
      /\ none = [noCSV EXCEPT !["ResourcesNamespace"] = Absent]
  BY DEF DeleteObject
<1>2. /\ Removes("NetworkOperator", st, st)
      /\ Removes("NetworkOperator", noSub, st)
      /\ Removes("NetworkOperator", noCSV, st)
  BY <1>1 DEF Removes, KeysOf, Store, Keys
<1>3. Removes("NetworkOperator", none, st) /\ Cleared("NetworkOperator", none)
  BY <1>1 DEF Removes, Cleared, KeysOf, Store, Keys
<1>4. \A o \in DeleteCSV(noSub) : o.store \in {noSub, noCSV} /\ (~o.err => o.store = noCSV)
  BY DEF DeleteCSV, Deleted
<1>5. \A o \in DeleteCSV(noSub) : o.err \/ o.store = noCSV
  BY <1>4
<1>6. QED
  BY <1>2, <1>3, <1>4, <1>5 DEF NetworkOperatorDelete, Deleted, RemovesOwn

LEMMA SingleDeleteRemoves ==
    ASSUME NEW r \in {"NicClusterPolicy", "MacvlanNetwork"}, NEW st \in Store
    PROVE  \A o \in SingleDelete(r, st) : RemovesOwn(r, o, st)
<1> DEFINE none == DeleteObject(st, r)
<1>1. none = [st EXCEPT ![r] = Absent]
  BY DEF DeleteObject
<1>2. Removes(r, st, st)
  BY DEF Removes
<1>3. KeysOf(r) = {r}
  BY DEF KeysOf
<1>4. Removes(r, none, st) /\ Cleared(r, none)
  BY <1>1, <1>3 DEF Removes, Cleared, Store, Keys
<1>5. QED
  BY <1>2, <1>4 DEF SingleDelete, Deleted, RemovesOwn

LEMMA DeleteRemoves ==
    ASSUME NEW r \in Reconcilers, NEW st \in Store
    PROVE  \A o \in Delete(r, st) : RemovesOwn(r, o, st)
<1>1. CASE r = "NGCSecret"
  BY <1>1, NGCSecretDeleteRemoves DEF Delete
<1>2. CASE r = "ClusterPolicy"
  BY <1>2, ClusterPolicyDeleteRemoves DEF Delete
<1>3. CASE r = "NetworkOperator"
  BY <1>3, NetworkOperatorDeleteRemoves DEF Delete
<1>4. CASE r = "NicClusterPolicy"
  BY <1>4, SingleDeleteRemoves DEF Delete, NicClusterPolicyDelete
<1>5. CASE r = "MacvlanNetwork"
  BY <1>5, SingleDeleteRemoves DEF Delete, MacvlanNetworkDelete
<1>6. QED
  BY <1>1, <1>2, <1>3, <1>4, <1>5 DEF Reconcilers


(***************************************************************************)
(* The invariant.                                                          *)
(***************************************************************************)

\* The strengthening the refinement is proved from.
RII == IInv /\ RInv

LEMMA InitRInv == Init => RInv
<1> SUFFICES ASSUME Init PROVE RInv
  OBVIOUS
<1>1. PICK params \in ParamsValues : cluster = EmptyStore(params)
  BY DEF Init
<1>2. \A k \in LC!Caused : cluster[k] = Absent
  BY <1>1 DEF EmptyStore, LC!Caused, LC!Keys, Keys
<1>3. QED
  BY <1>2, KeysOfFacts DEF Init, RInv

\* The objects of a teardown pass's reconcilers are the ones at the
\* positions it has finished, and every caused object belongs to a
\* reconciler.
LEMMA TeardownCovers ==
    ASSUME NEW k \in LC!Caused
    PROVE  \/ \E r \in Reconcilers \ InOrder : k \in KeysOf(r)
           \/ \E j \in 1..N : k \in KeysOf(Order[N + 1 - j])
<1>1. PICK r \in Reconcilers : k \in KeysOf(r)
  BY KeysOfFacts
<1>2. CASE r \in InOrder
  <2>1. PICK i \in 1..N : Order[i] = r
    BY <1>2 DEF InOrder
  <2>2. N + 1 - i \in 1..N /\ N + 1 - (N + 1 - i) = i
    BY OrderFacts
  <2>3. QED
    BY <1>1, <2>1, <2>2
<1>3. QED
  BY <1>1, <1>2


\* A step that changes no object and leaves pass, parentExists and
\* deleting alone, or that changes only the parameters secret.
LEMMA RInvParamsOnly ==
    ASSUME RInv, TypeOK,
           \A k \in LC!Caused : cluster'[k] = cluster[k],
           UNCHANGED <<pass, step, parentExists, deleting>>
    PROVE  RInv'
<1>1. \A r \in Reconcilers : \A k \in KeysOf(r) : cluster'[k] = cluster[k]
  BY KeysOfFacts
<1>2. \A j \in 1..(step - 1) : Order[N + 1 - j] \in Reconcilers
  BY OrderFacts DEF TypeOK
<1>3. QED
  BY <1>1, <1>2 DEF RInv, InOrder

LEMMA NextRInv == RII /\ [Next]_vars => RInv'
<1> SUFFICES ASSUME RII, [Next]_vars PROVE RInv'
  OBVIOUS
<1>0. IInv /\ RInv /\ TypeOK
  BY DEF RII, IInv
<1>1. CASE StartPass
  BY <1>0, <1>1 DEF StartPass, RInv
<1>2. CASE ConvergeStep
  <2>1. pass = "converge" /\ step \in 1..N /\ parentExists
    BY <1>0, <1>2, OrderFacts DEF ConvergeStep, IInv, TypeOK, RInv
  <2>2. PICK o \in Reconcile(Order[step], cluster, passRdma) :
            /\ cluster' = o.store
            /\ pass' \in {"none", "converge"}
            /\ UNCHANGED <<parentExists, deleting>>
    BY <1>2 DEF ConvergeStep
  <2>3. Writes(Order[step], cluster', cluster, passRdma)
    BY <1>0, <2>1, <2>2, ReconcileWrites, OrderFacts DEF TypeOK
  <2>4. \A r \in Reconcilers \ InOrder : \A k \in KeysOf(r) : cluster'[k] = cluster[k]
    <3>1. Order[step] \in InOrder /\ Order[step] \in Reconcilers
      BY <2>1, OrderFacts DEF InOrder
    <3>2. QED
      BY <2>3, <3>1, KeysOfFacts DEF Writes, LC!Caused, LC!Keys, Keys
  <2>5. QED
    BY <1>0, <2>1, <2>2, <2>4 DEF RInv
<1>3. CASE TeardownStep
  <2> DEFINE r0 == Order[N + 1 - step]
  <2>1. /\ pass = "teardown" /\ step \in 1..N /\ parentExists /\ deleting
        /\ \A j \in 1..(step - 1) : \A k \in KeysOf(Order[N + 1 - j]) : cluster[k] = Absent
    BY <1>0, <1>3, OrderFacts DEF TeardownStep, IInv, TypeOK, RInv
  <2>2. r0 \in Reconcilers
    BY <2>1, OrderFacts
  <2>3. PICK o \in Delete(r0, cluster) :
            /\ cluster' = o.store
            /\ IF o.err \/ step = N
               THEN /\ pass' = "none"
                    /\ parentExists' = o.err
               ELSE /\ step' = step + 1
                    /\ pass' = pass
                    /\ parentExists' = parentExists
            /\ deleting' = deleting
    BY <1>3 DEF TeardownStep
  <2>4. Removes(r0, cluster', cluster) /\ (~o.err => Cleared(r0, cluster'))
    BY <1>0, <2>2, <2>3, DeleteRemoves DEF RemovesOwn, TypeOK
  <2>5. \A k \in Keys : cluster[k] = Absent => cluster'[k] = Absent
    BY <2>4 DEF Removes
  <2>6. (pass' # "none" => parentExists')
    BY <2>1, <2>3
  <2>7. pass' = "teardown" =>
          /\ deleting'
          /\ \A j \in 1..(step' - 1) : \A k \in KeysOf(Order[N + 1 - j]) : cluster'[k] = Absent
    <3> SUFFICES ASSUME pass' = "teardown" PROVE /\ deleting'
                                                 /\ \A j \in 1..(step' - 1) :
                                                       \A k \in KeysOf(Order[N + 1 - j]) :
                                                          cluster'[k] = Absent
      OBVIOUS
    <3>1. ~o.err /\ step # N /\ step' = step + 1
      BY <2>3
    <3>2. \A j \in 1..(step - 1) : \A k \in KeysOf(Order[N + 1 - j]) : cluster'[k] = Absent
      <4>1. \A j \in 1..(step - 1) : KeysOf(Order[N + 1 - j]) \subseteq Keys
        BY <2>1, OrderFacts, KeysOfFacts DEF LC!Caused, LC!Keys, Keys
      <4>2. QED
        BY <2>1, <2>5, <4>1
    <3>3. \A k \in KeysOf(r0) : cluster'[k] = Absent
      BY <2>4, <3>1 DEF Cleared
    <3>4. \A j \in 1..(step' - 1) : j \in 1..(step - 1) \/ j = step
      BY <2>1, <3>1
    <3>5. QED
      BY <2>1, <2>3, <3>2, <3>3, <3>4
  <2>8. \A r \in Reconcilers \ InOrder : \A k \in KeysOf(r) : cluster'[k] = Absent
    <3>1. \A r \in Reconcilers : KeysOf(r) \subseteq Keys
      BY KeysOfFacts DEF LC!Caused, LC!Keys, Keys
    <3>2. QED
      BY <1>0, <2>5, <3>1 DEF RInv
  <2>9. ~parentExists' => pass' = "none" /\ \A k \in LC!Caused : cluster'[k] = Absent
    <3> SUFFICES ASSUME ~parentExists' PROVE pass' = "none" /\ \A k \in LC!Caused : cluster'[k] = Absent
      OBVIOUS
    <3>1. ~o.err /\ step = N /\ pass' = "none"
      BY <2>1, <2>3
    <3>2. \A k \in KeysOf(r0) : cluster'[k] = Absent
      BY <2>4, <3>1 DEF Cleared
    <3>3. ASSUME NEW k \in LC!Caused PROVE cluster'[k] = Absent
      <4>1. k \in Keys
        BY DEF LC!Caused, LC!Keys, Keys
      <4>2. CASE \E r \in Reconcilers \ InOrder : k \in KeysOf(r)
        BY <1>0, <2>5, <4>1, <4>2 DEF RInv
      <4>3. CASE \E j \in 1..N : k \in KeysOf(Order[N + 1 - j])
        <5>1. PICK j \in 1..N : k \in KeysOf(Order[N + 1 - j])
          BY <4>3
        <5>2. CASE j = N
          BY <3>1, <3>2, <5>1, <5>2
        <5>3. CASE j # N
          BY <2>1, <2>5, <3>1, <4>1, <5>1, <5>3
        <5>4. QED
          BY <5>2, <5>3
      <4>4. QED
        BY <4>2, <4>3, TeardownCovers
    <3>4. QED
      BY <3>1, <3>3
  <2>10. QED
    BY <2>6, <2>7, <2>8, <2>9 DEF RInv
<1>4. CASE Crash
  BY <1>0, <1>4 DEF Crash, RInv
<1>5. CASE SetRdma \/ RequestDeletion
  <2>1. UNCHANGED <<cluster, pass, step, parentExists>> /\ (deleting => deleting')
    BY <1>5 DEF SetRdma, RequestDeletion
  <2>2. QED
    BY <1>0, <2>1 DEF RInv
<1>6. CASE SetAddonParameters
  <2>1. \A k \in LC!Caused : cluster'[k] = cluster[k]
    BY <1>0, <1>6 DEF SetAddonParameters, TypeOK, Store, LC!Caused, LC!Keys
  <2>2. UNCHANGED <<pass, step, parentExists, deleting>>
    BY <1>6 DEF SetAddonParameters
  <2>3. QED
    BY <1>0, <2>1, <2>2, RInvParamsOnly
<1>7. CASE OLMInstallCSV
  <2>1. cluster["Subscription"] # Absent /\ cluster' = [cluster EXCEPT !["CSV"] = cluster'["CSV"]]
    BY <1>7 DEF OLMInstallCSV, CreateOrPatch
  <2>2. UNCHANGED <<pass, step, parentExists, deleting>>
    BY <1>7 DEF OLMInstallCSV
  <2>3. "Subscription" \in KeysOf("NetworkOperator") /\ "CSV" \in KeysOf("NetworkOperator")
    BY DEF KeysOf
  <2>4. "NetworkOperator" \in InOrder
    BY <1>0, <2>1, <2>3 DEF RInv, Reconcilers
  <2>5. pass = "teardown" => \A j \in 1..(step - 1) : Order[N + 1 - j] # "NetworkOperator"
    BY <1>0, <2>1, <2>3 DEF RInv
  <2>6. \A r \in Reconcilers : r # "NetworkOperator" => "CSV" \notin KeysOf(r)
    BY DEF KeysOf, Reconcilers
  <2>7. \A k \in Keys \ {"CSV"} : cluster'[k] = cluster[k]
    BY <1>0, <2>1 DEF TypeOK, Store
  <2>8. \A r \in Reconcilers \ InOrder : \A k \in KeysOf(r) : cluster'[k] = Absent
    BY <1>0, <2>4, <2>6, <2>7, KeysOfFacts DEF RInv, LC!Caused, LC!Keys, Keys
  <2>9. pass' = "teardown" =>
          \A j \in 1..(step' - 1) : \A k \in KeysOf(Order[N + 1 - j]) : cluster'[k] = Absent
    <3>1. \A j \in 1..(step - 1) : Order[N + 1 - j] \in Reconcilers
      BY <1>0, OrderFacts DEF IInv, TypeOK
    <3>2. QED
      BY <1>0, <2>2, <2>5, <2>6, <2>7, <3>1, KeysOfFacts DEF RInv, LC!Caused, LC!Keys, Keys
  <2>10. ~parentExists' => \A k \in LC!Caused : cluster'[k] = Absent
    BY <1>0, <2>1, <2>2 DEF RInv, LC!Caused, LC!Keys
  <2>11. QED
    BY <1>0, <2>2, <2>8, <2>9, <2>10 DEF RInv
<1>8. CASE UNCHANGED vars
  BY <1>0, <1>8 DEF vars, RInv, InOrder
<1>9. QED
  BY <1>1, <1>2, <1>3, <1>4, <1>5, <1>6, <1>7, <1>8
     DEF Next, Controller, Environment


(***************************************************************************)
(* The refinement.                                                         *)
(***************************************************************************)

LEMMA InitRefines == Init => LC!AInit
<1> SUFFICES ASSUME Init PROVE LC!AInit
  OBVIOUS
<1>1. Phase = "Live"
  BY DEF Init, Phase
<1>2. QED
  BY <1>1 DEF Init, LC!AInit, LC!EmptyStore, EmptyStore, LC!Keys, Keys,
     LC!ParamsValues, ParamsValues, LC!RdmaValues, RdmaValues

LEMMA StepRefines == RII /\ RII' /\ [Next]_vars => [LC!ANext]_LC!avars
<1> SUFFICES ASSUME RII, RII', [Next]_vars PROVE [LC!ANext]_LC!avars
  OBVIOUS
<1>0. TypeOK /\ TypeOK' /\ RInv /\ RInv'
  BY DEF RII, IInv
<1>a. DOMAIN cluster' = LC!Keys
  BY <1>0 DEF TypeOK, Store, LC!Keys, Keys
<1>1. CASE StartPass
  <2>1. /\ UNCHANGED <<cluster, rdma, deleting, parentExists>>
        /\ passRdma' = rdma /\ parentExists
    BY <1>1 DEF StartPass
  <2>2. Phase # "Gone" /\ Phase' = Phase
    BY <2>1 DEF Phase
  <2>3. LC!Observe
    BY <2>1, <2>2 DEF LC!Observe
  <2>4. QED
    BY <2>3 DEF LC!ANext
<1>9. CASE Crash
  <2>1. UNCHANGED <<cluster, rdma, passRdma, deleting, parentExists>>
    BY <1>9 DEF Crash
  <2>2. QED
    BY <2>1 DEF LC!avars, Phase
<1>2. CASE ConvergeStep
  <2>1. pass = "converge" /\ step \in 1..N /\ parentExists
    BY <1>0, <1>2, OrderFacts DEF ConvergeStep, RII, IInv, TypeOK, RInv
  <2>2. PICK o \in Reconcile(Order[step], cluster, passRdma) :
            /\ cluster' = o.store
            /\ UNCHANGED <<rdma, passRdma, parentExists, deleting>>
    BY <1>2 DEF ConvergeStep
  <2>3. Writes(Order[step], cluster', cluster, passRdma)
    BY <1>0, <2>1, <2>2, ReconcileWrites, OrderFacts DEF TypeOK
  <2>4. Phase # "Gone" /\ Phase' = Phase
    BY <2>1, <2>2 DEF Phase
  <2>5. LC!Write
    BY <1>a, <2>2, <2>3, <2>4 DEF LC!Write, Writes, LC!Dependents, Dependents, LC!Keys, Keys
  <2>6. QED
    BY <2>5 DEF LC!ANext
<1>3. CASE TeardownStep
  <2> DEFINE r0 == Order[N + 1 - step]
  <2>1. pass = "teardown" /\ step \in 1..N /\ parentExists /\ deleting
    BY <1>0, <1>3, OrderFacts DEF TeardownStep, RII, IInv, TypeOK, RInv
  <2>2. r0 \in Reconcilers
    BY <2>1, OrderFacts
  <2>3. PICK o \in Delete(r0, cluster) :
            /\ cluster' = o.store
            /\ UNCHANGED <<rdma, passRdma, deleting>>
    BY <1>3 DEF TeardownStep
  <2>4. Removes(r0, cluster', cluster)
    BY <1>0, <2>2, <2>3, DeleteRemoves DEF RemovesOwn, TypeOK
  <2>5. KeysOf(r0) \subseteq LC!Caused
    BY <2>2, KeysOfFacts
  <2>6. Phase = "Deleting"
    BY <2>1 DEF Phase
  <2>7. Phase' \in {"Deleting"} \cup
                  (IF \A k \in LC!Caused : cluster'[k] = Absent THEN {"Gone"} ELSE {})
    <3>1. CASE parentExists'
      BY <2>1, <2>3, <3>1 DEF Phase
    <3>2. CASE ~parentExists'
      BY <1>0, <3>2 DEF Phase, RInv
    <3>3. QED
      BY <3>1, <3>2
  <2>8. LC!Remove
    BY <1>a, <2>3, <2>4, <2>5, <2>6, <2>7 DEF LC!Remove, Removes, LC!Keys, Keys
  <2>9. QED
    BY <2>8 DEF LC!ANext
<1>4. CASE SetRdma \/ SetAddonParameters
  <2>1. /\ parentExists /\ ~deleting /\ UNCHANGED <<parentExists, deleting, passRdma>>
        /\ rdma' \in RdmaValues
        /\ \E p \in ParamsValues : cluster' = [cluster EXCEPT !["ParamsSecret"] = p]
    <3>1. CASE SetRdma
      <4>1. cluster' = [cluster EXCEPT !["ParamsSecret"] = cluster["ParamsSecret"]]
        BY <1>0, <3>1 DEF SetRdma, TypeOK, Store
      <4>2. QED
        BY <1>0, <3>1, <4>1 DEF SetRdma, TypeOK, RdmaValues
    <3>2. CASE SetAddonParameters
      BY <1>0, <3>2 DEF SetAddonParameters, TypeOK
    <3>3. QED
      BY <1>4, <3>1, <3>2
  <2>2. Phase = "Live" /\ Phase' = "Live"
    BY <2>1 DEF Phase
  <2>3. LC!Edit
    BY <2>1, <2>2 DEF LC!Edit, LC!RdmaValues, RdmaValues, LC!ParamsValues, ParamsValues
  <2>4. QED
    BY <2>3 DEF LC!ANext
<1>5. CASE RequestDeletion
  <2>1. Phase = "Live" /\ Phase' = "Deleting"
    BY <1>5 DEF RequestDeletion, Phase
  <2>2. LC!DeleteParent
    BY <1>5, <2>1 DEF RequestDeletion, LC!DeleteParent
  <2>3. QED
    BY <2>2 DEF LC!ANext
<1>6. CASE OLMInstallCSV
  <2>1. LC!InstallCSV
    BY <1>6 DEF OLMInstallCSV, CreateOrPatch, LC!InstallCSV, Phase
  <2>2. QED
    BY <2>1 DEF LC!ANext
<1>7. CASE UNCHANGED vars
  BY <1>7 DEF vars, LC!avars, Phase
<1>8. QED
  BY <1>1, <1>2, <1>3, <1>4, <1>5, <1>6, <1>7, <1>9 DEF Next, Controller, Environment


\* The GPUAddon controller, run with OLM and the user, implements the
\* lifecycle promise: reconcilers write only wanted dependents and only
\* their desired objects for the spec of the GPUAddon fetched at the start
\* of the pass (the old one after a mid-pass edit) and the parameters read
\* in the same call, Delete methods remove objects only during the
\* teardown, and the finalizer is removed only once nothing is left.
THEOREM LifecycleRefinement == Spec => ImplementsLifecycle
<1>1. Init => RII
  BY InitIInv, InitRInv DEF RII
<1>2. RII /\ [Next]_vars => RII'
  BY NextIInv, NextRInv DEF RII
<1>3. QED
  BY <1>1, <1>2, InitRefines, StepRefines, PTL
     DEF Spec, ImplementsLifecycle, LC!ASpec

\* Once the GPUAddon is gone, nothing the operator or OLM created for it is
\* left in the cluster unowned: the teardown path removes the cluster-scoped
\* ClusterPolicy, NicClusterPolicy, MacvlanNetwork, resources namespace and
\* the CSV itself (indeed everything), so the garbage collector is never
\* relied upon.
THEOREM NoOrphan == Spec => []NoOrphanAfterTeardown
<1>1. Init => RII
  BY InitIInv, InitRInv DEF RII
<1>2. RII /\ [Next]_vars => RII'
  BY NextIInv, NextRInv DEF RII
<1>3. RII => NoOrphanAfterTeardown
  BY DEF RII, RInv, NoOrphanAfterTeardown, LC!Caused, LC!Keys, Keys
<1>4. QED
  BY <1>1, <1>2, <1>3, PTL DEF Spec

=============================================================================

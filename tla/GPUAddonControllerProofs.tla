---------------------- MODULE GPUAddonControllerProofs ----------------------
(***************************************************************************)
(* Proofs about the GPUAddon controller, for every value of the constants  *)
(* that satisfies RdmaAssumption, StoreAssumption and ControllerAssumption.*)
(***************************************************************************)
EXTENDS GPUAddonController, SequenceTheorems, TLAPS

(***************************************************************************)
(* The store primitives keep a store a store, and leave the user's         *)
(* parameters secret alone.                                                *)
(***************************************************************************)

\* What every reconciler call guarantees of its outcomes: they are well
\* typed and the user's parameters secret is left as it was.
ReconcileOk(o, st) == o \in ReconcileOutcome /\ o.store["ParamsSecret"] = st["ParamsSecret"]
DeleteOk(o, st) == o \in DeleteOutcome /\ o.store["ParamsSecret"] = st["ParamsSecret"]

LEMMA CreateOrPatchTyped ==
    ASSUME NEW st \in Store, NEW k \in Keys \ {"ParamsSecret"}, NEW obj \in Object
    PROVE  /\ CreateOrPatch(st, k, obj) \in Store
           /\ CreateOrPatch(st, k, obj)["ParamsSecret"] = st["ParamsSecret"]
BY DEF CreateOrPatch, Store

LEMMA DeleteObjectTyped ==
    ASSUME NEW st \in Store, NEW k \in Keys \ {"ParamsSecret"}
    PROVE  /\ DeleteObject(st, k) \in Store
           /\ DeleteObject(st, k)["ParamsSecret"] = st["ParamsSecret"]
BY DEF DeleteObject, Store

LEMMA NewConditionTyped ==
    ASSUME NEW t \in CondTypes, NEW s \in {"True", "False"}, NEW r \in Reasons
    PROVE  NewCondition(t, s, r) \in Condition
BY DEF NewCondition, Condition

(***************************************************************************)
(* Each reconciler's outcomes.                                             *)
(***************************************************************************)

LEMMA NGCSecretReconcileTyped ==
    ASSUME NEW st \in Store, st["ParamsSecret"] \in ParamsValues
    PROVE  \A o \in NGCSecretReconcile(st) : ReconcileOk(o, st)
<1> DEFINE aps == st["ParamsSecret"]
<1>1. \A r \in Reasons : NGCSecretCondition(r) \in Condition
  BY DEF NGCSecretCondition, NewCondition, Condition, CondTypes
<1>2. ASSUME NEW s \in Store, s["ParamsSecret"] = aps, NEW r \in Reasons,
             NEW e \in BOOLEAN, NEW f \in BOOLEAN
      PROVE  ReconcileOk(Outcome(s, NGCSecretCondition(r), e, f), st)
  BY <1>1, <1>2 DEF ReconcileOk, Outcome, ReconcileOutcome
<1>3. ASSUME aps # Absent, IsAddonParametersSecretValid(aps)
      PROVE  /\ [st EXCEPT !["NGCSecret"] = SetDesiredNGCSecret(aps)] \in Store
             /\ [st EXCEPT !["NGCSecret"] = SetDesiredNGCSecret(aps)]["ParamsSecret"] = aps
  <2>1. aps.data \in Creds
    BY <1>3 DEF IsAddonParametersSecretValid
  <2>2. SetDesiredNGCSecret(aps) \in Object
    BY <2>1 DEF SetDesiredNGCSecret, Object, Data
  <2>3. QED
    BY <2>2 DEF Store, Keys
<1>4. QED
  BY <1>2, <1>3 DEF NGCSecretReconcile, Reasons

\* The outcome of a call whose store is st' and whose one condition is c.
LEMMA OutcomeOk ==
    ASSUME NEW st \in Store, NEW s \in Store, s["ParamsSecret"] = st["ParamsSecret"],
           NEW c \in Condition, NEW e \in BOOLEAN, NEW f \in BOOLEAN
    PROVE  ReconcileOk(Outcome(s, c, e, f), st)
BY DEF ReconcileOk, Outcome, ReconcileOutcome

LEMMA ClusterPolicyReconcileTyped ==
    ASSUME NEW st \in Store
    PROVE  \A o \in ClusterPolicyReconcile(st) : ReconcileOk(o, st)
<1> DEFINE withCM == ReconcileDcgmExporterConfigMap(st)
<1>1. \A r \in {"Failed", "Success"} : ClusterPolicyCondition(r) \in Condition
  BY DEF ClusterPolicyCondition, NewCondition, Condition, CondTypes, Reasons
<1>2. withCM \in Store /\ withCM["ParamsSecret"] = st["ParamsSecret"]
  BY CreateOrPatchTyped DEF ReconcileDcgmExporterConfigMap, SetDesiredDcgmExporterConfigMap, Keys, Object, Data, FixedSpec
<1>3. ReconcileClusterPolicy(withCM) \in Store
      /\ ReconcileClusterPolicy(withCM)["ParamsSecret"] = st["ParamsSecret"]
  BY <1>2, CreateOrPatchTyped DEF ReconcileClusterPolicy, SetDesiredClusterPolicy, Keys, Object, Data, FixedSpec
<1>4. QED
  BY <1>1, <1>2, <1>3, OutcomeOk DEF ClusterPolicyReconcile

LEMMA NetworkOperatorReconcileTyped ==
    ASSUME NEW st \in Store
    PROVE  \A o \in NetworkOperatorReconcile(st) : ReconcileOk(o, st)
<1> DEFINE withSub == ReconcileSubscription(st)
<1>1. \A r \in {"Failed", "Success"} : NetworkOperatorCondition(r) \in Condition
  BY DEF NetworkOperatorCondition, NewCondition, Condition, CondTypes, Reasons
<1>2. withSub \in Store /\ withSub["ParamsSecret"] = st["ParamsSecret"]
  BY CreateOrPatchTyped DEF ReconcileSubscription, SetDesiredSubscription, Keys, Object, Data, FixedSpec
<1>3. ReconcileNamespace(withSub) \in Store
      /\ ReconcileNamespace(withSub)["ParamsSecret"] = st["ParamsSecret"]
  BY <1>2, CreateOrPatchTyped DEF ReconcileNamespace, SetDesiredNamespace, Keys, Object, Data, FixedSpec
<1>4. QED
  BY <1>1, <1>2, <1>3, OutcomeOk DEF NetworkOperatorReconcile

\* The two renderings of a well-formed RDMA spec have the shapes of the
\* specs they are written into.
LEMMA RenderedSpecsTyped ==
    ASSUME NEW rd \in RDMASpec
    PROVE  /\ RdmaSharedDevicePluginConfig(rd) \in UserConfigList
           /\ MacvlanNetworkIPAMConfig(rd) \in IPAMConfig
<1> DEFINE devs == rd.devices
<1>1. devs \in Seq(DeviceSpec)
  BY DEF RDMASpec
<1>2. DOMAIN devs = 1..Len(devs) /\ Len(devs) \in Nat
  BY <1>1, LenProperties
<1>3. \A i \in 1..Len(devs) : devs[i] \in DeviceSpec
  BY <1>1, ElementOfSeq
<1>4. [i \in 1..Len(devs) |->
         [resourceName |-> devs[i].resourceName,
          selectors    |-> [ifNames |-> devs[i].selectors.ifNames],
          rdmaHcaMax   |-> 1000]] \in Seq(UserConfig)
  <2>1. \A i \in 1..Len(devs) :
           [resourceName |-> devs[i].resourceName,
            selectors    |-> [ifNames |-> devs[i].selectors.ifNames],
            rdmaHcaMax   |-> 1000] \in UserConfig
    BY <1>3 DEF DeviceSpec, Selectors, UserConfig
  <2>2. QED
    BY <1>2, <2>1
<1>5. RdmaSharedDevicePluginConfig(rd) \in UserConfigList
  BY <1>2, <1>4 DEF RdmaSharedDevicePluginConfig, UserConfigList
<1>6. MacvlanNetworkIPAMConfig(rd) \in IPAMConfig
  <2>1. rd.macvlanNetwork.ipam \in IPAMSpec
    BY DEF RDMASpec, MacvlanNetworkSpec
  <2>2. QED
    BY <2>1 DEF IPAMSpec, MacvlanNetworkIPAMConfig, IPAMConfig
<1>7. QED
  BY <1>5, <1>6

\* The desired custom resource of an RDMA reconciler is an object.
LEMMA SetDesiredRdmaCrTyped ==
    ASSUME NEW r \in {"NicClusterPolicy", "MacvlanNetwork"}, NEW rd \in RDMASpec
    PROVE  SetDesiredRdmaCr(r, rd) \in Object
<1>1. /\ RdmaSharedDevicePluginConfig(rd) \in UserConfigList
      /\ MacvlanNetworkIPAMConfig(rd) \in IPAMConfig
  BY RenderedSpecsTyped
<1>2. CASE r = "NicClusterPolicy"
  BY <1>1, <1>2 DEF SetDesiredRdmaCr, SetDesiredNicClusterPolicy, Object, Data,
     NicClusterPolicySpec
<1>3. CASE r = "MacvlanNetwork"
  BY <1>1, <1>3 DEF SetDesiredRdmaCr, SetDesiredMacvlanNetwork, Object, Data,
     MacvlanNetworkCrSpec
<1>4. QED
  BY <1>2, <1>3

LEMMA RdmaReconcileTyped ==
    ASSUME NEW r \in {"NicClusterPolicy", "MacvlanNetwork"}, NEW st \in Store,
           NEW rd \in RdmaValues
    PROVE  \A o \in RdmaReconcile(r, r, st, rd) : ReconcileOk(o, st)
<1>1. \A x \in {"NotConfigured", "FetchCrFailed", "CreateCrFailed", "CreateCrSuccess"} :
          RdmaCondition(r, x) \in Condition
  BY DEF RdmaCondition, CondType, Reconcilers, NewCondition, Condition, CondTypes, Reasons
<1>2. ASSUME rd # NoRdma
      PROVE  CreateOrPatch(st, r, SetDesiredRdmaCr(r, rd)) \in Store
             /\ CreateOrPatch(st, r, SetDesiredRdmaCr(r, rd))["ParamsSecret"] = st["ParamsSecret"]
  <2>1. rd \in RDMASpec
    BY <1>2, RdmaAssumption, Zenon DEF RdmaValues
  <2>2. SetDesiredRdmaCr(r, rd) \in Object
    BY <2>1, SetDesiredRdmaCrTyped
  <2>3. QED
    BY <2>2, CreateOrPatchTyped DEF Keys
<1>3. QED
  BY <1>1, <1>2, OutcomeOk DEF RdmaReconcile

LEMMA ReconcileTyped ==
    ASSUME NEW r \in Reconcilers, NEW st \in Store, st["ParamsSecret"] \in ParamsValues,
           NEW rd \in RdmaValues
    PROVE  \A o \in Reconcile(r, st, rd) : ReconcileOk(o, st)
<1>1. CASE r = "NGCSecret"
  BY <1>1, NGCSecretReconcileTyped DEF Reconcile
<1>2. CASE r = "ClusterPolicy"
  BY <1>2, ClusterPolicyReconcileTyped DEF Reconcile
<1>3. CASE r = "NetworkOperator"
  BY <1>3, NetworkOperatorReconcileTyped DEF Reconcile
<1>4. CASE r = "NicClusterPolicy"
  BY <1>4, RdmaReconcileTyped DEF Reconcile, NicClusterPolicyReconcile
<1>5. CASE r = "MacvlanNetwork"
  BY <1>5, RdmaReconcileTyped DEF Reconcile, MacvlanNetworkReconcile
<1>6. QED
  BY <1>1, <1>2, <1>3, <1>4, <1>5 DEF Reconcilers

LEMMA DeletedOk ==
    ASSUME NEW st \in Store, NEW s \in Store, s["ParamsSecret"] = st["ParamsSecret"],
           NEW e \in BOOLEAN, NEW f \in BOOLEAN
    PROVE  DeleteOk(Deleted(s, e, f), st)
BY DEF DeleteOk, Deleted, DeleteOutcome

LEMMA SingleDeleteTyped ==
    ASSUME NEW st \in Store, NEW k \in Keys \ {"ParamsSecret"}
    PROVE  \A o \in SingleDelete(k, st) : DeleteOk(o, st)
BY DeleteObjectTyped, DeletedOk DEF SingleDelete

LEMMA ClusterPolicyDeleteTyped ==
    ASSUME NEW st \in Store
    PROVE  \A o \in ClusterPolicyDelete(st) : DeleteOk(o, st)
<1> DEFINE noCP == DeleteObject(st, "ClusterPolicy")
<1>1. noCP \in Store /\ noCP["ParamsSecret"] = st["ParamsSecret"]
  BY DeleteObjectTyped DEF Keys
<1>2. DeleteObject(noCP, "DcgmConfigMap") \in Store
      /\ DeleteObject(noCP, "DcgmConfigMap")["ParamsSecret"] = st["ParamsSecret"]
  BY <1>1, DeleteObjectTyped DEF Keys
<1>3. QED
  BY <1>1, <1>2, DeletedOk DEF ClusterPolicyDelete

LEMMA DeleteCSVTyped ==
    ASSUME NEW st \in Store
    PROVE  \A o \in DeleteCSV(st) : DeleteOk(o, st)
BY DeleteObjectTyped, DeletedOk DEF DeleteCSV, Keys

LEMMA NetworkOperatorDeleteTyped ==
    ASSUME NEW st \in Store
    PROVE  \A o \in NetworkOperatorDelete(st) : DeleteOk(o, st)
<1> DEFINE noSub == DeleteObject(st, "Subscription")
<1>1. noSub \in Store /\ noSub["ParamsSecret"] = st["ParamsSecret"]
  BY DeleteObjectTyped DEF Keys
<1>2. \A p \in DeleteCSV(noSub) : DeleteOk(p, st)
  BY <1>1, DeleteCSVTyped DEF DeleteOk
<1>3. ASSUME NEW p \in DeleteCSV(noSub)
      PROVE  /\ DeleteOk(Deleted(p.store, TRUE, TRUE), st)
             /\ DeleteOk(Deleted(DeleteObject(p.store, "ResourcesNamespace"), FALSE, FALSE), st)
  <2>1. p.store \in Store /\ p.store["ParamsSecret"] = st["ParamsSecret"]
    BY <1>2 DEF DeleteOk, DeleteOutcome
  <2>2. DeleteObject(p.store, "ResourcesNamespace") \in Store
        /\ DeleteObject(p.store, "ResourcesNamespace")["ParamsSecret"] = st["ParamsSecret"]
    BY <2>1, DeleteObjectTyped DEF Keys
  <2>3. QED
    BY <2>1, <2>2, DeletedOk
<1>4. DeleteOk(Deleted(st, TRUE, TRUE), st)
  BY DeletedOk
<1>5. QED
  BY <1>2, <1>3, <1>4 DEF NetworkOperatorDelete

LEMMA DeleteTyped ==
    ASSUME NEW r \in Reconcilers, NEW st \in Store
    PROVE  \A o \in Delete(r, st) : DeleteOk(o, st)
<1>1. CASE r = "NGCSecret"
  BY <1>1, SingleDeleteTyped, DeleteObjectTyped, DeletedOk DEF Delete, NGCSecretDelete, Keys
<1>2. CASE r = "ClusterPolicy"
  BY <1>2, ClusterPolicyDeleteTyped DEF Delete
<1>3. CASE r = "NetworkOperator"
  BY <1>3, NetworkOperatorDeleteTyped DEF Delete
<1>4. CASE r = "NicClusterPolicy"
  BY <1>4, SingleDeleteTyped DEF Delete, NicClusterPolicyDelete, Keys
<1>5. CASE r = "MacvlanNetwork"
  BY <1>5, SingleDeleteTyped DEF Delete, MacvlanNetworkDelete, Keys
<1>6. QED
  BY <1>1, <1>2, <1>3, <1>4, <1>5 DEF Reconcilers

(***************************************************************************)
(* Type correctness.                                                       *)
(***************************************************************************)

LEMMA OrderFacts ==
    /\ N \in Nat \ {0}
    /\ \A i \in 1..N : Order[i] \in Reconcilers
    /\ \A i \in 1..N : Order[N + 1 - i] \in Reconcilers
<1>1. Order \in Seq(Reconcilers) /\ Order # << >>
  BY ControllerAssumption
<1>2. N \in Nat \ {0}
  BY <1>1 DEF N
<1>3. QED
  BY <1>1, <1>2 DEF N

LEMMA SetStatusConditionsTyped ==
    ASSUME NEW st \in [CondTypes -> Condition \cup {NoCondition}],
           NEW conds \in Seq(Condition)
    PROVE  SetStatusConditions(st, conds) \in [CondTypes -> Condition \cup {NoCondition}]
BY DEF SetStatusConditions

\* TypeOK together with the fact that a pass in progress points at a call
\* of Order: the index a step of the pass reads Order at.
IInv ==
    /\ TypeOK
    /\ pass = "none" <=> step = 0

\* The values the user can give the add-on parameters secret are objects
\* of the store (or its absence).
LEMMA ParamsValuesObjects == ParamsValues \subseteq Object \cup {Absent}
<1> SUFFICES ASSUME NEW p \in ParamsValues, p # Absent PROVE p \in Object
  OBVIOUS
<1>1. PICK d \in Creds \cup {Invalid} : p = [owned |-> FALSE, data |-> d]
  BY DEF ParamsValues
<1>2. QED
  BY <1>1 DEF Object, Data

LEMMA InitIInv == Init => IInv
<1> SUFFICES ASSUME Init PROVE IInv
  OBVIOUS
<1>1. PICK params \in ParamsValues : cluster = EmptyStore(params)
  BY DEF Init
<1>2. params \in Object \cup {Absent}
  BY ParamsValuesObjects
<1>3. cluster \in Store
  <2>1. \A k \in Keys : (IF k = "ParamsSecret" THEN params ELSE Absent) \in Object \cup {Absent}
    BY <1>2
  <2>2. QED
    BY <1>1, <2>1, Zenon DEF EmptyStore, Store
<1>4. cluster["ParamsSecret"] \in ParamsValues
  BY <1>1 DEF EmptyStore, Keys
<1>5. status \in [CondTypes -> Condition \cup {NoCondition}]
  BY DEF Init
<1>6. step \in 0..N /\ faults \in 0..MaxFaults /\ envChanges \in 0..MaxEnvChanges
  BY OrderFacts, ControllerAssumption DEF Init
<1>7. passConds \in Seq(Condition)
  BY DEF Init
<1>8. rdma \in RdmaValues /\ passRdma \in RdmaValues /\ deleting \in BOOLEAN /\ parentExists \in BOOLEAN
      /\ pending \in BOOLEAN /\ lastPassOk \in BOOLEAN
      /\ pass \in {"none", "converge", "teardown"}
  BY DEF Init
<1>9. TypeOK
  BY <1>3, <1>4, <1>5, <1>6, <1>7, <1>8 DEF TypeOK
<1>10. QED
  BY <1>9 DEF Init, IInv

LEMMA NextIInv == IInv /\ [Next]_vars => IInv'
<1> SUFFICES ASSUME IInv, [Next]_vars PROVE IInv'
  OBVIOUS
<1> USE OrderFacts, ControllerAssumption DEF IInv, TypeOK
<1>1. CASE StartPass
  <2>1. /\ pass' \in {"none", "converge", "teardown"} /\ pass' # "none"
        /\ step' = 1 /\ passConds' = << >> /\ pending' = FALSE
        /\ passRdma' = rdma
    BY <1>1 DEF StartPass
  <2>2. UNCHANGED <<cluster, rdma, deleting, parentExists, status, lastPassOk,
                    faults, envChanges>>
    BY <1>1 DEF StartPass
  <2>3. step' \in 0..N /\ passConds' \in Seq(Condition)
    BY <2>1
  <2>4. /\ cluster' = cluster /\ rdma' = rdma /\ deleting' = deleting
        /\ parentExists' = parentExists /\ status' = status
        /\ lastPassOk' = lastPassOk /\ faults' = faults /\ envChanges' = envChanges
    BY <2>2
  <2>5. TypeOK'
    BY <2>1, <2>3, <2>4, Zenon
  <2>6. (pass = "none" <=> step = 0)'
    BY <2>1
  <2>7. QED
    BY <2>5, <2>6
<1>2. CASE ConvergeStep
  <2>1. step \in 1..N
    BY <1>2 DEF ConvergeStep
  <2>2. PICK o \in Reconcile(Order[step], cluster, passRdma) :
            /\ Allowed(o)
            /\ cluster' = o.store
            /\ faults' = Charge(o)
            /\ passConds' = passConds \o o.conds
            /\ IF o.err \/ step = N
               THEN /\ pass' = "none"
                    /\ step' = 0
                    /\ status' = SetStatusConditions(status, passConds')
                    /\ lastPassOk' = ~o.err
                    /\ pending' = (pending \/ o.err)
               ELSE /\ step' = step + 1
                    /\ UNCHANGED <<pass, status, lastPassOk, pending>>
    BY <1>2 DEF ConvergeStep
  <2>3. ReconcileOk(o, cluster)
    BY <2>1, ReconcileTyped
  <2>4. cluster' \in Store /\ cluster'["ParamsSecret"] \in ParamsValues
    BY <2>2, <2>3 DEF ReconcileOk, ReconcileOutcome
  <2>5. passConds' \in Seq(Condition)
    BY <2>2, <2>3 DEF ReconcileOk, ReconcileOutcome
  <2>6. faults' \in 0..MaxFaults
    BY <2>2, <2>3 DEF ReconcileOk, ReconcileOutcome, Allowed, Charge
  <2>7. status' \in [CondTypes -> Condition \cup {NoCondition}]
    BY <2>2, <2>5, SetStatusConditionsTyped
  <2>8. /\ pass' \in {"none", "converge", "teardown"}
        /\ step' \in 0..N
        /\ (pass' = "none" <=> step' = 0)
        /\ lastPassOk' \in BOOLEAN
        /\ pending' \in BOOLEAN
    <3>1. CASE o.err \/ step = N
      <4>1. /\ pass' = "none" /\ step' = 0 /\ lastPassOk' = ~o.err
            /\ pending' = (pending \/ o.err)
        BY <2>2, <3>1
      <4>2. o.err \in BOOLEAN
        BY <2>3 DEF ReconcileOk, ReconcileOutcome
      <4>3. step' \in 0..N
        BY <4>1
      <4>4. QED
        BY <4>1, <4>2, <4>3, Zenon
    <3>2. CASE ~(o.err \/ step = N)
      <4>1. step' = step + 1 /\ UNCHANGED <<pass, lastPassOk, pending>>
        BY <2>2, <3>2
      <4>2. step + 1 \in 1..N
        BY <2>1, <3>2
      <4>3. pass = "converge"
        BY <1>2 DEF ConvergeStep
      <4>4. QED
        BY <4>1, <4>2, <4>3
    <3>3. QED
      BY <3>1, <3>2
  <2>9. UNCHANGED <<rdma, passRdma, deleting, parentExists, envChanges>>
    BY <1>2 DEF ConvergeStep
  <2>10. QED
    BY <2>4, <2>5, <2>6, <2>7, <2>8, <2>9
<1>3. CASE TeardownStep
  <2>1. step \in 1..N
    BY <1>3 DEF TeardownStep
  <2>2. PICK o \in Delete(Order[N + 1 - step], cluster) :
            /\ Allowed(o)
            /\ cluster' = o.store
            /\ faults' = Charge(o)
            /\ IF o.err \/ step = N
               THEN /\ pass' = "none"
                    /\ step' = 0
                    /\ pending' = (pending \/ o.err)
                    /\ parentExists' = o.err
               ELSE /\ step' = step + 1
                    /\ UNCHANGED <<pass, pending, parentExists>>
    BY <1>3 DEF TeardownStep
  <2>3. DeleteOk(o, cluster)
    BY <2>1, DeleteTyped
  <2>4. cluster' \in Store /\ cluster'["ParamsSecret"] \in ParamsValues
    BY <2>2, <2>3 DEF DeleteOk, DeleteOutcome
  <2>5. faults' \in 0..MaxFaults
    BY <2>2, <2>3 DEF DeleteOk, DeleteOutcome, Allowed, Charge
  <2>6. /\ pass' \in {"none", "converge", "teardown"}
        /\ step' \in 0..N
        /\ (pass' = "none" <=> step' = 0)
        /\ parentExists' \in BOOLEAN
        /\ pending' \in BOOLEAN
    BY <2>1, <2>2, <2>3, <1>3 DEF DeleteOk, DeleteOutcome, TeardownStep
  <2>7. UNCHANGED <<rdma, passRdma, deleting, passConds, status, lastPassOk, envChanges>>
    BY <1>3 DEF TeardownStep
  <2>8. QED
    BY <2>4, <2>5, <2>6, <2>7
<1>4. CASE Crash
  BY <1>4 DEF Crash
<1>5. CASE SetRdma
  BY <1>5 DEF SetRdma
<1>6. CASE SetAddonParameters
  <2>1. PICK p \in ParamsValues \ {cluster["ParamsSecret"]} :
            cluster' = [cluster EXCEPT !["ParamsSecret"] = p]
    BY <1>6 DEF SetAddonParameters
  <2>2. p \in Object \cup {Absent}
    BY ParamsValuesObjects
  <2>3. cluster' \in Store /\ cluster'["ParamsSecret"] \in ParamsValues
    BY <2>1, <2>2 DEF Store, Keys
  <2>4. QED
    BY <1>6, <2>3 DEF SetAddonParameters
<1>7. CASE RequestDeletion
  BY <1>7 DEF RequestDeletion
<1>8. CASE OLMInstallCSV
  <2>1. cluster' \in Store /\ cluster'["ParamsSecret"] = cluster["ParamsSecret"]
    BY <1>8, CreateOrPatchTyped DEF OLMInstallCSV, Keys, Object, Data, FixedSpec
  <2>2. QED
    BY <1>8, <2>1 DEF OLMInstallCSV
<1>9. CASE UNCHANGED vars
  BY <1>9 DEF vars
<1>11. QED
  BY <1>1, <1>2, <1>3, <1>4, <1>5, <1>6, <1>7, <1>8, <1>9
     DEF Next, Controller, Environment

\* The GPUAddon controller is type correct: the cluster store, the status
\* conditions, the pass bookkeeping and the bounds keep their types in
\* every reachable state, whatever Order, the sets of RDMA configurations
\* and parameter values, and the fault and edit bounds are.
THEOREM TypeCorrect == Spec => []TypeOK
<1>1. IInv /\ [][Next]_vars => []IInv
  BY NextIInv, PTL
<1>2. QED
  BY InitIInv, <1>1, PTL DEF Spec, IInv

(***************************************************************************)
(* The conditions of a pass.                                               *)
(***************************************************************************)

\* The condition types reconciler r can return: its own, and for the NGC
\* secret reconciler also the SubscriptionDeployed type its create-failed
\* helper carries.
StepCondTypes(r) ==
    IF r = "NGCSecret" THEN {"NGCSecretDeployed", "SubscriptionDeployed"}
                       ELSE {CondType[r]}

\* o returned exactly one condition, of a type in T.
OneCondOf(o, T) == \E c \in Condition : o.conds = << c >> /\ c.type \in T

LEMMA StepCondTypesDisjoint ==
    \A r1, r2 \in Reconcilers :
        StepCondTypes(r1) \cap StepCondTypes(r2) # {} => r1 = r2
BY DEF StepCondTypes, CondType, Reconcilers

LEMMA ReconcileOneCond ==
    ASSUME NEW r \in Reconcilers, NEW st \in Store, NEW rd \in RdmaValues
    PROVE  \A o \in Reconcile(r, st, rd) : OneCondOf(o, StepCondTypes(r))
<1>1. CASE r = "NGCSecret"
  <2>1. \A x \in Reasons : /\ NGCSecretCondition(x) \in Condition
                           /\ NGCSecretCondition(x).type \in StepCondTypes(r)
    BY <1>1 DEF NGCSecretCondition, NewCondition, Condition, CondTypes, StepCondTypes
  <2>2. QED
    BY <1>1, <2>1 DEF Reconcile, NGCSecretReconcile, Outcome, OneCondOf, Reasons
<1>2. CASE r = "ClusterPolicy"
  <2>1. \A x \in Reasons : /\ ClusterPolicyCondition(x) \in Condition
                           /\ ClusterPolicyCondition(x).type \in StepCondTypes(r)
    BY <1>2 DEF ClusterPolicyCondition, NewCondition, Condition, CondTypes,
                StepCondTypes, CondType, Reconcilers
  <2>2. QED
    BY <1>2, <2>1 DEF Reconcile, ClusterPolicyReconcile, Outcome, OneCondOf, Reasons
<1>3. CASE r = "NetworkOperator"
  <2>1. \A x \in Reasons : /\ NetworkOperatorCondition(x) \in Condition
                           /\ NetworkOperatorCondition(x).type \in StepCondTypes(r)
    BY <1>3 DEF NetworkOperatorCondition, NewCondition, Condition, CondTypes,
                StepCondTypes, CondType, Reconcilers
  <2>2. QED
    BY <1>3, <2>1 DEF Reconcile, NetworkOperatorReconcile, Outcome, OneCondOf, Reasons
<1>4. CASE r \in {"NicClusterPolicy", "MacvlanNetwork"}
  <2>1. \A x \in Reasons : /\ RdmaCondition(r, x) \in Condition
                           /\ RdmaCondition(r, x).type \in StepCondTypes(r)
    BY <1>4 DEF RdmaCondition, NewCondition, Condition, CondTypes,
                StepCondTypes, CondType, Reconcilers
  <2>2. \A o \in RdmaReconcile(r, r, st, rd) : OneCondOf(o, StepCondTypes(r))
    BY <2>1 DEF RdmaReconcile, Outcome, OneCondOf, Reasons
  <2>3. QED
    BY <1>4, <2>2 DEF Reconcile, NicClusterPolicyReconcile, MacvlanNetworkReconcile
<1>5. QED
  BY <1>1, <1>2, <1>3, <1>4 DEF Reconcilers

\* The conditions gathered by the current or the last converge pass: the
\* i-th was returned by Order[i], and during a pass one per finished step.
CondsInv ==
    /\ Len(passConds) <= N
    /\ \A i \in 1..Len(passConds) : passConds[i].type \in StepCondTypes(Order[i])
    /\ pass = "converge" => Len(passConds) = step - 1

Inv == IInv /\ CondsInv

LEMMA InitInv == Init => Inv
<1> SUFFICES ASSUME Init PROVE Inv
  OBVIOUS
<1>1. IInv
  BY InitIInv
<1>2. CondsInv
  BY OrderFacts DEF Init, CondsInv
<1>3. QED
  BY <1>1, <1>2 DEF Inv

LEMMA NextCondsInv == Inv /\ [Next]_vars => CondsInv'
<1> SUFFICES ASSUME Inv, [Next]_vars PROVE CondsInv'
  OBVIOUS
<1> USE OrderFacts DEF Inv, IInv, TypeOK
<1>1. CASE StartPass
  BY <1>1 DEF StartPass, CondsInv
<1>2. CASE ConvergeStep
  <2>1. step \in 1..N /\ Len(passConds) = step - 1
    BY <1>2 DEF ConvergeStep, CondsInv
  <2>2. PICK o \in Reconcile(Order[step], cluster, passRdma) :
            /\ passConds' = passConds \o o.conds
            /\ IF o.err \/ step = N
               THEN pass' = "none"
               ELSE /\ step' = step + 1
                    /\ pass' = pass
    BY <1>2 DEF ConvergeStep
  <2>3. PICK c \in Condition : o.conds = << c >> /\ c.type \in StepCondTypes(Order[step])
    BY <2>1, ReconcileOneCond DEF OneCondOf
  <2>4. /\ Len(passConds') = step
        /\ \A i \in 1..step : passConds'[i] = IF i <= step - 1 THEN passConds[i] ELSE c
    <3>1. << c >> \in Seq(Condition) /\ Len(<< c >>) = 1 /\ << c >>[1] = c
      OBVIOUS
    <3>2. passConds \in Seq(Condition)
      OBVIOUS
    <3>3. /\ Len(passConds \o << c >>) = Len(passConds) + 1
          /\ \A i \in 1..Len(passConds) + 1 : (passConds \o << c >>)[i] =
                IF i <= Len(passConds) THEN passConds[i] ELSE << c >>[i - Len(passConds)]
      BY <3>1, <3>2, ConcatProperties
    <3>4. passConds' = passConds \o << c >>
      BY <2>2, <2>3
    <3>5. QED
      BY <2>1, <3>1, <3>3, <3>4
  <2>5. \A i \in 1..Len(passConds') : passConds'[i].type \in StepCondTypes(Order[i])
    BY <2>1, <2>3, <2>4 DEF CondsInv
  <2>6. pass' = "converge" => Len(passConds') = step' - 1
    BY <2>2, <2>4, <1>2 DEF ConvergeStep
  <2>7. QED
    BY <2>1, <2>4, <2>5, <2>6 DEF CondsInv
<1>3. CASE TeardownStep
  <2>1. pass' # "converge" /\ UNCHANGED passConds
    BY <1>3 DEF TeardownStep
  <2>2. QED
    BY <2>1 DEF CondsInv
<1>4. CASE Crash
  BY <1>4 DEF Crash, CondsInv
<1>5. CASE SetRdma \/ SetAddonParameters \/ RequestDeletion \/ OLMInstallCSV
  <2>1. UNCHANGED <<pass, step, passConds>>
    BY <1>5 DEF SetRdma, SetAddonParameters, RequestDeletion, OLMInstallCSV
  <2>2. QED
    BY <2>1 DEF CondsInv
<1>6. CASE UNCHANGED vars
  BY <1>6 DEF vars, CondsInv
<1>7. QED
  BY <1>1, <1>2, <1>3, <1>4, <1>5, <1>6 DEF Next, Controller, Environment

\* A converge pass gathers at most one condition of each type, so merging
\* them into GPUAddon.Status.Conditions does not depend on their order:
\* each reconciler returns one condition per call, of types no other
\* reconciler uses, and the pass calls each reconciler of Order once.
THEOREM ConditionsPerType == Spec => []OneConditionPerType
<1>1. Inv => OneConditionPerType
  <2> SUFFICES ASSUME Inv,
                      NEW i \in DOMAIN passConds, NEW j \in DOMAIN passConds,
                      passConds[i].type = passConds[j].type
               PROVE  i = j
    BY DEF OneConditionPerType
  <2>1. i \in 1..N /\ j \in 1..N /\ i \in 1..Len(passConds) /\ j \in 1..Len(passConds)
    BY OrderFacts DEF Inv, IInv, TypeOK, CondsInv
  <2>2. Order[i] \in Reconcilers /\ Order[j] \in Reconcilers
    BY <2>1, OrderFacts
  <2>3. StepCondTypes(Order[i]) \cap StepCondTypes(Order[j]) # {}
    BY <2>1 DEF Inv, CondsInv
  <2>4. Order[i] = Order[j]
    BY <2>2, <2>3, StepCondTypesDisjoint
  <2>5. QED
    BY <2>1, <2>4, ControllerAssumption DEF N
<1>2. Inv /\ [Next]_vars => Inv'
  BY NextIInv, NextCondsInv DEF Inv
<1>3. QED
  BY InitInv, <1>1, <1>2, PTL DEF Spec

=============================================================================

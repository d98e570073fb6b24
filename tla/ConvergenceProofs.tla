------------------------- MODULE ConvergenceProofs -------------------------
(***************************************************************************)
(* A converged controller has deployed the desired state: when the last    *)
(* converge pass returned no error and nothing was queued since, every     *)
(* wanted dependent holds its desired object for the current spec and      *)
(* parameters (ConvergedMeansDeployed), for every value of the constants   *)
(* and every injective Order that runs all five reconcilers.               *)
(***************************************************************************)
EXTENDS LifecycleRefinementProofs

\* Dependent k is in its desired state for the current spec and parameters,
\* or is not wanted.
Fresh(k) ==
    LC!Wanted(k, rdma, cluster["ParamsSecret"]) =>
        LC!DesiredFor(k, cluster[k], rdma, cluster["ParamsSecret"])

\* The dependents of the first n reconcilers of Order are fresh.
FreshUpTo(n) == \A i \in 1..n : \A k \in KeysOf(Order[i]) \cap Dependents : Fresh(k)

\* The strengthening: during a converge pass that no event has
\* invalidated, the reconcilers already called left their dependents
\* fresh, and the GPUAddon the pass fetched still has the current spec; and
\* a converged controller has all of Order's dependents fresh.
CInv ==
    /\ pass = "converge" /\ ~pending => passRdma = rdma /\ FreshUpTo(step - 1)
    /\ Converged => FreshUpTo(N)

(***************************************************************************)
(* What a Reconcile call that returns no error guarantees.                 *)
(***************************************************************************)

\* Outcome o of reconciler r's Reconcile on st, for the spec rd, left every
\* wanted dependent of r desired, unless it returned an error.
Completes(r, o, st, rd) ==
    ~o.err =>
        \A k \in KeysOf(r) \cap Dependents :
            LC!Wanted(k, rd, st["ParamsSecret"]) =>
                LC!DesiredFor(k, o.store[k], rd, st["ParamsSecret"])

LEMMA NGCSecretCompletes ==
    ASSUME NEW st \in Store, st["ParamsSecret"] \in ParamsValues, NEW rd
    PROVE  \A o \in NGCSecretReconcile(st) : Completes("NGCSecret", o, st, rd)
<1> DEFINE aps == st["ParamsSecret"]
           new == [st EXCEPT !["NGCSecret"] = SetDesiredNGCSecret(aps)]
<1>1. KeysOf("NGCSecret") \cap Dependents = {"NGCSecret"}
  BY DEF KeysOf, Dependents, Keys
<1>2. ASSUME aps = Absent \/ ~IsAddonParametersSecretValid(aps)
      PROVE  ~LC!Wanted("NGCSecret", rd, aps)
  BY <1>2 DEF LC!Wanted, IsAddonParametersSecretValid
<1>3. ASSUME aps # Absent, IsAddonParametersSecretValid(aps)
      PROVE  LC!DesiredFor("NGCSecret", new["NGCSecret"], rd, aps)
  <2>1. SetDesiredNGCSecret(aps) \in Object
    BY <1>3 DEF IsAddonParametersSecretValid, SetDesiredNGCSecret, Object, Data
  <2>2. new["NGCSecret"] = SetDesiredNGCSecret(aps)
    BY DEF Store, Keys
  <2>3. QED
    BY <2>1, <2>2, AbsentNotObject DEF LC!DesiredFor, SetDesiredNGCSecret
<1>4. CASE aps = Absent \/ ~IsAddonParametersSecretValid(aps)
  BY <1>1, <1>2, <1>4 DEF NGCSecretReconcile, Outcome, Completes
<1>5. CASE aps # Absent /\ IsAddonParametersSecretValid(aps)
  <2>1. \A o \in NGCSecretReconcile(st) : ~o.err => o.store = new
    BY <1>5 DEF NGCSecretReconcile, Outcome
  <2>2. QED
    BY <1>1, <1>3, <1>5, <2>1 DEF Completes
<1>6. QED
  BY <1>4, <1>5

LEMMA ClusterPolicyCompletes ==
    ASSUME NEW st \in Store, NEW rd
    PROVE  \A o \in ClusterPolicyReconcile(st) : Completes("ClusterPolicy", o, st, rd)
<1> DEFINE params == st["ParamsSecret"]
           cm     == SetDesiredDcgmExporterConfigMap
           cp     == SetDesiredClusterPolicy
           full   == ReconcileClusterPolicy(ReconcileDcgmExporterConfigMap(st))
<1>1. full["DcgmConfigMap"] = cm /\ full["ClusterPolicy"] = cp
  BY DEF ReconcileDcgmExporterConfigMap, ReconcileClusterPolicy, CreateOrPatch, Store, Keys
<1>2. cm # Absent /\ cp # Absent
  BY AbsentNotObject DEF SetDesiredDcgmExporterConfigMap, SetDesiredClusterPolicy,
     Object, Data, FixedSpec
<1>3. /\ LC!DesiredFor("DcgmConfigMap", full["DcgmConfigMap"], rd, params)
      /\ LC!DesiredFor("ClusterPolicy", full["ClusterPolicy"], rd, params)
  BY <1>1, <1>2 DEF LC!DesiredFor, SetDesiredDcgmExporterConfigMap, SetDesiredClusterPolicy
<1>4. KeysOf("ClusterPolicy") \cap Dependents = {"DcgmConfigMap", "ClusterPolicy"}
  BY DEF KeysOf, Dependents, Keys
<1>5. QED
  BY <1>3, <1>4 DEF ClusterPolicyReconcile, Outcome, Completes

LEMMA NetworkOperatorCompletes ==
    ASSUME NEW st \in Store, NEW rd
    PROVE  \A o \in NetworkOperatorReconcile(st) : Completes("NetworkOperator", o, st, rd)
<1> DEFINE params == st["ParamsSecret"]
           sub    == SetDesiredSubscription
           ns     == SetDesiredNamespace
           full   == ReconcileNamespace(ReconcileSubscription(st))
<1>1. full["Subscription"] = sub /\ full["ResourcesNamespace"] = ns
  BY DEF ReconcileSubscription, ReconcileNamespace, CreateOrPatch, Store, Keys
<1>2. sub # Absent /\ ns # Absent
  BY AbsentNotObject DEF SetDesiredSubscription, SetDesiredNamespace, Object, Data, FixedSpec
<1>3. /\ LC!DesiredFor("Subscription", full["Subscription"], rd, params)
      /\ LC!DesiredFor("ResourcesNamespace", full["ResourcesNamespace"], rd, params)
  BY <1>1, <1>2 DEF LC!DesiredFor, SetDesiredSubscription, SetDesiredNamespace
<1>4. KeysOf("NetworkOperator") \cap Dependents = {"Subscription", "ResourcesNamespace"}
  BY DEF KeysOf, Dependents, Keys
<1>5. QED
  BY <1>3, <1>4 DEF NetworkOperatorReconcile, Outcome, Completes

LEMMA RdmaCompletes ==
    ASSUME NEW r \in {"NicClusterPolicy", "MacvlanNetwork"}, NEW st \in Store,
           NEW rd \in RdmaValues
    PROVE  \A o \in RdmaReconcile(r, r, st, rd) : Completes(r, o, st, rd)
<1> DEFINE new == CreateOrPatch(st, r, SetDesiredRdmaCr(r, rd))
<1>1. KeysOf(r) \cap Dependents = {r}
  BY DEF KeysOf, Dependents, Keys
<1>2. CASE rd = NoRdma
  <2>1. ~LC!Wanted(r, rd, st["ParamsSecret"])
    BY <1>2 DEF LC!Wanted
  <2>2. QED
    BY <1>1, <1>2, <2>1 DEF RdmaReconcile, Outcome, Completes
<1>3. CASE rd # NoRdma
  <2>1. \A o \in RdmaReconcile(r, r, st, rd) : ~o.err => o.store = new
    BY <1>3 DEF RdmaReconcile, Outcome
  <2>2. rd \in RDMASpec
    BY <1>3, RdmaAssumption, Zenon DEF RdmaValues
  <2>3. new[r] = SetDesiredRdmaCr(r, rd)
    BY DEF CreateOrPatch, Store, Keys
  <2>4. SetDesiredRdmaCr(r, rd) # Absent
    BY <2>2, SetDesiredRdmaCrTyped, AbsentNotObject
  <2>5. CASE r = "NicClusterPolicy"
    <3>1. RdmaSharedDevicePluginConfig(rd).configList = LC!RequestedDevices(rd)
      BY <2>2, RenderedDevices
    <3>2. LC!DesiredFor(r, new[r], rd, st["ParamsSecret"])
      BY <2>3, <2>4, <2>5, <3>1 DEF LC!DesiredFor, SetDesiredRdmaCr, SetDesiredNicClusterPolicy
    <3>3. QED
      BY <1>1, <2>1, <3>2 DEF Completes
  <2>6. CASE r = "MacvlanNetwork"
    <3>1. LC!DesiredFor(r, new[r], rd, st["ParamsSecret"])
      BY <2>3, <2>4, <2>6 DEF LC!DesiredFor, SetDesiredRdmaCr, SetDesiredMacvlanNetwork,
         MacvlanNetworkIPAMConfig, LC!RequestedIPAM
    <3>2. QED
      BY <1>1, <2>1, <3>1 DEF Completes
  <2>7. QED
    BY <2>5, <2>6
<1>4. QED
  BY <1>2, <1>3


LEMMA ReconcileCompletes ==
    ASSUME NEW r \in Reconcilers, NEW st \in Store, st["ParamsSecret"] \in ParamsValues,
           NEW rd \in RdmaValues
    PROVE  \A o \in Reconcile(r, st, rd) : Completes(r, o, st, rd)
<1>1. CASE r = "NGCSecret"
  BY <1>1, NGCSecretCompletes DEF Reconcile
<1>2. CASE r = "ClusterPolicy"
  BY <1>2, ClusterPolicyCompletes DEF Reconcile
<1>3. CASE r = "NetworkOperator"
  BY <1>3, NetworkOperatorCompletes DEF Reconcile
<1>4. CASE r = "NicClusterPolicy"
  BY <1>4, RdmaCompletes DEF Reconcile, NicClusterPolicyReconcile
<1>5. CASE r = "MacvlanNetwork"
  BY <1>5, RdmaCompletes DEF Reconcile, MacvlanNetworkReconcile
<1>6. QED
  BY <1>1, <1>2, <1>3, <1>4, <1>5 DEF Reconcilers


(***************************************************************************)
(* The invariant.                                                          *)
(***************************************************************************)

\* A dependent stays fresh across a step that changes neither it, nor the
\* parameters secret, nor the spec.
LEMMA FreshKept ==
    ASSUME NEW k, Fresh(k),
           rdma' = rdma,
           cluster'["ParamsSecret"] = cluster["ParamsSecret"],
           cluster'[k] = cluster[k]
    PROVE  Fresh(k)'
BY DEF Fresh

\* A step that queues the GPUAddon (pending') keeps CInv.
LEMMA CInvQueued ==
    ASSUME pending' PROVE CInv'
BY DEF CInv, Converged

LEMMA InitCInv == Init => CInv
BY DEF Init, CInv, Converged

\* The strengthening the theorem is proved from.
CII == RII /\ CInv

LEMMA NextCInv == CII /\ [Next]_vars => CInv'
<1> SUFFICES ASSUME CII, [Next]_vars PROVE CInv'
  OBVIOUS
<1>0. TypeOK /\ (pass = "none" <=> step = 0) /\ RInv /\ CInv
  BY DEF CII, RII, IInv
<1>1. CASE StartPass
  <2>1. pass' # "none" /\ step' = 1 /\ passRdma' = rdma /\ rdma' = rdma
    BY <1>1 DEF StartPass
  <2>2. QED
    BY <2>1 DEF CInv, Converged, FreshUpTo
<1>2. CASE ConvergeStep
  <2>1. pass = "converge" /\ step \in 1..N
    BY <1>0, <1>2, OrderFacts DEF ConvergeStep, TypeOK
  <2>2. Order[step] \in Reconcilers
    BY <2>1, OrderFacts
  <2>3. PICK o \in Reconcile(Order[step], cluster, passRdma) :
            /\ cluster' = o.store
            /\ IF o.err \/ step = N
               THEN /\ pass' = "none"
                    /\ lastPassOk' = ~o.err
                    /\ pending' = (pending \/ o.err)
               ELSE /\ step' = step + 1
                    /\ UNCHANGED <<pass, lastPassOk, pending>>
            /\ UNCHANGED <<rdma, passRdma, deleting>>
    BY <1>2 DEF ConvergeStep
  <2>4. Writes(Order[step], cluster', cluster, passRdma)
    BY <1>0, <2>2, <2>3, ReconcileWrites DEF TypeOK
  <2>5. Completes(Order[step], o, cluster, passRdma)
    BY <1>0, <2>2, <2>3, ReconcileCompletes DEF TypeOK
  <2>6. CASE pending \/ o.err
    BY <2>3, <2>6, CInvQueued
  <2>7. CASE ~pending /\ ~o.err
    <3>0. passRdma = rdma
      BY <1>0, <2>1, <2>7 DEF CInv
    <3>1. FreshUpTo(step - 1)
      BY <1>0, <2>1, <2>7 DEF CInv
    <3>2. cluster'["ParamsSecret"] = cluster["ParamsSecret"] /\ rdma' = rdma
      BY <2>3, <2>4 DEF Writes, Dependents, Keys
    <3>3. \A i \in 1..step : \A k \in KeysOf(Order[i]) \cap Dependents : Fresh(k)'
      <4> SUFFICES ASSUME NEW i \in 1..step, NEW k \in KeysOf(Order[i]) \cap Dependents
                   PROVE  Fresh(k)'
        OBVIOUS
      <4>1. CASE i = step
        <5>1. LC!Wanted(k, rdma, cluster["ParamsSecret"]) =>
                LC!DesiredFor(k, cluster'[k], rdma, cluster["ParamsSecret"])
          BY <2>3, <2>5, <2>7, <3>0, <4>1 DEF Completes
        <5>2. QED
          BY <3>2, <5>1 DEF Fresh
      <4>2. CASE i # step
        <5>1. Order[i] # Order[step]
          BY <2>1, <4>2, ControllerAssumption DEF N
        <5>2. Order[i] \in Reconcilers
          BY <2>1, OrderFacts
        <5>3. k \notin KeysOf(Order[step])
          BY <2>2, <5>1, <5>2, KeysOfFacts
        <5>4. k \in Keys
          BY DEF Dependents
        <5>5. cluster'[k] = cluster[k]
          BY <2>4, <5>3, <5>4 DEF Writes
        <5>6. Fresh(k)
          <6>1. i \in 1..(step - 1)
            BY <2>1, <4>2
          <6>2. QED
            BY <3>1, <6>1 DEF FreshUpTo
        <5>7. QED
          BY <3>2, <5>5, <5>6, FreshKept
      <4>3. QED
        BY <4>1, <4>2
    <3>4. CASE step = N
      <4>1. pass' = "none" /\ pending' = (pending \/ o.err)
        BY <2>3, <3>4
      <4>2. ~pending'
        BY <2>7, <4>1
      <4>3. FreshUpTo(N)'
        BY <3>3, <3>4 DEF FreshUpTo
      <4>4. QED
        BY <4>1, <4>2, <4>3 DEF CInv
    <3>5. CASE step # N
      <4>1. pass' = "converge" /\ step' = step + 1 /\ pending' = pending
        BY <2>1, <2>3, <2>7, <3>5
      <4>2. step' - 1 = step
        BY <2>1, <4>1
      <4>3. QED
        BY <2>3, <3>0, <3>3, <4>1, <4>2 DEF CInv, Converged, FreshUpTo
    <3>6. QED
      BY <3>4, <3>5
  <2>8. QED
    BY <2>6, <2>7
<1>3. CASE TeardownStep
  <2>1. pass = "teardown" /\ deleting
    BY <1>0, <1>3 DEF TeardownStep, RInv
  <2>2. pass' \in {"none", "teardown"} /\ deleting'
    BY <1>3, <2>1 DEF TeardownStep
  <2>3. QED
    BY <2>2 DEF CInv, Converged
<1>4. CASE Crash \/ SetRdma \/ SetAddonParameters \/ RequestDeletion
  <2>1. pending'
    BY <1>4 DEF Crash, SetRdma, SetAddonParameters, RequestDeletion
  <2>2. QED
    BY <2>1, CInvQueued
<1>5. CASE OLMInstallCSV
  <2>1. UNCHANGED <<rdma, passRdma, deleting, pass, step, pending, lastPassOk>>
    BY <1>5 DEF OLMInstallCSV
  <2>2. \A k \in Keys \ {"CSV"} : cluster'[k] = cluster[k]
    BY <1>0, <1>5 DEF OLMInstallCSV, CreateOrPatch, TypeOK, Store
  <2>3. \A k \in Dependents : Fresh(k) => Fresh(k)'
    BY <2>1, <2>2, FreshKept DEF Dependents, Keys
  <2>4. \A n \in Int : FreshUpTo(n) => FreshUpTo(n)'
    BY <2>3 DEF FreshUpTo
  <2>5. step - 1 \in Int /\ N \in Int
    BY <1>0, OrderFacts DEF TypeOK
  <2>6. QED
    BY <1>0, <2>1, <2>4, <2>5 DEF CInv, Converged
<1>6. CASE UNCHANGED vars
  BY <1>0, <1>6 DEF vars, CInv, Converged, FreshUpTo, Fresh
<1>7. QED
  BY <1>1, <1>2, <1>3, <1>4, <1>5, <1>6 DEF Next, Controller, Environment


(***************************************************************************)
(* The theorem.                                                            *)
(***************************************************************************)

\* When Order runs every reconciler, a converged controller has all
\* dependents fresh.
LEMMA CInvDeployed ==
    ASSUME InOrder = Reconcilers, CInv
    PROVE  ConvergedMeansDeployed
<1> SUFFICES ASSUME Converged, NEW k \in Dependents,
                    LC!Wanted(k, rdma, cluster["ParamsSecret"])
             PROVE  LC!DesiredFor(k, cluster[k], rdma, cluster["ParamsSecret"])
  BY DEF ConvergedMeansDeployed, DesiredStateHolds
<1>0. k \in LC!Caused
  BY DEF Dependents, LC!Caused, LC!Keys, Keys
<1>1. PICK r \in Reconcilers : k \in KeysOf(r)
  BY <1>0, KeysOfFacts
<1>2. PICK i \in 1..N : Order[i] = r
  BY <1>1 DEF InOrder
<1>3. FreshUpTo(N)
  BY DEF CInv
<1>4. QED
  BY <1>1, <1>2, <1>3 DEF FreshUpTo, Fresh

\* Whenever the controller is quiet after an error-free converge pass and
\* no watch event, requeue or crash has queued the GPUAddon since, every
\* dependent the current spec and parameters secret ask for holds its
\* desired object: the create-or-patch calls of the five reconcilers, the
\* NotConfigured and invalid-parameters early returns, and the pass's
\* short-circuit on the first error together never let an error-free pass
\* end with a dependent missing or stale.  It holds for any Order that runs
\* every reconciler once, in any sequence.
THEOREM ConvergedDeployed ==
    ASSUME InOrder = Reconcilers
    PROVE  Spec => []ConvergedMeansDeployed
<1>1. Init => CII
  BY InitIInv, InitRInv, InitCInv DEF CII, RII
<1>2. CII /\ [Next]_vars => CII'
  BY NextIInv, NextRInv, NextCInv DEF CII, RII
<1>3. CII => ConvergedMeansDeployed
  BY CInvDeployed DEF CII
<1>4. QED
  BY <1>1, <1>2, <1>3, PTL DEF Spec


(***************************************************************************)
(* The converge path stops at the first error.                             *)
(***************************************************************************)

\* Every Reconcile outcome returns one condition, whose reason is a failure
\* reason exactly when the call returned an error.
LEMMA ReconcileErrReason ==
    ASSUME NEW r \in Reconcilers, NEW st \in Store, NEW rd \in RdmaValues
    PROVE  \A o \in Reconcile(r, st, rd) :
               \E c \in Condition : o.conds = << c >> /\ (o.err <=> c.reason \in FailureReasons)
<1>1. CASE r = "NGCSecret"
  <2>1. \A x \in Reasons : NGCSecretCondition(x) \in Condition /\ NGCSecretCondition(x).reason = x
    BY DEF NGCSecretCondition, NewCondition, Condition, CondTypes
  <2>2. QED
    BY <1>1, <2>1 DEF Reconcile, NGCSecretReconcile, Outcome, Reasons, FailureReasons
<1>2. CASE r = "ClusterPolicy"
  <2>1. \A x \in Reasons : ClusterPolicyCondition(x) \in Condition /\ ClusterPolicyCondition(x).reason = x
    BY DEF ClusterPolicyCondition, NewCondition, Condition, CondTypes
  <2>2. QED
    BY <1>2, <2>1 DEF Reconcile, ClusterPolicyReconcile, Outcome, Reasons, FailureReasons
<1>3. CASE r = "NetworkOperator"
  <2>1. \A x \in Reasons : NetworkOperatorCondition(x) \in Condition /\ NetworkOperatorCondition(x).reason = x
    BY DEF NetworkOperatorCondition, NewCondition, Condition, CondTypes
  <2>2. QED
    BY <1>3, <2>1 DEF Reconcile, NetworkOperatorReconcile, Outcome, Reasons, FailureReasons
<1>4. CASE r \in {"NicClusterPolicy", "MacvlanNetwork"}
  <2>1. \A x \in Reasons : RdmaCondition(r, x) \in Condition /\ RdmaCondition(r, x).reason = x
    BY <1>4 DEF RdmaCondition, NewCondition, Condition, CondTypes, CondType, Reconcilers
  <2>2. \A o \in RdmaReconcile(r, r, st, rd) :
            \E c \in Condition : o.conds = << c >> /\ (o.err <=> c.reason \in FailureReasons)
    BY <2>1 DEF RdmaReconcile, Outcome, Reasons, FailureReasons
  <2>3. QED
    BY <1>4, <2>2 DEF Reconcile, NicClusterPolicyReconcile, MacvlanNetworkReconcile
<1>5. QED
  BY <1>1, <1>2, <1>3, <1>4 DEF Reconcilers

\* Appending one condition to the conditions gathered so far.
LEMMA AppendOne ==
    ASSUME NEW s \in Seq(Condition), NEW c \in Condition
    PROVE  /\ s \o << c >> \in Seq(Condition)
           /\ Len(s \o << c >>) = Len(s) + 1
           /\ \A i \in 1..Len(s) : (s \o << c >>)[i] = s[i]
           /\ (s \o << c >>)[Len(s) + 1] = c
<1>1. << c >> \in Seq(Condition) /\ Len(<< c >>) = 1 /\ << c >>[1] = c
  OBVIOUS
<1>2. QED
  BY <1>1, ConcatProperties

\* During a converge pass no gathered condition reports a failure.
PInv == pass = "converge" => \A i \in 1..Len(passConds) : passConds[i].reason \notin FailureReasons

\* The strengthening the theorem is proved from.
PII == Inv /\ PInv

LEMMA InitPInv == Init => PInv
BY DEF Init, PInv

\* A step of the converge path: the outcome it picks, and the condition it
\* appends.
LEMMA ConvergeStepFacts ==
    ASSUME Inv, ConvergeStep
    PROVE  \E o \in Reconcile(Order[step], cluster, passRdma) : \E c \in Condition :
              /\ o.conds = << c >>
              /\ (o.err <=> c.reason \in FailureReasons)
              /\ passConds' = passConds \o << c >>
              /\ Len(passConds) = step - 1
              /\ step \in 1..N
              /\ IF o.err \/ step = N
                 THEN /\ pass' = "none"
                      /\ lastPassOk' = ~o.err
                      /\ pending' = (pending \/ o.err)
                 ELSE /\ step' = step + 1
                      /\ pass' = pass
<1>1. step \in 1..N /\ Len(passConds) = step - 1 /\ pass = "converge"
  BY OrderFacts DEF ConvergeStep, Inv, IInv, TypeOK, CondsInv
<1>2. Order[step] \in Reconcilers /\ cluster \in Store /\ passRdma \in RdmaValues
  BY <1>1, OrderFacts DEF Inv, IInv, TypeOK
<1>3. PICK o \in Reconcile(Order[step], cluster, passRdma) :
          /\ passConds' = passConds \o o.conds
          /\ IF o.err \/ step = N
             THEN /\ pass' = "none"
                  /\ lastPassOk' = ~o.err
                  /\ pending' = (pending \/ o.err)
             ELSE /\ step' = step + 1
                  /\ pass' = pass
  BY DEF ConvergeStep
<1>4. PICK c \in Condition : o.conds = << c >> /\ (o.err <=> c.reason \in FailureReasons)
  BY <1>2, ReconcileErrReason
<1>5. QED
  BY <1>1, <1>3, <1>4

LEMMA NextPInv == PII /\ [Next]_vars => PInv'
<1> SUFFICES ASSUME PII, [Next]_vars PROVE PInv'
  OBVIOUS
<1>0. Inv /\ PInv /\ TypeOK
  BY DEF PII, Inv, IInv
<1>1. CASE ConvergeStep
  <2>1. PICK o \in Reconcile(Order[step], cluster, passRdma) : \E c \in Condition :
              /\ o.conds = << c >>
              /\ (o.err <=> c.reason \in FailureReasons)
              /\ passConds' = passConds \o << c >>
              /\ Len(passConds) = step - 1
              /\ step \in 1..N
              /\ IF o.err \/ step = N
                 THEN /\ pass' = "none"
                      /\ lastPassOk' = ~o.err
                      /\ pending' = (pending \/ o.err)
                 ELSE /\ step' = step + 1
                      /\ pass' = pass
    BY <1>0, <1>1, ConvergeStepFacts
  <2>2. PICK c \in Condition :
              /\ (o.err <=> c.reason \in FailureReasons)
              /\ passConds' = passConds \o << c >>
              /\ IF o.err \/ step = N THEN pass' = "none" ELSE pass' = pass
    BY <2>1
  <2>3. SUFFICES ASSUME pass' = "converge"
                 PROVE  \A i \in 1..Len(passConds') : passConds'[i].reason \notin FailureReasons
    BY DEF PInv
  <2>4. ~o.err /\ pass = "converge"
    BY <2>2, <2>3
  <2>5. passConds \in Seq(Condition)
    BY <1>0 DEF TypeOK
  <2>6. QED
    BY <1>0, <2>2, <2>4, <2>5, AppendOne DEF PInv
<1>2. CASE StartPass \/ Crash
  BY <1>2 DEF StartPass, Crash, PInv
<1>3. CASE TeardownStep
  BY <1>3 DEF TeardownStep, PInv
<1>4. CASE SetRdma \/ SetAddonParameters \/ RequestDeletion \/ OLMInstallCSV
  <2>1. UNCHANGED <<pass, passConds>>
    BY <1>4 DEF SetRdma, SetAddonParameters, RequestDeletion, OLMInstallCSV
  <2>2. QED
    BY <1>0, <2>1 DEF PInv
<1>5. CASE UNCHANGED vars
  BY <1>0, <1>5 DEF vars, PInv
<1>6. QED
  BY <1>1, <1>2, <1>3, <1>4, <1>5 DEF Next, Controller, Environment


\* A converge step that ends the pass ends it at the first failure or
\* after the last reconciler, with one condition per call.
LEMMA StopsAtFirstErrorStep ==
    ASSUME PII, TypeOK, ConvergeStep, pass' = "none"
    PROVE  /\ Len(passConds') = step
           /\ \A i \in 1..(step - 1) : passConds'[i].reason \notin FailureReasons
           /\ lastPassOk' = (passConds'[step].reason \notin FailureReasons)
           /\ lastPassOk' \/ pending'
<1>1. PICK o \in Reconcile(Order[step], cluster, passRdma) : \E c \in Condition :
            /\ o.conds = << c >>
            /\ (o.err <=> c.reason \in FailureReasons)
            /\ passConds' = passConds \o << c >>
            /\ Len(passConds) = step - 1
            /\ step \in 1..N
            /\ IF o.err \/ step = N
               THEN /\ pass' = "none"
                    /\ lastPassOk' = ~o.err
                    /\ pending' = (pending \/ o.err)
               ELSE /\ step' = step + 1
                    /\ pass' = pass
  BY ConvergeStepFacts DEF PII
<1>2. PICK c \in Condition :
            /\ (o.err <=> c.reason \in FailureReasons)
            /\ passConds' = passConds \o << c >>
            /\ Len(passConds) = step - 1
            /\ step \in 1..N
            /\ lastPassOk' = ~o.err
            /\ pending' = (pending \/ o.err)
  <2>1. pass = "converge"
    BY DEF ConvergeStep
  <2>2. QED
    BY <1>1, <2>1
<1>3. passConds \in Seq(Condition)
  BY DEF TypeOK
<1>4. \A i \in 1..Len(passConds) : passConds[i].reason \notin FailureReasons
  BY DEF ConvergeStep, PII, PInv
<1>5. /\ Len(passConds') = step
      /\ \A i \in 1..(step - 1) : passConds'[i] = passConds[i]
      /\ passConds'[step] = c
  BY <1>2, <1>3, AppendOne
<1>6. lastPassOk' = (passConds'[step].reason \notin FailureReasons)
  BY <1>2, <1>5
<1>7. lastPassOk' \/ pending'
  BY <1>2
<1>8. QED
  BY <1>2, <1>4, <1>5, <1>6, <1>7

\* The converge path of the Orchestrator stops at the first reconciler that
\* returns an error: a pass that ends through a reconciler call has gathered
\* exactly the conditions of the calls it made, the first failure (if any)
\* being the last of them; it is recorded as successful exactly when its
\* last call did not fail, and a failed pass is requeued.
THEOREM StopsAtFirstError == Spec => PassStopsAtFirstError
<1>1. Init => PII
  BY InitInv, InitPInv DEF PII
<1>2. PII /\ [Next]_vars => PII'
  <2>1. PII /\ [Next]_vars => Inv'
    BY NextIInv, NextCondsInv DEF PII, Inv
  <2>2. QED
    BY <2>1, NextPInv DEF PII
<1>3. PII /\ [Next]_vars =>
        [ConvergeStep /\ pass' = "none" =>
            /\ Len(passConds') = step
            /\ \A i \in 1..(step - 1) : passConds'[i].reason \notin FailureReasons
            /\ lastPassOk' = (passConds'[step].reason \notin FailureReasons)
            /\ lastPassOk' \/ pending']_vars
  BY StopsAtFirstErrorStep DEF PII, Inv, IInv
<1>4. QED
  BY <1>1, <1>2, <1>3, PTL DEF Spec, PassStopsAtFirstError

=============================================================================

-------------------------- MODULE GPUAddonController --------------------------
(***************************************************************************)
(* The reconciliation orchestrator of the GPUAddon parent and the world it *)
(* runs in.  The orchestrator (the GPUAddon controller, not among the      *)
(* repository's src/ files, so modelled from the spec) runs one pass per   *)
(* watch event or requeue: a converge pass calls Reconcile of every        *)
(* dependent-resource reconciler in Order, stops at the first error, and   *)
(* merges the conditions gathered so far into the parent's status; once   *)
(* the parent is marked for deletion a teardown pass calls Delete in the   *)
(* reverse order and removes the finalizer when all of them succeeded.     *)
(* The GPUAddon is fetched once, at the start of a pass, and every         *)
(* reconciler of the pass reads the RDMA spec from that copy.              *)
(* Each reconciler call is one atomic step; between two steps the          *)
(* environment acts: the user edits the RDMA spec and the parameters       *)
(* secret or deletes the parent, OLM installs the CSV of a subscription,   *)
(* and the operator process may crash and restart.  The garbage collector *)
(* is left out: every object that carries a controller reference is also  *)
(* deleted explicitly by some Delete, so it never has anything to collect *)
(* once the finalizer is removed.                                          *)
(***************************************************************************)
EXTENDS ResourceReconcilers

CONSTANTS
    Order,          \* the fixed order of the converge path
    NoCondition,    \* no condition of this type in the status
    MaxFaults,      \* bound on client faults and operator crashes
    MaxEnvChanges   \* bound on user edits of the spec and the parameters

N == Len(Order)

ASSUME ControllerAssumption ==
    /\ Order \in Seq(Reconcilers)
    /\ Order # << >>
    /\ \A i, j \in DOMAIN Order : Order[i] = Order[j] => i = j
    /\ NoCondition \notin Condition
    /\ MaxFaults \in Nat
    /\ MaxEnvChanges \in Nat

VARIABLES
    cluster,       \* the cluster object store
    rdma,          \* GPUAddon.Spec.RDMA
    passRdma,      \* Spec.RDMA of the GPUAddon fetched at the start of the pass
    deleting,      \* the GPUAddon has a deletion timestamp
    parentExists,  \* the GPUAddon still exists (its finalizer is on)
    pass,          \* "none", or the kind of the pass in progress
    step,          \* index in Order of the next call of the pass
    passConds,     \* conditions returned so far in this pass
    status,        \* GPUAddon.Status.Conditions, by type
    pending,       \* a watch event or a requeue is queued
    lastPassOk,    \* the last finished converge pass returned no error
    faults,        \* client faults and crashes so far
    envChanges     \* user edits so far

vars == <<cluster, rdma, passRdma, deleting, parentExists, pass, step, passConds, status,
          pending, lastPassOk, faults, envChanges>>

TypeOK ==
    /\ cluster \in Store
    /\ cluster["ParamsSecret"] \in ParamsValues
    /\ rdma \in RdmaValues
    /\ passRdma \in RdmaValues
    /\ deleting \in BOOLEAN
    /\ parentExists \in BOOLEAN
    /\ pass \in {"none", "converge", "teardown"}
    /\ step \in 0..N
    /\ passConds \in Seq(Condition)
    /\ status \in [CondTypes -> Condition \cup {NoCondition}]
    /\ pending \in BOOLEAN
    /\ lastPassOk \in BOOLEAN
    /\ faults \in 0..MaxFaults
    /\ envChanges \in 0..MaxEnvChanges

\* A new GPUAddon in a cluster where none of its dependents exists yet.
Init ==
    /\ \E params \in ParamsValues : cluster = EmptyStore(params)
    /\ rdma \in RdmaValues
    /\ passRdma = rdma
    /\ deleting = FALSE
    /\ parentExists = TRUE
    /\ pass = "none"
    /\ step = 0
    /\ passConds = <<>>
    /\ status = [t \in CondTypes |-> NoCondition]
    /\ pending = TRUE
    /\ lastPassOk = FALSE
    /\ faults = 0
    /\ envChanges = 0

\* meta.SetStatusCondition for each returned condition in turn: a condition
\* replaces the one of its type in the status.  A pass returns at most one
\* condition of each type (OneConditionPerType), so the order of the calls
\* does not matter and the condition of type t is the one returned.
SetStatusConditions(st, conds) ==
    [t \in CondTypes |->
        IF \E i \in DOMAIN conds : conds[i].type = t
        THEN conds[CHOOSE i \in DOMAIN conds : conds[i].type = t]
        ELSE st[t]]

\* A faulty outcome is possible only while the fault budget lasts.
Allowed(o) == o.fault => faults < MaxFaults
Charge(o) == faults + (IF o.fault THEN 1 ELSE 0)

(***************************************************************************)
(* The orchestrator.                                                       *)
(***************************************************************************)

\* The controller dequeues and fetches the GPUAddon: a teardown pass if it
\* is being deleted, a converge pass otherwise.
StartPass ==
    /\ parentExists
    /\ pending
    /\ pass = "none"
    /\ pass' = IF deleting THEN "teardown" ELSE "converge"
    /\ step' = 1
    /\ passConds' = <<>>
    /\ passRdma' = rdma
    /\ pending' = FALSE
    /\ UNCHANGED <<cluster, rdma, deleting, parentExists, status, lastPassOk,
                   faults, envChanges>>

\* Mutant: the pass goes on after a reconciler returned an error (the early
\* return of the converge loop dropped).
ConvergeStepNoShortCircuit ==
    /\ pass = "converge"
    /\ \E o \in Reconcile(Order[step], cluster, passRdma) :
        /\ Allowed(o)
        /\ cluster' = o.store
        /\ faults' = Charge(o)
        /\ passConds' = passConds \o o.conds
        /\ IF step = N
           THEN /\ pass' = "none"
                /\ step' = 0
                /\ status' = SetStatusConditions(status, passConds')
                /\ lastPassOk' = ~o.err
                /\ pending' = (pending \/ o.err)
           ELSE /\ step' = step + 1
                /\ UNCHANGED <<pass, status, lastPassOk, pending>>
    /\ UNCHANGED <<rdma, passRdma, deleting, parentExists, envChanges>>

\* Reconcile of Order[step] on the GPUAddon fetched at the start of the
\* pass; its conditions are appended.  On an error, or
\* after the last reconciler, the pass ends and the conditions gathered are
\* written into the status; an error requeues the GPUAddon.
ConvergeStep ==
    /\ pass = "converge"
    /\ \E o \in Reconcile(Order[step], cluster, passRdma) :
        /\ Allowed(o)
        /\ cluster' = o.store
        /\ faults' = Charge(o)
        /\ passConds' = passConds \o o.conds
        /\ IF o.err \/ step = N
           THEN /\ pass' = "none"
                /\ step' = 0
                /\ status' = SetStatusConditions(status, passConds')
                /\ lastPassOk' = ~o.err
                /\ pending' = (pending \/ o.err)
           ELSE /\ step' = step + 1
                /\ UNCHANGED <<pass, status, lastPassOk, pending>>
    /\ UNCHANGED <<rdma, passRdma, deleting, parentExists, envChanges>>

\* Delete of Order[N + 1 - step].  An error ends the pass and requeues;
\* after the first reconciler of Order the finalizer is removed.
TeardownStep ==
    /\ pass = "teardown"
    /\ \E o \in Delete(Order[N + 1 - step], cluster) :
        /\ Allowed(o)
        /\ cluster' = o.store
        /\ faults' = Charge(o)
        /\ IF o.err \/ step = N
           THEN /\ pass' = "none"
                /\ step' = 0
                /\ pending' = (pending \/ o.err)
                /\ parentExists' = o.err
           ELSE /\ step' = step + 1
                /\ UNCHANGED <<pass, pending, parentExists>>
    /\ UNCHANGED <<rdma, passRdma, deleting, passConds, status, lastPassOk, envChanges>>

\* The operator process dies in the middle of a pass.  On restart the
\* informer lists the GPUAddon again, which queues it.
Crash ==
    /\ pass # "none"
    /\ faults < MaxFaults
    /\ faults' = faults + 1
    /\ pass' = "none"
    /\ step' = 0
    /\ passConds' = <<>>
    /\ pending' = TRUE
    /\ UNCHANGED <<cluster, rdma, passRdma, deleting, parentExists, status, lastPassOk,
                   envChanges>>

(***************************************************************************)
(* The environment.                                                        *)
(***************************************************************************)

\* The user changes GPUAddon.Spec.RDMA (a watch event).
SetRdma ==
    /\ parentExists /\ ~deleting
    /\ envChanges < MaxEnvChanges
    /\ \E r \in RdmaValues \ {rdma} : rdma' = r
    /\ envChanges' = envChanges + 1
    /\ pending' = TRUE
    /\ UNCHANGED <<cluster, passRdma, deleting, parentExists, pass, step, passConds,
                   status, lastPassOk, faults>>

\* The user (the add-on installer) creates, edits or removes the add-on
\* parameters secret; the controller is assumed to watch it.
SetAddonParameters ==
    /\ parentExists /\ ~deleting
    /\ envChanges < MaxEnvChanges
    /\ \E p \in ParamsValues \ {cluster["ParamsSecret"]} :
           cluster' = [cluster EXCEPT !["ParamsSecret"] = p]
    /\ envChanges' = envChanges + 1
    /\ pending' = TRUE
    /\ UNCHANGED <<rdma, passRdma, deleting, parentExists, pass, step, passConds,
                   status, lastPassOk, faults>>

\* The user deletes the GPUAddon: the API server sets its deletion
\* timestamp and keeps it while the finalizer is on.
RequestDeletion ==
    /\ parentExists /\ ~deleting
    /\ deleting' = TRUE
    /\ pending' = TRUE
    /\ UNCHANGED <<cluster, rdma, passRdma, parentExists, pass, step, passConds,
                   status, lastPassOk, faults, envChanges>>

\* OLM resolves the subscription and installs the network-operator CSV.
OLMInstallCSV ==
    /\ cluster["Subscription"] # Absent
    /\ cluster["CSV"] = Absent
    /\ cluster' = CreateOrPatch(cluster, "CSV", [owned |-> FALSE, data |-> [spec |-> "CSV"]])
    /\ UNCHANGED <<rdma, passRdma, deleting, parentExists, pass, step, passConds,
                   status, pending, lastPassOk, faults, envChanges>>

Controller == StartPass \/ ConvergeStep \/ TeardownStep

Environment == SetRdma \/ SetAddonParameters \/ RequestDeletion \/ OLMInstallCSV

Next == Controller \/ Crash \/ Environment

\* The controller's work queue is served, and OLM is a controller that
\* eventually acts; the user is not fair.
Fairness ==
    /\ WF_vars(Controller)
    /\ WF_vars(OLMInstallCSV)

Spec == Init /\ [][Next]_vars /\ Fairness

(***************************************************************************)
(* Properties.                                                             *)
(***************************************************************************)

\* The parent's lifecycle phase: Live, Deleting (deletion timestamp set)
\* or Gone (finalizer removed).
Phase == IF ~parentExists THEN "Gone" ELSE IF deleting THEN "Deleting" ELSE "Live"

\* The promise the controller is checked to implement (AddonLifecycle): the
\* store is the cluster, the spec is GPUAddon.Spec.RDMA and the spec the
\* controller acts on is the one of the GPUAddon it fetched last.
LC == INSTANCE AddonLifecycle WITH objects <- cluster, observed <- passRdma,
                                   phase <- Phase

\* The desired state of the dependents for the current spec and parameters:
\* every wanted dependent holds a desired object.
DesiredStateHolds ==
    \A k \in Dependents :
        LC!Wanted(k, rdma, cluster["ParamsSecret"]) =>
            LC!DesiredFor(k, cluster[k], rdma, cluster["ParamsSecret"])

\* The controller is quiet after a converge pass that returned no error.
Converged == pass = "none" /\ ~pending /\ lastPassOk /\ ~deleting

\* Whenever the controller is quiet after an error-free pass and nothing
\* changed since, every dependent matches the current GPUAddon spec and
\* parameters secret: the reconcilers' create-or-patch calls, the early
\* returns of the NGC secret and RDMA guards and the pass's short-circuit
\* never let an error-free pass leave an object missing or stale.
ConvergedMeansDeployed == Converged => DesiredStateHolds

\* Once the GPUAddon is gone, every object the operator or OLM created for
\* it that is still in the cluster carries its controller reference, so
\* the garbage collector removes it: the cluster-scoped ClusterPolicy,
\* NicClusterPolicy, MacvlanNetwork, resources Namespace and the CSV, which
\* cannot be owned, were all deleted by the teardown path (the Delete
\* methods, and the subscription-before-CSV order of the network operator's).
NoOrphanAfterTeardown ==
    ~parentExists =>
        \A k \in Keys \ {"ParamsSecret"} : cluster[k] # Absent => cluster[k].owned

\* Every step of the controller, of OLM and of the user is a step of the
\* lifecycle promise or leaves it unchanged: reconcilers write only wanted
\* dependents and only their desired objects for the spec of the GPUAddon
\* fetched at the start of the pass (a stale one after a mid-pass edit,
\* which the edit's event repairs); Delete methods remove objects only once the parent is being
\* deleted; the finalizer is removed only when the teardown left nothing
\* behind, the CSV OLM keeps reinstalling included.
ImplementsLifecycle == LC!ASpec

\* The reasons of the conditions a reconciler returns together with an error.
FailureReasons == {"Failed", "FetchCrFailed", "CreateCrFailed",
                   "FetchAddonParametersFailed", "FetchSecretFailed", "CreateSecretFailed"}

\* A converge pass that ends through a reconciler call ends at the first
\* reconciler that returned an error, or after the last one: it has gathered
\* exactly one condition per call made, none but the last reporting a
\* failure; it is recorded as successful exactly when the last call did not
\* fail, and a failed pass is requeued.  This is the Orchestrator's early
\* return and the per-step condition append of the converge path.
PassStopsAtFirstError ==
    [][ConvergeStep /\ pass' = "none" =>
          /\ Len(passConds') = step
          /\ \A i \in 1..(step - 1) : passConds'[i].reason \notin FailureReasons
          /\ lastPassOk' = (passConds'[step].reason \notin FailureReasons)
          /\ lastPassOk' \/ pending']_vars

\* Once the user stops editing and the faults are spent, the controller
\* reaches an error-free quiet state (or the parent is being deleted):
\* every reconciler's Reconcile eventually succeeds when retried.
ConvergesWhenQuiet == <>[](Converged \/ deleting)

\* Every condition a converge pass gathers carries the condition type of the
\* reconciler that returned it, so merging by type into the status
\* overwrites that reconciler's previous condition and no other.
ConditionTypeMatchesStep ==
    \A i \in DOMAIN passConds : passConds[i].type = CondType[Order[i]]

\* A converge pass gathers at most one condition of each type, so merging
\* its conditions into the status does not depend on their order.
OneConditionPerType ==
    \A i, j \in DOMAIN passConds : passConds[i].type = passConds[j].type => i = j

\* The MacvlanNetwork a converged controller leaves behind attaches to the
\* host interface the user named: RDMASpec.MacvlanNetwork.Master is
\* documented as "the host interface to be used" (gpuaddon_types.go), and
\* setDesiredMacvlanNetwork is what would have to carry it over.
MacvlanUsesRequestedMaster ==
    Converged /\ rdma # NoRdma =>
        cluster["MacvlanNetwork"].data.master = rdma.macvlanNetwork.master

\* A GPUAddon marked for deletion is eventually gone: the teardown path's
\* Delete calls succeed when retried and the finalizer is removed.
DeletionCompletes == deleting ~> ~parentExists

=============================================================================

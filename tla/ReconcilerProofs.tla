-------------------------- MODULE ReconcilerProofs --------------------------
(***************************************************************************)
(* The contract of the dependent-resource reconcilers, for every value of  *)
(* the constants: Reconcile is idempotent, and Delete of objects that are  *)
(* already gone succeeds, except for the network operator's, whose CSV     *)
(* lookup fails when no CSV exists.                                        *)
(***************************************************************************)
EXTENDS LifecycleRefinementProofs

\* Deleting an absent object leaves the store as it is.
LEMMA DeleteAbsent ==
    ASSUME NEW st \in Store, NEW k \in Keys, st[k] = Absent
    PROVE  DeleteObject(st, k) = st
BY DEF DeleteObject, Store

(***************************************************************************)
(* Idempotence of Reconcile.                                               *)
(***************************************************************************)

LEMMA NGCSecretIdempotent ==
    ASSUME NEW st \in Store,
           NEW o1 \in NGCSecretReconcile(st), ~o1.err,
           NEW o2 \in NGCSecretReconcile(o1.store), ~o2.err
    PROVE  o2.store = o1.store
<1> DEFINE aps == st["ParamsSecret"]
           new == [st EXCEPT !["NGCSecret"] = SetDesiredNGCSecret(aps)]
<1>1. CASE aps = Absent \/ ~IsAddonParametersSecretValid(aps)
  <2>1. o1.store = st
    BY <1>1 DEF NGCSecretReconcile, Outcome
  <2>2. QED
    BY <1>1, <2>1 DEF NGCSecretReconcile, Outcome
<1>2. CASE aps # Absent /\ IsAddonParametersSecretValid(aps)
  <2>1. o1.store = new
    BY <1>2 DEF NGCSecretReconcile, Outcome
  <2>2. new["ParamsSecret"] = aps /\ new["NGCSecret"] = SetDesiredNGCSecret(aps)
    BY DEF Store, Keys
  <2>3. [new EXCEPT !["NGCSecret"] = SetDesiredNGCSecret(aps)] = new
    BY DEF Store, Keys
  <2>4. QED
    BY <1>2, <2>1, <2>2, <2>3 DEF NGCSecretReconcile, Outcome
<1>3. QED
  BY <1>1, <1>2

LEMMA ClusterPolicyIdempotent ==
    ASSUME NEW st \in Store,
           NEW o1 \in ClusterPolicyReconcile(st), ~o1.err,
           NEW o2 \in ClusterPolicyReconcile(o1.store), ~o2.err
    PROVE  o2.store = o1.store
<1> DEFINE full(s) == ReconcileClusterPolicy(ReconcileDcgmExporterConfigMap(s))
<1>1. o1.store = full(st) /\ o2.store = full(o1.store)
  BY DEF ClusterPolicyReconcile, Outcome
<1>2. full(st) = [st EXCEPT !["DcgmConfigMap"] = SetDesiredDcgmExporterConfigMap,
                            !["ClusterPolicy"] = SetDesiredClusterPolicy]
  BY DEF ReconcileClusterPolicy, ReconcileDcgmExporterConfigMap, CreateOrPatch
<1>3. full(full(st)) = full(st)
  BY <1>2 DEF ReconcileClusterPolicy, ReconcileDcgmExporterConfigMap, CreateOrPatch, Store, Keys
<1>4. QED
  BY <1>1, <1>3

LEMMA NetworkOperatorIdempotent ==
    ASSUME NEW st \in Store,
           NEW o1 \in NetworkOperatorReconcile(st), ~o1.err,
           NEW o2 \in NetworkOperatorReconcile(o1.store), ~o2.err
    PROVE  o2.store = o1.store
<1> DEFINE full(s) == ReconcileNamespace(ReconcileSubscription(s))
<1>1. o1.store = full(st) /\ o2.store = full(o1.store)
  BY DEF NetworkOperatorReconcile, Outcome
<1>2. full(st) = [st EXCEPT !["Subscription"] = SetDesiredSubscription,
                            !["ResourcesNamespace"] = SetDesiredNamespace]
  BY DEF ReconcileNamespace, ReconcileSubscription, CreateOrPatch
<1>3. full(full(st)) = full(st)
  BY <1>2 DEF ReconcileNamespace, ReconcileSubscription, CreateOrPatch, Store, Keys
<1>4. QED
  BY <1>1, <1>3

LEMMA RdmaIdempotent ==
    ASSUME NEW r \in {"NicClusterPolicy", "MacvlanNetwork"}, NEW st \in Store, NEW rd,
           NEW o1 \in RdmaReconcile(r, r, st, rd), ~o1.err,
           NEW o2 \in RdmaReconcile(r, r, o1.store, rd), ~o2.err
    PROVE  o2.store = o1.store
<1>1. CASE rd = NoRdma
  BY <1>1 DEF RdmaReconcile, Outcome
<1>2. CASE rd # NoRdma
  <2> DEFINE obj == SetDesiredRdmaCr(r, rd)
  <2>1. o1.store = CreateOrPatch(st, r, obj) /\ o2.store = CreateOrPatch(o1.store, r, obj)
    BY <1>2 DEF RdmaReconcile, Outcome
  <2>2. CreateOrPatch(CreateOrPatch(st, r, obj), r, obj) = CreateOrPatch(st, r, obj)
    BY DEF CreateOrPatch, Store, Keys
  <2>3. QED
    BY <2>1, <2>2
<1>3. QED
  BY <1>1, <1>2

\* Calling Reconcile twice in succession with no change to the parent spec
\* (or anything else) in between leaves the cluster as the first call
\* left it, when both calls return no error: every reconciler's
\* create-or-patch writes a desired object that depends only on the spec
\* and the parameters secret, which no reconciler writes.
THEOREM ReconcileIdempotent ==
    ASSUME NEW r \in Reconcilers, NEW st \in Store, NEW rd,
           NEW o1 \in Reconcile(r, st, rd), ~o1.err,
           NEW o2 \in Reconcile(r, o1.store, rd), ~o2.err
    PROVE  o2.store = o1.store
<1>1. CASE r = "NGCSecret"
  BY <1>1, NGCSecretIdempotent DEF Reconcile
<1>2. CASE r = "ClusterPolicy"
  BY <1>2, ClusterPolicyIdempotent DEF Reconcile
<1>3. CASE r = "NetworkOperator"
  BY <1>3, NetworkOperatorIdempotent DEF Reconcile
<1>4. CASE r = "NicClusterPolicy"
  BY <1>4, RdmaIdempotent DEF Reconcile, NicClusterPolicyReconcile
<1>5. CASE r = "MacvlanNetwork"
  BY <1>5, RdmaIdempotent DEF Reconcile, MacvlanNetworkReconcile
<1>6. QED
  BY <1>1, <1>2, <1>3, <1>4, <1>5 DEF Reconcilers


(***************************************************************************)
(* Delete of what is already gone.                                         *)
(***************************************************************************)

\* A Delete outcome in which no client call failed.
Clean(o) == ~o.fault

\* Delete of reconciler r on a store without r's objects: every call whose
\* client calls succeed returns no error and leaves the store as it is.
LEMMA AbsentDeleteOk ==
    ASSUME NEW r \in Reconcilers \ {"NetworkOperator"}, NEW st \in Store, Cleared(r, st)
    PROVE  /\ \A o \in Delete(r, st) : Clean(o) => ~o.err /\ o.store = st
           /\ \E o \in Delete(r, st) : Clean(o)
<1>1. CASE r = "NGCSecret"
  <2>1. DeleteObject(st, "NGCSecret") = st
    BY <1>1, DeleteAbsent DEF Cleared, KeysOf, Keys
  <2>2. Delete(r, st) = NGCSecretDelete(st)
    BY <1>1 DEF Delete
  <2>3. QED
    BY <2>1, <2>2 DEF NGCSecretDelete, Deleted, Clean
<1>2. CASE r = "ClusterPolicy"
  <2>1. DeleteObject(st, "ClusterPolicy") = st /\ DeleteObject(st, "DcgmConfigMap") = st
    BY <1>2, DeleteAbsent DEF Cleared, KeysOf, Keys
  <2>2. Delete(r, st) = ClusterPolicyDelete(st)
    BY <1>2 DEF Delete
  <2>3. QED
    BY <2>1, <2>2 DEF ClusterPolicyDelete, Deleted, Clean
<1>3. CASE r \in {"NicClusterPolicy", "MacvlanNetwork"}
  <2>1. DeleteObject(st, r) = st
    BY <1>3, DeleteAbsent DEF Cleared, KeysOf, Keys
  <2>2. Delete(r, st) = SingleDelete(r, st)
    BY <1>3 DEF Delete, NicClusterPolicyDelete, MacvlanNetworkDelete
  <2>3. QED
    BY <2>1, <2>2 DEF SingleDelete, Deleted, Clean
<1>4. QED
  BY <1>1, <1>2, <1>3 DEF Reconcilers

\* Delete treats an object that is already absent as deleted: on a store
\* without its objects, the Delete of the NGC secret, ClusterPolicy,
\* NicClusterPolicy and MacvlanNetwork reconcilers succeeds whenever the
\* client does, and changes nothing; so a second Delete after a successful
\* one succeeds too.  The network operator's is the exception (below).
THEOREM DeleteIdempotent ==
    ASSUME NEW r \in Reconcilers \ {"NetworkOperator"}, NEW st \in Store,
           NEW o1 \in Delete(r, st), ~o1.err
    PROVE  /\ \A o2 \in Delete(r, o1.store) : Clean(o2) => ~o2.err /\ o2.store = o1.store
           /\ \E o2 \in Delete(r, o1.store) : Clean(o2)
<1>1. RemovesOwn(r, o1, st)
  BY DeleteRemoves
<1>2. Cleared(r, o1.store)
  BY <1>1 DEF RemovesOwn
<1>3. o1.store \in Store
  BY DeleteTyped DEF DeleteOk, DeleteOutcome
<1>4. QED
  BY <1>2, <1>3, AbsentDeleteOk

\* The network operator's Delete fails on every call once the CSV is gone:
\* deleteCSV returns the error of GetCsvWithPrefix when no CSV matches, so
\* a second Delete after a successful one, or a Delete before OLM installed
\* the CSV, never succeeds, against the contract that deleting an absent
\* object is a success (spec.md, section 8).
THEOREM NetworkOperatorDeleteNotIdempotent ==
    ASSUME NEW st \in Store, st["CSV"] = Absent
    PROVE  \A o \in NetworkOperatorDelete(st) : o.err
<1> DEFINE noSub == DeleteObject(st, "Subscription")
<1>1. noSub["CSV"] = Absent
  BY DEF DeleteObject, Store, Keys
<1>2. \A p \in DeleteCSV(noSub) : p.err
  BY <1>1 DEF DeleteCSV, Deleted
<1>3. QED
  BY <1>2 DEF NetworkOperatorDelete, Deleted

=============================================================================

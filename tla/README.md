# Formal models of the NVIDIA GPU add-on operator

This directory holds TLA+ models of the reconcilers in `src/`, the TLC
configurations that model-check them, and TLAPS proofs about them.

## The system

The operator manages one parent resource, a `GPUAddon`
(`src/api/v1alpha1/gpuaddon_types.go`). Its controller runs a fixed sequence of
*dependent-resource reconcilers*. Each one implements
`Reconcile(ctx, client, gpuAddon) ([]Condition, error)` and
`Delete(ctx, client) error`:

| reconciler (src/controllers/...) | objects it writes | owner reference |
|---|---|---|
| `gpuaddon/ngcsecret_resource_reconciler.go` | `ngc-secret`, built from the user's `addon-nvidia-gpu-addon-parameters` secret | yes |
| `gpuaddon/clusterpolicy_resource_reconciler.go` | `custom-dcgm-metrics` ConfigMap, then the cluster-scoped `ClusterPolicy` | ConfigMap yes, ClusterPolicy no (line 245, commented out) |
| `networkoperator_resource_reconciler.go` | the network-operator OLM `Subscription`, then the resources `Namespace` | Subscription yes, Namespace no |
| `nicclusterpolicy_resource_reconciler.go` | the cluster-scoped `NicClusterPolicy`, only when `Spec.RDMA != nil` | no |
| `macvlannetwork_resource_reconciler.go` | the cluster-scoped `MacvlanNetwork`, only when `Spec.RDMA != nil` | no |

Every step is a `Get` followed by `controllerutil.CreateOrPatch`. Every client
call can fail, and a failure returns the step's error together with a failure
condition.

The reconcilers interact through their caller, the GPUAddon controller. It is
not among the `src/` files, so it is modelled from `spec.md`. The controller:

- fetches the GPUAddon once per pass and hands that copy to every
  reconciler of the pass (the NicClusterPolicy and MacvlanNetwork reconcilers
  read `gpuAddon.Spec.RDMA` from it: nicclusterpolicy lines 53 and 117,
  macvlan lines 55 and 116), so an edit made during a pass is seen only by the
  next pass;
- runs the reconcilers in order;
- stops at the first error and requeues;
- merges the returned conditions into `Status.Conditions` by type;
- on deletion, calls `Delete` in reverse order and removes its finalizer when
  every call has succeeded.

Objects with an owner reference would be removed by the Kubernetes garbage
collector once the parent is gone. The others must be deleted explicitly.
In this code every owned object is also deleted explicitly by some `Delete`,
so the garbage collector never has anything left to collect, and the model
leaves it out.
OLM installs a ClusterServiceVersion (CSV) for the Subscription. The network
operator's `Delete` removes that CSV too, through `common.GetCsvWithPrefix`.

## Modules

- **`GPUAddonSpec.tla`** models the RDMA part of the API types in
  `gpuaddon_types.go` and the two functions that render it.
  - `Selectors`, `DeviceSpec`, `IPAMSpec`, `MacvlanNetworkSpec` and `RDMASpec`
    are the Go structs as record sets.
  - `RdmaValues` models `Spec.RDMA`, which is a pointer: `NoRdma` (nil), or
    one of `RdmaConfigs`.
  - `RdmaSharedDevicePluginConfig` is `getK8sRdmaSharedDevicePluginConfig`:
    one `UserConfig` per device, with its resource name, its interface
    selectors and `rdmaHcaMax = 1000`.
  - `MacvlanNetworkIPAMConfig` is `getMacvlanNetworkIPAMConfig`: a whereabouts
    IPAM with the spec's range and omitted ranges.
  - `json.Marshal` is injective on these values, so the model keeps the record
    the JSON string encodes. It cannot fail on them, so its error path is
    never taken.
- **`ClusterStore.tla`** models the object store. It maps each object key to
  `Absent` or an object `[owned, data]`.
  - `owned` records whether the object carries the controller reference.
  - `data` is what the object's desired-state function wrote. It is one of:
    - the credentials;
    - a NicClusterPolicy spec with its rendered device-plugin config;
    - a MacvlanNetwork spec with its master and rendered IPAM;
    - a fixed literal for the ConfigMap, ClusterPolicy, Subscription,
      Namespace and CSV.
  - `CreateOrPatch` and `DeleteObject` model the client calls.
- **`ResourceReconcilers.tla`** models the five reconcilers, one definition per
  Go function.
  - A `Reconcile` or `Delete` call is the **set of its possible outcomes**.
    An outcome records the store afterwards, the conditions returned, `err`,
    and `fault`.
  - `fault` marks the outcomes in which a client call failed. Which call fails
    is a nondeterministic choice, so every early return of the code is an
    outcome.
  - Errors the code produces from the store itself (no CSV to delete) have
    `err` without `fault`.
  - The `getDeployedCondition*` helpers are kept with their condition type,
    status and reason.
  - The `setDesired*` functions give the object they write. The
    NicClusterPolicy and MacvlanNetwork ones call the renderers of
    `GPUAddonSpec`. The MacvlanNetwork master is the literal `"ens2f0np0"` of
    line 114. The image, mtu and mode literals are left out.
- **`GPUAddonController.tla`** models the orchestrator and its environment.
  - Orchestrator actions:
    - `StartPass`: a queued event starts a converge or teardown pass; the
      GPUAddon is fetched, and its RDMA spec is kept in `passRdma`.
    - `ConvergeStep`: one `Reconcile` call, on the spec in `passRdma` (the
      live `rdma` may have changed since).
    - `TeardownStep`: one `Delete` call.
  - `Crash` kills the operator mid-pass; on restart the parent is queued again.
  - User actions: `SetRdma`, `SetAddonParameters` and `RequestDeletion`.
  - Another controller: `OLMInstallCSV`.
  - Client faults and crashes share the budget `MaxFaults`; user edits are
    bounded by `MaxEnvChanges`.
  - It also holds the refinement mapping to `AddonLifecycle` (`Phase`, `LC`).
- **`AddonLifecycle.tla`** is the abstract specification: what the operator
  promises about the dependents, without passes, conditions, faults or
  retries. The parent is `Live`, `Deleting` or `Gone`; `observed` is the spec
  as the controller last fetched it. Its actions:
  - `Observe`: the controller fetches the parent and takes in its spec.
  - `Write`: some dependents are set. Each one must be *wanted* (the NGC
    secret only with valid parameters, the RDMA objects only with an RDMA
    spec) and must be a *desired* object for the `observed` spec and the
    current parameters. For the NicClusterPolicy that means the requested devices;
    for the MacvlanNetwork, the requested IPAM.
  - `Remove`: while `Deleting`, dependents and the CSV are removed. The parent
    becomes `Gone` only when all of them are absent.
  - `InstallCSV`: OLM's step.
  - `Edit` and `DeleteParent`: the user's steps, only while `Live`.
- **`MC_GPUAddonController.tla`** instantiates the model for TLC. `Order` runs
  the NGC secret, ClusterPolicy, network operator, NicClusterPolicy and
  MacvlanNetwork reconcilers, in that order. There are two RDMA specs:
  - `MCRdma1`: one device; the master `ens2f0np0` is what the code writes.
  - `MCRdma2`: two devices, an omitted range, and the master `ens3f0np0`.
- **`GPUAddonControllerProofs.tla`**, **`LifecycleRefinementProofs.tla`**,
  **`ConvergenceProofs.tla`** and **`ReconcilerProofs.tla`** hold the TLAPS
  proofs. Each one extends the one before it.

### Refinement mapping

`LC == INSTANCE AddonLifecycle WITH objects <- cluster, observed <- passRdma,
phase <- Phase`. `Phase` is:

- `Gone` when the finalizer is removed;
- else `Deleting` when the parent has a deletion timestamp;
- else `Live`.

The controller's other variables (pass, step, conditions, status, queue,
budgets) are hidden. `StartPass` maps to `Observe`. A converge step maps to
`Write` or to a stutter: after an edit during the pass it writes objects for
the spec fetched at the start of the pass, which `Write` allows because
`observed` is that spec. A teardown step maps to `Remove`, the finalizer
removal of the last one included. The user's steps map to `Edit` and
`DeleteParent`, and `OLMInstallCSV` maps to `InstallCSV`. The garbage
collector is not modelled (see above), so no step of the model maps to it.

## Runs

| run | cfg | expect | what it shows |
|---|---|---|---|
| controller | `MC_GPUAddonController.cfg` | pass (1.29M states, about 1.5 min) | `TypeOK`; `ConvergedMeansDeployed`: a quiet, error-free controller has every dependent in the desired state for the current spec and parameters; `NoOrphanAfterTeardown`: once the parent is gone, every object left is owned (so the garbage collector would take it); `OneConditionPerType`; `ConvergesWhenQuiet`: once edits and faults stop, the controller converges; `ImplementsLifecycle`: every behaviour is one of `AddonLifecycle` (every write is desired for the spec fetched at the start of its pass and the current parameters); `PassStopsAtFirstError`: a converge pass that ends through a reconciler call has one condition per call made, only the last of which may be a failure, and is recorded as successful exactly when that call succeeded (a failed pass is requeued) |
| condition_type | `MC_ConditionTypeMatchesStep.cfg` | violation | the NGC secret's create-failed condition has type `SubscriptionDeployed` (line 241) |
| deletion_completes | `MC_DeletionCompletes.cfg` | violation | deleting a GPUAddon whose network-operator CSV is missing never completes: `deleteCSV` fails on every retry (line 256) |
| macvlan_master | `MC_MacvlanUsesRequestedMaster.cfg` | violation | with an RDMA spec naming `ens3f0np0`, the converged MacvlanNetwork is on `ens2f0np0` (macvlan line 114) |

### Bounds

Why the bounds of the passing run are enough:

- There are two RDMA configurations and two credential values, so an object
  left stale by an edit is told apart from a fresh one.
- The two RDMA configurations differ in the number of devices (one and two),
  in the range and in the omitted ranges. This lets a rendering that drops or
  reorders a device, or drops a field, be seen.
- `MaxFaults = 2` lets one pass fail and the retry fail again, or a crash
  happen after a fault.
- `MaxEnvChanges = 2` covers an edit before the first pass and another one in
  the middle of a pass.

The violation runs use one value of each, because that is all their traces
need.

`CHECK_DEADLOCK FALSE` is set because, once the finalizer is removed, there is
nothing left for anyone to do.

### Fairness

Weak fairness is assumed for two things:

- the controller's work queue, because controller-runtime serves a queued item;
- OLM installing the CSV.

Nothing is assumed of the user. Faults and edits are bounded, so the liveness
properties speak about the time after the last of them.

### Mutants

Each property of the passing run is broken by one plausible code change:

| property | mutated definition | the change |
|---|---|---|
| `TypeOK` | `NGCSecretCondition` | the wrong type name |
| `ConvergedMeansDeployed` | `RdmaReconcile` | create-only instead of create-or-patch |
| `NoOrphanAfterTeardown` | `ClusterPolicyDelete` | a swallowed delete error |
| `ConvergesWhenQuiet` | `NGCSecretReconcile` | invalid parameters returned as an error |
| `OneConditionPerType` | `ClusterPolicyCondition` | a condition type copied from another reconciler |
| `ImplementsLifecycle` | `RdmaSharedDevicePluginConfig` | the loop over the devices stops one short |
| `PassStopsAtFirstError` | `ConvergeStep` | the early return on a reconciler error dropped |

## Findings

1. **Wrong condition type.**
   `ngcsecret_resource_reconciler.go:241` reports a failed ngc-secret write
   under `SubscriptionDeployed`. It overwrites another step's condition and
   leaves a stale `NGCSecretDeployed` success.
2. **Teardown is not idempotent.** `networkoperator_resource_reconciler.go:256`
   (`deleteCSV`) returns an error when no CSV exists. This happens when OLM
   never installed one, or when an earlier teardown attempt deleted it and then
   failed on the namespace. Every retry fails and the GPUAddon's finalizer is
   never removed.
3. **The macvlan master is ignored.**
   `macvlannetwork_resource_reconciler.go:114` sets `Spec.Master` to
   `"ens2f0np0"`. It never reads `Spec.RDMA.MacvlanNetwork.Master`, although
   `gpuaddon_types.go:49` documents that field as "the host interface to be
   used". For this reason `AddonLifecycle` leaves the master free, and the
   violation run `macvlan_master` states the documented behaviour.

## Proofs

All theorems hold for every value of the constants that satisfies
`RdmaAssumption`, `StoreAssumption` and `ControllerAssumption`. In particular
they hold for every injective, non-empty `Order`.

`GPUAddonControllerProofs.tla` proves
`THEOREM TypeCorrect == Spec => []TypeOK`.

`TypeOK` is not inductive on its own. The inductive invariant is
`IInv == TypeOK /\ (pass = "none" <=> step = 0)`: a step of a pass reads
`Order[step]` or `Order[N + 1 - step]`, and that needs `step \in 1..N` whenever
a pass is in progress.

The argument rests on lemmas:

- `ReconcileTyped` and `DeleteTyped`: every outcome of every reconciler is a
  well-typed outcome that leaves the user's parameters secret alone.
- The per-reconciler lemmas these two are built from.
- `RenderedSpecsTyped`: both renderings of any `RDMASpec` are well typed.
- `OrderFacts`.

`NextIInv` has one step per action.

`THEOREM ConditionsPerType == Spec => []OneConditionPerType` is proved from
the strengthening `Inv == IInv /\ CondsInv`. `CondsInv` says that the `i`-th
gathered condition has one of the types `Order[i]` can return
(`StepCondTypes`), and that during a pass exactly one condition was gathered
per finished step. It rests on two lemmas:

- `ReconcileOneCond`: every `Reconcile` outcome carries exactly one condition.
- `StepCondTypesDisjoint`: no two reconcilers share a condition type. The NGC
  secret reconciler's stray `SubscriptionDeployed` type is still unique to it.

Injectivity of `Order` then gives the property.

`LifecycleRefinementProofs.tla` proves two theorems.

- `THEOREM LifecycleRefinement == Spec => ImplementsLifecycle`: every write
  of a reconciler is a desired object of a wanted dependent for the spec of
  the GPUAddon fetched at the start of its pass (`observed <- passRdma`) and
  for the parameters secret read in the same call; objects are removed only
  during deletion; the finalizer goes only when nothing is left.
- `THEOREM NoOrphan == Spec => []NoOrphanAfterTeardown`.

Both rest on the invariant `RInv`, which TLC checks as well, with the full
`Order` and with a partial one. It has four conjuncts:

1. A pass runs only while the parent exists.
2. During a teardown the parent is being deleted, and every key of the
   reconcilers already torn down (`KeysOf`) is absent.
3. A reconciler that is not in `Order` never wrote its keys.
4. Once the parent is gone, no pass runs and every dependent and the CSV are
   absent.

Conjunct 4 is `NoOrphanAfterTeardown` and more. It is preserved because:

- the finalizer is removed only at the end of a teardown, and conjuncts 2
  and 3 then cover every key;
- OLM needs a Subscription to install a CSV, and the Subscription is absent.

The step lemmas say what each reconciler call does to the store:

- `ReconcileWrites`: a `Reconcile` outcome changes only its own keys, and sets
  each of them to a desired object of a wanted dependent. For the RDMA objects
  this uses `RenderedDevices`: the rendered devices are the requested ones.
- `DeleteRemoves`: a `Delete` outcome only removes its own keys, and when it
  returns no error they are all absent.

`StepRefines` maps each action of `Next` to a step of `AddonLifecycle` or to a
stutter. `Remove` is the hard case: the last teardown step may remove the
parent only because conjunct 2 gives the earlier keys as absent.

`ConvergenceProofs.tla` proves two theorems about the converge path.

`THEOREM ConvergedDeployed` proves `Spec => []ConvergedMeansDeployed`. It
holds for every `Order` that runs all five reconcilers (`InOrder =
Reconcilers`, a hypothesis of the theorem). With a partial `Order` the
dependents of the missing reconcilers are never written, so the property
would be false. The strengthening is `CInv`, which TLC checked on the main
instance before it was proved:

- During a converge pass that no event has queued again (`~pending`), the
  spec the pass fetched is still the current one (`passRdma = rdma`), and the
  dependents of the reconcilers already called are *fresh*: desired for the
  current spec and parameters, or not wanted. The first part is what lets an
  error-free pass vouch for the current spec although its reconcilers read
  the fetched copy: an edit during the pass queues the GPUAddon again.
- A converged controller has the dependents of all of `Order` fresh.

Every event that could make a dependent stale queues the GPUAddon:

- an edit of the spec or of the parameters;
- a deletion;
- a crash.

While the GPUAddon is queued, `Converged` is false. Within a pass, a
reconciler writes only its own keys (`ReconcileWrites`), and `Order` is
injective. So an earlier step's dependents stay fresh.

The lemma `ReconcileCompletes` says what an error-free `Reconcile` leaves:
every wanted dependent of the reconciler is desired. This includes the NGC
secret's invalid-parameters return and the RDMA `NotConfigured` return,
because in both the dependent is not wanted.

`THEOREM StopsAtFirstError` proves `Spec => PassStopsAtFirstError`. It uses
the strengthening `PInv`: during a converge pass no gathered condition
reports a failure. It also uses `CondsInv` (one condition per finished step)
and the lemma `ReconcileErrReason`: every outcome returns one condition,
whose reason is a failure reason exactly when the call returned an error.

`ReconcilerProofs.tla` proves three theorems about the reconcilers' contract
(spec section 8), for every store and spec:

- `ReconcileIdempotent`: two error-free `Reconcile` calls in a row leave the
  cluster as the first one left it.
- `DeleteIdempotent`: for every reconciler but the network operator, a
  `Delete` after a successful one returns no error when no client call
  fails, and changes nothing.
- `NetworkOperatorDeleteNotIdempotent`: on a store without a CSV, every
  outcome of the network operator's `Delete` is an error. This is finding 2,
  proved for every value of the constants.

Two things are checked only by TLC:

- Liveness (`ConvergesWhenQuiet`, `DeletionCompletes`). Liveness under
  fairness and `ENABLED` are beyond the TLAPS backends.
- The violated properties.

## Not modelled

- The generated deep-copy code. It copies values and changes no shared state.
- Logging.
- These literals: the ClusterPolicy, Subscription and ConfigMap specs; the
  images of the NicClusterPolicy; the macvlan mtu and mode.
- Several GPUAddon parents at once. They would share the cluster-scoped
  objects; this is listed as a hazard.
- The fetch of the ClusterPolicy by `NfdCrName` (line 80): the model keys
  objects by role.
- The namespace mismatch between `Reconcile` (the parent's namespace) and
  `Delete` (`GlobalConfig.AddonNamespace`).
- The order of the two deletions inside the network operator's `Delete`
  (Subscription before CSV). A `Delete` call is one atomic step of the model,
  so OLM cannot act between its deletions, and no property can tell the
  order inside the call from the reversed one. OLM may still reinstall the
  CSV between two retries of the whole teardown.
- The interleaving inside one reconciler call. In particular the NGC secret
  reconciler reads the parameters secret (line 69) and writes the ngc-secret
  (line 128) in one step, so a user edit between the two is not modelled;
  only its repair by the next pass is.

`PROJECT.json` lists these with the hazards they leave open.

## Plan

- Split the network operator's `Delete` into its client calls, so that OLM
  can reinstall the CSV between them.
- Model a second GPUAddon sharing the cluster-scoped objects.
- Model the namespace mismatch as two namespaces.
- State and check what the status says after a converge pass, beyond the
  conditions the pass gathered.

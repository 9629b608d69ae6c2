# Formal models of the audit scanner

TLA+ models of the scanner in `src/`. The scanner replays existing Kubernetes
resources through the policy servers of already-deployed Kubewarden policies
and stores one PolicyReport per resource. This directory holds the modules,
their TLC configurations, the TLAPS proofs and `PROJECT.json`, which lists
components, runs, mutants, the map from definitions to source lines, findings,
hazards and theorems.

## 1. Inventory

### Components

| Component | Source | State it keeps | Operations |
|---|---|---|---|
| Command line entry | `src/cmd/root.go` | none (flags); the exit status | `RunE` builds the clients; `startScanner` runs `ScanNamespace(ns)` when `--namespace` is given, otherwise `ScanAllNamespaces`; `Execute` exits with status 1 on `RunE`'s error |
| Audit engine | `src/internal/scanner/scanner.go` 99-312 | per call: the scope, the GVRs of `PoliciesByGVR`, the pager position, the report being filled | `ScanNamespace`, `ScanAllNamespaces`, `ScanClusterWideResources`, `auditResource`, `auditClusterResource` |
| Policy matcher | `scanner.go` 314-332 | none | `policyMatches(policy, resource)` |
| Remote evaluator client | `scanner.go` 41-97, 334-362 | the shared `http.Client` (10 s timeout, trust store, optional `InsecureSkipVerify`) | `NewScanner`, `sendAdmissionReviewToPolicyServer` |
| Report store cache | `src/internal/report/store.go` 22-157 | `namespacedPolicyReports` map and `clusterPolicyReport`, each behind its own `sync.RWMutex` | `Add*`, `Get*`, `Update*`, `RemovePolicyReport`, `RemoveAllNamespacedPolicyReports`, `ToJSON` |
| Report store reconciliation | `store.go` 159-209 | none of its own; the versioned PolicyReport objects in the API server | `Save`: Get, then Create, or `RetryOnConflict(Get; SetResourceVersion; Update)` |
| Log level | `src/internal/log/level.go`, `slogger.go` | the flag value; the process-wide zerolog level | `Level.Set`, `String`, `SetZeroLogLevel`, `NewSlogger` and its `ReplaceAttr` |
| Collaborators not under `src/` | `internal/policies`, `internal/k8s`, report constructors, `CreateOrPatchPolicyReport` | the cluster | policy catalog, namespace lookup and listing, resource pager, report creation |

### How they interact

`root.go` calls one scan. A scan asks the k8s client for the namespace (or the
audited namespace list), the policy catalog for `PoliciesByGVR`, and for each
GVR a pager over the resources. For each resource, `auditResource` starts an
empty report. For each policy of the GVR it calls `policyMatches`. On a match
it posts an AdmissionReview to that policy's server. It adds one result per
answer, then hands the report to the store. Everything runs in one goroutine;
every call is synchronous and may fail.

The store's `Save` reads, creates or updates the PolicyReport in the API
server. The API server is shared with other writers: a concurrent or
overlapping scanner, controllers, and users who delete reports. Conflicts
are detected by `resourceVersion`. The cache methods are written for
concurrent goroutines.

### What is hard

* **Partial failure.** Every collaborator call can fail, and the spec gives
  each class of failure its own handling (sections 4.4 and 7). The code
  differs in two places: it panics on a failed evaluation and on a failed
  namespace listing.
* **Order.** `PoliciesByGVR` is a Go map with random iteration order. The
  model picks the next GVR and the next policy nondeterministically, so every
  order is among its behaviours.
* **Optimistic concurrency.** `Save` does a read-modify-write with a bounded
  retry. It races other savers and deleters. Several outcomes are silently
  turned into success: retry exhaustion, and NotFound inside the retry loop.
* **Locking.** The cache takes its RWMutexes per call. `RemovePolicyReport`
  checks under one lock and deletes under another. `ToJSON` takes no lock
  at all.

### Properties that make each component correct

* Engine:
  * A policy server is asked only about pairs whose policy is bound to the
    resource's type and scope, and whose selector matches.
  * A stored report has exactly one entry per matching policy, each with the
    answer the server gave.
  * A returning scan has covered every scope that did not fail.
  * When the command exits, every covered resource has this scan's report,
    or its failed store call was logged.
  * The exit status is non-zero exactly when the clients could not be built
    or some scope failed (spec section 6).
  * A resource's report is stored at most once per scan.
  * Every scan ends.
  * A failed evaluation is an errored entry, not a crash.
  * A failed listing is an error, not a crash.
* Matcher: nil selector matches all; a selector that does not compile matches
  nothing.
* Save:
  * A Save that returns nil has written its report, or has exhausted its
    retries on conflicts.
  * The number of Update attempts is bounded.
  * Save terminates.
  * Once the calling scan is cancelled, Save issues no more retries
    (spec section 5).
  * Reconciling twice leaves exactly the second report (full replace).
* Cache:
  * Each operation is linearizable: it refines an atomic map.
  * A writer never overlaps a reader of the same collection.
  * `ToJSON` returns a state the store actually held.
* Log level: `ReplaceAttr` names each custom level after the string that
  selects it, and each level between them after the next lower one.

## 2. Plan

Modules, in order of importance:

1. `Scanner` (done): the audit engine with the store abstracted to one
   atomic write per report. `MC_Scanner` instantiates it.
2. `ScannerProofs` (done): type correctness, `ReportMatchesVerdicts` and
   `NoCallForNonMatching`, from the inductive invariant `IInv`.
   `ScannerCoverageProofs` (done): `ScanCoverage`, from `CovInv`;
   `FreshOrLogged` and `ExitStatusReflectsErrors`, from `StoreInv` and
   `ExitInv`; the action property `ReportStoredOnce`, from `IInv`.
3. `ReportSave` and `SaveAtomic` (done): `Save` against a versioned object,
   with proofs in `ReportSaveProofs` (done): type correctness, bounded
   Updates, the refinement, and `SavedUnlessExhausted` when no fault occurs.
4. `ReportCache` (done): the RWMutex-guarded cache, with Go RWMutex
   semantics and concurrent goroutines. Abstract spec `CacheAtomic` is an
   atomic map; refinement is checked.
   * A violation run shows `ToJSON`'s unlocked read.
   * `ReportCacheProofs` (done) proves the lock invariant.
5. `LogLevel` (done): the flag value, `SetZeroLogLevel`, and `NewSlogger`'s
   level table and `ReplaceAttr`, checked against a reference over levels
   -12..12. `LogLevelProofs` (done) proves, for every level, that the
   handler's labels equal the reference.

Dropped: a composition of the scanner with `ReportSave`. `scanner.go:259`
and `308` call `CreateOrPatchClusterPolicyReport` and
`CreateOrPatchPolicyReport`, which `store.go` does not define. The store
in this repository offers `Save`, so wiring the two together would model
code that is not there. `Scanner` keeps the store abstracted as one atomic
write per report, which either succeeds or fails.

Liveness stays with TLC.

## 3. Modules

### `Scanner.tla`: the audit engine

Constants describe a cluster:

* namespaces, the audited subset, and the cluster scope;
* GVRs;
* resources with their namespace, GVR and labels;
* policies with the GVRs they bind, the scopes the catalog returns them for,
  and their selector. A selector is `NilSelector`, `BadSelector` (rejected by
  `LabelSelectorAsSelector`) or a set of label pairs (matchLabels).

Variables are the scanner goroutine's control point and loop state: `scope`,
`nsLeft`, `gvrLeft`, `gvr`, `resLeft`, `res`, `polLeft` and `report`. Three
history variables record what happened so far: `persisted` (stored report per
resource), `verdict` (the policy server's answer per pair), and `failed` and
`audited` (scopes that returned an error, resources whose audit reached the
store). `storeFailed` holds the resources whose store call failed and was
logged. `panicAt` records a panic. `err` is the error the scan returns so far
(`"nil"` or `"err"`), and `exitCode` is the process's exit status.

The command starts at `pc = "construct"` and ends at `"exited"` (or
`"crashed"` on a panic). The repository is not consistent here: `root.go`
calls `NewScanner` with two arguments and `ScanNamespace` without a context,
while `scanner.go` defines six and one more. The model follows `scanner.go`'s
functions and `root.go`'s control flow.

| Action | Code |
|---|---|
| `RunE` | root.go 36-61: the fetchers and `NewScanner` (scanner.go 45-97, failing only on the CA cert file) may fail; the process then exits with status 1 |
| `StartScan` | `startScanner` (root.go 80-92) |
| `ScanClusterWideResources` | scanner.go 178-216 |
| `GetAuditedNamespaces` | 157-164: success, or the nil-list panic |
| `NextNamespace` | the loop 164-171 |
| `GetNamespace` | 106-109 |
| `GetPolicies` | 110-128 / 181-184 |
| `NextGVR` | the range over `PoliciesByGVR` |
| `GetResources` | 131-134 |
| `EachListItem` | pager item, page error, end of list |
| `AuditPolicy` = `TryPolicy` + `RecordAnswer` | one iteration of the policy loop, 268-306: skip, allow, deny, or the nil-response panic |
| `SaveReport` | `CreateOrPatchPolicyReport`, 308-311: store, or log (`storeFailed`) and go on |
| `Execute` | RunE returns the scan's error (root.go 63-67); `Execute` exits 1 on it, 0 otherwise (74-78) |

`ScanReturn` is the `return err` of a scope. Inside `ScanAllNamespaces` it
joins the error (`errors.Join`: not nil once one error is joined) and
continues.

Abstractions:

* Go map and slice order is unknown, so the next GVR, item, namespace or
  policy is any one not yet visited.
* The pager may fail between any two items, because page size is not
  modelled.
* The store is one atomic write that may fail. Its internals are
  `ReportSave`'s subject.
* `auditClusterResource` is the same loop as `auditResource`, run in the
  cluster scope.

### Runs

* `scanner_safety` (`MC_Scanner.cfg`): 3 namespaces, one of them skipped;
  3 GVRs; 5 resources, one cluster-scoped; 4 policies, one of each selector
  kind, bound across scopes. Every constructor and collaborator may fail at
  every call. About 594 000 states, about 70 s. Checks the invariants
  `TypeOK`, `NoCallForNonMatching`, `ReportMatchesVerdicts`, `ScanCoverage`,
  `FreshOrLogged` and `ExitStatusReflectsErrors`. It also checks the action
  property `ReportStoredOnce` (an audited resource's stored report and logged
  failure never change again in the scan), and `ScanTerminates` under the
  spec's `WF_vars(Next)`. The instance has:
  * a resource of each matching kind;
  * a policy skipped for its selector, and a non-compiling selector;
  * a resource (`r5`) that a policy binds but no selector matches, so its
    report is empty;
  * two audited namespaces, so one can fail before the other succeeds;
  * several policies per resource.

  Those are the cases the properties tell apart.
* `scanner_evaluator_error` (violation, `ErroredVerdictRecorded`): seven
  steps to a panic at `scanner.go:305`.
* `scanner_nslist_error` (violation, `NamespaceListErrorTolerated`): a panic
  at `scanner.go:164`.

Two divergences about the cluster-wide report were found by reading the
code. Each is decided by the control flow alone, so no run is kept for
either:
* `startScanner` (`root.go:80-92`) calls only `ScanNamespace` or
  `ScanAllNamespaces`. root.go's `Scanner` interface has no
  `ScanClusterWideResources`. So the command never audits a cluster-scoped
  resource and never produces the ClusterPolicyReport that its help text
  (`root.go:34`) and spec section 1 promise. In the model,
  `ScanClusterWideResources` remains an entry point of the scanner package.
* With no cluster-scoped policies, `ScanClusterWideResources` returns nil
  without calling the store. It calls `CreateOrPatchClusterPolicyReport` only
  once per listed resource (`scanner.go:192-210, 259`). Spec scenario C
  expects an empty cluster Report to be created.

Deadlock is not checked: the scanner is a command that exits after its scan.
That is the terminal `exited`/`crashed` state.

### Fairness

`Spec` has weak fairness on `Next`. The scanner is one goroutine. Each of its
steps is a synchronous call that returns: the HTTP client has a 10-second
timeout, and the k8s client calls return or fail. So as long as it is not
finished, it keeps stepping.

### Proved (`ScannerProofs.tla`)

All three theorems hold for every value of the constants satisfying
`ConstantsAssumption`: any namespaces, resources, labels, policies and
selectors.

* `TypeCorrect`: `Spec => []TypeOK`. It is proved by induction:
  `InitTypeOK`, then `TypeOKStep` with one step per action. The policy-loop
  step is split into skip and answer, and answer into fail and not fail.
* `ReportsMatchVerdicts`: `Spec => []ReportMatchesVerdicts`.
* `NoStrayCalls`: `Spec => []NoCallForNonMatching`.

Neither safety invariant is inductive by itself. A stored report is
correct only because the resource was audited from a fresh report, once,
with answers that nobody overwrote afterwards. The strengthening `IInv`
(TLC checks it on the `MC_Scanner` instance as well) adds the following:

* `AuditOnce`: no scope, GVR or item still to visit holds an audited
  resource. The namespace loop, GVR loop and pager each visit a thing once.
* `Untouched`: resources not yet audited have no call and no new report.
  The one being audited has calls only for the policies already tried.
* `ReportSoFar`: the report being filled holds exactly the matching
  policies tried so far, each with its answer.
* `StoredOnlyAudited`: new reports exist only for audited resources.

`IInvStep` has one case per action. Where the step is not obvious, each case
has one step per conjunct. At `SaveReport` the loop has ended
(`polLeft = {}`), so `ReportSoFar` becomes `ReportMatchesVerdicts` for the
saved resource.

### Proved (`ScannerCoverageProofs.tla`)

`CoverageOnReturn` proves `Spec => []ScanCoverage` for every value of the
constants. `ScanCoverage` is not inductive: it speaks only of the state
where `pc = "done"`. The strengthening `CovInv` (checked by TLC on the
`MC_Scanner` instance together with `TypeOK` before it was proved) records
the progress of the three nested loops:

* the namespaces `ScanAllNamespaces` has left behind are done: each failed
  or is covered. Inside a namespace's scan that holds for all but the
  current one. When the scan returns, `nsLeft` is empty;
* for `ScanNamespace` and `ScanClusterWideResources`, the one scope is done
  when the scan returns, and the cluster scan's scope is `ClusterScope`;
* the GVRs the range over `PoliciesByGVR` has passed are fully audited;
* the items the pager has handed out are audited, except the one
  `auditResource` is working on.

`ScanReturnKeeps` shows, once for all five callers, that `ScanReturn` adds
the current scope to the done ones. `DoneMono` shows that auditing more
resources or failing more scopes undoes no progress. `ScopesCovered` draws
the conclusion used by the theorems: once the scan has returned, and after
the command has exited, every scope of the scan that did not fail is
covered.

Two more theorems rest on it:

* `StoreFailuresLogged`: `Spec => []FreshOrLogged`. The strengthening
  `StoreInv` says each audited resource has this scan's report or is in
  `storeFailed`. `SaveReport` keeps it whichever way the store call goes.
  This needs `ReportAssumption`: the markers `OldReport` and `NoReport` are
  not sets of entries. `StoreFrame` shows that no other action touches
  `audited`, `persisted` or `storeFailed`.
* `ExitStatusCorrect`: `Spec => []ExitStatusReflectsErrors`, from `ExitInv`:
  * `err` is not nil exactly when some scope failed. `ScanReturnExit` shows
    that `ScanReturn` keeps this;
  * no scan is started before or while the clients are built;
  * once the command has exited, its status is 1 exactly when no scan was
    started or `err` is not nil.

* `ReportsStoredOnce`: `Spec => ReportStoredOnce`, an action property.
  `StoredOnceStep` shows that every step of `Next` from an `IInv` state is a
  `StoredOnceAct` step or a stutter. In `SaveReport`, `AuditOnce` (part of
  `IInv`) gives `res \notin audited`, so the store call touches no audited
  resource. Every other action leaves the store alone (`StoreFrame`). The
  mutant in which the loop hands an item out again breaks this property.
  client-go's `EachListItem` hands each item out once, so this checks the
  scan's own loop structure; it does not guard against a known pager
  failure.

### Only model-checked

`ScanTerminates` (every run of the command exits or panics) stays with TLC, because TLAPS does not handle fairness and
ENABLED here. Two properties are violated by the code, as recorded above:
`ErroredVerdictRecorded` and `NamespaceListErrorTolerated`.

### `ReportSave.tla`: `PolicyReportStore.Save`

`Save` (`store.go` 161-209) is modelled as one process per concurrent call.
Each call runs in its own goroutine: two overlapping scans, or a CronJob run
overlapping a manual one. The calls act on one object in the API server.
That object is `NoObj`, or a record of content and `resourceVersion`.

`rvCount` is the API server's version counter. Other clients of the API
server write (`ExtWrite`, at most `MaxExt` times) and delete (`ExtDelete`,
at most `MaxDel` times) the object. With `Flaky`, any call may fail with an
error that is neither NotFound nor Conflict.
A failed Create or Update in the model never takes effect. The model has
no case where the API server commits the write and the client still sees an
error, such as a timeout after the commit. `SaveIsAtomic`'s "no write on an
error return" depends on this simplification.

| Action | Code |
|---|---|
| `SaveGet` | the Get at 164. NotFound goes to Create; found, or any other error, goes to the update branch (169, 175) |
| `SaveCreate` | 171-174: success; AlreadyExists or another error is returned wrapped |
| `RetryGet` | one run of the RetryOnConflict closure up to `SetResourceVersion` (178-192). NotFound returns nil from the closure (184-188); another error ends the loop (189-191) |
| `SaveUpdate` | 193-208: success; Conflict retried while `attempts < Steps` (client-go's `DefaultRetry.Steps` is 5); exhaustion, NotFound or another error is logged, and Save returns nil |

`SaveAtomic.tla` is the abstract Reconcile of spec section 4.3. A call
either replaces the whole object with its report and returns nil, or returns
without writing, nil or error. Other clients may replace or delete the
object at any time. `SaveIsAtomic` checks `ReportSave` against
`INSTANCE SaveAtomic WITH stored <- content of obj, ret <- ret`.

Runs (`MC_ReportSave`: two saves, `Steps = 5`). No `SYMMETRY` is declared:
`save_faults` checks liveness, and symmetry reduction is unsound for
liveness checking.

* `save_safety` (`MC_ReportSave.cfg`): four external writes, which with the
  other save's write give the five conflicts needed to exhaust the retries.
  There are no deletions and no flaky calls. It checks only
  `SavedUnlessExhausted`: a nil return means written, or five conflicts.
  That property fails once faults are allowed. About 8 400 states, since
  `Cancel` doubles the state space.
* `save_faults` (`MC_ReportSave_faults.cfg`): one deletion and flaky calls.
  It checks `TypeOK`, `BoundedUpdates`, `SaveIsAtomic` and `SaveTerminates`.
  Its behaviours include every behaviour of `save_safety`, so checking these
  there would repeat them. About 60 000 states.
* `save_silent_notfound` (violation of `SavedUnlessExhausted`):
  1. Get finds the report.
  2. Another client deletes it.
  3. The closure's Get returns NotFound.
  4. Save returns nil and has written nothing (`store.go:184`).
* `save_create_race` (violation of `CreateRaceTolerated`):
  1. Get returns NotFound.
  2. Another writer creates the report.
  3. Create fails with AlreadyExists and is not retried (`store.go:171`).

`Cancel` is the cancellation of the scan that called Save (`ctxErr` becomes
`"canceled"`). Save takes no context and runs every call with
`context.TODO()` (164, 171, 180, 193), so no step of a saver reads `ctxErr`.

* `save_cancel` (violation of `NoRetryAfterCancel`), in three steps:
  1. Save's first Get finds the report.
  2. The scan is cancelled.
  3. The RetryOnConflict closure still runs its Get (`store.go:180`).

  Spec section 5 says cancellation reaches in-flight calls and stops retry
  loops.

Fairness: weak fairness for each save's steps. Each Save runs in a goroutine
that keeps running, and each API call returns. The other clients get no
fairness, so they may stop at any time.

Proved (`ReportSaveProofs.tla`), for any set of saves, any `Steps`, any
budgets and either value of `Flaky` (except where stated):

* `SaveTypeCorrect`: `Spec => []TypeOK`.
* `UpdatesBounded`: `Spec => []BoundedUpdates`.
* `SaveRefinesAtomic`: `Spec => SaveIsAtomic`, where `SaveIsAtomic` is `Abstract!Spec`.

All three rest on `LoopInv`:

* every Update follows its own run of the closure (`updates <= attempts`);
* a save at the Update has not issued it yet;
* a save about to re-read has budget left;
* a save has returned exactly when it is done.

The refinement step (`RefineStep`) maps each write of a save to `Put`. The
write comes with the return of nil, and `LoopInv` gives `ret[s] = "none"`
before it. Each failing return maps to `Return`, each external write or
delete to `Other`, and every other step, `Cancel` included, is a stutter. `SaveTerminates`
stays with TLC.

Two more theorems rest on `XInv == SaveInv /\ ExhaustInv`, which TLC checked
as an invariant of the three save configurations before it was proved.
`Faulted` means `delLeft < MaxDel \/ Flaky`: another client has deleted the
report, or API calls may fail. `ExhaustInv` says, for each save:

* before the closure runs, it has seen no conflict;
* at the closure's Get or at the Update, the object exists unless `Faulted`;
* the closure's runs so far all ended in a Conflict, except the current one
  (`conflicts = attempts` at the Get, `conflicts + 1 = attempts` at the
  Update);
* a nil return means it wrote, or it saw `Steps` conflicts, or `Faulted`.

`Faulted` stays true once it holds, because `delLeft` never grows. The
theorems are:

* `SilentNilOnlyOnFault`: `Spec => []SilentNilNeedsFault`. It has no
  hypothesis on the constants. A Save that returns nil without writing,
  and without `Steps` conflicts, does so only after a deletion or when API
  calls may fail. This characterises the silent nil of
  `save_silent_notfound`.
* `SavedWhenNoFaults`: under `MaxDel = 0` and `~Flaky`, the constants of the
  `save_safety` run, `Spec => []SavedUnlessExhausted`. The hypotheses are
  needed: `save_silent_notfound` shows the property fails with one deletion.

Not modelled in `Save`: the report's content beyond who wrote it. The code writes the whole
object, so a replace is a full replace (spec section 8); the model's
`Write` does the same.

### `ReportCache.tla`: the in-memory cache of `PolicyReportStore`

The store keeps the namespaced reports in a Go map behind
`namespacedPolicyReportsMutex` and the cluster report behind
`clusterPolicyReportMutex` (`store.go` 22-157). The model runs each
goroutine as a process. A method call is a sequence of steps: take a lock,
read or write under it, and release it. `pc[g]` is the goroutine's place.

Each `sync.RWMutex` is two variables: `writer[m]` and `readers[m]`.

* `writer[m]` is the goroutine holding or waiting in `Lock`.
* `readers[m]` is the set holding `RLock`.

`Lock` first claims the writer slot, which blocks new readers. It then
waits in `Acquire` for the readers already in to leave. This is Go's writer
preference. `RLock` waits while any writer holds or waits.

| Action | Code |
|---|---|
| `Call` | entry of each method; `opsLeft` bounds the calls per goroutine |
| `Lock`, `Acquire` | `Lock()` at 77, 85, 112, 121, 130, 139 |
| `Write` | the assignment under the write lock: 79, 87, 114, 123, 132, 142 |
| `Unlock` | the deferred `Unlock()` |
| `RLock` | `RLock()` at 93, 104 |
| `Read` | the lookup at 95-99 and 106-107. For `RemovePolicyReport`, its call of `GetPolicyReport` (129); a miss returns nil at once |
| `RUnlock` | the deferred `RUnlock()`. `RemovePolicyReport` then goes to `Lock` (130) if the lookup found the entry |
| `JSONCluster`, `JSONMarshal`, `JSONReturn` | `ToJSON` (147-156): it copies the cluster report, then marshals the map, and takes no lock |

The map value is abstracted to one report per namespace, or `NoReport`.
`json.Marshal` is abstracted to the pair of values it reads. Every result is
a record `Returned(report, namespaces)`, where a not-found error is
`NoReport`.

`CacheAtomic.tla` is the promise of spec 4.3. Each operation takes effect
at one instant inside its call, on an atomic map and cluster report.
`CacheLinearizable` checks the refinement. The mapping puts each locked
method's effect at its write, or at its lookup when the lookup ends the
call.

Runs (`MC_ReportCache`: two goroutines, two calls each, one namespace, two
reports). The `Update*` methods are the same code as the `Add*` methods, so
the MC module leaves them out.

* `cache_safety`: every method except `ToJSON`. It checks `RWExclusion`
  (no reader or writer of a collection alongside its writer) and
  `CacheLinearizable`. About 74 000 states. The
  interleavings include `RemovePolicyReport`'s gap between `RUnlock` and
  `Lock`, where another goroutine may add or remove the same entry.
* `cache_tojson`: every method, checking `CacheTerminates`. `ToJSON` holds no
  lock, so it blocks no one. Its behaviours include `cache_safety`'s, so
  termination is checked here only. The cache's `TypeOK` is left to the
  theorem `CacheTypeCorrect`. No plausible bug in `store.go` takes a variable
  out of its type, so a run of it would test only the harness.
* `cache_tojson_race` (violation of `RWExclusion`): `ToJSON` reads the map
  or the cluster report while another goroutine is writing it. This is a Go
  data race. On the map it can be the fatal "concurrent map read and map
  write" (finding at `store.go:149`).

`CacheLinearizable` is not checked with `ToJSON`. That method is not even
race-free, and a fixed linearization point at the marshal would reject
histories that another point accepts.

Fairness: weak fairness for each goroutine's steps. A goroutine blocked in
`Lock`, `Acquire` or `RLock` is woken when the mutex frees.

Proved (`ReportCacheProofs.tla`), for any goroutines, namespaces, reports
and call budgets:

* `CacheTypeCorrect`: `Spec => []TypeOK`.
* `LockedExclusion`: when `ToJSON` is not among the methods,
  `Spec => []RWExclusion`.
* `LockedLinearizable`: when `ToJSON` is not among the methods,
  `Spec => CacheLinearizable`.
  * The initial state maps to the atomic map's initial state.
  * `RefineStep` maps each step. A `Call` maps to `Call`. A `Write`, or a
    lookup that ends the call, maps to `Apply`. The `Unlock` or `RUnlock`
    that returns maps to `Return`. Every other step is a stutter.
  * A `RemovePolicyReport` that misses maps to `Apply` at its lookup. There,
    deleting an absent key leaves the map unchanged.
  * `LockInv` supplies the facts each case needs: each place belongs to the
    methods that reach it, and the JSON places cannot be reached without
    `ToJSON`.

All three rest on `LockInv`, which was also checked with TLC on both runs'
instances:

* each place belongs to the methods that reach it, so a goroutine's mutex
  is fixed for the whole call;
* a goroutine past `Lock` owns the writer slot, and only such a goroutine
  owns it;
* the readers of a mutex are exactly the goroutines between `RLock` and
  `RUnlock` on it;
* no reader is left once the writer has acquired.

`RWExclusion` is not inductive by itself. It says nothing about goroutines
waiting in `Acquire` or about the reader set, and those are what stop a
second writer or a new reader.

### `LogLevel.tla`: the log level

`level.go` and `slogger.go` hold two independent logging setups.

* `Level` is the `--loglevel` flag value. `Set` accepts zerolog's six names
  (`GetSupportedValues`); any other value fails the command. `String` maps
  the unset value to `info`. `RunE` starts with `SetZeroLogLevel`, which
  sets zerolog's global level.
* `NewSlogger` maps slog's names to levels, and panics on any other name.
  Its names are `trace` -8, `debug` -4, `info` 0, `warning` 4, `error` 8 and
  `fatal` 9. It builds a JSON handler whose `ReplaceAttr` prints a record's
  level by name, through a chain of strict comparisons.
  `ReplaceAttr` is written as an IF/ELSE chain. Go's `switch` takes the
  first case that holds. A TLA+ `CASE` with overlapping guards may pick any
  true arm, so it would leave the name of a low level unspecified.

| Action | Code |
|---|---|
| `Set(s)` | `Level.Set` (level.go 35-50); an error ends the flag phase |
| `SetZeroLogLevel` | root.go 37, level.go 19-26 |
| `NewSlogger(s)` | slogger.go 31-49 |
| `Emit(l)` | the handler writes a record of level `l` at or above its level, named by `ReplaceAttr` (50-79) |

Run `log_levels` (`MC_LogLevel`) tries every flag value, both spellings of
warn, a bad value and the empty string. Record levels run from -12 to 12:
every boundary of the chain, and values beyond both ends. It checks:

* `TypeOK`;
* `ReplaceAttrMatchesReference`: every written record's name is the one the
  reference gives. The reference is the highest named level at or below the
  record's level, or `trace` below all of them.

Proved (`LogLevelProofs.tla`), for every level range:

* `LevelTypeCorrect`: `Spec => []TypeOK`.

It rests on the invariant `HandlerInv`:

* the handler's level is one of the six;
* the last record was let through by the filter and named by `ReplaceAttr`.

`HandlerInvStep` uses the lemma `ReplaceAttrFloor`: for any integer `l` at
or above a named level `h`, `ReplaceAttr(l)` is one of the six names, and
it names a level no lower than `h`.

`NamesMatchReference` proves `Spec => []ReplaceAttrMatchesReference` from
the same invariant. It also uses the lemma `ReplaceAttrIsReference`, which
proves `ReplaceAttr(l) = RefName(l)` for every integer `l`. That lemma splits
on the seven intervals the table's levels cut the integers into. In each
interval, the lemma `RefNameIsHighest` shows that the `CHOOSE` of `RefName`
can only pick one name: the named level just at or below `l`.

`Set` accepts zerolog's `warn`, but `NewSlogger` accepts only `warning`.
Passing the flag's value to `NewSlogger` would panic on `warn`. Nothing in
the repository calls `NewSlogger`, so this is noted, not a finding.

### Not modelled

* TLS configuration and trust-store loading (`NewScanner`).
* JSON encoding of the AdmissionReview.
* Flag parsing and the logging calls. `store.go:186` builds a zerolog event
  without `.Msg`, so it is never emitted. That is noted, not modelled.
* The collaborators outside `src/`, which are modelled from the spec by
  their results.

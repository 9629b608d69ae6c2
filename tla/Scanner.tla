------------------------------ MODULE Scanner ------------------------------
(***************************************************************************)
(* The audit engine of the scanner (src/internal/scanner/scanner.go) and   *)
(* the command that builds and runs it (src/cmd/root.go: RunE, Execute,   *)
(* startScanner).                                                          *)
(*                                                                         *)
(* One scanner process runs one scan: ScanNamespace, ScanAllNamespaces or  *)
(* ScanClusterWideResources.  Every call to a collaborator (namespace      *)
(* lookup, policy catalog, resource lister and its pager, the policy       *)
(* server, the report store) is a step of its own that may fail.  Go map   *)
(* iteration (PoliciesByGVR) and slice order are unknown to the model, so  *)
(* the next GVR, resource, namespace and policy is any one not yet done.   *)
(* The report store is abstracted to one atomic write per report, which   *)
(* either succeeds or is logged and dropped (scanner.go:308-311).          *)
(***************************************************************************)
EXTENDS FiniteSets

CONSTANTS
    Namespaces,     \* namespaces of the cluster
    AuditedNs,      \* those GetAuditedNamespaces lists (skip list removed)
    ClusterScope,   \* the scope of cluster-wide resources and policies
    GVRs,           \* resource types
    Resources,      \* the audited objects
    NsOf,           \* NsOf[r]: namespace of r, or ClusterScope
    GvrOf,          \* GvrOf[r]: resource type of r
    LabelPairs,     \* key=value label pairs
    Labels,         \* Labels[r] \subseteq LabelPairs
    Policies,
    PolicyGvrs,     \* PolicyGvrs[p]: the resource types p's rules bind
    Applies,        \* Applies[p]: the scopes the policy catalog returns p for
    Selector,       \* Selector[p]: NilSelector, BadSelector or matchLabels
    NilSelector,    \* policy.GetObjectSelector() == nil
    BadSelector,    \* a selector LabelSelectorAsSelector rejects
    OldReport,      \* a report persisted by an earlier scan
    NoReport        \* no report stored for the resource

Scopes == Namespaces \cup {ClusterScope}

ASSUME ConstantsAssumption ==
    /\ AuditedNs \subseteq Namespaces
    /\ ClusterScope \notin Namespaces
    /\ NsOf \in [Resources -> Scopes]
    /\ GvrOf \in [Resources -> GVRs]
    /\ Labels \in [Resources -> SUBSET LabelPairs]
    /\ PolicyGvrs \in [Policies -> SUBSET GVRs]
    /\ Applies \in [Policies -> SUBSET Scopes]
    /\ Selector \in [Policies -> {NilSelector, BadSelector} \cup SUBSET LabelPairs]
    /\ NilSelector # BadSelector
    /\ GVRs # {} /\ Resources # {}

VARIABLES
    pc,         \* control point of the scanner process
    entry,      \* which scan root.go started: "ns", "all" or "cluster"
    scope,      \* the namespace (or ClusterScope) being scanned
    nsLeft,     \* namespaces of ScanAllNamespaces not scanned yet
    gvrLeft,    \* keys of PoliciesByGVR not visited yet
    gvr,        \* the resource type being listed
    resLeft,    \* items the pager has not delivered yet
    res,        \* the resource auditResource is working on
    polLeft,    \* policies of gvr not yet tried on res
    report,     \* the PolicyReport auditResource is filling
    persisted,  \* persisted[r]: the report stored for r
    verdict,    \* verdict[p][r]: answer of the policy server, "none" if never asked
    failed,     \* scopes whose scan returned an error
    audited,    \* resources whose auditResource reached the store call
    storeFailed,\* resources whose store call failed and was logged
    panicAt,    \* where the process panicked, "none" while it has not
    err,        \* the error the scan returns so far: "nil" or "err"
    exitCode    \* the process's exit status, once it has exited

vars == <<pc, entry, scope, nsLeft, gvrLeft, gvr, resLeft, res, polLeft,
          report, persisted, verdict, failed, audited, storeFailed, panicAt,
          err, exitCode>>

Entry == [policy : Policies, allowed : BOOLEAN, errored : BOOLEAN]
ReportValue == (SUBSET Entry) \cup {OldReport, NoReport}

(* The markers for an earlier scan's report and for no report are not     *)
(* reports this scan builds.                                              *)
ASSUME ReportAssumption == \A S \in SUBSET Entry : S \notin {OldReport, NoReport}
Verdicts == {"none", "allow", "deny", "fail"}
PCs == {"construct", "start", "getNsList", "nextNs", "getNamespace", "getPolicies",
        "nextGvr", "getResources", "listItems", "auditPolicy", "done",
        "exited", "crashed"}

(***************************************************************************)
(* policyMatches (scanner.go:314-332): no selector matches everything; a   *)
(* selector that does not compile is an error, reported as no match; a     *)
(* matchLabels selector matches when all its pairs are among the labels.   *)
(***************************************************************************)
policyMatches(p, r) ==
    \/ Selector[p] = NilSelector
    \/ /\ Selector[p] # BadSelector
       /\ Selector[p] \subseteq Labels[r]

(* GetPoliciesForANamespace / GetClusterWidePolicies: PoliciesByGVR[g]. *)
PoliciesByGVR(s, g) == {p \in Policies : s \in Applies[p] /\ g \in PolicyGvrs[p]}

(* GetResources(gvr, ns) listed to the end. *)
ResourcesOf(s, g) == {r \in Resources : NsOf[r] = s /\ GvrOf[r] = g}

(***************************************************************************)
(* sendAdmissionReviewToPolicyServer (scanner.go:334-362): a well-formed   *)
(* answer allows or denies; marshalling, transport, timeout, body, status  *)
(* and decoding errors all return (nil, err), here "fail".                 *)
(***************************************************************************)
sendAdmissionReviewToPolicyServer == {"allow", "deny", "fail"}

TypeOK ==
    /\ pc \in PCs
    /\ entry \in {"none", "ns", "all", "cluster"}
    /\ scope \in Scopes
    /\ nsLeft \subseteq AuditedNs
    /\ gvrLeft \subseteq GVRs
    /\ gvr \in GVRs
    /\ resLeft \subseteq Resources
    /\ res \in Resources
    /\ polLeft \subseteq Policies
    /\ report \subseteq Entry
    /\ persisted \in [Resources -> ReportValue]
    /\ verdict \in [Policies -> [Resources -> Verdicts]]
    /\ failed \subseteq Scopes
    /\ audited \subseteq Resources
    /\ storeFailed \subseteq Resources
    /\ panicAt \in {"none", "nsList", "evaluate"}
    /\ err \in {"nil", "err"}
    /\ exitCode \in {0, 1}

Init ==
    /\ pc = "construct"
    /\ entry = "none"
    /\ scope = ClusterScope
    /\ nsLeft = {}
    /\ gvrLeft = {}
    /\ gvr = CHOOSE g \in GVRs : TRUE
    /\ resLeft = {}
    /\ res = CHOOSE r \in Resources : TRUE
    /\ polLeft = {}
    /\ report = {}
    /\ persisted \in [Resources -> {NoReport, OldReport}]
    /\ verdict = [p \in Policies |-> [r \in Resources |-> "none"]]
    /\ failed = {}
    /\ audited = {}
    /\ storeFailed = {}
    /\ panicAt = "none"
    /\ err = "nil"
    /\ exitCode = 0

-----------------------------------------------------------------------------
(* Mutant: ScanAllNamespaces returns the first namespace error. *)
ScanReturn_StopOnError(e) ==
    /\ failed' = IF e THEN failed \cup {scope} ELSE failed
    /\ err' = IF e THEN "err" ELSE err
    /\ pc' = IF entry = "all" /\ ~e THEN "nextNs" ELSE "done"

(* Mutant: the loop assigns each namespace's result to err, so only the  *)
(* last namespace's error is returned.                                    *)
ScanReturn_LastError(e) ==
    /\ failed' = IF e THEN failed \cup {scope} ELSE failed
    /\ err' = IF e THEN "err" ELSE "nil"
    /\ pc' = IF entry = "all" THEN "nextNs" ELSE "done"

(***************************************************************************)
(* A scan of one scope returns.  Inside ScanAllNamespaces the error is     *)
(* joined and the loop goes on with the next namespace (scanner.go:165-    *)
(* 168); otherwise the scan is over.  err' is errors.Join(err, e): not   *)
(* nil once one error has been joined.                                     *)
(***************************************************************************)
ScanReturn(e) ==
    /\ failed' = IF e THEN failed \cup {scope} ELSE failed
    /\ err' = IF e THEN "err" ELSE err
    /\ pc' = IF entry = "all" THEN "nextNs" ELSE "done"

(***************************************************************************)
(* NewScanner (scanner.go:45-97): reading the CA cert file, or appending   *)
(* it to the pool, may fail; a missing system pool falls back to an empty  *)
(* one and the transport type assertion always holds, so neither fails.   *)
(***************************************************************************)
NewScanner == {"ok", "err"}

(***************************************************************************)
(* RunE before startScanner (root.go:36-61): the flags are read (init      *)
(* registers them as strings, so GetString cannot fail), then              *)
(* policies.NewFetcher, resources.NewFetcher and NewScanner each may       *)
(* return an error. RunE returns it, and Execute logs it with log.Fatal,   *)
(* which exits with status 1 (root.go:74-78).                              *)
(***************************************************************************)
RunE ==
    /\ pc = "construct"
    /\ \E fetchers \in {"ok", "err"}, scanner \in NewScanner :
         IF fetchers = "ok" /\ scanner = "ok"
           THEN pc' = "start" /\ UNCHANGED exitCode
           ELSE pc' = "exited" /\ exitCode' = 1
    /\ UNCHANGED <<entry, scope, nsLeft, gvrLeft, gvr, resLeft, res, polLeft,
                   report, persisted, verdict, failed, audited, storeFailed,
                   panicAt, err>>

(* startScanner (root.go:80-92): one namespace, or all of them. *)
StartScan ==
    /\ pc = "start"
    /\ \/ \E n \in Namespaces :
            /\ entry' = "ns" /\ scope' = n /\ pc' = "getNamespace"
       \/ /\ entry' = "all" /\ pc' = "getNsList" /\ UNCHANGED scope
    /\ UNCHANGED <<nsLeft, gvrLeft, gvr, resLeft, res, polLeft, report,
                   persisted, verdict, failed, audited, storeFailed,
                   panicAt, err, exitCode>>

(***************************************************************************)
(* ScanClusterWideResources (scanner.go:178-216), the scanner's third      *)
(* entry point (root.go does not call it): the same policy, GVR, pager and *)
(* audit steps as ScanNamespace, in the cluster scope and without the      *)
(* namespace lookup; auditClusterResource (218-263) is auditResource for   *)
(* the ClusterPolicyReport.                                                *)
(***************************************************************************)
ScanClusterWideResources ==
    /\ pc = "start"
    /\ entry' = "cluster" /\ scope' = ClusterScope /\ pc' = "getPolicies"
    /\ UNCHANGED <<nsLeft, gvrLeft, gvr, resLeft, res, polLeft, report,
                   persisted, verdict, failed, audited, storeFailed,
                   panicAt, err, exitCode>>

(* Mutant: the skip list is ignored and every namespace is listed. *)
GetAuditedNamespaces_NoSkip ==
    /\ pc = "getNsList"
    /\ nsLeft' = Namespaces /\ pc' = "nextNs"
    /\ UNCHANGED <<entry, scope, gvrLeft, gvr, resLeft, res, polLeft, report,
                   persisted, verdict, failed, audited, storeFailed,
                   panicAt, err, exitCode>>

(***************************************************************************)
(* GetAuditedNamespaces (scanner.go:159-164).  On error the code only logs *)
(* and then ranges over nsList.Items; the client returns a nil list with   *)
(* the error, so the range dereferences nil and the process panics.        *)
(***************************************************************************)
GetAuditedNamespaces ==
    /\ pc = "getNsList"
    /\ \/ /\ nsLeft' = AuditedNs /\ pc' = "nextNs"
          /\ UNCHANGED panicAt
       \/ /\ pc' = "crashed" /\ panicAt' = "nsList"
          /\ UNCHANGED nsLeft
    /\ UNCHANGED <<entry, scope, gvrLeft, gvr, resLeft, res, polLeft, report,
                   persisted, verdict, failed, audited, storeFailed, err, exitCode>>

(* The loop of ScanAllNamespaces (scanner.go:164-171). *)
NextNamespace ==
    /\ pc = "nextNs"
    /\ \/ \E n \in nsLeft :
            /\ scope' = n /\ nsLeft' = nsLeft \ {n} /\ pc' = "getNamespace"
       \/ /\ nsLeft = {} /\ pc' = "done" /\ UNCHANGED <<scope, nsLeft>>
    /\ UNCHANGED <<entry, gvrLeft, gvr, resLeft, res, polLeft, report,
                   persisted, verdict, failed, audited, storeFailed,
                   panicAt, err, exitCode>>

(* ScanNamespace: the namespace must exist (scanner.go:106-109). *)
GetNamespace ==
    /\ pc = "getNamespace"
    /\ \/ pc' = "getPolicies" /\ UNCHANGED <<failed, err>>
       \/ ScanReturn(TRUE)
    /\ UNCHANGED <<entry, scope, nsLeft, gvrLeft, gvr, resLeft, res, polLeft,
                   report, persisted, verdict, audited, storeFailed, panicAt, exitCode>>

(* GetPoliciesForANamespace (110-113) or GetClusterWidePolicies (181-184). *)
GetPolicies ==
    /\ pc = "getPolicies"
    /\ \/ /\ gvrLeft' = {g \in GVRs : PoliciesByGVR(scope, g) # {}}
          /\ pc' = "nextGvr"
          /\ UNCHANGED <<failed, err>>
       \/ ScanReturn(TRUE) /\ UNCHANGED gvrLeft
    /\ UNCHANGED <<entry, scope, nsLeft, gvr, resLeft, res, polLeft, report,
                   persisted, verdict, audited, storeFailed, panicAt, exitCode>>

(* The range over PoliciesByGVR (130, 150 / 192, 215). *)
NextGVR ==
    /\ pc = "nextGvr"
    /\ \/ \E g \in gvrLeft :
            /\ gvr' = g /\ gvrLeft' = gvrLeft \ {g} /\ pc' = "getResources"
            /\ UNCHANGED <<failed, err>>
       \/ /\ gvrLeft = {} /\ ScanReturn(FALSE) /\ UNCHANGED <<gvr, gvrLeft>>
    /\ UNCHANGED <<entry, scope, nsLeft, resLeft, res, polLeft, report,
                   persisted, verdict, audited, storeFailed, panicAt, exitCode>>

(* GetResources builds the pager (131-134 / 193-196). *)
GetResources ==
    /\ pc = "getResources"
    /\ \/ /\ resLeft' = ResourcesOf(scope, gvr) /\ pc' = "listItems"
          /\ UNCHANGED <<failed, err>>
       \/ ScanReturn(TRUE) /\ UNCHANGED resLeft
    /\ UNCHANGED <<entry, scope, nsLeft, gvrLeft, gvr, res, polLeft, report,
                   persisted, verdict, audited, storeFailed, panicAt, exitCode>>

(* Mutant: auditResource reuses the previous resource's report. *)
EachListItem_NoReset ==
    /\ pc = "listItems"
    /\ \/ \E r \in resLeft :
            /\ res' = r /\ resLeft' = resLeft \ {r}
            /\ polLeft' = PoliciesByGVR(scope, gvr)
            /\ pc' = "auditPolicy"
            /\ UNCHANGED <<failed, report>>
       \/ /\ resLeft = {} /\ pc' = "nextGvr"
          /\ UNCHANGED <<res, resLeft, report, polLeft, failed>>
    /\ UNCHANGED <<entry, scope, nsLeft, gvrLeft, gvr, persisted, verdict,
                   audited, storeFailed, panicAt, err, exitCode>>

(* Mutant: the pager loses its continue token and lists the items again. *)
EachListItem_Relist ==
    /\ pc = "listItems"
    /\ \/ \E r \in resLeft :
            /\ res' = r /\ report' = {}
            /\ polLeft' = PoliciesByGVR(scope, gvr)
            /\ pc' = "auditPolicy"
            /\ UNCHANGED <<failed, resLeft>>
       \/ /\ resLeft = {} /\ pc' = "nextGvr"
          /\ UNCHANGED <<res, resLeft, report, polLeft, failed>>
    /\ UNCHANGED <<entry, scope, nsLeft, gvrLeft, gvr, persisted, verdict,
                   audited, storeFailed, panicAt, err, exitCode>>

(***************************************************************************)
(* pager.EachListItem (136-147 / 198-210): hands the next item to          *)
(* auditResource, which starts with an empty report; fetching a page may   *)
(* fail, which ends the scope's scan with that error; after the last item  *)
(* the next GVR is listed.                                                 *)
(***************************************************************************)
EachListItem ==
    /\ pc = "listItems"
    /\ \/ \E r \in resLeft :
            /\ res' = r /\ resLeft' = resLeft \ {r}
            /\ report' = {}
            /\ polLeft' = PoliciesByGVR(scope, gvr)
            /\ pc' = "auditPolicy"
            /\ UNCHANGED <<failed, err>>
       \/ ScanReturn(TRUE) /\ UNCHANGED <<res, resLeft, report, polLeft>>
       \/ /\ resLeft = {} /\ pc' = "nextGvr"
          /\ UNCHANGED <<res, resLeft, report, polLeft, failed, err>>
    /\ UNCHANGED <<entry, scope, nsLeft, gvrLeft, gvr, persisted, verdict,
                   audited, storeFailed, panicAt, exitCode>>

(* Mutant: the request is sent before the selector is checked. *)
AuditPolicy_CallBeforeMatch ==
    /\ pc = "auditPolicy"
    /\ \E p \in polLeft, v \in {"allow", "deny"} :
         /\ polLeft' = polLeft \ {p}
         /\ verdict' = [verdict EXCEPT ![p][res] = v]
         /\ report' = IF policyMatches(p, res)
                        THEN report \cup {[policy |-> p, allowed |-> v = "allow",
                                           errored |-> FALSE]}
                        ELSE report
    /\ UNCHANGED <<pc, panicAt, entry, scope, nsLeft, gvrLeft, gvr, resLeft,
                   res, persisted, failed, audited, storeFailed, err, exitCode>>

(***************************************************************************)
(* One iteration of the policy loop of auditResource (268-306).  A policy  *)
(* that does not match is skipped without a call.  A matching one is sent  *)
(* to the policy server.  On an error the code sets errored but then reads *)
(* auditResponse.Response from the nil response (305): a panic.            *)
(***************************************************************************)
(* The answer v of the policy server for (p, res) is folded into the report. *)
RecordAnswer(p, v) ==
    /\ verdict' = [verdict EXCEPT ![p][res] = v]
    /\ IF v = "fail"
         THEN /\ pc' = "crashed" /\ panicAt' = "evaluate"
              /\ UNCHANGED report
         ELSE /\ report' = report \cup
                   {[policy |-> p, allowed |-> v = "allow", errored |-> FALSE]}
              /\ UNCHANGED <<pc, panicAt>>

(* The loop body for policy p: skip it, or ask the policy server. *)
TryPolicy(p) ==
    /\ polLeft' = polLeft \ {p}
    /\ IF ~policyMatches(p, res)
         THEN UNCHANGED <<pc, report, verdict, panicAt>>
         ELSE \E v \in sendAdmissionReviewToPolicyServer : RecordAnswer(p, v)

AuditPolicy ==
    /\ pc = "auditPolicy"
    /\ \E p \in polLeft : TryPolicy(p)
    /\ UNCHANGED <<entry, scope, nsLeft, gvrLeft, gvr, resLeft, res,
                   persisted, failed, audited, storeFailed, err, exitCode>>

(***************************************************************************)
(* All policies tried: CreateOrPatchPolicyReport (308-311).  A store error *)
(* is only logged (storeFailed); the pager goes on with the next item.     *)
(***************************************************************************)
(* Mutant: a report without results is not stored. *)
SaveReport_SkipEmpty ==
    /\ pc = "auditPolicy"
    /\ polLeft = {}
    /\ \/ report = {} /\ UNCHANGED <<persisted, storeFailed>>
       \/ /\ report # {}
          /\ persisted' = [persisted EXCEPT ![res] = report]
          /\ UNCHANGED storeFailed
       \/ /\ report # {}
          /\ storeFailed' = storeFailed \cup {res}
          /\ UNCHANGED persisted
    /\ audited' = audited \cup {res}
    /\ pc' = "listItems"
    /\ UNCHANGED <<entry, scope, nsLeft, gvrLeft, gvr, resLeft, res, polLeft,
                   report, verdict, failed, panicAt, err, exitCode>>

SaveReport ==
    /\ pc = "auditPolicy"
    /\ polLeft = {}
    /\ \/ persisted' = [persisted EXCEPT ![res] = report]
          /\ UNCHANGED storeFailed
       \/ storeFailed' = storeFailed \cup {res}
          /\ UNCHANGED persisted
    /\ audited' = audited \cup {res}
    /\ pc' = "listItems"
    /\ UNCHANGED <<entry, scope, nsLeft, gvrLeft, gvr, resLeft, res, polLeft,
                   report, verdict, failed, panicAt, err, exitCode>>

(***************************************************************************)
(* The scan has returned to RunE (root.go:63-67), which returns its error; *)
(* Execute exits with status 1 through log.Fatal when it is not nil, and   *)
(* main returns (status 0) otherwise (root.go:74-78).                      *)
(***************************************************************************)
Execute ==
    /\ pc = "done"
    /\ pc' = "exited"
    /\ exitCode' = IF err = "err" THEN 1 ELSE 0
    /\ UNCHANGED <<entry, scope, nsLeft, gvrLeft, gvr, resLeft, res, polLeft,
                   report, persisted, verdict, failed, audited, storeFailed,
                   panicAt, err>>

Next ==
    \/ RunE
    \/ StartScan
    \/ ScanClusterWideResources
    \/ GetAuditedNamespaces
    \/ NextNamespace
    \/ GetNamespace
    \/ GetPolicies
    \/ NextGVR
    \/ GetResources
    \/ EachListItem
    \/ AuditPolicy
    \/ SaveReport
    \/ Execute

(* The scanner is one goroutine; every collaborator call returns (the HTTP *)
(* client has a 10 s timeout), so it keeps taking steps until it exits.    *)
Spec == Init /\ [][Next]_vars /\ WF_vars(Next)

-----------------------------------------------------------------------------
(***************************************************************************)
(* Properties.                                                             *)
(***************************************************************************)

(* Policies of r's type and scope whose selector matches r's labels. *)
MatchingPolicies(r) ==
    {p \in PoliciesByGVR(NsOf[r], GvrOf[r]) : policyMatches(p, r)}

(***************************************************************************)
(* No request reaches a policy server for a pair the engine must not      *)
(* audit: the policy is bound to the resource's type and scope and its    *)
(* selector, nil or compiling, matches the resource's labels (policyMatches *)
(* and the early continue of auditResource; spec section 8).             *)
(***************************************************************************)
NoCallForNonMatching ==
    \A p \in Policies, r \in Resources :
        verdict[p][r] # "none" => p \in MatchingPolicies(r)

(***************************************************************************)
(* A report this scan stored for r holds exactly one entry per matching   *)
(* policy, and each entry carries the answer the policy server gave for   *)
(* that pair (auditResource's loop and its CreateOrPatchPolicyReport      *)
(* after the loop): no entry is missing, extra, or from another answer.   *)
(***************************************************************************)
ReportMatchesVerdicts ==
    \A r \in Resources : persisted[r] \notin {NoReport, OldReport} =>
        /\ {e.policy : e \in persisted[r]} = MatchingPolicies(r)
        /\ \A e \in persisted[r] :
              /\ ~e.errored
              /\ verdict[e.policy][r] = IF e.allowed THEN "allow" ELSE "deny"

(* The scopes a finished scan was asked to cover. *)
ScopesOfScan ==
    CASE entry = "all"     -> AuditedNs
      [] entry = "ns"      -> {scope}
      [] entry = "cluster" -> {ClusterScope}
      [] OTHER             -> {}

(***************************************************************************)
(* When a scan returns, every scope it covers either returned an error or *)
(* had each of its resources that some policy binds audited: a failing    *)
(* namespace does not stop ScanAllNamespaces from scanning the others      *)
(* (errors.Join, spec scenario D), and the pager delivers every item.     *)
(***************************************************************************)
ScanCoverage ==
    pc = "done" =>
        \A s \in ScopesOfScan \ failed :
            \A g \in GVRs : PoliciesByGVR(s, g) # {} =>
                ResourcesOf(s, g) \subseteq audited

(* Every run of the command ends: the process exits with a status, or     *)
(* panics.                                                                 *)
ScanTerminates == <>(pc \in {"exited", "crashed"})

(***************************************************************************)
(* Spec section 6: the exit status is non-zero exactly when the command    *)
(* met an unrecovered error: building the clients failed (no scan ran), or *)
(* some scope's scan returned an error, including a namespace of           *)
(* ScanAllNamespaces followed by namespaces that succeed (errors.Join,     *)
(* scanner.go:165-168, RunE's return and Execute, root.go:63-78).          *)
(***************************************************************************)
ExitStatusReflectsErrors ==
    pc = "exited" => (exitCode = 1 <=> entry = "none" \/ failed # {})

(***************************************************************************)
(* Spec section 7 lets a store error be logged and the scan go on          *)
(* (scanner.go:308-311).  When the command exits, every resource of a      *)
(* covered scope that some policy binds has a report written by this scan, *)
(* or its failed store call was logged: no resource silently keeps an      *)
(* earlier scan's report, or none.                                         *)
(***************************************************************************)
FreshOrLogged ==
    pc = "exited" =>
        \A s \in ScopesOfScan \ failed, g \in GVRs :
            PoliciesByGVR(s, g) # {} =>
                \A r \in ResourcesOf(s, g) :
                    persisted[r] \notin {NoReport, OldReport} \/ r \in storeFailed

(***************************************************************************)
(* Spec 4.2 and scenario B: a failed call to a policy server becomes an   *)
(* errored result and the scan goes on.  The code panics instead (305).   *)
(***************************************************************************)
ErroredVerdictRecorded == panicAt # "evaluate"

(***************************************************************************)
(* Spec section 7: an enumeration error aborts the scope and is reported; *)
(* it never crashes the process.  A failed GetAuditedNamespaces does (164).*)
(***************************************************************************)
NamespaceListErrorTolerated == panicAt # "nsList"


(***************************************************************************)
(* Each resource's report is stored at most once per scan: once the scan  *)
(* has audited a resource (stored its report, or logged the failed store  *)
(* call), no later step changes its stored report or its logged failure. *)
(* A pager that handed an item out twice (EachListItem, 136-147) would    *)
(* audit it again and overwrite its report with a second round of        *)
(* answers (308-311).                                                    *)
(***************************************************************************)
ReportStoredOnce ==
    [][\A r \in audited :
          persisted'[r] = persisted[r] /\ (r \in storeFailed' <=> r \in storeFailed)]_vars

=============================================================================

------------------------ MODULE ScannerCoverageProofs ------------------------
(***************************************************************************)
(* Proof that a returning scan has covered every scope it was asked to    *)
(* scan (ScanCoverage of Scanner.tla), for every cluster the constants    *)
(* can describe.                                                          *)
(***************************************************************************)
EXTENDS ScannerProofs

(* The control points inside the scan of one scope. *)
InScope == {"getNamespace", "getPolicies", "nextGvr", "getResources",
            "listItems", "auditPolicy"}

(* Every resource of scope s that some policy binds has been audited. *)
Covered(s) ==
    \A g \in GVRs : PoliciesByGVR(s, g) # {} => ResourcesOf(s, g) \subseteq audited

(* The scan of s is over: it returned an error or covered s. *)
ScopeDone(s) == s \in failed \/ Covered(s)

(* Resource type g of the scope being scanned has been listed to the end. *)
GvrDone(g) ==
    PoliciesByGVR(scope, g) # {} => ResourcesOf(scope, g) \subseteq audited

(***************************************************************************)
(* The progress of the three nested loops: the namespaces left behind by  *)
(* ScanAllNamespaces are done, the GVRs the range has passed are listed,  *)
(* and the items the pager has handed out are audited.                    *)
(***************************************************************************)
CovInv ==
    /\ pc \in {"getNsList", "nextNs"} => entry = "all"
    /\ pc \in {"construct", "start"} => entry = "none"
    /\ entry = "cluster" => scope = ClusterScope
    /\ entry = "all" /\ pc \in {"nextNs", "done", "exited"} =>
          \A s \in AuditedNs \ nsLeft : ScopeDone(s)
    /\ entry = "all" /\ pc \in InScope =>
          \A s \in AuditedNs \ (nsLeft \cup {scope}) : ScopeDone(s)
    /\ entry = "all" /\ pc \in {"done", "exited"} => nsLeft = {}
    /\ entry # "all" /\ pc = "done" => ScopeDone(scope)
    /\ entry \in {"ns", "cluster"} /\ pc = "exited" => ScopeDone(scope)
    /\ pc = "nextGvr" => \A g \in GVRs \ gvrLeft : GvrDone(g)
    /\ pc \in {"getResources", "listItems", "auditPolicy"} =>
          \A g \in GVRs \ (gvrLeft \cup {gvr}) : GvrDone(g)
    /\ pc = "listItems" => ResourcesOf(scope, gvr) \ resLeft \subseteq audited
    /\ pc = "auditPolicy" =>
          ResourcesOf(scope, gvr) \ resLeft \subseteq audited \cup {res}

CInv == TypeOK /\ CovInv

-----------------------------------------------------------------------------
(* Auditing more resources and failing more scopes undoes no progress. *)
LEMMA DoneMono ==
    ASSUME audited \subseteq audited', failed \subseteq failed', scope' = scope
    PROVE  /\ \A s \in Scopes : ScopeDone(s) => ScopeDone(s)'
           /\ \A g \in GVRs : GvrDone(g) => GvrDone(g)'
  BY DEF ScopeDone, Covered, GvrDone

(* A scope whose types are all listed is covered. *)
LEMMA AllGvrsDone ==
    (\A g \in GVRs : GvrDone(g)) => Covered(scope)
  BY DEF GvrDone, Covered

(***************************************************************************)
(* ScanReturn ends the scan of the current scope, with an error or after  *)
(* covering it, and keeps CovInv: the scope joins the ones done.          *)
(***************************************************************************)
LEMMA ScanReturnKeeps ==
    ASSUME CovInv, pc \in InScope, NEW e \in BOOLEAN, ScanReturn(e),
           ~e => Covered(scope),
           UNCHANGED <<entry, scope, nsLeft, audited>>
    PROVE  CovInv'
<1>1. ScopeDone(scope)'
  BY DEF ScanReturn, ScopeDone, Covered
<1>2. \A s \in Scopes : ScopeDone(s) => ScopeDone(s)'
  BY DoneMono DEF ScanReturn
<1>3. pc' = IF entry = "all" THEN "nextNs" ELSE "done"
  BY DEF ScanReturn
<1>4. CASE entry = "all"
  <2>1. \A s \in AuditedNs \ (nsLeft \cup {scope}) : ScopeDone(s)
    BY <1>4 DEF CovInv
  <2>2. \A s \in AuditedNs \ nsLeft : ScopeDone(s)'
    BY <1>1, <1>2, <2>1, ConstantsAssumption DEF Scopes
  <2>3. QED
    BY <1>3, <1>4, <2>2 DEF CovInv, InScope
<1>5. CASE entry # "all"
  BY <1>1, <1>3, <1>5 DEF CovInv, InScope
<1>6. QED
  BY <1>4, <1>5

(* The initial state satisfies CInv: no scan has started. *)
LEMMA InitCInv == Init => CInv
  BY InitTypeOK DEF Init, CInv, CovInv

(* Every step keeps CInv. *)
LEMMA CInvStep == CInv /\ [Next]_vars => CInv'
<1> SUFFICES ASSUME CInv, [Next]_vars PROVE CInv'
  OBVIOUS
<1>1. TypeOK'
  BY TypeOKStep DEF CInv
<1>. USE DEF CInv
<1>2. CASE StartScan
  BY <1>1, <1>2 DEF StartScan, CovInv, InScope
<1>3. CASE ScanClusterWideResources
  BY <1>1, <1>3 DEF ScanClusterWideResources, CovInv, InScope
<1>4. CASE GetAuditedNamespaces
  BY <1>1, <1>4 DEF GetAuditedNamespaces, CovInv, InScope
<1>5. CASE NextNamespace
  <2>1. entry = "all"
    BY <1>5 DEF NextNamespace, CovInv
  <2>2. \A s \in AuditedNs \ nsLeft : ScopeDone(s)
    BY <1>5, <2>1 DEF NextNamespace, CovInv
  <2>3. \A s \in Scopes : ScopeDone(s)' = ScopeDone(s)
    BY <1>5 DEF NextNamespace, ScopeDone, Covered
  <2>4. CASE \E n \in nsLeft :
               /\ scope' = n /\ nsLeft' = nsLeft \ {n} /\ pc' = "getNamespace"
    BY <1>1, <1>5, <2>1, <2>2, <2>3, <2>4, ConstantsAssumption
       DEF NextNamespace, CovInv, InScope, Scopes
  <2>5. CASE nsLeft = {} /\ pc' = "done" /\ UNCHANGED <<scope, nsLeft>>
    BY <1>1, <1>5, <2>1, <2>2, <2>3, <2>5, ConstantsAssumption
       DEF NextNamespace, CovInv, InScope, Scopes
  <2>6. QED
    BY <1>5, <2>4, <2>5 DEF NextNamespace
<1>6. CASE GetNamespace
  <2>1. CASE pc' = "getPolicies" /\ UNCHANGED failed
    BY <1>1, <1>6, <2>1 DEF GetNamespace, CovInv, InScope, ScopeDone, Covered
  <2>2. CASE ScanReturn(TRUE)
    <3>1. CovInv /\ pc \in InScope /\ UNCHANGED <<entry, scope, nsLeft, audited>>
      BY <1>6 DEF GetNamespace, InScope
    <3>2. QED
      BY <1>1, <2>2, <3>1, ScanReturnKeeps, Zenon
  <2>3. QED
    BY <1>6, <2>1, <2>2 DEF GetNamespace
<1>7. CASE GetPolicies
  <2>1. CASE /\ gvrLeft' = {g \in GVRs : PoliciesByGVR(scope, g) # {}}
             /\ pc' = "nextGvr"
             /\ UNCHANGED failed
    <3>1. \A g \in GVRs \ gvrLeft' : GvrDone(g)'
      BY <1>7, <2>1 DEF GetPolicies, GvrDone
    <3>2. \A s \in Scopes : ScopeDone(s)' = ScopeDone(s)
      BY <1>7, <2>1 DEF GetPolicies, ScopeDone, Covered
    <3>3. QED
      BY <1>1, <1>7, <2>1, <3>1, <3>2, ConstantsAssumption
         DEF GetPolicies, CovInv, InScope, Scopes
  <2>2. CASE ScanReturn(TRUE) /\ UNCHANGED gvrLeft
    <3>1. CovInv /\ pc \in InScope /\ UNCHANGED <<entry, scope, nsLeft, audited>>
      BY <1>7 DEF GetPolicies, InScope
    <3>2. QED
      BY <1>1, <2>2, <3>1, ScanReturnKeeps, Zenon
  <2>3. QED
    BY <1>7, <2>1, <2>2 DEF GetPolicies
<1>8. CASE NextGVR
  <2>1. \A s \in Scopes : ScopeDone(s)' = ScopeDone(s)
    BY <1>8 DEF NextGVR, ScanReturn, ScopeDone, Covered
  <2>2. CASE \E g \in gvrLeft :
               /\ gvr' = g /\ gvrLeft' = gvrLeft \ {g} /\ pc' = "getResources"
               /\ UNCHANGED failed
    <3>1. \A g \in GVRs : GvrDone(g)' = GvrDone(g)
      BY <1>8 DEF NextGVR, GvrDone
    <3>2. \A g \in GVRs \ gvrLeft : GvrDone(g)
      BY <1>8 DEF NextGVR, CovInv
    <3>3. QED
      BY <1>1, <1>8, <2>1, <2>2, <3>1, <3>2, ConstantsAssumption
         DEF NextGVR, CovInv, InScope, Scopes, TypeOK
  <2>3. CASE gvrLeft = {} /\ ScanReturn(FALSE) /\ UNCHANGED <<gvr, gvrLeft>>
    <3>1. CovInv /\ pc \in InScope /\ UNCHANGED <<entry, scope, nsLeft, audited>>
      BY <1>8 DEF NextGVR, InScope
    <3>2. Covered(scope)
      BY <1>8, <2>3, AllGvrsDone DEF NextGVR, CovInv
    <3>3. QED
      BY <1>1, <2>3, <3>1, <3>2, ScanReturnKeeps, Zenon
  <2>4. QED
    BY <1>8, <2>2, <2>3 DEF NextGVR
<1>9. CASE GetResources
  <2>1. CASE resLeft' = ResourcesOf(scope, gvr) /\ pc' = "listItems"
             /\ UNCHANGED failed
    <3>1. \A s \in Scopes : ScopeDone(s)' = ScopeDone(s)
      BY <1>9, <2>1 DEF GetResources, ScopeDone, Covered
    <3>2. \A g \in GVRs : GvrDone(g)' = GvrDone(g)
      BY <1>9 DEF GetResources, GvrDone
    <3>3. QED
      BY <1>1, <1>9, <2>1, <3>1, <3>2, ConstantsAssumption
         DEF GetResources, CovInv, InScope, Scopes
  <2>2. CASE ScanReturn(TRUE) /\ UNCHANGED resLeft
    <3>1. CovInv /\ pc \in InScope /\ UNCHANGED <<entry, scope, nsLeft, audited>>
      BY <1>9 DEF GetResources, InScope
    <3>2. QED
      BY <1>1, <2>2, <3>1, ScanReturnKeeps, Zenon
  <2>3. QED
    BY <1>9, <2>1, <2>2 DEF GetResources
<1>10. CASE EachListItem
  <2>1. CASE \E r \in resLeft :
               /\ res' = r /\ resLeft' = resLeft \ {r}
               /\ report' = {}
               /\ polLeft' = PoliciesByGVR(scope, gvr)
               /\ pc' = "auditPolicy"
               /\ UNCHANGED failed
    <3>1. \A s \in Scopes : ScopeDone(s)' = ScopeDone(s)
      BY <1>10, <2>1 DEF EachListItem, ScopeDone, Covered
    <3>2. \A g \in GVRs : GvrDone(g)' = GvrDone(g)
      BY <1>10 DEF EachListItem, GvrDone
    <3>3. ResourcesOf(scope, gvr) \ resLeft' \subseteq audited' \cup {res'}
      BY <1>10, <2>1 DEF EachListItem, CovInv
    <3>4. QED
      BY <1>1, <1>10, <2>1, <3>1, <3>2, <3>3, ConstantsAssumption
         DEF EachListItem, CovInv, InScope, Scopes
  <2>2. CASE ScanReturn(TRUE) /\ UNCHANGED <<res, resLeft, report, polLeft>>
    <3>1. CovInv /\ pc \in InScope /\ UNCHANGED <<entry, scope, nsLeft, audited>>
      BY <1>10 DEF EachListItem, InScope
    <3>2. QED
      BY <1>1, <2>2, <3>1, ScanReturnKeeps, Zenon
  <2>3. CASE /\ resLeft = {} /\ pc' = "nextGvr"
             /\ UNCHANGED <<res, resLeft, report, polLeft, failed>>
    <3>1. \A s \in Scopes : ScopeDone(s)' = ScopeDone(s)
      BY <1>10, <2>3 DEF EachListItem, ScopeDone, Covered
    <3>2. \A g \in GVRs : GvrDone(g)' = GvrDone(g)
      BY <1>10 DEF EachListItem, GvrDone
    <3>3. GvrDone(gvr)
      BY <1>10, <2>3 DEF EachListItem, CovInv, GvrDone
    <3>4. \A g \in GVRs \ gvrLeft : GvrDone(g)
      BY <1>10, <3>3 DEF EachListItem, CovInv
    <3>5. QED
      BY <1>1, <1>10, <2>3, <3>1, <3>2, <3>4, ConstantsAssumption
         DEF EachListItem, CovInv, InScope, Scopes
  <2>4. QED
    BY <1>10, <2>1, <2>2, <2>3 DEF EachListItem
<1>11. CASE AuditPolicy
  <2>1. pc' \in {"auditPolicy", "crashed"}
    BY <1>11 DEF AuditPolicy, TryPolicy, RecordAnswer
  <2>2. \A s \in Scopes : ScopeDone(s)' = ScopeDone(s)
    BY <1>11 DEF AuditPolicy, ScopeDone, Covered
  <2>3. QED
    BY <1>1, <1>11, <2>1, <2>2, ConstantsAssumption
       DEF AuditPolicy, CovInv, InScope, Scopes, GvrDone
<1>12. CASE SaveReport
  <2>1. audited' = audited \cup {res}
    BY <1>12 DEF SaveReport
  <2>2. \A s \in Scopes : ScopeDone(s) => ScopeDone(s)'
    BY <1>12, <2>1, DoneMono DEF SaveReport
  <2>3. \A g \in GVRs : GvrDone(g) => GvrDone(g)'
    BY <1>12, <2>1, DoneMono DEF SaveReport
  <2>4. QED
    BY <1>1, <1>12, <2>1, <2>2, <2>3, ConstantsAssumption
       DEF SaveReport, CovInv, InScope, Scopes
<1>13. CASE UNCHANGED vars
  BY <1>1, <1>13 DEF vars, CovInv, ScopeDone, Covered, GvrDone
<1>14. CASE RunE
  BY <1>1, <1>14 DEF RunE, CovInv, InScope
<1>15. CASE Execute
  <2>1. \A s \in Scopes : ScopeDone(s)' = ScopeDone(s)
    BY <1>15 DEF Execute, ScopeDone, Covered
  <2>2. /\ pc = "done" /\ pc' = "exited"
        /\ UNCHANGED <<entry, scope, nsLeft>>
    BY <1>15 DEF Execute
  <2>3. scope \in Scopes /\ AuditedNs \subseteq Scopes
    BY ConstantsAssumption DEF TypeOK, Scopes
  <2>4. entry = "all" => \A s \in AuditedNs \ nsLeft : ScopeDone(s)'
    BY <2>1, <2>2, <2>3 DEF CovInv
  <2>5. entry = "all" => nsLeft' = {}
    BY <2>2 DEF CovInv
  <2>6. entry \in {"ns", "cluster"} => ScopeDone(scope)'
    BY <2>1, <2>2, <2>3 DEF CovInv
  <2>7. entry = "cluster" => scope = ClusterScope
    BY DEF CovInv
  <2>8. QED
    BY <1>1, <2>2, <2>4, <2>5, <2>6, <2>7 DEF CovInv, InScope
<1>16. QED
  BY <1>2, <1>3, <1>4, <1>5, <1>6, <1>7, <1>8, <1>9, <1>10, <1>11, <1>12,
     <1>13, <1>14, <1>15 DEF Next

(* The scopes of the scan, for each entry point. *)
LEMMA ScopesOfScanCases ==
    /\ entry = "all" => ScopesOfScan = AuditedNs
    /\ entry = "ns" => ScopesOfScan = {scope}
    /\ entry = "cluster" => ScopesOfScan = {ClusterScope}
    /\ entry \notin {"all", "ns", "cluster"} => ScopesOfScan = {}
  BY Zenon DEF ScopesOfScan

(***************************************************************************)
(* Once the scan has returned, and after the command has exited, every    *)
(* scope the scan was asked to cover that did not fail is covered.        *)
(***************************************************************************)
LEMMA ScopesCovered ==
    ASSUME CInv, pc \in {"done", "exited"}, NEW s \in ScopesOfScan \ failed
    PROVE  Covered(s)
<1>1. s \in ScopesOfScan /\ s \notin failed
  OBVIOUS
<1>2. entry \in {"none", "ns", "all", "cluster"}
  BY DEF CInv, TypeOK
<1>3. CASE entry = "all"
  <2>1. s \in AuditedNs
    BY <1>1, <1>3, ScopesOfScanCases, Zenon
  <2>2. nsLeft = {}
    BY <1>3 DEF CInv, CovInv
  <2>3. QED
    BY <1>1, <1>3, <2>1, <2>2 DEF CInv, CovInv, ScopeDone
<1>4. CASE entry = "none"
  <2>1. ScopesOfScan = {}
    BY <1>4, ScopesOfScanCases
  <2>2. QED
    BY <1>1, <2>1
<1>5. CASE entry \in {"ns", "cluster"}
  <2>1. s = scope
    <3>1. CASE entry = "ns"
      BY <1>1, <3>1, ScopesOfScanCases
    <3>2. CASE entry = "cluster"
      <4>1. scope = ClusterScope
        BY <3>2 DEF CInv, CovInv
      <4>2. QED
        BY <1>1, <3>2, <4>1, ScopesOfScanCases
    <3>3. QED
      BY <1>5, <3>1, <3>2
  <2>2. ScopeDone(scope)
    BY <1>5 DEF CInv, CovInv
  <2>3. QED
    BY <1>1, <2>1, <2>2 DEF ScopeDone
<1>6. QED
  BY <1>2, <1>3, <1>4, <1>5

(***************************************************************************)
(* When a scan returns, every scope it was asked to cover returned an     *)
(* error or had every resource some policy binds audited: the namespace   *)
(* loop of ScanAllNamespaces goes on past a failing namespace (errors.Join, *)
(* scanner.go 165-168), the range over PoliciesByGVR visits every type,   *)
(* and the pager hands out every item before the scope's scan returns.    *)
(***************************************************************************)
THEOREM CoverageOnReturn == Spec => []ScanCoverage
<1>1. CInv => ScanCoverage
  BY ScopesCovered DEF ScanCoverage, Covered
<1>2. QED
  BY <1>1, InitCInv, CInvStep, PTL DEF Spec

-----------------------------------------------------------------------------
(***************************************************************************)
(* Every audited resource has this scan's report, or its store error was  *)
(* logged.                                                                 *)
(***************************************************************************)
StoreInv ==
    \A r \in audited : persisted[r] \notin {NoReport, OldReport} \/ r \in storeFailed

SInv == TypeOK /\ StoreInv

(* Only SaveReport audits a resource, stores a report or logs a failure. *)
LEMMA StoreFrame ==
    ASSUME [Next]_vars, ~SaveReport
    PROVE  UNCHANGED <<audited, persisted, storeFailed>>
<1>1. CASE RunE \/ StartScan \/ ScanClusterWideResources \/ GetAuditedNamespaces
  BY <1>1 DEF RunE, StartScan, ScanClusterWideResources, GetAuditedNamespaces
<1>2. CASE NextNamespace \/ GetNamespace \/ GetPolicies \/ NextGVR
  BY <1>2 DEF NextNamespace, GetNamespace, GetPolicies, NextGVR
<1>3. CASE GetResources \/ EachListItem \/ AuditPolicy \/ Execute
  BY <1>3 DEF GetResources, EachListItem, AuditPolicy, Execute
<1>4. CASE UNCHANGED vars
  BY <1>4 DEF vars
<1>5. QED
  BY <1>1, <1>2, <1>3, <1>4 DEF Next

LEMMA SInvStep == SInv /\ [Next]_vars => SInv'
<1> SUFFICES ASSUME SInv, [Next]_vars PROVE SInv'
  OBVIOUS
<1>1. TypeOK'
  BY TypeOKStep DEF SInv
<1>2. CASE SaveReport
  <2>1. /\ audited' = audited \cup {res}
        /\ res \in Resources /\ report \subseteq Entry
        /\ persisted \in [Resources -> ReportValue]
    BY <1>2 DEF SaveReport, SInv, TypeOK
  <2>2. report \notin {OldReport, NoReport}
    BY <2>1, ReportAssumption
  <2>3. CASE persisted' = [persisted EXCEPT ![res] = report]
             /\ UNCHANGED storeFailed
    BY <1>1, <2>1, <2>2, <2>3 DEF SInv, StoreInv
  <2>4. CASE storeFailed' = storeFailed \cup {res} /\ UNCHANGED persisted
    BY <1>1, <2>1, <2>4 DEF SInv, StoreInv
  <2>5. QED
    BY <1>1, <1>2, <2>3, <2>4 DEF SaveReport, SInv
<1>3. CASE ~SaveReport
  BY <1>1, <1>3, StoreFrame DEF SInv, StoreInv
<1>4. QED
  BY <1>2, <1>3

(***************************************************************************)
(* Spec section 7 lets a failed store call be logged and the scan go on    *)
(* (scanner.go:308-311): when the command exits, every resource some       *)
(* policy binds in a covered scope has this scan's report, or the failure  *)
(* of its store call was logged; none silently keeps an earlier report.    *)
(***************************************************************************)
THEOREM StoreFailuresLogged == Spec => []FreshOrLogged
<1>1. Init => SInv
  BY InitTypeOK DEF Init, SInv, StoreInv
<1>2. CInv /\ SInv => FreshOrLogged
  BY ScopesCovered DEF FreshOrLogged, Covered, SInv, StoreInv
<1>3. QED
  BY <1>1, <1>2, InitCInv, CInvStep, SInvStep, PTL DEF Spec

-----------------------------------------------------------------------------
(***************************************************************************)
(* The error the scan returns is not nil exactly when some scope failed;  *)
(* no scan has been started while the command is building its clients;    *)
(* and the exit status is 1 when the clients could not be built or the    *)
(* scan returned an error.                                                *)
(***************************************************************************)
ExitInv ==
    /\ err = "err" <=> failed # {}
    /\ entry = "none" => pc \in {"construct", "start", "exited"}
    /\ pc \in {"construct", "start"} => entry = "none"
    /\ pc = "exited" => (exitCode = 1 <=> entry = "none" \/ err = "err")

EInv == TypeOK /\ ExitInv

(* ScanReturn joins the scope's error, if any, into the returned error. *)
LEMMA ScanReturnExit ==
    ASSUME ExitInv, pc \in InScope, NEW e \in BOOLEAN, ScanReturn(e),
           UNCHANGED <<entry, exitCode>>
    PROVE  ExitInv'
  BY DEF ExitInv, ScanReturn, InScope

LEMMA EInvStep == EInv /\ [Next]_vars => EInv'
<1> SUFFICES ASSUME EInv, [Next]_vars PROVE EInv'
  OBVIOUS
<1>1. TypeOK'
  BY TypeOKStep DEF EInv
<1>2. ExitInv
  BY DEF EInv
<1>3. CASE RunE \/ StartScan \/ ScanClusterWideResources \/ Execute
  <2>1. CASE RunE
    BY <1>1, <1>2, <2>1 DEF RunE, EInv, ExitInv
  <2>2. CASE StartScan
    BY <1>1, <1>2, <2>2 DEF StartScan, EInv, ExitInv
  <2>3. CASE ScanClusterWideResources
    BY <1>1, <1>2, <2>3 DEF ScanClusterWideResources, EInv, ExitInv
  <2>4. CASE Execute
    <3>1. entry # "none"
      BY <1>2, <2>4 DEF Execute, ExitInv
    <3>2. QED
      BY <1>1, <1>2, <2>4, <3>1 DEF Execute, EInv, ExitInv
  <2>5. QED
    BY <1>3, <2>1, <2>2, <2>3, <2>4
<1>4. CASE GetAuditedNamespaces \/ NextNamespace \/ AuditPolicy \/ SaveReport
  <2>1. UNCHANGED <<entry, failed, err, exitCode>>
    BY <1>4 DEF GetAuditedNamespaces, NextNamespace, AuditPolicy, SaveReport
  <2>2. pc \notin {"construct", "start", "exited"}
    BY <1>4 DEF GetAuditedNamespaces, NextNamespace, AuditPolicy, SaveReport
  <2>3. pc' \in PCs \ {"construct", "start", "exited"}
    BY <1>4, <1>1
    DEF GetAuditedNamespaces, NextNamespace, AuditPolicy, SaveReport, TypeOK,
        TryPolicy, RecordAnswer
  <2>4. QED
    BY <1>1, <1>2, <2>1, <2>2, <2>3 DEF EInv, ExitInv
<1>5. CASE GetNamespace \/ GetPolicies \/ NextGVR \/ GetResources \/ EachListItem
  <2>1. pc \in InScope /\ UNCHANGED <<entry, exitCode>>
    BY <1>5 DEF GetNamespace, GetPolicies, NextGVR, GetResources, EachListItem,
       InScope
  <2>2. CASE \E e \in BOOLEAN : ScanReturn(e)
    BY <1>1, <1>2, <2>1, <2>2, ScanReturnExit DEF EInv
  <2>3. CASE ~\E e \in BOOLEAN : ScanReturn(e)
    <3>1. UNCHANGED <<failed, err>> /\ pc' \in InScope \cup {"nextGvr"}
      BY <1>5, <2>3
      DEF GetNamespace, GetPolicies, NextGVR, GetResources, EachListItem, InScope
    <3>2. QED
      BY <1>1, <1>2, <2>1, <3>1 DEF EInv, ExitInv, InScope
  <2>4. QED
    BY <2>2, <2>3
<1>6. CASE UNCHANGED vars
  BY <1>1, <1>2, <1>6 DEF vars, EInv, ExitInv
<1>7. QED
  BY <1>3, <1>4, <1>5, <1>6 DEF Next

(***************************************************************************)
(* Spec section 6: the command exits with a non-zero status exactly when   *)
(* it met an unrecovered error: its clients could not be built, or some    *)
(* scope's scan failed, even when later namespaces of ScanAllNamespaces    *)
(* succeed (errors.Join at scanner.go:167; RunE and Execute, root.go).     *)
(***************************************************************************)
THEOREM ExitStatusCorrect == Spec => []ExitStatusReflectsErrors
<1>1. Init => EInv
  BY InitTypeOK DEF Init, EInv, ExitInv
<1>2. EInv => ExitStatusReflectsErrors
  BY DEF EInv, ExitInv, ExitStatusReflectsErrors
<1>3. QED
  BY <1>1, <1>2, EInvStep, PTL DEF Spec


-----------------------------------------------------------------------------
(* The step ReportStoredOnce allows: audited resources keep their report *)
(* and their logged failure.                                             *)
StoredOnceAct ==
    \A r \in audited :
        persisted'[r] = persisted[r] /\ (r \in storeFailed' <=> r \in storeFailed)

(* SaveReport stores the report of a resource not yet audited (AuditOnce); *)
(* no other step touches the store.                                       *)
LEMMA StoredOnceStep == IInv /\ [Next]_vars => [StoredOnceAct]_vars
<1> SUFFICES ASSUME IInv, [Next]_vars PROVE StoredOnceAct
  OBVIOUS
<1>1. CASE SaveReport
  <2>1. /\ pc = "auditPolicy"
        /\ res \notin audited
        /\ persisted \in [Resources -> ReportValue]
    BY <1>1 DEF SaveReport, IInv, AuditOnce, TypeOK
  <2>2. CASE persisted' = [persisted EXCEPT ![res] = report]
             /\ UNCHANGED storeFailed
    BY <2>1, <2>2 DEF StoredOnceAct
  <2>3. CASE storeFailed' = storeFailed \cup {res}
             /\ UNCHANGED persisted
    BY <2>1, <2>3 DEF StoredOnceAct
  <2>4. QED
    BY <1>1, <2>2, <2>3 DEF SaveReport
<1>2. CASE ~SaveReport
  BY <1>2, StoreFrame DEF StoredOnceAct
<1>3. QED
  BY <1>1, <1>2

(***************************************************************************)
(* CreateOrPatchPolicyReport is reached once per resource and scan: once a *)
(* resource has been audited its stored report, or its logged store       *)
(* failure, never changes again in the scan (scanner.go 136-147, 308-311). *)
(***************************************************************************)
THEOREM ReportsStoredOnce == Spec => ReportStoredOnce
<1>1. IInv /\ [Next]_vars => [StoredOnceAct]_vars
  BY StoredOnceStep
<1>2. QED
  BY <1>1, InitIInv, IInvStep, PTL DEF Spec, ReportStoredOnce, StoredOnceAct

=============================================================================

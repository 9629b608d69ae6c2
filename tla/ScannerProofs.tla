--------------------------- MODULE ScannerProofs ---------------------------
(***************************************************************************)
(* Proofs about the audit engine of Scanner.tla, for every cluster the     *)
(* constants can describe.                                                 *)
(***************************************************************************)
EXTENDS Scanner, TLAPS

(* The answer an entry records. *)
AnswerOf(e) == IF e.allowed THEN "allow" ELSE "deny"

(* r has not been touched by this scan: no stored report, no call. *)
Fresh(r) ==
    /\ persisted[r] \in {NoReport, OldReport}
    /\ \A p \in Policies : verdict[p][r] = "none"

(***************************************************************************)
(* Each resource is audited at most once per scan: the scopes, types and   *)
(* items still to visit hold no resource already audited.                  *)
(***************************************************************************)
AuditOnce ==
    /\ pc \in {"construct", "start", "getNsList"} => audited = {} /\ nsLeft = {}
    /\ \A r \in audited : NsOf[r] \notin nsLeft
    /\ pc \in {"getNamespace", "getPolicies", "nextGvr", "getResources",
               "listItems", "auditPolicy"} => scope \notin nsLeft
    /\ pc \in {"getNamespace", "getPolicies"} =>
          \A r \in audited : NsOf[r] # scope
    /\ pc \in {"nextGvr", "getResources", "listItems", "auditPolicy"} =>
          \A r \in audited : NsOf[r] = scope => GvrOf[r] \notin gvrLeft
    /\ pc \in {"getResources", "listItems", "auditPolicy"} => gvr \notin gvrLeft
    /\ pc = "getResources" =>
          \A r \in audited : ~(NsOf[r] = scope /\ GvrOf[r] = gvr)
    /\ pc \in {"listItems", "auditPolicy"} =>
          /\ resLeft \subseteq ResourcesOf(scope, gvr)
          /\ resLeft \cap audited = {}
    /\ pc = "auditPolicy" =>
          /\ res \in ResourcesOf(scope, gvr)
          /\ res \notin audited \cup resLeft
          /\ polLeft \subseteq PoliciesByGVR(scope, gvr)

(* Resources outside the scan so far are fresh; the one being audited has *)
(* been asked only about the policies already tried.                      *)
Untouched ==
    \A r \in Resources \ audited :
        \/ /\ pc \in {"auditPolicy", "crashed"} /\ r = res
           /\ persisted[r] \in {NoReport, OldReport}
           /\ \A p \in polLeft : verdict[p][r] = "none"
        \/ Fresh(r)

(* The report being filled matches the answers for the policies tried. *)
ReportSoFar ==
    pc = "auditPolicy" =>
        /\ {e.policy : e \in report} =
              {p \in PoliciesByGVR(scope, gvr) \ polLeft : policyMatches(p, res)}
        /\ \A e \in report :
              /\ ~e.errored
              /\ verdict[e.policy][res] = AnswerOf(e)

(* Only audited resources have a report of this scan. *)
StoredOnlyAudited ==
    \A r \in Resources : persisted[r] \notin {NoReport, OldReport} => r \in audited

IInv ==
    /\ TypeOK
    /\ AuditOnce
    /\ Untouched
    /\ ReportSoFar
    /\ StoredOnlyAudited
    /\ NoCallForNonMatching
    /\ ReportMatchesVerdicts

-----------------------------------------------------------------------------
(* One step of the engine keeps every variable in its domain. *)
LEMMA TypeOKStep == TypeOK /\ [Next]_vars => TypeOK'
<1> SUFFICES ASSUME TypeOK, [Next]_vars PROVE TypeOK'
  OBVIOUS
<1>. USE ConstantsAssumption DEF TypeOK, PCs, Scopes
<1>1. CASE StartScan \/ ScanClusterWideResources
  BY <1>1 DEF StartScan, ScanClusterWideResources
<1>2. CASE GetAuditedNamespaces
  BY <1>2 DEF GetAuditedNamespaces
<1>3. CASE NextNamespace
  BY <1>3 DEF NextNamespace
<1>4. CASE GetNamespace
  BY <1>4 DEF GetNamespace, ScanReturn
<1>5. CASE GetPolicies
  BY <1>5 DEF GetPolicies, ScanReturn
<1>6. CASE NextGVR
  BY <1>6 DEF NextGVR, ScanReturn
<1>7. CASE GetResources
  BY <1>7 DEF GetResources, ScanReturn, ResourcesOf
<1>8. CASE EachListItem
  BY <1>8 DEF EachListItem, ScanReturn, PoliciesByGVR
<1>9. CASE AuditPolicy
  <2>1. PICK p \in polLeft : TryPolicy(p)
    BY <1>9 DEF AuditPolicy
  <2>2. CASE ~policyMatches(p, res)
    BY <1>9, <2>1, <2>2 DEF AuditPolicy, TryPolicy
  <2>3. CASE policyMatches(p, res)
    <3>1. PICK v \in sendAdmissionReviewToPolicyServer : RecordAnswer(p, v)
      BY <2>1, <2>3 DEF TryPolicy
    <3>2. verdict' \in [Policies -> [Resources -> Verdicts]]
      BY <3>1 DEF sendAdmissionReviewToPolicyServer, Verdicts, RecordAnswer
    <3>3. report' \subseteq Entry
      <4>1. CASE v = "fail"
        BY <3>1, <4>1 DEF RecordAnswer
      <4>2. CASE v # "fail"
        <5>1. [policy |-> p, allowed |-> v = "allow", errored |-> FALSE] \in Entry
          BY <2>1 DEF Entry
        <5>2. QED
          BY <3>1, <4>2, <5>1 DEF RecordAnswer
      <4>3. QED
        BY <4>1, <4>2
    <3>4. QED
      BY <1>9, <2>1, <3>1, <3>2, <3>3 DEF AuditPolicy, TryPolicy, RecordAnswer
  <2>4. QED
    BY <2>2, <2>3
<1>10. CASE SaveReport
  BY <1>10 DEF SaveReport, ReportValue
<1>11. CASE UNCHANGED vars
  BY <1>11 DEF vars
<1>12. CASE RunE \/ Execute
  BY <1>12 DEF RunE, Execute
<1>13. QED
  BY <1>1, <1>2, <1>3, <1>4, <1>5, <1>6, <1>7, <1>8, <1>9, <1>10, <1>11,
     <1>12 DEF Next

(* The initial states are well typed. *)
LEMMA InitTypeOK == Init => TypeOK
<1> SUFFICES ASSUME Init PROVE TypeOK
  OBVIOUS
<1>1. gvr \in GVRs /\ res \in Resources
  BY ConstantsAssumption DEF Init
<1>2. persisted \in [Resources -> ReportValue]
  <2>1. persisted \in [Resources -> {NoReport, OldReport}]
    BY DEF Init
  <2>2. {NoReport, OldReport} \subseteq ReportValue
    BY DEF ReportValue
  <2>3. QED
    BY <2>1, <2>2, Zenon
<1>3. verdict \in [Policies -> [Resources -> Verdicts]]
  BY DEF Init, Verdicts
<1>4. QED
  BY <1>1, <1>2, <1>3, ConstantsAssumption DEF Init, TypeOK, PCs, Scopes

(***************************************************************************)
(* Type correctness: every step of the engine keeps each variable in its   *)
(* domain, for any cluster, policy set and selector the constants give.    *)
(***************************************************************************)
THEOREM TypeCorrect == Spec => []TypeOK
<1>1. Init => TypeOK
  BY InitTypeOK
<1>2. QED
  BY <1>1, TypeOKStep, PTL DEF Spec


(* One step of the engine keeps the inductive invariant. *)
LEMMA IInvStep == IInv /\ [Next]_vars => IInv'
<1> SUFFICES ASSUME IInv, [Next]_vars PROVE IInv'
  OBVIOUS
<1>0. TypeOK'
  BY TypeOKStep DEF IInv
<1>1. CASE StartScan \/ ScanClusterWideResources
  BY <1>0, <1>1 DEF StartScan, ScanClusterWideResources, IInv, AuditOnce,
     Untouched, Fresh, ReportSoFar, StoredOnlyAudited, NoCallForNonMatching,
     ReportMatchesVerdicts, MatchingPolicies
<1>2. CASE GetAuditedNamespaces
  BY <1>0, <1>2 DEF GetAuditedNamespaces, IInv, AuditOnce,
     Untouched, Fresh, ReportSoFar, StoredOnlyAudited, NoCallForNonMatching,
     ReportMatchesVerdicts, MatchingPolicies
<1>3. CASE NextNamespace
  BY <1>0, <1>3 DEF NextNamespace, IInv, AuditOnce,
     Untouched, Fresh, ReportSoFar, StoredOnlyAudited, NoCallForNonMatching,
     ReportMatchesVerdicts, MatchingPolicies
<1>4. CASE GetNamespace
  BY <1>0, <1>4 DEF GetNamespace, ScanReturn, IInv, AuditOnce,
     Untouched, Fresh, ReportSoFar, StoredOnlyAudited, NoCallForNonMatching,
     ReportMatchesVerdicts, MatchingPolicies
<1>5. CASE GetPolicies
  BY <1>0, <1>5 DEF GetPolicies, ScanReturn, IInv, AuditOnce,
     Untouched, Fresh, ReportSoFar, StoredOnlyAudited, NoCallForNonMatching,
     ReportMatchesVerdicts, MatchingPolicies
<1>6. CASE NextGVR
  BY <1>0, <1>6 DEF NextGVR, ScanReturn, IInv, AuditOnce,
     Untouched, Fresh, ReportSoFar, StoredOnlyAudited, NoCallForNonMatching,
     ReportMatchesVerdicts, MatchingPolicies
<1>7. CASE GetResources
  <2>1. CASE /\ resLeft' = ResourcesOf(scope, gvr) /\ pc' = "listItems"
             /\ UNCHANGED <<failed, entry, scope, nsLeft, gvrLeft, gvr, res,
                            polLeft, report, persisted, verdict, audited,
                            panicAt>>
    <3>1. AuditOnce'
      <4>1. AuditOnce
        BY DEF IInv
      <4>2. resLeft' \cap audited' = {}
        BY <4>1, <1>7, <2>1 DEF AuditOnce, ResourcesOf, GetResources
      <4>3. QED
        BY <4>1, <4>2, <1>7, <2>1 DEF AuditOnce, GetResources
    <3>2. Untouched'
      BY <1>0, <1>7, <2>1 DEF GetResources, ResourcesOf, IInv, Untouched, Fresh
    <3>3. ReportSoFar'
      BY <1>0, <1>7, <2>1 DEF GetResources, ResourcesOf, IInv, ReportSoFar
    <3>4. StoredOnlyAudited'
      BY <1>0, <1>7, <2>1 DEF GetResources, ResourcesOf, IInv, StoredOnlyAudited
    <3>5. NoCallForNonMatching'
      BY <1>0, <1>7, <2>1 DEF GetResources, ResourcesOf, IInv, NoCallForNonMatching, MatchingPolicies
    <3>6. ReportMatchesVerdicts'
      BY <1>0, <1>7, <2>1 DEF GetResources, ResourcesOf, IInv, ReportMatchesVerdicts, MatchingPolicies
    <3>7. QED
      BY <1>0, <3>1, <3>2, <3>3, <3>4, <3>5, <3>6 DEF IInv
  <2>2. CASE /\ ScanReturn(TRUE)
             /\ UNCHANGED <<resLeft, entry, scope, nsLeft, gvrLeft, gvr, res,
                            polLeft, report, persisted, verdict, audited,
                            panicAt>>
    <3>1. AuditOnce'
      BY <1>0, <1>7, <2>2 DEF GetResources, ScanReturn, IInv, AuditOnce
    <3>2. Untouched'
      BY <1>0, <1>7, <2>2 DEF GetResources, ScanReturn, IInv, Untouched, Fresh
    <3>3. ReportSoFar'
      BY <1>0, <1>7, <2>2 DEF GetResources, ScanReturn, IInv, ReportSoFar
    <3>4. StoredOnlyAudited'
      BY <1>0, <1>7, <2>2 DEF GetResources, ScanReturn, IInv, StoredOnlyAudited
    <3>5. NoCallForNonMatching'
      BY <1>0, <1>7, <2>2 DEF GetResources, ScanReturn, IInv, NoCallForNonMatching, MatchingPolicies
    <3>6. ReportMatchesVerdicts'
      BY <1>0, <1>7, <2>2 DEF GetResources, ScanReturn, IInv, ReportMatchesVerdicts, MatchingPolicies
    <3>7. QED
      BY <1>0, <3>1, <3>2, <3>3, <3>4, <3>5, <3>6 DEF IInv
  <2>3. QED
    BY <1>7, <2>1, <2>2 DEF GetResources
<1>8. CASE EachListItem
  BY <1>0, <1>8 DEF EachListItem, ScanReturn, IInv, AuditOnce,
     Untouched, Fresh, ReportSoFar, StoredOnlyAudited, NoCallForNonMatching,
     ReportMatchesVerdicts, MatchingPolicies
<1>9. CASE AuditPolicy
  <2>1. PICK p \in polLeft : TryPolicy(p)
    BY <1>9 DEF AuditPolicy
  <2>2. /\ pc = "auditPolicy"
        /\ UNCHANGED <<entry, scope, nsLeft, gvrLeft, gvr, resLeft, res,
                       persisted, failed, audited>>
    BY <1>9 DEF AuditPolicy
  <2>3. /\ AuditOnce /\ Untouched /\ ReportSoFar /\ StoredOnlyAudited
        /\ NoCallForNonMatching /\ ReportMatchesVerdicts /\ TypeOK
    BY DEF IInv
  <2>4. /\ p \in PoliciesByGVR(scope, gvr)
        /\ res \in ResourcesOf(scope, gvr)
        /\ res \notin audited
        /\ PoliciesByGVR(scope, gvr) = PoliciesByGVR(NsOf[res], GvrOf[res])
    BY <2>1, <2>2, <2>3 DEF AuditOnce, ResourcesOf
  <2>5. persisted[res] \in {NoReport, OldReport}
    BY <2>2, <2>3, <2>4 DEF Untouched, Fresh, ResourcesOf
  <2>6. polLeft' = polLeft \ {p}
    BY <2>1 DEF TryPolicy
  <2>7. AuditOnce'
    <3>1. pc' \in {"auditPolicy", "crashed"}
      BY <2>1, <2>2 DEF TryPolicy, RecordAnswer
    <3>2. polLeft' \subseteq PoliciesByGVR(scope, gvr)
      BY <2>2, <2>3, <2>6 DEF AuditOnce
    <3>3. QED
      BY <2>2, <2>3, <3>1, <3>2 DEF AuditOnce
  <2>8. CASE ~policyMatches(p, res)
    <3>1. UNCHANGED <<pc, report, verdict, panicAt>>
      BY <2>1, <2>8 DEF TryPolicy
    <3>2. Untouched'
      BY <2>2, <2>3, <2>6, <3>1 DEF Untouched, Fresh
    <3>3. ReportSoFar'
      BY <2>2, <2>3, <2>6, <2>8, <3>1 DEF ReportSoFar
    <3>4. StoredOnlyAudited' /\ NoCallForNonMatching' /\ ReportMatchesVerdicts'
      BY <2>2, <2>3, <3>1 DEF StoredOnlyAudited, NoCallForNonMatching,
         ReportMatchesVerdicts, MatchingPolicies
    <3>5. QED
      BY <1>0, <2>7, <3>2, <3>3, <3>4 DEF IInv
  <2>9. CASE policyMatches(p, res)
    <3>1. PICK v \in sendAdmissionReviewToPolicyServer : RecordAnswer(p, v)
      BY <2>1, <2>9 DEF TryPolicy
    <3>2. \A q \in Policies, r \in Resources :
            verdict'[q][r] = IF q = p /\ r = res THEN v ELSE verdict[q][r]
      BY <2>1, <2>3, <3>1 DEF RecordAnswer, TypeOK
    <3>3. NoCallForNonMatching'
      BY <2>2, <2>3, <2>4, <2>9, <3>2 DEF NoCallForNonMatching, MatchingPolicies,
         TypeOK, PoliciesByGVR
    <3>4. StoredOnlyAudited'
      BY <2>2, <2>3 DEF StoredOnlyAudited
    <3>5. ReportMatchesVerdicts'
      <4> SUFFICES ASSUME NEW r \in Resources,
                          persisted'[r] \notin {NoReport, OldReport}
                   PROVE  /\ {e.policy : e \in persisted'[r]} = MatchingPolicies(r)
                          /\ \A e \in persisted'[r] :
                                /\ ~e.errored
                                /\ verdict'[e.policy][r] =
                                      IF e.allowed THEN "allow" ELSE "deny"
        BY DEF ReportMatchesVerdicts
      <4>1. r # res /\ persisted'[r] = persisted[r]
        BY <2>2, <2>5
      <4>2. persisted[r] \subseteq Entry
        BY <2>3, <4>1 DEF TypeOK, ReportValue
      <4>3. \A q \in Policies : verdict'[q][r] = verdict[q][r]
        BY <3>2, <4>1
      <4>4. QED
        BY <2>3, <4>1, <4>2, <4>3 DEF ReportMatchesVerdicts, Entry
    <3>6. CASE v = "fail"
      <4>1. pc' = "crashed" /\ UNCHANGED report
        BY <3>1, <3>6 DEF RecordAnswer
      <4>2. Untouched'
        BY <2>2, <2>3, <2>5, <2>6, <3>2, <4>1 DEF Untouched, Fresh, TypeOK
      <4>3. ReportSoFar'
        BY <4>1 DEF ReportSoFar
      <4>4. QED
        BY <1>0, <2>7, <3>3, <3>4, <3>5, <4>2, <4>3 DEF IInv
    <3>7. CASE v # "fail"
      <4>1. /\ report' = report \cup
                  {[policy |-> p, allowed |-> v = "allow", errored |-> FALSE]}
            /\ UNCHANGED pc
        BY <3>1, <3>7 DEF RecordAnswer
      <4>2. Untouched'
        BY <2>2, <2>3, <2>5, <2>6, <3>2, <4>1 DEF Untouched, Fresh, TypeOK
      <4>3. ReportSoFar'
        <5>1. {e.policy : e \in report'} =
                {q \in PoliciesByGVR(scope, gvr) \ polLeft' : policyMatches(q, res)}
          <6>1. {e.policy : e \in report'} = {e.policy : e \in report} \cup {p}
            <7> DEFINE new == [policy |-> p, allowed |-> v = "allow", errored |-> FALSE]
            <7>1. new.policy = p
              OBVIOUS
            <7>2. report' = report \cup {new}
              BY <4>1
            <7>3. QED
              BY <7>1, <7>2, Zenon
          <6>2. {q \in PoliciesByGVR(scope, gvr) \ polLeft' : policyMatches(q, res)}
                = {q \in PoliciesByGVR(scope, gvr) \ polLeft : policyMatches(q, res)}
                  \cup {p}
            BY <2>4, <2>6, <2>9
          <6>3. QED
            BY <2>2, <2>3, <6>1, <6>2 DEF ReportSoFar
        <5>2. \A e \in report' : ~e.errored /\ verdict'[e.policy][res] = AnswerOf(e)
          <6>1. \A e \in report : e.policy # p /\ e.policy \in Policies
            BY <2>1, <2>2, <2>3 DEF ReportSoFar, TypeOK, Entry
          <6>2. p \in Policies /\ res \in Resources
            BY <2>1, <2>3 DEF TypeOK
          <6>3. ASSUME NEW e \in report
                PROVE  ~e.errored /\ verdict'[e.policy][res] = AnswerOf(e)
            BY <2>2, <2>3, <3>2, <6>1, <6>2 DEF ReportSoFar
          <6>4. LET new == [policy |-> p, allowed |-> v = "allow", errored |-> FALSE]
                IN  ~new.errored /\ verdict'[new.policy][res] = AnswerOf(new)
            BY <3>1, <3>2, <3>7, <6>2 DEF AnswerOf, sendAdmissionReviewToPolicyServer
          <6>5. QED
            BY <4>1, <6>3, <6>4
        <5>3. QED
          BY <2>2, <4>1, <5>1, <5>2 DEF ReportSoFar
      <4>4. QED
        BY <1>0, <2>7, <3>3, <3>4, <3>5, <4>2, <4>3 DEF IInv
    <3>8. QED
      BY <3>6, <3>7
  <2>10. QED
    BY <2>8, <2>9
<1>10. CASE SaveReport
  <2>1. /\ pc = "auditPolicy" /\ polLeft = {}
        /\ audited' = audited \cup {res} /\ pc' = "listItems"
        /\ UNCHANGED <<entry, scope, nsLeft, gvrLeft, gvr, resLeft, res,
                       polLeft, report, verdict, failed, panicAt>>
    BY <1>10 DEF SaveReport
  <2>2. /\ AuditOnce /\ Untouched /\ ReportSoFar /\ StoredOnlyAudited
        /\ NoCallForNonMatching /\ ReportMatchesVerdicts /\ TypeOK
    BY DEF IInv
  <2>3. /\ res \in Resources /\ NsOf[res] = scope /\ GvrOf[res] = gvr
        /\ res \notin audited \cup resLeft
        /\ PoliciesByGVR(scope, gvr) = PoliciesByGVR(NsOf[res], GvrOf[res])
    BY <2>1, <2>2 DEF AuditOnce, ResourcesOf
  <2>4. /\ \A r \in Resources \ {res} : persisted'[r] = persisted[r]
        /\ persisted'[res] \in {report, persisted[res]}
    BY <1>10, <2>2, <2>3 DEF SaveReport, TypeOK
  <2>5. persisted[res] \in {NoReport, OldReport}
    BY <2>2, <2>3 DEF Untouched, Fresh
  <2>6. AuditOnce'
    BY <2>1, <2>2, <2>3 DEF AuditOnce
  <2>7. Untouched'
    BY <2>1, <2>2, <2>3, <2>4 DEF Untouched, Fresh
  <2>8. ReportSoFar'
    BY <2>1 DEF ReportSoFar
  <2>9. StoredOnlyAudited'
    BY <2>1, <2>2, <2>4 DEF StoredOnlyAudited
  <2>10. NoCallForNonMatching'
    BY <2>1, <2>2 DEF NoCallForNonMatching, MatchingPolicies
  <2>11. ReportMatchesVerdicts'
    <3> SUFFICES ASSUME NEW r \in Resources,
                        persisted'[r] \notin {NoReport, OldReport}
                 PROVE  /\ {e.policy : e \in persisted'[r]} = MatchingPolicies(r)
                        /\ \A e \in persisted'[r] :
                              /\ ~e.errored
                              /\ verdict'[e.policy][r] =
                                    IF e.allowed THEN "allow" ELSE "deny"
      BY DEF ReportMatchesVerdicts
    <3>1. CASE r # res
      BY <2>1, <2>2, <2>4, <3>1 DEF ReportMatchesVerdicts
    <3>2. CASE r = res
      <4>1. persisted'[r] = report
        BY <2>4, <2>5, <3>2
      <4>2. {p \in PoliciesByGVR(scope, gvr) \ polLeft : policyMatches(p, res)}
              = MatchingPolicies(res)
        BY <2>1, <2>3 DEF MatchingPolicies
      <4>3. QED
        BY <2>1, <2>2, <3>2, <4>1, <4>2 DEF ReportSoFar, AnswerOf
    <3>3. QED
      BY <3>1, <3>2
  <2>12. QED
    BY <1>0, <2>6, <2>7, <2>8, <2>9, <2>10, <2>11 DEF IInv
<1>11. CASE UNCHANGED vars
  BY <1>0, <1>11 DEF vars, IInv, AuditOnce,
     Untouched, Fresh, ReportSoFar, StoredOnlyAudited, NoCallForNonMatching,
     ReportMatchesVerdicts, MatchingPolicies
<1>12. CASE RunE \/ Execute
  BY <1>0, <1>12 DEF RunE, Execute, IInv, AuditOnce,
     Untouched, Fresh, ReportSoFar, StoredOnlyAudited, NoCallForNonMatching,
     ReportMatchesVerdicts, MatchingPolicies
<1>13. QED
  BY <1>1, <1>2, <1>3, <1>4, <1>5, <1>6, <1>7, <1>8, <1>9, <1>10, <1>11,
     <1>12 DEF Next

(* The initial states satisfy the inductive invariant: nothing audited, no *)
(* call made, and every stored report predates the scan.                   *)
LEMMA InitIInv == Init => IInv
<1> SUFFICES ASSUME Init PROVE IInv
  OBVIOUS
<1>1. TypeOK
  BY InitTypeOK
<1>2. \A r \in Resources : Fresh(r)
  BY DEF Init, Fresh
<1>3. AuditOnce /\ ReportSoFar
  BY DEF Init, AuditOnce, ReportSoFar
<1>4. Untouched
  BY <1>2 DEF Init, Untouched
<1>5. StoredOnlyAudited /\ ReportMatchesVerdicts
  BY DEF Init, StoredOnlyAudited, ReportMatchesVerdicts
<1>6. NoCallForNonMatching
  BY DEF Init, NoCallForNonMatching
<1>7. QED
  BY <1>1, <1>3, <1>4, <1>5, <1>6 DEF IInv

(***************************************************************************)
(* Every report the scanner stores for a resource lists exactly the        *)
(* policies that are bound to the resource and whose selector matches it,  *)
(* each with the answer its policy server gave (auditResource and          *)
(* policyMatches, whatever order PoliciesByGVR and the pager return).      *)
(***************************************************************************)
THEOREM ReportsMatchVerdicts == Spec => []ReportMatchesVerdicts
<1>1. IInv => ReportMatchesVerdicts
  BY DEF IInv
<1>2. QED
  BY <1>1, InitIInv, IInvStep, PTL DEF Spec

(***************************************************************************)
(* The scanner never posts an AdmissionReview for a policy that is not     *)
(* bound to the resource's type and scope or whose selector does not match *)
(* (the early continue of auditResource on policyMatches).                 *)
(***************************************************************************)
THEOREM NoStrayCalls == Spec => []NoCallForNonMatching
<1>1. IInv => NoCallForNonMatching
  BY DEF IInv
<1>2. QED
  BY <1>1, InitIInv, IInvStep, PTL DEF Spec
=============================================================================

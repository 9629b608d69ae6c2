-------------------------- MODULE ReportSaveProofs --------------------------
(***************************************************************************)
(* Proofs about PolicyReportStore.Save (ReportSave.tla), for any number of *)
(* concurrent saves, any retry budget and any behaviour of other clients.  *)
(***************************************************************************)
EXTENDS ReportSave, TLAPS

(***************************************************************************)
(* The retry loop's bookkeeping: every Update follows its own run of the   *)
(* closure, a save at the Update has not issued it yet, a save about to    *)
(* re-read has budget left, and a save has returned exactly when done.     *)
(***************************************************************************)
LoopInv ==
    \A s \in Savers :
        /\ updates[s] <= attempts[s]
        /\ spc[s] = "update" => updates[s] < attempts[s]
        /\ spc[s] \in {"get", "create"} => attempts[s] = 0
        /\ spc[s] = "retryGet" => attempts[s] < Steps
        /\ spc[s] = "done" <=> ret[s] # "none"

SaveInv == TypeOK /\ LoopInv

-----------------------------------------------------------------------------
(* The initial states satisfy SaveInv. *)
LEMMA InitSaveInv == Init => SaveInv
  BY SaveAssumption DEF Init, SaveInv, TypeOK, LoopInv, Objects

(* Every step of a save or of another client keeps SaveInv. *)
LEMMA SaveInvStep == SaveInv /\ [Next]_vars => SaveInv'
<1> SUFFICES ASSUME SaveInv, [Next]_vars PROVE SaveInv'
  OBVIOUS
<1>. USE SaveAssumption DEF SaveInv, TypeOK, LoopInv, Objects
<1>1. ASSUME NEW s \in Savers, SaveGet(s) PROVE SaveInv'
  BY <1>1 DEF SaveGet
<1>2. ASSUME NEW s \in Savers, SaveCreate(s) PROVE SaveInv'
  <2>1. CASE obj = NoObj /\ Write(s) /\ Finish(s, "nil", TRUE)
    BY <1>2, <2>1 DEF SaveCreate, Write, Finish
  <2>2. CASE Finish(s, "err", FALSE) /\ UNCHANGED <<obj, rvCount>>
    BY <1>2, <2>2 DEF SaveCreate, Finish
  <2>3. QED
    BY <1>2, <2>1, <2>2 DEF SaveCreate
<1>3. ASSUME NEW s \in Savers, RetryGet(s) PROVE SaveInv'
  <2>1. CASE Finish(s, "nil", FALSE) /\ UNCHANGED myRV
    BY <1>3, <2>1 DEF RetryGet, Finish
  <2>2. CASE /\ obj # NoObj
             /\ myRV' = [myRV EXCEPT ![s] = obj.rv]
             /\ spc' = [spc EXCEPT ![s] = "update"]
             /\ UNCHANGED <<ret, wrote>>
    BY <1>3, <2>2 DEF RetryGet
  <2>3. QED
    BY <1>3, <2>1, <2>2 DEF RetryGet
<1>4. ASSUME NEW s \in Savers, SaveUpdate(s) PROVE SaveInv'
  <2>1. CASE Write(s) /\ Finish(s, "nil", TRUE) /\ UNCHANGED conflicts
    BY <1>4, <2>1 DEF SaveUpdate, Write, Finish
  <2>2. CASE /\ conflicts' = [conflicts EXCEPT ![s] = @ + 1]
             /\ UNCHANGED <<obj, rvCount>>
             /\ attempts[s] < Steps
             /\ spc' = [spc EXCEPT ![s] = "retryGet"] /\ UNCHANGED <<ret, wrote>>
    BY <1>4, <2>2 DEF SaveUpdate
  <2>3. CASE Finish(s, "nil", FALSE) /\ UNCHANGED <<obj, rvCount>>
             /\ (conflicts' = [conflicts EXCEPT ![s] = @ + 1] \/ UNCHANGED conflicts)
    BY <1>4, <2>3 DEF SaveUpdate, Finish
  <2>4. QED
    BY <1>4, <2>1, <2>2, <2>3 DEF SaveUpdate
<1>5. CASE ExtWrite
  BY <1>5 DEF ExtWrite, Write
<1>6. CASE ExtDelete
  BY <1>6 DEF ExtDelete
<1>7. CASE UNCHANGED vars
  BY <1>7 DEF vars
<1>8. CASE Cancel
  BY <1>8 DEF Cancel
<1>9. QED
  BY <1>1, <1>2, <1>3, <1>4, <1>5, <1>6, <1>7, <1>8 DEF Next, SaverStep

(***************************************************************************)
(* Type correctness of Save: every variable stays in its domain, and no   *)
(* save runs the RetryOnConflict closure more than Steps times.          *)
(***************************************************************************)
THEOREM SaveTypeCorrect == Spec => []TypeOK
<1>1. SaveInv => TypeOK
  BY DEF SaveInv
<1>2. QED
  BY <1>1, InitSaveInv, SaveInvStep, PTL DEF Spec

(***************************************************************************)
(* RetryOnConflict with DefaultRetry bounds the Updates one Save issues by *)
(* Steps, whatever the other saves and clients do (store.go 178-196).     *)
(***************************************************************************)
THEOREM UpdatesBounded == Spec => []BoundedUpdates
<1>1. SaveInv => BoundedUpdates
  <2> SUFFICES ASSUME SaveInv, NEW s \in Savers PROVE updates[s] <= Steps
    BY DEF BoundedUpdates
  <2>1. updates[s] \in Nat /\ attempts[s] \in 0..Steps /\ updates[s] <= attempts[s]
    BY DEF SaveInv, TypeOK, LoopInv
  <2>2. QED
    BY <2>1, SaveAssumption
<1>2. QED
  BY <1>1, InitSaveInv, SaveInvStep, PTL DEF Spec

(* Every step of Save is a step of the atomic Reconcile or leaves the     *)
(* persisted content and the returns alone.                               *)
LEMMA RefineStep == SaveInv /\ [Next]_vars => [Abstract!Next]_Abstract!vars
<1> SUFFICES ASSUME SaveInv, [Next]_vars PROVE [Abstract!Next]_Abstract!vars
  OBVIOUS
<1>. USE SaveAssumption DEF SaveInv, TypeOK, LoopInv, Abstract!vars
<1>1. ASSUME NEW s \in Savers, SaveGet(s) PROVE [Abstract!Next]_Abstract!vars
  BY <1>1 DEF SaveGet
<1>2. ASSUME NEW s \in Savers, SaveCreate(s) PROVE [Abstract!Next]_Abstract!vars
  <2>1. ret[s] = "none"
    BY <1>2 DEF SaveCreate
  <2>2. CASE obj = NoObj /\ Write(s) /\ Finish(s, "nil", TRUE)
    <3>1. Abstract!Put(s)
      BY <2>1, <2>2 DEF Abstract!Put, Write, Finish
    <3>2. QED
      BY <3>1 DEF Abstract!Next
  <2>3. CASE Finish(s, "err", FALSE) /\ UNCHANGED <<obj, rvCount>>
    <3>1. Abstract!Return(s)
      BY <2>1, <2>3 DEF Abstract!Return, Finish
    <3>2. QED
      BY <3>1 DEF Abstract!Next
  <2>4. QED
    BY <1>2, <2>2, <2>3 DEF SaveCreate
<1>3. ASSUME NEW s \in Savers, RetryGet(s) PROVE [Abstract!Next]_Abstract!vars
  <2>1. ret[s] = "none"
    BY <1>3 DEF RetryGet
  <2>2. CASE Finish(s, "nil", FALSE) /\ UNCHANGED obj
    <3>1. Abstract!Return(s)
      BY <1>3, <2>1, <2>2 DEF RetryGet, Abstract!Return, Finish
    <3>2. QED
      BY <3>1 DEF Abstract!Next
  <2>3. CASE UNCHANGED <<ret, obj>>
    BY <2>3
  <2>4. QED
    BY <1>3, <2>2, <2>3 DEF RetryGet
<1>4. ASSUME NEW s \in Savers, SaveUpdate(s) PROVE [Abstract!Next]_Abstract!vars
  <2>1. ret[s] = "none"
    BY <1>4 DEF SaveUpdate
  <2>2. CASE Write(s) /\ Finish(s, "nil", TRUE)
    <3>1. Abstract!Put(s)
      BY <2>1, <2>2 DEF Abstract!Put, Write, Finish
    <3>2. QED
      BY <3>1 DEF Abstract!Next
  <2>3. CASE Finish(s, "nil", FALSE) /\ UNCHANGED obj
    <3>1. Abstract!Return(s)
      BY <2>1, <2>3 DEF Abstract!Return, Finish
    <3>2. QED
      BY <3>1 DEF Abstract!Next
  <2>4. CASE UNCHANGED <<ret, obj>>
    BY <2>4
  <2>5. QED
    BY <1>4, <2>2, <2>3, <2>4 DEF SaveUpdate
<1>5. CASE ExtWrite \/ ExtDelete
  <2>1. Abstract!Other
    BY <1>5 DEF ExtWrite, ExtDelete, Write, Abstract!Other
  <2>2. QED
    BY <2>1 DEF Abstract!Next
<1>6. CASE UNCHANGED vars
  BY <1>6 DEF vars
<1>7. CASE Cancel
  <2>1. UNCHANGED Abstract!vars
    BY <1>7 DEF Cancel, Abstract!vars
  <2>2. QED
    BY <2>1
<1>8. QED
  BY <1>1, <1>2, <1>3, <1>4, <1>5, <1>6, <1>7 DEF Next, SaverStep

(***************************************************************************)
(* Save implements the atomic Reconcile of spec section 4.3: each save     *)
(* writes its whole report at most once, in the step in which it returns  *)
(* nil, and never writes when it returns an error.                        *)
(***************************************************************************)
THEOREM SaveRefinesAtomic == Spec => SaveIsAtomic
<1>1. Init => Abstract!Init
  BY SaveAssumption DEF Init, Abstract!Init
<1>2. QED
  BY <1>1, InitSaveInv, SaveInvStep, RefineStep, PTL DEF Spec, SaveIsAtomic, Abstract!Spec

-----------------------------------------------------------------------------
(***************************************************************************)
(* Faulted: another client has deleted the report, or API calls may fail. *)
(* Until then a save at the closure's Get or at the Update finds the      *)
(* object; and every run of the closure but the current one ended in a    *)
(* Conflict.  So the only nil return without a write and without a fault  *)
(* is the one after Steps conflicts.                                      *)
(***************************************************************************)
Faulted == delLeft < MaxDel \/ Flaky

ExhaustInv ==
    \A s \in Savers :
        /\ spc[s] \in {"get", "create"} => conflicts[s] = 0
        /\ spc[s] \in {"retryGet", "update"} => obj # NoObj \/ Faulted
        /\ spc[s] = "retryGet" => conflicts[s] = attempts[s]
        /\ spc[s] = "update" => conflicts[s] + 1 = attempts[s]
        /\ ret[s] = "nil" => wrote[s] \/ conflicts[s] = Steps \/ Faulted

XInv == SaveInv /\ ExhaustInv


(* The initial states satisfy XInv. *)
LEMMA InitXInv == Init => XInv
  BY InitSaveInv DEF Init, XInv, ExhaustInv

(* Every step keeps ExhaustInv; a fault, once it has happened, stays. *)
LEMMA XInvStep == XInv /\ [Next]_vars => XInv'
<1> SUFFICES ASSUME XInv, [Next]_vars PROVE XInv'
  OBVIOUS
<1>1. SaveInv'
  BY SaveInvStep DEF XInv
<1>2. Faulted => Faulted'
  <2>1. delLeft \in Nat
    BY SaveAssumption DEF XInv, SaveInv, TypeOK
  <2>2. delLeft' <= delLeft
    <3>1. ASSUME NEW s \in Savers, SaverStep(s) PROVE delLeft' = delLeft
      BY <3>1, Zenon DEF SaverStep, SaveGet, SaveCreate, RetryGet, SaveUpdate
    <3>2. ASSUME ExtWrite \/ Cancel \/ UNCHANGED vars PROVE delLeft' = delLeft
      BY <3>2, Zenon DEF ExtWrite, Cancel, vars
    <3>3. ASSUME ExtDelete PROVE delLeft' = delLeft - 1
      BY <3>3 DEF ExtDelete
    <3>4. QED
      BY <2>1, <3>1, <3>2, <3>3 DEF Next
  <2>3. delLeft < MaxDel => delLeft' < MaxDel
    <3>1. delLeft' \in Nat
      BY <1>1, SaveAssumption DEF SaveInv, TypeOK
    <3>2. QED
      BY <2>1, <2>2, <3>1, SaveAssumption
  <2>4. QED
    BY <2>3, Zenon DEF Faulted
<1>. USE SaveAssumption DEF XInv, SaveInv, TypeOK, LoopInv, ExhaustInv
<1>3. ASSUME NEW s \in Savers, SaveGet(s) PROVE ExhaustInv'
  BY <1>3 DEF SaveGet, Faulted
<1>4. ASSUME NEW s \in Savers, SaveCreate(s) PROVE ExhaustInv'
  BY <1>4 DEF SaveCreate, Write, Finish, Faulted
<1>5. ASSUME NEW s \in Savers, RetryGet(s) PROVE ExhaustInv'
  BY <1>5 DEF RetryGet, Finish, Faulted
<1>6. ASSUME NEW s \in Savers, SaveUpdate(s) PROVE ExhaustInv'
  <2>1. CASE Write(s) /\ Finish(s, "nil", TRUE) /\ UNCHANGED conflicts
    BY <1>6, <2>1 DEF SaveUpdate, Write, Finish, Faulted
  <2>2. CASE /\ conflicts' = [conflicts EXCEPT ![s] = @ + 1]
             /\ UNCHANGED <<obj, rvCount>>
             /\ attempts[s] < Steps
             /\ spc' = [spc EXCEPT ![s] = "retryGet"] /\ UNCHANGED <<ret, wrote>>
    BY <1>6, <2>2 DEF SaveUpdate, Faulted
  <2>3. CASE /\ conflicts' = [conflicts EXCEPT ![s] = @ + 1]
             /\ UNCHANGED <<obj, rvCount>>
             /\ ~(attempts[s] < Steps)
             /\ Finish(s, "nil", FALSE)
    BY <1>6, <2>3 DEF SaveUpdate, Finish, Faulted
  <2>4. CASE (obj = NoObj \/ Flaky) /\ Finish(s, "nil", FALSE)
             /\ UNCHANGED <<obj, rvCount, conflicts>>
    <3>1. Faulted
      <4>1. obj # NoObj \/ Faulted
        BY <1>6 DEF SaveUpdate
      <4>2. QED
        BY <4>1, <2>4, Zenon DEF Faulted
    <3>2. Faulted'
      BY <3>1, <1>6 DEF SaveUpdate, Faulted
    <3>3. QED
      BY <3>2, <2>4, <1>6 DEF SaveUpdate, Finish
  <2>5. \/ Write(s) /\ Finish(s, "nil", TRUE) /\ UNCHANGED conflicts
        \/ /\ conflicts' = [conflicts EXCEPT ![s] = @ + 1]
           /\ UNCHANGED <<obj, rvCount>>
           /\ attempts[s] < Steps
           /\ spc' = [spc EXCEPT ![s] = "retryGet"] /\ UNCHANGED <<ret, wrote>>
        \/ /\ conflicts' = [conflicts EXCEPT ![s] = @ + 1]
           /\ UNCHANGED <<obj, rvCount>>
           /\ ~(attempts[s] < Steps)
           /\ Finish(s, "nil", FALSE)
        \/ (obj = NoObj \/ Flaky) /\ Finish(s, "nil", FALSE)
           /\ UNCHANGED <<obj, rvCount, conflicts>>
    BY <1>6, Zenon DEF SaveUpdate
  <2>6. QED
    BY <2>1, <2>2, <2>3, <2>4, <2>5
<1>7. ASSUME ExtWrite PROVE ExhaustInv'
  BY <1>7 DEF ExtWrite, Write, Faulted
<1>8. ASSUME ExtDelete PROVE ExhaustInv'
  BY <1>8 DEF ExtDelete, Faulted
<1>9. ASSUME UNCHANGED vars \/ Cancel PROVE ExhaustInv'
  BY <1>9 DEF vars, Cancel, Faulted
<1>10. QED
  BY <1>1, <1>3, <1>4, <1>5, <1>6, <1>7, <1>8, <1>9 DEF Next, SaverStep

(***************************************************************************)
(* Save returns nil without having written its report only after Steps    *)
(* Conflicts (the exhaustion spec section 4.3 lets it swallow), or once   *)
(* another client has deleted the report, or when API calls may fail      *)
(* (store.go 161-208): the silent nil of the save_silent_notfound run     *)
(* needs one of those faults.                                            *)
(***************************************************************************)
SilentNilNeedsFault ==
    \A s \in Savers :
        ret[s] = "nil" /\ ~wrote[s] /\ conflicts[s] # Steps => Faulted

THEOREM SilentNilOnlyOnFault == Spec => []SilentNilNeedsFault
<1>1. XInv => SilentNilNeedsFault
  BY DEF XInv, ExhaustInv, SilentNilNeedsFault
<1>2. QED
  BY <1>1, InitXInv, XInvStep, PTL DEF Spec

(***************************************************************************)
(* Spec section 4.3: Save swallows only retry exhaustion.  When no other   *)
(* client may delete the report and no API call fails, a Save that        *)
(* returns nil has written its report or has seen Steps Conflicts.        *)
(***************************************************************************)
THEOREM SavedWhenNoFaults ==
    ASSUME MaxDel = 0, ~Flaky
    PROVE  Spec => []SavedUnlessExhausted
<1>1. XInv => SavedUnlessExhausted
  BY DEF XInv, ExhaustInv, SavedUnlessExhausted, SaveInv, TypeOK, Faulted
<1>2. QED
  BY <1>1, InitXInv, XInvStep, PTL DEF Spec

=============================================================================

----------------------------- MODULE ReportSave -----------------------------
(***************************************************************************)
(* PolicyReportStore.Save (src/internal/report/store.go): the read, create *)
(* or retried read-modify-write of one PolicyReport against the API        *)
(* server, run by several savers at once (overlapping scans) while other   *)
(* clients update or delete the object. The object carries a               *)
(* resourceVersion; an Update whose version is not the current one is a    *)
(* Conflict, which RetryOnConflict(DefaultRetry, ...) retries up to Steps  *)
(* times. Every API call may also fail with a transient error when Flaky. *)
(***************************************************************************)
EXTENDS Naturals

CONSTANTS
    Savers,      \* concurrent calls of Save for the same report name
    Ext,         \* the content written by another client
    NoObj,       \* no object of that name
    Steps,       \* retry.DefaultRetry.Steps
    MaxExt,      \* bound on writes by other clients
    MaxDel,      \* bound on deletions by other clients
    Flaky        \* whether API calls may fail for other reasons

ASSUME SaveAssumption ==
    /\ Steps \in Nat \ {0}
    /\ MaxExt \in Nat /\ MaxDel \in Nat
    /\ Flaky \in BOOLEAN
    /\ Ext \notin Savers /\ NoObj \notin Savers /\ Ext # NoObj
    /\ NoObj \notin [val : Savers \cup {Ext}, rv : Nat]

VARIABLES
    obj,        \* the object in the API server: NoObj or [val, rv]
    rvCount,    \* the last resourceVersion the API server handed out
    extLeft,    \* writes left to other clients
    delLeft,    \* deletions left to other clients
    spc,        \* each saver's control point
    myRV,       \* the resourceVersion set on the saver's report
    attempts,   \* runs of the RetryOnConflict closure so far
    conflicts,  \* Updates answered with Conflict so far
    updates,    \* Update calls so far
    ret,        \* what Save returned: "none" while running, "nil" or "err"
    wrote,      \* whether the saver's Create or Update took effect
    ctxErr      \* Err() of the scan's context: "nil", or "canceled" once cancelled

vars == <<obj, rvCount, extLeft, delLeft, spc, myRV, attempts, conflicts,
          updates, ret, wrote, ctxErr>>

Objects == {NoObj} \cup [val : Savers \cup {Ext}, rv : Nat]

TypeOK ==
    /\ obj \in Objects
    /\ rvCount \in Nat /\ extLeft \in 0..MaxExt /\ delLeft \in 0..MaxDel
    /\ spc \in [Savers -> {"get", "create", "retryGet", "update", "done"}]
    /\ myRV \in [Savers -> Nat]
    /\ attempts \in [Savers -> 0..Steps]
    /\ conflicts \in [Savers -> Nat]
    /\ updates \in [Savers -> Nat]
    /\ ret \in [Savers -> {"none", "nil", "err"}]
    /\ wrote \in [Savers -> BOOLEAN]
    /\ ctxErr \in {"nil", "canceled"}

(* The object may or may not exist when the scan saves; reports are new *)
(* Go values, so their resourceVersion is empty (0).                    *)
Init ==
    /\ obj \in {NoObj, [val |-> Ext, rv |-> 1]}
    /\ rvCount = 1
    /\ extLeft = MaxExt /\ delLeft = MaxDel
    /\ spc = [s \in Savers |-> "get"]
    /\ myRV = [s \in Savers |-> 0]
    /\ attempts = [s \in Savers |-> 0]
    /\ conflicts = [s \in Savers |-> 0]
    /\ updates = [s \in Savers |-> 0]
    /\ ret = [s \in Savers |-> "none"]
    /\ wrote = [s \in Savers |-> FALSE]
    /\ ctxErr = "nil"

(* The API server stores v under a fresh resourceVersion. *)
Write(v) ==
    /\ obj' = [val |-> v, rv |-> rvCount + 1]
    /\ rvCount' = rvCount + 1

(* Save returns r; wrote records whether its own write took effect. *)
Finish(s, r, w) ==
    /\ spc' = [spc EXCEPT ![s] = "done"]
    /\ ret' = [ret EXCEPT ![s] = r]
    /\ wrote' = [wrote EXCEPT ![s] = w]

(* The first Get: NotFound leads to Create; a found object, and any other *)
(* error, to the update branch.                                          *)
SaveGet(s) ==
    /\ spc[s] = "get"
    /\ \/ obj = NoObj /\ spc' = [spc EXCEPT ![s] = "create"]
       \/ obj # NoObj /\ spc' = [spc EXCEPT ![s] = "retryGet"]
       \/ Flaky /\ spc' = [spc EXCEPT ![s] = "retryGet"]
    /\ UNCHANGED <<obj, rvCount, extLeft, delLeft, myRV, attempts, conflicts,
                   updates, ret, wrote, ctxErr>>

(* Mutant: the error check after Create is inverted. *)
SaveCreate_InvertedCheck(s) ==
    /\ spc[s] = "create"
    /\ \/ obj = NoObj /\ Write(s) /\ Finish(s, "err", TRUE)
       \/ obj # NoObj /\ Finish(s, "nil", FALSE) /\ UNCHANGED <<obj, rvCount>>
    /\ UNCHANGED <<extLeft, delLeft, myRV, attempts, conflicts, updates,
                   ctxErr>>

(* Create: AlreadyExists, or any other error, is returned wrapped. *)
SaveCreate(s) ==
    /\ spc[s] = "create"
    /\ \/ obj = NoObj /\ Write(s) /\ Finish(s, "nil", TRUE)
       \/ obj # NoObj /\ Finish(s, "err", FALSE) /\ UNCHANGED <<obj, rvCount>>
       \/ Flaky /\ Finish(s, "err", FALSE) /\ UNCHANGED <<obj, rvCount>>
    /\ UNCHANGED <<extLeft, delLeft, myRV, attempts, conflicts, updates,
                   ctxErr>>

(* The closure's Get. NotFound makes the closure return nil, so Save      *)
(* returns nil; another error ends RetryOnConflict, which is logged, and  *)
(* Save returns nil as well. Otherwise the report takes the version read. *)
RetryGet(s) ==
    /\ spc[s] = "retryGet"
    /\ attempts' = [attempts EXCEPT ![s] = @ + 1]
    /\ \/ obj = NoObj /\ Finish(s, "nil", FALSE) /\ UNCHANGED myRV
       \/ Flaky /\ Finish(s, "nil", FALSE) /\ UNCHANGED myRV
       \/ /\ obj # NoObj
          /\ myRV' = [myRV EXCEPT ![s] = obj.rv]
          /\ spc' = [spc EXCEPT ![s] = "update"]
          /\ UNCHANGED <<ret, wrote>>
    /\ UNCHANGED <<obj, rvCount, extLeft, delLeft, conflicts, updates,
                   ctxErr>>

(* Mutant: a conflict retries the Update with the version already held, *)
(* without re-reading the object or counting the attempt.               *)
SaveUpdate_NoReread(s) ==
    /\ spc[s] = "update"
    /\ \/ /\ obj # NoObj /\ obj.rv = myRV[s] /\ Write(s) /\ Finish(s, "nil", TRUE)
          /\ updates' = [updates EXCEPT ![s] = @ + 1]
       \/ /\ obj # NoObj /\ obj.rv # myRV[s]
          /\ UNCHANGED <<obj, rvCount, spc, ret, wrote, updates>>
    /\ UNCHANGED <<extLeft, delLeft, myRV, attempts, conflicts, ctxErr>>

(* Mutant: the retry budget allows one attempt more than Steps. *)
SaveUpdate_LongBudget(s) ==
    /\ spc[s] = "update"
    /\ updates' = [updates EXCEPT ![s] = @ + 1]
    /\ \/ obj # NoObj /\ obj.rv = myRV[s] /\ Write(s) /\ Finish(s, "nil", TRUE)
          /\ UNCHANGED conflicts
       \/ /\ obj # NoObj /\ obj.rv # myRV[s]
          /\ conflicts' = [conflicts EXCEPT ![s] = @ + 1]
          /\ UNCHANGED <<obj, rvCount>>
          /\ IF attempts[s] <= Steps
                THEN spc' = [spc EXCEPT ![s] = "retryGet"] /\ UNCHANGED <<ret, wrote>>
                ELSE Finish(s, "nil", FALSE)
    /\ UNCHANGED <<extLeft, delLeft, myRV, attempts, ctxErr>>

(* Mutant: the retry budget is checked one attempt too early. *)
SaveUpdate_ShortBudget(s) ==
    /\ spc[s] = "update"
    /\ updates' = [updates EXCEPT ![s] = @ + 1]
    /\ \/ obj # NoObj /\ obj.rv = myRV[s] /\ Write(s) /\ Finish(s, "nil", TRUE)
          /\ UNCHANGED conflicts
       \/ /\ obj # NoObj /\ obj.rv # myRV[s]
          /\ conflicts' = [conflicts EXCEPT ![s] = @ + 1]
          /\ UNCHANGED <<obj, rvCount>>
          /\ IF attempts[s] < Steps - 1
                THEN spc' = [spc EXCEPT ![s] = "retryGet"] /\ UNCHANGED <<ret, wrote>>
                ELSE Finish(s, "nil", FALSE)
    /\ UNCHANGED <<extLeft, delLeft, myRV, attempts, ctxErr>>

(* Update with the version read. Success ends the loop; a Conflict is     *)
(* retried while the backoff has steps left, and exhaustion is logged and *)
(* Save returns nil; NotFound or another error ends the loop, is logged,  *)
(* and Save returns nil.                                                  *)
SaveUpdate(s) ==
    /\ spc[s] = "update"
    /\ updates' = [updates EXCEPT ![s] = @ + 1]
    /\ \/ obj # NoObj /\ obj.rv = myRV[s] /\ Write(s) /\ Finish(s, "nil", TRUE)
          /\ UNCHANGED conflicts
       \/ /\ obj # NoObj /\ obj.rv # myRV[s]
          /\ conflicts' = [conflicts EXCEPT ![s] = @ + 1]
          /\ UNCHANGED <<obj, rvCount>>
          /\ IF attempts[s] < Steps
                THEN spc' = [spc EXCEPT ![s] = "retryGet"] /\ UNCHANGED <<ret, wrote>>
                ELSE Finish(s, "nil", FALSE)
       \/ /\ obj = NoObj \/ Flaky
          /\ Finish(s, "nil", FALSE) /\ UNCHANGED <<obj, rvCount, conflicts>>
    /\ UNCHANGED <<extLeft, delLeft, myRV, attempts, ctxErr>>

(* Another client creates or updates the object. *)
ExtWrite ==
    /\ extLeft > 0
    /\ extLeft' = extLeft - 1
    /\ Write(Ext)
    /\ UNCHANGED <<delLeft, spc, myRV, attempts, conflicts, updates, ret, wrote,
                   ctxErr>>

(* Another client deletes the object. *)
ExtDelete ==
    /\ delLeft > 0 /\ obj # NoObj
    /\ delLeft' = delLeft - 1
    /\ obj' = NoObj
    /\ UNCHANGED <<rvCount, extLeft, spc, myRV, attempts, conflicts, updates,
                   ret, wrote, ctxErr>>

(***************************************************************************)
(* The scan that called Save is cancelled. Save takes no context: every   *)
(* Get, Create and Update runs with context.TODO() (store.go 164, 171,    *)
(* 180, 193), so no step of a saver reads this.                           *)
(***************************************************************************)
Cancel ==
    /\ ctxErr = "nil"
    /\ ctxErr' = "canceled"
    /\ UNCHANGED <<obj, rvCount, extLeft, delLeft, spc, myRV, attempts,
                   conflicts, updates, ret, wrote>>

SaverStep(s) ==
    \/ SaveGet(s) \/ SaveCreate(s) \/ RetryGet(s) \/ SaveUpdate(s)

Next ==
    \/ \E s \in Savers : SaverStep(s)
    \/ ExtWrite
    \/ ExtDelete
    \/ Cancel

(* Each call of Save runs in its own goroutine and every API call returns *)
(* (or fails); the other clients need not act at all.                    *)
Spec == Init /\ [][Next]_vars /\ \A s \in Savers : WF_vars(SaverStep(s))

-----------------------------------------------------------------------------
(***************************************************************************)
(* Properties.                                                             *)
(***************************************************************************)

(* RetryOnConflict bounds the work of one Save: it issues at most Steps   *)
(* Updates, however the other savers and clients interleave.             *)
BoundedUpdates ==
    \A s \in Savers : updates[s] <= Steps

(* A Save that returns nil has put its report in the API server, or has   *)
(* given up after Steps conflicting Updates (the one failure spec         *)
(* section 4.3 lets it swallow).                                          *)
SavedUnlessExhausted ==
    \A s \in Savers : ret[s] = "nil" => wrote[s] \/ conflicts[s] = Steps

(* When the API calls themselves never fail, no Save returns an error:    *)
(* concurrent writers are tolerated without losing results (spec 1, 7).  *)
CreateRaceTolerated ==
    ~Flaky => \A s \in Savers : ret[s] # "err"

(***************************************************************************)
(* Spec section 5: cancelling the scan propagates to the calls in flight  *)
(* and a cancelled scan returns without retry-looping. Once the caller is *)
(* cancelled, no Save runs the RetryOnConflict closure again or issues    *)
(* another Update (store.go 178-196).                                     *)
(***************************************************************************)
NoRetryAfterCancel ==
    [][ctxErr = "canceled" => attempts' = attempts /\ updates' = updates]_vars

(* Every Save returns. *)
SaveTerminates ==
    <>(\A s \in Savers : spc[s] = "done")

(* ReportSave implements SaveAtomic: the persisted content is the object's *)
(* value, and each write by a saver is its Save's return.                  *)
Abstract == INSTANCE SaveAtomic
    WITH stored <- IF obj = NoObj THEN NoObj ELSE obj.val, ret <- ret

SaveIsAtomic == Abstract!Spec

=============================================================================

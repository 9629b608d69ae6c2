----------------------------- MODULE CacheAtomic -----------------------------
(***************************************************************************)
(* What the in-memory report cache promises (spec section 4.3): every     *)
(* operation, called from any goroutine, takes effect at one instant      *)
(* between its call and its return, on a map from namespace to report    *)
(* and on the single cluster-wide report. Each goroutine calls one        *)
(* operation at a time, at most MaxOps times.                             *)
(***************************************************************************)
EXTENDS Naturals

CONSTANTS Goroutines, Namespaces, Reports, NoReport, EmptyReport, MaxOps, Ops

VARIABLES nsMap, cluster, phase, op, arg, val, res, opsLeft

(* A method's results: a report (NoReport for the not-found error and for *)
(* methods that only return an error, always nil) and, for ToJSON, the   *)
(* namespace map it marshalled.                                          *)
NoMap == [n \in Namespaces |-> NoReport]
Returned(r, m) == [report |-> r, namespaces |-> m]

vars == <<nsMap, cluster, phase, op, arg, val, res, opsLeft>>

Init ==
    /\ nsMap = [n \in Namespaces |-> NoReport]
    /\ cluster = EmptyReport
    /\ phase = [g \in Goroutines |-> "idle"]
    /\ op = [g \in Goroutines |-> "none"]
    /\ arg = [g \in Goroutines |-> CHOOSE n \in Namespaces : TRUE]
    /\ val = [g \in Goroutines |-> EmptyReport]
    /\ res = [g \in Goroutines |-> Returned(NoReport, NoMap)]
    /\ opsLeft = [g \in Goroutines |-> MaxOps]

(* Goroutine g calls operation o with namespace n and report v. *)
Call(g) ==
    /\ phase[g] = "idle" /\ opsLeft[g] > 0
    /\ \E o \in Ops, n \in Namespaces, v \in Reports :
          /\ op' = [op EXCEPT ![g] = o]
          /\ arg' = [arg EXCEPT ![g] = n]
          /\ val' = [val EXCEPT ![g] = v]
    /\ phase' = [phase EXCEPT ![g] = "pending"]
    /\ opsLeft' = [opsLeft EXCEPT ![g] = @ - 1]
    /\ UNCHANGED <<nsMap, cluster, res>>

(* The operation of g takes effect, all at once. *)
Apply(g) ==
    /\ phase[g] = "pending"
    /\ phase' = [phase EXCEPT ![g] = "done"]
    /\ LET o == op[g]  n == arg[g]  v == val[g] IN
       CASE o \in {"AddPolicyReport", "UpdatePolicyReport"} ->
              /\ nsMap' = [nsMap EXCEPT ![n] = v]
              /\ res' = [res EXCEPT ![g] = Returned(NoReport, NoMap)] /\ UNCHANGED cluster
         [] o \in {"AddClusterPolicyReport", "UpdateClusterPolicyReport"} ->
              /\ cluster' = v
              /\ res' = [res EXCEPT ![g] = Returned(NoReport, NoMap)] /\ UNCHANGED nsMap
         [] o = "RemovePolicyReport" ->
              /\ nsMap' = [nsMap EXCEPT ![n] = NoReport]
              /\ res' = [res EXCEPT ![g] = Returned(NoReport, NoMap)] /\ UNCHANGED cluster
         [] o = "RemoveAllNamespacedPolicyReports" ->
              /\ nsMap' = [m \in Namespaces |-> NoReport]
              /\ res' = [res EXCEPT ![g] = Returned(NoReport, NoMap)] /\ UNCHANGED cluster
         [] o = "GetPolicyReport" ->
              /\ res' = [res EXCEPT ![g] = Returned(nsMap[n], NoMap)]
              /\ UNCHANGED <<nsMap, cluster>>
         [] o = "GetClusterPolicyReport" ->
              /\ res' = [res EXCEPT ![g] = Returned(cluster, NoMap)]
              /\ UNCHANGED <<nsMap, cluster>>
         [] o = "ToJSON" ->
              /\ res' = [res EXCEPT ![g] = Returned(cluster, nsMap)]
              /\ UNCHANGED <<nsMap, cluster>>
    /\ UNCHANGED <<op, arg, val, opsLeft>>

(* The call of g returns its result. *)
Return(g) ==
    /\ phase[g] = "done"
    /\ phase' = [phase EXCEPT ![g] = "idle"]
    /\ UNCHANGED <<nsMap, cluster, op, arg, val, res, opsLeft>>

Next == \E g \in Goroutines : Call(g) \/ Apply(g) \/ Return(g)

Spec == Init /\ [][Next]_vars

=============================================================================

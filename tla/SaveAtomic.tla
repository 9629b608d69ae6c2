----------------------------- MODULE SaveAtomic -----------------------------
(***************************************************************************)
(* What the report store promises of Reconcile (spec section 4.3): each    *)
(* call either replaces the persisted report with its own, whole, in one   *)
(* step and returns nil, or returns an error, or gives up (bounded retries *)
(* exhausted, logged and not fatal) and returns nil. Other writers of the  *)
(* API server may replace or delete the object at any time.                *)
(***************************************************************************)
CONSTANTS Savers, Ext, NoObj

VARIABLES stored, ret

vars == <<stored, ret>>

Init ==
    /\ stored \in {NoObj, Ext}
    /\ ret = [s \in Savers |-> "none"]

(* Saver s replaces the object with its report and returns nil. *)
Put(s) ==
    /\ ret[s] = "none"
    /\ stored' = s
    /\ ret' = [ret EXCEPT ![s] = "nil"]

(* Saver s returns, with or without an error, and writes nothing. *)
Return(s) ==
    /\ ret[s] = "none"
    /\ \E r \in {"nil", "err"} : ret' = [ret EXCEPT ![s] = r]
    /\ UNCHANGED stored

(* Another client of the API server replaces or deletes the object. *)
Other ==
    /\ stored' \in {Ext, NoObj}
    /\ UNCHANGED ret

Next ==
    \/ \E s \in Savers : Put(s) \/ Return(s)
    \/ Other

Spec == Init /\ [][Next]_vars

=============================================================================

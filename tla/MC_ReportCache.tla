---------------------------- MODULE MC_ReportCache ----------------------------
(* Goroutines calling the report cache concurrently. *)
EXTENDS ReportCache, TLC

CONSTANTS g1, g2, n1, rA, rEmpty

MCGoroutines == {g1, g2}

(* The methods that lock. UpdatePolicyReport and UpdateClusterPolicyReport *)
(* are the same code as the Add methods (store.go 111-125 and 76-89).     *)
LockedOps == OpNames \ {"ToJSON", "UpdatePolicyReport", "UpdateClusterPolicyReport"}

(* The same with ToJSON. *)
AllOps == LockedOps \cup {"ToJSON"}

=============================================================================

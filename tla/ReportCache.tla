----------------------------- MODULE ReportCache -----------------------------
(***************************************************************************)
(* The in-memory cache of PolicyReportStore (src/internal/report/store.go *)
(* 22-157): a map from namespace to PolicyReport behind one sync.RWMutex   *)
(* and the ClusterPolicyReport behind another, used by concurrent          *)
(* goroutines. Each goroutine calls one method at a time; a method is a    *)
(* sequence of steps: taking a lock, reading or writing under it, and      *)
(* releasing it. ToJSON reads both collections without a lock.             *)
(*                                                                         *)
(* A sync.RWMutex is modelled by the writer that holds or waits for it     *)
(* and the set of its readers. Lock first claims the writer slot, which    *)
(* blocks new readers, then waits until the readers already in have left   *)
(* (Go's writer preference). RLock waits while a writer holds or waits.    *)
(***************************************************************************)
EXTENDS Naturals

CONSTANTS
    Goroutines,   \* concurrent callers of the store
    Namespaces,   \* map keys
    Reports,      \* report values a caller may pass
    NoReport,     \* no entry for a namespace
    EmptyReport,  \* NewClusterPolicyReport("clusterwide")
    MaxOps,       \* calls per goroutine
    Ops,          \* the methods callers use
    None          \* no writer

OpNames == {"AddPolicyReport", "UpdatePolicyReport", "AddClusterPolicyReport",
            "UpdateClusterPolicyReport", "GetPolicyReport",
            "GetClusterPolicyReport", "RemovePolicyReport",
            "RemoveAllNamespacedPolicyReports", "ToJSON"}

ASSUME CacheAssumption ==
    /\ Ops \subseteq OpNames
    /\ MaxOps \in Nat
    /\ EmptyReport \in Reports /\ NoReport \notin Reports
    /\ None \notin Goroutines
    /\ Namespaces # {}

VARIABLES
    nsMap,     \* namespacedPolicyReports
    cluster,   \* clusterPolicyReport
    writer,    \* per mutex: the goroutine holding or waiting in Lock, or None
    readers,   \* per mutex: the goroutines holding it with RLock
    pc,        \* each goroutine's step in its current call
    op, arg, val,  \* the current call: method, namespace, report argument
    res,       \* the call's result
    found,     \* RemovePolicyReport: GetPolicyReport found the entry
    copied,    \* ToJSON: the cluster report copied at line 149
    opsLeft    \* calls left to each goroutine

(* A method's results: a report (NoReport for the not-found error and for *)
(* methods that only return an error, always nil) and, for ToJSON, the   *)
(* namespace map it marshalled.                                          *)
NoMap == [n \in Namespaces |-> NoReport]
Returned(r, m) == [report |-> r, namespaces |-> m]

vars == <<nsMap, cluster, writer, readers, pc, op, arg, val, res, found,
          copied, opsLeft>>

Mutexes == {"ns", "cluster"}

(* The mutex a method of g takes. *)
MutexOf(g) ==
    IF op[g] \in {"AddClusterPolicyReport", "UpdateClusterPolicyReport",
                  "GetClusterPolicyReport"}
    THEN "cluster" ELSE "ns"

(* The methods that take the write lock first, and those that read first. *)
WriteOps == {"AddPolicyReport", "UpdatePolicyReport", "AddClusterPolicyReport",
             "UpdateClusterPolicyReport", "RemoveAllNamespacedPolicyReports"}
ReadOps == {"GetPolicyReport", "GetClusterPolicyReport", "RemovePolicyReport"}

TypeOK ==
    /\ nsMap \in [Namespaces -> Reports \cup {NoReport}]
    /\ cluster \in Reports
    /\ writer \in [Mutexes -> Goroutines \cup {None}]
    /\ readers \in [Mutexes -> SUBSET Goroutines]
    /\ pc \in [Goroutines -> {"idle", "lock", "acquire", "write", "unlock",
                              "rlock", "read", "runlock", "jsonCluster",
                              "jsonMarshal", "return"}]
    /\ op \in [Goroutines -> Ops \cup {"none"}]
    /\ arg \in [Goroutines -> Namespaces]
    /\ val \in [Goroutines -> Reports]
    /\ res \in [Goroutines -> [report : Reports \cup {NoReport},
                                namespaces : [Namespaces -> Reports \cup {NoReport}]]]
    /\ found \in [Goroutines -> BOOLEAN]
    /\ copied \in [Goroutines -> Reports]
    /\ opsLeft \in [Goroutines -> 0..MaxOps]

(* NewPolicyReportStore (and MockNewPolicyReportStore): an empty map and *)
(* the empty cluster report, both mutexes free. A failing client.New     *)
(* returns before any store exists.                                      *)
Init ==
    /\ nsMap = [n \in Namespaces |-> NoReport]
    /\ cluster = EmptyReport
    /\ writer = [m \in Mutexes |-> None]
    /\ readers = [m \in Mutexes |-> {}]
    /\ pc = [g \in Goroutines |-> "idle"]
    /\ op = [g \in Goroutines |-> "none"]
    /\ arg = [g \in Goroutines |-> CHOOSE n \in Namespaces : TRUE]
    /\ val = [g \in Goroutines |-> EmptyReport]
    /\ res = [g \in Goroutines |-> Returned(NoReport, NoMap)]
    /\ found = [g \in Goroutines |-> FALSE]
    /\ copied = [g \in Goroutines |-> EmptyReport]
    /\ opsLeft = [g \in Goroutines |-> MaxOps]

Goto(g, l) == pc' = [pc EXCEPT ![g] = l]

(* Goroutine g calls method o with namespace n and report v. *)
Call(g) ==
    /\ pc[g] = "idle" /\ opsLeft[g] > 0
    /\ \E o \in Ops, n \in Namespaces, v \in Reports :
          /\ op' = [op EXCEPT ![g] = o]
          /\ arg' = [arg EXCEPT ![g] = n]
          /\ val' = [val EXCEPT ![g] = v]
          /\ Goto(g, CASE o \in WriteOps -> "lock"
                       [] o \in ReadOps  -> "rlock"
                       [] o = "ToJSON"   -> "jsonCluster")
    /\ opsLeft' = [opsLeft EXCEPT ![g] = @ - 1]
    /\ UNCHANGED <<nsMap, cluster, writer, readers, res, found, copied>>

(* Lock, first half: claim the writer slot; new readers now wait. *)
Lock(g) ==
    /\ pc[g] = "lock"
    /\ writer[MutexOf(g)] = None
    /\ writer' = [writer EXCEPT ![MutexOf(g)] = g]
    /\ Goto(g, "acquire")
    /\ UNCHANGED <<nsMap, cluster, readers, op, arg, val, res, found, copied,
                   opsLeft>>

(* Lock, second half: wait until the readers already in have left. *)
Acquire(g) ==
    /\ pc[g] = "acquire"
    /\ readers[MutexOf(g)] = {}
    /\ Goto(g, "write")
    /\ UNCHANGED <<nsMap, cluster, writer, readers, op, arg, val, res, found,
                   copied, opsLeft>>

(* The assignment made under the write lock: lines 79, 87, 114, 123, 132 *)
(* and 142. Every such method returns nil.                               *)
Write(g) ==
    /\ pc[g] = "write"
    /\ LET o == op[g] IN
       CASE o \in {"AddPolicyReport", "UpdatePolicyReport"} ->
              nsMap' = [nsMap EXCEPT ![arg[g]] = val[g]] /\ UNCHANGED cluster
         [] o \in {"AddClusterPolicyReport", "UpdateClusterPolicyReport"} ->
              cluster' = val[g] /\ UNCHANGED nsMap
         [] o = "RemovePolicyReport" ->
              nsMap' = [nsMap EXCEPT ![arg[g]] = NoReport] /\ UNCHANGED cluster
         [] o = "RemoveAllNamespacedPolicyReports" ->
              nsMap' = [n \in Namespaces |-> NoReport] /\ UNCHANGED cluster
    /\ res' = [res EXCEPT ![g] = Returned(NoReport, NoMap)]
    /\ Goto(g, "unlock")
    /\ UNCHANGED <<writer, readers, op, arg, val, found, copied, opsLeft>>

(* The deferred Unlock; the method returns. *)
Unlock(g) ==
    /\ pc[g] = "unlock"
    /\ writer' = [writer EXCEPT ![MutexOf(g)] = None]
    /\ Goto(g, "idle")
    /\ UNCHANGED <<nsMap, cluster, readers, op, arg, val, res, found, copied,
                   opsLeft>>

(* RLock: wait while a writer holds the mutex or waits for it. *)
RLock(g) ==
    /\ pc[g] = "rlock"
    /\ writer[MutexOf(g)] = None
    /\ readers' = [readers EXCEPT ![MutexOf(g)] = @ \cup {g}]
    /\ Goto(g, "read")
    /\ UNCHANGED <<nsMap, cluster, writer, op, arg, val, res, found, copied,
                   opsLeft>>

(* Mutant: RemovePolicyReport deletes only when the lookup failed. *)
Read_InvertedCheck(g) ==
    /\ pc[g] = "read"
    /\ CASE op[g] = "GetPolicyReport" ->
              res' = [res EXCEPT ![g] = Returned(nsMap[arg[g]], NoMap)]
              /\ UNCHANGED found
         [] op[g] = "GetClusterPolicyReport" ->
              res' = [res EXCEPT ![g] = Returned(cluster, NoMap)] /\ UNCHANGED found
         [] op[g] = "RemovePolicyReport" ->
              /\ found' = [found EXCEPT ![g] = nsMap[arg[g]] = NoReport]
              /\ res' = IF nsMap[arg[g]] = NoReport THEN res
                                                     ELSE [res EXCEPT ![g] = Returned(NoReport, NoMap)]
    /\ Goto(g, "runlock")
    /\ UNCHANGED <<nsMap, cluster, writer, readers, op, arg, val, copied,
                   opsLeft>>

(* The lookup under the read lock: GetPolicyReport (95-99),              *)
(* GetClusterPolicyReport (106-107), and RemovePolicyReport's call of    *)
(* GetPolicyReport (129), which returns nil at once when nothing is      *)
(* found.                                                                *)
Read(g) ==
    /\ pc[g] = "read"
    /\ CASE op[g] = "GetPolicyReport" ->
              res' = [res EXCEPT ![g] = Returned(nsMap[arg[g]], NoMap)]
              /\ UNCHANGED found
         [] op[g] = "GetClusterPolicyReport" ->
              res' = [res EXCEPT ![g] = Returned(cluster, NoMap)] /\ UNCHANGED found
         [] op[g] = "RemovePolicyReport" ->
              /\ found' = [found EXCEPT ![g] = nsMap[arg[g]] # NoReport]
              /\ res' = IF nsMap[arg[g]] # NoReport THEN res
                                                     ELSE [res EXCEPT ![g] = Returned(NoReport, NoMap)]
    /\ Goto(g, "runlock")
    /\ UNCHANGED <<nsMap, cluster, writer, readers, op, arg, val, copied,
                   opsLeft>>

(* Mutant: RemovePolicyReport takes the write lock while it still holds  *)
(* the read lock (the lookup inlined with a deferred RUnlock).          *)
RUnlock_Upgrade(g) ==
    /\ pc[g] = "runlock"
    /\ IF op[g] = "RemovePolicyReport" /\ found[g]
          THEN Goto(g, "lock") /\ UNCHANGED readers
          ELSE /\ readers' = [readers EXCEPT ![MutexOf(g)] = @ \ {g}]
               /\ Goto(g, "idle")
    /\ UNCHANGED <<nsMap, cluster, writer, op, arg, val, res, found, copied,
                   opsLeft>>

(* Mutant: RemovePolicyReport deletes without taking the write lock. *)
RUnlock_NoLock(g) ==
    /\ pc[g] = "runlock"
    /\ readers' = [readers EXCEPT ![MutexOf(g)] = @ \ {g}]
    /\ Goto(g, IF op[g] = "RemovePolicyReport" /\ found[g] THEN "write" ELSE "idle")
    /\ UNCHANGED <<nsMap, cluster, writer, op, arg, val, res, found, copied,
                   opsLeft>>

(* The deferred RUnlock. RemovePolicyReport then takes the write lock     *)
(* (130-131) if its lookup found the entry; the other methods return.    *)
RUnlock(g) ==
    /\ pc[g] = "runlock"
    /\ readers' = [readers EXCEPT ![MutexOf(g)] = @ \ {g}]
    /\ Goto(g, IF op[g] = "RemovePolicyReport" /\ found[g] THEN "lock" ELSE "idle")
    /\ UNCHANGED <<nsMap, cluster, writer, op, arg, val, res, found, copied,
                   opsLeft>>

(* ToJSON, line 149: the cluster report is copied, with no lock held. *)
JSONCluster(g) ==
    /\ pc[g] = "jsonCluster"
    /\ copied' = [copied EXCEPT ![g] = cluster]
    /\ Goto(g, "jsonMarshal")
    /\ UNCHANGED <<nsMap, cluster, writer, readers, op, arg, val, res, found,
                   opsLeft>>

(* ToJSON, lines 150-156: the map is marshalled, with no lock held. *)
JSONMarshal(g) ==
    /\ pc[g] = "jsonMarshal"
    /\ res' = [res EXCEPT ![g] = Returned(copied[g], nsMap)]
    /\ Goto(g, "return")
    /\ UNCHANGED <<nsMap, cluster, writer, readers, op, arg, val, found, copied,
                   opsLeft>>

(* ToJSON returns the string. *)
JSONReturn(g) ==
    /\ pc[g] = "return"
    /\ Goto(g, "idle")
    /\ UNCHANGED <<nsMap, cluster, writer, readers, op, arg, val, res, found,
                   copied, opsLeft>>

Step(g) ==
    \/ Call(g) \/ Lock(g) \/ Acquire(g) \/ Write(g) \/ Unlock(g)
    \/ RLock(g) \/ Read(g) \/ RUnlock(g)
    \/ JSONCluster(g) \/ JSONMarshal(g) \/ JSONReturn(g)

Next == \E g \in Goroutines : Step(g)

(* Every goroutine that is in a call keeps being scheduled; a blocked    *)
(* Lock or RLock is woken when the mutex is free.                        *)
Spec == Init /\ [][Next]_vars /\ \A g \in Goroutines : WF_vars(Step(g))


-----------------------------------------------------------------------------
(***************************************************************************)
(* Properties.                                                             *)
(***************************************************************************)

(* g is about to write collection m, or to read it. *)
Writing(g, m) == pc[g] = "write" /\ MutexOf(g) = m
Reading(g, m) ==
    \/ pc[g] = "read" /\ MutexOf(g) = m
    \/ pc[g] = "jsonCluster" /\ m = "cluster"
    \/ pc[g] = "jsonMarshal" /\ m = "ns"

(* No goroutine reads or writes a collection while another writes it:    *)
(* readers run together but never with a writer of the same collection   *)
(* (spec 4.3). A violation is a Go data race, and on the map a fatal      *)
(* "concurrent map read and map write".                                  *)
RWExclusion ==
    \A g, h \in Goroutines, m \in Mutexes :
        g # h /\ Writing(g, m) => ~Writing(h, m) /\ ~Reading(h, m)

(* Where the call of g has taken effect: at its write, or at its lookup  *)
(* when that ends the call; ToJSON at its marshal.                        *)
Linearized(g) ==
    \/ pc[g] \in {"unlock", "return"}
    \/ pc[g] = "runlock" /\ ~(op[g] = "RemovePolicyReport" /\ found[g])

Phase(g) ==
    IF pc[g] = "idle" THEN "idle" ELSE IF Linearized(g) THEN "done" ELSE "pending"

Abstract == INSTANCE CacheAtomic WITH phase <- [g \in Goroutines |-> Phase(g)]

(* Every method of the cache is linearizable: its steps implement an     *)
(* atomic map whose operations take effect at one instant within the    *)
(* call, whatever the interleaving of goroutines and locks.              *)
CacheLinearizable == Abstract!Spec

(* Every call returns: no goroutine waits forever on a mutex. *)
CacheTerminates ==
    \A g \in Goroutines : pc[g] # "idle" ~> pc[g] = "idle"

=============================================================================

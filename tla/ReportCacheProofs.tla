------------------------- MODULE ReportCacheProofs -------------------------
(***************************************************************************)
(* Proofs about the lock discipline of the report cache (ReportCache.tla), *)
(* for any number of goroutines, namespaces, reports and calls.            *)
(***************************************************************************)
EXTENDS ReportCache, TLAPS

LockPcs  == {"lock", "acquire", "write", "unlock"}
ReadPcs  == {"rlock", "read", "runlock"}
JSONPcs  == {"jsonCluster", "jsonMarshal", "return"}
HoldPcs  == {"acquire", "write", "unlock"}

(***************************************************************************)
(* The state of each RWMutex agrees with the goroutines' places: a        *)
(* goroutine past the first half of Lock owns the writer slot, the writer  *)
(* slot is owned only by such a goroutine, the readers are exactly the     *)
(* goroutines between RLock and RUnlock, and no reader is left once the   *)
(* writer has acquired. Each place belongs to the methods that reach it,  *)
(* so the mutex of a goroutine is fixed for the whole call.               *)
(***************************************************************************)
LockInv ==
    /\ \A g \in Goroutines :
          /\ pc[g] \in LockPcs => op[g] \in WriteOps \cup {"RemovePolicyReport"}
          /\ pc[g] \in ReadPcs => op[g] \in ReadOps
          /\ pc[g] \in JSONPcs => op[g] = "ToJSON"
          /\ pc[g] \in HoldPcs => writer[MutexOf(g)] = g
          /\ pc[g] \in {"write", "unlock"} => readers[MutexOf(g)] = {}
    /\ \A m \in Mutexes :
          writer[m] # None => /\ pc[writer[m]] \in HoldPcs
                              /\ MutexOf(writer[m]) = m
    /\ \A m \in Mutexes, g \in Goroutines :
          g \in readers[m] <=> pc[g] \in {"read", "runlock"} /\ MutexOf(g) = m

CacheInv == TypeOK /\ LockInv

-----------------------------------------------------------------------------
(* The initial state satisfies CacheInv. *)
LEMMA InitCacheInv == Init => CacheInv
<1> SUFFICES ASSUME Init PROVE CacheInv
  OBVIOUS
<1>1. (CHOOSE n \in Namespaces : TRUE) \in Namespaces
  BY CacheAssumption
<1>2. TypeOK
  BY <1>1, CacheAssumption DEF Init, TypeOK, Mutexes, NoMap, Returned
<1>3. LockInv
  BY CacheAssumption DEF Init, LockInv, Mutexes, LockPcs, ReadPcs, JSONPcs,
                         HoldPcs
<1>4. QED
  BY <1>2, <1>3 DEF CacheInv

(* Every step of every goroutine keeps CacheInv. *)
LEMMA CacheInvStep == CacheInv /\ [Next]_vars => CacheInv'
<1> SUFFICES ASSUME CacheInv, [Next]_vars PROVE CacheInv'
  OBVIOUS
<1>. USE CacheAssumption DEF CacheInv, TypeOK, LockInv, Goto, Mutexes,
                             LockPcs, ReadPcs, JSONPcs, HoldPcs
<1>1. ASSUME NEW g \in Goroutines, Call(g) PROVE CacheInv'
  BY <1>1 DEF Call, MutexOf, OpNames, WriteOps, ReadOps
<1>2. ASSUME NEW g \in Goroutines, Lock(g) PROVE CacheInv'
  BY <1>2 DEF Lock, MutexOf
<1>3. ASSUME NEW g \in Goroutines, Acquire(g) PROVE CacheInv'
  BY <1>3 DEF Acquire, MutexOf
<1>4. ASSUME NEW g \in Goroutines, Write(g) PROVE CacheInv'
  <2>1. op[g] \in WriteOps \cup {"RemovePolicyReport"}
    BY <1>4 DEF Write
  <2>2. /\ nsMap' \in [Namespaces -> Reports \cup {NoReport}]
        /\ cluster' \in Reports
    <3>1. CASE op[g] \in {"AddPolicyReport", "UpdatePolicyReport"}
      <4>1. nsMap' = [nsMap EXCEPT ![arg[g]] = val[g]] /\ UNCHANGED cluster
        BY <1>4, <3>1, Zenon DEF Write
      <4>2. QED
        BY <4>1
    <3>2. CASE op[g] \in {"AddClusterPolicyReport", "UpdateClusterPolicyReport"}
      <4>1. cluster' = val[g] /\ UNCHANGED nsMap
        BY <1>4, <3>2, Zenon DEF Write
      <4>2. QED
        BY <4>1
    <3>3. CASE op[g] = "RemovePolicyReport"
      <4>1. nsMap' = [nsMap EXCEPT ![arg[g]] = NoReport] /\ UNCHANGED cluster
        BY <1>4, <3>3, Zenon DEF Write
      <4>2. QED
        BY <4>1
    <3>4. CASE op[g] = "RemoveAllNamespacedPolicyReports"
      <4>1. nsMap' = [n \in Namespaces |-> NoReport] /\ UNCHANGED cluster
        BY <1>4, <3>4, Zenon DEF Write
      <4>2. QED
        BY <4>1
    <3>5. QED
      BY <2>1, <3>1, <3>2, <3>3, <3>4 DEF WriteOps
  <2>3. QED
    BY <1>4, <2>2 DEF Write, MutexOf, Returned, NoMap
<1>5. ASSUME NEW g \in Goroutines, Unlock(g) PROVE CacheInv'
  BY <1>5 DEF Unlock, MutexOf
<1>6. ASSUME NEW g \in Goroutines, RLock(g) PROVE CacheInv'
  BY <1>6 DEF RLock, MutexOf
<1>7. ASSUME NEW g \in Goroutines, Read(g) PROVE CacheInv'
  <2>1. op[g] \in ReadOps
    BY <1>7 DEF Read
  <2>2. /\ res' \in [Goroutines -> [report : Reports \cup {NoReport},
                      namespaces : [Namespaces -> Reports \cup {NoReport}]]]
        /\ found' \in [Goroutines -> BOOLEAN]
    <3>1. CASE op[g] = "GetPolicyReport"
      <4>1. res' = [res EXCEPT ![g] = Returned(nsMap[arg[g]], NoMap)] /\ UNCHANGED found
        BY <1>7, <3>1, Zenon DEF Read
      <4>2. QED
        BY <4>1 DEF Returned, NoMap
    <3>2. CASE op[g] = "GetClusterPolicyReport"
      <4>1. res' = [res EXCEPT ![g] = Returned(cluster, NoMap)] /\ UNCHANGED found
        BY <1>7, <3>2, Zenon DEF Read
      <4>2. QED
        BY <4>1 DEF Returned, NoMap
    <3>3. CASE op[g] = "RemovePolicyReport"
      <4>1. /\ found' = [found EXCEPT ![g] = nsMap[arg[g]] # NoReport]
            /\ res' = IF nsMap[arg[g]] # NoReport THEN res
                      ELSE [res EXCEPT ![g] = Returned(NoReport, NoMap)]
        BY <1>7, <3>3, Zenon DEF Read
      <4>2. QED
        BY <4>1 DEF Returned, NoMap
    <3>4. QED
      BY <2>1, <3>1, <3>2, <3>3 DEF ReadOps
  <2>3. /\ pc[g] = "read" /\ pc' = [pc EXCEPT ![g] = "runlock"]
        /\ UNCHANGED <<nsMap, cluster, writer, readers, op, arg, val, copied,
                       opsLeft>>
    BY <1>7 DEF Read
  <2>4. QED
    BY <2>2, <2>3 DEF MutexOf
<1>8. ASSUME NEW g \in Goroutines, RUnlock(g) PROVE CacheInv'
  BY <1>8 DEF RUnlock, MutexOf, ReadOps, WriteOps
<1>9. ASSUME NEW g \in Goroutines, JSONCluster(g) PROVE CacheInv'
  BY <1>9 DEF JSONCluster, MutexOf
<1>10. ASSUME NEW g \in Goroutines, JSONMarshal(g) PROVE CacheInv'
  BY <1>10 DEF JSONMarshal, MutexOf, Returned
<1>11. ASSUME NEW g \in Goroutines, JSONReturn(g) PROVE CacheInv'
  BY <1>11 DEF JSONReturn, MutexOf
<1>12. CASE UNCHANGED vars
  BY <1>12 DEF vars, MutexOf
<1>13. QED
  BY <1>1, <1>2, <1>3, <1>4, <1>5, <1>6, <1>7, <1>8, <1>9, <1>10, <1>11,
     <1>12 DEF Next, Step

(***************************************************************************)
(* Type correctness of the cache: the map, the cluster report, the two    *)
(* RWMutexes and every goroutine's call stay in their domains.            *)
(***************************************************************************)
THEOREM CacheTypeCorrect == Spec => []TypeOK
<1>1. CacheInv => TypeOK
  BY DEF CacheInv
<1>2. QED
  BY <1>1, InitCacheInv, CacheInvStep, PTL DEF Spec


(***************************************************************************)
(* The RWMutexes of the store exclude writers: whenever a goroutine is in  *)
(* the write step of a method holding a collection's write lock, no other *)
(* goroutine writes that collection or reads it under its read lock       *)
(* (store.go 76-143). The lock-free reads of ToJSON (149-152) break this  *)
(* (run cache_tojson_race), so the theorem is for callers that do not use *)
(* ToJSON, which is how the scanner uses the store.                       *)
(***************************************************************************)
THEOREM LockedExclusion ==
    ASSUME "ToJSON" \notin Ops
    PROVE  Spec => []RWExclusion
<1>1. CacheInv => RWExclusion
  <2> SUFFICES ASSUME CacheInv, NEW g \in Goroutines, NEW h \in Goroutines,
                      NEW m \in Mutexes, g # h, Writing(g, m)
               PROVE  ~Writing(h, m) /\ ~Reading(h, m)
    BY DEF RWExclusion
  <2>1. writer[m] = g /\ readers[m] = {}
    BY DEF CacheInv, LockInv, Writing, HoldPcs
  <2>2. ~Writing(h, m)
    BY <2>1 DEF CacheInv, LockInv, Writing, HoldPcs
  <2>3. pc[h] \notin JSONPcs
    BY DEF CacheInv, LockInv, TypeOK
  <2>4. ~Reading(h, m)
    BY <2>1, <2>3 DEF CacheInv, LockInv, Reading, JSONPcs
  <2>5. QED
    BY <2>2, <2>4
<1>2. QED
  BY <1>1, InitCacheInv, CacheInvStep, PTL DEF Spec


-----------------------------------------------------------------------------
(* The phase each goroutine's call has in the atomic map. *)
AbsPhase == [h \in Goroutines |-> Phase(h)]

(* A step of goroutine g that leaves every other goroutine's phase alone *)
(* changes the abstract phases at g only.                                *)
LEMMA PhaseFrame ==
    ASSUME NEW g \in Goroutines, NEW p,
           \A h \in Goroutines \ {g} : pc'[h] = pc[h] /\ op'[h] = op[h]
                                       /\ found'[h] = found[h],
           Phase(g)' = p
    PROVE  AbsPhase' = [AbsPhase EXCEPT ![g] = p]
<1>1. \A h \in Goroutines \ {g} : Phase(h)' = Phase(h)
  BY DEF Phase, Linearized
<1>2. AbsPhase' = [h \in Goroutines |-> Phase(h)']
  BY Zenon DEF AbsPhase
<1>3. QED
  BY <1>1, <1>2, Zenon DEF AbsPhase

(* Updating a Boolean-valued function at a point of its domain. *)
LEMMA ExceptBool ==
    ASSUME NEW S, NEW f \in [S -> BOOLEAN], NEW x \in S, NEW b \in BOOLEAN
    PROVE  [f EXCEPT ![x] = b][x] = b
  OBVIOUS

(* A call picks the method, the namespace and the report it is given. *)
LEMMA CallArgs ==
    ASSUME NEW g \in Goroutines, Call(g)
    PROVE  \E o \in Ops, n \in Namespaces, v \in Reports :
              /\ op' = [op EXCEPT ![g] = o]
              /\ arg' = [arg EXCEPT ![g] = n]
              /\ val' = [val EXCEPT ![g] = v]
  BY Zenon DEF Call

(* Every step of the cache without ToJSON is a step of the atomic map or *)
(* leaves it alone.                                                       *)
LEMMA RefineStep ==
    ASSUME "ToJSON" \notin Ops
    PROVE  CacheInv /\ [Next]_vars => [Abstract!Next]_Abstract!vars
<1> SUFFICES ASSUME CacheInv, [Next]_vars PROVE [Abstract!Next]_Abstract!vars
  OBVIOUS
<1>. USE CacheAssumption DEF CacheInv, TypeOK, LockInv, LockPcs,
                             ReadPcs, JSONPcs, HoldPcs
<1>1. ASSUME NEW g \in Goroutines, Call(g) PROVE [Abstract!Next]_Abstract!vars
  <2>1. AbsPhase' = [AbsPhase EXCEPT ![g] = "pending"]
    <3>1. Phase(g)' = "pending"
      BY <1>1 DEF Goto, Call, Phase, Linearized, WriteOps, ReadOps, OpNames
    <3>2. QED
      BY <1>1, <3>1, PhaseFrame DEF Goto, Call
  <2>2. Phase(g) = "idle"
    BY <1>1 DEF Goto, Call, Phase
  <2>3. \E o \in Ops, n \in Namespaces, v \in Reports :
             /\ op' = [op EXCEPT ![g] = o]
             /\ arg' = [arg EXCEPT ![g] = n]
             /\ val' = [val EXCEPT ![g] = v]
    BY <1>1, CallArgs
  <2>4. /\ opsLeft[g] > 0 /\ opsLeft' = [opsLeft EXCEPT ![g] = opsLeft[g] - 1]
        /\ UNCHANGED <<nsMap, cluster, res>>
    BY <1>1 DEF Call
  <2>5. Abstract!Call(g)
    BY <2>1, <2>2, <2>3, <2>4, Zenon DEF Goto, Abstract!Call, AbsPhase
  <2>6. QED
    BY <2>5 DEF Goto, Abstract!Next
<1>2. ASSUME NEW g \in Goroutines,
             Lock(g) \/ Acquire(g) \/ RLock(g)
      PROVE  UNCHANGED Abstract!vars
  <2>1. AbsPhase' = AbsPhase
    <3>1. Phase(g)' = Phase(g) /\ Phase(g) = "pending"
      BY <1>2 DEF Goto, Lock, Acquire, RLock, Phase, Linearized
    <3>2. \A h \in Goroutines \ {g} : pc'[h] = pc[h] /\ op'[h] = op[h]
                                        /\ found'[h] = found[h]
      BY <1>2 DEF Goto, Lock, Acquire, RLock
    <3>3. \A h \in Goroutines : Phase(h)' = Phase(h)
      BY <3>1, <3>2 DEF Goto, Phase, Linearized
    <3>4. QED
      BY <3>3 DEF Goto, AbsPhase
  <2>2. QED
    BY <1>2, <2>1 DEF Goto, Lock, Acquire, RLock, Abstract!vars, AbsPhase
<1>3. ASSUME NEW g \in Goroutines, Write(g) PROVE [Abstract!Next]_Abstract!vars
  <2>1. AbsPhase' = [AbsPhase EXCEPT ![g] = "done"]
    <3>1. Phase(g)' = "done"
      BY <1>3 DEF Goto, Write, Phase, Linearized
    <3>2. QED
      BY <1>3, <3>1, PhaseFrame DEF Goto, Write
  <2>2. AbsPhase[g] = "pending"
    BY <1>3 DEF Goto, Write, AbsPhase, Phase, Linearized
  <2>3. Abstract!Apply(g)
    BY <1>3, <2>1, <2>2, Zenon DEF Goto, Write, Abstract!Apply, AbsPhase, WriteOps,
                                   Returned, Abstract!Returned, NoMap,
                                   Abstract!NoMap
  <2>4. QED
    BY <2>3 DEF Goto, Abstract!Next
<1>4. ASSUME NEW g \in Goroutines, Unlock(g) PROVE [Abstract!Next]_Abstract!vars
  <2>1. AbsPhase' = [AbsPhase EXCEPT ![g] = "idle"]
    BY <1>4, PhaseFrame DEF Goto, Unlock, Phase
  <2>2. AbsPhase[g] = "done"
    BY <1>4 DEF Goto, Unlock, AbsPhase, Phase, Linearized
  <2>3. Abstract!Return(g)
    BY <1>4, <2>1, <2>2 DEF Goto, Unlock, Abstract!Return, AbsPhase
  <2>4. QED
    BY <2>3 DEF Goto, Abstract!Next
<1>9. CASE UNCHANGED vars
  BY <1>9 DEF Goto, vars, Abstract!vars, AbsPhase, Phase, Linearized
<1>5. ASSUME NEW g \in Goroutines, Read(g) PROVE [Abstract!Next]_Abstract!vars
  <2>1. /\ op[g] \in ReadOps /\ pc[g] = "read"
        /\ pc' = [pc EXCEPT ![g] = "runlock"]
        /\ UNCHANGED <<nsMap, cluster, writer, readers, op, arg, val, copied,
                       opsLeft>>
    BY <1>5 DEF Goto, Read
  <2>2. Phase(g) = "pending"
    BY <2>1 DEF Phase, Linearized
  <2>3. \A h \in Goroutines \ {g} : pc'[h] = pc[h] /\ op'[h] = op[h]
                                    /\ found'[h] = found[h]
    <3>1. CASE op[g] \in {"GetPolicyReport", "GetClusterPolicyReport"}
      <4>1. UNCHANGED found
        BY <1>5, <3>1, Zenon DEF Read
      <4>2. QED
        BY <2>1, <4>1
    <3>2. CASE op[g] = "RemovePolicyReport"
      <4>1. found' = [found EXCEPT ![g] = nsMap[arg[g]] # NoReport]
        BY <1>5, <3>2, Zenon DEF Read
      <4>2. QED
        BY <2>1, <4>1
    <3>3. QED
      BY <2>1, <3>1, <3>2 DEF ReadOps
  <2>4. CASE op[g] = "GetPolicyReport"
    <3>1. res' = [res EXCEPT ![g] = Returned(nsMap[arg[g]], NoMap)]
          /\ UNCHANGED found
      BY <1>5, <2>4, Zenon DEF Read
    <3>2. AbsPhase' = [AbsPhase EXCEPT ![g] = "done"]
      <4>1. pc'[g] = "runlock" /\ op'[g] # "RemovePolicyReport"
        BY <2>1, <2>4
      <4>2. Phase(g)' = "done"
        BY <4>1 DEF Phase, Linearized
      <4>3. QED
        BY <2>3, <4>2, PhaseFrame
    <3>3. Abstract!Apply(g)
      BY <2>1, <2>2, <2>4, <3>1, <3>2, Zenon
         DEF Abstract!Apply, AbsPhase, Returned, Abstract!Returned, NoMap,
             Abstract!NoMap
    <3>4. QED
      BY <3>3 DEF Abstract!Next
  <2>5. CASE op[g] = "GetClusterPolicyReport"
    <3>1. res' = [res EXCEPT ![g] = Returned(cluster, NoMap)] /\ UNCHANGED found
      BY <1>5, <2>5, Zenon DEF Read
    <3>2. AbsPhase' = [AbsPhase EXCEPT ![g] = "done"]
      <4>1. pc'[g] = "runlock" /\ op'[g] # "RemovePolicyReport"
        BY <2>1, <2>5
      <4>2. Phase(g)' = "done"
        BY <4>1 DEF Phase, Linearized
      <4>3. QED
        BY <2>3, <4>2, PhaseFrame
    <3>3. Abstract!Apply(g)
      BY <2>1, <2>2, <2>5, <3>1, <3>2, Zenon
         DEF Abstract!Apply, AbsPhase, Returned, Abstract!Returned, NoMap,
             Abstract!NoMap
    <3>4. QED
      BY <3>3 DEF Abstract!Next
  <2>6. CASE op[g] = "RemovePolicyReport"
    <3>1. /\ found' = [found EXCEPT ![g] = nsMap[arg[g]] # NoReport]
          /\ res' = IF nsMap[arg[g]] # NoReport THEN res
                    ELSE [res EXCEPT ![g] = Returned(NoReport, NoMap)]
      BY <1>5, <2>6, Zenon DEF Read
    <3>2. CASE nsMap[arg[g]] # NoReport
      <4>1. Phase(g)' = "pending"
        <5>1. pc'[g] = "runlock" /\ op'[g] = "RemovePolicyReport" /\ found'[g]
          <6>1. found \in [Goroutines -> BOOLEAN]
            OBVIOUS
          <6>2. found'[g] = (nsMap[arg[g]] # NoReport)
            BY <3>1, <6>1, ExceptBool
          <6>3. found'[g]
            BY <6>2, <3>2
          <6>4. QED
            BY <2>1, <2>6, <6>3
        <5>2. QED
          BY <5>1 DEF Phase, Linearized
      <4>2. AbsPhase' = AbsPhase
        <5>1. \A h \in Goroutines : Phase(h)' = Phase(h)
          BY <2>2, <2>3, <4>1 DEF Phase, Linearized
        <5>2. QED
          BY <5>1 DEF AbsPhase
      <4>3. QED
        BY <2>1, <3>1, <3>2, <4>2 DEF Abstract!vars, AbsPhase
    <3>3. CASE nsMap[arg[g]] = NoReport
      <4>1. AbsPhase' = [AbsPhase EXCEPT ![g] = "done"]
        <5>1. pc'[g] = "runlock" /\ ~found'[g]
          <6>1. found \in [Goroutines -> BOOLEAN]
            OBVIOUS
          <6>2. found'[g] = (nsMap[arg[g]] # NoReport)
            BY <3>1, <6>1, ExceptBool
          <6>3. ~found'[g]
            BY <6>2, <3>3
          <6>4. QED
            BY <2>1, <6>3
        <5>2. Phase(g)' = "done"
          BY <5>1 DEF Phase, Linearized
        <5>3. QED
          BY <2>3, <5>2, PhaseFrame
      <4>2. nsMap = [nsMap EXCEPT ![arg[g]] = NoReport]
        BY <3>3
      <4>3. res' = [res EXCEPT ![g] = Returned(NoReport, NoMap)]
        BY <3>1, <3>3
      <4>4. Abstract!Apply(g)
        BY <2>1, <2>2, <2>6, <4>1, <4>2, <4>3, Zenon
           DEF Abstract!Apply, AbsPhase, Returned, Abstract!Returned, NoMap,
               Abstract!NoMap
      <4>5. QED
        BY <4>4 DEF Abstract!Next
    <3>4. QED
      BY <3>2, <3>3
  <2>7. QED
    BY <2>1, <2>4, <2>5, <2>6 DEF ReadOps
<1>6. ASSUME NEW g \in Goroutines, RUnlock(g) PROVE [Abstract!Next]_Abstract!vars
  <2>1. /\ pc[g] = "runlock"
        /\ UNCHANGED <<nsMap, cluster, writer, op, arg, val, res, found,
                       copied, opsLeft>>
        /\ \A h \in Goroutines \ {g} : pc'[h] = pc[h]
    BY <1>6 DEF Goto, RUnlock
  <2>2. CASE op[g] = "RemovePolicyReport" /\ found[g]
    <3>1. pc' = [pc EXCEPT ![g] = "lock"]
      BY <1>6, <2>2 DEF Goto, RUnlock
    <3>2. \A h \in Goroutines : Phase(h)' = Phase(h)
      BY <2>1, <2>2, <3>1 DEF Phase, Linearized
    <3>3. QED
      BY <2>1, <3>2 DEF Abstract!vars, AbsPhase
  <2>3. CASE ~(op[g] = "RemovePolicyReport" /\ found[g])
    <3>1. pc' = [pc EXCEPT ![g] = "idle"]
      BY <1>6, <2>3 DEF Goto, RUnlock
    <3>2. AbsPhase' = [AbsPhase EXCEPT ![g] = "idle"]
      BY <2>1, <3>1, PhaseFrame DEF Phase
    <3>3. Phase(g) = "done"
      BY <2>1, <2>3 DEF Phase, Linearized
    <3>4. Abstract!Return(g)
      BY <2>1, <3>2, <3>3 DEF Abstract!Return, AbsPhase
    <3>5. QED
      BY <3>4 DEF Abstract!Next
  <2>4. QED
    BY <2>2, <2>3
<1>7. ASSUME NEW g \in Goroutines,
             JSONCluster(g) \/ JSONMarshal(g) \/ JSONReturn(g)
      PROVE  FALSE
  <2>1. pc[g] \in JSONPcs
    BY <1>7 DEF JSONCluster, JSONMarshal, JSONReturn
  <2>2. op[g] \in Ops \cup {"none"}
    OBVIOUS
  <2>3. QED
    BY <2>1, <2>2
<1>10. QED
  BY <1>1, <1>2, <1>3, <1>4, <1>5, <1>6, <1>7, <1>9 DEF Next, Step


(***************************************************************************)
(* Every method of the cache but ToJSON is linearizable, for any number   *)
(* of goroutines and calls: the lock steps of Add/Update/Get/Remove        *)
(* (store.go 76-143) implement the atomic map of CacheAtomic, each method  *)
(* taking effect at its write or at its lookup. RemovePolicyReport's gap  *)
(* between RUnlock and Lock (129-131) does no harm: a miss takes effect    *)
(* as a delete of nothing, a hit takes effect at the delete.              *)
(***************************************************************************)
THEOREM LockedLinearizable ==
    ASSUME "ToJSON" \notin Ops
    PROVE  Spec => CacheLinearizable
<1>1. Init => Abstract!Init
  BY DEF Init, Abstract!Init, Phase, Returned, Abstract!Returned, NoMap,
         Abstract!NoMap
<1>2. CacheInv /\ [Next]_vars => [Abstract!Next]_Abstract!vars
  BY RefineStep
<1>3. QED
  BY <1>1, <1>2, InitCacheInv, CacheInvStep, PTL
     DEF Spec, CacheLinearizable, Abstract!Spec

=============================================================================

--------------------------- MODULE LogLevelProofs ---------------------------
(***************************************************************************)
(* Proofs about the log level model (LogLevel.tla), for every range of    *)
(* record levels.                                                         *)
(***************************************************************************)
EXTENDS LogLevel, TLAPS

(* The levels NewSlogger can configure. *)
NamedLevels == {SlogLevelOf[n] : n \in DOMAIN SlogLevelOf}

(***************************************************************************)
(* The handler's level is one of NewSlogger's, and the last record was    *)
(* let through by it and named by ReplaceAttr.                            *)
(***************************************************************************)
HandlerInv ==
    /\ TypeOK
    /\ hstate = "ok" => hlevel \in NamedLevels
    /\ last # NoRecord => /\ hstate = "ok"
                          /\ last[1] >= hlevel
                          /\ last[2] = ReplaceAttr(last[1])

(* The empty flag value is no level name of zerolog. *)
LEMMA UnsetNoLevel == Unset \notin ZeroLevels
  BY Zenon DEF Unset, ZeroLevels, SupportedValues

(* The table of NewSlogger, spelled out. *)
LEMMA SlogTable ==
    /\ DOMAIN SlogLevelOf = {"trace", "debug", "info", "warning", "error", "fatal"}
    /\ SlogLevelOf["trace"] = -8 /\ SlogLevelOf["debug"] = -4
    /\ SlogLevelOf["info"] = 0 /\ SlogLevelOf["warning"] = 4
    /\ SlogLevelOf["error"] = 8 /\ SlogLevelOf["fatal"] = 9
    /\ NamedLevels = {-8, -4, 0, 4, 8, 9}
  BY DEF SlogLevelOf, NamedLevels

(* ReplaceAttr names a level with a level that is not above it, and not  *)
(* below any configurable level that is not above it.                    *)
LEMMA ReplaceAttrFloor ==
    ASSUME NEW l \in Int, NEW h \in NamedLevels, h <= l
    PROVE  /\ ReplaceAttr(l) \in DOMAIN SlogLevelOf
           /\ SlogLevelOf[ReplaceAttr(l)] >= h
  BY SlogTable DEF ReplaceAttr

(* The initial state satisfies HandlerInv. *)
LEMMA InitHandlerInv == Init => HandlerInv
<1> SUFFICES ASSUME Init PROVE HandlerInv
  OBVIOUS
<1>1. last \in (Levels \X DOMAIN SlogLevelOf) \cup {NoRecord}
  BY DEF Init
<1>2. /\ value \in SupportedValues \cup {Unset}
      /\ phase \in {"flags", "failed", "running"}
      /\ global \in ZeroLevels
      /\ hstate \in {"none", "ok", "panicked"}
      /\ hlevel \in Int
  BY DEF Init, ZeroLevels, SupportedValues
<1>3. hstate # "ok" /\ last = NoRecord
  BY DEF Init
<1>4. QED
  BY <1>1, <1>2, <1>3, Zenon DEF HandlerInv, TypeOK

(* Every step keeps HandlerInv. *)
LEMMA HandlerInvStep == HandlerInv /\ [Next]_vars => HandlerInv'
<1> SUFFICES ASSUME HandlerInv, [Next]_vars PROVE HandlerInv'
  OBVIOUS
<1>. USE LevelAssumption DEF HandlerInv, TypeOK
<1>1. ASSUME NEW s \in Inputs, Set(s) PROVE HandlerInv'
  BY <1>1 DEF Set
<1>2. ASSUME NEW s \in Inputs, NewSlogger(s) PROVE HandlerInv'
  <2>1. last = NoRecord /\ last' = NoRecord
    BY <1>2 DEF NewSlogger
  <2>2. CASE s \in DOMAIN SlogLevelOf
    <3>1. SlogLevelOf[s] \in NamedLevels
      BY <2>2 DEF NamedLevels
    <3>2. hstate' = "ok" /\ hlevel' = SlogLevelOf[s]
      BY <1>2, <2>2 DEF NewSlogger
    <3>3. QED
      BY <1>2, <2>1, <3>1, <3>2, SlogTable DEF NewSlogger
  <2>3. CASE s \notin DOMAIN SlogLevelOf
    BY <1>2, <2>1, <2>3 DEF NewSlogger
  <2>4. QED
    BY <2>2, <2>3
<1>3. CASE SetZeroLogLevel
  BY <1>3 DEF SetZeroLogLevel, String, ZeroLevels, SupportedValues
<1>4. ASSUME NEW l \in Levels, Emit(l) PROVE HandlerInv'
  <2>1. ReplaceAttr(l) \in DOMAIN SlogLevelOf
    BY <1>4, ReplaceAttrFloor DEF Emit, Levels
  <2>2. QED
    BY <1>4, <2>1 DEF Emit, Levels, NoRecord
<1>5. CASE UNCHANGED vars
  BY <1>5 DEF vars
<1>6. QED
  BY <1>1, <1>2, <1>3, <1>4, <1>5 DEF Next

(***************************************************************************)
(* Type correctness of the log level model: Level.Set keeps the flag      *)
(* value a supported name or unset, SetZeroLogLevel gives zerolog one of  *)
(* its level names, and the handler only writes records Emit can form.    *)
(***************************************************************************)
THEOREM LevelTypeCorrect == Spec => []TypeOK
<1>1. HandlerInv => TypeOK
  BY DEF HandlerInv
<1>2. QED
  BY <1>1, InitHandlerInv, HandlerInvStep, PTL DEF Spec

(***************************************************************************)
(* RefName(l) is t when t is the highest named level at or below l.       *)
(***************************************************************************)
LEMMA RefNameIsHighest ==
    ASSUME NEW l \in Int, NEW t \in DOMAIN SlogLevelOf, SlogLevelOf[t] <= l,
           \A n \in DOMAIN SlogLevelOf :
               SlogLevelOf[n] <= l => SlogLevelOf[n] <= SlogLevelOf[t]
    PROVE  RefName(l) = t
<1> DEFINE below == {n \in DOMAIN SlogLevelOf : SlogLevelOf[n] <= l}
           Top(n) == \A m \in below : SlogLevelOf[m] <= SlogLevelOf[n]
<1>1. RefName(l) = IF below = {} THEN "trace" ELSE CHOOSE n \in below : Top(n)
  BY DEF RefName
<1>2. t \in below /\ Top(t)
  OBVIOUS
<1>3. \A n \in below : Top(n) => n = t
  BY <1>2, SlogTable
<1>4. QED
  BY <1>1, <1>2, <1>3

(* ReplaceAttr's chain of comparisons computes the reference name. *)
LEMMA ReplaceAttrIsReference ==
    ASSUME NEW l \in Int PROVE ReplaceAttr(l) = RefName(l)
<1>1. CASE l < -8
  <2>1. {n \in DOMAIN SlogLevelOf : SlogLevelOf[n] <= l} = {}
    BY <1>1, SlogTable
  <2>2. RefName(l) = "trace"
    BY <2>1 DEF RefName
  <2>3. l < SlogLevelOf.debug
    BY <1>1, SlogTable
  <2>4. QED
    BY <2>2, <2>3, Zenon DEF ReplaceAttr
<1>2. CASE -8 <= l /\ l < -4
  <2>1. l < SlogLevelOf.debug
    BY <1>2, SlogTable
  <2>2. ReplaceAttr(l) = "trace"
    BY <2>1, Zenon DEF ReplaceAttr
  <2>3. RefName(l) = "trace"
    BY <1>2, SlogTable, RefNameIsHighest
  <2>4. QED
    BY <2>2, <2>3
<1>3. CASE -4 <= l /\ l < 0
  <2>1. ~(l < SlogLevelOf.debug) /\ l < SlogLevelOf.info
    BY <1>3, SlogTable
  <2>2. ReplaceAttr(l) = "debug"
    BY <2>1, Zenon DEF ReplaceAttr
  <2>3. RefName(l) = "debug"
    BY <1>3, SlogTable, RefNameIsHighest
  <2>4. QED
    BY <2>2, <2>3
<1>4. CASE 0 <= l /\ l < 4
  <2>1. ~(l < SlogLevelOf.debug) /\ ~(l < SlogLevelOf.info) /\ l < SlogLevelOf.warning
    BY <1>4, SlogTable
  <2>2. ReplaceAttr(l) = "info"
    BY <2>1, Zenon DEF ReplaceAttr
  <2>3. RefName(l) = "info"
    BY <1>4, SlogTable, RefNameIsHighest
  <2>4. QED
    BY <2>2, <2>3
<1>5. CASE 4 <= l /\ l < 8
  <2>1. ~(l < SlogLevelOf.debug) /\ ~(l < SlogLevelOf.info) /\ ~(l < SlogLevelOf.warning) /\ l < SlogLevelOf.error
    BY <1>5, SlogTable
  <2>2. ReplaceAttr(l) = "warning"
    BY <2>1, Zenon DEF ReplaceAttr
  <2>3. RefName(l) = "warning"
    BY <1>5, SlogTable, RefNameIsHighest
  <2>4. QED
    BY <2>2, <2>3
<1>6. CASE 8 <= l /\ l < 9
  <2>1. ~(l < SlogLevelOf.debug) /\ ~(l < SlogLevelOf.info) /\ ~(l < SlogLevelOf.warning) /\ ~(l < SlogLevelOf.error) /\ l < SlogLevelOf.fatal
    BY <1>6, SlogTable
  <2>2. ReplaceAttr(l) = "error"
    BY <2>1, Zenon DEF ReplaceAttr
  <2>3. RefName(l) = "error"
    BY <1>6, SlogTable, RefNameIsHighest
  <2>4. QED
    BY <2>2, <2>3
<1>7. CASE 9 <= l
  <2>1. ~(l < SlogLevelOf.debug) /\ ~(l < SlogLevelOf.info) /\ ~(l < SlogLevelOf.warning) /\ ~(l < SlogLevelOf.error) /\ ~(l < SlogLevelOf.fatal)
    BY <1>7, SlogTable
  <2>2. ReplaceAttr(l) = "fatal"
    BY <2>1, Zenon DEF ReplaceAttr
  <2>3. RefName(l) = "fatal"
    BY <1>7, SlogTable, RefNameIsHighest
  <2>4. QED
    BY <2>2, <2>3
<1>8. QED
  BY <1>1, <1>2, <1>3, <1>4, <1>5, <1>6, <1>7

(***************************************************************************)
(* Every record the slog handler writes is labelled with the name of the  *)
(* highest named level at or below its level (ReplaceAttr, slogger.go     *)
(* 58-71), for every level a record can have.                             *)
(***************************************************************************)
THEOREM NamesMatchReference == Spec => []ReplaceAttrMatchesReference
<1>1. HandlerInv => ReplaceAttrMatchesReference
  <2> SUFFICES ASSUME HandlerInv, last # NoRecord
               PROVE  last[2] = RefName(last[1])
    BY DEF ReplaceAttrMatchesReference
  <2>1. last[1] \in Int /\ last[2] = ReplaceAttr(last[1])
    BY LevelAssumption DEF HandlerInv, TypeOK, Levels, NoRecord
  <2>2. QED
    BY <2>1, ReplaceAttrIsReference
<1>2. QED
  BY <1>1, InitHandlerInv, HandlerInvStep, PTL DEF Spec

=============================================================================

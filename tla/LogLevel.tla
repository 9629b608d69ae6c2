------------------------------ MODULE LogLevel ------------------------------
(***************************************************************************)
(* The log level of the scanner (src/internal/log): the --loglevel flag    *)
(* value (Level, level.go), the zerolog global level it sets, and the slog *)
(* JSON handler of NewSlogger (slogger.go) with its ReplaceAttr, which     *)
(* prints the custom levels trace (-8) and fatal (9) by name.             *)
(***************************************************************************)
EXTENDS Integers

CONSTANTS
    Inputs,     \* strings given to Level.Set and to NewSlogger
    MinLevel,   \* the slog levels a record may have: MinLevel..MaxLevel
    MaxLevel

ASSUME LevelAssumption == MinLevel \in Int /\ MaxLevel \in Int

(* GetSupportedValues: zerolog's level names (level.go 15-17). *)
SupportedValues == {"trace", "debug", "info", "warn", "error", "fatal"}

(* The names zerolog.ParseLevel accepts, besides the empty string. *)
ZeroLevels == SupportedValues \cup {"panic", "disabled"}

(* The zero value of Level.value. *)
Unset == ""

(* Level.String (level.go 28-33). *)
String(v) == IF v = Unset THEN "info" ELSE v

(* NewSlogger's switch from a level name to an slog level (slogger.go     *)
(* 10-17, 32-48); a name outside it panics.                              *)
SlogLevelOf == [trace |-> -8, debug |-> -4, info |-> 0, warning |-> 4,
                error |-> 8, fatal |-> 9]

(* Mutant: info starts one level late, at 1. *)
ReplaceAttr_OffByOne(l) ==
    IF l < SlogLevelOf.debug THEN "trace"
    ELSE IF l <= SlogLevelOf.info THEN "debug"
    ELSE IF l < SlogLevelOf.warning THEN "info"
    ELSE IF l < SlogLevelOf.error THEN "warning"
    ELSE IF l < SlogLevelOf.fatal THEN "error"
    ELSE "fatal"

(* ReplaceAttr's name for an slog level: the first case of the switch   *)
(* that holds (slogger.go 58-71).                                        *)
ReplaceAttr(l) ==
    IF l < SlogLevelOf.debug THEN "trace"
    ELSE IF l < SlogLevelOf.info THEN "debug"
    ELSE IF l < SlogLevelOf.warning THEN "info"
    ELSE IF l < SlogLevelOf.error THEN "warning"
    ELSE IF l < SlogLevelOf.fatal THEN "error"
    ELSE "fatal"

VARIABLES
    value,    \* Level.value
    phase,    \* "flags" while cobra parses, "failed", or "running"
    global,   \* zerolog's global level
    hstate,   \* the slog handler: "none", "ok", or "panicked"
    hlevel,   \* its level
    last      \* the level and the name of the last record it wrote

vars == <<value, phase, global, hstate, hlevel, last>>

Levels == MinLevel..MaxLevel
NoRecord == <<MinLevel - 1, "none">>

TypeOK ==
    /\ value \in SupportedValues \cup {Unset}
    /\ phase \in {"flags", "failed", "running"}
    /\ global \in ZeroLevels
    /\ hstate \in {"none", "ok", "panicked"}
    /\ hlevel \in Int
    /\ last \in (Levels \X DOMAIN SlogLevelOf) \cup {NoRecord}

(* The zero Level; zerolog's global level starts at debug. *)
Init ==
    /\ value = Unset
    /\ phase = "flags"
    /\ global = "debug"
    /\ hstate = "none"
    /\ hlevel = 0
    /\ last = NoRecord

(* Mutant: Set stores the value before checking it. *)
Set_NoCheck(s) ==
    /\ phase = "flags"
    /\ value' = s
    /\ phase' = IF s \in SupportedValues THEN phase ELSE "failed"
    /\ UNCHANGED <<global, hstate, hlevel, last>>

(* cobra calls Level.Set for a --loglevel flag (level.go 35-50). An       *)
(* unsupported value is an error: the command fails and Execute exits.   *)
Set(s) ==
    /\ phase = "flags"
    /\ IF s \in SupportedValues
          THEN value' = s /\ UNCHANGED phase
          ELSE phase' = "failed" /\ UNCHANGED value
    /\ UNCHANGED <<global, hstate, hlevel, last>>

(* RunE starts with SetZeroLogLevel (root.go 37, level.go 19-26). *)
SetZeroLogLevel ==
    /\ phase = "flags"
    /\ phase' = "running"
    /\ global' = IF String(value) \in ZeroLevels THEN String(value) ELSE "info"
    /\ UNCHANGED <<value, hstate, hlevel, last>>

(* NewSlogger(out, s) (slogger.go 31-82). *)
NewSlogger(s) ==
    /\ hstate = "none"
    /\ IF s \in DOMAIN SlogLevelOf
          THEN hstate' = "ok" /\ hlevel' = SlogLevelOf[s]
          ELSE hstate' = "panicked" /\ UNCHANGED hlevel
    /\ UNCHANGED <<value, phase, global, last>>

(* The handler writes a record of level l, which its level lets through, *)
(* with the level name ReplaceAttr gives it.                             *)
Emit(l) ==
    /\ hstate = "ok" /\ l >= hlevel
    /\ last' = <<l, ReplaceAttr(l)>>
    /\ UNCHANGED <<value, phase, global, hstate, hlevel>>

Next ==
    \/ \E s \in Inputs : Set(s) \/ NewSlogger(s)
    \/ SetZeroLogLevel
    \/ \E l \in Levels : Emit(l)

Spec == Init /\ [][Next]_vars

-----------------------------------------------------------------------------
(* The reference for ReplaceAttr: a level is printed as the name of the  *)
(* highest named level at or below it, and as trace below all of them.   *)
RefName(l) ==
    LET below == {n \in DOMAIN SlogLevelOf : SlogLevelOf[n] <= l}
    IN  IF below = {} THEN "trace"
        ELSE CHOOSE n \in below : \A m \in below : SlogLevelOf[m] <= SlogLevelOf[n]

(* Every record the handler writes carries the name the reference gives  *)
(* its level: ReplaceAttr's chain of strict comparisons (slogger.go       *)
(* 58-71) is right at every boundary the handler lets through.            *)
ReplaceAttrMatchesReference ==
    last # NoRecord => last[2] = RefName(last[1])

=============================================================================

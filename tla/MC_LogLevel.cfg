\* Every flag value, slog's and zerolog's spellings of warn, a bad value,
\* and every slog level from -12 to 12 (the custom levels are -8 and 9).
CONSTANTS
    Inputs = {"", "trace", "debug", "info", "warn", "warning", "error",
              "fatal", "bogus"}
    MinLevel <- MCMinLevel
    MaxLevel <- MCMaxLevel
SPECIFICATION Spec
INVARIANTS TypeOK ReplaceAttrMatchesReference
\* The program ends: after a failed flag, or once everything is logged.
CHECK_DEADLOCK FALSE

----------------------------- MODULE MC_LogLevel -----------------------------
(* The log level model, with slog levels from -12 to 12: every boundary  *)
(* of ReplaceAttr (-8, -4, 0, 4, 8, 9) and levels beyond both ends.      *)
EXTENDS LogLevel

MCMinLevel == -12
MCMaxLevel == 12
=============================================================================

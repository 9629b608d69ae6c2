---------------------------- MODULE MC_ReportSave ----------------------------
(* Two overlapping saves of one report, with other clients of the API     *)
(* server writing it.                                                      *)
EXTENDS ReportSave, TLC

CONSTANTS s1, s2

MCSavers == {s1, s2}

(* Saves are symmetric: each writes its own report. *)
MCSymmetry == Permutations(MCSavers)

=============================================================================

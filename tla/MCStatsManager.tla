--------------------------- MODULE MCStatsManager ---------------------------
(***************************************************************************)
(* Two contents of reports, lists of at most two.                          *)
(***************************************************************************)
EXTENDS StatsManager

TwoReports == {"default", "other"}
=============================================================================

--------------------------- MODULE MCReportExports ---------------------------
(* One report that is submitted with two different sets of lines. *)
EXTENDS ReportExports, TLC
=============================================================================

--------------------------- MODULE MCAnalyzePhase ---------------------------
(* Three jobs for two workers: two hosts, two analysts.                     *)
EXTENDS AnalyzePhase
MCAgent == <<"disk", "disk", "process">>
MCHost  == <<"h", "g", "h">>
=============================================================================

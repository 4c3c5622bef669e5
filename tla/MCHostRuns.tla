----------------------------- MODULE MCHostRuns -----------------------------
(***************************************************************************)
(* Bound for checking HostRuns with two runs: no approval expires.  With   *)
(* one run they do; the properties of several runs ask no row of its age.  *)
(***************************************************************************)
EXTENDS HostRuns

NothingLapses == \A r \in Runs, a \in Actions : ~lapsed[r][a]
=============================================================================

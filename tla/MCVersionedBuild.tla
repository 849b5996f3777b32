--------------------------- MODULE MCVersionedBuild ---------------------------
(* The instance of VersionedBuild that TLC checks: an inspected file and   *)
(* one that is not, a beta and a candidate that carries the stable version. *)
EXTENDS VersionedBuild

MCFiles == <<"uv.lock", "version">>
MCInspected == {"version"}
MCPlans == {[channel |-> "beta", sequence |-> 1], [channel |-> "rc", sequence |-> 1]}
================================================================================

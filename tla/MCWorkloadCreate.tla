------------------------- MODULE MCWorkloadCreate -------------------------
(* Model-checking instance of WorkloadCreate: the flag sets each run       *)
(* enumerates are named here and chosen in the .cfg files.                  *)
EXTENDS WorkloadCreate

AllInputs == {"flags", "file", "stdin"}
AllLocalKinds == {"none", "dir", "zip", "unsupported"}
PushingLocalKinds == {"none", "dir"}

=============================================================================

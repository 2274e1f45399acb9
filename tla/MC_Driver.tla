----------------------------- MODULE MC_Driver -----------------------------
(***************************************************************************)
(* Three files: two with constants to name, and one that has declarations  *)
(* of external functions only.  Their outputs go to different paths, or    *)
(* those of "../lib/a" and "back/lib/a" to the same one.                   *)
(***************************************************************************)
EXTENDS Driver

MC_HasCode == {1, 3}
MC_Constants == <<2, 0, 2>>
MC_Outputs == {<<"back/lib/a", "b", "c">>, <<"back/lib/a", "b", "back/lib/a">>}
=============================================================================

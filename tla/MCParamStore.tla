---------------------------- MODULE MCParamStore ----------------------------
(* Two groups, one of them the UWB group whose load can be rejected.       *)
EXTENDS ParamStore
MCOrder == <<"wifi", "uwb">>
MCSymmetry == Permutations(Names)
MCValues == {0, 1}
=============================================================================

-------------------------- MODULE MCCallHierarchy --------------------------
(* CallHierarchy for TLC: paths with siblings, and a chain of nodes that   *)
(* comes and goes.                                                         *)
EXTENDS CallHierarchy

MCPaths == {<<>>, <<"a">>, <<"a", "a">>, <<"a", "b">>, <<"a", "a", "a">>}
=============================================================================

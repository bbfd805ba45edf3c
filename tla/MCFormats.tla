----------------------------- MODULE MCFormats -----------------------------
(* The two validators of text for TLC, SigString and ObjectPath.  They have *)
(* nothing to do with each other: the signature is read last.               *)
(* Signatures are over one base type, one unknown character, v, a and the   *)
(* brackets; strings for paths over one letter, ".", "/" and "!".           *)
EXTENDS SigString, ObjectPath

\* The signature is read after the path has been cleared.
MCNext == \/ sig = <<>> /\ verdict = "scanning" /\ PathNext /\ UNCHANGED vars
          \/ inner = <<<<>>>> /\ Next /\ UNCHANGED pathVars

MCInit == Init /\ PathInit

MCSpec == MCInit /\ [][MCNext]_<<vars, pathVars>>
=============================================================================

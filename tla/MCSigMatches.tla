---------------------------- MODULE MCSigMatches ----------------------------
(* SigMatches for TLC: rules that overlap in every field, with namespaces  *)
(* inside each other.                                                      *)
EXTENDS SigMatches, TLC

Rule(sender, path, ns, iface, member) ==
  [sender |-> sender, path |-> path, ns |-> ns, iface |-> iface, member |-> member]

a == <<1>>
ab == <<1, 2>>

MCListened == {Rule(<<>>, <<>>, <<a>>, <<>>, <<>>)}
MCRules == MCListened \cup
  {Rule(<<>>, <<ab>>, <<>>, <<1>>, <<>>), Rule(<<>>, <<>>, <<ab>>, <<>>, <<>>),
   Rule(<<1>>, <<>>, <<>>, <<>>, <<1>>)}

MCUsers == Permutations(Users)

MCSignalOf == [s \in Signals |->
  [sender |-> <<1>>, path |-> <<IF s = "s1" THEN ab ELSE a>>, iface |-> <<1>>, member |-> <<1>>]]

\* What the proofs assume of the rules in use holds of these.
ASSUME RulesOrdered == Transitive
ASSUME RulesLayered == Layered
=============================================================================

---------------------------- MODULE MCSendState ----------------------------
(* SendState for TLC: one message without a body, one with a body of two   *)
(* bytes, the others of one.                                               *)
EXTENDS SendState

CONSTANTS m1, m2, m3

MCHdr == [f \in Futures |-> IF f = m1 THEN 2 ELSE 1]
MCBody == [f \in Futures |-> CASE f = m1 -> 0 [] f = m2 -> 2 [] OTHER -> 1]

NoFds == [f \in Futures |-> 0]

\* No message has fds; all have, as many as a message may; one has more than
\* fit in the control buffer; one has some that may not be sent
MCFdChoices == {<<FALSE, NoFds>>, <<TRUE, [f \in Futures |-> 32]>>,
                <<TRUE, [NoFds EXCEPT ![m1] = 61]>>, <<FALSE, [NoFds EXCEPT ![m2] = 1]>>}
MCMixed == {<<TRUE, [NoFds EXCEPT ![m2] = 1]>>}

ASSUME ChoicesUnmixed == Unmixed <=> FdChoices # MCMixed
=============================================================================

---------------------------- MODULE MCRecvState ----------------------------
(* RecvState for TLC: short and long header fields and bodies, with and    *)
(* without fds, and the ways in which a message can be wrong.              *)
EXTENDS RecvState

Shape(fields, body, kind, num, att) ==
  [fields |-> fields, body |-> body, kind |-> kind, num |-> num, att |-> att]

MCShapes ==
  {Shape(f, b, "good", 0, 0) : f \in 0 .. 1, b \in 0 .. 2}
  \cup {Shape(f, b, "good", 2, 2) : f \in 0 .. 1, b \in {0, 2}}
  \cup {Shape(1, b, k, 0, 0) : b \in {0, 2}, k \in {"bad_header", "bad_fields", "bad_body"}}
  \* fds missing, undeclared, or more than a message may carry
  \cup {Shape(1, 1, "good", 2, 0), Shape(1, 0, "good", 0, 2), Shape(0, 1, "good", 3, 3),
        Shape(0, 1, "good", 2, 4)}
=============================================================================

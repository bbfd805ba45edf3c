------------------------------ MODULE MCMessage ------------------------------
(* Message for TLC: types of different alignment, one of them a struct     *)
(* (whose signature has four characters), pushes that fail while they      *)
(* marshal or on their signature, a signature limit of five; and fields of *)
(* other implementations that are wrong in every way the code looks at.    *)
EXTENDS Message

MCTypes ==
  [y  |-> [align |-> 1, len |-> 1, chars |-> 1],
   h  |-> [align |-> 4, len |-> 4, chars |-> 1],
   qy |-> [align |-> 8, len |-> 3, chars |-> 4],
   v  |-> [align |-> 1, len |-> 0, chars |-> 1]]

P(typ, val, fault) == [typ |-> typ, val |-> val, fault |-> fault]

MCParams == {P("y", 1, "none"), P("h", 2, "none"), P("qy", 3, "none"),
             P("h", 4, "marshal"), P("qy", 5, "nested")}
MCText == P("y", 1, "none")

F(code, kind, val) == [code |-> code, kind |-> kind, val |-> val]

MCFields ==
  <<F(1, "o", "n"), F(1, "o", "!"), F(1, "s", "n"), F(2, "s", "n"), F(5, "u", 0), F(5, "u", 1),
    F(7, "s", "c1"), F(7, "s", "!"), F(8, "g", <<"y">>), F(8, "g", <<"!">>), F(9, "u", 1),
    F(0, "s", "n"), F(10, "s", "n"), F(11, "o", "!")>>
==============================================================================

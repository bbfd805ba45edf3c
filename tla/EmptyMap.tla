------------------------------ MODULE EmptyMap ------------------------------
(***************************************************************************)
(* get_empty_map (src/src/routing.rs): the one empty map whose entries are *)
(* the children of a path that has no node, a static that is written by    *)
(* the first thread that asks for it.  A flag says how far it is: 0 not    *)
(* begun, 1 being written, 2 written.  Each connection has its own mutex,  *)
(* so any number of threads may be here at once.  A step is one atomic     *)
(* access of the flag or one access of the map.                            *)
(***************************************************************************)
EXTENDS Naturals, FiniteSets

CONSTANT Threads

VARIABLES
  pc,        \* load, cas, write, store, spin, read, done
  flag,      \* MAP_TUPLE.0
  map,       \* MAP_TUPLE.1: uninit, init
  writes     \* history: how often the map was written

mapVars == <<pc, flag, map, writes>>

MapInit ==
  /\ pc = [t \in Threads |-> "load"]
  /\ flag = 0 /\ map = "uninit" /\ writes = 0

Goto(t, from, to) == pc[t] = from /\ pc' = [pc EXCEPT ![t] = to]

\* get_empty_map reads the flag; init_empty_map spins at once if it was 1.
Load(t) ==
  /\ Goto(t, "load", IF flag = 2 THEN "read" ELSE IF flag = 0 THEN "cas" ELSE "spin")
  /\ UNCHANGED <<flag, map, writes>>

\* compare_exchange(0, 1)
Cas(t) ==
  /\ Goto(t, "cas", IF flag = 0 THEN "write" ELSE "spin")
  /\ flag' = IF flag = 0 THEN 1 ELSE flag
  /\ UNCHANGED <<map, writes>>

Write(t) ==
  /\ Goto(t, "write", "store") /\ map' = "init" /\ writes' = writes + 1
  /\ UNCHANGED flag

Store(t) ==
  /\ Goto(t, "store", "read") /\ flag' = 2
  /\ UNCHANGED <<map, writes>>

\* The loop is left when it loads a 2.
Spin(t) ==
  /\ flag = 2 /\ Goto(t, "spin", "read") /\ UNCHANGED <<flag, map, writes>>

\* The caller uses the reference it was given.
UseMap(t) == Goto(t, "read", "done") /\ UNCHANGED <<flag, map, writes>>

MapStep(t) == Load(t) \/ Cas(t) \/ Write(t) \/ Store(t) \/ Spin(t) \/ UseMap(t)

MapNext == \E t \in Threads : MapStep(t)

MapSpec == MapInit /\ [][MapNext]_mapVars

-----------------------------------------------------------------------------
(* Properties                                                              *)

\* Types: the flag has no fourth value.
MapTypes ==
  /\ pc \in [Threads -> {"load", "cas", "write", "store", "spin", "read", "done"}]
  /\ flag \in 0 .. 2 /\ map \in {"uninit", "init"} /\ writes \in Nat

\* No thread uses the map before it is written, and none writes it while
\* another has a reference to it, which would be a data race: it is written
\* at most once, before the first use (init_empty_map).
WrittenBeforeUse ==
  /\ \A t \in Threads : pc[t] \in {"read", "done"} => map = "init"
  /\ \A t \in Threads : pc[t] = "write" =>
       map = "uninit" /\ \A u \in Threads \ {t} : pc[u] \notin {"write", "store", "read", "done"}
  /\ writes <= 1

-----------------------------------------------------------------------------
(* The inductive invariant behind WrittenBeforeUse                         *)

Writing == {"write", "store"}

\* What the flag says holds, and one thread at most acts on it being 1.
FlagInv ==
  /\ flag = 0 => map = "uninit" /\ writes = 0 /\ \A t \in Threads : pc[t] \in {"load", "cas"}
  /\ flag = 1 => writes <= 1 /\ \A t \in Threads : pc[t] \notin {"read", "done"}
  /\ flag = 2 => map = "init" /\ writes = 1 /\ \A t \in Threads : pc[t] \notin Writing
  /\ \A t \in Threads : pc[t] = "write" => map = "uninit" /\ writes = 0
  /\ \A t \in Threads : pc[t] = "store" => map = "init" /\ writes = 1
  /\ \A t, u \in Threads : pc[t] \in Writing /\ pc[u] \in Writing => t = u

MapInv == MapTypes /\ FlagInv
=============================================================================

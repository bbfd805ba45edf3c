----------------------------- MODULE CallRoutes -----------------------------
(***************************************************************************)
(* What the call hierarchy promises (CallAction in src/src/routing.rs and  *)
(* insert_call_path in src/src/lib.rs): a flat table of one action and one *)
(* queue per object path.  A call goes to the nearest enclosing path whose *)
(* action is not Nothing.                                                  *)
(***************************************************************************)
EXTENDS Naturals, Sequences, SequencesExt

CONSTANTS
  Paths,   \* object paths, as sequences of components, closed under prefixes
  Calls,   \* method calls the peer makes
  None

Action == {"drop", "queue", "exact", "intro", "nothing"}

\* interface of a call: Introspectable, some other, or no interface field
Iface == {"introspectable", "other", "absent"}
\* What became of a call.  One that is "held" was in the queue of a handler that
\* is gone, and a receiver of that queue can still take it.
Fate == {"unsent", "queued", "held", "taken", "discarded", "not_found", "introspected",
         "unknown_iface", "panic"}

VARIABLES
  acts,     \* the action of each path
  queues,   \* the calls queued at each path
  fate,
  object    \* the object path each call is for

vars == <<acts, queues, fate, object>>

Init ==
  /\ acts = [p \in Paths |-> IF p = <<>> THEN "drop" ELSE "nothing"]
  /\ queues = [p \in Paths |-> <<>>]
  /\ fate = [c \in Calls |-> "unsent"] /\ object \in [Calls -> Paths]

Registered(m) == {p \in Paths : IsPrefix(p, m) /\ acts[p] # "nothing"}
\* m is a registered path or leads to one
Known(m) == \E p \in Paths : IsPrefix(m, p) /\ acts[p] # "nothing"

\* The path whose action decides about calls to m
Route(m) ==
  IF Registered(m) = {} THEN None
  ELSE CHOOSE p \in Registered(m) : \A q \in Registered(m) : Len(q) <= Len(p)

Queues(p, m) == acts[p] = "queue" \/ (acts[p] = "exact" /\ m = p)

\* m is r or the first step from r to m leads to a registered path: only then
\* is m looked at as an object below r.
Below(r, m) == m = r \/ Known(SubSeq(m, 1, Len(r) + 1))

\* A path gets a new action and, with it, a new queue.  Is the old one held by
\* a receiver?
Insert(p, a, held) ==
  /\ acts' = [acts EXCEPT ![p] = a]
  /\ queues' = [queues EXCEPT ![p] = <<>>]
  /\ fate' = [c \in Calls |-> IF c \in ToSet(queues[p])
                              THEN IF held THEN "held" ELSE "discarded" ELSE fate[c]]
  /\ UNCHANGED object

\* A call is read by somebody who does not wait for it.
Receive(c, iface) ==
  /\ fate[c] = "unsent"
  /\ LET m == object[c]
         r == Route(m) IN
     IF r # None /\ Queues(r, m)
     THEN /\ queues' = [queues EXCEPT ![r] = Append(@, c)]
          /\ fate' = [fate EXCEPT ![c] = "queued"]
     ELSE /\ fate' = [fate EXCEPT ![c] =
               IF r # None /\ acts[r] = "intro" /\ Below(r, m)
               THEN CASE iface = "introspectable" -> "introspected"
                      [] iface = "other" -> "unknown_iface"
                      [] iface = "absent" -> "panic"
               ELSE "not_found"]
          /\ UNCHANGED queues
  /\ UNCHANGED <<acts, object>>

\* A call is read by a get_call future that waits at p, the path at which it
\* would be queued otherwise.
ReceiveAt(p, c) ==
  /\ fate[c] = "unsent"
  /\ Route(object[c]) = p /\ Queues(p, object[c])
  /\ fate' = [fate EXCEPT ![c] = "taken"]
  /\ UNCHANGED <<acts, queues, object>>

Take(p) ==
  /\ queues[p] # <<>>
  /\ fate' = [fate EXCEPT ![Head(queues[p])] = "taken"]
  /\ queues' = [queues EXCEPT ![p] = Tail(@)]
  /\ UNCHANGED <<acts, object>>

\* The receiver of a queue that is gone takes a call, or goes away too.
Release(c, end) ==
  /\ fate[c] = "held" /\ end \in {"taken", "discarded"}
  /\ fate' = [fate EXCEPT ![c] = end]
  /\ UNCHANGED <<acts, queues, object>>

Next ==
  \/ \E p \in Paths, a \in Action, held \in BOOLEAN : Insert(p, a, held)
  \/ \E c \in Calls, i \in Iface : Receive(c, i)
  \/ \E p \in Paths, c \in Calls : ReceiveAt(p, c)
  \/ \E p \in Paths : Take(p)
  \/ \E c \in Calls, end \in Fate : Release(c, end)

Spec == Init /\ [][Next]_vars
=============================================================================

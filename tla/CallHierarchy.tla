--------------------------- MODULE CallHierarchy ---------------------------
(***************************************************************************)
(* CallHierarchy (src/src/routing.rs), the tree that decides what happens  *)
(* to incoming method calls, with the operations RpcConn performs on it    *)
(* under the recv_data mutex (src/src/lib.rs).  The nested HashMaps are    *)
(* one function from the tree's nodes, as paths from the root, to their    *)
(* handlers.                                                               *)
(***************************************************************************)
EXTENDS Naturals, Sequences, SequencesExt

CONSTANTS
  Paths,         \* object paths, as sequences of components, closed under prefixes
  Calls,         \* method calls the peer makes
  Ifaces,        \* the interfaces they name, see CallRoutes!Iface
  NullifyOnly,   \* does the user insert Nothing only where there is a node?
  OwnCallsOnly,  \* does a get_call future at an Exact path read no calls of its children?
  None

ASSUME HierarchyAssumption ==
  /\ <<>> \in Paths /\ Paths \subseteq Seq(UNION {ToSet(p) : p \in Paths})
  /\ \A p \in Paths : \A i \in 0 .. Len(p) : SubSeq(p, 1, i) \in Paths
  /\ Ifaces \subseteq {"introspectable", "other", "absent"}
  /\ None \notin Paths /\ NullifyOnly \in BOOLEAN /\ OwnCallsOnly \in BOOLEAN

VARIABLES
  tree,   \* node -> [action, queue]: the CallHierarchy
  fate,   \* what became of each call
  object  \* the object path each call is for

vars == <<tree, fate, object>>

Action == {"drop", "queue", "exact", "intro", "nothing"}

\* From<CallAction>: a new handler has a new queue.
Handler(a) == [action |-> a, queue |-> <<>>]

Init ==
  /\ tree = [n \in {<<>>} |-> Handler("drop")]
  /\ fate = [c \in Calls |-> "unsent"] /\ object \in [Calls -> Paths]

Up(p, i) == SubSeq(p, 1, i)
Children(t, n) == {p \in DOMAIN t : Len(p) = Len(n) + 1 /\ IsPrefix(n, p)}

-----------------------------------------------------------------------------
(* insert_path, get_queue                                                  *)

\* The nodes on the way to p exist and p has its new handler.
Reach(t, p, a) ==
  [n \in DOMAIN t \cup {Up(p, i) : i \in 0 .. Len(p)} |->
     IF n = p THEN Handler(a) ELSE IF n \in DOMAIN t THEN t[n] ELSE Handler("nothing")]

\* HashMap::remove takes the subtree with the node.
Prune(t, gone) ==
  [n \in {q \in DOMAIN t : \A g \in gone : ~IsPrefix(g, q)} |-> t[n]]

\* Mistake: what became empty is left in the tree.
InsertInnerUntrimmed(t, p, a) == Reach(t, p, a)

\* Mistake: a node whose child went away goes too if it has no action.
InsertInnerNoSiblings(t, p, a) ==
  LET r == Reach(t, p, a)
      kept[i \in 0 .. Len(p)] ==
        IF i = Len(p) THEN a # "nothing" \/ Children(r, p) # {}
        ELSE kept[i + 1] \/ r[Up(p, i)].action # "nothing"
  IN Prune(r, {Up(p, i) : i \in {j \in 1 .. Len(p) : ~kept[j]}})

\* insert_inner: Kept[i] is what the call for the node Up(p, i) returns; its
\* parent removes, or never adds, a node for which it returns false.  A
\* parent that does not add one looks only at its own handler.
Kept(t, p, a) ==
  LET r == Reach(t, p, a)
      kept[i \in 0 .. Len(p)] ==
        IF i = Len(p) THEN a # "nothing" \/ Children(r, p) # {}
        ELSE \/ kept[i + 1]
             \/ r[Up(p, i)].action # "nothing"
             \/ Up(p, i + 1) \in DOMAIN t /\ Children(t, Up(p, i)) # {Up(p, i + 1)}
  IN kept

InsertInner(t, p, a) ==
  LET kept == Kept(t, p, a)
  IN Prune(Reach(t, p, a), {Up(p, i) : i \in {j \in 1 .. Len(p) : ~kept[j]}})

HasQueue(h) == h.action \in {"queue", "exact"}

Queued(t) == UNION {ToSet(t[n].queue) : n \in DOMAIN t}

\* insert_call_path.  The queue of a handler that goes away goes with it, unless
\* it is one of those held: a get_call future or the caller of get_call_recv has
\* a receiver of it.
InsertPath(p, a, held) ==
  /\ a = "nothing" /\ NullifyOnly => p \in DOMAIN tree
  /\ tree' = InsertInner(tree, p, a)
  /\ fate' = [c \in Calls |->
       IF c \notin Queued(tree) \ Queued(tree') THEN fate[c]
       ELSE IF \E n \in held : c \in ToSet(tree[n].queue) THEN "held" ELSE "discarded"]
  /\ UNCHANGED object

-----------------------------------------------------------------------------
(* send and is_match                                                       *)

ToQueue(n) == [status |-> "queue", at |-> n]
Dropped == [status |-> "dropped", at |-> None]
Introspect(n) == [status |-> "intro", at |-> n]
Unhandled(n) == [status |-> "unhandled", at |-> n]

\* The three matches of send_inner on a node's handler.  Intro and Unhandled
\* carry the node whose children are iterated over, None for the empty map.
\* The path ends here:
AtTarget(h, n) ==
  CASE HasQueue(h) -> ToQueue(n)
    [] h.action = "nothing" -> Unhandled(n)
    [] h.action = "drop" -> Dropped
    [] h.action = "intro" -> Introspect(n)
\* It goes on, but there is no such child:
Childless(h, n) ==
  CASE h.action = "queue" -> ToQueue(n)
    [] h.action = "nothing" -> Unhandled(None)
    [] OTHER -> Dropped
\* The child left it unhandled:
PassedUp(h, n, keys) ==
  CASE h.action = "nothing" -> Unhandled(keys)
    [] h.action = "queue" -> ToQueue(n)
    [] h.action = "intro" -> Introspect(keys)
    [] OTHER -> Dropped

\* send_inner of each node Up(m, i) of the tree
SendInner(t, m) ==
  LET s[i \in 0 .. Len(m)] ==
        LET n == Up(m, i) IN
        IF i = Len(m) THEN AtTarget(t[n], n)
        ELSE IF Up(m, i + 1) \notin DOMAIN t THEN Childless(t[n], n)
        ELSE IF s[i + 1].status = "unhandled" THEN PassedUp(t[n], n, s[i + 1].at)
        ELSE s[i + 1]
  IN s

\* Mistake: a handler further down is not asked.
IsMatchShallow(t, org, m) ==
  /\ IsPrefix(org, m) /\ org \in DOMAIN t
  /\ t[org].action = "queue" \/ (t[org].action = "exact" /\ m = org)

\* is_match: would the queue at org be the one for a call to m?
IsMatch(t, org, m) ==
  /\ IsPrefix(org, m) /\ org \in DOMAIN t
  /\ IF m = org THEN HasQueue(t[org])
     ELSE IF Up(m, Len(org) + 1) \in DOMAIN t
     THEN SendInner(t, m)[Len(org) + 1].status = "unhandled" /\ HasQueue(t[org])
     ELSE t[org].action = "queue"

\* Mistake: only children with an action of their own are listed.
ListedActive(t, n) == IF n = None THEN {}
                      ELSE {p \in Children(t, n) : t[p].action \notin {"drop", "nothing"}}

\* the <node> elements of make_intro_msg
Listed(t, n) == IF n = None THEN {} ELSE {p \in Children(t, n) : t[p].action # "drop"}

\* make_intro_msg
IntroFate(iface) ==
  CASE iface = "introspectable" -> "introspected"
    [] iface = "other" -> "unknown_iface"
    [] iface = "absent" -> "panic"      \* interface.as_ref().unwrap()

\* queue_msg reads a call that its predicate does not take: send.
Receive(c, iface) ==
  /\ fate[c] = "unsent"
  /\ LET s == SendInner(tree, object[c])[0] IN
     IF s.status = "queue"
     THEN /\ tree' = [tree EXCEPT ![s.at].queue = Append(@, c)]
          /\ fate' = [fate EXCEPT ![c] = "queued"]
     ELSE /\ fate' = [fate EXCEPT ![c] =
                        IF s.status = "intro" THEN IntroFate(iface) ELSE "not_found"]
          /\ UNCHANGED tree
  /\ UNCHANGED object

\* A get_call future waiting at p reads it: its predicate is is_match, which is
\* also true at an Exact path of a call to a child that is a node.
ReceiveAt(p, c) ==
  /\ fate[c] = "unsent"
  /\ IsMatch(tree, p, object[c])
  /\ OwnCallsOnly /\ tree[p].action = "exact" => object[c] = p
  /\ fate' = [fate EXCEPT ![c] = "taken"]
  /\ UNCHANGED <<tree, object>>

\* A get_call future, or a receiver of get_call_recv, takes from p's queue.
Take(p) ==
  /\ p \in DOMAIN tree /\ tree[p].queue # <<>>
  /\ fate' = [fate EXCEPT ![Head(tree[p].queue)] = "taken"]
  /\ tree' = [tree EXCEPT ![p].queue = Tail(@)]
  /\ UNCHANGED object

\* The receiver of a queue whose handler is gone takes a call (in any order, if
\* there are several), or is dropped.
Release(c, end) ==
  /\ fate[c] = "held" /\ end \in {"taken", "discarded"}
  /\ fate' = [fate EXCEPT ![c] = end]
  /\ UNCHANGED <<tree, object>>

\* the nodes whose queue holds something
Waiting == {n \in DOMAIN tree : tree[n].queue # <<>>}

Next ==
  \/ \E p \in Paths, a \in Action, held \in SUBSET Waiting : InsertPath(p, a, held)
  \/ \E c \in Calls, i \in Ifaces : Receive(c, i)
  \/ \E p \in Paths, c \in Calls : ReceiveAt(p, c)
  \/ \E p \in Paths : Take(p)
  \/ \E c \in Calls, end \in {"taken", "discarded"} : Release(c, end)

Spec == Init /\ [][Next]_vars

-----------------------------------------------------------------------------
(* Properties                                                              *)

\* The table that the tree stands for
Acts == [p \in Paths |-> IF p \in DOMAIN tree THEN tree[p].action ELSE "nothing"]
QueueAt == [p \in Paths |-> IF p \in DOMAIN tree THEN tree[p].queue ELSE <<>>]
Routes == INSTANCE CallRoutes WITH acts <- Acts, queues <- QueueAt

\* The tree behaves as a flat table of actions and queues: an insert changes
\* one path and touches only the calls queued there, a call is routed by the
\* nearest enclosing action, and a reader takes it only where it would have been
\* queued.  Of the tree as used with NullifyOnly and OwnCallsOnly: without the
\* one an insert of Nothing removes other paths, without the other an Exact path
\* "requires that call object path is an exact match, rather than also accepting
\* child paths" (routing.rs:106) of send only, and is_match (routing.rs:254)
\* lets a get_call future take what send would refuse.
FlatTable == Routes!Spec

\* A path that lost its action leaves nothing behind (the test "trimming",
\* routing.rs:680): every leaf but the root has an action.
Trimmed ==
  \A n \in DOMAIN tree \ {<<>>} :
    Children(tree, n) = {} => tree[n].action # "nothing"

\* Whoever reads a call: the future waiting at the path where send would queue
\* it recognises it as its own, and no two paths claim the same call.
OneTaker ==
  \A m \in Paths :
    /\ LET s == SendInner(tree, m)[0] IN s.status = "queue" => IsMatch(tree, s.at, m)
    /\ \A p, q \in DOMAIN tree : IsMatch(tree, p, m) /\ IsMatch(tree, q, m) => p = q

\* Introspection finds every object: from an Intro path down to a queue below
\* it, past nodes that are Nothing or Intro, each answer lists the next step.
Discoverable ==
  \A p, n \in DOMAIN tree :
    /\ tree[p].action = "intro" /\ HasQueue(tree[n])
    /\ IsStrictPrefix(p, n)
    /\ \A i \in Len(p) + 1 .. Len(n) - 1 : tree[Up(n, i)].action \in {"nothing", "intro"}
    => \A i \in Len(p) .. Len(n) - 1 :
         LET s == SendInner(tree, Up(n, i))[0] IN
         s.status = "intro" /\ Up(n, i + 1) \in Listed(tree, s.at)

-----------------------------------------------------------------------------
(* The inductive invariant behind them                                     *)

Handlers == [action : Action, queue : Seq(Calls)]

\* The parent of a node is a node.
IsTree(t) ==
  /\ <<>> \in DOMAIN t /\ DOMAIN t \subseteq Paths
  /\ \A n \in DOMAIN t : \A i \in 0 .. Len(n) : Up(n, i) \in DOMAIN t
  /\ t \in [DOMAIN t -> Handlers]

\* Every node but the root is there because of an action at it or below it.
LeadsToAction(t) ==
  \A n \in DOMAIN t \ {<<>>} :
    \E q \in DOMAIN t : IsPrefix(n, q) /\ t[q].action # "nothing"

\* A call is queued in one place, where there is a queue.
QueuedOnce(t, f) ==
  /\ \A n \in DOMAIN t : ~HasQueue(t[n]) => t[n].queue = <<>>
  /\ \A n \in DOMAIN t : \A i \in 1 .. Len(t[n].queue) : f[t[n].queue[i]] = "queued"
  /\ \A n, q \in DOMAIN t : \A i \in 1 .. Len(t[n].queue), j \in 1 .. Len(t[q].queue) :
       t[n].queue[i] = t[q].queue[j] => n = q /\ i = j

HierarchyInv ==
  /\ IsTree(tree) /\ LeadsToAction(tree) /\ QueuedOnce(tree, fate)
  /\ fate \in [Calls -> Routes!Fate] /\ object \in [Calls -> Paths]

-----------------------------------------------------------------------------
\* "This action does nothing. [...] This variant is primarily constructed by
\* end users to nullify previously added actions." (routing.rs:111):
\* insert_call_path changes the action of no path but its argument.
InsertIsLocal ==
  [][\A p \in Paths, a \in Action, held \in SUBSET Waiting :
       InsertPath(p, a, held) => \A q \in Paths \ {p} : Acts'[q] = Acts[q]]_vars
=============================================================================

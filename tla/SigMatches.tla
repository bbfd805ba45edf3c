----------------------------- MODULE SigMatches -----------------------------
(***************************************************************************)
(* Signals: MatchRule and queue_sig (src/src/routing.rs), and what RpcConn *)
(* does with RecvData.sig_matches (src/src/lib.rs): insert_sig_match and   *)
(* remove_sig_match, which keep a sorted vector here and a subscription at *)
(* the bus daemon there, and get_signal.                                   *)
(*                                                                         *)
(* An Option is a sequence of length 0 or 1, a name a number (in the       *)
(* strings' order), an object path a sequence of names.                    *)
(***************************************************************************)
EXTENDS Integers, Sequences, SequencesExt, FiniteSets

CONSTANTS
  Rules,        \* the MatchRules in use: [sender, path, ns, iface, member]
  Signals,      \* names of the signals that arrive
  SignalOf,     \* their header fields: [sender, path, iface, member]
  Listened,     \* the rules get_signal is called with
  Users,        \* tasks that insert and remove match rules
  CanRefuse,    \* may the daemon refuse an AddMatch (it limits their number)?
  MaxMuddled    \* bound on the number of muddled rules

\* insert_sig_match panics on a rule with both a path and a path_namespace
ASSUME RulesAssumption ==
  /\ Rules \subseteq [sender : Seq(Nat), path : Seq(Seq(Nat)), ns : Seq(Seq(Nat)),
                      iface : Seq(Nat), member : Seq(Nat)]
  /\ \A r \in Rules : /\ Len(r.sender) <= 1 /\ Len(r.path) <= 1 /\ Len(r.ns) <= 1
                      /\ Len(r.iface) <= 1 /\ Len(r.member) <= 1
  /\ \A r \in Rules : r.path = <<>> \/ r.ns = <<>>
  /\ Listened \subseteq Rules /\ CanRefuse \in BOOLEAN /\ MaxMuddled \in Nat

VARIABLES
  matches,   \* RecvData.sig_matches: [rule, queue], in order
  waiting,   \* get_signal futures: "no", "live", or "cut" when the rule went away
  pc,        \* what each user is doing: idle, adding, ...
  req,       \* with which rule
  daemon,    \* the daemon's subscriptions for this connection, with multiplicity
  fate,      \* what became of each signal
  to,        \* the rule it was queued at or returned for
  muddled    \* rules of which two operations overlapped, or one was cut short

vars == <<matches, waiting, pc, req, daemon, fate, to, muddled>>

-----------------------------------------------------------------------------
(* Ord for MatchRule: -1 less, 1 greater, 0 undecided or equal             *)

FirstDecided(s) == LET i == SelectInSeq(s, LAMBDA x : x # 0) IN IF i = 0 THEN 0 ELSE s[i]

\* option_ord
OptionOrd(l, r) ==
  CASE l # <<>> /\ r = <<>> -> -1
    [] l = <<>> /\ r # <<>> -> 1
    [] OTHER -> 0

\* path_subset
PathSubset(l, r) ==
  IF l = <<>> \/ r = <<>> THEN OptionOrd(l, r)
  ELSE IF IsStrictPrefix(r[1], l[1]) THEN -1
  ELSE IF IsStrictPrefix(l[1], r[1]) THEN 1
  ELSE 0

\* cmp of two names, of two paths (component by component, as '/' sorts
\* before every character of a component), and of two options of each
NameCmp(x, y) == IF x < y THEN -1 ELSE IF x > y THEN 1 ELSE 0
PathCmp(x, y) ==
  LET n == IF Len(x) < Len(y) THEN Len(x) ELSE Len(y) IN
  FirstDecided([i \in 1 .. n + 1 |-> IF i <= n THEN NameCmp(x[i], y[i])
                                     ELSE NameCmp(Len(x), Len(y))])
OptNameCmp(l, r) ==
  IF l = <<>> \/ r = <<>> THEN NameCmp(Len(l), Len(r)) ELSE NameCmp(l[1], r[1])
OptPathCmp(l, r) ==
  IF l = <<>> \/ r = <<>> THEN NameCmp(Len(l), Len(r)) ELSE PathCmp(l[1], r[1])

\* Mistake: the namespace is compared as a string only.
CmpNoSubset(a, b) ==
  FirstDecided(<<OptionOrd(a.sender, b.sender), OptionOrd(a.path, b.path),
                 OptionOrd(a.ns, b.ns),
                 OptionOrd(a.iface, b.iface), OptionOrd(a.member, b.member),
                 OptNameCmp(a.sender, b.sender), OptPathCmp(a.path, b.path),
                 OptPathCmp(a.ns, b.ns), OptNameCmp(a.iface, b.iface),
                 OptNameCmp(a.member, b.member)>>)

Cmp(a, b) ==
  FirstDecided(<<OptionOrd(a.sender, b.sender), OptionOrd(a.path, b.path),
                 PathSubset(a.ns, b.ns),
                 OptionOrd(a.iface, b.iface), OptionOrd(a.member, b.member),
                 OptNameCmp(a.sender, b.sender), OptPathCmp(a.path, b.path),
                 OptPathCmp(a.ns, b.ns), OptNameCmp(a.iface, b.iface),
                 OptNameCmp(a.member, b.member)>>)

\* that comparison of any two rules in use
Order == [a \in Rules |-> [b \in Rules |-> Cmp(a, b)]]

\* slice::binary_search.  Which elements it looks at is unspecified, so on a
\* vector that is not sorted every answer its neighbours allow is possible.
Found(v, r) == {i \in 1 .. Len(v) : Order[v[i].rule][r] = 0}

Gaps(v, r) ==
  {i \in 1 .. Len(v) + 1 : /\ i > 1 => Order[v[i - 1].rule][r] = -1
                           /\ i <= Len(v) => Order[v[i].rule][r] = 1}

-----------------------------------------------------------------------------
(* MatchRule::matches and queue_sig                                        *)

FieldMatches(rf, sf) == rf = <<>> \/ rf = sf
Matches(r, s) ==
  LET h == SignalOf[s] IN
  /\ FieldMatches(r.sender, h.sender)
  /\ FieldMatches(r.path, h.path)
  /\ r.ns # <<>> => h.path # <<>> /\ IsPrefix(r.ns[1], h.path[1])
  /\ FieldMatches(r.iface, h.iface)
  /\ FieldMatches(r.member, h.member)

\* Mistake: the last rule that matches gets the signal.
FirstMatchLast(v, s) == SelectLastInSeq(v, LAMBDA e : Matches(e.rule, s))

\* the rule at which queue_sig stops, 0 if there is none
FirstMatch(v, s) == SelectInSeq(v, LAMBDA e : Matches(e.rule, s))

Init ==
  /\ matches = <<>>
  /\ waiting = [r \in Rules |-> "no"]
  /\ pc = [u \in Users |-> "idle"] /\ req = [u \in Users |-> {}]
  /\ daemon = [r \in Rules |-> 0]
  /\ fate = [s \in Signals |-> "unsent"] /\ to = [s \in Signals |-> {}]
  /\ muddled = {}

\* A future that does not wait for s reads it.
ReadOther(s) ==
  /\ fate[s] = "unsent"
  /\ LET i == FirstMatch(matches, s) IN
     IF i = 0
     THEN fate' = [fate EXCEPT ![s] = "dropped"] /\ UNCHANGED <<matches, to>>
     ELSE /\ matches' = [matches EXCEPT ![i].queue = Append(@, s)]
          /\ fate' = [fate EXCEPT ![s] = "queued"]
          /\ to' = [to EXCEPT ![s] = {matches[i].rule}]
  /\ UNCHANGED <<waiting, pc, req, daemon, muddled>>

\* get_signal looks its rule up and clones the queue's receiver.
GetSignal(r) ==
  /\ r \in Listened /\ waiting[r] = "no" /\ Found(matches, r) # {}
  /\ waiting' = [waiting EXCEPT ![r] = "live"]
  /\ UNCHANGED <<matches, pc, req, daemon, fate, to, muddled>>

\* what is left in a deleted queue of r, whose receiver a get_signal still has
Held(r) ==
  {s \in Signals : /\ fate[s] = "queued" /\ to[s] = {r}
                   /\ \A i \in 1 .. Len(matches) : s \notin ToSet(matches[i].queue)}

\* It reads s itself: its predicate is sig_match.matches.  The receiver goes.
ReadMine(r, s) ==
  /\ waiting[r] # "no" /\ fate[s] = "unsent" /\ Matches(r, s)
  /\ waiting' = [waiting EXCEPT ![r] = "no"]
  /\ fate' = [q \in Signals |-> CASE q = s -> "taken"
                                 [] q \in Held(r) -> "discarded"
                                 [] OTHER -> fate[q]]
  /\ to' = [to EXCEPT ![s] = {r}]
  /\ UNCHANGED <<matches, pc, req, daemon, muddled>>

\* It takes the oldest signal of its queue.
TakeQueued(r) ==
  /\ waiting[r] = "live"
  /\ \E i \in Found(matches, r) :
       /\ matches[i].queue # <<>>
       /\ fate' = [fate EXCEPT ![Head(matches[i].queue)] = "taken"]
       /\ matches' = [matches EXCEPT ![i].queue = Tail(@)]
  /\ waiting' = [waiting EXCEPT ![r] = "no"]
  /\ UNCHANGED <<pc, req, daemon, to, muddled>>

\* The queue was deleted while it waited: a signal that was in it is returned,
\* otherwise Interrupted.
Interrupted(r) ==
  /\ waiting[r] = "cut"
  /\ waiting' = [waiting EXCEPT ![r] = "no"]
  /\ fate' = [q \in Signals |-> IF q \in Held(r) THEN "taken" ELSE fate[q]]
  /\ UNCHANGED <<matches, pc, req, daemon, to, muddled>>

-----------------------------------------------------------------------------
(* insert_sig_match and remove_sig_match.  The mutex is not held while the *)
(* daemon is asked.                                                        *)

\* sig_matches.remove(i): the queue goes, and its signals are lost, but for the
\* one that a get_signal with a receiver of its own takes before it returns.
RemoveAtIdx(i) ==
  /\ matches' = RemoveAt(matches, i)
  /\ waiting' = [waiting EXCEPT ![matches[i].rule] = IF @ = "live" THEN "cut" ELSE @]
  /\ fate' = [s \in Signals |->
               IF /\ s \in ToSet(matches[i].queue)
                  /\ waiting[matches[i].rule] = "live" => s # Head(matches[i].queue)
               THEN "discarded" ELSE fate[s]]

\* u begins an operation with r.  Bound: a muddled rule is left alone.
Begin(u, r, op) ==
  /\ r \notin muddled
  /\ pc' = [pc EXCEPT ![u] = op] /\ req' = [req EXCEPT ![u] = {r}]
  /\ muddled' = muddled \cup {q \in {r} : \E v \in Users : q \in req[v]}
  /\ Cardinality(muddled') <= MaxMuddled

InsertLocal(u, r) ==
  /\ pc[u] = "idle"
  /\ \E i \in Gaps(matches, r) :
       matches' = InsertAt(matches, i, [rule |-> r, queue |-> <<>>])
  /\ Begin(u, r, "adding")
  /\ UNCHANGED <<waiting, daemon, fate, to>>

\* "Already exists" and "MatchRule doesn't exist!" change nothing.
RemoveLocal(u, r) ==
  /\ pc[u] = "idle"
  /\ \E i \in Found(matches, r) : RemoveAtIdx(i)
  /\ Begin(u, r, "removing")
  /\ UNCHANGED <<daemon, to>>

\* The daemon handles u's AddMatch or RemoveMatch; calls of two users reach it
\* in any order.
Daemon(u) ==
  /\ \E r \in req[u] :
       \/ /\ pc[u] = "adding"
          /\ daemon' = [daemon EXCEPT ![r] = @ + 1]
          /\ pc' = [pc EXCEPT ![u] = "added"]
       \/ /\ pc[u] = "adding" /\ CanRefuse
          /\ pc' = [pc EXCEPT ![u] = "refused"]
          /\ UNCHANGED daemon
       \/ /\ pc[u] = "removing"
          /\ daemon' = [daemon EXCEPT ![r] = IF @ = 0 THEN 0 ELSE @ - 1]
          /\ pc' = [pc EXCEPT ![u] = "removed"]
  /\ UNCHANGED <<matches, waiting, req, fate, to, muddled>>

\* Reply: Ok(()).
InsertOk(u) ==
  /\ pc[u] = "added"
  /\ pc' = [pc EXCEPT ![u] = "idle"] /\ req' = [req EXCEPT ![u] = {}]
  /\ UNCHANGED <<matches, waiting, daemon, fate, to, muddled>>

\* Mistake: the rule stays although the daemon refused it.
InsertRefusedKeep(u) ==
  /\ pc[u] = "refused"
  /\ pc' = [pc EXCEPT ![u] = "idle"] /\ req' = [req EXCEPT ![u] = {}]
  /\ UNCHANGED <<matches, waiting, daemon, fate, to, muddled>>

\* Error: lock again, look the rule up again, remove it.
InsertRefused(u) ==
  /\ pc[u] = "refused"
  /\ \E r \in req[u] :
       \/ \E i \in Found(matches, r) : RemoveAtIdx(i)
       \/ Gaps(matches, r) # {} /\ UNCHANGED <<matches, waiting, fate>>
  /\ pc' = [pc EXCEPT ![u] = "idle"] /\ req' = [req EXCEPT ![u] = {}]
  /\ UNCHANGED <<daemon, to, muddled>>

RemoveDone(u) ==
  /\ pc[u] = "removed"
  /\ pc' = [pc EXCEPT ![u] = "idle"] /\ req' = [req EXCEPT ![u] = {}]
  /\ UNCHANGED <<matches, waiting, daemon, fate, to, muddled>>

\* The future is dropped, or ended by an I/O error, before it has the answer:
\* the list stays as it is, and the daemon may or may not see the call.
CutShort(u) ==
  /\ pc[u] # "idle"
  /\ \E r \in req[u] :
       daemon' \in {daemon, [daemon EXCEPT ![r] = CASE pc[u] = "adding" -> @ + 1
                                                    [] pc[u] = "removing" /\ @ > 0 -> @ - 1
                                                    [] OTHER -> @]}
  /\ pc' = [pc EXCEPT ![u] = "idle"] /\ req' = [req EXCEPT ![u] = {}]
  /\ muddled' = muddled \cup req[u] /\ Cardinality(muddled') <= MaxMuddled
  /\ UNCHANGED <<matches, waiting, fate, to>>

Next ==
  \/ \E s \in Signals : ReadOther(s) \/ \E r \in Rules : ReadMine(r, s)
  \/ \E r \in Rules : GetSignal(r) \/ TakeQueued(r) \/ Interrupted(r)
  \/ \E u \in Users :
       \/ Daemon(u) \/ InsertOk(u) \/ InsertRefused(u) \/ RemoveDone(u) \/ CutShort(u)
       \/ \E r \in Rules : InsertLocal(u, r) \/ RemoveLocal(u, r)

Spec == Init /\ [][Next]_vars
-----------------------------------------------------------------------------
(* Properties                                                              *)

Present == {matches[i].rule : i \in 1 .. Len(matches)}

\* Every signal r matches is one q matches.
Narrower(r, q) ==
  /\ FieldMatches(q.sender, r.sender) /\ FieldMatches(q.path, r.path)
  /\ FieldMatches(q.iface, r.iface) /\ FieldMatches(q.member, r.member)
  /\ q.ns # <<>> => \/ r.path # <<>> /\ IsPrefix(q.ns[1], r.path[1])
                    \/ r.ns # <<>> /\ IsPrefix(q.ns[1], r.ns[1])

Narrowings == {p \in Rules \X Rules : Narrower(p[1], p[2])}

\* However rules are inserted and removed, every pair of sig_matches, and not
\* only neighbours, is in the order of MatchRule's Ord, as binary_search needs
\* it; and no rule comes before a narrower one, which would never be given a
\* signal, as queue_sig stops at the first that matches.
MostSpecificFirst ==
  \A i, j \in 1 .. Len(matches) :
    i < j => /\ Order[matches[i].rule][matches[j].rule] = -1
             /\ <<matches[j].rule, matches[i].rule>> \notin Narrowings

\* A signal that is queued goes to the most specific of the rules present that
\* it matches ("is associated with the most specific specific [`MatchRule`]",
\* lib.rs:557), and is dropped only when it matches none.
QueuedAtMostSpecific ==
  [][\A s \in Signals : fate[s] = "unsent" =>
       /\ fate'[s] = "queued" =>
            \A r \in Present : Matches(r, s) => \A q \in to'[s] : Order[q][r] <= 0
       /\ fate'[s] = "dropped" => \A r \in Present : ~Matches(r, s)]_vars

\* When no operation on a rule is under way, it is here exactly if the daemon
\* has it, once, whether or not it refused some and whatever other tasks did
\* with other rules meanwhile.  Nothing is said of rules of which two
\* operations overlapped or one did not get its answer.
SubscribedAtRest ==
  \A r \in Rules \ muddled :
    (\A u \in Users : r \notin req[u]) => daemon[r] = IF r \in Present THEN 1 ELSE 0

-----------------------------------------------------------------------------
(* The inductive invariant behind them                                     *)

\* The comparison is an order of the rules in use.  It is not one of all
\* rules: see the README.
Transitive ==
  \A a, b, c \in Rules : Order[a][b] = -1 /\ Order[b][c] = -1 => Order[a][c] = -1

\* Two namespaces that a third is not inside of, or around, are not inside each
\* other: all in one chain, say, or all apart.
Layered ==
  \A a, b, c \in Rules :
    PathSubset(a.ns, b.ns) = 0 /\ PathSubset(b.ns, c.ns) = 0 => PathSubset(a.ns, c.ns) = 0

Sorted ==
  \A i, j \in 1 .. Len(matches) :
    i < j => Order[matches[i].rule][matches[j].rule] = -1

SigTypes ==
  /\ matches \in Seq([rule : Rules, queue : Seq(Signals)])
  /\ pc \in [Users -> {"idle", "adding", "added", "refused", "removing", "removed"}]
  /\ req \in [Users -> SUBSET Rules]
  /\ \A u \in Users : /\ pc[u] = "idle" <=> req[u] = {}
                      /\ \A r, q \in req[u] : r = q
  /\ daemon \in [Rules -> Nat]
  /\ fate \in [Signals -> {"unsent", "dropped", "queued", "taken", "discarded"}]
  /\ to \in [Signals -> SUBSET Rules] /\ muddled \subseteq Rules

\* One user at a time works on a rule that is not muddled, and what is here
\* and at the daemon is what its operation has done so far.
InStep ==
  \A u \in Users : \A r \in req[u] \ muddled :
    /\ \A v \in Users : r \in req[v] => v = u
    /\ r \in Present <=> pc[u] \in {"adding", "added", "refused"}
    /\ daemon[r] = IF pc[u] \in {"added", "removing"} THEN 1 ELSE 0

SigInv == SigTypes /\ Sorted /\ InStep /\ SubscribedAtRest
=============================================================================

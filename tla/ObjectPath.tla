----------------------------- MODULE ObjectPath -----------------------------
(***************************************************************************)
(* ObjectPath and ObjectPathBuf (src/src/rustbus_core/path.rs): object     *)
(* paths kept as std::path paths, the root without an allocation.  A user  *)
(* makes an ObjectPathBuf and changes it; the borrowed operations are      *)
(* looked at in every state.  std::path is external.  This is a release    *)
(* build: debug_assert_validitity would panic where the path is not valid. *)
(*                                                                         *)
(* A string is a sequence of characters: "/", ".", the Letters, which a    *)
(* path element may have, and "!" for those it may not.                    *)
(***************************************************************************)
EXTENDS Naturals, Sequences, SequencesExt, FiniteSetsExt

CONSTANTS
  Letters,    \* characters of [A-Z][a-z][0-9]_
  MaxArg,     \* the longest string that comes from outside
  MaxPath     \* the longest path that is built

ASSUME ObjectPathAssumption ==
  /\ Letters \cap {"/", ".", "!"} = {} /\ MaxArg \in Nat /\ MaxPath \in Nat

VARIABLES
  inner,     \* an Option<PathBuf>: <<>> or <<string>>
  blanked    \* clear or reserve_exact has left the empty string behind

pathVars == <<inner, blanked>>

Slash == <<"/">>
Strings == BoundedSeq(Letters \cup {"/", ".", "!"}, MaxArg)

-----------------------------------------------------------------------------
(* std::path.  A path is read as components: the root, a leading ".", and  *)
(* elements; empty elements and other "." are skipped.                     *)

\* the element of s at its i-th character
Element(s, i) ==
  LET end == {j \in i .. Len(s) : s[j] = "/"}
  IN SubSeq(s, i, IF end = {} THEN Len(s) ELSE Min(end) - 1)

\* where the elements begin, skipped ones left out
Starts(s) ==
  SelectSeq([i \in DOMAIN s |-> i],
            LAMBDA i : /\ s[i] # "/" /\ (i = 1 \/ s[i - 1] = "/")
                       /\ i = 1 \/ Element(s, i) # <<".">>)

HasRoot(s) == s # <<>> /\ s[1] = "/"

Components(s) ==
  (IF HasRoot(s) THEN <<Slash>> ELSE <<>>)
  \o [k \in DOMAIN Starts(s) |-> Element(s, Starts(s)[k])]

\* Components::as_path after the first n components: what is left, without
\* separators or "." at its end and, past the root, at its beginning
After(s, n) ==
  LET starts == Starts(s)
      root == IF HasRoot(s) THEN 1 ELSE 0
      end == IF starts = <<>> THEN root ELSE Last(starts) + Len(Element(s, Last(starts))) - 1
      k == n + 1 - root
  IN IF n = 0 THEN SubSeq(s, 1, end)
     ELSE IF k > Len(starts) THEN <<>> ELSE SubSeq(s, starts[k], end)

\* Path::strip_prefix: <<>> if p is not a prefix
StdStrip(s, p) ==
  IF IsPrefix(Components(p), Components(s)) THEN <<After(s, Len(Components(p)))>> ELSE <<>>

\* PathBuf::push: an absolute path replaces this one
StdPush(s, p) ==
  IF HasRoot(p) THEN p
  ELSE IF s # <<>> /\ Last(s) # "/" THEN s \o Slash \o p ELSE s \o p

\* Path::parent of a path without stray separators: <<>> if it has none
StdParent(s) ==
  IF Starts(s) = <<>> THEN <<>>
  ELSE LET last == Last(Starts(s)) IN <<SubSeq(s, 1, IF last <= 2 THEN last - 1 ELSE last - 2)>>

-----------------------------------------------------------------------------
(* ObjectPath                                                              *)

\* Mistake: a slash at the end goes unnoticed.
ValidateSkipRootLax(s) ==
  \A i \in DOMAIN s : /\ s[i] \in Letters \cup {"/"}
                      /\ i > 1 /\ s[i] = "/" => s[i - 1] # "/"

\* validate_skip_root, whose errors nobody tells apart
ValidateSkipRoot(s) ==
  /\ \A i \in DOMAIN s : /\ s[i] \in Letters \cup {"/"}
                         /\ i > 1 /\ s[i] = "/" => s[i - 1] # "/"
  /\ Len(s) > 1 => Last(s) # "/"

\* validate and validate_str
Validate(s) == HasRoot(s) /\ ValidateSkipRoot(s)

\* Mistake: the separator in front of what is left is not counted.
StripPrefixShort(s, p) ==
  LET stripped == StdStrip(s, p) IN
  IF stripped = <<>> THEN [res |-> "err"]
  ELSE IF stripped[1] = <<>> THEN [res |-> "ok", path |-> Slash]
  ELSE IF Len(s) < 1 + Len(stripped[1]) THEN [res |-> "panic"]
  ELSE [res |-> "ok", path |-> SubSeq(s, Len(s) - Len(stripped[1]) + 1, Len(s))]

\* strip_prefix keeps the separator in front of what is left; the subtraction
\* underflows when nothing is stripped.
StripPrefix(s, p) ==
  LET stripped == StdStrip(s, p) IN
  IF stripped = <<>> THEN [res |-> "err"]
  ELSE IF stripped[1] = <<>> THEN [res |-> "ok", path |-> Slash]
  ELSE IF Len(s) < 1 + Len(stripped[1]) THEN [res |-> "panic"]
  ELSE [res |-> "ok", path |-> SubSeq(s, Len(s) - Len(stripped[1]), Len(s))]

\* components: the first is taken to be the root
Elements(s) == LET c == Components(s) IN SubSeq(c, 2, Len(c))

FileName(s) == IF Starts(s) = <<>> THEN <<>> ELSE <<Last(Components(s))>>

-----------------------------------------------------------------------------
(* ObjectPathBuf                                                           *)

Deref(i) == IF i = <<>> THEN Slash ELSE i[1]

WithCapacity(capacity) == IF capacity = 0 THEN <<>> ELSE <<Slash>>

\* From<&ObjectPath>, for to_owned and unmarshal
FromPath(s) == IF Components(s) = <<Slash>> THEN <<>> ELSE <<s>>

\* new and with_capacity; TryFrom of an owned string, of a borrowed one
PathInit ==
  /\ inner \in {WithCapacity(n) : n \in {0, 1}}
               \cup UNION {{<<s>>, FromPath(s)} : s \in {t \in Strings : Validate(t)}}
  /\ blanked = FALSE

ReserveOf(i, additional) ==
  IF additional = 0 \/ i # <<>> THEN i ELSE WithCapacity(additional + 1)

PushPathUnchecked(i, p) ==
  IF p = <<>> THEN i ELSE <<StdPush(ReserveOf(i, Len(p) + 1)[1], p)>>

\* Mistake: an absolute path is pushed as it is.
PushAbsolute(i, s) == PushPathUnchecked(i, s)

\* push(path: &ObjectPath)
PushOf(i, s) == PushPathUnchecked(i, StdStrip(s, Slash)[1])

\* what push_path_checked looks at
Relative(s) == IF StdStrip(s, Slash) = <<>> THEN s ELSE StdStrip(s, Slash)[1]

\* push_path_checked; push_path panics instead of the error
PushCheckedOf(i, s) ==
  IF ValidateSkipRoot(Relative(s)) THEN [res |-> "ok", inner |-> PushPathUnchecked(i, Relative(s))]
  ELSE [res |-> "err", inner |-> i]

PopOf(i) == IF i = <<>> \/ StdParent(i[1]) = <<>> THEN i ELSE StdParent(i[1])

Become(i) == inner' = i /\ Len(Deref(i)) <= MaxPath /\ UNCHANGED blanked

Push == \E s \in Strings : Validate(s) /\ Become(PushOf(inner, s))
PushPathChecked == \E s \in Strings : Become(PushCheckedOf(inner, s).inner)
Pop == Become(PopOf(inner))
Reserve == \E additional \in {0, 1} : Become(ReserveOf(inner, additional))

\* A PathBuf without the root is put in the place of None.
ReserveExact ==
  /\ \E additional \in {0, 1} :
       inner' = IF additional = 0 \/ inner # <<>> THEN inner ELSE <<<<>>>>
  /\ blanked' = (blanked \/ inner' # inner)

\* PathBuf::clear
Clear ==
  /\ inner' = IF inner = <<>> THEN inner ELSE <<<<>>>>
  /\ blanked' = (blanked \/ inner # <<>>)

PathNext == Push \/ PushPathChecked \/ Pop \/ Reserve \/ ReserveExact \/ Clear

-----------------------------------------------------------------------------
(* Properties                                                              *)

path == Deref(inner)

\* The D-Bus rules: the root, or elements of letters, each after a slash
Text(es) == IF es = <<>> THEN Slash ELSE FlattenSeq([k \in DOMAIN es |-> Slash \o es[k]])
IsObjectPath(s) == s = Text(Elements(s)) /\ ToSet(s) \subseteq Letters \cup {"/"}

\* Whatever is made, pushed and popped, in whatever form it comes, the path
\* keeps to the D-Bus rules: but not after clear or reserve_exact has put the
\* empty string in the place of the root.
StaysObjectPath == blanked \/ IsObjectPath(path)

\* what a string names, read without regard to how it is separated
Names(s) == SelectSeq(Components(s), LAMBDA c : c # Slash)

\* the pieces of a string between its slashes, empty ones and "." included
Pieces(s) ==
  LET cut == <<0>> \o SelectSeq([i \in DOMAIN s |-> i], LAMBDA i : s[i] = "/") \o <<Len(s) + 1>>
  IN [k \in 1 .. Len(cut) - 1 |-> SubSeq(s, cut[k] + 1, cut[k + 1] - 1)]

\* what push_path_checked is documented to take: an object path, also a
\* relative or an empty one
Proper(s) == IsObjectPath(s) \/ IsObjectPath(Slash \o s)

\* what it takes besides: an absolute path with empty pieces or "." in front of
\* its elements or behind them, such as //a, /a/ or /./a
Padded(s) ==
  HasRoot(s) /\ LET ps == Pieces(s) IN
  \E i, j \in 0 .. Len(ps) : \A k \in DOMAIN ps :
    IF k \in i .. j THEN ps[k] # <<>> /\ ToSet(ps[k]) \subseteq Letters
    ELSE ps[k] \in {<<>>, <<".">>}

\* An ObjectPathBuf is a list of elements, whether the root is allocated or
\* not: push appends the elements of every object path; push_path_checked those
\* of the strings that it is documented to take, and also of padded ones, for
\* which the documentation says that an Err is returned, and returns an Err
\* and changes nothing for all others; pop takes the last element off.
ActsOnElements ==
  ~blanked =>
    LET es == Elements(path) IN
    /\ \A s \in Strings :
         /\ IsObjectPath(s) => Validate(s) /\ Elements(Deref(PushOf(inner, s))) = es \o Elements(s)
         /\ LET r == PushCheckedOf(inner, s) IN
            IF Proper(s) \/ Padded(s)
            THEN r.res = "ok" /\ Elements(Deref(r.inner)) = es \o Names(s)
            ELSE r.res = "err" /\ r.inner = inner
    /\ Elements(Deref(PopOf(inner))) = IF es = <<>> THEN es ELSE Front(es)

\* strip_prefix succeeds for exactly the paths that the elements begin with,
\* what it leaves is an object path, and pushed onto the prefix it gives the
\* path back; as do file_name and parent.  The empty prefix makes it panic.
StripRejoins ==
  ~blanked =>
    /\ \A p \in Strings :
         LET r == StripPrefix(path, p) IN
         /\ r.res = "ok" <=> HasRoot(p) /\ IsPrefix(Names(p), Elements(path))
         /\ r.res = "ok" => /\ IsObjectPath(r.path)
                            /\ Deref(PushOf(FromPath(Text(Names(p))), r.path)) = path
         /\ r.res = "panic" <=> p = <<>>
    /\ IF StdParent(path) = <<>> THEN FileName(path) = <<>> /\ Elements(path) = <<>>
       ELSE StdPush(StdParent(path)[1], FileName(path)[1]) = path
=============================================================================

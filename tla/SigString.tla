----------------------------- MODULE SigString -----------------------------
(***************************************************************************)
(* validate_sig_str (src/src/rustbus_core/message_builder/body.rs): one    *)
(* pass over the characters of a signature with a stack of the containers  *)
(* that are open, checked against the grammar of D-Bus signatures.  It is  *)
(* run on the signature of every parameter that is pushed onto a body; of  *)
(* its errors push_param_core returns the two about nesting, and panics at *)
(* the others.  One action per arm of the match; any string may come.      *)
(***************************************************************************)
EXTENDS Naturals, Sequences, SequencesExt, FiniteSets, FiniteSetsExt

CONSTANTS
  Base,       \* base types tried: any of ybnqiuxtdsogh
  Others,     \* characters tried that no signature has
  MaxLen,     \* the longest signature: 255
  MaxNesting, \* MAX_NESTING_DEPTH: 32
  StackCap    \* capacity of the stack: 64

ASSUME SigStringAssumption ==
  /\ MaxLen \in Nat /\ MaxNesting \in Nat /\ StackCap \in Nat
  /\ (Base \cup Others) \cap {"a", "v", "(", ")", "{", "}"} = {}

VARIABLES
  sig,      \* the characters read
  stack,    \* open containers: [nest : {Array, DictEntry, Struct}, cnt : 0 .. 2]
  a_cnt,    \* open arrays
  b_cnt,    \* open structs
  verdict   \* scanning, Ok, a SigErr, or Panic: the stack is full

vars == <<sig, stack, a_cnt, b_cnt, verdict>>

Init == /\ sig = <<>> /\ stack = <<>> /\ a_cnt = 0 /\ b_cnt = 0
        /\ verdict = "scanning"

-----------------------------------------------------------------------------
Read(c) == /\ verdict = "scanning" /\ Len(sig) < MaxLen
           /\ sig' = Append(sig, c)

Top(nest, cnt) == stack # <<>> /\ Last(stack) = [nest |-> nest, cnt |-> cnt]

\* the key of a dict entry is next
AtKey == Top("DictEntry", 0)

Reject(err) == verdict' = err /\ UNCHANGED <<stack, a_cnt, b_cnt>>

\* a container opens; ArrayVec panics when it is full
Open(nest, a, b) ==
  IF Len(stack) = StackCap THEN Reject("Panic")
  ELSE /\ stack' = Append(stack, [nest |-> nest, cnt |-> 0])
       /\ a_cnt' = a /\ b_cnt' = b /\ UNCHANGED verdict

\* Mistake: the types of a dict entry are not counted past two.
MoreAny(c) == [c EXCEPT !.cnt = IF c.nest = "Struct" THEN 1 ELSE Min({2, @ + 1})]

\* one more type in a struct (which only says that it is not empty) or a dict entry
More(c) == [c EXCEPT !.cnt = IF c.nest = "Struct" THEN 1 ELSE @ + 1]

\* The arrays a complete type ends: all down to the innermost other container
EndArrays(s, a) ==
  LET open == Max({0} \cup {i \in DOMAIN s : s[i].nest # "Array"})
  IN [rest |-> SubSeq(s, 1, open), a |-> a - (Len(s) - open)]

\* A type is complete within the open containers s.
Complete(s, b) ==
  LET e == EndArrays(s, a_cnt) IN
  /\ a_cnt' = e.a /\ b_cnt' = b
  /\ IF e.rest = <<>> THEN stack' = <<>> /\ UNCHANGED verdict
     ELSE LET c == More(Last(e.rest)) IN
          IF c.cnt > 2 THEN stack' = e.rest /\ verdict' = "TooManyTypesInDictEntry"
          ELSE stack' = Append(Front(e.rest), c) /\ UNCHANGED verdict

OpenArray ==
  /\ Read("a")
  /\ IF AtKey THEN Reject("NonBaseDictKey")
     ELSE IF a_cnt >= MaxNesting THEN Reject("ArraysTooNested")
     ELSE Open("Array", a_cnt + 1, b_cnt)

OpenStruct ==
  /\ Read("(")
  /\ IF AtKey THEN Reject("NonBaseDictKey")
     ELSE IF b_cnt >= MaxNesting THEN Reject("StructsTooNested")
     ELSE Open("Struct", a_cnt, b_cnt + 1)

\* A dict entry is not counted.
OpenDictEntry ==
  /\ Read("{")
  /\ IF AtKey THEN Reject("NonBaseDictKey")
     ELSE IF ~Top("Array", 0) THEN Reject("DictEntryNotInArray")
     ELSE Open("DictEntry", a_cnt, b_cnt)

CloseStruct ==
  /\ Read(")")
  /\ IF Top("Struct", 1) THEN Complete(Front(stack), b_cnt - 1)
     ELSE Reject("UnexpectedClosingParenthesis")

CloseDictEntry ==
  /\ Read("}")
  /\ IF Top("DictEntry", 2) THEN Complete(Front(stack), b_cnt)
     ELSE Reject("UnexpectedClosingBracket")

Variant ==
  /\ Read("v")
  /\ IF AtKey THEN Reject("NonBaseDictKey") ELSE Complete(stack, b_cnt)

BaseType == \E c \in Base : Read(c) /\ Complete(stack, b_cnt)

Unknown == \E c \in Others : Read(c) /\ Reject("UnknownCharacter")

\* No character is left.
End ==
  /\ verdict = "scanning"
  /\ verdict' = IF stack = <<>> THEN "Ok"
                ELSE [Struct |-> "UnclosedStruct", DictEntry |-> "UnclosedDictEntry",
                      Array |-> "ArrayWithNoType"][Last(stack).nest]
  /\ UNCHANGED <<sig, stack, a_cnt, b_cnt>>

\* A longer string is rejected before it is read.
TooLong == /\ verdict = "scanning" /\ sig = <<>> /\ verdict' = "TooLong"
           /\ UNCHANGED <<sig, stack, a_cnt, b_cnt>>

Next ==
  \/ OpenArray \/ OpenStruct \/ OpenDictEntry \/ CloseStruct \/ CloseDictEntry
  \/ Variant \/ BaseType \/ Unknown \/ End \/ TooLong

Spec == Init /\ [][Next]_vars

-----------------------------------------------------------------------------
(* The grammar, by length: level n holds the single complete types and the *)
(* non-empty sequences of types of n characters, each with the depth of    *)
(* its arrays and of its structs.                                          *)

Word(s, arrays, structs) == [s |-> s, arrays |-> arrays, structs |-> structs]

Level(below, n) ==
  LET One(k)  == IF k \in DOMAIN below THEN below[k].one ELSE {}
      Many(k) == IF k \in DOMAIN below THEN below[k].many ELSE {}
      one ==
        (IF n = 1 THEN {Word(<<c>>, 0, 0) : c \in Base \cup {"v"}} ELSE {})
        \cup {Word(<<"a">> \o x.s, x.arrays + 1, x.structs) : x \in One(n - 1)}
        \cup {Word(<<"(">> \o x.s \o <<")">>, x.arrays, x.structs + 1) :
                x \in IF n > 2 THEN Many(n - 2) ELSE {}}
        \cup {Word(<<"a", "{", k>> \o x.s \o <<"}">>, x.arrays + 1, x.structs) :
                k \in Base, x \in IF n > 4 THEN One(n - 4) ELSE {}}
      Pairs(k) == {Word(x.s \o y.s, Max({x.arrays, y.arrays}), Max({x.structs, y.structs})) :
                     x \in One(k), y \in Many(n - k)}
  IN [one |-> one, many |-> one \cup UNION {Pairs(k) : k \in 1 .. n - 1}]

Words ==
  LET levels == FoldLeft(LAMBDA below, n : Append(below, Level(below, n)), <<>>,
                         [n \in 1 .. MaxLen |-> n])
  IN {Word(<<>>, 0, 0)} \cup UNION {levels[n].many : n \in 1 .. MaxLen}

WellFormed == {w.s : w \in Words}

Valid == {w.s : w \in {x \in Words : x.arrays <= MaxNesting /\ x.structs <= MaxNesting}}

PrefixesWellFormed == UNION {Prefixes(s) : s \in WellFormed}
PrefixesValid == UNION {Prefixes(s) : s \in Valid}

Unclosed == {"UnclosedStruct", "UnclosedDictEntry", "ArrayWithNoType"}
TooNested == {"ArraysTooNested", "StructsTooNested"}

\* validate_sig_str accepts the signatures of the grammar within the limits on
\* nesting and no others; a string it gives up on half-way could not have been
\* completed; and no well-formed signature, however deep, gets one of the
\* errors at which push_param_core panics.  (Nothing is said of a panic.)
Judged ==
  /\ verdict = "Ok" => sig \in Valid
  /\ verdict \in Unclosed => sig \notin WellFormed
  /\ verdict \in TooNested => sig \notin PrefixesValid
  /\ verdict \notin Unclosed \cup TooNested \cup {"scanning", "Ok", "Panic", "TooLong"}
       => sig \notin PrefixesWellFormed

=============================================================================

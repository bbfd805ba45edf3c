-------------------------- MODULE RecvStateProofs --------------------------
(***************************************************************************)
(* Proofs about RecvState: however the stream is cut into reads, whatever  *)
(* the messages are and however many, get_next_message returns them whole, *)
(* in order and with their own fds until it first returns an error.        *)
(***************************************************************************)
EXTENDS RecvState, SequenceTheorems, Induction, TLAPS

Ins == [stage : {"header", "dynhdr", "finishing"}, hdr : Msgs \cup {None},
        buf : Seq(Bytes), rem : Seq(Bytes)]

\* The lengths that a header gives.
LEMMA Lengths ==
  ASSUME sent \in [Msgs -> Shapes], NEW m \in Msgs
  PROVE  /\ sent[m].fields \in Nat /\ sent[m].body \in Nat /\ sent[m].att \in Nat
         /\ sent[m].num \in Nat
         /\ sent[m].kind \in {"good", "bad_header", "bad_fields", "bad_body"}
         /\ HdrTotal(m) \in Nat /\ Total(m) \in Nat
         /\ HdrLen + 1 <= HdrTotal(m) /\ HdrTotal(m) <= Total(m)
<1>1. sent[m] \in [fields : Nat, body : Nat, num : Nat, att : Nat,
                   kind : {"good", "bad_header", "bad_fields", "bad_body"}]
  BY RecvAssumption
<1> QED BY <1>1 DEF HdrTotal, Total, HdrLen

-----------------------------------------------------------------------------
(* try_get_msg                                                             *)

\* How many bytes extend_max moves
Moved(p, q, target) ==
  IF Len(p) >= target THEN 0
  ELSE IF target - Len(p) > Len(q) THEN Len(q) ELSE target - Len(p)

\* The buffer and `remaining` after that
MovedTo(p, q, target) == p \o SubSeq(q, 1, Moved(p, q, target))
MovedFrom(p, q, target) == SubSeq(q, Moved(p, q, target) + 1, Len(q))

\* None is lost, and too few are moved only for want of bytes.
LEMMA Move ==
  ASSUME NEW S, NEW p \in Seq(S), NEW q \in Seq(S), NEW target \in Nat
  PROVE  /\ MovedTo(p, q, target) \in Seq(S) /\ MovedFrom(p, q, target) \in Seq(S)
         /\ MovedTo(p, q, target) \o MovedFrom(p, q, target) = p \o q
         /\ Len(MovedTo(p, q, target)) < target => MovedFrom(p, q, target) = <<>>
         /\ Len(p) <= target => Len(MovedTo(p, q, target)) <= target
         /\ q = <<>> => MovedFrom(p, q, target) = <<>>
         /\ Len(p) >= target => MovedTo(p, q, target) = p
<1> DEFINE n == Moved(p, q, target)
<1> DEFINE a == MovedTo(p, q, target)
<1> DEFINE b == MovedFrom(p, q, target)
<1>1. Len(p) \in Nat /\ Len(q) \in Nat
  BY LenProperties
<1>2. /\ n \in 0 .. Len(q)
      /\ Len(p) + n < target => n = Len(q)
      /\ Len(p) <= target => Len(p) + n <= target
  <2> DEFINE lp == Len(p)
  <2> DEFINE lq == Len(q)
  <2>1. lp \in Nat /\ lq \in Nat
    BY <1>1
  <2>2. n = IF lp >= target THEN 0 ELSE IF target - lp > lq THEN lq ELSE target - lp
    BY DEF Moved
  <2> HIDE DEF lp, lq
  <2>3. n \in 0 .. lq /\ (lp + n < target => n = lq) /\ (lp <= target => lp + n <= target)
    BY <2>1, <2>2
  <2> QED BY <2>3 DEF lp, lq
<1> DEFINE c == SubSeq(q, 1, n)
<1>3. a = p \o c /\ b = SubSeq(q, n + 1, Len(q))
  BY DEF MovedTo, MovedFrom
<1> HIDE DEF n, a, b
<1>4. c \in Seq(S) /\ b \in Seq(S) /\ Len(c) = n /\ Len(b) = Len(q) - n /\ c \o b = q
  BY <1>2, <1>3, Cut
<1> HIDE DEF c
<1>5. a \in Seq(S) /\ Len(a) = Len(p) + n
  BY <1>3, <1>4, ConcatProperties
<1>6. a \o b = p \o q
  <2>1. (p \o c) \o b = p \o (c \o b)
    <3>1. b \in Seq(S) /\ c \in Seq(S)
      BY <1>4
    <3> QED BY <3>1, ConcatAssociative
  <2> QED BY <1>3, <1>4, <2>1
<1>7. (Len(a) < target => Len(b) = 0) /\ (Len(p) <= target => Len(a) <= target)
  <2> DEFINE la == Len(a)
  <2> DEFINE lb == Len(b)
  <2> DEFINE lp == Len(p)
  <2> DEFINE lq == Len(q)
  <2>1. /\ lp \in Nat /\ lq \in Nat /\ n \in 0 .. lq /\ la = lp + n /\ lb = lq - n
        /\ lp + n < target => n = lq
        /\ lp <= target => lp + n <= target
    BY <1>1, <1>2, <1>4, <1>5
  <2> HIDE DEF la, lb, lp, lq
  <2>2. (la < target => lb = 0) /\ (lp <= target => la <= target)
    BY <2>1
  <2> QED BY <2>2 DEF la, lb, lp, lq
<1>8. q = <<>> => Len(b) = 0
  <2>1. SUFFICES ASSUME q = <<>> PROVE Len(b) = 0
    OBVIOUS
  <2> DEFINE lq == Len(q)
  <2> DEFINE lb == Len(b)
  <2>2. lq = 0 /\ n \in 0 .. lq /\ lb = lq - n
    BY <1>2, <1>4, <2>1, EmptySeq
  <2> HIDE DEF lq, lb
  <2>3. n = 0
    BY <2>2
  <2>4. lb = 0
    BY <2>2, <2>3
  <2> QED BY <2>4 DEF lb
<1>9. /\ a \in Seq(S) /\ b \in Seq(S) /\ a \o b = p \o q
      /\ Len(a) < target => b = <<>>
      /\ Len(p) <= target => Len(a) <= target
      /\ q = <<>> => b = <<>>
  <2>1. b \in Seq(S) /\ (Len(b) = 0 => b = <<>>)
    BY <1>4, EmptySeq
  <2> QED BY <1>5, <1>6, <1>7, <1>8, <2>1
<1>10. Len(p) >= target => a = p
  <2>1. SUFFICES ASSUME Len(p) >= target PROVE a = p
    OBVIOUS
  <2>2. n = 0
    BY <1>1, <2>1 DEF n, Moved
  <2>3. c = <<>>
    BY <2>2, SubSeqEmpty DEF c
  <2> QED BY <1>3, <2>3, ConcatEmptySeq
<1> QED BY <1>9, <1>10 DEF a, b

\* extend_max moves bytes from `remaining` to the buffer: none is lost, and it
\* stops short of the target only for want of bytes.
LEMMA ExtendIs ==
  ASSUME NEW x \in Ins, NEW target \in Nat
  PROVE  /\ ExtendMax(x, target) \in Ins
         /\ ExtendMax(x, target).stage = x.stage /\ ExtendMax(x, target).hdr = x.hdr
         /\ ExtendMax(x, target).buf \o ExtendMax(x, target).rem = x.buf \o x.rem
         /\ Len(ExtendMax(x, target).buf) < target => ExtendMax(x, target).rem = <<>>
         /\ Len(x.buf) <= target => Len(ExtendMax(x, target).buf) <= target
         /\ x.rem = <<>> => ExtendMax(x, target).rem = <<>>
         /\ Len(x.buf) >= target => ExtendMax(x, target).buf = x.buf
<1> DEFINE y == ExtendMax(x, target)
<1> DEFINE a == MovedTo(x.buf, x.rem, target)
<1> DEFINE b == MovedFrom(x.buf, x.rem, target)
<1>1. x.buf \in Seq(Bytes) /\ x.rem \in Seq(Bytes)
  BY DEF Ins
<1>2. y = [x EXCEPT !.buf = a, !.rem = b]
  BY DEF ExtendMax, Moved, MovedTo, MovedFrom
<1>3. /\ a \in Seq(Bytes) /\ b \in Seq(Bytes) /\ a \o b = x.buf \o x.rem
      /\ Len(a) < target => b = <<>>
      /\ Len(x.buf) <= target => Len(a) <= target
      /\ x.rem = <<>> => b = <<>>
      /\ Len(x.buf) >= target => a = x.buf
  <2> DEFINE p == x.buf
  <2> DEFINE q == x.rem
  <2>1. p \in Seq(Bytes) /\ q \in Seq(Bytes)
    BY <1>1
  <2> HIDE DEF p, q
  <2>2. /\ MovedTo(p, q, target) \in Seq(Bytes) /\ MovedFrom(p, q, target) \in Seq(Bytes)
        /\ MovedTo(p, q, target) \o MovedFrom(p, q, target) = p \o q
        /\ Len(MovedTo(p, q, target)) < target => MovedFrom(p, q, target) = <<>>
        /\ Len(p) <= target => Len(MovedTo(p, q, target)) <= target
        /\ q = <<>> => MovedFrom(p, q, target) = <<>>
        /\ Len(p) >= target => MovedTo(p, q, target) = p
    BY <2>1, Move, Zenon
  <2> QED BY <2>2 DEF p, q
<1> HIDE DEF a, b, y
<1>4. y.buf = a /\ y.rem = b /\ y.stage = x.stage /\ y.hdr = x.hdr /\ y \in Ins
  BY <1>2, <1>3 DEF Ins
<1>5. /\ y \in Ins /\ y.stage = x.stage /\ y.hdr = x.hdr
      /\ y.buf \o y.rem = x.buf \o x.rem
      /\ Len(y.buf) < target => y.rem = <<>>
      /\ Len(x.buf) <= target => Len(y.buf) <= target
      /\ x.rem = <<>> => y.rem = <<>>
      /\ Len(x.buf) >= target => y.buf = x.buf
  BY <1>3, <1>4
<1> QED BY <1>5 DEF y

\* What try_get_msg may be called with: no more is in the buffer than the stage
\* waits for (the length of the header fields is read with the header).
Readable(x) ==
  \/ x.stage = "header" /\ Len(x.buf) <= HdrLen + 1
  \/ x.stage = "dynhdr" /\ x.hdr \in Msgs /\ Len(x.buf) <= HdrTotal(x.hdr)
  \/ x.stage = "finishing" /\ x.hdr \in Msgs /\ Len(x.buf) <= Total(x.hdr)

\* What it returns, from x: nothing, with everything in the buffer; an error; or
\* a whole message and what follows it.
NoneYet(t, x) ==
  /\ t.res = "none" /\ t.in \in Ins /\ AtRest(t.in)
  /\ t.in.rem = <<>> /\ t.in.buf = x.buf \o x.rem
ParseError(t, x) ==
  /\ t.res = "parse" /\ t.in.rem \in Seq(Bytes) /\ t.in = Fresh(t.in.rem)
  /\ x.rem = <<>> => t.in.rem = <<>>
Whole(t, x) ==
  /\ t.res = "msg" /\ t.in.rem \in Seq(Bytes) /\ t.in = Fresh(t.in.rem)
  /\ x.rem = <<>> => t.in.rem = <<>>
  /\ t.msg \in Msgs /\ t.bytes \in Seq(Bytes) /\ Len(t.bytes) = Total(t.msg)
  /\ t.bytes \o t.in.rem = x.buf \o x.rem
Outcome(t, x) == NoneYet(t, x) \/ ParseError(t, x) \/ Whole(t, x)

\* It goes on with message m, which passed the checks so far.
Owned(t, m) ==
  /\ t.res = "none" /\ t.in.stage # "header" => t.in.hdr = m /\ Passed(t.in.stage, m)
  /\ t.res = "msg" => t.msg = m /\ Passed("finishing", m)

\* An incomplete buffer has everything there is in it.
LEMMA IncompleteIs ==
  ASSUME NEW x \in Ins, NEW y \in Ins, y.buf \o y.rem = x.buf \o x.rem, y.rem = <<>>, AtRest(y)
  PROVE  NoneYet(Incomplete(y), x)
<1>1. y.buf \in Seq(Bytes)
  BY DEF Ins
<1>2. y.buf \o y.rem = y.buf
  BY <1>1, ConcatEmptySeq
<1>3. Incomplete(y).res = "none" /\ Incomplete(y).in = y
  BY DEF Incomplete
<1> HIDE DEF AtRest
<1> QED BY <1>2, <1>3 DEF NoneYet

\* A parse error keeps what was read ahead.
LEMMA BadIs ==
  ASSUME NEW x \in Ins, NEW y \in Ins, x.rem = <<>> => y.rem = <<>>
  PROVE  ParseError(Bad(y), x)
<1>1. Bad(y).res = "parse" /\ Bad(y).in = Fresh(y.rem)
  BY DEF Bad
<1>2. Fresh(y.rem).rem = y.rem
  BY DEF Fresh
<1>3. y.rem \in Seq(Bytes)
  BY DEF Ins
<1> QED BY <1>1, <1>2, <1>3 DEF ParseError

\* The last stage, InState::Finishing
LEMMA FinishingIs ==
  ASSUME sent \in [Msgs -> Shapes], NEW x \in Ins, x.stage = "finishing", x.hdr \in Msgs,
         Len(x.buf) <= Total(x.hdr)
  PROVE  /\ Outcome(TryFinishing(x), x)
         /\ Passed("finishing", x.hdr) => Owned(TryFinishing(x), x.hdr)
<1> DEFINE y == ExtendMax(x, Total(x.hdr))
<1> DEFINE t == TryFinishing(x)
<1>1. Total(x.hdr) \in Nat
  BY Lengths
<1>2. /\ y \in Ins /\ y.stage = x.stage /\ y.hdr = x.hdr
      /\ y.buf \o y.rem = x.buf \o x.rem
      /\ Len(y.buf) < Total(x.hdr) => y.rem = <<>>
      /\ Len(y.buf) <= Total(x.hdr)
      /\ x.rem = <<>> => y.rem = <<>>
  BY <1>1, ExtendIs
<1>3. t = IF Len(y.buf) < Total(x.hdr) THEN Incomplete(y)
          ELSE [res |-> "msg", in |-> Fresh(y.rem), msg |-> x.hdr, bytes |-> y.buf]
  BY DEF TryFinishing
<1> HIDE DEF y, t
<1>4. CASE Len(y.buf) < Total(x.hdr)
  <2>1. t = Incomplete(y) /\ AtRest(y)
    BY <1>2, <1>3, <1>4 DEF AtRest
  <2>2. NoneYet(t, x)
    BY <1>2, <1>4, <2>1, IncompleteIs
  <2>3. t.res = "none" /\ t.in = y
    BY <2>1 DEF Incomplete
  <2>4. Passed("finishing", x.hdr) => Owned(t, x.hdr)
    BY <1>2, <2>3 DEF Owned
  <2> QED BY <2>2, <2>4 DEF Outcome, t
<1>5. CASE ~(Len(y.buf) < Total(x.hdr))
  <2>1. t.res = "msg" /\ t.in = Fresh(y.rem) /\ t.msg = x.hdr /\ t.bytes = y.buf
    BY <1>3, <1>5
  <2>2. y.buf \in Seq(Bytes) /\ y.rem \in Seq(Bytes) /\ Len(y.buf) \in Nat
    BY <1>2, LenProperties DEF Ins
  <2>3. Len(y.buf) = Total(x.hdr)
    BY <1>1, <1>2, <1>5, <2>2
  <2>4. t.in.rem = y.rem /\ t.in = Fresh(t.in.rem)
    BY <2>1 DEF Fresh
  <2>5. Whole(t, x)
    BY <1>2, <2>1, <2>2, <2>3, <2>4 DEF Whole
  <2>6. Passed("finishing", x.hdr) => Owned(t, x.hdr)
    BY <2>1 DEF Owned
  <2> QED BY <2>5, <2>6 DEF Outcome, t
<1> QED BY <1>4, <1>5

\* The result of a later stage is the result of the earlier one that goes on.
LEMMA OutcomeFrom ==
  ASSUME NEW x \in Ins, NEW y \in Ins, y.buf \o y.rem = x.buf \o x.rem,
         x.rem = <<>> => y.rem = <<>>, NEW t, Outcome(t, y)
  PROVE  Outcome(t, x)
<1>1. CASE NoneYet(t, y)
  BY <1>1 DEF NoneYet, Outcome
<1>2. CASE ParseError(t, y)
  BY <1>2 DEF ParseError, Outcome
<1>3. CASE Whole(t, y)
  BY <1>3 DEF Whole, Outcome
<1> QED BY <1>1, <1>2, <1>3 DEF Outcome

\* The next stage, with the same bytes
LEMMA StageIs ==
  ASSUME NEW x \in Ins, NEW h \in Msgs
  PROVE  /\ [x EXCEPT !.stage = "finishing"] \in Ins
         /\ [x EXCEPT !.stage = "finishing"].stage = "finishing"
         /\ [x EXCEPT !.stage = "finishing"].hdr = x.hdr
         /\ [x EXCEPT !.stage = "finishing"].buf = x.buf
         /\ [x EXCEPT !.stage = "finishing"].rem = x.rem
         /\ [x EXCEPT !.stage = "dynhdr", !.hdr = h] \in Ins
         /\ [x EXCEPT !.stage = "dynhdr", !.hdr = h].stage = "dynhdr"
         /\ [x EXCEPT !.stage = "dynhdr", !.hdr = h].hdr = h
         /\ [x EXCEPT !.stage = "dynhdr", !.hdr = h].buf = x.buf
         /\ [x EXCEPT !.stage = "dynhdr", !.hdr = h].rem = x.rem
BY DEF Ins

\* InState::DynHdr and what follows it
LEMMA DynHdrIs ==
  ASSUME sent \in [Msgs -> Shapes], NEW x \in Ins, x.stage = "dynhdr", x.hdr \in Msgs,
         Len(x.buf) <= HdrTotal(x.hdr)
  PROVE  /\ Outcome(TryDynHdr(x), x)
         /\ Passed("dynhdr", x.hdr) => Owned(TryDynHdr(x), x.hdr)
<1> DEFINE h == x.hdr
<1> DEFINE y == ExtendMax(x, HdrLen + 1)
<1> DEFINE z == ExtendMax(y, HdrTotal(h))
<1> DEFINE w == [z EXCEPT !.stage = "finishing"]
<1> DEFINE t == TryDynHdr(x)
<1>1. /\ HdrLen + 1 \in Nat /\ HdrTotal(h) \in Nat /\ Total(h) \in Nat
      /\ HdrLen + 1 <= HdrTotal(h) /\ HdrTotal(h) <= Total(h) /\ h \in Msgs
  BY Lengths DEF HdrLen
<1>2. /\ y \in Ins /\ y.stage = x.stage /\ y.hdr = x.hdr
      /\ y.buf \o y.rem = x.buf \o x.rem
      /\ Len(y.buf) < HdrLen + 1 => y.rem = <<>>
      /\ Len(x.buf) <= HdrLen + 1 => Len(y.buf) <= HdrLen + 1
      /\ x.rem = <<>> => y.rem = <<>>
      /\ Len(x.buf) >= HdrLen + 1 => y.buf = x.buf
  BY <1>1, ExtendIs
<1>3. Len(y.buf) <= HdrTotal(h)
  <2>1. Len(x.buf) \in Nat /\ Len(y.buf) \in Nat
    BY <1>2, LenProperties DEF Ins
  <2>2. Len(x.buf) <= HdrLen + 1 \/ Len(x.buf) >= HdrLen + 1
    BY <1>1, <2>1
  <2> QED BY <1>1, <1>2, <2>1, <2>2
<1> HIDE DEF y
<1>4. /\ z \in Ins /\ z.stage = y.stage /\ z.hdr = y.hdr
      /\ z.buf \o z.rem = y.buf \o y.rem
      /\ Len(z.buf) < HdrTotal(h) => z.rem = <<>>
      /\ Len(z.buf) <= HdrTotal(h)
      /\ y.rem = <<>> => z.rem = <<>>
  BY <1>1, <1>2, <1>3, ExtendIs
<1>5. t = IF Len(y.buf) < HdrLen + 1 THEN Incomplete(y)
          ELSE IF Len(z.buf) < HdrTotal(h) THEN Incomplete(z)
          ELSE IF sent[h].kind = "bad_fields" \/ (sent[h].num > 0 /\ ~with_fd) THEN Bad(z)
          ELSE TryFinishing(w)
  BY DEF TryDynHdr, y
<1> HIDE DEF z, t
<1>6. CASE Len(y.buf) < HdrLen + 1
  <2>1. t = Incomplete(y) /\ AtRest(y)
    <3>1. Len(y.buf) < HdrTotal(h)
      BY <1>1, <1>2, <1>6, LenProperties DEF Ins
    <3> QED BY <1>2, <1>5, <1>6, <3>1 DEF AtRest
  <2>2. NoneYet(t, x)
    BY <1>2, <1>6, <2>1, IncompleteIs
  <2>3. t.res = "none" /\ t.in = y
    BY <2>1 DEF Incomplete
  <2>4. Passed("dynhdr", x.hdr) => Owned(t, x.hdr)
    BY <1>2, <2>3 DEF Owned
  <2> QED BY <2>2, <2>4 DEF Outcome, t
<1>7. CASE ~(Len(y.buf) < HdrLen + 1) /\ Len(z.buf) < HdrTotal(h)
  <2>1. t = Incomplete(z) /\ AtRest(z)
    BY <1>1, <1>2, <1>4, <1>5, <1>7 DEF AtRest
  <2>2. NoneYet(t, x)
    BY <1>2, <1>4, <1>7, <2>1, IncompleteIs
  <2>3. t.res = "none" /\ t.in = z
    BY <2>1 DEF Incomplete
  <2>4. Passed("dynhdr", x.hdr) => Owned(t, x.hdr)
    BY <1>2, <1>4, <2>3 DEF Owned
  <2> QED BY <2>2, <2>4 DEF Outcome, t
<1>8. CASE /\ ~(Len(y.buf) < HdrLen + 1) /\ ~(Len(z.buf) < HdrTotal(h))
           /\ sent[h].kind = "bad_fields" \/ (sent[h].num > 0 /\ ~with_fd)
  <2>1. t = Bad(z)
    BY <1>5, <1>8
  <2>2. ParseError(t, x)
    BY <1>2, <1>4, <2>1, BadIs
  <2>3. Owned(t, x.hdr)
    BY <2>2 DEF Owned, ParseError
  <2> QED BY <2>2, <2>3 DEF Outcome, t
<1>9. CASE /\ ~(Len(y.buf) < HdrLen + 1) /\ ~(Len(z.buf) < HdrTotal(h))
           /\ ~(sent[h].kind = "bad_fields" \/ (sent[h].num > 0 /\ ~with_fd))
  <2>1. t = TryFinishing(w)
    BY <1>5, <1>9
  <2>2. w \in Ins /\ w.stage = "finishing" /\ w.hdr = h /\ w.buf = z.buf /\ w.rem = z.rem
    BY <1>1, <1>2, <1>4, StageIs
  <2> HIDE DEF w
  <2>3. Len(w.buf) <= Total(w.hdr)
    <3>1. Len(z.buf) \in Nat
      BY <1>4, LenProperties DEF Ins
    <3> QED BY <1>1, <1>4, <2>2, <3>1
  <2>4. Outcome(t, w) /\ (Passed("finishing", h) => Owned(t, h))
    BY <1>1, <2>1, <2>2, <2>3, FinishingIs
  <2>5. Outcome(t, x)
    BY <1>2, <1>4, <2>2, <2>4, OutcomeFrom
  <2>6. Passed("dynhdr", x.hdr) => Owned(t, x.hdr)
    BY <1>9, <2>4 DEF Passed
  <2> QED BY <2>5, <2>6 DEF t
<1> QED BY <1>6, <1>7, <1>8, <1>9

\* InState::Header and what follows it
LEMMA HeaderIs ==
  ASSUME sent \in [Msgs -> Shapes], NEW x \in Ins, x.stage = "header",
         Len(x.buf) <= HdrLen + 1, NEW g \in Msgs \cup {None}, NEW m
  PROVE  /\ Outcome(TryHeader(x, g), x)
         /\ StartsAt(x.buf \o x.rem, m) => Owned(TryHeader(x, g), m)
<1> DEFINE y == ExtendMax(x, HdrLen)
<1> DEFINE h == IF y.buf[1][2] = 1 THEN y.buf[1][1] ELSE g
<1> DEFINE w == [y EXCEPT !.stage = "dynhdr", !.hdr = h]
<1> DEFINE t == TryHeader(x, g)
<1>1. HdrLen = 2
  BY DEF HdrLen
<1>2. /\ y \in Ins /\ y.stage = x.stage /\ y.hdr = x.hdr
      /\ y.buf \o y.rem = x.buf \o x.rem
      /\ Len(y.buf) < HdrLen => y.rem = <<>>
      /\ Len(x.buf) <= HdrLen => Len(y.buf) <= HdrLen
      /\ x.rem = <<>> => y.rem = <<>>
      /\ Len(x.buf) >= HdrLen => y.buf = x.buf
  BY <1>1, ExtendIs
<1>3. Len(y.buf) \in Nat /\ y.buf \in Seq(Bytes) /\ y.rem \in Seq(Bytes) /\ Len(x.buf) \in Nat
  BY <1>2, LenProperties DEF Ins
<1>4. Len(y.buf) <= HdrLen + 1
  <2>1. Len(x.buf) <= HdrLen \/ Len(x.buf) >= HdrLen
    BY <1>1, <1>3
  <2> QED BY <1>1, <1>2, <1>3, <2>1
<1>5. t = IF Len(y.buf) < HdrLen THEN Incomplete(y)
          ELSE IF h = None \/ sent[h].kind = "bad_header" THEN Bad(y)
          ELSE TryDynHdr(w)
  BY DEF TryHeader
<1> HIDE DEF y, t
<1>6. CASE Len(y.buf) < HdrLen
  <2>1. t = Incomplete(y) /\ AtRest(y)
    BY <1>2, <1>5, <1>6 DEF AtRest
  <2>2. NoneYet(t, x)
    BY <1>2, <1>6, <2>1, IncompleteIs
  <2>3. t.res = "none" /\ t.in = y
    BY <2>1 DEF Incomplete
  <2>4. Owned(t, m)
    BY <1>2, <2>3 DEF Owned
  <2> QED BY <2>2, <2>4 DEF Outcome, t
<1>7. CASE ~(Len(y.buf) < HdrLen) /\ (h = None \/ sent[h].kind = "bad_header")
  <2>1. t = Bad(y)
    BY <1>5, <1>7
  <2>2. ParseError(t, x)
    BY <1>2, <2>1, BadIs
  <2>3. Owned(t, m)
    BY <2>2 DEF Owned, ParseError
  <2> QED BY <2>2, <2>3 DEF Outcome, t
<1>8. CASE ~(Len(y.buf) < HdrLen) /\ ~(h = None \/ sent[h].kind = "bad_header")
  <2>1. t = TryDynHdr(w)
    BY <1>5, <1>8
  <2>2. 1 \in 1 .. Len(y.buf)
    BY <1>1, <1>3, <1>8
  <2>3. y.buf[1] \in Bytes
    BY <1>3, <2>2, ElementOfSeq
  <2>4. h \in Msgs
    BY <1>8, <2>3 DEF Bytes
  <2>5. StartsAt(x.buf \o x.rem, m) => h = m
    <3>1. SUFFICES ASSUME StartsAt(x.buf \o x.rem, m) PROVE h = m
      OBVIOUS
    <3>2. StartsAt(y.buf \o y.rem, m)
      BY <1>2, <3>1
    <3>3. y.buf # <<>>
      BY <2>2, EmptySeq
    <3>4. y.buf \o y.rem # <<>>
      BY <1>3, <3>3, ConcatEqualIffEmpty
    <3>5. (y.buf \o y.rem)[1] = y.buf[1]
      <4> DEFINE a == y.buf
      <4> DEFINE b == y.rem
      <4>1. a \in Seq(Bytes) /\ b \in Seq(Bytes) /\ 1 <= Len(a) /\ Len(a) \in Nat /\ Len(b) \in Nat
        BY <1>3, <2>2, LenProperties
      <4> HIDE DEF a, b
      <4>2. (a \o b)[1] = a[1]
        BY <4>1, ConcatProperties
      <4> QED BY <4>2 DEF a, b
    <3>6. y.buf[1] = <<m, 1>>
      BY <3>2, <3>4, <3>5 DEF StartsAt
    <3> QED BY <3>6
  <2> HIDE DEF h
  <2>6. w \in Ins /\ w.stage = "dynhdr" /\ w.hdr = h /\ w.buf = y.buf /\ w.rem = y.rem
    BY <1>2, <2>4, StageIs, ZenonT(60)
  <2> HIDE DEF w
  <2>7. Len(w.buf) <= HdrTotal(w.hdr)
    <3>1. HdrTotal(h) \in Nat /\ HdrLen + 1 <= HdrTotal(h)
      BY <2>4, Lengths
    <3> QED BY <1>1, <1>3, <1>4, <2>6, <3>1
  <2>8. Outcome(t, w) /\ (Passed("dynhdr", h) => Owned(t, h))
    BY <2>1, <2>4, <2>6, <2>7, DynHdrIs
  <2>9. Outcome(t, x)
    BY <1>2, <2>6, <2>8, OutcomeFrom
  <2>10. Passed("dynhdr", h)
    BY <1>8 DEF Passed
  <2> QED BY <2>5, <2>8, <2>9, <2>10 DEF t
<1> QED BY <1>6, <1>7, <1>8

\* try_get_msg, whatever it starts from and whatever bytes from inside a message
\* pass for
LEMMA TryIs ==
  ASSUME sent \in [Msgs -> Shapes], NEW x \in Ins, Readable(x), NEW g \in Msgs \cup {None}
  PROVE  Outcome(TryGetMsg(x, g), x)
<1>1. CASE x.stage = "header"
  <2>1. TryGetMsg(x, g) = TryHeader(x, g) /\ Len(x.buf) <= HdrLen + 1
    BY <1>1 DEF TryGetMsg, Readable
  <2> QED BY <1>1, <2>1, HeaderIs
<1>2. CASE x.stage = "dynhdr"
  <2>1. TryGetMsg(x, g) = TryDynHdr(x) /\ x.hdr \in Msgs /\ Len(x.buf) <= HdrTotal(x.hdr)
    BY <1>2 DEF TryGetMsg, Readable
  <2> QED BY <1>2, <2>1, DynHdrIs
<1>3. CASE x.stage = "finishing"
  <2>1. TryGetMsg(x, g) = TryFinishing(x) /\ x.hdr \in Msgs /\ Len(x.buf) <= Total(x.hdr)
    BY <1>3 DEF TryGetMsg, Readable
  <2> QED BY <1>3, <2>1, FinishingIs
<1> QED BY <1>1, <1>2, <1>3 DEF Readable

\* Fed with the bytes of message m from the first on, it goes on with m.
LEMMA TryOwned ==
  ASSUME sent \in [Msgs -> Shapes], NEW x \in Ins, Readable(x), NEW g \in Msgs \cup {None},
         NEW m, StartsAt(x.buf \o x.rem, m),
         x.stage # "header" => x.hdr = m /\ Passed(x.stage, m)
  PROVE  Owned(TryGetMsg(x, g), m)
<1>1. CASE x.stage = "header"
  <2>1. TryGetMsg(x, g) = TryHeader(x, g) /\ Len(x.buf) <= HdrLen + 1
    BY <1>1 DEF TryGetMsg, Readable
  <2> QED BY <1>1, <2>1, HeaderIs
<1>2. CASE x.stage = "dynhdr"
  <2>1. TryGetMsg(x, g) = TryDynHdr(x) /\ x.hdr \in Msgs /\ Len(x.buf) <= HdrTotal(x.hdr)
    BY <1>2 DEF TryGetMsg, Readable
  <2>2. x.hdr = m /\ Passed("dynhdr", m)
    BY <1>2
  <2>3. Passed("dynhdr", x.hdr) => Owned(TryDynHdr(x), x.hdr)
    BY <1>2, <2>1, DynHdrIs
  <2> QED BY <2>1, <2>2, <2>3
<1>3. CASE x.stage = "finishing"
  <2>1. TryGetMsg(x, g) = TryFinishing(x) /\ x.hdr \in Msgs /\ Len(x.buf) <= Total(x.hdr)
    BY <1>3 DEF TryGetMsg, Readable
  <2>2. x.hdr = m /\ Passed("finishing", m)
    BY <1>3
  <2>3. Passed("finishing", x.hdr) => Owned(TryFinishing(x), x.hdr)
    BY <1>3, <2>1, FinishingIs
  <2> QED BY <2>1, <2>2, <2>3
<1> QED BY <1>1, <1>2, <1>3 DEF Readable

-----------------------------------------------------------------------------
(* The stream                                                              *)

\* A byte is a byte of one of the peer's messages.
LEMMA ByteIs ==
  ASSUME NEW b \in Bytes
  PROVE  /\ b = <<b[1], b[2]>> /\ b[1] \in Msgs /\ b[1] \in Nat
         /\ b[2] \in Nat /\ b[2] >= 1 /\ b[2] <= Total(b[1])
BY RecvAssumption DEF Bytes, Msgs

\* A stream that starts with message m's first byte goes on with its others.
LEMMA Numbered ==
  ASSUME sent \in [Msgs -> Shapes], NEW s \in Seq(Bytes), Contiguous(s), NEW m, s[1] = <<m, 1>>,
         s # <<>>
  PROVE  /\ m \in Msgs
         /\ \A k \in 1 .. Len(s) : k <= Total(m) => s[k] = <<m, k>>
<1>1. Len(s) \in Nat /\ 1 \in 1 .. Len(s)
  BY EmptySeq, LenProperties
<1>2. \A k \in 1 .. Len(s) : s[k] \in Bytes
  BY ElementOfSeq
<1>3. m \in Msgs
  <2>1. <<m, 1>> \in Bytes
    BY <1>1, <1>2
  <2> QED BY <2>1 DEF Bytes
<1>4. Total(m) \in Nat
  BY <1>3, Lengths
<1> DEFINE S == {k \in 1 .. Len(s) : k <= Total(m) => s[k] = <<m, k>>}
<1>5. 1 \in S
  BY <1>1
<1>6. \A k \in 1 .. Len(s) - 1 : k \in S => k + 1 \in S
  <2>1. SUFFICES ASSUME NEW k \in 1 .. Len(s) - 1, k \in S, k + 1 <= Total(m)
                 PROVE  s[k + 1] = <<m, k + 1>>
    BY <1>1
  <2>2. s[k] = <<m, k>> /\ k # Total(m)
    BY <1>1, <1>4, <2>1
  <2>3. Follows(s[k], s[k + 1])
    BY DEF Contiguous
  <2> QED BY <2>2, <2>3 DEF Follows
<1>7. 1 .. Len(s) \subseteq S
  <2> HIDE DEF S
  <2> QED BY <1>1, <1>5, <1>6, UpInduction
<1> QED BY <1>3, <1>7

\* The rest of a stream is one.
LEMMA Rest ==
  ASSUME NEW a \in Seq(Bytes), NEW b \in Seq(Bytes), Contiguous(a \o b)
  PROVE  Contiguous(b)
<1>1. SUFFICES ASSUME NEW i \in 1 .. Len(b) - 1 PROVE Follows(b[i], b[i + 1])
  BY DEF Contiguous
<1> DEFINE n == Len(a)
<1>2. n \in Nat /\ Len(b) \in Nat /\ Len(a \o b) = n + Len(b)
  BY ConcatProperties, LenProperties
<1>3. \A k \in 1 .. Len(b) : (a \o b)[n + k] = b[k]
  <2>1. SUFFICES ASSUME NEW k \in 1 .. Len(b) PROVE (a \o b)[n + k] = b[k]
    OBVIOUS
  <2>2. n + k \in 1 .. n + Len(b) /\ ~(n + k <= n) /\ (n + k) - n = k
    BY <1>2
  <2> QED BY <2>2, ConcatProperties
<1>4. n + i \in 1 .. Len(a \o b) - 1 /\ (n + i) + 1 = n + (i + 1) /\ i \in 1 .. Len(b)
      /\ i + 1 \in 1 .. Len(b)
  BY <1>2
<1>5. Follows((a \o b)[n + i], (a \o b)[(n + i) + 1])
  BY <1>4 DEF Contiguous
<1>6. (a \o b)[n + i] = b[i] /\ (a \o b)[(n + i) + 1] = b[i + 1]
  BY <1>3, <1>4
<1> QED BY <1>5, <1>6

\* As many bytes as message m has are message m, and the next message follows.
LEMMA WholeIs ==
  ASSUME sent \in [Msgs -> Shapes], NEW a \in Seq(Bytes), NEW b \in Seq(Bytes),
         Contiguous(a \o b), NEW m \in Msgs, StartsAt(a \o b, m), Len(a) = Total(m),
         Complete(a \o b, m)
  PROVE  a = BytesOf(m) /\ Contiguous(b) /\ StartsAt(b, m + 1) /\ Complete(b, m + 1)
<1> DEFINE n == Len(a)
<1> DEFINE s == a \o b
<1>1. n \in Nat /\ n >= 1 /\ n = Total(m) /\ Len(b) \in Nat
  <2>1. HdrLen + 1 <= HdrTotal(m) /\ HdrTotal(m) <= Total(m) /\ HdrTotal(m) \in Nat /\ HdrLen = 2
    BY Lengths DEF HdrLen
  <2> QED BY <2>1, LenProperties
<1>2. /\ s \in Seq(Bytes) /\ Len(s) = n + Len(b)
      /\ \A i \in 1 .. n + Len(b) : s[i] = IF i <= n THEN a[i] ELSE b[i - n]
  BY ConcatProperties
<1>3. s # <<>> /\ s[1] = <<m, 1>>
  <2>1. Len(s) # 0
    BY <1>1, <1>2
  <2>2. s # <<>>
    BY <2>1, EmptySeq
  <2> QED BY <2>2 DEF StartsAt
<1> HIDE DEF s
<1>4. Contiguous(s)
  BY DEF s
<1>5. \A k \in 1 .. n : a[k] = <<m, k>>
  <2>1. \A k \in 1 .. Len(s) : k <= Total(m) => s[k] = <<m, k>>
    BY <1>2, <1>3, <1>4, Numbered
  <2>2. SUFFICES ASSUME NEW k \in 1 .. n PROVE a[k] = <<m, k>>
    OBVIOUS
  <2>3. k \in 1 .. n + Len(b) /\ k <= Total(m)
    BY <1>1
  <2>4. s[k] = a[k] /\ s[k] = <<m, k>>
    BY <1>2, <2>1, <2>3
  <2> QED BY <2>4
<1>6. a = BytesOf(m)
  <2>1. a = [k \in 1 .. n |-> a[k]]
    BY LenProperties
  <2>2. BytesOf(m) = [k \in 1 .. n |-> <<m, k>>]
    BY <1>1 DEF BytesOf
  <2>3. [k \in 1 .. n |-> a[k]] = [k \in 1 .. n |-> <<m, k>>]
    BY <1>5
  <2> QED BY <2>1, <2>2, <2>3
<1>7. StartsAt(b, m + 1)
  <2>1. SUFFICES ASSUME b # <<>> PROVE b[1] = <<m + 1, 1>>
    BY DEF StartsAt
  <2>2. Len(b) >= 1
    BY <1>1, <2>1, EmptySeq
  <2>3. n \in 1 .. Len(s) - 1 /\ n + 1 \in 1 .. n + Len(b) /\ (n + 1) - n = 1 /\ ~(n + 1 <= n)
    BY <1>1, <1>2, <2>2
  <2>4. Follows(s[n], s[n + 1])
    BY <1>4, <2>3 DEF Contiguous
  <2>5. s[n + 1] = b[1]
    BY <1>2, <2>3
  <2>6. s[n] = <<m, n>>
    <3>1. n \in 1 .. n + Len(b) /\ n \in 1 .. n
      BY <1>1
    <3> QED BY <1>2, <1>5, <3>1
  <2> QED BY <1>1, <2>4, <2>5, <2>6 DEF Follows
<1>8. Complete(b, m + 1)
  <2>1. SUFFICES ASSUME NEW j \in m + 1 .. N, NEW k \in 1 .. Total(j)
                 PROVE  \E i \in 1 .. Len(b) : b[i] = <<j, k>>
    BY DEF Complete
  <2>2. N \in Nat /\ m \in Nat /\ j \in m .. N /\ j # m
    BY RecvAssumption DEF Msgs
  <2>3. PICK i \in 1 .. Len(s) : s[i] = <<j, k>>
    BY <2>2 DEF Complete, s
  <2>4. ~(i <= n)
    <3>1. SUFFICES ASSUME i <= n PROVE FALSE
      OBVIOUS
    <3>2. s[i] = a[i] /\ a[i] = <<m, i>>
      BY <1>1, <1>2, <1>5, <3>1
    <3> QED BY <2>2, <2>3, <3>2
  <2>5. i - n \in 1 .. Len(b) /\ s[i] = b[i - n]
    BY <1>1, <1>2, <2>4
  <2> QED BY <2>3, <2>5
<1> QED BY <1>4, <1>6, <1>7, <1>8, Rest DEF s

\* A stream that ends with a whole message can be continued by the next one.
LEMMA Joined ==
  ASSUME sent \in [Msgs -> Shapes], NEW a \in Seq(Bytes), a # <<>>, Contiguous(a), NEW m \in Msgs,
         m + 1 \in Msgs, a[Len(a)] = <<m, Total(m)>>,
         \A j \in 1 .. m : \A k \in 1 .. Total(j) : \E i \in 1 .. Len(a) : a[i] = <<j, k>>
  PROVE  /\ a \o BytesOf(m + 1) \in Seq(Bytes) /\ Contiguous(a \o BytesOf(m + 1))
         /\ a \o BytesOf(m + 1) # <<>> /\ (a \o BytesOf(m + 1))[1] = a[1]
         /\ (a \o BytesOf(m + 1))[Len(a \o BytesOf(m + 1))] = <<m + 1, Total(m + 1)>>
         /\ \A j \in 1 .. m + 1 : \A k \in 1 .. Total(j) :
              \E i \in 1 .. Len(a \o BytesOf(m + 1)) : (a \o BytesOf(m + 1))[i] = <<j, k>>
<1> DEFINE b == BytesOf(m + 1)
<1> DEFINE l == Total(m + 1)
<1> DEFINE n == Len(a)
<1>1. l \in Nat /\ l >= 1
  <2>1. /\ HdrLen + 1 <= HdrTotal(m + 1) /\ HdrTotal(m + 1) <= Total(m + 1)
        /\ HdrTotal(m + 1) \in Nat /\ HdrLen = 2 /\ Total(m + 1) \in Nat
    BY Lengths DEF HdrLen
  <2> QED BY <2>1
<1>2. b \in Seq(Bytes) /\ Len(b) = l /\ \A k \in 1 .. l : b[k] = <<m + 1, k>>
  <2>1. b = [k \in 1 .. l |-> <<m + 1, k>>]
    BY DEF BytesOf
  <2>2. \A k \in 1 .. l : <<m + 1, k>> \in Bytes
    BY <1>1 DEF Bytes
  <2> HIDE DEF b, l
  <2> QED BY <1>1, <2>1, <2>2
<1>3. n \in Nat /\ n >= 1
  BY EmptySeq
<1> DEFINE s == a \o b
<1> HIDE DEF b, l
<1>4. /\ s \in Seq(Bytes) /\ Len(s) = n + l
      /\ \A i \in 1 .. n + l : s[i] = IF i <= n THEN a[i] ELSE b[i - n]
  BY <1>2, ConcatProperties
<1> HIDE DEF s
<1>5. s[1] = a[1] /\ s[n + l] = <<m + 1, l>>
  <2>1. 1 \in 1 .. n + l /\ 1 <= n /\ n + l \in 1 .. n + l /\ ~(n + l <= n) /\ (n + l) - n = l
        /\ l \in 1 .. l
    BY <1>1, <1>3
  <2> QED BY <1>2, <1>4, <2>1
<1>6. s # <<>>
  BY <1>1, <1>3, <1>4, EmptySeq
<1>7. ASSUME NEW i \in 1 .. Len(s) - 1 PROVE Follows(s[i], s[i + 1])
  <2>1. i \in 1 .. n + l /\ i + 1 \in 1 .. n + l /\ i \in Nat
    BY <1>1, <1>3, <1>4
  <2>2. CASE i + 1 <= n
    <3>1. i <= n /\ i \in 1 .. Len(a) - 1
      BY <1>3, <2>1, <2>2
    <3>2. s[i] = a[i] /\ s[i + 1] = a[i + 1]
      BY <1>4, <2>1, <2>2, <3>1
    <3> QED BY <3>1, <3>2 DEF Contiguous
  <2>3. CASE i = n
    <3>1. i <= n /\ ~(i + 1 <= n) /\ (i + 1) - n = 1 /\ 1 \in 1 .. l
      BY <1>1, <1>3, <2>3
    <3>2. s[i] = a[n] /\ s[i + 1] = b[1]
      BY <1>4, <2>1, <2>3, <3>1
    <3>3. s[i] = <<m, Total(m)>> /\ s[i + 1] = <<m + 1, 1>>
      BY <1>2, <3>1, <3>2
    <3> QED BY <3>3 DEF Follows
  <2>4. CASE i > n
    <3>1. /\ ~(i <= n) /\ ~(i + 1 <= n) /\ (i + 1) - n = (i - n) + 1
          /\ i - n \in 1 .. l /\ (i - n) + 1 \in 1 .. l /\ i - n # l
      BY <1>1, <1>3, <1>4, <2>4
    <3>2. s[i] = b[i - n] /\ s[i + 1] = b[(i - n) + 1]
      BY <1>4, <2>1, <3>1
    <3>3. s[i] = <<m + 1, i - n>> /\ s[i + 1] = <<m + 1, (i - n) + 1>>
      BY <1>2, <3>1, <3>2
    <3> QED BY <3>1, <3>3 DEF Follows, l
  <2> QED BY <1>3, <2>1, <2>2, <2>3, <2>4
<1>8. Contiguous(s)
  BY <1>7 DEF Contiguous
<1>9. ASSUME NEW j \in 1 .. m + 1, NEW k \in 1 .. Total(j)
      PROVE  \E i \in 1 .. Len(s) : s[i] = <<j, k>>
  <2>1. m \in Nat
    BY RecvAssumption DEF Msgs
  <2>2. CASE j = m + 1
    <3>1. k \in 1 .. l
      BY <2>2 DEF l
    <3>2. n + k \in 1 .. n + l /\ ~(n + k <= n) /\ (n + k) - n = k
      BY <1>1, <1>3, <3>1
    <3>3. s[n + k] = b[k] /\ b[k] = <<m + 1, k>>
      BY <1>2, <1>4, <3>1, <3>2
    <3> QED BY <1>4, <2>2, <3>2, <3>3
  <2>3. CASE j # m + 1
    <3>1. j \in 1 .. m
      BY <2>1, <2>3
    <3>2. PICK i \in 1 .. Len(a) : a[i] = <<j, k>>
      BY <3>1
    <3>3. i \in 1 .. n + l /\ i <= n
      BY <1>1, <1>3, <3>2
    <3> QED BY <1>4, <3>2, <3>3
  <2> QED BY <2>2, <2>3
<1> QED BY <1>4, <1>5, <1>6, <1>8, <1>9 DEF s, b, l

\* The peer's messages one after the other are a stream from the first on.
LEMMA SentStream ==
  ASSUME sent \in [Msgs -> Shapes], NEW s, s = FlattenSeq([m \in Msgs |-> BytesOf(m)])
  PROVE  s \in Seq(Bytes) /\ Contiguous(s) /\ StartsAt(s, 1) /\ Complete(s, 1)
<1> DEFINE q == [m \in Msgs |-> BytesOf(m)]
<1>1. N \in Nat /\ Len(q) = N /\ \A m \in Msgs : q[m] = BytesOf(m)
  BY RecvAssumption DEF Msgs
<1>2. CASE N = 0
  <2>1. s = q
    BY <1>1, <1>2 DEF FlattenSeq
  <2>2. Msgs = {} /\ 1 .. 0 = {}
    BY <1>2 DEF Msgs
  <2>3. q = <<>>
    BY <2>2
  <2>4. s = <<>> /\ Len(<<>>) = 0 /\ <<>> \in Seq(Bytes)
    BY <2>1, <2>3, EmptySeq
  <2>5. Contiguous(s)
    <3>1. Len(s) = 0
      BY <2>4
    <3>2. 1 .. Len(s) - 1 = {}
      BY <3>1
    <3> QED BY <3>2 DEF Contiguous
  <2>6. StartsAt(s, 1)
    BY <2>4 DEF StartsAt
  <2>7. Complete(s, 1)
    <3>1. 1 .. N = {}
      BY <1>2
    <3> QED BY <3>1 DEF Complete
  <2> QED BY <2>4, <2>5, <2>6, <2>7
<1>3. CASE N # 0
  <2> HIDE DEF q
  <2>1. PICK f : f[1] = q[1] /\ (\A i \in 2 .. N : f[i] = f[i - 1] \o q[i]) /\ FlattenSeq(q) = f[N]
    BY <1>1, <1>3, FlattenRec
  <2> DEFINE P(a, k) == /\ a \in Seq(Bytes) /\ a # <<>> /\ Contiguous(a)
                        /\ a[1] = <<1, 1>> /\ a[Len(a)] = <<k, Total(k)>>
                        /\ \A j \in 1 .. k : \A l \in 1 .. Total(j) :
                             \E i \in 1 .. Len(a) : a[i] = <<j, l>>
  <2> DEFINE S == {k \in 1 .. N : P(f[k], k)}
  <2>2. 1 \in S
    <3>1. 1 \in Msgs /\ 1 \in 1 .. N
      BY <1>1, <1>3 DEF Msgs
    <3>2. f[1] = BytesOf(1)
      BY <1>1, <2>1, <3>1
    <3> DEFINE l == Total(1)
    <3> DEFINE b == BytesOf(1)
    <3>3. l \in Nat /\ l >= 1
      <4>1. /\ HdrLen + 1 <= HdrTotal(1) /\ HdrTotal(1) <= Total(1)
            /\ HdrTotal(1) \in Nat /\ HdrLen = 2 /\ Total(1) \in Nat
        BY <3>1, Lengths DEF HdrLen
      <4> QED BY <4>1
    <3>4. b = [k \in 1 .. l |-> <<1, k>>]
      BY DEF BytesOf
    <3>5. \A k \in 1 .. l : <<1, k>> \in Bytes
      BY <3>1, <3>3 DEF Bytes
    <3> HIDE DEF l, b
    <3>6. b \in Seq(Bytes) /\ Len(b) = l /\ \A k \in 1 .. l : b[k] = <<1, k>>
      BY <3>3, <3>4, <3>5
    <3>7. Contiguous(b)
      <4>1. SUFFICES ASSUME NEW i \in 1 .. l - 1 PROVE Follows(b[i], b[i + 1])
        BY <3>6 DEF Contiguous
      <4>2. b[i] = <<1, i>> /\ b[i + 1] = <<1, i + 1>> /\ i # l
        BY <3>3, <3>6
      <4> QED BY <4>2 DEF Follows, l
    <3>8. b # <<>> /\ b[1] = <<1, 1>> /\ b[Len(b)] = <<1, l>>
      BY <3>3, <3>6, EmptySeq
    <3>9. \A j \in 1 .. 1 : \A k \in 1 .. Total(j) : \E i \in 1 .. Len(b) : b[i] = <<j, k>>
      <4>1. SUFFICES ASSUME NEW j \in 1 .. 1, NEW k \in 1 .. Total(j)
                     PROVE  \E i \in 1 .. Len(b) : b[i] = <<j, k>>
        OBVIOUS
      <4>2. j = 1 /\ k \in 1 .. l
        BY DEF l
      <4> QED BY <3>6, <4>2
    <3>10. P(b, 1)
      BY <3>6, <3>7, <3>8, <3>9 DEF l
    <3> HIDE DEF P
    <3> QED BY <3>1, <3>2, <3>10 DEF b
  <2>3. \A k \in 1 .. N - 1 : k \in S => k + 1 \in S
    <3>1. SUFFICES ASSUME NEW k \in 1 .. N - 1, k \in S PROVE k + 1 \in S
      OBVIOUS
    <3>2. k \in Msgs /\ k + 1 \in Msgs /\ k + 1 \in 2 .. N /\ (k + 1) - 1 = k /\ k + 1 \in 1 .. N
      BY <1>1 DEF Msgs
    <3>3. f[k + 1] = f[k] \o BytesOf(k + 1)
      BY <1>1, <2>1, <3>2
    <3>4. P(f[k], k)
      BY <3>1
    <3>5. P(f[k] \o BytesOf(k + 1), k + 1)
      <4> DEFINE a == f[k]
      <4>1. P(a, k)
        BY <3>4
      <4> HIDE DEF a
      <4>2. P(a \o BytesOf(k + 1), k + 1)
        BY <3>2, <4>1, Joined
      <4> HIDE DEF P
      <4> QED BY <4>2 DEF a
    <3> HIDE DEF P
    <3> QED BY <3>2, <3>3, <3>5
  <2>4. N \in S
    <3>1. N \in 1 .. N
      BY <1>1, <1>3
    <3> HIDE DEF S
    <3> QED BY <1>1, <2>2, <2>3, <3>1, UpInduction
  <2>5. s = f[N]
    BY <2>1 DEF q
  <2>6. P(s, N)
    <3> HIDE DEF P
    <3> QED BY <2>4, <2>5
  <2> QED BY <2>6 DEF StartsAt, Complete
<1> QED BY <1>2, <1>3

-----------------------------------------------------------------------------
(* The file descriptors                                                    *)

\* When only the first one has elements, they are the result.
LEMMA FlattenFirst ==
  ASSUME NEW S, NEW s, Len(s) \in Nat, Len(s) # 0, s[1] \in Seq(S),
         \A i \in 2 .. Len(s) : s[i] = <<>>
  PROVE  FlattenSeq(s) = s[1]
<1> DEFINE n == Len(s)
<1>1. PICK f : f[1] = s[1] /\ (\A i \in 2 .. n : f[i] = f[i - 1] \o s[i]) /\ FlattenSeq(s) = f[n]
  BY FlattenRec
<1> DEFINE T == {k \in 1 .. n : f[k] = s[1]}
<1>2. 1 \in T
  BY <1>1
<1>3. \A k \in 1 .. n - 1 : k \in T => k + 1 \in T
  <2>1. SUFFICES ASSUME NEW k \in 1 .. n - 1, k \in T PROVE k + 1 \in T
    OBVIOUS
  <2>2. k + 1 \in 1 .. n /\ k + 1 \in 2 .. n /\ (k + 1) - 1 = k
    OBVIOUS
  <2>3. f[k + 1] = f[k] \o s[k + 1] /\ f[k] = s[1] /\ s[k + 1] = <<>>
    BY <1>1, <2>1, <2>2
  <2>4. s[1] \o <<>> = s[1]
    BY ConcatEmptySeq
  <2> QED BY <2>2, <2>3, <2>4
<1>4. n \in T
  <2>1. n \in Nat /\ n \in 1 .. n
    OBVIOUS
  <2> HIDE DEF T, n
  <2> QED BY <1>2, <1>3, <2>1, UpInduction
<1> QED BY <1>1, <1>4

\* recvmsg and messages pass on what a message may carry; of more than that,
\* they pass on more than a message may carry.
LEMMA ReceivedIs ==
  ASSUME NEW fds \in Seq(Msgs)
  PROVE  /\ ReceivedFds(fds) \in Seq(Msgs)
         /\ Len(fds) <= MaxFds => ReceivedFds(fds) = fds
         /\ Len(fds) > MaxFds => Len(ReceivedFds(fds)) > MaxFds
<1> DEFINE l == Len(fds)
<1> DEFINE room == IF AncCap < 16 THEN 0 ELSE (AncCap - 16) \div 4
<1> DEFINE k == IF l < room THEN l ELSE room
<1> DEFINE n == ((16 + 4 * k) - 16) \div 4
<1>1. l \in Nat /\ AncCap \in Nat /\ MaxFds \in Nat /\ 16 + 4 * (MaxFds + 1) <= AncCap
  BY LenProperties, AncillaryAssumption, RecvAssumption DEF CmsgLen, FdSize
<1>2. ReceivedFds(fds) = SubSeq(fds, 1, n)
  BY <1>1 DEF ReceivedFds, CmsgLen, FdSize
<1> HIDE DEF l
<1>3. room \in Nat /\ room >= MaxFds + 1
  BY <1>1
<1> HIDE DEF room
<1>4. k \in Nat /\ k <= l /\ (l <= MaxFds => k = l) /\ (l > MaxFds => k > MaxFds)
  BY <1>1, <1>3
<1> HIDE DEF k
<1>5. n = k
  BY <1>4
<1> HIDE DEF n
<1>6. SubSeq(fds, 1, n) \in Seq(Msgs) /\ Len(SubSeq(fds, 1, n)) = n
  <2>1. n \in 0 .. Len(fds)
    BY <1>1, <1>4, <1>5 DEF l
  <2> QED BY <2>1, Cut
<1>7. Len(fds) <= MaxFds => SubSeq(fds, 1, n) = fds
  <2>1. SUFFICES ASSUME Len(fds) <= MaxFds PROVE SubSeq(fds, 1, n) = fds
    OBVIOUS
  <2>2. n = Len(fds)
    BY <1>4, <1>5, <2>1 DEF l
  <2> QED BY <2>2, SubSeqFull
<1>8. Len(fds) > MaxFds => n > MaxFds
  BY <1>4, <1>5 DEF l
<1> QED BY <1>2, <1>6, <1>7, <1>8

\* Message m's fds
LEMMA FdsOfIs ==
  ASSUME sent \in [Msgs -> Shapes], NEW m \in Msgs
  PROVE  FdsOf(m) \in Seq(Msgs) /\ Len(FdsOf(m)) = sent[m].att
<1>1. sent[m].att \in Nat
  BY Lengths
<1> QED BY <1>1 DEF FdsOf

\* The fds that come with a byte
FdsAt(i) == IF pending[i][2] = 1 THEN FdsOf(pending[i][1]) ELSE <<>>

\* What arrives with any n bytes are fds of the peer's messages.
LEMMA FdsInType ==
  ASSUME sent \in [Msgs -> Shapes], pending \in Seq(Bytes), NEW n \in 1 .. Len(pending)
  PROVE  FdsIn(n) \in Seq(Msgs)
<1> DEFINE q == [i \in 1 .. n |-> FdsAt(i)]
<1>1. n \in Nat /\ n # 0
  BY LenProperties
<1>2. \A i \in 1 .. n : FdsAt(i) \in Seq(Msgs)
  <2>1. SUFFICES ASSUME NEW i \in 1 .. n PROVE FdsAt(i) \in Seq(Msgs)
    OBVIOUS
  <2>2. i \in 1 .. Len(pending)
    BY <1>1, LenProperties
  <2>3. pending[i] \in Bytes
    BY <2>2, ElementOfSeq
  <2>4. pending[i][1] \in Msgs
    BY <2>3, ByteIs
  <2> QED BY <2>4, FdsOfIs, EmptySeq DEF FdsAt
<1>3. Len(q) = n /\ \A i \in 1 .. n : q[i] = FdsAt(i)
  BY <1>1
<1>4. FdsIn(n) = ReceivedFds(FlattenSeq(q))
  BY DEF FdsIn, FdsAt
<1> HIDE DEF q
<1>5. FlattenSeq(q) \in Seq(Msgs)
  BY <1>1, <1>2, <1>3, FlattenType
<1> QED BY <1>4, <1>5, ReceivedIs

\* With bytes of message m alone arrive all its fds, if the first byte is among
\* them, or none.
LEMMA FdsInOne ==
  ASSUME sent \in [Msgs -> Shapes], pending \in Seq(Bytes), NEW n \in 1 .. Len(pending),
         NEW m \in Msgs, NEW p \in Nat, \A i \in 1 .. n : pending[i] = <<m, p + i>>
  PROVE  FdsIn(n) = ReceivedFds(IF p = 0 THEN FdsOf(m) ELSE <<>>)
<1> DEFINE q == [i \in 1 .. n |-> FdsAt(i)]
<1>1. n \in Nat /\ n # 0 /\ 1 \in 1 .. n
  BY LenProperties
<1>2. Len(q) = n /\ \A i \in 1 .. n : q[i] = FdsAt(i)
  BY <1>1
<1>3. FdsIn(n) = ReceivedFds(FlattenSeq(q))
  BY DEF FdsIn, FdsAt
<1> HIDE DEF q
<1>4. q[1] = IF p = 0 THEN FdsOf(m) ELSE <<>>
  <2>1. pending[1] = <<m, p + 1>>
    BY <1>1
  <2>2. pending[1][1] = m /\ (pending[1][2] = 1 <=> p = 0)
    BY <2>1
  <2> QED BY <1>1, <1>2, <2>2 DEF FdsAt
<1>5. \A i \in 2 .. n : q[i] = <<>>
  <2>1. SUFFICES ASSUME NEW i \in 2 .. n PROVE q[i] = <<>>
    OBVIOUS
  <2>2. i \in 1 .. n /\ pending[i] = <<m, p + i>> /\ p + i # 1
    BY <1>1
  <2> QED BY <1>2, <2>2 DEF FdsAt
<1>6. q[1] \in Seq(Msgs)
  BY <1>4, FdsOfIs, EmptySeq
<1>7. FlattenSeq(q) = q[1]
  BY <1>1, <1>2, <1>5, <1>6, FlattenFirst
<1> QED BY <1>3, <1>4, <1>7

-----------------------------------------------------------------------------
(* get_next_message                                                        *)

\* The number of the message that get_next_message is at
At == Len(delivered) + 1

\* Between two steps something is needed, and no more than the stage waits for.
LEMMA NeededIs ==
  ASSUME sent \in [Msgs -> Shapes], NEW x \in Ins, AtRest(x)
  PROVE  /\ Needed(x) \in Nat /\ Needed(x) > 0
         /\ \/ x.stage = "header" /\ Len(x.buf) + Needed(x) <= HdrLen + 1
            \/ /\ x.stage = "dynhdr" /\ x.hdr \in Msgs
               /\ Len(x.buf) + Needed(x) <= HdrTotal(x.hdr)
            \/ /\ x.stage = "finishing" /\ x.hdr \in Msgs
               /\ Len(x.buf) + Needed(x) <= Total(x.hdr)
<1> DEFINE l == Len(x.buf)
<1>1. l \in Nat /\ HdrLen = 2
  BY LenProperties DEF Ins, HdrLen
<1>2. CASE x.stage = "header" /\ l < HdrLen
  <2>1. Needed(x) = HdrLen + 1 - l
    BY <1>2 DEF Needed
  <2> QED BY <1>1, <1>2, <2>1
<1>3. CASE x.stage = "dynhdr" /\ x.hdr \in Msgs /\ l < HdrTotal(x.hdr)
  <2>1. Needed(x) = IF l < HdrLen + 1 THEN HdrLen + 1 - l ELSE HdrTotal(x.hdr) - l
    BY <1>3 DEF Needed
  <2>2. HdrTotal(x.hdr) \in Nat /\ HdrLen + 1 <= HdrTotal(x.hdr)
    BY <1>3, Lengths
  <2> QED BY <1>1, <1>3, <2>1, <2>2
<1>4. CASE x.stage = "finishing" /\ x.hdr \in Msgs /\ l < Total(x.hdr)
  <2>1. Needed(x) = Total(x.hdr) - l
    BY <1>4 DEF Needed
  <2>2. Total(x.hdr) \in Nat
    BY <1>4, Lengths
  <2> QED BY <1>1, <1>4, <2>1, <2>2
<1> QED BY <1>2, <1>3, <1>4 DEF AtRest

\* Between two steps try_get_msg may be called again.
LEMMA RestReadable ==
  ASSUME sent \in [Msgs -> Shapes], NEW x \in Ins, AtRest(x)
  PROVE  Readable(x)
<1>1. Len(x.buf) \in Nat /\ HdrLen = 2
  BY LenProperties DEF Ins, HdrLen
<1>2. \A m \in Msgs : HdrTotal(m) \in Nat /\ Total(m) \in Nat
  BY Lengths
<1>3. CASE x.stage = "header" /\ Len(x.buf) < HdrLen
  BY <1>1, <1>3 DEF Readable
<1>4. CASE x.stage = "dynhdr" /\ x.hdr \in Msgs /\ Len(x.buf) < HdrTotal(x.hdr)
  BY <1>1, <1>2, <1>4 DEF Readable
<1>5. CASE x.stage = "finishing" /\ x.hdr \in Msgs /\ Len(x.buf) < Total(x.hdr)
  BY <1>1, <1>2, <1>5 DEF Readable
<1> QED BY <1>3, <1>4, <1>5 DEF AtRest

\* A fresh in_state is one between two steps.
LEMMA FreshIs ==
  ASSUME NEW r \in Seq(Bytes)
  PROVE  /\ Fresh(r) \in Ins /\ AtRest(Fresh(r)) /\ Fresh(r).rem = r
         /\ Fresh(r).buf = <<>> /\ Fresh(r).stage = "header"
<1>1. Fresh(r).rem = r /\ Fresh(r).buf = <<>> /\ Fresh(r).stage = "header" /\ Fresh(r).hdr = None
  BY DEF Fresh
<1>2. <<>> \in Seq(Bytes) /\ Len(<<>>) = 0
  BY EmptySeq
<1>3. Fresh(r) \in Ins
  BY <1>2 DEF Fresh, Ins
<1>4. Len(Fresh(r).buf) < HdrLen
  BY <1>1, <1>2 DEF HdrLen
<1> QED BY <1>1, <1>3, <1>4 DEF AtRest

\* What is still to be parsed, in x and behind it in p, is a stream from message
\* m on to the last one, and x is in m.
StreamIn(x, p, m) ==
  /\ Contiguous(x.buf \o (x.rem \o p)) /\ StartsAt(x.buf \o (x.rem \o p), m)
  /\ Complete(x.buf \o (x.rem \o p), m)
  /\ x.stage # "header" => x.hdr = m /\ Passed(x.stage, m)

\* A front part of a stream from m on is one.
LEMMA FrontStarts ==
  ASSUME NEW a \in Seq(Bytes), NEW b \in Seq(Bytes), NEW m, StartsAt(a \o b, m)
  PROVE  StartsAt(a, m)
<1>1. SUFFICES ASSUME a # <<>> PROVE a[1] = <<m, 1>>
  BY DEF StartsAt
<1>2. Len(a) \in Nat /\ Len(b) \in Nat /\ Len(a) >= 1
  BY <1>1, EmptySeq, LenProperties
<1>3. a \o b # <<>>
  BY <1>1, ConcatEqualIffEmpty
<1>4. (a \o b)[1] = a[1]
  BY <1>2, ConcatProperties
<1> QED BY <1>3, <1>4 DEF StartsAt

\* A byte that follows is there only if its message is.
LEMMA StreamMessage ==
  ASSUME sent \in [Msgs -> Shapes], NEW s \in Seq(Bytes), s # <<>>, NEW m, StartsAt(s, m)
  PROVE  m \in Msgs
<1>1. 1 \in 1 .. Len(s)
  BY EmptySeq, LenProperties
<1>2. s[1] \in Bytes
  BY <1>1, ElementOfSeq
<1>3. <<m, 1>> \in Bytes
  BY <1>2 DEF StartsAt
<1> QED BY <1>3 DEF Bytes

\* On a stream, try_get_msg returns message m whole and goes on with the next one.
LEMMA TryStream ==
  ASSUME sent \in [Msgs -> Shapes], NEW x \in Ins, Readable(x), NEW g \in Msgs \cup {None},
         NEW p \in Seq(Bytes), NEW m, StreamIn(x, p, m)
  PROVE  /\ TryGetMsg(x, g).res = "none" => StreamIn(TryGetMsg(x, g).in, p, m)
         /\ TryGetMsg(x, g).res = "msg" =>
              /\ TryGetMsg(x, g).msg = m /\ m \in Msgs /\ Passed("finishing", m)
              /\ TryGetMsg(x, g).bytes = BytesOf(m)
              /\ StreamIn(TryGetMsg(x, g).in, p, m + 1)
<1> DEFINE t == TryGetMsg(x, g)
<1> DEFINE a == x.buf
<1> DEFINE b == x.rem
<1>1. a \in Seq(Bytes) /\ b \in Seq(Bytes)
  BY DEF Ins
<1>2. /\ Contiguous(a \o (b \o p)) /\ StartsAt(a \o (b \o p), m)
      /\ Complete(a \o (b \o p), m)
  BY DEF StreamIn
<1>3. Outcome(t, x)
  BY TryIs
<1>4. Owned(t, m)
  <2>1. StartsAt(a \o b, m)
    <3> HIDE DEF a, b
    <3>1. (a \o b) \o p = a \o (b \o p) /\ a \o b \in Seq(Bytes)
      BY <1>1, Regroup
    <3>2. StartsAt((a \o b) \o p, m)
      BY <1>2, <3>1
    <3> QED BY <3>1, <3>2, FrontStarts
  <2>2. x.stage # "header" => x.hdr = m /\ Passed(x.stage, m)
    BY DEF StreamIn
  <2> QED BY <2>1, <2>2, TryOwned
<1> HIDE DEF t
<1>5. t.res = "none" => StreamIn(t.in, p, m)
  <2>1. SUFFICES ASSUME t.res = "none" PROVE StreamIn(t.in, p, m)
    OBVIOUS
  <2> DEFINE c == t.in.buf
  <2> DEFINE d == t.in.rem
  <2>2. c = a \o b /\ d = <<>>
    BY <1>3, <2>1 DEF Outcome, NoneYet, ParseError, Whole
  <2>3. t.in.stage # "header" => t.in.hdr = m /\ Passed(t.in.stage, m)
    BY <1>4, <2>1 DEF Owned
  <2>4. /\ Contiguous(c \o (d \o p)) /\ StartsAt(c \o (d \o p), m)
        /\ Complete(c \o (d \o p), m)
    <3> HIDE DEF a, b, c, d
    <3>1. (a \o b) \o p = a \o (b \o p)
      BY <1>1, Regroup
    <3>2. d \o p = p
      BY <2>2, ConcatEmptySeq
    <3>3. c \o (d \o p) = a \o (b \o p)
      BY <2>2, <3>1, <3>2
    <3> QED BY <1>2, <3>3
  <2> QED BY <2>3, <2>4 DEF StreamIn
<1>6. t.res = "msg" => /\ t.msg = m /\ m \in Msgs /\ Passed("finishing", m)
                       /\ t.bytes = BytesOf(m) /\ StreamIn(t.in, p, m + 1)
  <2>1. SUFFICES ASSUME t.res = "msg"
                 PROVE  /\ t.msg = m /\ m \in Msgs /\ Passed("finishing", m)
                        /\ t.bytes = BytesOf(m) /\ StreamIn(t.in, p, m + 1)
    OBVIOUS
  <2> DEFINE c == t.bytes
  <2> DEFINE d == t.in.rem
  <2>2. /\ t.msg \in Msgs /\ c \in Seq(Bytes) /\ Len(c) = Total(t.msg) /\ d \in Seq(Bytes)
        /\ t.in = Fresh(d) /\ c \o d = a \o b
    BY <1>3, <2>1 DEF Outcome, NoneYet, ParseError, Whole
  <2>3. t.msg = m /\ Passed("finishing", m)
    BY <1>4, <2>1 DEF Owned
  <2>4. m \in Msgs /\ Len(c) = Total(m)
    BY <2>2, <2>3
  <2> HIDE DEF a, b, c, d
  <2>5. c \o (d \o p) = a \o (b \o p) /\ d \o p \in Seq(Bytes)
    <3>1. (a \o b) \o p = a \o (b \o p)
      BY <1>1, Regroup
    <3>2. (c \o d) \o p = c \o (d \o p) /\ d \o p \in Seq(Bytes)
      <4>1. c \in Seq(Bytes) /\ d \in Seq(Bytes)
        BY <2>2
      <4> QED BY <4>1, Regroup
    <3> QED BY <2>2, <3>1, <3>2
  <2>6. /\ c = BytesOf(m) /\ Contiguous(d \o p) /\ StartsAt(d \o p, m + 1)
        /\ Complete(d \o p, m + 1)
    <3>1. /\ Contiguous(c \o (d \o p)) /\ StartsAt(c \o (d \o p), m)
          /\ Complete(c \o (d \o p), m)
      BY <1>2, <2>5
    <3> QED BY <2>2, <2>4, <2>5, <3>1, WholeIs
  <2>7. t.in.buf = <<>> /\ t.in.rem = d /\ t.in.stage = "header"
    BY <2>2, FreshIs
  <2>8. <<>> \o (d \o p) = d \o p
    BY <2>5, ConcatEmptySeq
  <2>9. StreamIn(t.in, p, m + 1)
    BY <2>6, <2>7, <2>8 DEF StreamIn
  <2> QED BY <2>3, <2>4, <2>6, <2>9 DEF c
<1> QED BY <1>5, <1>6 DEF t

\* What a read of n bytes leaves: all of them are in the buffer or, behind it, in
\* `remaining`; with fds none goes there.
LEMMA FedIs ==
  ASSUME sent \in [Msgs -> Shapes], in \in Ins, AtRest(in), in.rem = <<>>, pending \in Seq(Bytes),
         NEW n \in 1 .. Len(pending), with_fd => n <= Needed(in)
  PROVE  /\ Fed(n) \in Ins /\ Readable(Fed(n))
         /\ Fed(n).stage = in.stage /\ Fed(n).hdr = in.hdr /\ Fed(n).buf # <<>>
         /\ Fed(n).buf \o (Fed(n).rem \o SubSeq(pending, n + 1, Len(pending))) = Unread
         /\ with_fd => Fed(n).rem = <<>>
<1> DEFINE need == IF n < Needed(in) THEN n ELSE Needed(in)
<1> DEFINE a == in.buf
<1> DEFINE b == SubSeq(pending, 1, need)
<1> DEFINE c == SubSeq(pending, need + 1, n)
<1> DEFINE d == SubSeq(pending, n + 1, Len(pending))
<1> DEFINE x == Fed(n)
<1>1. a \in Seq(Bytes) /\ Len(a) \in Nat /\ Len(pending) \in Nat /\ n \in Nat
  BY LenProperties DEF Ins
<1>2. /\ Needed(in) \in Nat /\ Needed(in) > 0
      /\ \/ in.stage = "header" /\ Len(in.buf) + Needed(in) <= HdrLen + 1
         \/ /\ in.stage = "dynhdr" /\ in.hdr \in Msgs
            /\ Len(in.buf) + Needed(in) <= HdrTotal(in.hdr)
         \/ /\ in.stage = "finishing" /\ in.hdr \in Msgs
            /\ Len(in.buf) + Needed(in) <= Total(in.hdr)
  BY NeededIs
<1>3. /\ need \in Nat /\ need >= 1 /\ need <= n /\ need <= Needed(in)
      /\ (with_fd => need = n)
  BY <1>1, <1>2
<1>4. x = [in EXCEPT !.buf = a \o b, !.rem = c]
  BY DEF Fed
<1> HIDE DEF need
<1>5. b \in Seq(Bytes) /\ Len(b) = need
  <2>1. need \in 0 .. Len(pending)
    BY <1>1, <1>3
  <2> QED BY <2>1, Cut
<1>6. c \in Seq(Bytes) /\ d \in Seq(Bytes)
  <2>1. \A i \in 1 .. Len(pending) : pending[i] \in Bytes
    BY ElementOfSeq
  <2>2. \A i \in need + 1 .. n : pending[i] \in Bytes
    BY <1>1, <1>3, <2>1
  <2>3. \A i \in n + 1 .. Len(pending) : pending[i] \in Bytes
    BY <1>1, <2>1
  <2>4. c \in Seq(Bytes)
    BY <1>1, <1>3, <2>2, SubSeqProperties
  <2>5. d \in Seq(Bytes)
    BY <1>1, <2>3, SubSeqProperties
  <2> QED BY <2>4, <2>5
<1>7. b \o (c \o d) = pending
  <2>1. c \o d = SubSeq(pending, need + 1, Len(pending))
    <3>1. /\ need + 1 \in 1 .. Len(pending) + 1 /\ n \in (need + 1) - 1 .. Len(pending)
          /\ Len(pending) \in n .. Len(pending)
      BY <1>1, <1>3
    <3> QED BY <3>1, ConcatAdjacentSubSeq
  <2>2. b \o SubSeq(pending, need + 1, Len(pending)) = pending
    <3>1. need \in 0 .. Len(pending)
      BY <1>1, <1>3
    <3> QED BY <3>1, Cut
  <2> QED BY <2>1, <2>2
<1>8. with_fd => c = <<>>
  <2>1. SUFFICES ASSUME with_fd PROVE c = <<>>
    OBVIOUS
  <2>2. need + 1 > n
    BY <1>1, <1>3, <2>1
  <2> QED BY <1>1, <1>3, <2>2, SubSeqEmpty
<1>9. a \o b \in Seq(Bytes) /\ Len(a \o b) = Len(a) + need
  <2> HIDE DEF a, b
  <2> QED BY <1>1, <1>5, ConcatProperties
<1> HIDE DEF x, b, c, d
<1>10. /\ x \in Ins /\ x.stage = in.stage /\ x.hdr = in.hdr /\ x.buf = a \o b /\ x.rem = c
  BY <1>4, <1>6, <1>9 DEF Ins
<1>11. Readable(x)
  <2> DEFINE l == Len(a)
  <2> DEFINE k == Len(x.buf)
  <2> DEFINE w == Needed(in)
  <2>1. /\ l \in Nat /\ need \in Nat /\ k = l + need /\ need <= w /\ w \in Nat
        /\ \/ in.stage = "header" /\ l + w <= HdrLen + 1
           \/ in.stage = "dynhdr" /\ in.hdr \in Msgs /\ l + w <= HdrTotal(in.hdr)
           \/ in.stage = "finishing" /\ in.hdr \in Msgs /\ l + w <= Total(in.hdr)
    BY <1>1, <1>2, <1>3, <1>9, <1>10
  <2>2. HdrLen = 2 /\ \A m \in Msgs : HdrTotal(m) \in Nat /\ Total(m) \in Nat
    BY Lengths DEF HdrLen
  <2> HIDE DEF l, k, w
  <2>3. \/ in.stage = "header" /\ k <= HdrLen + 1
        \/ in.stage = "dynhdr" /\ in.hdr \in Msgs /\ k <= HdrTotal(in.hdr)
        \/ in.stage = "finishing" /\ in.hdr \in Msgs /\ k <= Total(in.hdr)
    BY <2>1, <2>2
  <2> QED BY <1>10, <2>3 DEF k, Readable
<1>12. x.buf # <<>>
  <2>1. Len(x.buf) # 0
    BY <1>1, <1>3, <1>9, <1>10
  <2> QED BY <2>1, EmptySeq
<1>13. x.buf \o (x.rem \o d) = Unread
  <2>1. (a \o b) \o (c \o d) = a \o (b \o (c \o d))
    <3> HIDE DEF a
    <3> DEFINE e == c \o d
    <3>1. e \in Seq(Bytes)
      BY <1>6, ConcatProperties
    <3> HIDE DEF e
    <3>2. (a \o b) \o e = a \o (b \o e)
      <4>1. a \in Seq(Bytes) /\ b \in Seq(Bytes)
        BY <1>1, <1>5
      <4>2. \A i, j, k \in Seq(Bytes) : (i \o j) \o k = i \o (j \o k)
        BY ConcatAssociative, SMTT(40)
      <4> QED BY <3>1, <4>1, <4>2, ZenonT(60)
    <3> QED BY <3>2 DEF e
  <2>2. <<>> \o pending = pending
    BY ConcatEmptySeq
  <2>3. Unread = a \o pending
    BY <2>2 DEF Unread
  <2> QED BY <1>7, <1>10, <2>1, <2>3
<1>14. with_fd => x.rem = <<>>
  BY <1>8, <1>10
<1> QED BY <1>10, <1>11, <1>12, <1>13, <1>14 DEF x, d

\* Before the first error a read that is long enough to see them brings along
\* the fds of the message that it reads.
LEMMA ReadFds ==
  ASSUME sent \in [Msgs -> Shapes], in \in Ins, AtRest(in), in.rem = <<>>, pending \in Seq(Bytes),
         NEW n \in 1 .. Len(pending), with_fd, n <= Needed(in), InStep, At \in Nat,
         Len(inFds \o FdsIn(n)) <= MaxFds
  PROVE  inFds \o FdsIn(n) = FdsOf(At)
<1> DEFINE m == At
<1> DEFINE a == in.buf
<1> DEFINE p == Len(a)
<1> DEFINE s == a \o pending
<1>1. a \in Seq(Bytes) /\ p \in Nat /\ Len(pending) \in Nat /\ n \in Nat /\ n >= 1
  BY LenProperties DEF Ins
<1>2. Unread = s
  <2>1. <<>> \o pending = pending
    BY ConcatEmptySeq
  <2> QED BY <2>1 DEF Unread
<1>3. /\ Contiguous(s) /\ StartsAt(s, m) /\ (in.stage # "header" => in.hdr = m)
      /\ inFds = IF a # <<>> THEN FdsOf(m) ELSE <<>>
  BY <1>2 DEF InStep, At
<1>4. /\ s \in Seq(Bytes) /\ Len(s) = p + Len(pending)
      /\ \A i \in 1 .. p + Len(pending) : s[i] = IF i <= p THEN a[i] ELSE pending[i - p]
  BY <1>1, ConcatProperties
<1> HIDE DEF s, m
<1>5. s # <<>> /\ s[1] = <<m, 1>>
  <2>1. Len(s) # 0
    BY <1>1, <1>4
  <2>2. s # <<>>
    BY <2>1, EmptySeq
  <2> QED BY <1>3, <2>2 DEF StartsAt
<1>6. m \in Msgs /\ \A k \in 1 .. Len(s) : k <= Total(m) => s[k] = <<m, k>>
  BY <1>3, <1>4, <1>5, Numbered
<1>7. p + n <= Total(m)
  <2>1. /\ Needed(in) \in Nat
        /\ \/ in.stage = "header" /\ p + Needed(in) <= HdrLen + 1
           \/ in.stage = "dynhdr" /\ p + Needed(in) <= HdrTotal(in.hdr)
           \/ in.stage = "finishing" /\ p + Needed(in) <= Total(in.hdr)
    BY NeededIs
  <2>2. /\ HdrLen + 1 <= HdrTotal(m) /\ HdrTotal(m) <= Total(m) /\ HdrLen = 2
        /\ HdrTotal(m) \in Nat /\ Total(m) \in Nat
    BY <1>6, Lengths DEF HdrLen
  <2> HIDE DEF p
  <2>3. p + Needed(in) <= Total(m)
    BY <1>1, <1>3, <2>1, <2>2
  <2> QED BY <1>1, <2>1, <2>2, <2>3
<1>8. \A i \in 1 .. n : pending[i] = <<m, p + i>>
  <2>1. SUFFICES ASSUME NEW i \in 1 .. n PROVE pending[i] = <<m, p + i>>
    OBVIOUS
  <2>2. Total(m) \in Nat
    BY <1>6, Lengths
  <2>3. p + i \in 1 .. p + Len(pending) /\ ~(p + i <= p) /\ (p + i) - p = i /\ p + i <= Total(m)
    BY <1>1, <1>7, <2>2
  <2>4. s[p + i] = pending[i] /\ s[p + i] = <<m, p + i>>
    BY <1>4, <1>6, <2>3
  <2> QED BY <2>4
<1>9. FdsIn(n) = ReceivedFds(IF p = 0 THEN FdsOf(m) ELSE <<>>)
  <2> HIDE DEF p
  <2> QED BY <1>1, <1>6, <1>8, FdsInOne
<1>10. FdsOf(m) \in Seq(Msgs) /\ <<>> \in Seq(Msgs) /\ Len(<<>>) = 0 /\ MaxFds \in Nat
  BY <1>6, FdsOfIs, EmptySeq, RecvAssumption
<1>11. CASE p = 0
  <2>1. a = <<>>
    BY <1>1, <1>11, EmptySeq
  <2>2. inFds = <<>> /\ FdsIn(n) = ReceivedFds(FdsOf(m))
    BY <1>3, <1>9, <1>11, <2>1
  <2>3. ReceivedFds(FdsOf(m)) \in Seq(Msgs)
    BY <1>10, ReceivedIs
  <2>4. inFds \o FdsIn(n) = ReceivedFds(FdsOf(m))
    BY <2>2, <2>3, ConcatEmptySeq
  <2>5. Len(ReceivedFds(FdsOf(m))) <= MaxFds
    BY <2>4
  <2>6. Len(FdsOf(m)) \in Nat /\ Len(ReceivedFds(FdsOf(m))) \in Nat
    BY <1>10, <2>3, LenProperties
  <2>7. Len(FdsOf(m)) <= MaxFds
    <3>1. Len(FdsOf(m)) > MaxFds => Len(ReceivedFds(FdsOf(m))) > MaxFds
      BY <1>10, ReceivedIs, Zenon
    <3> QED BY <1>10, <2>5, <2>6, <3>1
  <2>8. ReceivedFds(FdsOf(m)) = FdsOf(m)
    BY <1>10, <2>7, ReceivedIs
  <2> QED BY <2>4, <2>8 DEF m
<1>12. CASE p # 0
  <2>1. a # <<>>
    BY <1>1, <1>12, EmptySeq
  <2>2. inFds = FdsOf(m) /\ FdsIn(n) = ReceivedFds(<<>>)
    BY <1>3, <1>9, <1>12, <2>1
  <2>3. ReceivedFds(<<>>) = <<>>
    <3>1. Len(<<>>) <= MaxFds
      BY <1>10
    <3> QED BY <1>10, <3>1, ReceivedIs, Zenon
  <2>4. FdsOf(m) \o <<>> = FdsOf(m)
    BY <1>10, ConcatEmptySeq
  <2> QED BY <2>2, <2>3, <2>4 DEF m
<1> QED BY <1>11, <1>12

-----------------------------------------------------------------------------
(* The invariant                                                           *)

Returned == [msg : Msgs, bytes : Seq(Bytes), fds : Seq(Msgs)]

\* What was returned are the peer's first messages, each with its fds.
InOrder(d) ==
  /\ Len(d) <= N
  /\ \A i \in 1 .. Len(d) : /\ d[i].msg = i /\ WellFormed(i) /\ d[i].bytes = BytesOf(i)
                            /\ d[i].fds = IF with_fd THEN FdsOf(i) ELSE <<>>

\* The fds that belong to message m, as far as they have to be there when x is
\* what was read of it
FdsFor(x, m) == IF with_fd /\ x.buf # <<>> THEN FdsOf(m) ELSE <<>>

\* The invariant, as facts about the values of the variables
LEMMA InvParts ==
  ASSUME RecvInv
  PROVE  /\ sent \in [Msgs -> Shapes] /\ with_fd \in BOOLEAN /\ in \in Ins /\ inFds \in Seq(Msgs)
         /\ pc \in {"idle", "read"} /\ pending \in Seq(Bytes) /\ shut \in BOOLEAN
         /\ errs \subseteq {"parse", "body", "fds"} /\ delivered \in Seq(Returned)
         /\ AtRest(in) /\ (pc = "read" \/ with_fd => in.rem = <<>>)
         /\ errs \subseteq {"fds"} \/ shut
         /\ errs = {} => InStep /\ StreamIn(in, pending, At) /\ inFds = FdsFor(in, At)
         /\ errs = {} => InOrder(delivered)
         /\ Len(delivered) \in Nat /\ At \in Nat
<1>1. /\ sent \in [Msgs -> Shapes] /\ with_fd \in BOOLEAN /\ in \in Ins /\ inFds \in Seq(Msgs)
      /\ pc \in {"idle", "read"} /\ pending \in Seq(Bytes) /\ shut \in BOOLEAN
      /\ errs \subseteq {"parse", "body", "fds"} /\ delivered \in Seq(Returned)
  BY DEF RecvInv, RecvTypes, Ins, Returned
<1>2. AtRest(in) /\ (pc = "read" \/ with_fd => in.rem = <<>>) /\ (errs \subseteq {"fds"} \/ shut)
  BY DEF RecvInv
<1>3. errs = {} => InStep /\ StreamIn(in, pending, At) /\ inFds = FdsFor(in, At)
  BY DEF RecvInv, InStep, StreamIn, FdsFor, At, Unread
<1>4. errs = {} => InOrder(delivered)
  BY DEF RecvInv, WholeInOrder, InOrder
<1>5. Len(delivered) \in Nat /\ At \in Nat
  BY <1>1, LenProperties DEF At
<1> QED BY <1>1, <1>2, <1>3, <1>4, <1>5

\* The same facts about the new values are the new invariant: the messages that
\* the peer sends do not change.
LEMMA InvNext ==
  ASSUME sent \in [Msgs -> Shapes], with_fd \in BOOLEAN, UNCHANGED given,
         in' \in Ins, inFds' \in Seq(Msgs), pc' \in {"idle", "read"}, pending' \in Seq(Bytes),
         shut' \in BOOLEAN, errs' \subseteq {"parse", "body", "fds"},
         delivered' \in Seq(Returned), AtRest(in'),
         pc' = "read" \/ with_fd => in'.rem = <<>>, errs' \subseteq {"fds"} \/ shut',
         errs' = {} => /\ StreamIn(in', pending', Len(delivered') + 1)
                       /\ inFds' = FdsFor(in', Len(delivered') + 1)
                       /\ InOrder(delivered')
  PROVE  RecvInv'
<1>1. sent' = sent /\ with_fd' = with_fd
  BY DEF given
<1>2. \A m : Total(m)' = Total(m) /\ HdrTotal(m)' = HdrTotal(m) /\ FdsOf(m)' = FdsOf(m)
             /\ BytesOf(m)' = BytesOf(m)
  BY <1>1 DEF Total, HdrTotal, FdsOf, BytesOf
<1>3. Bytes' = Bytes
  BY <1>1, <1>2 DEF Bytes
<1>4. RecvTypes'
  BY <1>1, <1>3 DEF RecvTypes, Ins, Returned
<1>5. AtRest(in)'
  BY <1>2 DEF AtRest
<1>6. (pc = "read" \/ with_fd => in.rem = <<>>)' /\ (errs' \subseteq {"fds"} \/ shut')
  BY <1>1
<1>7. errs' = {} => InStep'
  <2>1. SUFFICES ASSUME errs' = {} PROVE InStep'
    OBVIOUS
  <2> DEFINE m == Len(delivered) + 1
  <2>2. StreamIn(in', pending', m') /\ inFds' = FdsFor(in', m')
    BY <2>1
  <2>3. Contiguous(Unread)' /\ StartsAt(Unread', m') /\ Complete(Unread, m)'
    <3>1. Contiguous(Unread') /\ StartsAt(Unread', m') /\ Complete(Unread', m')
      BY <2>2 DEF StreamIn, Unread
    <3> HIDE DEF m
    <3>2. Contiguous(Unread)'
      BY <1>2, <3>1 DEF Contiguous, Follows
    <3>3. Complete(Unread, m)'
      BY <1>2, <3>1 DEF Complete
    <3> QED BY <3>1, <3>2, <3>3
  <2>4. in'.stage # "header" => in'.hdr = m' /\ Passed(in.stage, m)'
    BY <1>1, <2>2 DEF StreamIn, Passed
  <2>5. inFds' = IF with_fd' /\ in'.buf # <<>> THEN FdsOf(m)' ELSE <<>>
    BY <1>1, <2>2 DEF FdsFor, FdsOf
  <2> QED BY <2>3, <2>4, <2>5 DEF InStep, StartsAt
<1>8. WholeInOrder'
  BY <1>1, <1>2 DEF WholeInOrder, InOrder, WellFormed
<1> QED BY <1>4, <1>5, <1>6, <1>7, <1>8 DEF RecvInv

\* An error is returned: before it nothing has to hold of what follows.
LEMMA FailStep ==
  ASSUME RecvInv, NEW e \in {"parse", "body", "fds"}, Fail(e), UNCHANGED given,
         NEW r \in Seq(Bytes), in' = Fresh(r), with_fd => r = <<>>,
         inFds' \in Seq(Msgs), pending' \in Seq(Bytes)
  PROVE  RecvInv'
<1>1. /\ sent \in [Msgs -> Shapes] /\ with_fd \in BOOLEAN /\ shut \in BOOLEAN
      /\ errs \subseteq {"parse", "body", "fds"} /\ delivered \in Seq(Returned)
      /\ errs \subseteq {"fds"} \/ shut
  BY InvParts
<1>2. /\ errs' = errs \cup {e} /\ shut' = (shut \/ e \in {"parse", "body"}) /\ pc' = "idle"
      /\ delivered' = delivered
  BY DEF Fail
<1>3. in' \in Ins /\ AtRest(in') /\ in'.rem = r
  BY FreshIs
<1>4. shut' \in BOOLEAN /\ errs' \subseteq {"parse", "body", "fds"} /\ errs' # {}
  BY <1>1, <1>2
<1>5. errs' \subseteq {"fds"} \/ shut'
  BY <1>1, <1>2
<1>6. /\ pc' \in {"idle", "read"} /\ (pc' = "read" \/ with_fd => in'.rem = <<>>)
      /\ delivered' \in Seq(Returned)
  BY <1>1, <1>2, <1>3
<1> QED BY <1>1, <1>3, <1>4, <1>5, <1>6, InvNext

\* Nothing is returned yet: everything there is is in the buffer.
LEMMA NoneStep ==
  ASSUME RecvInv, UNCHANGED <<given, shut, errs, delivered>>, NEW x \in Ins, Readable(x),
         NEW g \in Msgs \cup {None}, in' = TryGetMsg(x, g).in, TryGetMsg(x, g).res = "none",
         pc' \in {"idle", "read"}, inFds' \in Seq(Msgs), pending' \in Seq(Bytes),
         errs = {} => StreamIn(x, pending', At) /\ inFds' = FdsFor(in', At)
  PROVE  RecvInv'
<1>1. /\ sent \in [Msgs -> Shapes] /\ with_fd \in BOOLEAN /\ shut \in BOOLEAN
      /\ errs \subseteq {"parse", "body", "fds"} /\ delivered \in Seq(Returned)
      /\ (errs \subseteq {"fds"} \/ shut) /\ (errs = {} => InOrder(delivered))
  BY InvParts
<1>2. in' \in Ins /\ AtRest(in') /\ in'.rem = <<>>
  <2>1. Outcome(TryGetMsg(x, g), x)
    BY <1>1, TryIs
  <2>2. NoneYet(TryGetMsg(x, g), x)
    BY <2>1 DEF Outcome, ParseError, Whole
  <2> QED BY <2>2 DEF NoneYet
<1>3. errs = {} => StreamIn(in', pending', At)
  BY <1>1, TryStream
<1>4. shut' = shut /\ errs' = errs /\ delivered' = delivered /\ UNCHANGED given
  OBVIOUS
<1>5. errs' = {} => /\ StreamIn(in', pending', Len(delivered') + 1)
                    /\ inFds' = FdsFor(in', Len(delivered') + 1) /\ InOrder(delivered')
  BY <1>1, <1>3, <1>4 DEF At
<1>6. pc' = "read" \/ with_fd => in'.rem = <<>>
  BY <1>2
<1>7. shut' \in BOOLEAN /\ errs' \subseteq {"parse", "body", "fds"} /\ delivered' \in Seq(Returned)
      /\ (errs' \subseteq {"fds"} \/ shut')
  BY <1>1, <1>4
<1> QED BY <1>1, <1>2, <1>4, <1>5, <1>6, <1>7, InvNext

\* One more message in its place
LEMMA OneMore ==
  ASSUME delivered \in Seq(Returned), InOrder(delivered), NEW r \in Returned, At \in Msgs,
         r.msg = At, WellFormed(At), r.bytes = BytesOf(At),
         r.fds = IF with_fd THEN FdsOf(At) ELSE <<>>
  PROVE  InOrder(Append(delivered, r)) /\ Len(Append(delivered, r)) = At
<1> DEFINE d == Append(delivered, r)
<1>1. Len(delivered) \in Nat /\ At = Len(delivered) + 1 /\ N \in Nat
  BY LenProperties, RecvAssumption DEF At
<1>2. /\ Len(d) = At /\ d[At] = r
      /\ \A i \in 1 .. Len(delivered) : d[i] = delivered[i]
  BY <1>1, AppendProperties
<1> HIDE DEF d
<1>3. Len(d) <= N
  BY <1>1, <1>2 DEF Msgs
<1>4. ASSUME NEW i \in 1 .. Len(d)
      PROVE  /\ d[i].msg = i /\ WellFormed(i) /\ d[i].bytes = BytesOf(i)
             /\ d[i].fds = IF with_fd THEN FdsOf(i) ELSE <<>>
  <2>1. i = At \/ i \in 1 .. Len(delivered)
    BY <1>1, <1>2
  <2>2. CASE i = At
    BY <1>2, <2>2
  <2>3. CASE i \in 1 .. Len(delivered)
    BY <1>2, <2>3 DEF InOrder
  <2> QED BY <2>1, <2>2, <2>3
<1>5. InOrder(d)
  BY <1>3, <1>4 DEF InOrder
<1> QED BY <1>2, <1>5 DEF d

\* A whole message is returned, or its body is bad.
LEMMA DeliverStep ==
  ASSUME RecvInv, UNCHANGED given, NEW x \in Ins, Readable(x), with_fd => x.rem = <<>>,
         NEW g \in Msgs \cup {None}, in' = TryGetMsg(x, g).in, TryGetMsg(x, g).res = "msg",
         NEW fds \in Seq(Msgs), Deliver(TryGetMsg(x, g), fds), inFds' \in Seq(Msgs),
         pending' \in Seq(Bytes),
         errs = {} => /\ StreamIn(x, pending', At) /\ inFds' = <<>>
                      /\ fds = IF with_fd THEN FdsOf(At) ELSE <<>>
  PROVE  RecvInv'
<1> DEFINE t == TryGetMsg(x, g)
<1>1. /\ sent \in [Msgs -> Shapes] /\ with_fd \in BOOLEAN /\ shut \in BOOLEAN
      /\ errs \subseteq {"parse", "body", "fds"} /\ delivered \in Seq(Returned)
      /\ (errs \subseteq {"fds"} \/ shut) /\ (errs = {} => InOrder(delivered))
  BY InvParts
<1>2. Whole(t, x)
  <2>1. Outcome(t, x)
    BY <1>1, TryIs
  <2> QED BY <2>1 DEF Outcome, NoneYet, ParseError
<1>3. /\ t.msg \in Msgs /\ t.bytes \in Seq(Bytes) /\ t.in.rem \in Seq(Bytes)
      /\ t.in = Fresh(t.in.rem) /\ (with_fd => t.in.rem = <<>>)
  BY <1>2 DEF Whole
<1>4. errs = {} => /\ t.msg = At /\ At \in Msgs /\ Passed("finishing", At)
                   /\ t.bytes = BytesOf(At) /\ StreamIn(t.in, pending', At + 1)
  BY <1>1, TryStream
<1>5. CASE sent[t.msg].kind = "bad_body"
  <2>1. Fail("body")
    BY <1>5 DEF Deliver
  <2> HIDE DEF t
  <2> DEFINE r == t.in.rem
  <2>2. r \in Seq(Bytes) /\ in' = Fresh(r) /\ (with_fd => r = <<>>)
    BY <1>3 DEF t
  <2> HIDE DEF r
  <2> QED BY <2>1, <2>2, FailStep
<1>6. CASE sent[t.msg].kind # "bad_body"
  <2> DEFINE r == [msg |-> t.msg, bytes |-> t.bytes, fds |-> fds]
  <2>1. delivered' = Append(delivered, r) /\ pc' = "idle" /\ shut' = shut /\ errs' = errs
    BY <1>6 DEF Deliver
  <2>2. in' = t.in
    OBVIOUS
  <2> HIDE DEF t
  <2>3. r \in Returned /\ r.msg = t.msg /\ r.bytes = t.bytes /\ r.fds = fds
    BY <1>3 DEF Returned
  <2> HIDE DEF r
  <2>4. delivered' \in Seq(Returned)
    BY <1>1, <2>1, <2>3, AppendProperties
  <2>5. in' \in Ins /\ AtRest(in') /\ in'.buf = <<>> /\ (with_fd => in'.rem = <<>>)
    BY <1>3, <2>2, FreshIs
  <2>6. errs = {} => InOrder(delivered') /\ Len(delivered') = At
    <3>1. SUFFICES ASSUME errs = {} PROVE InOrder(delivered') /\ Len(delivered') = At
      OBVIOUS
    <3>2. t.msg = At /\ At \in Msgs /\ Passed("finishing", At) /\ t.bytes = BytesOf(At)
      BY <1>4, <3>1
    <3>3. WellFormed(At)
      <4>1. sent[At].kind \in {"good", "bad_header", "bad_fields", "bad_body"}
        BY <1>1, <3>2, Lengths
      <4> QED BY <1>6, <3>2, <4>1 DEF Passed, WellFormed
    <3>4. r.msg = At /\ r.bytes = BytesOf(At) /\ r.fds = IF with_fd THEN FdsOf(At) ELSE <<>>
      BY <2>3, <3>1, <3>2
    <3> QED BY <1>1, <2>1, <2>3, <3>1, <3>2, <3>3, <3>4, OneMore
  <2>7. errs' = {} => /\ StreamIn(in', pending', Len(delivered') + 1)
                      /\ inFds' = FdsFor(in', Len(delivered') + 1) /\ InOrder(delivered')
    BY <1>4, <2>1, <2>2, <2>5, <2>6 DEF FdsFor
  <2>8. /\ shut' \in BOOLEAN /\ errs' \subseteq {"parse", "body", "fds"}
        /\ errs' \subseteq {"fds"} \/ shut'
        /\ pc' \in {"idle", "read"} /\ (pc' = "read" \/ with_fd => in'.rem = <<>>)
    BY <1>1, <2>1, <2>5
  <2> QED BY <1>1, <2>4, <2>5, <2>7, <2>8, InvNext
<1> QED BY <1>5, <1>6

\* Before the first error a message that comes with its fds is never complete
\* before the read that brings them.
LEMMA NotYetWhole ==
  ASSUME RecvInv, errs = {}, with_fd, NEW g \in Msgs \cup {None}
  PROVE  TryGetMsg(in, g).res # "msg"
<1> DEFINE t == TryGetMsg(in, g)
<1>1. SUFFICES ASSUME t.res = "msg" PROVE FALSE
  OBVIOUS
<1>2. /\ sent \in [Msgs -> Shapes] /\ in \in Ins /\ AtRest(in) /\ in.rem = <<>>
      /\ pending \in Seq(Bytes) /\ StreamIn(in, pending, At)
  BY InvParts
<1>3. Readable(in)
  BY <1>2, RestReadable
<1>4. Outcome(t, in) /\ t.msg = At /\ At \in Msgs
  BY <1>1, <1>2, <1>3, TryIs, TryStream
<1>5. Len(t.bytes) = Total(At) /\ t.bytes \o t.in.rem = in.buf \o in.rem /\ t.in.rem = <<>>
      /\ t.bytes \in Seq(Bytes)
  BY <1>1, <1>2, <1>4 DEF Outcome, NoneYet, ParseError, Whole
<1> HIDE DEF t
<1>6. Len(in.buf) = Total(At) /\ Len(in.buf) \in Nat
  <2> DEFINE a == t.bytes
  <2> DEFINE b == in.buf
  <2>1. a \in Seq(Bytes) /\ b \in Seq(Bytes) /\ a \o <<>> = b \o <<>> /\ Len(a) = Total(At)
    BY <1>2, <1>5 DEF Ins
  <2> HIDE DEF a, b
  <2>2. a = b /\ Len(b) \in Nat
    BY <2>1, ConcatEmptySeq, LenProperties
  <2> QED BY <2>1, <2>2 DEF a, b
<1>7. /\ HdrLen + 1 <= HdrTotal(At) /\ HdrTotal(At) <= Total(At) /\ HdrLen = 2
      /\ HdrTotal(At) \in Nat /\ Total(At) \in Nat
  BY <1>2, <1>4, Lengths DEF HdrLen
<1>8. in.stage # "header" => in.hdr = At
  BY <1>2 DEF StreamIn
<1> QED BY <1>2, <1>6, <1>7, <1>8 DEF AtRest

\* The call begins with what an earlier read left over.
LEMMA CallStep ==
  ASSUME RecvInv, Call
  PROVE  RecvInv'
<1>1. /\ sent \in [Msgs -> Shapes] /\ with_fd \in BOOLEAN /\ in \in Ins /\ inFds \in Seq(Msgs)
      /\ pending \in Seq(Bytes) /\ AtRest(in) /\ (with_fd => in.rem = <<>>)
      /\ errs = {} => StreamIn(in, pending, At) /\ inFds = FdsFor(in, At)
  BY InvParts
<1>2. Readable(in)
  BY <1>1, RestReadable
<1>3. PICK g \in Msgs \cup {None} :
        /\ in' = TryGetMsg(in, g).in
        /\ \/ /\ TryGetMsg(in, g).res = "none" /\ pc' = "read"
              /\ UNCHANGED <<inFds, shut, errs, delivered>>
           \/ TryGetMsg(in, g).res = "parse" /\ inFds' = <<>> /\ Fail("parse")
           \/ /\ TryGetMsg(in, g).res = "msg" /\ Deliver(TryGetMsg(in, g), <<>>)
              /\ UNCHANGED inFds
  BY DEF Call
<1> DEFINE t == TryGetMsg(in, g)
<1>4. UNCHANGED given /\ pending' = pending /\ pending' \in Seq(Bytes) /\ <<>> \in Seq(Msgs)
  BY <1>1, EmptySeq DEF Call
<1>5. Outcome(t, in)
  BY <1>1, <1>2, TryIs
<1>6. CASE t.res = "none" /\ pc' = "read" /\ UNCHANGED <<inFds, shut, errs, delivered>>
  <2>1. errs = {} => StreamIn(in, pending', At) /\ inFds' = FdsFor(in', At)
    <3>1. SUFFICES ASSUME errs = {}
                   PROVE  StreamIn(in, pending', At) /\ inFds' = FdsFor(in', At)
      OBVIOUS
    <3>2. in'.buf = in.buf \o in.rem
      BY <1>3, <1>5, <1>6 DEF Outcome, NoneYet, ParseError, Whole
    <3>3. with_fd => in'.buf = in.buf
      <4> DEFINE a == in.buf
      <4>1. a \in Seq(Bytes)
        BY <1>1 DEF Ins
      <4> HIDE DEF a
      <4>2. a \o <<>> = a
        BY <4>1, ConcatEmptySeq
      <4> QED BY <1>1, <3>2, <4>2 DEF a
    <3>4. FdsFor(in', At) = FdsFor(in, At)
      BY <3>3 DEF FdsFor
    <3> QED BY <1>1, <1>4, <1>6, <3>1, <3>4
  <2>2. inFds' \in Seq(Msgs) /\ pc' \in {"idle", "read"}
    BY <1>1, <1>6
  <2>3. UNCHANGED <<given, shut, errs, delivered>>
    BY <1>4, <1>6
  <2> QED BY <1>1, <1>2, <1>3, <1>4, <1>6, <2>1, <2>2, <2>3, NoneStep
<1>7. CASE t.res = "parse" /\ inFds' = <<>> /\ Fail("parse")
  <2> DEFINE r == t.in.rem
  <2>1. r \in Seq(Bytes) /\ in' = Fresh(r) /\ (with_fd => r = <<>>)
    BY <1>1, <1>3, <1>5, <1>7 DEF Outcome, NoneYet, ParseError, Whole
  <2> HIDE DEF r, t
  <2> QED BY <1>4, <1>7, <2>1, FailStep
<1>8. CASE t.res = "msg" /\ Deliver(t, <<>>) /\ UNCHANGED inFds
  <2>1. errs = {} => ~with_fd
    BY <1>8, NotYetWhole
  <2>2. errs = {} => /\ StreamIn(in, pending', At) /\ inFds' = <<>>
                     /\ <<>> = IF with_fd THEN FdsOf(At) ELSE <<>>
    BY <1>1, <1>4, <1>8, <2>1 DEF FdsFor
  <2>3. inFds' \in Seq(Msgs)
    BY <1>1, <1>8
  <2> QED BY <1>1, <1>2, <1>3, <1>4, <1>8, <2>2, <2>3, DeliverStep
<1> QED BY <1>3, <1>6, <1>7, <1>8

\* n bytes arrive.
LEMMA ReadStep ==
  ASSUME RecvInv, Read
  PROVE  RecvInv'
<1>1. /\ sent \in [Msgs -> Shapes] /\ with_fd \in BOOLEAN /\ in \in Ins /\ inFds \in Seq(Msgs)
      /\ pending \in Seq(Bytes) /\ AtRest(in) /\ pc = "read" /\ in.rem = <<>> /\ At \in Nat
      /\ errs = {} => InStep /\ StreamIn(in, pending, At) /\ inFds = FdsFor(in, At)
  BY InvParts DEF Read
<1>2. PICK n \in 1 .. (IF with_fd THEN Needed(in) ELSE Needed(in) + RemCap),
           g \in Msgs \cup {None} :
        /\ n <= Len(pending)
        /\ pending' = SubSeq(pending, n + 1, Len(pending))
        /\ LET fds == IF with_fd THEN inFds \o FdsIn(n) ELSE inFds
               t == TryGetMsg(Fed(n), g) IN
           \/ /\ Len(fds) > MaxFds
              /\ in' = Fresh(Fed(n).rem) /\ inFds' = <<>>
              /\ Fail("fds")
           \/ /\ Len(fds) <= MaxFds
              /\ in' = t.in
              /\ \/ /\ t.res = "none" /\ inFds' = fds
                    /\ UNCHANGED <<pc, shut, errs, delivered>>
                 \/ t.res = "parse" /\ inFds' = <<>> /\ Fail("parse")
                 \/ t.res = "msg" /\ ~FdsFit(fds, t.msg) /\ inFds' = <<>> /\ Fail("fds")
                 \/ t.res = "msg" /\ FdsFit(fds, t.msg) /\ inFds' = <<>> /\ Deliver(t, fds)
  BY DEF Read
<1> DEFINE fds == IF with_fd THEN inFds \o FdsIn(n) ELSE inFds
<1> DEFINE x == Fed(n)
<1> DEFINE t == TryGetMsg(x, g)
<1>3. n \in 1 .. Len(pending) /\ (with_fd => n <= Needed(in))
  <2>1. Needed(in) \in Nat
    BY <1>1, NeededIs
  <2>2. n \in Int /\ n >= 1
    BY <1>2, <2>1, RecvAssumption
  <2>3. Len(pending) \in Nat
    BY <1>1, LenProperties
  <2>4. with_fd => n <= Needed(in)
    BY <1>2, <2>1
  <2> QED BY <1>2, <2>2, <2>3, <2>4
<1>4. /\ x \in Ins /\ Readable(x) /\ x.stage = in.stage /\ x.hdr = in.hdr /\ x.buf # <<>>
      /\ x.buf \o (x.rem \o pending') = Unread /\ (with_fd => x.rem = <<>>)
  BY <1>1, <1>2, <1>3, FedIs
<1>5. pending' \in Seq(Bytes)
  <2>1. n \in 0 .. Len(pending)
    BY <1>3
  <2> QED BY <1>1, <1>2, <2>1, Cut
<1>6. fds \in Seq(Msgs) /\ <<>> \in Seq(Msgs)
  BY <1>1, <1>3, FdsInType, ConcatProperties, EmptySeq
<1>7. UNCHANGED given
  BY DEF Read
<1>8. errs = {} => StreamIn(x, pending', At)
  <2>1. SUFFICES ASSUME errs = {} PROVE StreamIn(x, pending', At)
    OBVIOUS
  <2>2. InStep
    BY <1>1, <2>1
  <2> HIDE DEF x
  <2> QED BY <1>4, <2>2 DEF InStep, StreamIn, At
<1>9. errs = {} /\ Len(fds) <= MaxFds => fds = IF with_fd THEN FdsOf(At) ELSE <<>>
  <2>1. SUFFICES ASSUME errs = {}, Len(fds) <= MaxFds
                 PROVE  fds = IF with_fd THEN FdsOf(At) ELSE <<>>
    OBVIOUS
  <2>2. CASE with_fd
    BY <1>1, <1>3, <2>1, <2>2, ReadFds
  <2>3. CASE ~with_fd
    BY <1>1, <2>1, <2>3 DEF FdsFor
  <2> QED BY <2>2, <2>3
<1>10. Outcome(t, x)
  BY <1>1, <1>4, TryIs
<1>11. CASE Len(fds) > MaxFds /\ in' = Fresh(x.rem) /\ inFds' = <<>> /\ Fail("fds")
  <2> DEFINE r == x.rem
  <2>1. r \in Seq(Bytes) /\ in' = Fresh(r) /\ (with_fd => r = <<>>)
    BY <1>4, <1>11 DEF Ins
  <2> HIDE DEF r, x, t, fds
  <2> QED BY <1>5, <1>6, <1>7, <1>11, <2>1, FailStep
<1> HIDE DEF x, fds
<1>12. CASE /\ Len(fds) <= MaxFds /\ in' = t.in /\ t.res = "none" /\ inFds' = fds
            /\ UNCHANGED <<pc, shut, errs, delivered>>
  <2>1. errs = {} => StreamIn(x, pending', At) /\ inFds' = FdsFor(in', At)
    <3>1. SUFFICES ASSUME errs = {} PROVE inFds' = FdsFor(in', At)
      BY <1>8
    <3>2. in'.buf = x.buf \o x.rem
      BY <1>10, <1>12 DEF Outcome, NoneYet, ParseError, Whole
    <3>3. in'.buf # <<>>
      BY <1>4, <3>2, ConcatEqualIffEmpty DEF Ins
    <3> QED BY <1>9, <1>12, <3>1, <3>3 DEF FdsFor
  <2>2. inFds' \in Seq(Msgs) /\ pc' \in {"idle", "read"}
    BY <1>1, <1>6, <1>12
  <2>3. UNCHANGED <<given, shut, errs, delivered>>
    BY <1>7, <1>12
  <2> QED BY <1>4, <1>5, <1>12, <2>1, <2>2, <2>3, NoneStep
<1>13. CASE in' = t.in /\ t.res = "parse" /\ inFds' = <<>> /\ Fail("parse")
  <2> DEFINE r == t.in.rem
  <2>1. r \in Seq(Bytes) /\ in' = Fresh(r) /\ (with_fd => r = <<>>)
    BY <1>4, <1>10, <1>13 DEF Outcome, NoneYet, ParseError, Whole
  <2> HIDE DEF r, t
  <2> QED BY <1>5, <1>6, <1>7, <1>13, <2>1, FailStep
<1>14. CASE in' = t.in /\ t.res = "msg" /\ inFds' = <<>> /\ Fail("fds")
  <2> DEFINE r == t.in.rem
  <2>1. r \in Seq(Bytes) /\ in' = Fresh(r) /\ (with_fd => r = <<>>)
    BY <1>4, <1>10, <1>14 DEF Outcome, NoneYet, ParseError, Whole
  <2> HIDE DEF r, t
  <2> QED BY <1>5, <1>6, <1>7, <1>14, <2>1, FailStep
<1>15. CASE /\ Len(fds) <= MaxFds /\ in' = t.in /\ t.res = "msg" /\ inFds' = <<>>
            /\ Deliver(t, fds)
  <2>1. errs = {} => /\ StreamIn(x, pending', At) /\ inFds' = <<>>
                     /\ fds = IF with_fd THEN FdsOf(At) ELSE <<>>
    BY <1>8, <1>9, <1>15
  <2> QED BY <1>4, <1>5, <1>6, <1>7, <1>15, <2>1, DeliverStep
<1> QED BY <1>2, <1>11, <1>12, <1>13, <1>14, <1>15 DEF x, fds

\* The call returns without a message; nothing changes.
LEMMA WouldBlockStep ==
  ASSUME RecvInv, WouldBlock \/ UNCHANGED vars
  PROVE  RecvInv'
<1>1. /\ sent \in [Msgs -> Shapes] /\ with_fd \in BOOLEAN /\ in \in Ins /\ inFds \in Seq(Msgs)
      /\ pc \in {"idle", "read"} /\ pending \in Seq(Bytes) /\ shut \in BOOLEAN
      /\ errs \subseteq {"parse", "body", "fds"} /\ delivered \in Seq(Returned)
      /\ AtRest(in) /\ (pc = "read" \/ with_fd => in.rem = <<>>)
      /\ errs \subseteq {"fds"} \/ shut
      /\ errs = {} => /\ StreamIn(in, pending, At) /\ inFds = FdsFor(in, At)
                      /\ InOrder(delivered)
  BY InvParts
<1>2. /\ UNCHANGED given /\ in' = in /\ inFds' = inFds /\ pending' = pending /\ shut' = shut
      /\ errs' = errs /\ delivered' = delivered
      /\ pc' \in {"idle", "read"} /\ (pc' = "read" => pc = "read")
  BY <1>1 DEF WouldBlock, vars
<1>3. errs' = {} => /\ StreamIn(in', pending', Len(delivered') + 1)
                    /\ inFds' = FdsFor(in', Len(delivered') + 1) /\ InOrder(delivered')
  BY <1>1, <1>2 DEF At
<1>4. /\ in' \in Ins /\ inFds' \in Seq(Msgs) /\ pending' \in Seq(Bytes) /\ shut' \in BOOLEAN
      /\ errs' \subseteq {"parse", "body", "fds"} /\ delivered' \in Seq(Returned) /\ AtRest(in')
      /\ (pc' = "read" \/ with_fd => in'.rem = <<>>) /\ (errs' \subseteq {"fds"} \/ shut')
  BY <1>1, <1>2
<1> QED BY <1>1, <1>2, <1>3, <1>4, InvNext

\* At first the whole stream is pending.
LEMMA InitInv ==
  ASSUME Init
  PROVE  RecvInv
<1>1. /\ sent \in [Msgs -> Shapes] /\ with_fd \in BOOLEAN /\ in = Fresh(<<>>) /\ inFds = <<>>
      /\ pc = "idle" /\ pending = FlattenSeq([m \in Msgs |-> BytesOf(m)])
      /\ shut = FALSE /\ errs = {} /\ delivered = <<>>
  BY DEF Init
<1>2. /\ pending \in Seq(Bytes) /\ Contiguous(pending) /\ StartsAt(pending, 1)
      /\ Complete(pending, 1)
  BY <1>1, SentStream
<1>3. /\ <<>> \in Seq(Bytes) /\ <<>> \in Seq(Msgs) /\ <<>> \in Seq(Returned) /\ Len(<<>>) = 0
      /\ N \in Nat
  BY EmptySeq, RecvAssumption
<1>4. in \in Ins /\ AtRest(in) /\ in.rem = <<>> /\ in.buf = <<>> /\ in.stage = "header"
  BY <1>1, <1>3, FreshIs
<1>5. Unread = pending
  <2>1. <<>> \o pending = pending
    BY <1>2, ConcatEmptySeq
  <2> QED BY <1>4, <2>1 DEF Unread
<1>6. InStep
  BY <1>1, <1>2, <1>3, <1>4, <1>5 DEF InStep
<1>7. WholeInOrder
  <2>1. Len(delivered) = 0 /\ 1 .. 0 = {}
    BY <1>1, <1>3
  <2> QED BY <1>3, <2>1 DEF WholeInOrder
<1>8. RecvTypes
  BY <1>1, <1>2, <1>3, <1>4 DEF RecvTypes, Ins, Returned
<1>9. errs \subseteq {"fds"} \/ shut
  BY <1>1
<1> QED BY <1>4, <1>6, <1>7, <1>8, <1>9 DEF RecvInv

\* get_next_message keeps its invariant, however the stream is cut into reads.
THEOREM RecvInvariant == Spec => []RecvInv
<1>1. Init => RecvInv
  BY InitInv
<1>2. RecvInv /\ [Next]_vars => RecvInv'
  <2>1. SUFFICES ASSUME RecvInv, [Next]_vars PROVE RecvInv'
    OBVIOUS
  <2>2. CASE Call
    BY <2>1, <2>2, CallStep
  <2>3. CASE Read
    BY <2>1, <2>3, ReadStep
  <2>4. CASE WouldBlock \/ UNCHANGED vars
    BY <2>1, <2>4, WouldBlockStep
  <2> QED BY <2>1, <2>2, <2>3, <2>4 DEF Next
<1> QED BY <1>1, <1>2, PTL DEF Spec

\* The debug_asserts at recv.rs:196 and 202 hold, also after an error: before a
\* recvmsg nothing that was read ahead is left over, and something is needed.
THEOREM AlwaysNothingLeftOver == Spec => []NothingLeftOver
<1>1. RecvInv => NothingLeftOver
  <2>1. SUFFICES ASSUME RecvInv, pc = "read" PROVE in.rem = <<>> /\ Needed(in) > 0
    BY DEF NothingLeftOver
  <2>2. sent \in [Msgs -> Shapes] /\ in \in Ins /\ AtRest(in) /\ in.rem = <<>>
    BY <2>1, InvParts
  <2> QED BY <2>2, NeededIs
<1> QED BY <1>1, RecvInvariant, PTL

\* Until its first error get_next_message returns the peer's messages whole, in
\* order, well-formed and each with its own fds.
THEOREM AlwaysWholeInOrder == Spec => []WholeInOrder
<1>1. RecvInv => WholeInOrder
  BY DEF RecvInv
<1> QED BY <1>1, RecvInvariant, PTL

\* Before the first error the byte that shows what is wrong with a message is not
\* yet parsed.
LEMMA FlawAhead ==
  ASSUME RecvInv, errs = {}, NEW m \in Msgs, Flaw(m) # 0
  PROVE  <<m, Flaw(m)>> \in ToSet(in.rem \o pending)
<1> DEFINE a == in.buf
<1> DEFINE b == in.rem \o pending
<1>1. /\ sent \in [Msgs -> Shapes] /\ in \in Ins /\ pending \in Seq(Bytes) /\ AtRest(in)
      /\ StreamIn(in, pending, At) /\ InOrder(delivered) /\ At \in Nat /\ At = Len(delivered) + 1
      /\ Len(delivered) \in Nat
  BY InvParts DEF At
<1>2. N \in Nat /\ m \in 1 .. N
  BY RecvAssumption DEF Msgs
<1>3. m \in At .. N
  <2>1. SUFFICES ASSUME m < At PROVE FALSE
    BY <1>1, <1>2
  <2>2. m \in 1 .. Len(delivered)
    BY <1>1, <1>2, <2>1
  <2>3. WellFormed(m)
    BY <1>1, <2>2 DEF InOrder
  <2> QED BY <2>3 DEF WellFormed, Flaw
<1>4. /\ HdrLen = 2 /\ HdrLen + 1 <= HdrTotal(m) /\ HdrTotal(m) <= Total(m)
      /\ HdrTotal(m) \in Nat /\ Total(m) \in Nat
  BY <1>1, Lengths DEF HdrLen
<1>5. Flaw(m) \in 1 .. Total(m)
  BY <1>4 DEF Flaw
<1>6. a \in Seq(Bytes) /\ b \in Seq(Bytes) /\ Len(a) \in Nat /\ Len(b) \in Nat
  <2>1. in.buf \in Seq(Bytes) /\ in.rem \in Seq(Bytes)
    BY <1>1 DEF Ins
  <2> QED BY <1>1, <2>1, ConcatProperties, LenProperties
<1>7. Contiguous(a \o b) /\ StartsAt(a \o b, At) /\ Complete(a \o b, At)
  BY <1>1 DEF StreamIn
<1>8. ASSUME in.stage # "header" PROVE in.hdr = At /\ Passed(in.stage, At)
  BY <1>1, <1>8 DEF StreamIn
<1> DEFINE l == Len(a)
<1>9. AtRest(in) => \/ in.stage = "header" /\ l < HdrLen
                    \/ in.stage = "dynhdr" /\ in.hdr \in Msgs /\ l < HdrTotal(in.hdr)
                    \/ in.stage = "finishing" /\ in.hdr \in Msgs /\ l < Total(in.hdr)
  BY DEF AtRest
<1> HIDE DEF a, b, l
<1> DEFINE s == a \o b
<1>10. /\ s \in Seq(Bytes) /\ Len(s) = l + Len(b)
       /\ \A i \in 1 .. l + Len(b) : s[i] = IF i <= l THEN a[i] ELSE b[i - l]
  BY <1>6, ConcatProperties DEF l
<1> HIDE DEF s
<1>11. PICK i \in 1 .. Len(s) : s[i] = <<m, Flaw(m)>>
  BY <1>3, <1>5, <1>7 DEF Complete, s
<1>12. l \in Nat /\ Len(b) \in Nat
  BY <1>6 DEF l
<1>13. CASE ~(i <= l)
  <2>1. i - l \in 1 .. Len(b) /\ b[i - l] = <<m, Flaw(m)>>
    BY <1>10, <1>11, <1>12, <1>13
  <2>2. <<m, Flaw(m)>> \in ToSet(b)
    <3>1. i - l \in DOMAIN b
      BY <1>6, <2>1, LenProperties
    <3> DEFINE e == <<m, Flaw(m)>>
    <3>2. b[i - l] = e
      BY <2>1
    <3> HIDE DEF e
    <3>3. e \in ToSet(b)
      BY <3>1, <3>2 DEF ToSet
    <3> QED BY <3>3 DEF e
  <2> QED BY <2>2 DEF b
<1>14. CASE i <= l
  <2>1. s # <<>> /\ s[1] = <<At, 1>>
    <3>1. s # <<>>
      BY <1>10, <1>11, EmptySeq
    <3> QED BY <1>7, <3>1 DEF StartsAt, s
  <2>2. At \in Msgs /\ \A k \in 1 .. Len(s) : k <= Total(At) => s[k] = <<At, k>>
    BY <1>1, <1>7, <1>10, <2>1, Numbered DEF s
  <2>3. /\ HdrLen = 2 /\ HdrLen + 1 <= HdrTotal(At) /\ HdrTotal(At) <= Total(At)
        /\ HdrTotal(At) \in Nat /\ Total(At) \in Nat
    BY <1>1, <2>2, Lengths DEF HdrLen
  <2>4. l < Total(At)
    BY <1>1, <1>8, <1>9, <1>12, <2>3
  <2>5. s[i] = <<At, i>>
    <3>1. i <= Total(At)
      BY <1>11, <1>12, <1>14, <2>3, <2>4
    <3> QED BY <2>2, <3>1
  <2>6. m = At /\ Flaw(At) = i
    BY <1>11, <2>5
  <2>7. Flaw(At) <= l /\ Flaw(At) # 0
    BY <1>14, <2>6
  <2>8. CASE sent[At].kind = "bad_header"
    <3>1. Flaw(At) = HdrLen
      BY <2>8 DEF Flaw
    <3>2. in.stage # "header"
      BY <1>1, <1>9, <1>12, <2>3, <2>7, <3>1
    <3> QED BY <1>8, <2>8, <3>2 DEF Passed
  <2>9. CASE /\ sent[At].kind # "bad_header"
             /\ sent[At].kind = "bad_fields" \/ (sent[At].num > 0 /\ ~with_fd)
    <3>1. Flaw(At) = HdrTotal(At)
      BY <2>9 DEF Flaw
    <3>2. in.stage = "finishing"
      BY <1>1, <1>8, <1>9, <1>12, <2>3, <2>7, <3>1
    <3> QED BY <1>8, <2>9, <3>2 DEF Passed
  <2>10. CASE /\ sent[At].kind # "bad_header"
              /\ ~(sent[At].kind = "bad_fields" \/ (sent[At].num > 0 /\ ~with_fd))
    <3>1. Flaw(At) = Total(At)
      BY <2>7, <2>10 DEF Flaw
    <3> QED BY <1>12, <2>3, <2>4, <2>7, <3>1
  <2> QED BY <2>8, <2>9, <2>10
<1> QED BY <1>11, <1>12, <1>13, <1>14

\* No violation of the protocol is passed over: once the byte that shows it was
\* parsed, the connection is shut down, unless an error about fds came before.
THEOREM AlwaysViolationTerminates == Spec => []ViolationTerminates
<1>1. RecvInv => ViolationTerminates
  <2>1. SUFFICES ASSUME RecvInv, NEW m \in Msgs, Flaw(m) # 0, ~shut, "fds" \notin errs
                 PROVE  <<m, Flaw(m)>> \in ToSet(in.rem \o pending)
    BY DEF ViolationTerminates
  <2>2. errs = {}
    BY <2>1 DEF RecvInv
  <2> QED BY <2>1, <2>2, FlawAhead
<1> QED BY <1>1, RecvInvariant, PTL
=============================================================================

---------------------------- MODULE MessageBody ----------------------------
(***************************************************************************)
(* MarshalledMessageBody and MessageBodyParser                             *)
(* (src/src/rustbus_core/message_builder/body.rs): parameters are appended *)
(* to a buffer, a signature and a list of file descriptors, undone as one  *)
(* when a push fails, and read back in order.  A message handed to the     *)
(* sender shares the buffer (an Arc) with the body, which may be pushed    *)
(* onto or reset while the message is still being written.                 *)
(*                                                                         *)
(* How a value of a D-Bus type is laid out is rustbus's, kept here to what *)
(* the body relies on: each type has an alignment, counted from the start  *)
(* of the buffer, and a length.  A byte is <<kind, type, value, i>>.       *)
(***************************************************************************)
EXTENDS Naturals, Sequences, SequencesExt, FiniteSets

CONSTANTS
  Params,     \* what may be pushed: records [typ, val, fault]
  Types,      \* type -> [align, len, chars]; fds are of type "h"
  SigMax,     \* the longest signature: 255
  MaxArgs,    \* most parameters one call pushes or gets
  MaxPushed,  \* bound: parameters in the body at a time
  MaxFds,     \* bound: fds in the body at a time
  MaxOuts     \* bound: messages with the sender at a time

ASSUME MessageBodyAssumption ==
  /\ {"h", "v"} \subseteq DOMAIN Types
  /\ \A t \in DOMAIN Types : /\ Types[t].align \in Nat \ {0}
                             /\ Types[t].len \in Nat /\ Types[t].chars \in Nat \ {0}
                             /\ t # "v" => Types[t].len # 0
  /\ \A p \in Params : /\ p.typ \in DOMAIN Types \ {"v"} /\ p.val \in Nat
                       /\ p.fault \in {"none", "marshal", "nested"}
  /\ SigMax \in Nat /\ MaxArgs \in Nat /\ MaxPushed \in Nat /\ MaxOuts \in Nat
  /\ MaxFds \in Nat

VARIABLES
  body,      \* [buf, sig, fds]
  pushed,    \* history: what the successful pushes put in since the last reset
  reused,    \* history: the body was reset
  outs,      \* the sender's RawOuts: [hdr, buf, fds, shared, pushed]
  parser,    \* <<>>, or one MessageBodyParser [buf_idx, sig_idx]
  got        \* history: what that parser returned

bodyVars == <<body, pushed, reused, outs, parser, got>>

Empty == [buf |-> <<>>, sig |-> <<>>, fds |-> <<>>]

BodyInit ==
  /\ body = Empty /\ pushed = <<>> /\ reused = FALSE
  /\ outs = {} /\ parser = <<>> /\ got = <<>>

-----------------------------------------------------------------------------
(* Marshalling one value, and reading it back                              *)

PadTo(n, align) == (align - (n % align)) % align

Encode(buf, kind, typ, val, align, len) ==
  buf \o [i \in 1 .. PadTo(Len(buf), align) |-> <<"pad", "y", 0, 0>>]
      \o [i \in 1 .. len |-> <<kind, typ, val, i>>]

\* Marshal::marshal: an fd goes into the list and its index into the buffer.
Marshal(c, p) ==
  [c EXCEPT !.buf = Encode(@, "val", p.typ, IF p.typ = "h" THEN Len(c.fds) ELSE p.val,
                           Types[p.typ].align, Types[p.typ].len),
            !.fds = IF p.typ = "h" THEN Append(@, p.val) ELSE @]

\* marshal_as_variant: the value's signature first, with its length and a 0
MarshalAsVariant(c, p) ==
  Marshal([c EXCEPT !.buf = Encode(@, "sig", p.typ, 0, 1, Types[p.typ].chars + 2)], p)

\* Where the value of type typ at offset n ends; a byte is missing: Len(buf) + 1.
\* A variant names the type of the value within.
DecodeEnd(buf, n, typ) ==
  LET End(m, t) == m + PadTo(m, Types[t].align) + Types[t].len
      inner == buf[n + 1][2]
  IN IF typ # "v" THEN End(n, typ)
     ELSE IF n >= Len(buf) \/ buf[n + 1][1] # "sig" THEN Len(buf) + 1
     ELSE End(n + Types[inner].chars + 2, inner)

\* The value that ends at offset n: its last byte tells.
Value(b, n) == LET last == b.buf[n] IN
  IF last[2] = "h" THEN <<"h", b.fds[last[3] + 1]>> ELSE <<last[2], last[3]>>

SigLen(sig) ==
  LET chars[i \in 0 .. Len(sig)] == IF i = 0 THEN 0 ELSE chars[i - 1] + Types[sig[i]].chars
  IN chars[Len(sig)]

\* Where in buf each value that the signature sig names ends.
Ends(buf, sig) ==
  LET end[i \in 0 .. Len(sig)] == IF i = 0 THEN 0 ELSE DecodeEnd(buf, end[i - 1], sig[i])
  IN end

-----------------------------------------------------------------------------
(* Pushing                                                                 *)

\* The signature grows before it is checked.
PushSig(c, typ, valid) ==
  LET sig == Append(c.sig, typ) IN
  [c EXCEPT !.sig = sig, !.ok = SigLen(sig) <= SigMax /\ valid]

\* One parameter.  A marshal that fails may have written by then; the types of
\* a "nested" parameter are nested too deep for validate_sig_str.  (It panics on
\* a type whose signature is not one at all; no type here is of that sort.)
PushParamCore(c, p) ==
  IF ~c.ok THEN c
  ELSE IF p.fault = "marshal" THEN [Marshal(c, p) EXCEPT !.ok = FALSE]
  ELSE PushSig(Marshal(c, p), p.typ, p.fault # "nested")

PushVariantCore(c, p) ==
  IF p.fault = "marshal" THEN [MarshalAsVariant(c, p) EXCEPT !.ok = FALSE]
  ELSE PushSig(MarshalAsVariant(c, p), "v", TRUE)

\* Mistake: the bytes are written where the sender reads.
MakeMutInPlace(buf) ==
  {IF o.shared THEN [o EXCEPT !.buf = buf] ELSE o : o \in outs}

\* Arc::make_mut: the body gets a buffer of its own before it is written to.
MakeMut(buf) == {[o EXCEPT !.shared = FALSE] : o \in outs}

\* Mistake: only buffer and signature are cut back.
TruncateNotFds(c, b) ==
  [buf |-> SubSeq(c.buf, 1, Len(b.buf)), sig |-> SubSeq(c.sig, 1, Len(b.sig)),
   fds |-> c.fds]

\* A failed push cuts all three back to the lengths before the call.
Truncate(c, b) ==
  [buf |-> SubSeq(c.buf, 1, Len(b.buf)), sig |-> SubSeq(c.sig, 1, Len(b.sig)),
   fds |-> SubSeq(c.fds, 1, Len(b.fds))]

\* push_param_helper: c is what push_fn made of the body, ps what it pushed.
PushParamHelper(c, ps) ==
  /\ parser = <<>>
  /\ Len(pushed) + Len(ps) <= MaxPushed /\ Len(c.fds) <= MaxFds
  /\ outs' = MakeMut(c.buf)
  /\ IF c.ok
     THEN /\ body' = [buf |-> c.buf, sig |-> c.sig, fds |-> c.fds]
          /\ pushed' = pushed \o ps
     ELSE body' = Truncate(c, body) /\ UNCHANGED pushed
  /\ UNCHANGED <<reused, parser, got>>

Ctx == [buf |-> body.buf, sig |-> body.sig, fds |-> body.fds, ok |-> TRUE]

\* One parameter after the other
PushAll(c, ps) ==
  LET ctx[i \in 0 .. Len(ps)] == IF i = 0 THEN c ELSE PushParamCore(ctx[i - 1], ps[i])
  IN ctx[Len(ps)]

\* push_param, push_param2 .. push_param5, push_params (also of no parameter)
PushParams == \E ps \in BoundedSeq(Params, MaxArgs) :
  PushParamHelper(PushAll(Ctx, ps), [i \in DOMAIN ps |->
    [sig |-> ps[i].typ, typ |-> ps[i].typ, val |-> ps[i].val]])

PushVariant == \E p \in Params :
  PushParamHelper(PushVariantCore(Ctx, p), <<[sig |-> "v", typ |-> p.typ, val |-> p.val]>>)

\* reset keeps raw_fds.
Reset ==
  /\ parser = <<>>
  /\ body' = [body EXCEPT !.sig = <<>>, !.buf = <<>>]
  /\ outs' = MakeMut(<<>>) /\ pushed' = <<>> /\ reused' = TRUE
  /\ UNCHANGED <<parser, got>>

\* reserve needs a buffer of its own too.
Reserve ==
  /\ parser = <<>> /\ outs' = MakeMut(body.buf)
  /\ UNCHANGED <<body, pushed, reused, parser, got>>

-----------------------------------------------------------------------------
(* The sender takes the buffer and the fds, writes them, and is done.      *)

\* A RawOut of body b, on which ps were pushed, with the header hdr
RawOut(hdr, b, ps, shared) ==
  [hdr |-> hdr, buf |-> b.buf, fds |-> b.fds, shared |-> shared, pushed |-> ps]

Enqueue(o) == Cardinality(outs) < MaxOuts /\ outs' = outs \cup {o}

\* buf_arc, and the fds' dups
BufArc(hdr) ==
  /\ Enqueue(RawOut(hdr, body, pushed, TRUE))
  /\ UNCHANGED <<body, pushed, reused, parser, got>>

Written(o) ==
  /\ o \in outs /\ outs' = outs \ {o}
  /\ UNCHANGED <<body, pushed, reused, parser, got>>

-----------------------------------------------------------------------------
(* MessageBodyParser borrows the body: nothing is pushed while it lives.   *)

NewParser ==
  /\ parser = <<>> /\ parser' = <<[buf_idx |-> 0, sig_idx |-> 0]>> /\ got' = <<>>
  /\ UNCHANGED <<body, pushed, reused, outs>>

DropParser ==
  /\ parser # <<>> /\ parser' = <<>> /\ got' = <<>>
  /\ UNCHANGED <<body, pushed, reused, outs>>

\* get::<T>(): want is T's signature; T's unmarshal may refuse the value.
Get(s, want) ==
  LET end == DecodeEnd(body.buf, s.p.buf_idx, want.typ) IN
  IF \/ ~s.ok
     \/ s.p.sig_idx >= Len(body.sig)
     \/ body.sig[s.p.sig_idx + 1] # want.typ
     \/ end > Len(body.buf) \/ want.refuse
  THEN [s EXCEPT !.ok = FALSE]
  ELSE [s EXCEPT !.p = [buf_idx |-> end, sig_idx |-> @.sig_idx + 1],
                 !.got = Append(@, Value(body, end))]

\* Mistake: the place in the buffer is not put back.
PutBackSigOnly(s, start) == [start EXCEPT !.buf_idx = s.p.buf_idx]

\* get_mult_helper: when one get fails the parser is where it was.
PutBack(s, start) == start

\* One value after the other
GetAll(s, wants) ==
  LET ctx[i \in 0 .. Len(wants)] == IF i = 0 THEN s ELSE Get(ctx[i - 1], wants[i])
  IN ctx[Len(wants)]

\* get, get2 .. get5: wants is one type per value.
GetMult == \E wants \in BoundedSeq([typ : DOMAIN Types, refuse : BOOLEAN], MaxArgs) :
  /\ wants # <<>> /\ parser # <<>>
  /\ parser[1].sig_idx + Len(wants) <= Len(body.sig)
  /\ LET s == GetAll([p |-> parser[1], got |-> got, ok |-> TRUE], wants) IN
     /\ parser' = <<IF s.ok THEN s.p ELSE PutBack(s, parser[1])>>
     /\ got' = IF s.ok THEN s.got ELSE got
  /\ UNCHANGED <<body, pushed, reused, outs>>

BodyNext ==
  \/ PushParams \/ PushVariant \/ Reset \/ Reserve
  \/ NewParser \/ DropParser \/ GetMult

-----------------------------------------------------------------------------
(* validate: the buffer is exactly the values the signature names.         *)

Validate(b) == Ends(b.buf, b.sig)[Len(b.sig)] = Len(b.buf)

\* The values of body b, read off one after the other by its signature.
ReadBack(b) == [i \in DOMAIN b.sig |-> Value(b, Ends(b.buf, b.sig)[i])]

Values(ps) == [i \in DOMAIN ps |-> <<ps[i].typ, ps[i].val>>]

Sigs(ps) == [i \in DOMAIN ps |-> ps[i].sig]
FdsOf(ps) == FlattenSeq([i \in DOMAIN ps |-> IF ps[i].typ = "h" THEN <<ps[i].val>> ELSE <<>>])

\* The body holds what the successful pushes since the last reset gave it and
\* nothing of a failed one, whichever of its parameters failed and whatever it
\* had written by then (push_param_helper): it validates, within the 255
\* characters of a signature, reads back, and its fds are those of its
\* parameters, unless it was reset, which does leave some.
HoldsWhatWasPushed ==
  /\ Validate(body) /\ ReadBack(body) = Values(pushed)
  /\ Sigs(pushed) = body.sig /\ SigLen(body.sig) <= SigMax
  /\ ~reused => body.fds = FdsOf(pushed)

\* A parser that has returned n values stands at value n + 1 of the body, and
\* returned the first n, after any mix of gets that failed half-way.
ParserInStep == parser # <<>> =>
  LET n == parser[1].sig_idx IN
  /\ got = SubSeq(Values(pushed), 1, n)
  /\ parser[1].buf_idx = Ends(body.buf, body.sig)[n]

-----------------------------------------------------------------------------
(* The inductive invariant behind them                                     *)

Byte == {"pad", "sig", "val"} \X (DOMAIN Types \cup {"y"}) \X Nat \X Nat
Pushed == [sig : DOMAIN Types, typ : DOMAIN Types \ {"v"}, val : Nat]

\* Body b holds the values ps: each ends within the buffer, the last one where
\* the buffer does, and the byte it ends with tells it; if that is the index of
\* an fd, the list has one there.
Holds(b, ps) ==
  LET end == Ends(b.buf, b.sig) IN
  /\ b.buf \in Seq(Byte) /\ b.fds \in Seq(Nat) /\ ps \in Seq(Pushed)
  /\ b.sig = Sigs(ps) /\ end[Len(ps)] = Len(b.buf)
  /\ \A i \in 1 .. Len(ps) :
       /\ end[i] \in 1 .. Len(b.buf) /\ Value(b, end[i]) = <<ps[i].typ, ps[i].val>>
       /\ b.buf[end[i]][2] = "h" => b.buf[end[i]][3] < Len(b.fds)

BodyInv ==
  /\ Holds(body, pushed) /\ SigLen(body.sig) <= SigMax
  /\ ~reused => body.fds = FdsOf(pushed)
  /\ body \in [buf : Seq(Byte), sig : Seq(DOMAIN Types), fds : Seq(Nat)]
  /\ parser # <<>> => parser[1].sig_idx \in 0 .. Len(pushed)
  /\ ParserInStep
=============================================================================

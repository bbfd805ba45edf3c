----------------------------- MODULE RecvState -----------------------------
(***************************************************************************)
(* The receive side: RecvState::get_next_message (src/src/conn/recv.rs)    *)
(* cuts the byte stream into messages and pairs them with the file         *)
(* descriptors that came along.  The caller holds the recv_data mutex for  *)
(* the whole call; a call that finds too few bytes leaves its state for    *)
(* the next one.                                                           *)
(*                                                                         *)
(* A byte is <<message, number in the message>>.  The first two stand for  *)
(* the 12 bytes of the fixed header, the third for the length of the       *)
(* header fields; then come the fields and the body.  A message's fds are  *)
(* attached to its first byte.                                             *)
(***************************************************************************)
EXTENDS Ancillary, SequencesExt, FiniteSets

CONSTANTS
  N,          \* how many messages the peer sends
  Shapes,     \* what they can be: [fields, body, kind, num, att] with the lengths
              \* of the header fields and of the body; good, bad_header,
              \* bad_fields or bad_body; and the numbers of fds that the header
              \* declares and that come with the message
  RemCap,     \* capacity of RecvState.remaining: 4096
  MaxFds      \* DBUS_MAX_FD_MESSAGE: 32

\* The control buffer has room for one fd more than a message may carry.
ASSUME RecvAssumption ==
  /\ N \in Nat /\ RemCap \in Nat /\ MaxFds \in Nat
  /\ CmsgLen(FdSize * (MaxFds + 1)) <= AncCap
  /\ Shapes \subseteq [fields : Nat, body : Nat, num : Nat, att : Nat,
                       kind : {"good", "bad_header", "bad_fields", "bad_body"}]

VARIABLES
  sent,       \* the peer's messages
  with_fd,    \* fd passing was negotiated
  in,         \* in_state: [stage, hdr, buf, rem], rem what is left of `remaining`
              \* (buf keeps the header's bytes when the code drops them)
  inFds,      \* in_fds: the messages the fds came with, one element per fd
  pc,         \* idle, or read: in get_next_message, before the recvmsg
  pending,    \* bytes on their way
  shut,       \* stream.shutdown(Both) was called
  errs,       \* the errors get_next_message returned: parse, body, fds
  delivered   \* the messages it returned: [msg, bytes, fds]

given == <<sent, with_fd>>
vars == <<given, in, inFds, pc, pending, shut, errs, delivered>>

Msgs == 1 .. N
None == 0
HdrLen == 2
HdrTotal(m) == HdrLen + 1 + sent[m].fields
Total(m) == HdrTotal(m) + sent[m].body
BytesOf(m) == [k \in 1 .. Total(m) |-> <<m, k>>]

Fresh(rem) == [stage |-> "header", hdr |-> None, buf |-> <<>>, rem |-> rem]

Init ==
  /\ sent \in [Msgs -> Shapes] /\ with_fd \in BOOLEAN
  /\ in = Fresh(<<>>) /\ inFds = <<>>
  /\ pc = "idle"
  /\ pending = FlattenSeq([m \in Msgs |-> BytesOf(m)])
  /\ shut = FALSE /\ errs = {} /\ delivered = <<>>

-----------------------------------------------------------------------------
(* try_get_msg                                                             *)

\* Mistake: a part of what is needed is left where it is.
ExtendMaxWhole(x, target) ==
  LET n == IF Len(x.buf) >= target \/ target - Len(x.buf) > Len(x.rem) THEN 0
           ELSE target - Len(x.buf)
  IN [x EXCEPT !.buf = @ \o SubSeq(x.rem, 1, n), !.rem = SubSeq(@, n + 1, Len(@))]

\* extend_max: copy from the rest of `remaining` until buf has target bytes.
ExtendMax(x, target) ==
  LET n == IF Len(x.buf) >= target THEN 0
           ELSE IF target - Len(x.buf) > Len(x.rem) THEN Len(x.rem)
           ELSE target - Len(x.buf)
  IN [x EXCEPT !.buf = @ \o SubSeq(x.rem, 1, n), !.rem = SubSeq(@, n + 1, Len(@))]

Incomplete(x) == [res |-> "none", in |-> x]
Bad(x) == [res |-> "parse", in |-> Fresh(x.rem)]

\* Mistake: waits for one byte too many.
TryFinishingMore(x) ==
  LET y == ExtendMax(x, Total(x.hdr)) IN
  IF Len(y.buf) <= Total(x.hdr) THEN Incomplete(y)
  ELSE [res |-> "msg", in |-> Fresh(y.rem), msg |-> x.hdr, bytes |-> y.buf]

TryFinishing(x) ==
  LET y == ExtendMax(x, Total(x.hdr)) IN
  IF Len(y.buf) < Total(x.hdr) THEN Incomplete(y)
  ELSE [res |-> "msg", in |-> Fresh(y.rem), msg |-> x.hdr, bytes |-> y.buf]

\* Mistake: fds that were not negotiated go unnoticed.
TryDynHdrTrusting(x) ==
  LET y == ExtendMax(x, HdrLen + 1)
      z == ExtendMax(y, HdrTotal(x.hdr)) IN
  IF Len(y.buf) < HdrLen + 1 THEN Incomplete(y)
  ELSE IF Len(z.buf) < HdrTotal(x.hdr) THEN Incomplete(z)
  ELSE IF sent[x.hdr].kind = "bad_fields" THEN Bad(z)
  ELSE TryFinishing([z EXCEPT !.stage = "finishing"])

TryDynHdr(x) ==
  LET y == ExtendMax(x, HdrLen + 1)
      z == ExtendMax(y, HdrTotal(x.hdr)) IN
  IF Len(y.buf) < HdrLen + 1 THEN Incomplete(y)
  ELSE IF Len(z.buf) < HdrTotal(x.hdr) THEN Incomplete(z)
  ELSE IF sent[x.hdr].kind = "bad_fields" \/ (sent[x.hdr].num > 0 /\ ~with_fd) THEN Bad(z)
  ELSE TryFinishing([z EXCEPT !.stage = "finishing"])

\* Bytes from inside a message may pass for the header of any message g, or
\* for none.
TryHeader(x, g) ==
  LET y == ExtendMax(x, HdrLen)
      h == IF y.buf[1][2] = 1 THEN y.buf[1][1] ELSE g IN
  IF Len(y.buf) < HdrLen THEN Incomplete(y)
  ELSE IF h = None \/ sent[h].kind = "bad_header" THEN Bad(y)
  ELSE TryDynHdr([y EXCEPT !.stage = "dynhdr", !.hdr = h])

TryGetMsg(x, g) ==
  CASE x.stage = "header" -> TryHeader(x, g)
    [] x.stage = "dynhdr" -> TryDynHdr(x)
    [] x.stage = "finishing" -> TryFinishing(x)

\* Mistake: 16 bytes are always read for a header, whatever there already is.
NeededWhole(x) ==
  CASE x.stage = "header" -> HdrLen + 1
    [] x.stage = "dynhdr" -> IF Len(x.buf) < HdrLen + 1 THEN HdrLen + 1 - Len(x.buf)
                             ELSE HdrTotal(x.hdr) - Len(x.buf)
    [] x.stage = "finishing" -> Total(x.hdr) - Len(x.buf)

\* bytes_needed_for_next
Needed(x) ==
  CASE x.stage = "header" -> HdrLen + 1 - Len(x.buf)
    [] x.stage = "dynhdr" -> IF Len(x.buf) < HdrLen + 1 THEN HdrLen + 1 - Len(x.buf)
                             ELSE HdrTotal(x.hdr) - Len(x.buf)
    [] x.stage = "finishing" -> Total(x.hdr) - Len(x.buf)

-----------------------------------------------------------------------------
(* get_next_message                                                        *)

\* Return an error; the parse and body errors shut the connection down.
Fail(e) ==
  /\ errs' = errs \cup {e}
  /\ shut' = (shut \/ e \in {"parse", "body"})
  /\ pc' = "idle"
  /\ UNCHANGED delivered

\* A whole message: mm_from_raw, validate the body against the signature.
Deliver(t, fds) ==
  IF sent[t.msg].kind = "bad_body" THEN Fail("body")
  ELSE /\ delivered' = Append(delivered, [msg |-> t.msg, bytes |-> t.bytes, fds |-> fds])
       /\ pc' = "idle"
       /\ UNCHANGED <<shut, errs>>

\* The call begins with what an earlier read left over.
Call ==
  /\ pc = "idle"
  /\ \E g \in Msgs \cup {None} :
       LET t == TryGetMsg(in, g) IN
       /\ in' = t.in
       /\ \/ t.res = "none" /\ pc' = "read" /\ UNCHANGED <<inFds, shut, errs, delivered>>
          \/ t.res = "parse" /\ inFds' = <<>> /\ Fail("parse")
          \/ t.res = "msg" /\ Deliver(t, <<>>) /\ UNCHANGED inFds
  /\ UNCHANGED <<given, pending>>

\* message m's fds
FdsOf(m) == [k \in 1 .. sent[m].att |-> m]

\* The fds that arrive with the first n pending bytes, one element each
FdsIn(n) ==
  ReceivedFds(FlattenSeq([i \in 1 .. n |-> IF pending[i][2] = 1
                               THEN FdsOf(pending[i][1])
                               ELSE <<>>]))

FdsFit(fds, m) == Len(fds) = sent[m].num

\* n bytes were read: first those that are needed, the rest to `remaining`
Fed(n) ==
  LET need == IF n < Needed(in) THEN n ELSE Needed(in)
  IN [in EXCEPT !.buf = @ \o SubSeq(pending, 1, need), !.rem = SubSeq(pending, need + 1, n)]

\* recvmsg takes n bytes.  With fds only what is needed is read, so that no
\* read crosses the end of a message; else the rest goes to `remaining`.
Read ==
  /\ pc = "read"
  /\ \E n \in 1 .. (IF with_fd THEN Needed(in) ELSE Needed(in) + RemCap),
        g \in Msgs \cup {None} :
       /\ n <= Len(pending)
       /\ pending' = SubSeq(pending, n + 1, Len(pending))
       /\ LET fds == IF with_fd THEN inFds \o FdsIn(n) ELSE inFds
              t == TryGetMsg(Fed(n), g) IN
          \/ /\ Len(fds) > MaxFds
             /\ in' = Fresh(Fed(n).rem) /\ inFds' = <<>>
             /\ Fail("fds")
          \/ /\ Len(fds) <= MaxFds
             /\ in' = t.in
             /\ \/ /\ t.res = "none" /\ inFds' = fds
                   /\ UNCHANGED <<pc, shut, errs, delivered>>
                \/ t.res = "parse" /\ inFds' = <<>> /\ Fail("parse")
                \/ t.res = "msg" /\ ~FdsFit(fds, t.msg) /\ inFds' = <<>> /\ Fail("fds")
                \/ t.res = "msg" /\ FdsFit(fds, t.msg) /\ inFds' = <<>> /\ Deliver(t, fds)
  /\ UNCHANGED given

\* recvmsg says WouldBlock, or 0 bytes (BrokenPipe): the call returns, its
\* state stays for the next one.
WouldBlock ==
  /\ pc = "read"
  /\ pc' = "idle"
  /\ UNCHANGED <<given, in, inFds, pending, shut, errs, delivered>>

Next == Call \/ Read \/ WouldBlock

Spec == Init /\ [][Next]_vars

\* Somebody calls get_next_message again, and the bytes arrive.
FairSpec == Spec /\ WF_vars(Call) /\ SF_vars(Read)

-----------------------------------------------------------------------------
(* Properties                                                              *)

\* Before a recvmsg nothing that was read ahead is left over and something is
\* needed, also after an error (the debug_asserts at recv.rs:196 and 202).
NothingLeftOver == pc = "read" => in.rem = <<>> /\ Needed(in) > 0

\* A message that the peer may send, as far as its own bytes show
WellFormed(m) == sent[m].kind = "good" /\ (sent[m].num > 0 => with_fd)

\* However the stream is cut into reads, what get_next_message returns until it
\* first returns an error are the peer's messages, in order, well-formed, whole,
\* and each with its own fds, all of them: none is cut off unnoticed.
WholeInOrder ==
  errs = {} =>
    /\ Len(delivered) <= N
    /\ \A i \in 1 .. Len(delivered) :
         /\ delivered[i].msg = i
         /\ WellFormed(i)
         /\ delivered[i].bytes = BytesOf(i)
         /\ delivered[i].fds = (IF with_fd THEN FdsOf(i) ELSE <<>>)

\* The peer sends what it may: well-formed messages, and fds only as it declares
\* and as was negotiated.
GoodPeer ==
  \A m \in Msgs : WellFormed(m) /\ sent[m].att = sent[m].num /\ sent[m].num <= MaxFds

\* Every message of a well-behaved peer is delivered, wherever reads end: no
\* byte that was read ahead is forgotten.
AllDelivered == GoodPeer => <>(Len(delivered) = N)

\* The number of the byte with which message m turns out not to be well-formed,
\* 0 if it never does
Flaw(m) ==
  IF sent[m].kind = "bad_header" THEN HdrLen
  ELSE IF sent[m].kind = "bad_fields" \/ (sent[m].num > 0 /\ ~with_fd) THEN HdrTotal(m)
  ELSE IF sent[m].kind = "bad_body" THEN Total(m)
  ELSE 0

\* "This crate terminates connections when protocol violations occur"
\* (README.md:19): no violation is passed over.  Once the byte that shows it was
\* parsed, wherever the reads ended, the connection is shut down.  Not so when
\* the number of fds was wrong: that error (recv.rs:252, 262) leaves the
\* connection open, and after the first of the two the next bytes are taken for
\* a header wherever they come from.
ViolationTerminates ==
  \A m \in Msgs :
    Flaw(m) # 0 /\ <<m, Flaw(m)>> \notin ToSet(in.rem \o pending) => shut \/ "fds" \in errs

-----------------------------------------------------------------------------
(* The inductive invariant behind them                                     *)

Bytes == {b \in Msgs \X Nat : b[2] \in 1 .. Total(b[1])}

\* The peer's stream: after the last byte of a message comes the next message.
Follows(a, b) == b = (IF a[2] = Total(a[1]) THEN <<a[1] + 1, 1>> ELSE <<a[1], a[2] + 1>>)
Contiguous(s) == \A i \in 1 .. Len(s) - 1 : Follows(s[i], s[i + 1])
StartsAt(s, m) == s # <<>> => s[1] = <<m, 1>>
\* Nothing is missing from message m on.
Complete(s, m) ==
  \A j \in m .. N : \A k \in 1 .. Total(j) : \E i \in 1 .. Len(s) : s[i] = <<j, k>>

RecvTypes ==
  /\ sent \in [Msgs -> Shapes] /\ with_fd \in BOOLEAN
  /\ in \in [stage : {"header", "dynhdr", "finishing"}, hdr : Msgs \cup {None},
             buf : Seq(Bytes), rem : Seq(Bytes)]
  /\ inFds \in Seq(Msgs) /\ pc \in {"idle", "read"} /\ pending \in Seq(Bytes)
  /\ shut \in BOOLEAN /\ errs \subseteq {"parse", "body", "fds"}
  /\ delivered \in Seq([msg : Msgs, bytes : Seq(Bytes), fds : Seq(Msgs)])

\* Between two steps bytes are missing of what in_state waits for.
AtRest(x) ==
  \/ x.stage = "header" /\ Len(x.buf) < HdrLen
  \/ x.stage = "dynhdr" /\ x.hdr \in Msgs /\ Len(x.buf) < HdrTotal(x.hdr)
  \/ x.stage = "finishing" /\ x.hdr \in Msgs /\ Len(x.buf) < Total(x.hdr)

\* What was read of message m is good as far as in_state shows it.
Passed(stage, m) ==
  /\ sent[m].kind # "bad_header"
  /\ stage = "finishing" => sent[m].kind # "bad_fields" /\ (sent[m].num > 0 => with_fd)

Unread == in.buf \o (in.rem \o pending)

\* Before the first error the next message's first byte is the first one unread,
\* and its fds arrived with it; no byte got lost.
InStep ==
  LET m == Len(delivered) + 1 IN
  /\ Contiguous(Unread) /\ StartsAt(Unread, m) /\ Complete(Unread, m)
  /\ in.stage # "header" => in.hdr = m /\ Passed(in.stage, m)
  /\ inFds = IF with_fd /\ in.buf # <<>> THEN FdsOf(m) ELSE <<>>

RecvInv ==
  /\ RecvTypes
  /\ AtRest(in) /\ (pc = "read" \/ with_fd => in.rem = <<>>)
  /\ errs \subseteq {"fds"} \/ shut
  /\ errs = {} => InStep
  /\ WholeInOrder
=============================================================================

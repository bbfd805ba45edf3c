----------------------------- MODULE SendState -----------------------------
(***************************************************************************)
(* The send side: SendState (src/src/conn/sender.rs) and the futures that  *)
(* drive it, RpcConn::send_msg_loop (src/src/lib.rs).  A message that the  *)
(* kernel does not take whole is queued with a send index; whoever sends   *)
(* next continues it, several messages to a vectored write.                *)
(*                                                                         *)
(* A future stands for the message it sends.  A byte is <<message, number  *)
(* in the message>>.  One step is one sendmsg; the send_data mutex is held *)
(* from Enter to the end of write_next_message or finish_sending_next.     *)
(***************************************************************************)
EXTENDS Ancillary, SequencesExt

CONSTANTS
  Futures,      \* calls of send_msg_loop, one message each
  Hdr, Body,    \* bytes of each message's header and body
  FdChoices,    \* <<with_fd, each message's number of fds>>, to choose from
  MaxFds,       \* DBUS_MAX_FD_MESSAGE: 32
  IovFinish,    \* io-slices of a write in finish_sending_next: 32
  IovNew,       \* io-slices of a write in write_next_message: 34
  CanCancel,    \* may a send future be dropped between two polls?
  None

\* The control buffer has room for as many fds as a message may have.
ASSUME SendAssumption ==
  /\ FdChoices \subseteq BOOLEAN \X [Futures -> Nat] /\ CanCancel \in BOOLEAN
  /\ MaxFds \in Nat /\ AddFds(MaxFds)
  /\ \A f \in Futures : Hdr[f] \in Nat \ {0} /\ Body[f] \in Nat
  /\ IovFinish \in Nat \ {0} /\ IovNew \in Nat \ {0}
  /\ None \notin Futures /\ None \notin Nat /\ None \notin [msg : Futures, written : Nat]

VARIABLES
  with_fd,  \* SendState.with_fd: fd passing was negotiated
  nfds,     \* the number of each message's file descriptors
  queue,    \* SendState.queue: the RawOuts not yet written out
  idx,      \* SendState.idx
  out,      \* the RawOut that write_next_message is working on
  sendIdx,  \* send_msg_loop's send_idx, None before the message is queued
  holder,   \* owner of the send_data mutex
  pc,       \* loop: before writable() and lock(); write, flush: in SendState
  wire,     \* bytes the kernel accepted
  fdLog,    \* <<m, n>>: m's fds went out attached to byte n of the wire
  closed    \* the peer closed the connection

given == <<with_fd, nfds>>
vars == <<given, queue, idx, out, sendIdx, holder, pc, wire, fdLog, closed>>

Size(m) == Hdr[m] + Body[m]
NewOut(m) == [msg |-> m, written |-> 0]
ToWrite(o) == Size(o.msg) - o.written

Init ==
  /\ \E c \in FdChoices : with_fd = c[1] /\ nfds = c[2]
  /\ queue = <<>> /\ idx = 0 /\ out = None
  /\ sendIdx = [f \in Futures |-> None]
  /\ holder = None
  /\ pc = [f \in Futures |-> "loop"]
  /\ wire = <<>> /\ fdLog = {} /\ closed = FALSE

-----------------------------------------------------------------------------
(* Building a write                                                        *)

\* bufs_left: the io-slices still to write, <<message, first, last>> each
BufsLeft(o) ==
  LET m == o.msg IN
  IF o.written < Hdr[m]
  THEN <<<<m, o.written + 1, Hdr[m]>>>> \o
         IF Body[m] = 0 THEN <<>> ELSE <<<<m, Hdr[m] + 1, Size(m)>>>>
  ELSE <<<<m, o.written + 1, Size(m)>>>>

\* Add o's slices, as far as they fit.
PushBufs(ios, o, cap) == SubSeq(ios \o BufsLeft(o), 1,
                                IF Len(ios \o BufsLeft(o)) < cap
                                THEN Len(ios \o BufsLeft(o)) ELSE cap)

HasFds(o) == o.written = 0 /\ nfds[o.msg] > 0

NoBufs == [ios |-> <<>>, anc |-> None, stop |-> FALSE]

\* Mistake: a message with fds does not end the write before it.
AddOutThrough(w, o, cap) ==
  IF Len(w.ios) >= cap THEN w
  ELSE [w EXCEPT !.ios = PushBufs(@, o, cap), !.anc = IF HasFds(o) THEN o.msg ELSE @]

\* populate, for one RawOut of the queue.  Fds are only attached to the first
\* message of a write.
AddOut(w, o, cap) ==
  IF w.stop \/ Len(w.ios) >= cap \/ (HasFds(o) /\ w.ios # <<>>) THEN [w EXCEPT !.stop = TRUE]
  ELSE [w EXCEPT !.ios = PushBufs(@, o, cap), !.anc = IF HasFds(o) THEN o.msg ELSE @]

\* populate: the io-slices and the ancillary data for a write of the queue
Populate(q, cap) ==
  LET upTo[i \in 0 .. Len(q)] == IF i = 0 THEN NoBufs ELSE AddOut(upTo[i - 1], q[i], cap)
  IN upTo[Len(q)]

\* write_next_message adds the new message if the queue left room and it has
\* no fds or comes first.
PopulateNew(q, o, cap) ==
  LET w == Populate(q, cap) IN
  IF Len(w.ios) < cap /\ (nfds[o.msg] = 0 \/ w.ios = <<>>)
  THEN [w EXCEPT !.ios = PushBufs(@, o, cap),
                 !.anc = IF HasFds(o) THEN o.msg ELSE @]
  ELSE w

Slice(io) == [j \in 1 .. io[3] - io[2] + 1 |-> <<io[1], io[2] + j - 1>>]
Bytes(ios) == FlattenSeq([i \in 1 .. Len(ios) |-> Slice(ios[i])])

\* Mistake: progress inside the front message is forgotten.
AdvanceRestart(a, o) ==
  IF a.left >= ToWrite(o) /\ a.queue = <<>>
  THEN [queue |-> <<>>, left |-> a.left - ToWrite(o)]
  ELSE [queue |-> Append(a.queue, o), left |-> 0]

\* advance: credit what is left of the written bytes to o, which leaves the queue
\* when it is done.
Advance(a, o) ==
  IF a.left >= ToWrite(o) /\ a.queue = <<>>
  THEN [queue |-> <<>>, left |-> a.left - ToWrite(o)]
  ELSE [queue |-> Append(a.queue, [o EXCEPT !.written = @ + a.left]), left |-> 0]

\* update_written: credit n written bytes to the queue, from the front.
UpdateWritten(q, n) ==
  LET upTo[i \in 0 .. Len(q)] == IF i = 0 THEN [queue |-> <<>>, left |-> n]
                                 ELSE Advance(upTo[i - 1], q[i])
  IN upTo[Len(q)]

\* The kernel takes the first n bytes of the write, and its ancillary data.
SendMsg(w, n) ==
  /\ wire' = wire \o SubSeq(Bytes(w.ios), 1, n)
  /\ fdLog' = IF w.anc = None THEN fdLog ELSE fdLog \cup {<<w.anc, Len(wire) + 1>>}

-----------------------------------------------------------------------------
(* send_msg_loop                                                           *)

Goto(f, l) == pc' = [pc EXCEPT ![f] = l]

\* Mistake: counts the message at the front of the queue as sent.
CurrentIdxFront == idx + 1 - Len(queue)

CurrentIdx == idx - Len(queue)

\* Mistake: fds are not counted.
RefusesSome(f) == nfds[f] > 0 /\ ~with_fd

\* fds that were not negotiated, or too many
Refuses(f) == (nfds[f] > 0 /\ ~with_fd) \/ nfds[f] > MaxFds

\* Locks send_data for the first time: marshal, check and dup the fds.  It fails
\* if the fds are refused, but also for a header that cannot be marshalled or an
\* fd that was taken out of its UnixFd.
EnterNew(f) ==
  /\ pc[f] = "loop" /\ holder = None /\ sendIdx[f] = None
  /\ \/ Goto(f, "error") /\ UNCHANGED <<holder, out>>
     \/ ~Refuses(f) /\ Goto(f, "write") /\ holder' = f /\ out' = NewOut(f)
  /\ UNCHANGED <<given, queue, idx, sendIdx, wire, fdLog, closed>>

\* Locks it again: has somebody else sent the message in the meantime?
EnterAgain(f) ==
  /\ pc[f] = "loop" /\ holder = None /\ sendIdx[f] # None
  /\ IF CurrentIdx > sendIdx[f] THEN Goto(f, "done") /\ UNCHANGED holder
     ELSE Goto(f, "flush") /\ holder' = f
  /\ UNCHANGED <<given, queue, idx, out, sendIdx, wire, fdLog, closed>>

\* One iteration of write_next_message in which the kernel takes something.
WriteSome(f) ==
  /\ pc[f] = "write" /\ ~closed
  /\ LET w == PopulateNew(queue, out, IovNew) IN
     \E n \in 1 .. Len(Bytes(w.ios)) :
       LET u == UpdateWritten(queue, n)
           o == [out EXCEPT !.written = @ + u.left] IN
       /\ SendMsg(w, n)
       /\ queue' = u.queue
       /\ IF ToWrite(o) = 0
          THEN Goto(f, "done") /\ holder' = None /\ out' = None
          ELSE out' = o /\ UNCHANGED <<pc, holder>>
  /\ UNCHANGED <<given, idx, sendIdx, closed>>

\* Mistake: the send index is taken after idx was advanced.
WriteBlockLate(f) ==
  /\ pc[f] = "write" /\ ~closed
  /\ queue' = Append(queue, out)
  /\ idx' = idx + 1
  /\ sendIdx' = [sendIdx EXCEPT ![f] = idx + 1]
  /\ out' = None /\ holder' = None
  /\ Goto(f, "loop")
  /\ UNCHANGED <<given, wire, fdLog, closed>>

\* sendmsg says WouldBlock: the rest of the message is queued.
WriteBlock(f) ==
  /\ pc[f] = "write" /\ ~closed
  /\ queue' = Append(queue, out)
  /\ idx' = idx + 1
  /\ sendIdx' = [sendIdx EXCEPT ![f] = idx]
  /\ out' = None /\ holder' = None
  /\ Goto(f, "loop")
  /\ UNCHANGED <<given, wire, fdLog, closed>>

\* One iteration of finish_sending_next
FlushSome(f) ==
  /\ pc[f] = "flush" /\ queue # <<>> /\ ~closed
  /\ LET w == Populate(queue, IovFinish) IN
     \E n \in 1 .. Len(Bytes(w.ios)) :
       /\ SendMsg(w, n)
       /\ queue' = UpdateWritten(queue, n).queue
  /\ UNCHANGED <<given, idx, out, sendIdx, holder, pc, closed>>

\* The queue is empty or sendmsg says WouldBlock.
FlushEnd(f) ==
  /\ pc[f] = "flush" /\ (queue = <<>> \/ ~closed)
  /\ Goto(f, IF CurrentIdx > sendIdx[f] THEN "done" ELSE "loop")
  /\ holder' = None
  /\ UNCHANGED <<given, queue, idx, out, sendIdx, wire, fdLog, closed>>

\* sendmsg fails: what write_next_message had not queued is dropped.
SendError(f) ==
  /\ closed
  /\ pc[f] = "write" \/ (pc[f] = "flush" /\ queue # <<>>)
  /\ Goto(f, "error")
  /\ holder' = None /\ out' = None
  /\ UNCHANGED <<given, queue, idx, sendIdx, wire, fdLog, closed>>

\* The future is dropped while it awaits; a queued message stays queued.
Cancel(f) ==
  /\ CanCancel
  /\ pc[f] = "loop"
  /\ Goto(f, "cancelled")
  /\ UNCHANGED <<given, queue, idx, out, sendIdx, holder, wire, fdLog, closed>>

PeerClose ==
  /\ ~closed
  /\ closed' = TRUE
  /\ UNCHANGED <<given, queue, idx, out, sendIdx, holder, pc, wire, fdLog>>

Step(f) ==
  \/ EnterNew(f) \/ EnterAgain(f) \/ WriteSome(f) \/ WriteBlock(f)
  \/ FlushSome(f) \/ FlushEnd(f) \/ SendError(f)

Next == PeerClose \/ \E f \in Futures : Step(f) \/ Cancel(f)

Spec == Init /\ [][Next]_vars

\* Futures are polled (writable() is always ready, its readiness is never
\* cleared; the mutex is fair) and the peer keeps reading, so that a flush is
\* not refused forever.
FairSpec ==
  /\ Spec
  /\ \A f \in Futures : /\ WF_vars(Step(f))
                        /\ SF_vars(EnterNew(f) \/ EnterAgain(f))
                        /\ SF_vars(FlushSome(f))

-----------------------------------------------------------------------------
(* Properties                                                              *)

AddsFds(w) == w.anc = None \/ AddFds(nfds[w.anc])

\* The control buffer of a write has room for the fds of the message it begins
\* with, whoever queued that message: the asserts on add_fds never fail.
ControlFits ==
  \A f \in Futures :
    /\ pc[f] = "write" => AddsFds(PopulateNew(queue, out, IovNew))
    /\ pc[f] = "flush" => AddsFds(Populate(queue, IovFinish))

\* Byte k of a message is followed by byte k + 1, its last byte by the first byte
\* of another message, which has not been there before.
Framed(s) ==
  /\ s # <<>> => s[1][2] = 1
  /\ \A i \in 1 .. Len(s) - 1 :
       IF s[i][2] < Size(s[i][1])
       THEN s[i + 1] = <<s[i][1], s[i][2] + 1>>
       ELSE s[i + 1][2] = 1 /\ \A j \in 1 .. i : s[j][1] # s[i + 1][1]

\* The peer sees whole messages one after the other, each at most once,
\* however the kernel cut the writes.
FramedWire == Framed(wire)

\* send_msg_loop returns Ok only when the kernel has the message's last byte,
\* also when another future sent it (current_idx() > send_idx).
DoneMeansSent ==
  \A f \in Futures : pc[f] = "done" => <<f, Size(f)>> \in ToSet(wire)

\* "FDs sent in a write must be sent in a writee that only contains the correct
\* message. This prevents the FDs from being associated with the wrong
\* message." (sender.rs:77): fds go out with the first byte of their message,
\* and a message that was sent took its fds with it.
FdsWithMessage ==
  /\ \A e \in fdLog : e[2] <= Len(wire) /\ wire[e[2]] = <<e[1], 1>>
  /\ \A f \in Futures : nfds[f] > 0 /\ pc[f] = "done" => \E e \in fdLog : e[1] = f

\* Every send future that is polled ends, if the peer keeps reading or closes.
SendersEnd == <>(\A f \in Futures : pc[f] \in {"done", "error", "cancelled"})

-----------------------------------------------------------------------------
(* The inductive invariant behind them                                     *)

\* Messages with and without fds are not sent on the same connection.  (When they
\* are, a message can overtake one with fds: the run SendStateMixed.)
Unmixed ==
  \A c \in FdChoices : \/ \A f \in Futures : c[2][f] = 0 \/ ~c[1] \/ c[2][f] > MaxFds
                       \/ \A f \in Futures : c[2][f] > 0

\* A RawOut that is not done, and the bytes it has still to write
Outs == {o \in [msg : Futures, written : Nat] : o.written < Size(o.msg)}
LeftOf(o) == [j \in 1 .. ToWrite(o) |-> <<o.msg, o.written + j>>]
LeftUpTo(q, i) == FlattenSeq([k \in 1 .. i |-> LeftOf(q[k])])
Left(q) == LeftUpTo(q, Len(q))

SendTypes ==
  /\ with_fd \in BOOLEAN /\ nfds \in [Futures -> Nat]
  /\ queue \in Seq(Outs) /\ idx \in Nat /\ out \in Outs \cup {None}
  /\ sendIdx \in [Futures -> Nat \cup {None}] /\ holder \in Futures \cup {None}
  /\ pc \in [Futures -> {"loop", "write", "flush", "done", "error", "cancelled"}]
  /\ wire \in Seq(Futures \X Nat) /\ fdLog \subseteq Futures \X Nat /\ closed \in BOOLEAN

\* SendState is used by the holder of the mutex alone.
Locked ==
  /\ \A f \in Futures : pc[f] \in {"write", "flush"} => holder = f
  /\ \A f \in Futures : pc[f] = "write" => out # None /\ out.msg = f /\ sendIdx[f] = None
  /\ out # None => \E f \in Futures : pc[f] = "write"
  /\ \A f \in Futures : pc[f] = "flush" => sendIdx[f] # None

\* What is still to be written; no message in it has fds that may not be sent.
Pending == IF out = None THEN queue ELSE Append(queue, out)
Sendable == \A k \in 1 .. Len(Pending) : ~Refuses(Pending[k].msg)

BaseInv == SendTypes /\ Locked /\ Sendable

\* What the peer saw and what is left to write.  Until the connection is closed
\* they make whole messages, none of a future that has not begun to send.
Stream == wire \o Left(Pending)
EndsWhole(s) == s # <<>> => s[Len(s)][2] = Size(s[Len(s)][1])
WholeStream ==
  /\ Framed(Stream) /\ EndsWhole(Stream)
  /\ \A f \in Futures : pc[f] = "loop" /\ sendIdx[f] = None =>
       \A i \in 1 .. Len(Stream) : Stream[i][1] # f

\* Only the message at the front is partly written.
FrontOnly == \A k \in 2 .. Len(Pending) : Pending[k].written = 0

\* The send index of a message is its place in the queue, until it is sent.
Indexed ==
  /\ Len(queue) <= idx
  /\ \A f \in Futures : sendIdx[f] # None =>
       /\ sendIdx[f] < idx
       /\ IF sendIdx[f] < CurrentIdx THEN <<f, Size(f)>> \in ToSet(wire)
          ELSE queue[sendIdx[f] - CurrentIdx + 1].msg = f

\* A message of which the peer saw something took its fds with it.
FdsLogged ==
  /\ \A e \in fdLog : e[2] \in 1 .. Len(wire) /\ wire[e[2]] = <<e[1], 1>>
  /\ \A i \in 1 .. Len(wire) : nfds[wire[i][1]] > 0 => \E e \in fdLog : e[1] = wire[i][1]

\* Either no message that is sent has fds, or all do (Unmixed).
Alike == (\A f \in Futures : nfds[f] = 0 \/ Refuses(f)) \/ (\A f \in Futures : nfds[f] > 0)

SendInv ==
  /\ BaseInv /\ FrontOnly /\ Indexed /\ FdsLogged /\ FramedWire /\ DoneMeansSent
  /\ (~closed => WholeStream) /\ Alike
=============================================================================

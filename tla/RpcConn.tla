------------------------------ MODULE RpcConn ------------------------------
(***************************************************************************)
(* The receive side of async-rustbus's RpcConn (src/src/lib.rs): every     *)
(* future that waits for something from the bus (the nested future of      *)
(* send_msg_w_rsp, get_call) runs the same loop, get_msg, in which         *)
(* whichever future owns the recv_data mutex reads the socket on behalf of *)
(* all of them and hands the others' messages over through one-shot        *)
(* channels (reply_map) or a call queue.                                   *)
(*                                                                         *)
(* A process of the model is one future.  A step is what a future does     *)
(* between two points at which another thread, the tokio I/O driver or the *)
(* peer can see or change the shared state.  The tokio Mutex, AsyncFd and  *)
(* one-shot channel, and the bus, are modelled from how lib.rs uses them.  *)
(***************************************************************************)
EXTENDS Naturals, Sequences, FiniteSets

CONSTANTS
  Calls,         \* futures made by send_msg_w_rsp, one method call each
  Listeners,     \* futures made by get_call on the one registered path
  Droppable,     \* the futures their owner may drop before they complete
  RemoteCalls,   \* method calls the peer makes on the registered path
  UnknownCalls,  \* method calls the peer makes on paths nobody registered
  Unanswerable,  \* those of them whose reply cannot be marshalled
  Faulty,        \* messages of the peer that RecvState refuses
  MaxSerial,     \* the largest serial: 2^32 - 1 in the code
  Wrap,          \* may a connection send more than MaxSerial messages?
  Chatter,       \* does the bus send signals no match rule asks for?
  Closes,        \* may the peer close the connection?
  Removes,       \* may the user remove the registered path?
  InboxCap,      \* bound of the model: messages waiting in the socket
  MaxForeign,    \* bound of the model: calls and faults the peer sends
  None,          \* no future, no message
  Err            \* an io::Error

Procs == Calls \cup Listeners
Remote == RemoteCalls \cup UnknownCalls
Foreign == Remote \cup Faulty
Serials == 1 .. MaxSerial

ASSUME ConstantsAssumption ==
  /\ Calls \cap Listeners = {}
  /\ Droppable \subseteq Procs
  /\ Foreign \cap Procs = {}
  /\ RemoteCalls \cap UnknownCalls = {} /\ Remote \cap Faulty = {}
  /\ Unanswerable \subseteq UnknownCalls
  /\ None \notin Procs \cup Foreign \cup {Err}
  /\ Err \notin Procs \cup Foreign
  /\ MaxSerial \in Nat /\ MaxSerial >= 2
  /\ InboxCap \in Nat /\ MaxForeign \in Nat
  /\ Wrap \in BOOLEAN /\ Chatter \in BOOLEAN
  /\ Closes \in BOOLEAN /\ Removes \in BOOLEAN

VARIABLES
  serial,      \* RpcConn.serial, an AtomicU32
  idx,         \* the serial each call was given (0: none yet)
  replyMap,    \* RecvData.reply_map: serial -> the call whose one-shot sender it holds
  chan,        \* contents of each call's one-shot channel
  callq,       \* the MsgQueue of the registered path
  qopen,       \* is the path's handler still in the hierarchy?
  lock,        \* owner of the recv_data mutex (also: future it was handed to)
  waiters,     \* futures queued for the mutex
  ahead,       \* for each future, those queued before it
  ready,       \* AsyncFd's cached read readiness
  fresh,       \* futures whose read guard carries the current readiness tick
  event,       \* the kernel has an epoll event for the driver
  pc,          \* where each future is
  got,         \* what each future returned
  replying,    \* the unhandled call each future is answering
  wire,        \* how far each call's bytes are: unsent, queued, sent
  inbox,       \* messages in the socket's receive buffer
  peer,        \* what the peer has done: calls answered, calls made, faults
  answered,    \* calls of the peer the connection itself replied to
  failed,      \* messages of the peer for which some future returned an error
  closed       \* the peer closed the connection

sharedVars == <<serial, idx, replyMap, chan, callq, qopen>>
lockVars == <<lock, waiters, ahead>>
readyVars == <<ready, fresh, event>>
futVars == <<pc, got, replying>>
netVars == <<wire, inbox, peer, answered, failed, closed>>
vars == <<sharedVars, lockVars, readyVars, futVars, netVars>>

Message == [kind : {"reply"}, id : Calls, serial : Serials]
             \cup [kind : {"call"}, id : Remote, serial : {0}]
             \cup [kind : {"signal"}, id : {None}, serial : {0}]
             \cup [kind : {"faulty"}, id : Faulty, serial : {0}]

\* Where a future can be.  "lock".."sending" belong to the outer future of
\* send_msg_w_rsp, "poll".."flushing" to get_msg, "spawned".."clean" to the
\* task that ResponseFuture's Drop spawns.
PC == {"start", "lock", "lock_wait", "prep", "sending", "poll", "readable",
       "reg", "woken", "sel", "sel_lock", "sel_wait", "read", "blocked",
       "answering", "flushing", "ret", "abandoned", "panicked", "spawned",
       "clean_wait", "clean", "gone"}

\* The nested future exists and has not returned.
InGetMsg == {"poll", "readable", "reg", "woken", "sel", "sel_lock", "sel_wait",
             "read", "blocked", "answering", "flushing"}
\* Between two polls, when the owner of the future can drop it.
Suspended == {"poll", "reg", "woken", "sel_wait", "flushing"}
\* Inside a critical section of recv_data; none of them awaits.
Critical == {"prep", "read", "blocked", "clean"}
\* Holding a lock future, in the mutex's queue or already handed the mutex.
Queued == {"lock_wait", "sel", "sel_lock", "sel_wait", "clean_wait"}

Init ==
  /\ serial = 2                       \* serial 1 went to Hello in RpcConn::new
  /\ idx = [c \in Calls |-> 0]
  /\ replyMap = [s \in Serials |-> None]
  /\ chan = [c \in Calls |-> None]
  /\ callq = <<>> /\ qopen = TRUE
  /\ lock = None /\ waiters = {} /\ ahead = [p \in Procs |-> {}]
  /\ ready = FALSE /\ fresh = {} /\ event = FALSE
  /\ pc = [p \in Procs |-> "start"]
  /\ got = [p \in Procs |-> None]
  /\ replying = [p \in Procs |-> None]
  /\ wire = [c \in Calls |-> "unsent"]
  /\ inbox = <<>>
  /\ peer = {} /\ answered = {} /\ failed = {} /\ closed = FALSE

-----------------------------------------------------------------------------
(* The mutex is fair: it is released to the future queued first, which     *)
(* then owns it whether or not it is ever polled again.                    *)

Goto(p, l) == pc' = [pc EXCEPT ![p] = l]

Unqueue(p) ==
  /\ waiters' = waiters \ {p}
  /\ ahead' = [q \in Procs |-> ahead[q] \ {p}]

MutexRelease ==
  \/ waiters = {} /\ lock' = None /\ UNCHANGED <<waiters, ahead>>
  \/ \E w \in waiters : ahead[w] = {} /\ lock' = w /\ Unqueue(w)

\* Poll recv_data.lock(): go to held if it is ours, else queue up at waiting.
MutexPoll(p, held, waiting) ==
  \/ /\ lock \in {None, p}
     /\ lock' = p
     /\ Goto(p, held)
     /\ UNCHANGED <<waiters, ahead>>
  \/ /\ lock \notin {None, p}
     /\ waiters' = waiters \cup {p}
     /\ ahead' = IF p \in waiters THEN ahead ELSE [ahead EXCEPT ![p] = waiters]
     /\ Goto(p, waiting)
     /\ UNCHANGED lock

\* Mistake: a dropped lock future that was handed the mutex keeps it.
MutexForgetQueueOnly(p) == lock' = lock /\ Unqueue(p)

\* Drop p's lock future: give up the mutex, or the place in its queue.
MutexForget(p) ==
  IF lock = p THEN MutexRelease ELSE lock' = lock /\ Unqueue(p)

-----------------------------------------------------------------------------
(* send_msg_w_rsp: allocate a serial, register the one-shot sender under   *)
(* the mutex, send the message.                                            *)

NextSerial == IF serial = 0 THEN 1 ELSE serial
\* Mistake: the counter leaves its 32 bits.
AllocateIdxUnbounded == (Wrap \/ serial # 0) /\ serial' = NextSerial + 1
\* Mistake: load without fetch_add.
AllocateIdxLoadOnly == (Wrap \/ serial # 0) /\ serial' = serial

AllocateIdx ==
  /\ Wrap \/ serial # 0
  /\ serial' = (NextSerial + 1) % (MaxSerial + 1)

\* The future is first polled: assert, allocate_idx.  get_call has no serial.
Start(p) ==
  /\ pc[p] = "start"
  /\ IF p \in Calls
     THEN AllocateIdx /\ idx' = [idx EXCEPT ![p] = NextSerial]
     ELSE UNCHANGED <<serial, idx>>
  /\ Goto(p, "lock")
  /\ UNCHANGED <<replyMap, chan, callq, qopen, got, replying, lockVars,
                 readyVars, netVars>>

LockPoll(p) ==
  /\ \/ pc[p] = "lock"
     \/ pc[p] = "lock_wait" /\ lock = p
  /\ MutexPoll(p, "prep", "lock_wait")
  /\ UNCHANGED <<sharedVars, readyVars, got, replying, netVars>>

\* get_recv_and_insert_sender.  HashMap::insert drops a sender it replaces.
InsertSender(c) ==
  /\ pc[c] = "prep"
  /\ replyMap' = [replyMap EXCEPT ![idx[c]] = c]
  /\ Goto(c, "sending")
  /\ MutexRelease
  /\ UNCHANGED <<serial, idx, chan, callq, qopen, readyVars, got, replying,
                 netVars>>

\* get_call: look the path up, clone the queue's receiver.
GetReceiver(l) ==
  /\ pc[l] = "prep"
  /\ IF qopen THEN Goto(l, "poll") /\ UNCHANGED got
     ELSE Goto(l, "ret") /\ got' = [got EXCEPT ![l] = Err]
  /\ MutexRelease
  /\ UNCHANGED <<sharedVars, readyVars, replying, netVars>>

\* send_msg_loop: the message enters SendState, its last byte is written (by
\* this future or by another that flushes the queue), the loop returns.
SendQueue(c) ==
  /\ pc[c] = "sending" /\ wire[c] = "unsent"
  /\ wire' = [wire EXCEPT ![c] = "queued"]
  /\ UNCHANGED <<sharedVars, lockVars, readyVars, futVars, inbox, peer,
                 answered, failed, closed>>

SendFlush(c) ==
  /\ wire[c] = "queued" /\ ~closed
  /\ wire' = [wire EXCEPT ![c] = "sent"]
  /\ UNCHANGED <<sharedVars, lockVars, readyVars, futVars, inbox, peer,
                 answered, failed, closed>>

SendReturn(c) ==
  /\ pc[c] = "sending" /\ wire[c] = "sent"
  /\ Goto(c, "poll")
  /\ UNCHANGED <<sharedVars, lockVars, readyVars, got, replying, netVars>>

\* Mistake: the outer future gives up although its bytes are in the queue.
SendFailQueued(c) ==
  /\ pc[c] = "sending" /\ wire[c] # "sent"
  /\ Goto(c, "abandoned")
  /\ got' = [got EXCEPT ![c] = Err]
  /\ UNCHANGED <<sharedVars, lockVars, readyVars, replying, netVars>>

\* Marshalling fails or the fds are refused before anything is written, or
\* the connection is gone.  The entry in reply_map stays.
SendFail(c) ==
  /\ pc[c] = "sending" /\ wire[c] # "sent"
  /\ wire[c] = "unsent" \/ closed
  /\ Goto(c, "abandoned")
  /\ got' = [got EXCEPT ![c] = Err]
  /\ UNCHANGED <<sharedVars, lockVars, readyVars, replying, netVars>>

-----------------------------------------------------------------------------
(* get_msg                                                                 *)

SenderAlive(c) == \E s \in Serials : replyMap[s] = c

\* What polling msg_fut would say.
HasMsg(p) == IF p \in Calls THEN chan[p] # None ELSE callq # <<>>
HasErr(p) == IF p \in Calls THEN chan[p] = None /\ ~SenderAlive(p)
             ELSE callq = <<>> /\ ~qopen

\* What remains of the queue q when p's receiver goes: the messages of a path
\* that was removed live on as long as some get_call has a receiver.
LeftIn(q, p) ==
  IF qopen \/ \E l \in Listeners \ {p} : pc[l] \in InGetMsg THEN q ELSE <<>>

\* msg_fut is ready: its select! or poll_once returns, the lock future goes.
TakeMsg(p) ==
  /\ HasMsg(p)
  /\ IF p \in Calls
     THEN /\ got' = [got EXCEPT ![p] = chan[p]]
          /\ chan' = [chan EXCEPT ![p] = None]
          /\ UNCHANGED callq
     ELSE /\ got' = [got EXCEPT ![p] = Head(callq)]
          /\ callq' = LeftIn(Tail(callq), p)
          /\ UNCHANGED chan
  /\ Goto(p, "ret")
  /\ MutexForget(p)
  /\ fresh' = fresh \ {p}

\* Its sender is gone: a panic for a reply, an error for a call queue.
TakeErr(p) ==
  /\ HasErr(p)
  /\ Goto(p, IF p \in Calls THEN "panicked" ELSE "ret")
  /\ got' = [got EXCEPT ![p] = Err]
  /\ MutexForget(p)
  /\ fresh' = fresh \ {p}
  /\ UNCHANGED <<chan, callq>>

\* Poll msg_fut: return what it holds, else go on at pending.
PollMsg(p, pending) ==
  \/ TakeMsg(p)
  \/ TakeErr(p)
  \/ /\ ~HasMsg(p) /\ ~HasErr(p)
     /\ Goto(p, pending)
     /\ UNCHANGED <<got, chan, callq, lockVars, fresh>>

PollOnce(p) ==
  /\ pc[p] = "poll"
  /\ PollMsg(p, "readable")
  /\ UNCHANGED <<serial, idx, replyMap, qopen, ready, event, replying, netVars>>

\* self.conn.readable().await: returns at once if the cached readiness is
\* set, else the future registers with the driver.  msg_fut is not polled.
Readable(p) ==
  /\ pc[p] = "readable"
  /\ IF ready THEN Goto(p, "sel") /\ fresh' = fresh \cup {p}
     ELSE Goto(p, "reg") /\ UNCHANGED fresh
  /\ UNCHANGED <<sharedVars, lockVars, ready, event, got, replying, netVars>>

ReadableWoken(p) ==
  /\ pc[p] = "woken"
  /\ Goto(p, "sel")
  /\ fresh' = fresh \cup {p}
  /\ UNCHANGED <<sharedVars, lockVars, ready, event, got, replying, netVars>>

\* tokio::select! { biased; msg_fut, then recv_data.lock() }
SelectMsg(p) ==
  /\ pc[p] = "sel"
  /\ PollMsg(p, "sel_lock")
  /\ UNCHANGED <<serial, idx, replyMap, qopen, ready, event, replying, netVars>>

SelectLock(p) ==
  /\ pc[p] = "sel_lock"
  /\ MutexPoll(p, "read", "sel_wait")
  /\ UNCHANGED <<sharedVars, readyVars, got, replying, netVars>>

SelectWake(p) ==
  /\ pc[p] = "sel_wait"
  /\ lock = p \/ HasMsg(p) \/ HasErr(p)
  /\ Goto(p, "sel")
  /\ UNCHANGED <<sharedVars, lockVars, readyVars, got, replying, netVars>>

-----------------------------------------------------------------------------
(* queue_msg, by the owner of the mutex: one message per step              *)

Pred(p, m) ==
  \/ m.kind = "reply" /\ p \in Calls /\ m.serial = idx[p]
  \/ m.kind = "call" /\ p \in Listeners /\ qopen /\ m.id \in RemoteCalls

Handled(m) == m.kind = "call" /\ qopen /\ m.id \in RemoteCalls

ReadMine(p) ==
  /\ pc[p] = "read" /\ inbox # <<>> /\ Pred(p, Head(inbox))
  /\ inbox' = Tail(inbox)
  /\ got' = [got EXCEPT ![p] = Head(inbox).id]
  /\ Goto(p, "ret")
  /\ fresh' = fresh \ {p}
  /\ MutexRelease
  /\ UNCHANGED <<sharedVars, ready, event, replying, wire, peer, answered,
                 failed, closed>>

\* queue_sig with no matching rule
ReadSignal(p) ==
  /\ pc[p] = "read" /\ inbox # <<>> /\ Head(inbox).kind = "signal"
  /\ inbox' = Tail(inbox)
  /\ UNCHANGED <<sharedVars, lockVars, readyVars, futVars, wire, peer,
                 answered, failed, closed>>

\* Mistake: a reply that overtakes the outer future's return is discarded.
HandOverNestedOnly(m) ==
  LET c == replyMap[m.serial] IN
  IF c = None THEN UNCHANGED <<replyMap, chan>>
  ELSE /\ replyMap' = [replyMap EXCEPT ![m.serial] = None]
       /\ chan' = IF pc[c] \in InGetMsg THEN [chan EXCEPT ![c] = m.id] ELSE chan

\* reply_map.remove, then send to the one-shot; a dropped receiver is ignored
HandOver(m) ==
  LET c == replyMap[m.serial] IN
  IF c = None THEN UNCHANGED <<replyMap, chan>>
  ELSE /\ replyMap' = [replyMap EXCEPT ![m.serial] = None]
       /\ chan' = IF pc[c] \in InGetMsg \cup {"sending"}
                  THEN [chan EXCEPT ![c] = m.id] ELSE chan

ReadReply(p) ==
  /\ pc[p] = "read" /\ inbox # <<>>
  /\ Head(inbox).kind = "reply" /\ ~Pred(p, Head(inbox))
  /\ inbox' = Tail(inbox)
  /\ HandOver(Head(inbox))
  /\ UNCHANGED <<serial, idx, callq, qopen, lockVars, readyVars, futVars, wire,
                 peer, answered, failed, closed>>

\* Mistake: the call is only queued if some get_call is waiting for it.
ReadCallIfAwaited(p) ==
  /\ pc[p] = "read" /\ inbox # <<>>
  /\ Handled(Head(inbox)) /\ ~Pred(p, Head(inbox))
  /\ inbox' = Tail(inbox)
  /\ callq' = IF \E l \in Listeners : pc[l] \in InGetMsg
              THEN Append(callq, Head(inbox).id) ELSE callq
  /\ UNCHANGED <<serial, idx, replyMap, chan, qopen, lockVars, readyVars,
                 futVars, wire, peer, answered, failed, closed>>

ReadCall(p) ==
  /\ pc[p] = "read" /\ inbox # <<>>
  /\ Handled(Head(inbox)) /\ ~Pred(p, Head(inbox))
  /\ inbox' = Tail(inbox)
  /\ callq' = Append(callq, Head(inbox).id)
  /\ UNCHANGED <<serial, idx, replyMap, chan, qopen, lockVars, readyVars,
                 futVars, wire, peer, answered, failed, closed>>

\* hierarchy.send returns the reply to send, most often an error
ReadUnknown(p) ==
  /\ pc[p] = "read" /\ inbox # <<>>
  /\ Head(inbox).kind = "call" /\ ~Handled(Head(inbox))
  /\ inbox' = Tail(inbox)
  /\ replying' = [replying EXCEPT ![p] = Head(inbox).id]
  /\ Goto(p, "answering")
  /\ fresh' = fresh \ {p}
  /\ MutexRelease
  /\ UNCHANGED <<sharedVars, ready, event, got, wire, peer, answered, failed,
                 closed>>

ReadWouldBlock(p) ==
  /\ pc[p] = "read" /\ inbox = <<>> /\ ~closed
  /\ Goto(p, "blocked")
  /\ UNCHANGED <<sharedVars, lockVars, readyVars, got, replying, netVars>>

\* AsyncFdReadyGuard::clear_ready does nothing if the tick moved on
ClearReady(p) ==
  /\ pc[p] = "blocked"
  /\ ready' = (ready /\ p \notin fresh)
  /\ fresh' = fresh \ {p}
  /\ Goto(p, "readable")
  /\ MutexRelease
  /\ UNCHANGED <<sharedVars, event, got, replying, netVars>>

\* Mistake: a read of 0 bytes is taken for "nothing yet".
ReadEofBlocks(p) ==
  /\ pc[p] = "read" /\ inbox = <<>> /\ closed
  /\ Goto(p, "blocked")
  /\ UNCHANGED <<sharedVars, lockVars, readyVars, got, replying, netVars>>

ReadEof(p) ==
  /\ pc[p] = "read" /\ inbox = <<>> /\ closed
  /\ got' = [got EXCEPT ![p] = Err]
  /\ Goto(p, "ret")
  /\ fresh' = fresh \ {p}
  /\ callq' = LeftIn(callq, p)
  /\ MutexRelease
  /\ UNCHANGED <<serial, idx, replyMap, chan, qopen, ready, event, replying, netVars>>

\* Mistake: the message stays in RecvState, for the next reader to fail on.
ReadFaultStays(p) ==
  /\ pc[p] = "read" /\ inbox # <<>> /\ Head(inbox).kind = "faulty"
  /\ failed' = failed \cup {Head(inbox).id}
  /\ got' = [got EXCEPT ![p] = Err]
  /\ Goto(p, "ret")
  /\ fresh' = fresh \ {p}
  /\ callq' = LeftIn(callq, p)
  /\ MutexRelease
  /\ UNCHANGED <<serial, idx, replyMap, chan, qopen, ready, event, replying, wire,
                 inbox, peer, answered, closed>>

\* get_next_message returns an error to whoever reads: too many or too few fds
\* came with the message, which is gone while the connection stays open, or
\* the message is malformed and the stream is shut down.
ReadFault(p) ==
  /\ pc[p] = "read" /\ inbox # <<>> /\ Head(inbox).kind = "faulty"
  /\ inbox' = Tail(inbox)
  /\ failed' = failed \cup {Head(inbox).id}
  /\ got' = [got EXCEPT ![p] = Err]
  /\ \/ UNCHANGED <<closed, event>>
     \/ closed' = TRUE /\ event' = TRUE
  /\ Goto(p, "ret")
  /\ fresh' = fresh \ {p}
  /\ callq' = LeftIn(callq, p)
  /\ MutexRelease
  /\ UNCHANGED <<serial, idx, replyMap, chan, qopen, ready, replying, wire, peer,
                 answered>>

\* self.send_msg_wo_rsp(&msg).await?: a serial, then send_msg_loop
Answer(p) ==
  /\ pc[p] = "answering"
  /\ AllocateIdx
  /\ Goto(p, "flushing")
  /\ UNCHANGED <<idx, replyMap, chan, callq, qopen, lockVars, readyVars, got,
                 replying, netVars>>

\* ... which ends once the reply is written; then around the loop again.
AnswerSent(p) ==
  /\ pc[p] = "flushing" /\ ~closed /\ replying[p] \notin Unanswerable
  /\ answered' = answered \cup {replying[p]}
  /\ replying' = [replying EXCEPT ![p] = None]
  /\ Goto(p, "readable")
  /\ UNCHANGED <<sharedVars, lockVars, readyVars, got, wire, inbox, peer, failed,
                 closed>>

\* The reply cannot be marshalled or the connection is gone: the error ends the
\* future that read the call, and the call stays without a reply.
AnswerFail(p) ==
  /\ pc[p] = "flushing" /\ (closed \/ replying[p] \in Unanswerable)
  /\ failed' = failed \cup ({replying[p]} \cap Unanswerable)
  /\ got' = [got EXCEPT ![p] = Err]
  /\ replying' = [replying EXCEPT ![p] = None]
  /\ Goto(p, "ret")
  /\ callq' = LeftIn(callq, p)
  /\ UNCHANGED <<serial, idx, replyMap, chan, qopen, lockVars, readyVars, wire,
                 inbox, peer, answered, closed>>

-----------------------------------------------------------------------------
(* Dropping futures                                                        *)

\* A future goes with the reply it was sending.  If SendState already has the
\* reply, it is written with the next flush; if not, the call has no reply.
DropAnswer(p) ==
  /\ replying' = [replying EXCEPT ![p] = None]
  /\ \/ UNCHANGED answered
     \/ /\ ~closed /\ replying[p] \notin Unanswerable \cup {None}
        /\ answered' = answered \cup {replying[p]}

\* The outer future, or a get_call future, is dropped between two polls.
Cancel(p) ==
  /\ p \in Droppable
  /\ pc[p] \in IF p \in Calls THEN {"lock_wait", "sending"}
               ELSE {"lock_wait"} \cup Suspended
  /\ Goto(p, "abandoned")
  /\ MutexForget(p)
  /\ fresh' = fresh \ {p}
  /\ DropAnswer(p)
  /\ callq' = LeftIn(callq, p)
  /\ UNCHANGED <<serial, idx, replyMap, chan, qopen, ready, event, got, wire, inbox,
                 peer, failed, closed>>

\* Mistake: nothing is spawned when try_lock fails.
DropResponseTryOnly(c) ==
  /\ \/ pc[c] = "ret"
     \/ c \in Droppable /\ pc[c] \in Suspended
  /\ fresh' = fresh \ {c}
  /\ chan' = [chan EXCEPT ![c] = None]
  /\ Goto(c, "gone")
  /\ IF lock = None
     THEN replyMap' = [replyMap EXCEPT ![idx[c]] = None] /\ UNCHANGED lockVars
     ELSE MutexForget(c) /\ UNCHANGED replyMap
  /\ DropAnswer(c)
  /\ UNCHANGED <<serial, idx, callq, qopen, ready, event, got, wire, inbox, peer,
                 failed, closed>>

\* Drop for ResponseFuture, before or after it returned: try_lock, else spawn
\* a task that cleans up; then the fields go, a queued lock future with them.
DropResponse(c) ==
  /\ \/ pc[c] = "ret"
     \/ c \in Droppable /\ pc[c] \in Suspended
  /\ fresh' = fresh \ {c}
  /\ chan' = [chan EXCEPT ![c] = None]
  /\ IF lock = None
     THEN /\ replyMap' = [replyMap EXCEPT ![idx[c]] = None]
          /\ Goto(c, "gone")
          /\ UNCHANGED lockVars
     ELSE /\ Goto(c, "spawned")
          /\ MutexForget(c)
          /\ UNCHANGED replyMap
  /\ DropAnswer(c)
  /\ UNCHANGED <<serial, idx, callq, qopen, ready, event, got, wire, inbox, peer,
                 failed, closed>>

\* Mistake: the spawned task gives up when the mutex is taken.
CleanPollTry(c) ==
  /\ pc[c] = "spawned"
  /\ IF lock = None THEN lock' = c /\ Goto(c, "clean")
     ELSE Goto(c, "gone") /\ UNCHANGED lock
  /\ UNCHANGED <<waiters, ahead, sharedVars, readyVars, got, replying, netVars>>

CleanPoll(c) ==
  /\ \/ pc[c] = "spawned"
     \/ pc[c] = "clean_wait" /\ lock = c
  /\ MutexPoll(c, "clean", "clean_wait")
  /\ UNCHANGED <<sharedVars, readyVars, got, replying, netVars>>

Clean(c) ==
  /\ pc[c] = "clean"
  /\ replyMap' = [replyMap EXCEPT ![idx[c]] = None]
  /\ Goto(c, "gone")
  /\ MutexRelease
  /\ UNCHANGED <<serial, idx, chan, callq, qopen, readyVars, got, replying, netVars>>

\* insert_call_path(path, CallAction::Drop): the queue goes, with the calls in
\* it unless a get_call has a receiver of it.
RemovePath ==
  /\ Removes /\ qopen /\ lock = None
  /\ qopen' = FALSE
  /\ callq' = IF \E l \in Listeners : pc[l] \in InGetMsg THEN callq ELSE <<>>
  /\ UNCHANGED <<serial, idx, replyMap, chan, lockVars, readyVars, futVars, netVars>>

-----------------------------------------------------------------------------
(* The peer, the kernel and tokio's I/O driver                             *)

Arrive(m) ==
  /\ ~closed /\ Len(inbox) < InboxCap
  /\ inbox' = Append(inbox, m)
  /\ event' = TRUE
  /\ UNCHANGED <<sharedVars, lockVars, ready, fresh, futVars, wire, answered,
                 failed, closed>>

PeerReply(c) ==
  /\ wire[c] = "sent" /\ c \notin peer
  /\ peer' = peer \cup {c}
  /\ Arrive([kind |-> "reply", id |-> c, serial |-> idx[c]])

\* The bound of the model on what the peer sends of its own.
MoreForeign == Cardinality(peer \cap Foreign) < MaxForeign

PeerCall(r) ==
  /\ MoreForeign /\ r \notin peer
  /\ peer' = peer \cup {r}
  /\ Arrive([kind |-> "call", id |-> r, serial |-> 0])

PeerFault(f) ==
  /\ MoreForeign /\ f \notin peer
  /\ peer' = peer \cup {f}
  /\ Arrive([kind |-> "faulty", id |-> f, serial |-> 0])

PeerSignal ==
  /\ Chatter
  /\ Arrive([kind |-> "signal", id |-> None, serial |-> 0])
  /\ UNCHANGED peer

PeerClose ==
  /\ Closes /\ ~closed
  /\ closed' = TRUE /\ event' = TRUE
  /\ UNCHANGED <<sharedVars, lockVars, ready, fresh, futVars, wire, inbox, peer,
                 answered, failed>>

\* The driver turns an epoll event into readiness with a new tick, and flags
\* every registered future.
DriverEvent ==
  /\ event
  /\ event' = FALSE /\ ready' = TRUE /\ fresh' = {}
  /\ pc' = [p \in Procs |-> IF pc[p] = "reg" THEN "woken" ELSE pc[p]]
  /\ UNCHANGED <<sharedVars, lockVars, got, replying, netVars>>

-----------------------------------------------------------------------------
GetMsgStep(p) ==
  \/ PollOnce(p) \/ Readable(p) \/ ReadableWoken(p)
  \/ SelectMsg(p) \/ SelectLock(p) \/ SelectWake(p)
  \/ ReadMine(p) \/ ReadSignal(p) \/ ReadReply(p) \/ ReadCall(p)
  \/ ReadUnknown(p) \/ ReadWouldBlock(p) \/ ReadEof(p) \/ ReadFault(p)
  \/ ClearReady(p) \/ Answer(p) \/ AnswerSent(p) \/ AnswerFail(p)

CallStep(c) ==
  \/ InsertSender(c) \/ SendQueue(c) \/ SendFlush(c) \/ SendReturn(c)
  \/ CleanPoll(c) \/ Clean(c)

\* The steps a future or a spawned task takes because it is polled.
Polled(p) ==
  \/ Start(p) \/ LockPoll(p) \/ GetMsgStep(p)
  \/ p \in Calls /\ CallStep(p)
  \/ p \in Calls /\ pc[p] = "ret" /\ DropResponse(p)
  \/ p \in Calls /\ closed /\ SendFail(p)
  \/ p \in Listeners /\ GetReceiver(p)

Next ==
  \/ \E p \in Procs : Start(p) \/ LockPoll(p) \/ GetMsgStep(p) \/ Cancel(p)
  \/ \E c \in Calls : CallStep(c) \/ SendFail(c) \/ DropResponse(c) \/ PeerReply(c)
  \/ \E l \in Listeners : GetReceiver(l)
  \/ \E r \in Remote : PeerCall(r)
  \/ \E f \in Faulty : PeerFault(f)
  \/ RemovePath \/ PeerSignal \/ PeerClose \/ DriverEvent

Spec == Init /\ [][Next]_vars

\* Every future is polled when it is woken (its owner awaits it or drops it), the
\* driver runs, and the bus answers what it was asked.
Fairness ==
  /\ \A p \in Procs : WF_vars(Polled(p))
  /\ \A c \in Calls : WF_vars(PeerReply(c))
  /\ WF_vars(DriverEvent)

FairSpec == Spec /\ Fairness
\* ... and signals keep arriving, though not so fast that a reader that holds
\* the mutex never finds the socket empty.
BusySpec ==
  /\ FairSpec
  /\ WF_vars(PeerSignal)
  /\ \A p \in Procs : SF_vars(ReadWouldBlock(p))

-----------------------------------------------------------------------------
(* Properties                                                              *)

SharedType ==
  /\ serial \in 0 .. MaxSerial
  /\ idx \in [Calls -> 0 .. MaxSerial]
  /\ replyMap \in [Serials -> Calls \cup {None}]
  /\ chan \in [Calls -> Calls \cup {None}]
  /\ callq \in Seq(RemoteCalls)
  /\ qopen \in BOOLEAN

LockType ==
  /\ lock \in Procs \cup {None}
  /\ waiters \subseteq Procs
  /\ ahead \in [Procs -> SUBSET Procs]

ReadyType ==
  /\ ready \in BOOLEAN
  /\ fresh \subseteq Procs
  /\ event \in BOOLEAN

FutType ==
  /\ pc \in [Procs -> PC]
  /\ got \in [Procs -> Calls \cup RemoteCalls \cup {None, Err}]
  /\ replying \in [Procs -> Remote \cup {None}]

NetType ==
  /\ wire \in [Calls -> {"unsent", "queued", "sent"}]
  /\ inbox \in Seq(Message)
  /\ peer \subseteq Calls \cup Foreign
  /\ answered \subseteq Remote \cup {None}
  /\ failed \subseteq Faulty \cup Unanswerable
  /\ closed \in BOOLEAN

\* Every variable of RpcConn, of its futures and of the connection keeps its
\* type; the serial stays within its 32 bits.
TypeOK == SharedType /\ LockType /\ ReadyType /\ FutType /\ NetType

\* The mutex, and every place in its queue, belongs to a future (or cleanup
\* task) that will still look at it: a future that is dropped or returns
\* after the mutex was handed to it (the biased select! returns msg_fut's
\* value without looking at the lock) passes it on, and nobody is left
\* queueing for a free mutex.
NoOrphanLock ==
  /\ lock # None => pc[lock] \in Critical \cup Queued
  /\ \A w \in waiters : w # lock /\ pc[w] \in Queued
  /\ lock = None => waiters = {}

\* A future only ever gets the reply to its own call (or an error), whoever
\* read it from the socket and whatever was dropped in between.
ReplyToCaller ==
  \A c \in Calls : chan[c] \in {None, c} /\ got[c] \in {None, Err, c}

\* "Message reply channel should never be closed" (lib.rs:527): a future that
\* polls its channel finds the sender still in reply_map or a message.
NoPanic == \A c \in Calls : pc[c] # "panicked"

\* As long as the future that waits for it is alive, a reply the peer sent is
\* in the socket or in that future's channel: no other reader discards it.
NoReplyLost ==
  \A c \in Calls : c \in peer /\ pc[c] \in InGetMsg \cup {"sending"} =>
    \/ chan[c] = c
    \/ \E i \in 1 .. Len(inbox) : inbox[i].kind = "reply" /\ inbox[i].id = c

\* Once a nested future is dropped and its cleanup ran, reply_map holds
\* nothing of it ("cleaned up apporiately", README.md:32); every entry is
\* found under the serial its call will look for.
NoLeak ==
  \A s \in Serials : replyMap[s] # None =>
    pc[replyMap[s]] # "gone" /\ idx[replyMap[s]] = s

\* RpcConn implements Connection: whatever is interleaved or dropped, a call
\* returns only its own reply, once and after the peer sent it; an error on a
\* connection that is open, of a call that was sent or on a path that is
\* registered, is due to one message of the peer, which makes no other future
\* fail; a call whose sending failed is never sent; a call of the peer goes to
\* one get_call or gets one reply, never both.
Promise == INSTANCE Connection WITH
  sent <- {c \in Calls : wire[c] = "sent"},
  replied <- peer \cap Calls,
  result <- got,
  made <- peer \cap Foreign,
  refused <- answered,
  open <- qopen
Promises == Promise!Spec

-----------------------------------------------------------------------------
(* The inductive invariants behind them                                    *)

\* The nested or outer future still holds the channel's receiver.
Receiving == InGetMsg \cup {"sending"}

LockInv ==
  /\ \A p \in Procs : pc[p] \in Critical => lock = p
  /\ NoOrphanLock

\* A call that was polled has a serial, and one that was sent was registered.
Begun ==
  /\ \A c \in Calls : pc[c] # "start" <=> idx[c] # 0
  /\ \A c \in Calls : wire[c] # "unsent" =>
       pc[c] \notin {"start", "lock", "lock_wait", "prep"}

\* What holds although the serials may wrap around.
BaseInv == TypeOK /\ LockInv /\ Begun

\* From here on: as long as they do not.
\* Serials are handed out once, in increasing order.
SerialInv ==
  /\ \A c \in Calls : pc[c] # "start" <=> idx[c] # 0
  /\ \A c \in Calls : serial # 0 => idx[c] < serial
  /\ \A c, d \in Calls : idx[c] = idx[d] /\ idx[c] # 0 => c = d

\* An entry of reply_map belongs to the call with that serial, from the moment
\* it is inserted until its reply is taken or its cleanup ran.
MapInv ==
  /\ \A s \in Serials : replyMap[s] # None =>
       /\ idx[replyMap[s]] = s
       /\ pc[replyMap[s]] \notin {"start", "lock", "lock_wait", "prep", "gone"}
  /\ \A c \in Calls : pc[c] \in Receiving => chan[c] = c \/ replyMap[idx[c]] = c

\* Replies in the socket carry the serial of the call they answer.
PeerInv ==
  /\ \A i \in 1 .. Len(inbox) : inbox[i].kind = "reply" =>
       inbox[i].serial = idx[inbox[i].id] /\ inbox[i].id \in peer
  /\ \A c \in Calls : c \in peer => wire[c] = "sent"
  /\ \A c \in Calls : wire[c] # "unsent" =>
       pc[c] \notin {"start", "lock", "lock_wait", "prep"}

ReplyInv ==
  /\ SerialInv /\ MapInv /\ PeerInv
  /\ ReplyToCaller /\ NoPanic /\ NoReplyLost

IInv == TypeOK /\ LockInv /\ ReplyInv

-----------------------------------------------------------------------------
Places(r) ==
  {<<"inbox", i>> : i \in {j \in 1 .. Len(inbox) : inbox[j].id = r}}
    \cup {<<"queue", i>> : i \in {j \in 1 .. Len(callq) : callq[j] = r}}
    \cup {<<"got", p>> : p \in {q \in Procs : got[q] = r}}
    \cup {<<"replying", p>> : p \in {q \in Procs : replying[q] = r}}
    \cup {<<"answered", a>> : a \in answered \cap {r}}
    \cup {<<"failed", a>> : a \in failed \cap {r}}

Holds(f, r) == \E i \in DOMAIN f : f[i] = r
NotTwice(f, r) == \A i, j \in DOMAIN f : f[i] = r /\ f[j] = r => i = j
Ids(s) == [i \in DOMAIN s |-> s[i].id]

\* On its way to a get_call, or with the one that returned it.
Reaching(r) == Holds(Ids(inbox), r) \/ Holds(callq, r) \/ Holds(got, r)

\* A future was dropped before it returned anything.
Dropped(p) == got[p] = None /\ pc[p] \in {"abandoned", "spawned", "clean_wait", "clean", "gone"}

\* What is lost with a connection or a future is not held against RpcConn.
Excused == closed \/ \E p \in Droppable : Dropped(p)

\* What the peer sends of its own (a call, a faulty message) is in at most one
\* place: the socket, the path's queue, one get_call's result, one future that
\* answers it, answered, or reported as one future's error.  A call on a path
\* that is registered is neither lost nor refused, whoever reads it and
\* whoever is dropped; any other is lost only if the connection was closed or
\* a future was dropped.
CallInOnePlace ==
  /\ \A r \in Foreign \cap peer : Cardinality(Places(r)) <= 1
  /\ qopen => \A r \in RemoteCalls \cap peer : Reaching(r)
  /\ \A r \in (Foreign \ RemoteCalls) \cap peer :
       Places(r) # {} \/ Excused

\* The inductive invariant behind it, without counting: nothing the peer sent
\* occurs twice in one place,
NowhereTwice ==
  \A r \in Foreign : /\ NotTwice(Ids(inbox), r) /\ NotTwice(callq, r)
                      /\ NotTwice(got, r) /\ NotTwice(replying, r)

Somewhere(r) == Reaching(r) \/ Holds(replying, r) \/ r \in answered \/ r \in failed

\* nor in two places, nor anywhere before the peer sent it,
InOne(r) ==
  /\ Holds(Ids(inbox), r) =>
       /\ ~Holds(callq, r) /\ ~Holds(got, r) /\ ~Holds(replying, r)
       /\ r \notin answered /\ r \notin failed
  /\ Holds(callq, r) =>
       ~Holds(got, r) /\ ~Holds(replying, r) /\ r \notin answered /\ r \notin failed
  /\ Holds(got, r) => ~Holds(replying, r) /\ r \notin answered /\ r \notin failed
  /\ Holds(replying, r) => r \notin answered /\ r \notin failed
  /\ r \in answered => r \notin failed
  /\ Somewhere(r) => r \in peer

\* and it does not disappear.
Kept(r) ==
  /\ r \in RemoteCalls \cap peer /\ qopen => Reaching(r)
  /\ r \in peer \ RemoteCalls => Somewhere(r) \/ Excused

\* A future that has not returned or been dropped has returned nothing, and has
\* a reply to send only while it sends it.
Unfinished == {"start", "lock", "lock_wait", "prep", "sending"} \cup InGetMsg
EmptyHanded ==
  \A p \in Procs :
    /\ pc[p] \in Unfinished => got[p] = None
    /\ pc[p] \notin {"answering", "flushing"} => replying[p] = None

PlaceInv == EmptyHanded /\ NowhereTwice /\ \A r \in Foreign : InOne(r) /\ Kept(r)

Over(p) == pc[p] \in {"start", "ret", "abandoned", "spawned", "clean_wait",
                      "clean", "gone"}

\* After the peer closes, every future that is polled ends: it returns a
\* message that was already there or an error, and nobody sleeps on.
CloseEndsAll == closed ~> (\A p \in Procs : Over(p))

\* The spawned cleanup task finds the mutex free eventually.
CleanupRuns ==
  \A c \in Calls : (pc[c] = "spawned") ~>
    (pc[c] = "gone" /\ \A s \in Serials : replyMap[s] # c)

\* "The inner future, returned by the outer, waits for the response from the
\* remote service" (lib.rs:438): once the bus sent the response the future returns
\* it, unless its owner drops it.
ReplyReturns ==
  \A c \in Calls :
    (c \in peer) ~> (got[c] = c \/ pc[c] \in {"abandoned", "gone"})

-----------------------------------------------------------------------------
\* What the refinement needs besides: where a message is says what happened.
\* A reply in a channel was sent by the peer.
Arrived == \A c \in Calls : chan[c] # None => chan[c] \in peer

\* A call is sent before its nested future runs, and one that failed while its
\* bytes were queued failed because the connection is closed.
SentFirst ==
  /\ \A c \in Calls : pc[c] \in InGetMsg => wire[c] = "sent"
  /\ \A c \in Calls : wire[c] = "queued" => got[c] = None \/ closed

\* A future that answers a call has one, and the handler it lacked stays away.
Unhandled ==
  /\ \A p \in Procs : pc[p] \in {"answering", "flushing"} => replying[p] # None
  /\ \A p \in Procs : replying[p] \in RemoteCalls => ~qopen

PromiseInv == Arrived /\ SentFirst /\ Unhandled
=============================================================================

--------------------------- MODULE RpcConnProofs ---------------------------
(* Proofs about RpcConn, for any number of futures, messages and serials. *)
EXTENDS RpcConn, FiniteSetTheorems, SequenceTheorems, TLAPS

USE DEF Procs, Remote, Foreign, Serials

\* Releasing the mutex keeps the types of its variables.
LEMMA ReleaseType == LockType /\ MutexRelease => LockType'
  BY DEF LockType, MutexRelease, Unqueue

\* So does dropping a lock future.
LEMMA ForgetType == \A p : LockType /\ MutexForget(p) => LockType'
  BY ReleaseType DEF LockType, MutexForget, Unqueue

\* So does polling one; the future goes to a legal place.
LEMMA PollType ==
  \A p \in Procs : \A held, waiting \in PC :
     LockType /\ FutType /\ MutexPoll(p, held, waiting)
       => LockType' /\ pc' \in [Procs -> PC]
  BY DEF LockType, FutType, MutexPoll, Goto

\* allocate_idx yields a nonzero serial and keeps the counter in its width.
LEMMA AllocateType ==
  SharedType /\ AllocateIdx => serial' \in 0 .. MaxSerial /\ NextSerial \in Serials
<1> SUFFICES ASSUME SharedType, AllocateIdx
             PROVE  serial' \in 0 .. MaxSerial /\ NextSerial \in Serials
  OBVIOUS
<1>1. NextSerial \in Serials
  BY ConstantsAssumption DEF SharedType, NextSerial
<1>2. \A n \in Nat, m \in Nat : m > 0 => n % m \in 0 .. m - 1
  OBVIOUS
<1>3. (NextSerial + 1) % (MaxSerial + 1) \in 0 .. MaxSerial
  BY <1>1, <1>2, ConstantsAssumption
<1> QED
  BY <1>1, <1>3 DEF AllocateIdx

\* Reading a message takes one of the messages' kinds off the socket.
LEMMA InboxHead ==
  ASSUME NetType, inbox # <<>>
  PROVE  /\ Head(inbox) \in Message
         /\ Tail(inbox) \in Seq(Message)
         /\ Head(inbox) = inbox[1] /\ Len(inbox) >= 1
  BY DEF NetType

\* A queue whose last receiver goes is emptied or left alone.
LEMMA LeftIs ==
  ASSUME NEW q, NEW p
  PROVE  LeftIn(q, p) = q \/ (LeftIn(q, p) = <<>> /\ ~qopen)
  BY DEF LeftIn

\* The queue's calls stay calls of the peer.
LEMMA LeftType ==
  ASSUME NEW q \in Seq(RemoteCalls), NEW p
  PROVE  LeftIn(q, p) \in Seq(RemoteCalls)
<1>1. <<>> \in Seq(RemoteCalls)
  OBVIOUS
<1> QED BY <1>1 DEF LeftIn

\* What is sent for a future that is dropped is a reply to some call.
LEMMA DropAnswerType ==
  ASSUME TypeOK, NEW p \in Procs, DropAnswer(p)
  PROVE  /\ replying' \in [Procs -> Remote \cup {None}]
         /\ answered' \subseteq Remote \cup {None}
  BY DEF DropAnswer, TypeOK, FutType, NetType

\* Polling msg_fut keeps the types of what it may change.
LEMMA PollMsgType ==
  ASSUME TypeOK, NEW p \in Procs, NEW pending \in PC, PollMsg(p, pending)
  PROVE  /\ LockType'
         /\ pc' \in [Procs -> PC]
         /\ got' \in [Procs -> Calls \cup RemoteCalls \cup {None, Err}]
         /\ chan' \in [Calls -> Calls \cup {None}]
         /\ callq' \in Seq(RemoteCalls)
         /\ fresh' \subseteq Procs
<1>1. CASE TakeMsg(p)
  <2>1. LockType' /\ fresh' \subseteq Procs /\ pc' \in [Procs -> PC]
    BY <1>1, ForgetType DEF TakeMsg, TypeOK, ReadyType, FutType, Goto, PC
  <2>2. CASE p \in Calls
    BY <1>1, <2>1, <2>2 DEF TakeMsg, TypeOK, SharedType, FutType
  <2>3. CASE p \notin Calls
    <3>1. callq # <<>>
      BY <1>1, <2>3 DEF TakeMsg, HasMsg
    <3>2. Head(callq) \in RemoteCalls /\ Tail(callq) \in Seq(RemoteCalls)
      BY <3>1 DEF TypeOK, SharedType
    <3>3. LeftIn(Tail(callq), p) \in Seq(RemoteCalls)
      BY <3>2, LeftType
    <3> QED
      BY <1>1, <2>1, <2>3, <3>2, <3>3, ZenonT(60) DEF TakeMsg, TypeOK, SharedType, FutType
  <2> QED BY <2>2, <2>3
<1>2. CASE TakeErr(p)
  BY <1>2, ForgetType DEF TakeErr, TypeOK, SharedType, ReadyType, FutType, Goto, PC
<1>3. CASE /\ Goto(p, pending)
           /\ UNCHANGED <<got, chan, callq, lockVars, fresh>>
  BY <1>3 DEF TypeOK, SharedType, LockType, ReadyType, FutType, Goto, lockVars
<1> QED
  BY <1>1, <1>2, <1>3 DEF PollMsg

\* Every step keeps TypeOK.  PeerReply needs Begun: a call that
\* was sent has a serial.
LEMMA TypeNext == TypeOK /\ Begun /\ [Next]_vars => TypeOK'
<1> SUFFICES ASSUME TypeOK, Begun, [Next]_vars PROVE TypeOK'
  OBVIOUS
<1>1. ASSUME NEW p \in Procs, Start(p) PROVE TypeOK'
  <2>1. CASE p \in Calls
    <3>0. AllocateIdx /\ idx' = [idx EXCEPT ![p] = NextSerial]
      BY <1>1, <2>1 DEF Start
    <3>1. serial' \in 0 .. MaxSerial /\ idx' \in [Calls -> 0 .. MaxSerial]
      BY <2>1, <3>0, AllocateType DEF TypeOK, SharedType
    <3> QED
      BY <1>1, <3>1
      DEF TypeOK, SharedType, LockType, ReadyType, FutType, NetType, Start,
          Goto, PC, sharedVars, lockVars, readyVars, futVars, netVars
  <2>2. CASE p \notin Calls
    BY <1>1, <2>2
    DEF TypeOK, SharedType, LockType, ReadyType, FutType, NetType, Start,
        Goto, PC, sharedVars, lockVars, readyVars, futVars, netVars
  <2> QED BY <2>1, <2>2
<1>2. ASSUME NEW p \in Procs, LockPoll(p) PROVE TypeOK'
  BY <1>2, PollType
  DEF TypeOK, SharedType, ReadyType, FutType, NetType, LockPoll, PC, sharedVars,
      lockVars, readyVars, futVars, netVars
<1>3. ASSUME NEW p \in Procs, PollOnce(p) PROVE TypeOK'
  BY <1>3, PollMsgType
  DEF TypeOK, SharedType, ReadyType, FutType, NetType, PollOnce, PC, sharedVars,
      lockVars, readyVars, futVars, netVars
<1>4. ASSUME NEW p \in Procs, Readable(p) PROVE TypeOK'
  <2>1. CASE ready
    BY <1>4, <2>1, ZenonT(60)
    DEF TypeOK, SharedType, LockType, ReadyType, FutType, NetType, Readable,
        Goto, PC, sharedVars, lockVars, readyVars, futVars, netVars
  <2>2. CASE ~ready
    BY <1>4, <2>2
    DEF TypeOK, SharedType, LockType, ReadyType, FutType, NetType, Readable,
        Goto, PC, sharedVars, lockVars, readyVars, futVars, netVars
  <2> QED BY <2>1, <2>2
<1>5. ASSUME NEW p \in Procs, ReadableWoken(p) PROVE TypeOK'
  BY <1>5
  DEF TypeOK, SharedType, LockType, ReadyType, FutType, NetType, ReadableWoken,
      Goto, PC, sharedVars, lockVars, readyVars, futVars, netVars
<1>6. ASSUME NEW p \in Procs, SelectMsg(p) PROVE TypeOK'
  BY <1>6, PollMsgType
  DEF TypeOK, SharedType, ReadyType, FutType, NetType, SelectMsg, PC,
      sharedVars, lockVars, readyVars, futVars, netVars
<1>7. ASSUME NEW p \in Procs, SelectLock(p) PROVE TypeOK'
  BY <1>7, PollType
  DEF TypeOK, SharedType, ReadyType, FutType, NetType, SelectLock, PC,
      sharedVars, lockVars, readyVars, futVars, netVars
<1>8. ASSUME NEW p \in Procs, SelectWake(p) PROVE TypeOK'
  BY <1>8
  DEF TypeOK, SharedType, LockType, ReadyType, FutType, NetType, SelectWake,
      Goto, PC, sharedVars, lockVars, readyVars, futVars, netVars
<1>9. ASSUME NEW p \in Procs, ReadMine(p) PROVE TypeOK'
  <2>1. Head(inbox).id \in Calls \cup RemoteCalls /\ inbox' \in Seq(Message)
    BY <1>9, InboxHead DEF ReadMine, Pred, Message, TypeOK
  <2>2. LockType'
    BY <1>9, ReleaseType DEF ReadMine, TypeOK
  <2> QED
    BY <1>9, <2>1, <2>2
    DEF TypeOK, SharedType, ReadyType, FutType, NetType, ReadMine, Goto, PC,
        sharedVars, lockVars, readyVars, futVars, netVars
<1>10. ASSUME NEW p \in Procs, ReadSignal(p) PROVE TypeOK'
  BY <1>10, InboxHead
  DEF TypeOK, SharedType, LockType, ReadyType, FutType, NetType, ReadSignal, PC,
      sharedVars, lockVars, readyVars, futVars, netVars
<1>11. ASSUME NEW p \in Procs, ReadReply(p) PROVE TypeOK'
  <2>1. /\ Head(inbox).serial \in Serials /\ Head(inbox).id \in Calls
        /\ inbox' \in Seq(Message)
    BY <1>11, InboxHead DEF ReadReply, Message, TypeOK
  <2>2. /\ replyMap' \in [Serials -> Calls \cup {None}]
        /\ chan' \in [Calls -> Calls \cup {None}]
    BY <1>11, <2>1 DEF ReadReply, HandOver, TypeOK, SharedType
  <2> QED
    BY <1>11, <2>1, <2>2
    DEF TypeOK, SharedType, LockType, ReadyType, FutType, NetType, ReadReply,
        sharedVars, lockVars, readyVars, futVars, netVars
<1>12. ASSUME NEW p \in Procs, ReadCall(p) PROVE TypeOK'
  <2>1. Head(inbox).id \in RemoteCalls /\ inbox' \in Seq(Message)
    BY <1>12, InboxHead DEF ReadCall, Handled, TypeOK
  <2>2. callq' \in Seq(RemoteCalls)
    BY <1>12, <2>1 DEF ReadCall, TypeOK, SharedType
  <2> QED
    BY <1>12, <2>1, <2>2
    DEF TypeOK, SharedType, LockType, ReadyType, FutType, NetType, ReadCall,
        sharedVars, lockVars, readyVars, futVars, netVars
<1>13. ASSUME NEW p \in Procs, ReadUnknown(p) PROVE TypeOK'
  BY <1>13, ReleaseType, InboxHead
  DEF TypeOK, SharedType, ReadyType, FutType, NetType, ReadUnknown, Goto,
      Message, PC, sharedVars, lockVars, readyVars, futVars, netVars
<1>14. ASSUME NEW p \in Procs, ReadWouldBlock(p) PROVE TypeOK'
  BY <1>14, InboxHead
  DEF TypeOK, SharedType, LockType, ReadyType, FutType, NetType, ReadWouldBlock,
      Goto, PC, sharedVars, lockVars, readyVars, futVars, netVars
<1>15. ASSUME NEW p \in Procs, ReadEof(p) PROVE TypeOK'
  <2>1. LockType' /\ callq' \in Seq(RemoteCalls)
    BY <1>15, ReleaseType, LeftType DEF ReadEof, TypeOK, SharedType
  <2> QED
    BY <1>15, <2>1
    DEF TypeOK, SharedType, ReadyType, FutType, NetType, ReadEof, Goto, PC,
        sharedVars, lockVars, readyVars, futVars, netVars
<1>16. ASSUME NEW p \in Procs, ClearReady(p) PROVE TypeOK'
  BY <1>16, ReleaseType
  DEF TypeOK, SharedType, ReadyType, FutType, NetType, ClearReady, Goto, PC,
      sharedVars, lockVars, readyVars, futVars, netVars
<1>17. ASSUME NEW p \in Procs, Answer(p) PROVE TypeOK'
  <2>1. serial' \in 0 .. MaxSerial
    BY <1>17, AllocateType DEF Answer, TypeOK
  <2> QED
    BY <1>17, <2>1
    DEF TypeOK, SharedType, LockType, ReadyType, FutType, NetType, Answer, Goto, PC,
        lockVars, readyVars, netVars
<1>35. ASSUME NEW p \in Procs, AnswerSent(p) PROVE TypeOK'
  <2>1. /\ answered' \subseteq Remote \cup {None}
        /\ pc' \in [Procs -> PC]
        /\ replying' \in [Procs -> Remote \cup {None}]
    BY <1>35 DEF AnswerSent, TypeOK, FutType, NetType, Goto, PC
  <2> QED
    BY <1>35, <2>1
    DEF TypeOK, SharedType, LockType, ReadyType, FutType, NetType, AnswerSent,
        sharedVars, lockVars, readyVars
<1>36. ASSUME NEW p \in Procs, AnswerFail(p) PROVE TypeOK'
  <2>1. /\ callq' \in Seq(RemoteCalls)
        /\ failed' \subseteq Faulty \cup Unanswerable
    BY <1>36, LeftType DEF AnswerFail, TypeOK, SharedType, NetType
  <2>2. /\ pc' \in [Procs -> PC]
        /\ got' \in [Procs -> Calls \cup RemoteCalls \cup {None, Err}]
        /\ replying' \in [Procs -> Remote \cup {None}]
    BY <1>36 DEF AnswerFail, TypeOK, FutType, Goto, PC
  <2> QED
    BY <1>36, <2>1, <2>2
    DEF TypeOK, SharedType, LockType, ReadyType, FutType, NetType, AnswerFail,
        lockVars, readyVars
<1>37. ASSUME NEW p \in Procs, ReadFault(p) PROVE TypeOK'
  <2>1. LockType' /\ callq' \in Seq(RemoteCalls)
    BY <1>37, ReleaseType, LeftType DEF ReadFault, TypeOK, SharedType
  <2>2. Head(inbox).id \in Faulty /\ inbox' \in Seq(Message)
    BY <1>37, InboxHead DEF ReadFault, Message, TypeOK
  <2>3. failed' \subseteq Faulty \cup Unanswerable /\ closed' \in BOOLEAN /\ event' \in BOOLEAN
    BY <1>37, <2>2 DEF ReadFault, TypeOK, NetType, ReadyType
  <2>4. /\ pc' \in [Procs -> PC] /\ fresh' \subseteq Procs
        /\ got' \in [Procs -> Calls \cup RemoteCalls \cup {None, Err}]
    BY <1>37 DEF ReadFault, TypeOK, FutType, ReadyType, Goto, PC
  <2> QED
    BY <1>37, <2>1, <2>2, <2>3, <2>4
    DEF TypeOK, SharedType, ReadyType, FutType, NetType, ReadFault
<1>18. ASSUME NEW p \in Procs, Cancel(p) PROVE TypeOK'
  <2>1. LockType' /\ callq' \in Seq(RemoteCalls)
    BY <1>18, ForgetType, LeftType DEF Cancel, TypeOK, SharedType
  <2>2. replying' \in [Procs -> Remote \cup {None}] /\ answered' \subseteq Remote \cup {None}
    BY <1>18, DropAnswerType DEF Cancel
  <2> QED
    BY <1>18, <2>1, <2>2
    DEF TypeOK, SharedType, ReadyType, FutType, NetType, Cancel, Goto, PC
<1>19. ASSUME NEW c \in Calls, InsertSender(c) PROVE TypeOK'
  BY <1>19, ReleaseType
  DEF TypeOK, SharedType, ReadyType, FutType, NetType, InsertSender, Goto, PC,
      sharedVars, lockVars, readyVars, futVars, netVars
<1>20. ASSUME NEW c \in Calls, SendQueue(c) PROVE TypeOK'
  BY <1>20
  DEF TypeOK, SharedType, LockType, ReadyType, FutType, NetType, SendQueue, PC,
      sharedVars, lockVars, readyVars, futVars, netVars
<1>21. ASSUME NEW c \in Calls, SendFlush(c) PROVE TypeOK'
  BY <1>21
  DEF TypeOK, SharedType, LockType, ReadyType, FutType, NetType, SendFlush, PC,
      sharedVars, lockVars, readyVars, futVars, netVars
<1>22. ASSUME NEW c \in Calls, SendReturn(c) PROVE TypeOK'
  BY <1>22
  DEF TypeOK, SharedType, LockType, ReadyType, FutType, NetType, SendReturn,
      Goto, PC, sharedVars, lockVars, readyVars, futVars, netVars
<1>23. ASSUME NEW c \in Calls, SendFail(c) PROVE TypeOK'
  BY <1>23
  DEF TypeOK, SharedType, LockType, ReadyType, FutType, NetType, SendFail, Goto,
      PC, sharedVars, lockVars, readyVars, futVars, netVars
<1>24. ASSUME NEW c \in Calls, CleanPoll(c) PROVE TypeOK'
  BY <1>24, PollType
  DEF TypeOK, SharedType, ReadyType, FutType, NetType, CleanPoll, PC,
      sharedVars, lockVars, readyVars, futVars, netVars
<1>25. ASSUME NEW c \in Calls, Clean(c) PROVE TypeOK'
  BY <1>25, ReleaseType
  DEF TypeOK, SharedType, ReadyType, FutType, NetType, Clean, Goto, PC,
      sharedVars, lockVars, readyVars, futVars, netVars
<1>26. ASSUME NEW c \in Calls, DropResponse(c) PROVE TypeOK'
  <2>0. replying' \in [Procs -> Remote \cup {None}] /\ answered' \subseteq Remote \cup {None}
    BY <1>26, DropAnswerType DEF DropResponse
  <2>1. CASE lock = None
    BY <1>26, <2>0, <2>1
    DEF TypeOK, SharedType, LockType, ReadyType, FutType, NetType,
        DropResponse, Goto, PC, sharedVars, lockVars, readyVars, futVars,
        netVars
  <2>2. CASE lock # None
    <3>1. LockType'
      BY <1>26, <2>2, ForgetType DEF DropResponse, TypeOK
    <3> QED
      BY <1>26, <2>0, <2>2, <3>1
      DEF TypeOK, SharedType, ReadyType, FutType, NetType, DropResponse,
          Goto, PC, sharedVars, lockVars, readyVars, futVars, netVars
  <2> QED BY <2>1, <2>2
<1>27. ASSUME NEW c \in Calls, PeerReply(c) PROVE TypeOK'
  <2>1. idx[c] \in Serials
    BY <1>27 DEF PeerReply, TypeOK, SharedType, Begun
  <2>2. [kind |-> "reply", id |-> c, serial |-> idx[c]] \in Message
    BY <2>1 DEF Message
  <2>3. inbox' \in Seq(Message)
    BY <1>27, <2>2 DEF PeerReply, Arrive, TypeOK, NetType
  <2> QED
    BY <1>27, <2>3
    DEF TypeOK, SharedType, LockType, ReadyType, FutType, NetType, PeerReply,
        Arrive, sharedVars, lockVars, readyVars, futVars, netVars
<1>28. ASSUME NEW l \in Listeners, GetReceiver(l) PROVE TypeOK'
  <2>1. LockType'
    BY <1>28, ReleaseType DEF GetReceiver, TypeOK
  <2>2. CASE qopen
    BY <1>28, <2>1, <2>2
    DEF TypeOK, SharedType, ReadyType, FutType, NetType, GetReceiver, Goto,
        PC, sharedVars, lockVars, readyVars, futVars, netVars
  <2>3. CASE ~qopen
    BY <1>28, <2>1, <2>3
    DEF TypeOK, SharedType, ReadyType, FutType, NetType, GetReceiver, Goto,
        PC, sharedVars, lockVars, readyVars, futVars, netVars
  <2> QED BY <2>2, <2>3
<1>29. ASSUME NEW r \in Remote, PeerCall(r) PROVE TypeOK'
  BY <1>29
  DEF TypeOK, SharedType, LockType, ReadyType, FutType, NetType, PeerCall,
      Arrive, Message, PC, sharedVars, lockVars, readyVars, futVars, netVars
<1>38. ASSUME NEW f \in Faulty, PeerFault(f) PROVE TypeOK'
  BY <1>38
  DEF TypeOK, SharedType, LockType, ReadyType, FutType, NetType, PeerFault,
      Arrive, Message, PC, sharedVars, lockVars, readyVars, futVars, netVars
<1>30. ASSUME RemovePath PROVE TypeOK'
  <2>1. <<>> \in Seq(RemoteCalls)
    OBVIOUS
  <2>2. callq' \in Seq(RemoteCalls)
    BY <1>30, <2>1 DEF RemovePath, TypeOK, SharedType
  <2> QED
    BY <1>30, <2>2
    DEF TypeOK, SharedType, LockType, ReadyType, FutType, NetType, RemovePath, PC,
        sharedVars, lockVars, readyVars, futVars, netVars
<1>31. ASSUME PeerSignal PROVE TypeOK'
  BY <1>31
  DEF TypeOK, SharedType, LockType, ReadyType, FutType, NetType, PeerSignal,
      Arrive, Message, PC, sharedVars, lockVars, readyVars, futVars, netVars
<1>32. ASSUME PeerClose PROVE TypeOK'
  BY <1>32
  DEF TypeOK, SharedType, LockType, ReadyType, FutType, NetType, PeerClose, PC,
      sharedVars, lockVars, readyVars, futVars, netVars
<1>33. ASSUME DriverEvent PROVE TypeOK'
  BY <1>33
  DEF TypeOK, SharedType, LockType, ReadyType, FutType, NetType, DriverEvent,
      PC, sharedVars, lockVars, readyVars, futVars, netVars
<1>34. CASE UNCHANGED vars
  BY <1>34
  DEF TypeOK, SharedType, LockType, ReadyType, FutType, NetType, vars,
      sharedVars, lockVars, readyVars, futVars, netVars
<1> QED
  BY <1>1, <1>2, <1>3, <1>4, <1>5, <1>6, <1>7, <1>8, <1>9, <1>10, <1>11, <1>12,
     <1>13, <1>14, <1>15, <1>16, <1>17, <1>18, <1>19, <1>20, <1>21, <1>22,
     <1>23, <1>24, <1>25, <1>26, <1>27, <1>28, <1>29, <1>30, <1>31, <1>32,
     <1>33, <1>34, <1>35, <1>36, <1>37, <1>38
  DEF Next, GetMsgStep, CallStep

-----------------------------------------------------------------------------
(* The mutex                                                               *)

\* A future outside critical sections moves on with the mutex untouched.
LEMMA MoveLock ==
  ASSUME TypeOK, LockInv, NEW p \in Procs, NEW l \in PC, Goto(p, l),
         UNCHANGED lockVars,
         l \in Critical <=> pc[p] \in Critical,
         pc[p] \in Queued => l \in Queued
  PROVE  LockInv'
  BY ConstantsAssumption
  DEF TypeOK, LockType, FutType, LockInv, NoOrphanLock, Goto, lockVars, Critical, Queued

\* The owner leaves its critical section and releases the mutex.
LEMMA ReleaseLock ==
  ASSUME TypeOK, LockInv, NEW p \in Procs, NEW l \in PC, Goto(p, l),
         lock = p, MutexRelease, l \notin Critical
  PROVE  LockInv'
  BY ConstantsAssumption
  DEF TypeOK, LockType, FutType, LockInv, NoOrphanLock, MutexRelease, Unqueue,
      Goto, Critical, Queued

\* A future gives up its lock future, handing on the mutex if it had it.
LEMMA ForgetLock ==
  ASSUME TypeOK, LockInv, NEW p \in Procs, NEW l \in PC, Goto(p, l),
         MutexForget(p), pc[p] \notin Critical, l \notin Critical
  PROVE  LockInv'
<1>1. CASE lock = p
  BY <1>1, ReleaseLock DEF MutexForget
<1>2. CASE lock # p
  BY <1>2, ConstantsAssumption
  DEF TypeOK, LockType, FutType, LockInv, NoOrphanLock, MutexForget, Unqueue,
      Goto, Critical, Queued
<1> QED BY <1>1, <1>2

\* A future polls recv_data.lock().
LEMMA PollLock ==
  ASSUME TypeOK, LockInv, NEW p \in Procs, NEW held \in Critical,
         NEW waiting \in Queued, MutexPoll(p, held, waiting),
         pc[p] \notin Critical
  PROVE  LockInv'
<1>0. held \in PC /\ waiting \in PC /\ waiting \notin Critical
  BY DEF Critical, Queued, PC
<1>1. CASE lock \in {None, p}
  BY <1>0, <1>1, ConstantsAssumption
  DEF TypeOK, LockType, FutType, LockInv, NoOrphanLock, MutexPoll, Goto
<1>2. CASE lock \notin {None, p}
  BY <1>0, <1>2, ConstantsAssumption
  DEF TypeOK, LockType, FutType, LockInv, NoOrphanLock, MutexPoll, Goto
<1> QED BY <1>1, <1>2

\* LockInv reads only pc and the mutex.
LEMMA KeepLock == LockInv /\ UNCHANGED <<pc, lockVars>> => LockInv'
  BY DEF LockInv, NoOrphanLock, lockVars

\* Polling msg_fut, from poll_once or from select!.
LEMMA PollMsgLock ==
  ASSUME TypeOK, LockInv, NEW p \in Procs, NEW pending \in PC,
         PollMsg(p, pending), pc[p] \notin Critical, pending \notin Critical,
         pc[p] \in Queued => pending \in Queued
  PROVE  LockInv'
<1>1. CASE TakeMsg(p)
  BY <1>1, ForgetLock DEF TakeMsg, Critical, PC
<1>2. CASE TakeErr(p)
  BY <1>2, ForgetLock DEF TakeErr, Critical, PC
<1>3. CASE Goto(p, pending) /\ UNCHANGED lockVars
  BY <1>3, MoveLock
<1> QED
  BY <1>1, <1>2, <1>3 DEF PollMsg, lockVars

\* Every step keeps LockInv.
LEMMA LockNext == TypeOK /\ LockInv /\ [Next]_vars => LockInv'
<1> SUFFICES ASSUME TypeOK, LockInv, [Next]_vars PROVE LockInv'
  OBVIOUS
<1> USE DEF PC, Critical, Queued
<1>1. ASSUME NEW p \in Procs, Start(p) PROVE LockInv'
  BY <1>1, MoveLock DEF Start
<1>2. ASSUME NEW p \in Procs, LockPoll(p) PROVE LockInv'
  BY <1>2, PollLock DEF LockPoll
<1>3. ASSUME NEW p \in Procs, PollOnce(p) PROVE LockInv'
  BY <1>3, PollMsgLock DEF PollOnce
<1>4. ASSUME NEW p \in Procs, Readable(p) PROVE LockInv'
  BY <1>4, MoveLock DEF Readable
<1>5. ASSUME NEW p \in Procs, ReadableWoken(p) PROVE LockInv'
  BY <1>5, MoveLock DEF ReadableWoken
<1>6. ASSUME NEW p \in Procs, SelectMsg(p) PROVE LockInv'
  BY <1>6, PollMsgLock DEF SelectMsg
<1>7. ASSUME NEW p \in Procs, SelectLock(p) PROVE LockInv'
  BY <1>7, PollLock DEF SelectLock
<1>8. ASSUME NEW p \in Procs, SelectWake(p) PROVE LockInv'
  BY <1>8, MoveLock DEF SelectWake
<1>9. ASSUME NEW p \in Procs, ReadMine(p) \/ ReadEof(p) \/ ReadFault(p) PROVE LockInv'
  BY <1>9, ReleaseLock DEF ReadMine, ReadEof, ReadFault, LockInv
<1>10. ASSUME NEW p \in Procs, ReadSignal(p) \/ ReadReply(p) \/ ReadCall(p)
       PROVE  LockInv'
  BY <1>10, KeepLock DEF ReadSignal, ReadReply, ReadCall, futVars
<1>11. ASSUME NEW p \in Procs, ReadUnknown(p) PROVE LockInv'
  BY <1>11, ReleaseLock DEF ReadUnknown, LockInv
<1>12. ASSUME NEW p \in Procs, ReadWouldBlock(p) PROVE LockInv'
  BY <1>12, MoveLock DEF ReadWouldBlock
<1>13. ASSUME NEW p \in Procs, ClearReady(p) PROVE LockInv'
  BY <1>13, ReleaseLock DEF ClearReady, LockInv
<1>14. ASSUME NEW p \in Procs, Answer(p) \/ AnswerSent(p) \/ AnswerFail(p) PROVE LockInv'
  BY <1>14, MoveLock DEF Answer, AnswerSent, AnswerFail
<1>15. ASSUME NEW p \in Procs, Cancel(p) PROVE LockInv'
  BY <1>15, ForgetLock DEF Cancel, Suspended
<1>16. ASSUME NEW c \in Calls, InsertSender(c) \/ Clean(c) PROVE LockInv'
  BY <1>16, ReleaseLock DEF InsertSender, Clean, LockInv
<1>17. ASSUME NEW c \in Calls, SendQueue(c) \/ SendFlush(c) \/ PeerReply(c)
       PROVE  LockInv'
  BY <1>17, KeepLock DEF SendQueue, SendFlush, PeerReply, Arrive, futVars
<1>18. ASSUME NEW c \in Calls, SendReturn(c) \/ SendFail(c) PROVE LockInv'
  BY <1>18, MoveLock DEF SendReturn, SendFail
<1>19. ASSUME NEW c \in Calls, CleanPoll(c) PROVE LockInv'
  BY <1>19, PollLock DEF CleanPoll
<1>20. ASSUME NEW c \in Calls, DropResponse(c) PROVE LockInv'
  <2>1. CASE lock = None
    BY <1>20, <2>1, ConstantsAssumption
    DEF DropResponse, Suspended, Goto, TypeOK, FutType, LockInv, NoOrphanLock, lockVars
  <2>2. CASE lock # None
    BY <1>20, <2>2, ForgetLock DEF DropResponse, Suspended
  <2> QED BY <2>1, <2>2
<1>21. ASSUME NEW l \in Listeners, GetReceiver(l) PROVE LockInv'
  BY <1>21, ReleaseLock DEF GetReceiver, LockInv
<1>22. ASSUME NEW r \in Foreign, PeerCall(r) \/ PeerFault(r) PROVE LockInv'
  BY <1>22, KeepLock DEF PeerCall, PeerFault, Arrive, futVars
<1>23. CASE RemovePath \/ PeerSignal \/ PeerClose \/ UNCHANGED vars
  BY <1>23, KeepLock DEF RemovePath, PeerSignal, PeerClose, Arrive, futVars, vars
<1>24. CASE DriverEvent
  BY <1>24
  DEF DriverEvent, LockInv, NoOrphanLock, TypeOK, LockType, FutType, lockVars
<1> QED
  BY <1>1, <1>2, <1>3, <1>4, <1>5, <1>6, <1>7, <1>8, <1>9, <1>10, <1>11, <1>12,
     <1>13, <1>14, <1>15, <1>16, <1>17, <1>18, <1>19, <1>20, <1>21, <1>22,
     <1>23, <1>24
  DEF Next, GetMsgStep, CallStep

-----------------------------------------------------------------------------
(* What holds whether or not the serials wrap around                       *)

\* A future that moves on past its first poll, and not towards reply_map.
LEMMA MoveBegun ==
  ASSUME TypeOK, Begun, NEW p \in Procs, NEW l \in PC, Goto(p, l),
         UNCHANGED <<idx, wire>>, pc[p] # "start", l # "start",
         l \in {"lock", "lock_wait", "prep"} => pc[p] \in {"lock", "lock_wait"}
  PROVE  Begun'
  BY DEF TypeOK, FutType, NetType, SharedType, Begun, Goto

\* Nothing moves.
LEMMA KeepBegun == Begun /\ UNCHANGED <<idx, wire, pc>> => Begun'
  BY DEF Begun

\* Every step keeps Begun.
LEMMA BegunNext == TypeOK /\ Begun /\ [Next]_vars => Begun'
<1> SUFFICES ASSUME TypeOK, Begun, [Next]_vars PROVE Begun'
  OBVIOUS
<1> USE DEF PC
<1>1. ASSUME NEW p \in Procs, Start(p) PROVE Begun'
  <2>1. /\ pc' = [pc EXCEPT ![p] = "lock"] /\ wire' = wire /\ pc[p] = "start"
    BY <1>1 DEF Start, Goto, netVars
  <2>2. CASE p \in Calls
    <3>1. idx' = [idx EXCEPT ![p] = NextSerial] /\ NextSerial \in Serials
      BY <1>1, <2>2, AllocateType DEF Start, TypeOK
    <3> QED BY <2>1, <2>2, <3>1 DEF TypeOK, FutType, SharedType, NetType, Begun, Serials
  <2>3. CASE p \notin Calls
    BY <1>1, <2>1, <2>3 DEF Start, TypeOK, FutType, SharedType, NetType, Begun
  <2> QED BY <2>2, <2>3
<1>2. ASSUME NEW p \in Procs, LockPoll(p) PROVE Begun'
  BY <1>2, MoveBegun DEF LockPoll, MutexPoll, sharedVars, netVars
<1>3. ASSUME NEW p \in Procs, PollOnce(p) PROVE Begun'
  BY <1>3, MoveBegun DEF PollOnce, PollMsg, TakeMsg, TakeErr, netVars
<1>4. ASSUME NEW p \in Procs, Readable(p) PROVE Begun'
  BY <1>4, MoveBegun DEF Readable, sharedVars, netVars
<1>5. ASSUME NEW p \in Procs, ReadableWoken(p) PROVE Begun'
  BY <1>5, MoveBegun DEF ReadableWoken, sharedVars, netVars
<1>6. ASSUME NEW p \in Procs, SelectMsg(p) PROVE Begun'
  BY <1>6, MoveBegun DEF SelectMsg, PollMsg, TakeMsg, TakeErr, netVars
<1>7. ASSUME NEW p \in Procs, SelectLock(p) PROVE Begun'
  BY <1>7, MoveBegun DEF SelectLock, MutexPoll, sharedVars, netVars
<1>8. ASSUME NEW p \in Procs, SelectWake(p) PROVE Begun'
  BY <1>8, MoveBegun DEF SelectWake, sharedVars, netVars
<1>9. ASSUME NEW p \in Procs, ReadMine(p) \/ ReadEof(p) \/ ReadFault(p) PROVE Begun'
  BY <1>9, MoveBegun DEF ReadMine, ReadEof, ReadFault, sharedVars, netVars
<1>10. ASSUME NEW p \in Procs, ReadSignal(p) \/ ReadReply(p) \/ ReadCall(p)
       PROVE  Begun'
  BY <1>10, KeepBegun DEF ReadSignal, ReadReply, ReadCall, futVars, sharedVars
<1>11. ASSUME NEW p \in Procs, ReadUnknown(p) PROVE Begun'
  BY <1>11, MoveBegun DEF ReadUnknown, sharedVars
<1>12. ASSUME NEW p \in Procs, ReadWouldBlock(p) PROVE Begun'
  BY <1>12, MoveBegun DEF ReadWouldBlock, sharedVars, netVars
<1>13. ASSUME NEW p \in Procs, ClearReady(p) PROVE Begun'
  BY <1>13, MoveBegun DEF ClearReady, sharedVars, netVars
<1>14. ASSUME NEW p \in Procs, Answer(p) \/ AnswerSent(p) \/ AnswerFail(p) PROVE Begun'
  BY <1>14, MoveBegun DEF Answer, AnswerSent, AnswerFail, sharedVars, netVars
<1>15. ASSUME NEW p \in Procs, Cancel(p) PROVE Begun'
  <2>1. pc[p] # "start"
    BY <1>15 DEF Cancel, Suspended
  <2> QED BY <1>15, <2>1, MoveBegun DEF Cancel, sharedVars, netVars
<1>16. ASSUME NEW c \in Calls, InsertSender(c) \/ Clean(c) PROVE Begun'
  BY <1>16, MoveBegun DEF InsertSender, Clean, netVars, Procs
<1>17. ASSUME NEW c \in Calls, SendQueue(c) PROVE Begun'
  BY <1>17 DEF SendQueue, futVars, sharedVars, TypeOK, NetType, Begun
<1>18. ASSUME NEW c \in Calls, SendFlush(c) PROVE Begun'
  BY <1>18 DEF SendFlush, futVars, sharedVars, TypeOK, NetType, Begun
<1>19. ASSUME NEW c \in Calls, PeerReply(c) PROVE Begun'
  BY <1>19, KeepBegun DEF PeerReply, Arrive, futVars, sharedVars
<1>20. ASSUME NEW c \in Calls, SendReturn(c) \/ SendFail(c) PROVE Begun'
  BY <1>20, MoveBegun DEF SendReturn, SendFail, sharedVars, netVars, Procs
<1>21. ASSUME NEW c \in Calls, CleanPoll(c) PROVE Begun'
  BY <1>21, MoveBegun DEF CleanPoll, MutexPoll, sharedVars, netVars, Procs
<1>22. ASSUME NEW c \in Calls, DropResponse(c) PROVE Begun'
  <2>1. pc[c] # "start" /\ UNCHANGED <<idx, wire>>
    BY <1>22 DEF DropResponse, Suspended, netVars
  <2>2. Goto(c, "gone") \/ Goto(c, "spawned")
    BY <1>22 DEF DropResponse
  <2> QED BY <2>1, <2>2, MoveBegun DEF Procs
<1>23. ASSUME NEW l \in Listeners, GetReceiver(l) PROVE Begun'
  BY <1>23, MoveBegun DEF GetReceiver, sharedVars, netVars, Procs
<1>24. ASSUME NEW r \in Foreign, PeerCall(r) \/ PeerFault(r) PROVE Begun'
  BY <1>24, KeepBegun DEF PeerCall, PeerFault, Arrive, futVars, sharedVars
<1>25. CASE RemovePath \/ PeerSignal \/ PeerClose \/ UNCHANGED vars
  BY <1>25, KeepBegun
  DEF RemovePath, PeerSignal, PeerClose, Arrive, futVars, sharedVars, netVars, vars
<1>26. CASE DriverEvent
  BY <1>26 DEF DriverEvent, TypeOK, FutType, Begun, Procs, sharedVars, netVars
<1> QED
  BY <1>1, <1>2, <1>3, <1>4, <1>5, <1>6, <1>7, <1>8, <1>9, <1>10, <1>11, <1>12,
     <1>13, <1>14, <1>15, <1>16, <1>17, <1>18, <1>19, <1>20, <1>21, <1>22,
     <1>23, <1>24, <1>25, <1>26
  DEF Next, GetMsgStep, CallStep

-----------------------------------------------------------------------------
(* Serials, reply_map, channels and the socket                             *)

\* Without wraparound allocate_idx yields a serial larger than all before.
LEMMA AllocateFresh ==
  ASSUME TypeOK, AllocateIdx, ~Wrap
  PROVE  /\ NextSerial = serial /\ serial \in Serials
         /\ serial' = 0 \/ serial' = serial + 1
<1>1. serial \in Serials /\ NextSerial = serial
  BY DEF AllocateIdx, NextSerial, TypeOK, SharedType
<1>2. CASE serial = MaxSerial
  <2>1. (MaxSerial + 1) % (MaxSerial + 1) = 0
    BY ConstantsAssumption
  <2> QED BY <1>1, <1>2, <2>1 DEF AllocateIdx
<1>3. CASE serial < MaxSerial
  <2>1. (serial + 1) % (MaxSerial + 1) = serial + 1
    BY <1>1, <1>3, ConstantsAssumption
  <2> QED BY <1>1, <1>3, <2>1 DEF AllocateIdx
<1> QED BY <1>1, <1>2, <1>3, ConstantsAssumption

\* A future moves on without touching what ReplyInv reads but pc, and
\* possibly returns an error.
LEMMA MoveReply ==
  ASSUME TypeOK, ReplyInv, NEW p \in Procs, NEW l \in PC, Goto(p, l),
         UNCHANGED <<serial, idx, replyMap, chan, wire, inbox, peer>>,
         got' = got \/ got' = [got EXCEPT ![p] = Err],
         pc[p] # "start", l \notin {"start", "panicked", "gone"},
         l \in Receiving /\ p \in Calls => pc[p] \in Receiving,
         l \in {"lock", "lock_wait", "prep"} => pc[p] \in {"lock", "lock_wait"}
  PROVE  ReplyInv'
<1> USE DEF TypeOK, SharedType, FutType, NetType, Goto
<1>1. SerialInv'
  BY DEF ReplyInv, SerialInv
<1>2. MapInv'
  BY ConstantsAssumption DEF ReplyInv, MapInv
<1>3. PeerInv'
  BY DEF ReplyInv, PeerInv
<1>4. ReplyToCaller' /\ NoPanic'
  BY DEF ReplyInv, ReplyToCaller, NoPanic
<1>5. NoReplyLost'
  BY DEF ReplyInv, NoReplyLost, Receiving
<1> QED BY <1>1, <1>2, <1>3, <1>4, <1>5 DEF ReplyInv

\* Nothing that ReplyInv reads changes.
LEMMA KeepReply ==
  ReplyInv /\ UNCHANGED <<serial, idx, replyMap, chan, wire, inbox, peer, pc, got>>
    => ReplyInv'
  BY DEF ReplyInv, SerialInv, MapInv, PeerInv, ReplyToCaller, NoPanic, NoReplyLost

\* A call takes a serial nobody has.
LEMMA StartReply ==
  ASSUME IInv, ~Wrap, NEW p \in Procs, Start(p)
  PROVE  ReplyInv'
<1> USE DEF IInv, TypeOK, SharedType, FutType, NetType
<1>1. CASE p \in Calls
  <2>1. /\ idx' = [idx EXCEPT ![p] = serial] /\ serial \in Serials
        /\ serial' = 0 \/ serial' = serial + 1
        /\ pc' = [pc EXCEPT ![p] = "lock"] /\ pc[p] = "start"
        /\ UNCHANGED <<replyMap, chan, wire, inbox, peer, got>>
    BY <1>1, AllocateFresh DEF Start, Goto, netVars
  <2>2. idx[p] = 0 /\ \A c \in Calls : idx[c] < serial
    BY <1>1, <2>1 DEF ReplyInv, SerialInv
  <2>3. SerialInv'
    BY <1>1, <2>1, <2>2 DEF ReplyInv, SerialInv
  <2>4. MapInv'
    BY <1>1, <2>1, <2>2, ConstantsAssumption
    DEF ReplyInv, MapInv, Receiving, InGetMsg
  <2>5. p \notin peer
    BY <1>1, <2>1 DEF ReplyInv, PeerInv
  <2>6. PeerInv'
    BY <1>1, <2>1, <2>5 DEF ReplyInv, PeerInv
  <2>7. ReplyToCaller' /\ NoPanic'
    BY <2>1 DEF ReplyInv, ReplyToCaller, NoPanic
  <2>8. NoReplyLost'
    BY <2>1, <2>5 DEF ReplyInv, NoReplyLost
  <2> QED BY <2>3, <2>4, <2>6, <2>7, <2>8 DEF ReplyInv
<1>2. CASE p \notin Calls
  <2>1. /\ UNCHANGED <<serial, idx, replyMap, chan, wire, inbox, peer, got>>
        /\ \A c \in Calls : pc'[c] = pc[c]
    BY <1>2 DEF Start, Goto, netVars
  <2>2. \A s \in Serials : replyMap[s] # None => pc'[replyMap[s]] = pc[replyMap[s]]
    BY <2>1
  <2> QED
    BY <2>1, <2>2
    DEF ReplyInv, SerialInv, MapInv, PeerInv, ReplyToCaller, NoPanic,
        NoReplyLost
<1> QED BY <1>1, <1>2

\* Polling msg_fut: a call finds its own reply or its sender alive.
LEMMA PollMsgReply ==
  ASSUME IInv, NEW p \in Procs, NEW pending \in InGetMsg, pc[p] \in InGetMsg,
         PollMsg(p, pending),
         UNCHANGED <<serial, idx, replyMap, wire, inbox, peer>>
  PROVE  ReplyInv'
<1> USE DEF IInv
<1>1. CASE TakeMsg(p)
  <2>1. /\ pc' = [pc EXCEPT ![p] = "ret"]
        /\ \/ got' = [got EXCEPT ![p] = p] /\ chan' = [chan EXCEPT ![p] = None]
           \/ p \notin Calls /\ got' = [got EXCEPT ![p] = Head(callq)] /\ chan' = chan
    BY <1>1 DEF TakeMsg, HasMsg, Goto, ReplyInv, ReplyToCaller
  <2> USE DEF TypeOK, SharedType, FutType, NetType
  <2>2. SerialInv' /\ PeerInv' /\ NoPanic'
    BY <2>1 DEF ReplyInv, SerialInv, PeerInv, NoPanic, InGetMsg
  <2>3. MapInv'
    BY <2>1, ConstantsAssumption DEF ReplyInv, MapInv, Receiving, InGetMsg
  <2>4. ReplyToCaller'
    BY <2>1 DEF ReplyInv, ReplyToCaller
  <2>5. NoReplyLost'
    BY <2>1 DEF ReplyInv, NoReplyLost, InGetMsg
  <2> QED BY <2>2, <2>3, <2>4, <2>5 DEF ReplyInv
<1>2. CASE TakeErr(p)
  <2>1. p \notin Calls
    <3> SUFFICES ASSUME p \in Calls PROVE FALSE
      OBVIOUS
    <3>1. chan[p] = None /\ \A s \in Serials : replyMap[s] # p
      BY <1>2 DEF TakeErr, HasErr, SenderAlive
    <3>2. idx[p] \in Serials
      BY DEF ReplyInv, SerialInv, TypeOK, SharedType, InGetMsg
    <3> QED
      BY <3>1, <3>2, ConstantsAssumption DEF ReplyInv, MapInv, Receiving
  <2> QED
    BY <1>2, <2>1, MoveReply DEF TakeErr, InGetMsg, Receiving, PC
<1>3. CASE Goto(p, pending) /\ UNCHANGED <<got, chan>>
  BY <1>3, MoveReply DEF InGetMsg, Receiving, PC
<1> QED BY <1>1, <1>2, <1>3 DEF PollMsg

\* Taking the first message off the socket leaves the others in order.
LEMMA InboxTail ==
  ASSUME TypeOK, inbox # <<>>, inbox' = Tail(inbox)
  PROVE  /\ \A i \in 1 .. Len(inbox') : i + 1 \in 1 .. Len(inbox) /\ inbox'[i] = inbox[i + 1]
         /\ \A i \in 1 .. Len(inbox) : i # 1 =>
              i - 1 \in 1 .. Len(inbox') /\ inbox'[i - 1] = inbox[i]
         /\ Head(inbox) = inbox[1] /\ 1 \in 1 .. Len(inbox)
         /\ Head(inbox) \in Message
  BY DEF TypeOK, NetType

\* A reply further down the socket's buffer stays there.
LEMMA InboxKeeps ==
  ASSUME TypeOK, inbox # <<>>, inbox' = Tail(inbox), NEW c,
         Head(inbox).kind # "reply" \/ Head(inbox).id # c,
         \E i \in 1 .. Len(inbox) : inbox[i].kind = "reply" /\ inbox[i].id = c
  PROVE  \E i \in 1 .. Len(inbox') : inbox'[i].kind = "reply" /\ inbox'[i].id = c
<1>1. PICK i \in 1 .. Len(inbox) : inbox[i].kind = "reply" /\ inbox[i].id = c
  OBVIOUS
<1>2. i # 1
  BY <1>1, InboxTail
<1>3. i - 1 \in 1 .. Len(inbox') /\ inbox'[i - 1] = inbox[i]
  BY <1>1, <1>2, InboxTail
<1> QED BY <1>1, <1>3

\* The reader consumes a message that is not a reply.
LEMMA ReadOther ==
  ASSUME IInv, inbox # <<>>, inbox' = Tail(inbox), Head(inbox).kind # "reply",
         UNCHANGED <<serial, idx, replyMap, chan, wire, peer>>,
         NEW p \in Procs, pc[p] = "read",
         NEW l \in {"read", "answering", "ret"}, pc' = [pc EXCEPT ![p] = l],
         \A d \in Calls : got'[d] \in {got[d], Err}
  PROVE  ReplyInv'
<1> USE DEF IInv, TypeOK, SharedType, FutType, NetType
<1>1. SerialInv' /\ NoPanic' /\ ReplyToCaller'
  BY DEF ReplyInv, SerialInv, NoPanic, ReplyToCaller
<1>2. MapInv'
  BY ConstantsAssumption DEF ReplyInv, MapInv, Receiving, InGetMsg
<1>3. PeerInv'
  BY InboxTail DEF ReplyInv, PeerInv
<1>4. NoReplyLost'
  <2> SUFFICES ASSUME NEW c \in Calls, c \in peer, pc'[c] \in InGetMsg \cup {"sending"},
                      chan[c] # c
               PROVE  \E i \in 1 .. Len(inbox') : inbox'[i].kind = "reply" /\ inbox'[i].id = c
    BY DEF NoReplyLost
  <2>1. pc[c] \in InGetMsg \cup {"sending"}
    BY DEF InGetMsg
  <2>2. \E i \in 1 .. Len(inbox) : inbox[i].kind = "reply" /\ inbox[i].id = c
    BY <2>1 DEF ReplyInv, NoReplyLost
  <2> QED BY <2>2, InboxKeeps
<1> QED BY <1>1, <1>2, <1>3, <1>4 DEF ReplyInv

\* Reply and call agree on the serial only if the reply is the call's own.
LEMMA HeadReply ==
  ASSUME IInv, inbox # <<>>, Head(inbox).kind = "reply"
  PROVE  /\ Head(inbox).id \in Calls /\ Head(inbox).serial \in Serials
         /\ idx[Head(inbox).id] = Head(inbox).serial
         /\ \A c \in Calls : idx[c] = Head(inbox).serial => c = Head(inbox).id
         /\ replyMap[Head(inbox).serial] \in {None, Head(inbox).id}
<1>1. Head(inbox) \in Message /\ Head(inbox) = inbox[1] /\ 1 \in 1 .. Len(inbox)
  BY InboxHead DEF IInv, TypeOK, NetType
<1>2. Head(inbox).id \in Calls /\ Head(inbox).serial \in Serials
  BY <1>1 DEF Message
<1>3. idx[Head(inbox).id] = Head(inbox).serial
  BY <1>1 DEF IInv, ReplyInv, PeerInv
<1>4. \A c \in Calls : idx[c] = Head(inbox).serial => c = Head(inbox).id
  BY <1>2, <1>3 DEF IInv, ReplyInv, SerialInv
<1>5. replyMap[Head(inbox).serial] \in {None, Head(inbox).id}
  BY <1>2, <1>4 DEF IInv, ReplyInv, MapInv, TypeOK, SharedType
<1> QED BY <1>2, <1>3, <1>4, <1>5

\* The reader returns its own message.
LEMMA ReadMineReply ==
  ASSUME IInv, NEW p \in Procs, ReadMine(p)
  PROVE  ReplyInv'
<1>1. CASE Head(inbox).kind = "reply"
  <2>1. p \in Calls /\ Head(inbox).id = p
    BY <1>1, HeadReply DEF ReadMine, Pred
  <2>2. /\ pc[p] = "read" /\ pc' = [pc EXCEPT ![p] = "ret"]
        /\ got' = [got EXCEPT ![p] = p]
        /\ inbox # <<>> /\ inbox' = Tail(inbox)
        /\ UNCHANGED <<serial, idx, replyMap, chan, wire, peer>>
    BY <2>1 DEF ReadMine, Goto, sharedVars
  <2> USE DEF IInv, TypeOK, SharedType, FutType, NetType
  <2>3. SerialInv' /\ NoPanic' /\ ReplyToCaller'
    BY <2>2 DEF ReplyInv, SerialInv, NoPanic, ReplyToCaller
  <2>4. MapInv'
    BY <2>2, ConstantsAssumption DEF ReplyInv, MapInv, Receiving, InGetMsg
  <2>5. PeerInv'
    BY <2>2, InboxTail DEF ReplyInv, PeerInv
  <2>6. NoReplyLost'
    <3> SUFFICES ASSUME NEW c \in Calls, c \in peer, chan[c] # c,
                        pc'[c] \in InGetMsg \cup {"sending"}
                 PROVE  \E i \in 1 .. Len(inbox') :
                          inbox'[i].kind = "reply" /\ inbox'[i].id = c
      BY <2>2 DEF NoReplyLost
    <3>1. c # p /\ pc[c] \in InGetMsg \cup {"sending"}
      BY <2>2 DEF InGetMsg
    <3>2. \E i \in 1 .. Len(inbox) : inbox[i].kind = "reply" /\ inbox[i].id = c
      BY <3>1 DEF ReplyInv, NoReplyLost
    <3> QED BY <2>1, <2>2, <3>1, <3>2, InboxKeeps
  <2> QED BY <2>3, <2>4, <2>5, <2>6 DEF ReplyInv
<1>2. CASE Head(inbox).kind # "reply"
  <2>1. \A d \in Calls : got'[d] = got[d]
    BY <1>2, ConstantsAssumption DEF ReadMine, Pred, IInv, TypeOK, FutType
  <2> QED
    BY <1>2, <2>1, ReadOther DEF ReadMine, Goto, sharedVars
<1> QED BY <1>1, <1>2

\* queue_msg hands the reply to the call it belongs to, if that still waits.
LEMMA ReadReplyReply ==
  ASSUME IInv, NEW p \in Procs, ReadReply(p)
  PROVE  ReplyInv'
<1> DEFINE m == Head(inbox)
<1> DEFINE d == m.id
<1>1. /\ inbox # <<>> /\ inbox' = Tail(inbox) /\ m.kind = "reply"
      /\ UNCHANGED <<serial, idx, wire, peer, pc, got>> /\ HandOver(m)
  BY DEF ReadReply, futVars
<1>2. /\ d \in Calls /\ m.serial \in Serials /\ idx[d] = m.serial
      /\ replyMap[m.serial] \in {None, d}
  BY <1>1, HeadReply
<1>3. /\ replyMap' = [replyMap EXCEPT ![m.serial] = None]
      /\ chan' = IF replyMap[m.serial] = d /\ pc[d] \in Receiving
                 THEN [chan EXCEPT ![d] = d] ELSE chan
  BY <1>1, <1>2, ConstantsAssumption
  DEF HandOver, IInv, TypeOK, SharedType, Receiving
<1> HIDE DEF m, d
<1> USE DEF IInv, TypeOK, SharedType, FutType, NetType
<1>4. SerialInv' /\ NoPanic' /\ ReplyToCaller'
  BY <1>1, <1>2, <1>3 DEF ReplyInv, SerialInv, NoPanic, ReplyToCaller
<1>5. MapInv'
  <2>1. ASSUME NEW s \in Serials, replyMap'[s] # None
        PROVE  /\ idx'[replyMap'[s]] = s
               /\ pc'[replyMap'[s]] \notin {"start", "lock", "lock_wait", "prep", "gone"}
    BY <1>1, <1>2, <1>3, <2>1 DEF ReplyInv, MapInv
  <2>2. ASSUME NEW c \in Calls, pc'[c] \in Receiving
        PROVE  chan'[c] = c \/ replyMap'[idx'[c]] = c
    <3>1. chan[c] = c \/ replyMap[idx[c]] = c
      BY <1>1, <2>2 DEF ReplyInv, MapInv
    <3>2. idx[c] \in Serials
      BY <1>1, <2>2 DEF ReplyInv, SerialInv, Receiving, InGetMsg
    <3>3. CASE c = d
      BY <1>1, <1>2, <1>3, <2>2, <3>1, <3>3, ConstantsAssumption
    <3>4. CASE c # d
      <4>1. idx[c] # m.serial
        BY <1>2, <3>2, <3>4 DEF ReplyInv, SerialInv
      <4> QED BY <1>1, <1>2, <1>3, <3>1, <3>2, <3>4, <4>1
    <3> QED BY <3>3, <3>4
  <2> QED BY <2>1, <2>2 DEF MapInv
<1>6. PeerInv'
  BY <1>1, InboxTail DEF ReplyInv, PeerInv
<1>7. NoReplyLost'
  <2> SUFFICES ASSUME NEW c \in Calls, c \in peer, chan'[c] # c,
                      pc[c] \in InGetMsg \cup {"sending"}
               PROVE  \E i \in 1 .. Len(inbox') :
                        inbox'[i].kind = "reply" /\ inbox'[i].id = c
    BY <1>1 DEF NoReplyLost
  <2>1. c # d /\ chan[c] # c
    BY <1>2, <1>3, ConstantsAssumption DEF ReplyInv, MapInv, Receiving
  <2>2. \E i \in 1 .. Len(inbox) : inbox[i].kind = "reply" /\ inbox[i].id = c
    BY <2>1 DEF ReplyInv, NoReplyLost
  <2> QED BY <1>1, <2>1, <2>2, InboxKeeps DEF d, m
<1> QED BY <1>4, <1>5, <1>6, <1>7 DEF ReplyInv

\* get_recv_and_insert_sender replaces nobody's sender.
LEMMA InsertReply ==
  ASSUME IInv, NEW c \in Calls, InsertSender(c)
  PROVE  ReplyInv'
<1>1. /\ pc[c] = "prep" /\ pc' = [pc EXCEPT ![c] = "sending"]
      /\ replyMap' = [replyMap EXCEPT ![idx[c]] = c]
      /\ UNCHANGED <<serial, idx, chan, wire, inbox, peer, got>>
  BY DEF InsertSender, Goto, netVars
<1> USE DEF IInv, TypeOK, SharedType, FutType, NetType
<1>2. idx[c] \in Serials /\ \A d \in Calls : idx[d] = idx[c] => d = c
  BY <1>1 DEF ReplyInv, SerialInv
<1>3. SerialInv' /\ PeerInv' /\ NoPanic' /\ ReplyToCaller'
  BY <1>1 DEF ReplyInv, SerialInv, PeerInv, NoPanic, ReplyToCaller
<1>4. MapInv'
  BY <1>1, <1>2, ConstantsAssumption DEF ReplyInv, MapInv, Receiving, InGetMsg
<1>5. NoReplyLost'
  BY <1>1 DEF ReplyInv, PeerInv, NoReplyLost
<1> QED BY <1>3, <1>4, <1>5 DEF ReplyInv

\* Removing the serial of a call that no longer waits disturbs no other.
LEMMA CleanReply ==
  ASSUME IInv, NEW c \in Calls, pc[c] \in {"ret", "clean"} \cup Suspended,
         replyMap' = [replyMap EXCEPT ![idx[c]] = None],
         pc' = [pc EXCEPT ![c] = "gone"],
         chan' \in {chan, [chan EXCEPT ![c] = None]},
         UNCHANGED <<serial, idx, wire, inbox, peer, got>>
  PROVE  ReplyInv'
<1> USE DEF IInv, TypeOK, SharedType, FutType, NetType
<1>1. idx[c] \in Serials /\ \A d \in Calls : idx[d] = idx[c] => d = c
  BY DEF ReplyInv, SerialInv, Suspended
<1>2. SerialInv' /\ PeerInv' /\ NoPanic' /\ ReplyToCaller'
  BY DEF ReplyInv, SerialInv, PeerInv, NoPanic, ReplyToCaller, Suspended
<1>3. MapInv'
  BY <1>1, ConstantsAssumption DEF ReplyInv, MapInv, Receiving, InGetMsg
<1>4. NoReplyLost'
  BY DEF ReplyInv, NoReplyLost, InGetMsg
<1> QED BY <1>2, <1>3, <1>4 DEF ReplyInv

\* A nested future is dropped: cleaned up at once, or by a spawned task.
LEMMA DropReply ==
  ASSUME IInv, NEW c \in Calls, DropResponse(c)
  PROVE  ReplyInv'
<1>1. /\ pc[c] \in {"ret"} \cup Suspended
      /\ chan' = [chan EXCEPT ![c] = None]
      /\ UNCHANGED <<serial, idx, wire, inbox, peer, got>>
  BY DEF DropResponse, netVars
<1>2. CASE lock = None
  BY <1>1, <1>2, CleanReply DEF DropResponse, Goto
<1>3. CASE lock # None
  <2>1. pc' = [pc EXCEPT ![c] = "spawned"] /\ UNCHANGED replyMap
    BY <1>3 DEF DropResponse, Goto
  <2> USE DEF IInv, TypeOK, SharedType, FutType, NetType
  <2>2. SerialInv' /\ PeerInv' /\ NoPanic' /\ ReplyToCaller'
    BY <1>1, <2>1
    DEF ReplyInv, SerialInv, PeerInv, NoPanic, ReplyToCaller, Suspended
  <2>3. MapInv'
    BY <1>1, <2>1, ConstantsAssumption DEF ReplyInv, MapInv, Receiving, InGetMsg
  <2>4. NoReplyLost'
    BY <1>1, <2>1 DEF ReplyInv, NoReplyLost, InGetMsg
  <2> QED BY <2>2, <2>3, <2>4 DEF ReplyInv
<1> QED BY <1>2, <1>3

\* A message arrives behind those already in the socket.
LEMMA ArriveReply ==
  ASSUME IInv, NEW m \in Message, NEW new \in SUBSET Calls, Arrive(m),
         peer \subseteq peer', \A c \in Calls : c \in peer' => c \in peer \cup new,
         \A c \in new : m.kind = "reply" /\ m.id = c /\ m.serial = idx[c] /\ wire[c] = "sent",
         m.kind = "reply" => m.id \in new \cap peer'
  PROVE  ReplyInv'
<1>1. /\ inbox' = Append(inbox, m) /\ Len(inbox') = Len(inbox) + 1
      /\ \A i \in 1 .. Len(inbox) : inbox'[i] = inbox[i]
      /\ inbox'[Len(inbox) + 1] = m /\ Len(inbox) \in Nat
      /\ UNCHANGED <<serial, idx, replyMap, chan, wire, pc, got>>
  BY DEF Arrive, IInv, TypeOK, NetType, sharedVars, futVars
<1> USE DEF IInv
<1>2. SerialInv' /\ MapInv' /\ ReplyToCaller' /\ NoPanic'
  BY <1>1 DEF ReplyInv, SerialInv, MapInv, ReplyToCaller, NoPanic
<1>3. PeerInv'
  <2>1. ASSUME NEW i \in 1 .. Len(inbox'), inbox'[i].kind = "reply"
        PROVE  inbox'[i].serial = idx[inbox'[i].id] /\ inbox'[i].id \in peer'
    <3>1. CASE i \in 1 .. Len(inbox)
      BY <1>1, <2>1, <3>1 DEF ReplyInv, PeerInv
    <3>2. CASE i = Len(inbox) + 1
      BY <1>1, <2>1, <3>2
    <3> QED BY <1>1, <2>1, <3>1, <3>2
  <2> QED BY <1>1, <2>1 DEF ReplyInv, PeerInv
<1>4. NoReplyLost'
  <2> SUFFICES ASSUME NEW c \in Calls, c \in peer', chan[c] # c,
                      pc[c] \in InGetMsg \cup {"sending"}
               PROVE  \E i \in 1 .. Len(inbox') :
                        inbox'[i].kind = "reply" /\ inbox'[i].id = c
    BY <1>1 DEF NoReplyLost
  <2>1. CASE c \in peer
    <3>1. PICK i \in 1 .. Len(inbox) : inbox[i].kind = "reply" /\ inbox[i].id = c
      BY <2>1 DEF ReplyInv, NoReplyLost
    <3>2. i \in 1 .. Len(inbox') /\ inbox'[i] = inbox[i]
      BY <1>1, <3>1
    <3> QED BY <3>1, <3>2
  <2>2. CASE c \in new
    <3>1. Len(inbox) + 1 \in 1 .. Len(inbox')
      BY <1>1
    <3> QED BY <1>1, <2>2, <3>1
  <2> QED BY <2>1, <2>2
<1> QED BY <1>2, <1>3, <1>4 DEF ReplyInv

\* Every step keeps ReplyInv.
LEMMA ReplyNext == ~Wrap /\ IInv /\ [Next]_vars => ReplyInv'
<1> SUFFICES ASSUME ~Wrap, IInv, [Next]_vars PROVE ReplyInv'
  OBVIOUS
<1>0. TypeOK /\ ReplyInv /\ Receiving = InGetMsg \cup {"sending"}
  BY DEF IInv, Receiving
<1>1. ASSUME NEW p \in Procs, Start(p) PROVE ReplyInv'
  BY <1>1, StartReply
<1>2. ASSUME NEW p \in Procs, LockPoll(p) PROVE ReplyInv'
  BY <1>0, <1>2, MoveReply
  DEF LockPoll, MutexPoll, sharedVars, netVars, InGetMsg, PC
<1>3. ASSUME NEW p \in Procs, PollOnce(p) \/ SelectMsg(p) PROVE ReplyInv'
  BY <1>3, PollMsgReply DEF PollOnce, SelectMsg, netVars, InGetMsg
<1>4. ASSUME NEW p \in Procs, Readable(p) \/ ReadableWoken(p) \/ SelectWake(p)
      PROVE  ReplyInv'
  BY <1>0, <1>4, MoveReply
  DEF Readable, ReadableWoken, SelectWake, sharedVars, netVars, InGetMsg, PC
<1>5. ASSUME NEW p \in Procs, SelectLock(p) PROVE ReplyInv'
  BY <1>0, <1>5, MoveReply
  DEF SelectLock, MutexPoll, sharedVars, netVars, InGetMsg, PC
<1>6. ASSUME NEW p \in Procs, ReadMine(p) PROVE ReplyInv'
  BY <1>6, ReadMineReply
<1>7. ASSUME NEW p \in Procs, ReadReply(p) PROVE ReplyInv'
  BY <1>7, ReadReplyReply
<1>8. ASSUME NEW p \in Procs, ReadSignal(p) \/ ReadCall(p) PROVE ReplyInv'
  <2>1. pc' = [pc EXCEPT ![p] = "read"] /\ pc[p] = "read" /\ got' = got
    BY <1>0, <1>8 DEF ReadSignal, ReadCall, futVars, TypeOK, FutType
  <2> QED
    BY <1>8, <2>1, ReadOther DEF ReadSignal, ReadCall, Handled, sharedVars
<1>9. ASSUME NEW p \in Procs, ReadUnknown(p) PROVE ReplyInv'
  BY <1>9, ReadOther DEF ReadUnknown, Goto, sharedVars
<1>25. ASSUME NEW p \in Procs, ReadFault(p) PROVE ReplyInv'
  <2>1. /\ Head(inbox).kind # "reply" /\ pc' = [pc EXCEPT ![p] = "ret"]
        /\ \A d \in Calls : got'[d] \in {got[d], Err}
    BY <1>0, <1>25 DEF ReadFault, Goto, TypeOK, FutType
  <2> QED BY <1>25, <2>1, ReadOther DEF ReadFault
<1>10. ASSUME NEW p \in Procs, ReadWouldBlock(p) \/ ReadEof(p) \/ ClearReady(p)
       PROVE  ReplyInv'
  BY <1>0, <1>10, MoveReply
  DEF ReadWouldBlock, ReadEof, ClearReady, sharedVars, netVars, InGetMsg, PC
<1>11. ASSUME NEW p \in Procs, Answer(p) PROVE ReplyInv'
  <2>1. /\ UNCHANGED <<idx, replyMap, chan, wire, inbox, peer, got>>
        /\ pc[p] = "answering" /\ pc' = [pc EXCEPT ![p] = "flushing"]
        /\ serial \in Serials /\ (serial' = 0 \/ serial' = serial + 1)
    BY <1>0, <1>11, AllocateFresh DEF Answer, Goto, netVars
  <2> USE <1>0 DEF TypeOK, SharedType, FutType, NetType
  <2>2. SerialInv'
    BY <2>1 DEF ReplyInv, SerialInv
  <2>3. MapInv'
    BY <2>1, ConstantsAssumption DEF ReplyInv, MapInv, InGetMsg
  <2>4. PeerInv' /\ ReplyToCaller' /\ NoPanic'
    BY <2>1 DEF ReplyInv, PeerInv, ReplyToCaller, NoPanic
  <2>5. NoReplyLost'
    BY <2>1 DEF ReplyInv, NoReplyLost, InGetMsg
  <2> QED BY <2>2, <2>3, <2>4, <2>5 DEF ReplyInv
<1>26. ASSUME NEW p \in Procs, AnswerSent(p) \/ AnswerFail(p) PROVE ReplyInv'
  BY <1>0, <1>26, MoveReply DEF AnswerSent, AnswerFail, sharedVars, InGetMsg, PC
<1>12. ASSUME NEW p \in Procs, Cancel(p) PROVE ReplyInv'
  BY <1>0, <1>12, MoveReply
  DEF Cancel, sharedVars, netVars, Suspended, InGetMsg, PC
<1>13. ASSUME NEW c \in Calls, InsertSender(c) PROVE ReplyInv'
  BY <1>13, InsertReply
<1>14. ASSUME NEW c \in Calls, SendQueue(c) \/ SendFlush(c) PROVE ReplyInv'
  <2>1. /\ UNCHANGED <<serial, idx, replyMap, chan, inbox, peer, pc, got>>
        /\ \E w \in {"queued", "sent"} : wire' = [wire EXCEPT ![c] = w]
        /\ pc[c] = "sending" \/ wire[c] = "queued"
        /\ wire[c] # "sent"
    BY <1>14 DEF SendQueue, SendFlush, sharedVars, futVars
  <2>2. PeerInv'
    BY <1>0, <2>1 DEF ReplyInv, PeerInv, TypeOK, NetType
  <2>3. SerialInv' /\ MapInv' /\ ReplyToCaller' /\ NoPanic' /\ NoReplyLost'
    BY <1>0, <2>1
    DEF ReplyInv, SerialInv, MapInv, ReplyToCaller, NoPanic, NoReplyLost
  <2> QED BY <2>2, <2>3 DEF ReplyInv
<1>15. ASSUME NEW c \in Calls, SendReturn(c) \/ SendFail(c) PROVE ReplyInv'
  BY <1>0, <1>15, MoveReply
  DEF SendReturn, SendFail, sharedVars, netVars, InGetMsg, PC
<1>16. ASSUME NEW c \in Calls, CleanPoll(c) PROVE ReplyInv'
  BY <1>0, <1>16, MoveReply
  DEF CleanPoll, MutexPoll, sharedVars, netVars, InGetMsg, PC
<1>17. ASSUME NEW c \in Calls, Clean(c) PROVE ReplyInv'
  BY <1>17, CleanReply DEF Clean, Goto, netVars
<1>18. ASSUME NEW c \in Calls, DropResponse(c) PROVE ReplyInv'
  BY <1>18, DropReply
<1>19. ASSUME NEW c \in Calls, PeerReply(c) PROVE ReplyInv'
  <2> DEFINE m == [kind |-> "reply", id |-> c, serial |-> idx[c]]
  <2>1. idx[c] \in Serials
    BY <1>0, <1>19 DEF PeerReply, ReplyInv, SerialInv, PeerInv, TypeOK, SharedType
  <2>2. m \in Message
    BY <2>1 DEF Message
  <2>3. /\ Arrive(m) /\ peer' = peer \cup {c} /\ wire[c] = "sent"
        /\ m.kind = "reply" /\ m.id = c /\ m.serial = idx[c]
    BY <1>19 DEF PeerReply
  <2> HIDE DEF m
  <2> QED
    BY <2>2, <2>3, ArriveReply, {c} \in SUBSET Calls
<1>20. ASSUME NEW l \in Listeners, GetReceiver(l) PROVE ReplyInv'
  <2>1. l \notin Calls
    BY <1>20, ConstantsAssumption
  <2> QED
    BY <1>0, <1>20, <2>1, MoveReply
    DEF GetReceiver, sharedVars, netVars, InGetMsg, PC
<1>21. ASSUME NEW r \in Remote, PeerCall(r) PROVE ReplyInv'
  <2> DEFINE m == [kind |-> "call", id |-> r, serial |-> 0]
  <2>1. m \in Message /\ m.kind = "call"
    BY DEF Message
  <2>2. Arrive(m) /\ peer' = peer \cup {r} /\ r \notin Calls
    BY <1>21, ConstantsAssumption DEF PeerCall
  <2> HIDE DEF m
  <2> QED
    BY <2>1, <2>2, ArriveReply, {} \in SUBSET Calls
<1>27. ASSUME NEW f \in Faulty, PeerFault(f) PROVE ReplyInv'
  <2> DEFINE m == [kind |-> "faulty", id |-> f, serial |-> 0]
  <2>1. m \in Message /\ m.kind = "faulty"
    BY DEF Message
  <2>2. Arrive(m) /\ peer' = peer \cup {f} /\ f \notin Calls
    BY <1>27, ConstantsAssumption DEF PeerFault
  <2> HIDE DEF m
  <2> QED
    BY <2>1, <2>2, ArriveReply, {} \in SUBSET Calls
<1>22. CASE PeerSignal
  <2> DEFINE m == [kind |-> "signal", id |-> None, serial |-> 0]
  <2>1. m \in Message /\ m.kind = "signal"
    BY DEF Message
  <2>2. Arrive(m) /\ peer' = peer
    BY <1>22 DEF PeerSignal
  <2> HIDE DEF m
  <2> QED
    BY <2>1, <2>2, ArriveReply, {} \in SUBSET Calls
<1>23. CASE RemovePath \/ PeerClose \/ UNCHANGED vars
  BY <1>0, <1>23, KeepReply
  DEF RemovePath, PeerClose, vars, sharedVars, futVars, netVars
<1>24. CASE DriverEvent
  <2>1. /\ UNCHANGED <<serial, idx, replyMap, chan, wire, inbox, peer, got>>
        /\ pc' = [p \in Procs |-> IF pc[p] = "reg" THEN "woken" ELSE pc[p]]
    BY <1>24 DEF DriverEvent, sharedVars, netVars
  <2> USE <1>0 DEF TypeOK, SharedType, FutType, NetType
  <2>2. SerialInv' /\ PeerInv' /\ ReplyToCaller' /\ NoPanic'
    BY <2>1 DEF ReplyInv, SerialInv, PeerInv, ReplyToCaller, NoPanic
  <2>3. MapInv'
    BY <2>1, ConstantsAssumption DEF ReplyInv, MapInv, InGetMsg
  <2>4. NoReplyLost'
    BY <2>1 DEF ReplyInv, NoReplyLost, InGetMsg
  <2> QED BY <2>2, <2>3, <2>4 DEF ReplyInv
<1> QED
  BY <1>1, <1>2, <1>3, <1>4, <1>5, <1>6, <1>7, <1>8, <1>9, <1>10, <1>11, <1>12,
     <1>13, <1>14, <1>15, <1>16, <1>17, <1>18, <1>19, <1>20, <1>21, <1>22,
     <1>23, <1>24, <1>25, <1>26, <1>27
  DEF Next, GetMsgStep, CallStep

-----------------------------------------------------------------------------
\* A connection fresh from RpcConn::new satisfies the invariant.
LEMMA InitInv == Init => IInv
<1> SUFFICES ASSUME Init PROVE IInv
  OBVIOUS
<1> USE ConstantsAssumption DEF Init
<1>1. TypeOK
  <2>1. SharedType
    BY DEF SharedType
  <2>2. LockType /\ ReadyType /\ FutType
    BY DEF LockType, ReadyType, FutType, PC
  <2>3. NetType
    <3>1. wire \in [Calls -> {"unsent", "queued", "sent"}]
      OBVIOUS
    <3>2. inbox \in Seq(Message)
      OBVIOUS
    <3> QED BY <3>1, <3>2 DEF NetType
  <2> QED BY <2>1, <2>2, <2>3 DEF TypeOK
<1>2. LockInv
  BY DEF LockInv, NoOrphanLock, Critical
<1>3. SerialInv /\ MapInv /\ PeerInv
  BY DEF SerialInv, MapInv, PeerInv, Receiving, InGetMsg
<1>4. ReplyToCaller /\ NoPanic /\ NoReplyLost
  BY DEF ReplyToCaller, NoPanic, NoReplyLost
<1> QED BY <1>1, <1>2, <1>3, <1>4 DEF IInv, ReplyInv

\* Types, the mutex and the calls' beginnings: the serials may wrap around.
LEMMA BaseInductive == Spec => []BaseInv
<1>1. Init => BaseInv
  BY InitInv DEF IInv, ReplyInv, SerialInv, PeerInv, BaseInv, Begun
<1>2. BaseInv /\ [Next]_vars => BaseInv'
  BY TypeNext, LockNext, BegunNext DEF BaseInv
<1> QED
  BY <1>1, <1>2, PTL DEF Spec

\* Types are kept by every operation of RpcConn, whatever the futures do.
THEOREM TypeCorrect == Spec => []TypeOK
<1>1. BaseInv => TypeOK
  BY DEF BaseInv
<1> QED BY BaseInductive, <1>1, PTL

\* The recv_data mutex is never left with a future that was dropped or has
\* returned.
THEOREM LockPassedOn == Spec => []NoOrphanLock
<1>1. BaseInv => NoOrphanLock
  BY DEF BaseInv, LockInv
<1> QED BY BaseInductive, <1>1, PTL

\* The invariant is inductive as long as the serials do not wrap around.
LEMMA Inductive == ~Wrap => (Spec => []IInv)
<1> SUFFICES ASSUME ~Wrap PROVE Spec => []IInv
  OBVIOUS
<1>1. IInv /\ [Next]_vars => IInv'
  <2>1. IInv => Begun
    BY DEF IInv, ReplyInv, SerialInv, PeerInv, Begun
  <2> QED BY <2>1, TypeNext, LockNext, ReplyNext DEF IInv
<1> QED
  BY InitInv, <1>1, PTL DEF Spec

\* A future only gets the reply to its own call.
THEOREM RepliesToCallers == ~Wrap => (Spec => []ReplyToCaller)
<1>1. IInv => ReplyToCaller
  BY DEF IInv, ReplyInv
<1> QED BY Inductive, <1>1, PTL

\* The panic of lib.rs:527 cannot happen before the serials wrap around.
THEOREM NeverPanics == ~Wrap => (Spec => []NoPanic)
<1>1. IInv => NoPanic
  BY DEF IInv, ReplyInv
<1> QED BY Inductive, <1>1, PTL

\* No reader discards a reply that some future still waits for.
THEOREM RepliesKept == ~Wrap => (Spec => []NoReplyLost)
<1>1. IInv => NoReplyLost
  BY DEF IInv, ReplyInv
<1> QED BY Inductive, <1>1, PTL

\* reply_map holds nothing of a nested future that was cleaned up.
THEOREM MapCleaned == ~Wrap => (Spec => []NoLeak)
<1>1. IInv => NoLeak
  BY DEF IInv, ReplyInv, MapInv, NoLeak
<1> QED BY Inductive, <1>1, PTL

-----------------------------------------------------------------------------
(* Where a call from the peer is                                           *)

\* A future returns something: it had returned nothing before.
LEMMA SetPlace ==
  ASSUME NEW S, NEW f, NEW p \in S, NEW v, NEW r, DOMAIN f = S, f[p] # r
  PROVE  /\ Holds([f EXCEPT ![p] = v], r) <=> Holds(f, r) \/ r = v
         /\ NotTwice(f, r) /\ (r = v => ~Holds(f, r)) => NotTwice([f EXCEPT ![p] = v], r)
<1> DEFINE g == [f EXCEPT ![p] = v]
<1>1. DOMAIN g = S /\ g[p] = v /\ \A q \in S : q # p => g[q] = f[q]
  OBVIOUS
<1> HIDE DEF g
<1>2. Holds(g, r) <=> Holds(f, r) \/ r = v
  BY <1>1 DEF Holds
<1>3. ASSUME NotTwice(f, r), r = v => ~Holds(f, r) PROVE NotTwice(g, r)
  BY <1>1, <1>3 DEF Holds, NotTwice
<1> QED BY <1>2, <1>3 DEF g

\* An error reply is sent: the future has it no longer.
LEMMA ClearPlace ==
  ASSUME NEW S, NEW f, NEW p \in S, NEW v, NEW r, DOMAIN f = S, NotTwice(f, r), r # v
  PROVE  /\ Holds([f EXCEPT ![p] = v], r) <=> Holds(f, r) /\ r # f[p]
         /\ NotTwice([f EXCEPT ![p] = v], r)
<1> DEFINE g == [f EXCEPT ![p] = v]
<1>1. DOMAIN g = S /\ g[p] = v /\ \A q \in S : q # p => g[q] = f[q]
  OBVIOUS
<1> HIDE DEF g
<1>2. Holds(g, r) <=> Holds(f, r) /\ r # f[p]
  BY <1>1 DEF Holds, NotTwice
<1>3. NotTwice(g, r)
  BY <1>1 DEF Holds, NotTwice
<1> QED BY <1>2, <1>3 DEF g

\* A queue loses its first element.
LEMMA TailPlace ==
  ASSUME NEW T, NEW s \in Seq(T), s # <<>>, NEW r, NotTwice(s, r)
  PROVE  /\ Holds(Tail(s), r) <=> Holds(s, r) /\ r # Head(s)
         /\ NotTwice(Tail(s), r)
<1> DEFINE t == Tail(s)
<1>1. /\ DOMAIN s = 1 .. Len(s) /\ Len(s) \in Nat /\ Len(s) >= 1 /\ Head(s) = s[1]
      /\ DOMAIN t = 1 .. Len(s) - 1 /\ \A i \in 1 .. Len(s) - 1 : t[i] = s[i + 1]
  OBVIOUS
<1> HIDE DEF t
<1>2. ASSUME Holds(t, r) PROVE Holds(s, r) /\ r # Head(s)
  <2>1. PICK i \in 1 .. Len(s) - 1 : t[i] = r
    BY <1>1, <1>2 DEF Holds
  <2>2. i + 1 \in DOMAIN s /\ 1 \in DOMAIN s /\ s[i + 1] = r /\ i + 1 # 1
    BY <1>1, <2>1
  <2> QED BY <1>1, <2>2 DEF Holds, NotTwice
<1>3. ASSUME Holds(s, r), r # Head(s) PROVE Holds(t, r)
  <2>1. PICK i \in 1 .. Len(s) : s[i] = r
    BY <1>1, <1>3 DEF Holds
  <2>2. i - 1 \in 1 .. Len(s) - 1 /\ (i - 1) + 1 = i
    BY <1>1, <1>3, <2>1
  <2>3. t[i - 1] = r
    BY <1>1, <2>1, <2>2
  <2> QED BY <1>1, <2>2, <2>3 DEF Holds
<1>4. ASSUME NEW i \in 1 .. Len(s) - 1, NEW j \in 1 .. Len(s) - 1, t[i] = r, t[j] = r PROVE i = j
  <2>1. i + 1 \in DOMAIN s /\ j + 1 \in DOMAIN s /\ s[i + 1] = r /\ s[j + 1] = r
    BY <1>1, <1>4
  <2>2. i + 1 = j + 1
    BY <2>1 DEF NotTwice
  <2> QED BY <2>2
<1>5. NotTwice(t, r)
  BY <1>1, <1>4 DEF NotTwice
<1> QED BY <1>2, <1>3, <1>5 DEF t

\* A queue gets a new last element.
LEMMA AppendPlace ==
  ASSUME NEW T, NEW s \in Seq(T), NEW e \in T, NEW r
  PROVE  /\ Holds(Append(s, e), r) <=> Holds(s, r) \/ r = e
         /\ NotTwice(s, r) /\ (r = e => ~Holds(s, r)) => NotTwice(Append(s, e), r)
<1> DEFINE t == Append(s, e)
<1>1. /\ DOMAIN s = 1 .. Len(s) /\ Len(s) \in Nat
      /\ DOMAIN t = 1 .. Len(s) + 1 /\ t[Len(s) + 1] = e
      /\ \A i \in 1 .. Len(s) : t[i] = s[i]
  OBVIOUS
<1>2. /\ \A i \in DOMAIN t : i \in DOMAIN s \/ i = Len(s) + 1
      /\ \A i \in DOMAIN s : i \in DOMAIN t
      /\ Len(s) + 1 \in DOMAIN t
  BY <1>1
<1> HIDE DEF t
<1>3. Holds(t, r) <=> Holds(s, r) \/ r = e
  BY <1>1, <1>2 DEF Holds
<1>4. ASSUME NotTwice(s, r), r = e => ~Holds(s, r) PROVE NotTwice(t, r)
  <2>1. SUFFICES ASSUME NEW i \in DOMAIN t, NEW j \in DOMAIN t, t[i] = r, t[j] = r PROVE i = j
    BY DEF NotTwice
  <2>2. CASE i \in DOMAIN s /\ j \in DOMAIN s
    BY <1>1, <1>4, <2>1, <2>2 DEF NotTwice
  <2>3. CASE i = Len(s) + 1 \/ j = Len(s) + 1
    BY <1>1, <1>2, <1>4, <2>1, <2>3 DEF Holds
  <2> QED BY <1>2, <2>2, <2>3
<1> QED BY <1>3, <1>4 DEF t

\* The names of the messages in the socket.
LEMMA IdsIs ==
  ASSUME NEW s \in Seq(Message)
  PROVE  /\ \E T : Ids(s) \in Seq(T)
         /\ s # <<>> => /\ Ids(s) # <<>> /\ Ids(Tail(s)) = Tail(Ids(s))
                        /\ Head(Ids(s)) = Head(s).id
         /\ \A m \in Message : Ids(Append(s, m)) = Append(Ids(s), m.id)
<1> DEFINE T == {s[i].id : i \in 1 .. Len(s)}
<1>1. Len(s) \in Nat /\ DOMAIN s = 1 .. Len(s)
  OBVIOUS
<1>2. Ids(s) \in Seq(T) /\ Len(Ids(s)) = Len(s) /\ \A i \in 1 .. Len(s) : Ids(s)[i] = s[i].id
  BY <1>1 DEF Ids
<1> HIDE DEF T
<1>3. ASSUME s # <<>>
      PROVE  Ids(s) # <<>> /\ Ids(Tail(s)) = Tail(Ids(s)) /\ Head(Ids(s)) = Head(s).id
  <2>1. /\ Len(s) >= 1 /\ DOMAIN Tail(s) = 1 .. Len(s) - 1
        /\ \A i \in 1 .. Len(s) - 1 : Tail(s)[i] = s[i + 1]
    BY <1>3
  <2>2. Ids(s) # <<>>
    <3>1. Len(Ids(s)) # 0
      BY <1>2, <2>1
    <3> QED BY <3>1, EmptySeq
  <2>3. Tail(Ids(s)) = [i \in 1 .. Len(s) - 1 |-> Ids(s)[i + 1]]
    <3> DEFINE u == Ids(s)
    <3>1. u \in Seq(T) /\ Len(u) = Len(s) /\ u # <<>>
      BY <1>2, <2>2
    <3> HIDE DEF u
    <3>2. /\ Tail(u) \in Seq(T) /\ Len(Tail(u)) = Len(u) - 1
          /\ \A i \in 1 .. Len(u) - 1 : Tail(u)[i] = u[i + 1]
      BY <3>1, HeadTailProperties
    <3>3. Tail(u) \in [1 .. Len(u) - 1 -> T]
      BY <3>2, LenProperties
    <3>4. Tail(u) = [i \in 1 .. Len(u) - 1 |-> u[i + 1]]
      BY <3>2, <3>3
    <3> QED BY <3>1, <3>4 DEF u
  <2>4. Ids(Tail(s)) = [i \in 1 .. Len(s) - 1 |-> Tail(s)[i].id]
    BY <2>1 DEF Ids
  <2>5. \A i \in 1 .. Len(s) - 1 : Tail(s)[i].id = Ids(s)[i + 1]
    <3>1. \A i \in 1 .. Len(s) - 1 : i + 1 \in 1 .. Len(s)
      BY <1>1
    <3> QED BY <1>2, <2>1, <3>1
  <2>6. Head(Ids(s)) = Head(s).id
    BY <1>2, <1>3, <2>1
  <2> QED BY <2>2, <2>3, <2>4, <2>5, <2>6
<1>4. ASSUME NEW m \in Message PROVE Ids(Append(s, m)) = Append(Ids(s), m.id)
  <2>1. /\ DOMAIN Append(s, m) = 1 .. Len(s) + 1
        /\ \A i \in 1 .. Len(s) + 1 : Append(s, m)[i] = IF i = Len(s) + 1 THEN m ELSE s[i]
    OBVIOUS
  <2>2. Ids(Append(s, m)) = [i \in 1 .. Len(s) + 1 |-> Append(s, m)[i].id]
    BY <2>1 DEF Ids
  <2>3. Append(Ids(s), m.id)
          = [i \in 1 .. Len(s) + 1 |-> IF i = Len(s) + 1 THEN m.id ELSE Ids(s)[i]]
    BY <1>2
  <2>4. \A i \in 1 .. Len(s) + 1 :
          Append(s, m)[i].id = IF i = Len(s) + 1 THEN m.id ELSE Ids(s)[i]
    <3>1. \A i \in 1 .. Len(s) + 1 : i # Len(s) + 1 => i \in 1 .. Len(s)
      BY <1>1
    <3> QED BY <1>2, <2>1, <3>1
  <2> QED BY <2>2, <2>3, <2>4
<1> QED BY <1>2, <1>3, <1>4

\* The socket loses its first message.
LEMMA SocketTail ==
  ASSUME TypeOK, inbox # <<>>, inbox' = Tail(inbox), NEW r \in Foreign, NotTwice(Ids(inbox), r)
  PROVE  /\ Holds(Ids(inbox'), r) <=> Holds(Ids(inbox), r) /\ r # Head(inbox).id
         /\ NotTwice(Ids(inbox'), r)
         /\ r = Head(inbox).id => Holds(Ids(inbox), r)
<1>1. inbox \in Seq(Message)
  BY DEF TypeOK, NetType
<1>2. PICK T : Ids(inbox) \in Seq(T)
  BY <1>1, IdsIs
<1>3. /\ Ids(inbox) # <<>> /\ Ids(inbox') = Tail(Ids(inbox))
      /\ Head(Ids(inbox)) = Head(inbox).id
  BY <1>1, IdsIs
<1>4. /\ Holds(Tail(Ids(inbox)), r) <=> Holds(Ids(inbox), r) /\ r # Head(Ids(inbox))
      /\ NotTwice(Tail(Ids(inbox)), r)
  BY <1>2, <1>3, TailPlace
<1>5. 1 \in DOMAIN Ids(inbox) /\ Ids(inbox)[1] = Head(Ids(inbox))
  BY <1>2, <1>3
<1> QED BY <1>3, <1>4, <1>5 DEF Holds

\* A message arrives in the socket.
LEMMA SocketAppend ==
  ASSUME TypeOK, NEW m \in Message, inbox' = Append(inbox, m), NEW r \in Foreign,
         NotTwice(Ids(inbox), r), r = m.id => ~Holds(Ids(inbox), r)
  PROVE  /\ Holds(Ids(inbox'), r) <=> Holds(Ids(inbox), r) \/ r = m.id
         /\ NotTwice(Ids(inbox'), r)
<1>1. inbox \in Seq(Message)
  BY DEF TypeOK, NetType
<1>2. PICK T : Ids(inbox) \in Seq(T)
  BY <1>1, IdsIs
<1>3. Ids(inbox') = Append(Ids(inbox), m.id)
  BY <1>1, IdsIs
<1> DEFINE U == T \cup {m.id}
<1>4. Ids(inbox) \in Seq(U) /\ m.id \in U
  BY <1>2
<1> HIDE DEF U
<1> QED BY <1>3, <1>4, AppendPlace

-----------------------------------------------------------------------------
(* ... and that it does not disappear                                      *)

\* Nothing that excuses a loss is undone: a closed connection, a removed path
\* and a dropped future stay what they are.
Ages ==
  /\ closed => closed'
  /\ qopen' => qopen
  /\ \A p \in Procs : Dropped(p) => Dropped(p)'

\* A future that has not been dropped moves on.
LEMMA MoveAges ==
  ASSUME TypeOK, NEW p \in Procs, NEW l, Goto(p, l),
         \A q \in Procs : q # p => got'[q] = got[q],
         closed => closed', UNCHANGED qopen,
         pc[p] \notin {"abandoned", "spawned", "clean_wait", "clean", "gone"}
  PROVE  Ages
  BY DEF Ages, Dropped, Goto, TypeOK, FutType

\* A cleanup task moves on: its future stays dropped.
LEMMA CleanAges ==
  ASSUME TypeOK, NEW p \in Procs, NEW l \in {"clean_wait", "clean", "gone"}, Goto(p, l),
         UNCHANGED <<got, closed, qopen>>
  PROVE  Ages
  BY DEF Ages, Dropped, Goto, TypeOK, FutType

\* No future moves.
LEMMA KeepAges ==
  ASSUME UNCHANGED <<pc, got>>, closed => closed', qopen' => qopen
  PROVE  Ages
  BY DEF Ages, Dropped

\* Polling msg_fut sets only the result of its own future.
LEMMA PollMsgAges ==
  ASSUME TypeOK, NEW p \in Procs, NEW pending, PollMsg(p, pending),
         UNCHANGED <<qopen, closed>>,
         pc[p] \notin {"abandoned", "spawned", "clean_wait", "clean", "gone"}
  PROVE  Ages
<1>1. /\ \E l : Goto(p, l)
      /\ \A q \in Procs : q # p => got'[q] = got[q]
  BY DEF PollMsg, TakeMsg, TakeErr, TypeOK, FutType
<1> QED BY <1>1, MoveAges

\* Every step does.
LEMMA AgesNext == TypeOK /\ [Next]_vars => Ages
<1> SUFFICES ASSUME TypeOK, [Next]_vars PROVE Ages
  OBVIOUS
<1>0. got \in [Procs -> Calls \cup RemoteCalls \cup {None, Err}]
  BY DEF TypeOK, FutType
<1>1. ASSUME NEW p \in Procs, Start(p) \/ LockPoll(p) PROVE Ages
  BY <1>1, MoveAges DEF Start, LockPoll, MutexPoll, sharedVars, netVars
<1>2. ASSUME NEW p \in Procs, PollOnce(p) PROVE Ages
  BY <1>2, PollMsgAges DEF PollOnce, netVars
<1>3. ASSUME NEW p \in Procs, SelectMsg(p) PROVE Ages
  BY <1>3, PollMsgAges DEF SelectMsg, netVars
<1>4. ASSUME NEW p \in Procs, Readable(p) \/ ReadableWoken(p) \/ SelectWake(p) \/ SelectLock(p)
      PROVE  Ages
  BY <1>4, MoveAges
  DEF Readable, ReadableWoken, SelectWake, SelectLock, MutexPoll, sharedVars, netVars
<1>5. ASSUME NEW p \in Procs, ReadMine(p) \/ ReadEof(p) \/ ReadFault(p) PROVE Ages
  <2>1. /\ Goto(p, "ret") /\ pc[p] = "read" /\ (closed => closed') /\ UNCHANGED qopen
        /\ \A q \in Procs : q # p => got'[q] = got[q]
    BY <1>0, <1>5 DEF ReadMine, ReadEof, ReadFault, sharedVars, netVars
  <2> QED BY <2>1, MoveAges
<1>6. ASSUME NEW p \in Procs, ReadSignal(p) \/ ReadReply(p) \/ ReadCall(p) PROVE Ages
  BY <1>6, KeepAges DEF ReadSignal, ReadReply, ReadCall, futVars, sharedVars
<1>7. ASSUME NEW p \in Procs, ReadUnknown(p) \/ ReadWouldBlock(p) \/ ClearReady(p) PROVE Ages
  BY <1>7, MoveAges DEF ReadUnknown, ReadWouldBlock, ClearReady, sharedVars, netVars
<1>8. ASSUME NEW p \in Procs, Answer(p) \/ AnswerSent(p) \/ AnswerFail(p) PROVE Ages
  <2>1. /\ \E l : Goto(p, l)
        /\ pc[p] \in {"answering", "flushing"} /\ UNCHANGED <<closed, qopen>>
        /\ \A q \in Procs : q # p => got'[q] = got[q]
    BY <1>0, <1>8 DEF Answer, AnswerSent, AnswerFail, sharedVars, netVars
  <2> QED BY <2>1, MoveAges
<1>9. ASSUME NEW p \in Procs, Cancel(p) PROVE Ages
  <2>1. Goto(p, "abandoned") /\ UNCHANGED <<got, closed, qopen>>
    BY <1>9 DEF Cancel
  <2>2. pc[p] \notin {"abandoned", "spawned", "clean_wait", "clean", "gone"}
    BY <1>9 DEF Cancel, Suspended
  <2> QED BY <2>1, <2>2, MoveAges
<1>10. ASSUME NEW c \in Calls, InsertSender(c) \/ SendReturn(c) PROVE Ages
  BY <1>10, MoveAges DEF InsertSender, SendReturn, sharedVars, netVars
<1>11. ASSUME NEW c \in Calls, SendQueue(c) \/ SendFlush(c) PROVE Ages
  BY <1>11, KeepAges DEF SendQueue, SendFlush, sharedVars, futVars
<1>12. ASSUME NEW c \in Calls, SendFail(c) PROVE Ages
  <2>1. /\ Goto(c, "abandoned") /\ pc[c] = "sending" /\ UNCHANGED <<closed, qopen>>
        /\ \A q \in Procs : q # c => got'[q] = got[q]
    BY <1>0, <1>12 DEF SendFail, sharedVars, netVars
  <2> QED BY <2>1, MoveAges
<1>13. ASSUME NEW c \in Calls, CleanPoll(c) \/ Clean(c) PROVE Ages
  BY <1>13, CleanAges DEF CleanPoll, Clean, MutexPoll, sharedVars, netVars
<1>14. ASSUME NEW c \in Calls, DropResponse(c) PROVE Ages
  <2>1. (Goto(c, "gone") \/ Goto(c, "spawned")) /\ UNCHANGED <<got, closed, qopen>>
    BY <1>14 DEF DropResponse
  <2>2. pc[c] \notin {"abandoned", "spawned", "clean_wait", "clean", "gone"}
    BY <1>14 DEF DropResponse, Suspended
  <2> QED BY <2>1, <2>2, MoveAges
<1>15. ASSUME NEW c \in Calls, PeerReply(c) PROVE Ages
  BY <1>15, KeepAges DEF PeerReply, Arrive, sharedVars, futVars
<1>16. ASSUME NEW l \in Listeners, GetReceiver(l) PROVE Ages
  <2>1. /\ \E k : Goto(l, k)
        /\ pc[l] = "prep" /\ UNCHANGED <<closed, qopen>>
        /\ \A q \in Procs : q # l => got'[q] = got[q]
    BY <1>0, <1>16 DEF GetReceiver, sharedVars, netVars
  <2> QED BY <2>1, MoveAges
<1>17. ASSUME NEW r \in Foreign, PeerCall(r) \/ PeerFault(r) PROVE Ages
  BY <1>17, KeepAges DEF PeerCall, PeerFault, Arrive, sharedVars, futVars
<1>18. CASE RemovePath \/ PeerSignal \/ PeerClose \/ UNCHANGED vars
  BY <1>18, KeepAges
  DEF RemovePath, PeerSignal, PeerClose, Arrive, sharedVars, futVars, netVars, vars
<1>19. CASE DriverEvent
  BY <1>19 DEF DriverEvent, Ages, Dropped, sharedVars, netVars
<1> QED
  BY <1>1, <1>2, <1>3, <1>4, <1>5, <1>6, <1>7, <1>8, <1>9, <1>10, <1>11, <1>12,
     <1>13, <1>14, <1>15, <1>16, <1>17, <1>18, <1>19
  DEF Next, GetMsgStep, CallStep

\* What a step has to do for a message not to disappear.
LEMMA KeptStep ==
  ASSUME PlaceInv, Ages, NEW r \in Foreign,
         r \in peer' => r \in peer \/ Reaching(r)',
         r \in RemoteCalls /\ qopen' /\ Reaching(r) => Reaching(r)',
         r \notin RemoteCalls /\ Somewhere(r) => Somewhere(r)' \/ Excused'
  PROVE  Kept(r)'
<1>1. Kept(r)
  BY DEF PlaceInv
<1>2. qopen' => qopen
  BY DEF Ages
<1>3. Excused => Excused'
  BY ConstantsAssumption DEF Ages, Excused
<1>4. Reaching(r)' => Somewhere(r)'
  BY DEF Somewhere
<1> QED BY <1>1, <1>2, <1>3, <1>4 DEF Kept

\* A future moves on or returns something other than what the peer sent of its
\* own; the queue of a path that was removed may be emptied.
LEMMA MovePlace ==
  ASSUME TypeOK, PlaceInv, Ages, NEW p \in Procs, NEW l \in PC, Goto(p, l),
         UNCHANGED <<inbox, peer, replying, answered, failed>>,
         callq' = callq \/ (callq' = <<>> /\ ~qopen'),
         l \in Unfinished => got' = got /\ pc[p] \in Unfinished,
         l \notin {"answering", "flushing"} => replying[p] = None,
         got' # got => pc[p] \in Unfinished,
         NEW v \in Calls \cup {None, Err}, got' \in {got, [got EXCEPT ![p] = v]}
  PROVE  PlaceInv'
<1>1. pc' = [pc EXCEPT ![p] = l] /\ DOMAIN got = Procs /\ callq \in Seq(RemoteCalls)
  BY DEF Goto, TypeOK, SharedType, FutType
<1>2. EmptyHanded'
  BY <1>1 DEF PlaceInv, EmptyHanded, TypeOK, FutType
<1>3. ASSUME NEW r \in Foreign
      PROVE  (Holds(got', r) <=> Holds(got, r)) /\ NotTwice(got', r)
  <2>1. NotTwice(got, r)
    BY DEF PlaceInv, NowhereTwice
  <2>2. CASE got' = got
    BY <2>1, <2>2
  <2>3. CASE got' # got
    <3>1. got' = [got EXCEPT ![p] = v] /\ got[p] = None
      BY <2>3 DEF PlaceInv, EmptyHanded
    <3>2. got[p] # r /\ r # v
      BY <3>1, ConstantsAssumption
    <3> QED BY <1>1, <2>1, <3>1, <3>2, SetPlace
  <2> QED BY <2>2, <2>3
<1>4. ASSUME NEW r \in Foreign
      PROVE  /\ NotTwice(callq', r) /\ (Holds(callq', r) => Holds(callq, r))
             /\ qopen' \/ r \notin RemoteCalls => (Holds(callq, r) => Holds(callq', r))
  BY <1>1 DEF PlaceInv, NowhereTwice, Holds, NotTwice
<1>5. NowhereTwice'
  BY <1>3, <1>4 DEF PlaceInv, NowhereTwice
<1>6. ASSUME NEW r \in Foreign PROVE InOne(r)'
  BY <1>3, <1>4 DEF PlaceInv, InOne, Somewhere, Reaching
<1>7. ASSUME NEW r \in Foreign PROVE Kept(r)'
  BY <1>3, <1>4, KeptStep DEF Somewhere, Reaching
<1> QED BY <1>2, <1>5, <1>6, <1>7 DEF PlaceInv

\* A future that was answering a call has sent the reply, fails or is dropped.
LEMMA ClearsPlace ==
  ASSUME TypeOK, PlaceInv, Ages, NEW p \in Procs, NEW l \in PC, Goto(p, l),
         UNCHANGED <<inbox, peer>>, replying' = [replying EXCEPT ![p] = None],
         callq' = callq \/ (callq' = <<>> /\ ~qopen'),
         l \in Unfinished => got' = got /\ pc[p] \in Unfinished,
         got' = got \/ (pc[p] \in Unfinished /\ got' = [got EXCEPT ![p] = Err]),
         \/ answered' = answered \cup {replying[p]} /\ UNCHANGED failed
         \/ failed' = failed \cup {replying[p]} /\ UNCHANGED answered
         \/ UNCHANGED <<answered, failed>> /\ (replying[p] # None => Excused')
  PROVE  PlaceInv'
<1> DEFINE h == replying[p]
<1>1. /\ pc' = [pc EXCEPT ![p] = l] /\ DOMAIN got = Procs /\ callq \in Seq(RemoteCalls)
      /\ DOMAIN replying = Procs
  BY DEF Goto, TypeOK, SharedType, FutType
<1>2. EmptyHanded'
  BY <1>1 DEF PlaceInv, EmptyHanded, TypeOK, FutType
<1>3. ASSUME NEW r \in Foreign
      PROVE  (Holds(got', r) <=> Holds(got, r)) /\ NotTwice(got', r)
  <2>1. NotTwice(got, r)
    BY DEF PlaceInv, NowhereTwice
  <2>2. CASE got' = got
    BY <2>1, <2>2
  <2>3. CASE got' # got
    <3>1. got' = [got EXCEPT ![p] = Err] /\ got[p] = None
      BY <2>3 DEF PlaceInv, EmptyHanded
    <3>2. got[p] # r /\ r # Err
      BY <3>1, ConstantsAssumption
    <3> QED BY <1>1, <2>1, <3>1, <3>2, SetPlace
  <2> QED BY <2>2, <2>3
<1>4. ASSUME NEW r \in Foreign
      PROVE  /\ NotTwice(callq', r) /\ (Holds(callq', r) => Holds(callq, r))
             /\ qopen' \/ r \notin RemoteCalls => (Holds(callq, r) => Holds(callq', r))
  BY <1>1 DEF PlaceInv, NowhereTwice, Holds, NotTwice
<1>5. ASSUME NEW r \in Foreign
      PROVE  /\ Holds(replying', r) <=> Holds(replying, r) /\ r # h
             /\ NotTwice(replying', r)
             /\ r = h => Holds(replying, r)
  <2>1. NotTwice(replying, r) /\ r # None
    BY ConstantsAssumption DEF PlaceInv, NowhereTwice
  <2>2. (Holds(replying', r) <=> Holds(replying, r) /\ r # h) /\ NotTwice(replying', r)
    BY <1>1, <2>1, ClearPlace
  <2>3. r = h => Holds(replying, r)
    BY <1>1 DEF Holds
  <2> QED BY <2>2, <2>3
<1>6. \A r \in Foreign : r # None
  BY ConstantsAssumption
<1>7. \/ answered' = answered \cup {h} /\ UNCHANGED failed
      \/ failed' = failed \cup {h} /\ UNCHANGED answered
      \/ UNCHANGED <<answered, failed>> /\ (h # None => Excused')
  OBVIOUS
<1> HIDE DEF h
<1>8. NowhereTwice'
  BY <1>3, <1>4, <1>5 DEF PlaceInv, NowhereTwice
<1>9. ASSUME NEW r \in Foreign PROVE InOne(r)'
  <2>1. InOne(r)
    BY DEF PlaceInv
  <2> QED BY <1>3, <1>4, <1>5, <1>7, <2>1 DEF InOne, Somewhere, Reaching
<1>10. ASSUME NEW r \in Foreign PROVE Kept(r)'
  <2>1. r \in RemoteCalls /\ qopen' /\ Reaching(r) => Reaching(r)'
    BY <1>3, <1>4 DEF Reaching
  <2>2. r \notin RemoteCalls /\ Somewhere(r) => Somewhere(r)' \/ Excused'
    BY <1>3, <1>4, <1>5, <1>6, <1>7 DEF Somewhere, Reaching
  <2> QED BY <2>1, <2>2, KeptStep
<1> QED BY <1>2, <1>8, <1>9, <1>10 DEF PlaceInv

\* A future is dropped with the reply it was sending.
LEMMA DropPlace ==
  ASSUME TypeOK, PlaceInv, Ages, NEW p \in Droppable,
         NEW l \in {"abandoned", "spawned", "gone"}, Goto(p, l), pc[p] \in Unfinished,
         DropAnswer(p), UNCHANGED <<inbox, peer, got, failed>>,
         callq' = callq \/ (callq' = <<>> /\ ~qopen')
  PROVE  PlaceInv'
<1>1. p \in Procs /\ l \in PC \ Unfinished
  BY ConstantsAssumption DEF PC, Unfinished, InGetMsg
<1>2. Dropped(p)'
  BY <1>1 DEF Dropped, PlaceInv, EmptyHanded, Goto, TypeOK, FutType
<1>3. Excused'
  BY <1>2 DEF Excused
<1> QED BY <1>1, <1>3, ClearsPlace DEF DropAnswer

\* Nothing that matters changes.
LEMMA KeepPlace ==
  ASSUME PlaceInv, Ages, UNCHANGED <<pc, callq, inbox, answered, failed, got, replying>>,
         \A r \in Foreign : r \in peer' <=> r \in peer
  PROVE  PlaceInv'
<1>1. EmptyHanded' /\ NowhereTwice'
  BY DEF PlaceInv, EmptyHanded, NowhereTwice
<1>2. ASSUME NEW r \in Foreign PROVE InOne(r)'
  BY DEF PlaceInv, InOne, Somewhere, Reaching
<1>3. ASSUME NEW r \in Foreign PROVE Kept(r)'
  BY KeptStep DEF Somewhere, Reaching
<1> QED BY <1>1, <1>2, <1>3 DEF PlaceInv

\* The path is removed.
LEMMA RemovePlace ==
  ASSUME TypeOK, PlaceInv, Ages, RemovePath
  PROVE  PlaceInv'
<1>1. /\ UNCHANGED <<pc, inbox, answered, failed, got, replying, peer>> /\ ~qopen'
      /\ callq' = callq \/ callq' = <<>>
      /\ callq \in Seq(RemoteCalls)
  BY DEF RemovePath, futVars, netVars, TypeOK, SharedType
<1>2. ASSUME NEW r \in Foreign
      PROVE  /\ NotTwice(callq', r) /\ (Holds(callq', r) => Holds(callq, r))
             /\ r \notin RemoteCalls => (Holds(callq, r) => Holds(callq', r))
  BY <1>1 DEF PlaceInv, NowhereTwice, Holds, NotTwice
<1>3. EmptyHanded' /\ NowhereTwice'
  BY <1>1, <1>2 DEF PlaceInv, EmptyHanded, NowhereTwice
<1>4. ASSUME NEW r \in Foreign PROVE InOne(r)'
  BY <1>1, <1>2 DEF PlaceInv, InOne, Somewhere, Reaching
<1>5. ASSUME NEW r \in Foreign PROVE Kept(r)'
  BY <1>1, <1>2, KeptStep DEF Somewhere, Reaching
<1> QED BY <1>3, <1>4, <1>5 DEF PlaceInv

\* get_msg polls msg_fut: get_call takes the oldest call of the queue.
LEMMA PollMsgPlace ==
  ASSUME TypeOK, PlaceInv, Ages, NEW p \in Procs,
         pc[p] \in Unfinished \ {"answering", "flushing"},
         NEW pending \in Unfinished, PollMsg(p, pending),
         UNCHANGED <<inbox, answered, failed, replying, peer, qopen>>
  PROVE  PlaceInv'
<1>0. Unfinished \subseteq PC /\ "ret" \in PC \ Unfinished /\ "panicked" \in PC \ Unfinished
  BY DEF Unfinished, InGetMsg, PC
<1>00. replying[p] = None
  BY DEF PlaceInv, EmptyHanded
<1>1. CASE TakeMsg(p) /\ p \in Calls
  <2>1. /\ got' = [got EXCEPT ![p] = chan[p]] /\ callq' = callq /\ Goto(p, "ret")
        /\ chan[p] \in Calls \cup {None, Err}
    BY <1>1 DEF TakeMsg, TypeOK, SharedType
  <2> QED BY <1>0, <1>00, <2>1, MovePlace
<1>2. CASE TakeMsg(p) /\ p \notin Calls
  <2>1. /\ callq # <<>> /\ got' = [got EXCEPT ![p] = Head(callq)]
        /\ callq' = Tail(callq) \/ (callq' = <<>> /\ ~qopen)
        /\ pc' = [pc EXCEPT ![p] = "ret"]
    BY <1>2 DEF TakeMsg, HasMsg, Goto, LeftIn
  <2>2. callq \in Seq(RemoteCalls) /\ DOMAIN got = Procs /\ got[p] = None
    BY DEF TypeOK, SharedType, FutType, PlaceInv, EmptyHanded
  <2>3. EmptyHanded'
    BY <1>0, <1>00, <2>1 DEF PlaceInv, EmptyHanded, TypeOK, FutType
  <2>4. ASSUME NEW r \in Foreign
        PROVE  /\ Holds(callq', r) => Holds(callq, r) /\ r # Head(callq)
               /\ qopen => (Holds(callq, r) /\ r # Head(callq) => Holds(callq', r))
               /\ NotTwice(callq', r)
               /\ r = Head(callq) => Holds(callq, r)
               /\ Holds(callq, r) => r \in RemoteCalls
               /\ Holds(got', r) <=> Holds(got, r) \/ r = Head(callq)
               /\ NotTwice(got', r)
    <3>1. NotTwice(callq, r) /\ NotTwice(got, r) /\ got[p] # r
      BY <2>2, ConstantsAssumption DEF PlaceInv, NowhereTwice
    <3>2. /\ Holds(Tail(callq), r) <=> Holds(callq, r) /\ r # Head(callq)
          /\ NotTwice(Tail(callq), r)
      BY <2>1, <2>2, <3>1, TailPlace
    <3>3. ~Holds(<<>>, r) /\ NotTwice(<<>>, r)
      BY DEF Holds, NotTwice
    <3>4. r = Head(callq) => Holds(callq, r)
      BY <2>1, <2>2 DEF Holds
    <3>5. r = Head(callq) => ~Holds(got, r)
      BY <3>4 DEF PlaceInv, InOne
    <3>6. (Holds(got', r) <=> Holds(got, r) \/ r = Head(callq)) /\ NotTwice(got', r)
      <4> DEFINE h == Head(callq)
      <4>1. got' = [got EXCEPT ![p] = h] /\ (r = h => ~Holds(got, r))
        BY <2>1, <3>5
      <4> HIDE DEF h
      <4>2. (Holds(got', r) <=> Holds(got, r) \/ r = h) /\ NotTwice(got', r)
        BY <2>2, <3>1, <4>1, SetPlace
      <4> QED BY <4>2 DEF h
    <3>7. Holds(callq, r) => r \in RemoteCalls
      BY <2>2 DEF Holds
    <3> QED BY <2>1, <3>2, <3>3, <3>4, <3>6, <3>7
  <2>5. NowhereTwice'
    BY <2>4 DEF PlaceInv, NowhereTwice
  <2>6. ASSUME NEW r \in Foreign PROVE InOne(r)'
    BY <2>4 DEF PlaceInv, InOne, Somewhere, Reaching
  <2>7. ASSUME NEW r \in Foreign PROVE Kept(r)'
    BY <2>4, KeptStep DEF Somewhere, Reaching
  <2> QED BY <2>3, <2>5, <2>6, <2>7 DEF PlaceInv
<1>3. CASE TakeErr(p)
  <2>1. /\ got' = [got EXCEPT ![p] = Err] /\ callq' = callq
        /\ Goto(p, "ret") \/ Goto(p, "panicked")
    BY <1>3 DEF TakeErr
  <2> QED BY <1>0, <1>00, <2>1, MovePlace
<1>4. CASE UNCHANGED <<got, callq>> /\ Goto(p, pending)
  BY <1>0, <1>00, <1>4, MovePlace
<1> QED BY <1>1, <1>2, <1>3, <1>4 DEF PollMsg

\* queue_msg reads a message that is no call and does not return it.
LEMMA SkipPlace ==
  ASSUME TypeOK, PlaceInv, Ages, inbox # <<>>, inbox' = Tail(inbox),
         Head(inbox).id \notin Foreign,
         UNCHANGED <<pc, got, replying, callq, answered, failed, peer>>
  PROVE  PlaceInv'
<1>1. ASSUME NEW r \in Foreign
      PROVE  (Holds(Ids(inbox'), r) <=> Holds(Ids(inbox), r)) /\ NotTwice(Ids(inbox'), r)
  BY SocketTail DEF PlaceInv, NowhereTwice
<1>2. EmptyHanded' /\ NowhereTwice'
  BY <1>1 DEF PlaceInv, EmptyHanded, NowhereTwice
<1>3. ASSUME NEW r \in Foreign PROVE InOne(r)'
  BY <1>1 DEF PlaceInv, InOne, Somewhere, Reaching
<1>4. ASSUME NEW r \in Foreign PROVE Kept(r)'
  BY <1>1, KeptStep DEF Somewhere, Reaching
<1> QED BY <1>2, <1>3, <1>4 DEF PlaceInv

\* A reader returns what it read.
LEMMA ReadMinePlace ==
  ASSUME TypeOK, PlaceInv, Ages, NEW p \in Procs, ReadMine(p)
  PROVE  PlaceInv'
<1> DEFINE h == Head(inbox).id
<1>1. /\ pc[p] = "read" /\ inbox # <<>> /\ inbox' = Tail(inbox)
      /\ got' = [got EXCEPT ![p] = h] /\ pc' = [pc EXCEPT ![p] = "ret"]
      /\ UNCHANGED <<callq, replying, answered, failed, peer>>
  BY DEF ReadMine, Goto, sharedVars
<1>2. "read" \in Unfinished \ {"answering", "flushing"} /\ "ret" \notin Unfinished
  BY DEF Unfinished, InGetMsg
<1>3. DOMAIN got = Procs /\ got[p] = None
  BY <1>1, <1>2 DEF TypeOK, FutType, PlaceInv, EmptyHanded
<1>4. EmptyHanded'
  BY <1>1, <1>2 DEF PlaceInv, EmptyHanded, TypeOK, FutType
<1> HIDE DEF h
<1>5. ASSUME NEW r \in Foreign
      PROVE  /\ Holds(Ids(inbox'), r) <=> Holds(Ids(inbox), r) /\ r # h
             /\ NotTwice(Ids(inbox'), r)
             /\ r = h => Holds(Ids(inbox), r)
             /\ Holds(got', r) <=> Holds(got, r) \/ r = h
             /\ NotTwice(got', r)
  <2>1. NotTwice(Ids(inbox), r) /\ NotTwice(got, r) /\ got[p] # r
    BY <1>3, ConstantsAssumption DEF PlaceInv, NowhereTwice
  <2>2. /\ Holds(Ids(inbox'), r) <=> Holds(Ids(inbox), r) /\ r # h
        /\ NotTwice(Ids(inbox'), r)
        /\ r = h => Holds(Ids(inbox), r)
    BY <1>1, <2>1, SocketTail DEF h
  <2>3. r = h => ~Holds(got, r)
    BY <2>2 DEF PlaceInv, InOne
  <2>4. (Holds(got', r) <=> Holds(got, r) \/ r = h) /\ NotTwice(got', r)
    BY <1>1, <1>3, <2>1, <2>3, SetPlace
  <2> QED BY <2>2, <2>4
<1>6. NowhereTwice'
  BY <1>1, <1>5 DEF PlaceInv, NowhereTwice
<1>7. ASSUME NEW r \in Foreign PROVE InOne(r)'
  BY <1>1, <1>5 DEF PlaceInv, InOne, Somewhere, Reaching
<1>8. ASSUME NEW r \in Foreign PROVE Kept(r)'
  BY <1>1, <1>5, KeptStep DEF Somewhere, Reaching
<1> QED BY <1>4, <1>6, <1>7, <1>8 DEF PlaceInv

\* A reader returns an error because of what it read.
LEMMA ReadFaultPlace ==
  ASSUME TypeOK, PlaceInv, Ages, NEW p \in Procs, ReadFault(p)
  PROVE  PlaceInv'
<1> DEFINE h == Head(inbox).id
<1>1. /\ pc[p] = "read" /\ inbox # <<>> /\ inbox' = Tail(inbox)
      /\ got' = [got EXCEPT ![p] = Err] /\ pc' = [pc EXCEPT ![p] = "ret"]
      /\ callq' = callq \/ (callq' = <<>> /\ ~qopen')
      /\ failed' = failed \cup {h}
      /\ UNCHANGED <<replying, answered, peer>>
  BY DEF ReadFault, Goto, LeftIn
<1>2. "read" \in Unfinished \ {"answering", "flushing"} /\ "ret" \notin Unfinished
  BY DEF Unfinished, InGetMsg
<1>3. DOMAIN got = Procs /\ got[p] = None /\ callq \in Seq(RemoteCalls)
  BY <1>1, <1>2 DEF TypeOK, SharedType, FutType, PlaceInv, EmptyHanded
<1>4. EmptyHanded'
  BY <1>1, <1>2 DEF PlaceInv, EmptyHanded, TypeOK, FutType
<1>5. h \in Faulty /\ h \notin RemoteCalls
  BY <1>1, InboxHead, ConstantsAssumption DEF ReadFault, Message, TypeOK
<1> HIDE DEF h
<1>6. ASSUME NEW r \in Foreign
      PROVE  /\ Holds(Ids(inbox'), r) <=> Holds(Ids(inbox), r) /\ r # h
             /\ NotTwice(Ids(inbox'), r)
             /\ r = h => Holds(Ids(inbox), r)
             /\ Holds(got', r) <=> Holds(got, r)
             /\ NotTwice(got', r)
  <2>1. NotTwice(Ids(inbox), r) /\ NotTwice(got, r) /\ got[p] # r /\ r # Err
    BY <1>3, ConstantsAssumption DEF PlaceInv, NowhereTwice
  <2>2. /\ Holds(Ids(inbox'), r) <=> Holds(Ids(inbox), r) /\ r # h
        /\ NotTwice(Ids(inbox'), r)
        /\ r = h => Holds(Ids(inbox), r)
    BY <1>1, <2>1, SocketTail DEF h
  <2>3. (Holds(got', r) <=> Holds(got, r)) /\ NotTwice(got', r)
    BY <1>1, <1>3, <2>1, SetPlace
  <2> QED BY <2>2, <2>3
<1>7. ASSUME NEW r \in Foreign
      PROVE  /\ NotTwice(callq', r) /\ (Holds(callq', r) => Holds(callq, r))
             /\ qopen' \/ r \notin RemoteCalls => (Holds(callq, r) => Holds(callq', r))
  BY <1>1, <1>3 DEF PlaceInv, NowhereTwice, Holds, NotTwice
<1>8. NowhereTwice'
  BY <1>1, <1>6, <1>7 DEF PlaceInv, NowhereTwice
<1>9. ASSUME NEW r \in Foreign PROVE InOne(r)'
  <2>1. InOne(r)
    BY DEF PlaceInv
  <2> QED BY <1>1, <1>6, <1>7, <2>1 DEF InOne, Somewhere, Reaching
<1>10. ASSUME NEW r \in Foreign PROVE Kept(r)'
  <2>1. r \in RemoteCalls /\ qopen' /\ Reaching(r) => Reaching(r)'
    BY <1>5, <1>6, <1>7 DEF Reaching
  <2>2. r \notin RemoteCalls /\ Somewhere(r) => Somewhere(r)'
    BY <1>1, <1>6, <1>7 DEF Somewhere, Reaching
  <2> QED BY <1>1, <2>1, <2>2, KeptStep
<1> QED BY <1>4, <1>8, <1>9, <1>10 DEF PlaceInv

\* queue_msg puts a call in the path's queue.
LEMMA ReadCallPlace ==
  ASSUME TypeOK, PlaceInv, Ages, NEW p \in Procs, ReadCall(p)
  PROVE  PlaceInv'
<1> DEFINE h == Head(inbox).id
<1>1. /\ inbox # <<>> /\ inbox' = Tail(inbox) /\ callq' = Append(callq, h)
      /\ UNCHANGED <<pc, got, replying, answered, failed, peer>> /\ h \in RemoteCalls
  BY DEF ReadCall, Handled, futVars
<1>2. callq \in Seq(RemoteCalls)
  BY DEF TypeOK, SharedType
<1> HIDE DEF h
<1>3. ASSUME NEW r \in Foreign
      PROVE  /\ Holds(Ids(inbox'), r) <=> Holds(Ids(inbox), r) /\ r # h
             /\ NotTwice(Ids(inbox'), r)
             /\ r = h => Holds(Ids(inbox), r)
             /\ Holds(callq', r) <=> Holds(callq, r) \/ r = h
             /\ NotTwice(callq', r)
  <2>1. NotTwice(Ids(inbox), r) /\ NotTwice(callq, r)
    BY DEF PlaceInv, NowhereTwice
  <2>2. /\ Holds(Ids(inbox'), r) <=> Holds(Ids(inbox), r) /\ r # h
        /\ NotTwice(Ids(inbox'), r)
        /\ r = h => Holds(Ids(inbox), r)
    BY <1>1, <2>1, SocketTail DEF h
  <2>3. r = h => ~Holds(callq, r)
    BY <2>2 DEF PlaceInv, InOne
  <2>4. (Holds(callq', r) <=> Holds(callq, r) \/ r = h) /\ NotTwice(callq', r)
    BY <1>1, <1>2, <2>1, <2>3, AppendPlace
  <2> QED BY <2>2, <2>4
<1>4. EmptyHanded' /\ NowhereTwice'
  BY <1>1, <1>3 DEF PlaceInv, EmptyHanded, NowhereTwice
<1>5. ASSUME NEW r \in Foreign PROVE InOne(r)'
  BY <1>1, <1>3 DEF PlaceInv, InOne, Somewhere, Reaching
<1>6. ASSUME NEW r \in Foreign PROVE Kept(r)'
  BY <1>1, <1>3, KeptStep DEF Somewhere, Reaching
<1> QED BY <1>4, <1>5, <1>6 DEF PlaceInv

\* Nobody handles the call: the reader is given the error reply to send.
LEMMA ReadUnknownPlace ==
  ASSUME TypeOK, PlaceInv, Ages, NEW p \in Procs, ReadUnknown(p)
  PROVE  PlaceInv'
<1> DEFINE h == Head(inbox).id
<1>1. /\ pc[p] = "read" /\ inbox # <<>> /\ inbox' = Tail(inbox)
      /\ replying' = [replying EXCEPT ![p] = h] /\ pc' = [pc EXCEPT ![p] = "answering"]
      /\ UNCHANGED <<callq, qopen, got, answered, failed, peer>>
      /\ Head(inbox).kind = "call" /\ ~Handled(Head(inbox))
  BY DEF ReadUnknown, Goto, sharedVars
<1>2. "read" \in Unfinished \ {"answering", "flushing"} /\ "answering" \in Unfinished
  BY DEF Unfinished, InGetMsg
<1>3. DOMAIN replying = Procs /\ replying[p] = None
  BY <1>1, <1>2 DEF TypeOK, FutType, PlaceInv, EmptyHanded
<1>4. EmptyHanded'
  BY <1>1, <1>2 DEF PlaceInv, EmptyHanded, TypeOK, FutType
<1>5. h \in RemoteCalls => ~qopen'
  BY <1>1 DEF Handled
<1> HIDE DEF h
<1>6. ASSUME NEW r \in Foreign
      PROVE  /\ Holds(Ids(inbox'), r) <=> Holds(Ids(inbox), r) /\ r # h
             /\ NotTwice(Ids(inbox'), r)
             /\ r = h => Holds(Ids(inbox), r)
             /\ Holds(replying', r) <=> Holds(replying, r) \/ r = h
             /\ NotTwice(replying', r)
  <2>1. NotTwice(Ids(inbox), r) /\ NotTwice(replying, r) /\ replying[p] # r
    BY <1>3, ConstantsAssumption DEF PlaceInv, NowhereTwice
  <2>2. /\ Holds(Ids(inbox'), r) <=> Holds(Ids(inbox), r) /\ r # h
        /\ NotTwice(Ids(inbox'), r)
        /\ r = h => Holds(Ids(inbox), r)
    BY <1>1, <2>1, SocketTail DEF h
  <2>3. r = h => ~Holds(replying, r)
    BY <2>2 DEF PlaceInv, InOne
  <2>4. (Holds(replying', r) <=> Holds(replying, r) \/ r = h) /\ NotTwice(replying', r)
    BY <1>1, <1>3, <2>1, <2>3, SetPlace
  <2> QED BY <2>2, <2>4
<1>7. NowhereTwice'
  BY <1>1, <1>6 DEF PlaceInv, NowhereTwice
<1>8. ASSUME NEW r \in Foreign PROVE InOne(r)'
  BY <1>1, <1>6 DEF PlaceInv, InOne, Somewhere, Reaching
<1>9. ASSUME NEW r \in Foreign PROVE Kept(r)'
  <2>1. r \in RemoteCalls /\ qopen' /\ Reaching(r) => Reaching(r)'
    BY <1>1, <1>5, <1>6 DEF Reaching
  <2>2. Somewhere(r) => Somewhere(r)'
    BY <1>1, <1>6 DEF Somewhere, Reaching
  <2> QED BY <1>1, <2>1, <2>2, KeptStep
<1> QED BY <1>4, <1>7, <1>8, <1>9 DEF PlaceInv

\* The peer makes a call, or sends something else.
LEMMA ArrivePlace ==
  ASSUME TypeOK, PlaceInv, Ages, NEW m \in Message, Arrive(m),
         \A r \in Foreign : r \in peer' <=> r \in peer \/ r = m.id,
         m.id \in Foreign => m.id \notin peer
  PROVE  PlaceInv'
<1>1. inbox' = Append(inbox, m) /\ UNCHANGED <<pc, got, replying, callq, answered, failed>>
  BY DEF Arrive, futVars, sharedVars
<1>2. ASSUME NEW r \in Foreign
      PROVE  /\ Holds(Ids(inbox'), r) <=> Holds(Ids(inbox), r) \/ r = m.id
             /\ NotTwice(Ids(inbox'), r)
  <2>1. NotTwice(Ids(inbox), r) /\ (r = m.id => ~Holds(Ids(inbox), r))
    BY DEF PlaceInv, NowhereTwice, InOne, Somewhere, Reaching
  <2> QED BY <1>1, <2>1, SocketAppend
<1>3. EmptyHanded' /\ NowhereTwice'
  BY <1>1, <1>2 DEF PlaceInv, EmptyHanded, NowhereTwice
<1>4. ASSUME NEW r \in Foreign PROVE InOne(r)'
  BY <1>1, <1>2 DEF PlaceInv, InOne, Somewhere, Reaching
<1>5. ASSUME NEW r \in Foreign PROVE Kept(r)'
  BY <1>1, <1>2, KeptStep DEF Somewhere, Reaching
<1> QED BY <1>3, <1>4, <1>5 DEF PlaceInv

\* Every step keeps what the peer sent in one place each.
LEMMA PlaceNext == TypeOK /\ Begun /\ PlaceInv /\ [Next]_vars => PlaceInv'
<1> SUFFICES ASSUME TypeOK, Begun, PlaceInv, [Next]_vars PROVE PlaceInv'
  OBVIOUS
<1> USE DEF Unfinished, InGetMsg, PC
<1>0. /\ None \in Calls \cup {None, Err} /\ Err \in Calls \cup {None, Err}
      /\ Ages
      /\ \A p \in Procs : pc[p] \notin {"answering", "flushing"} => replying[p] = None
  BY AgesNext DEF PlaceInv, EmptyHanded
<1>1. ASSUME NEW p \in Procs, Start(p) \/ LockPoll(p) PROVE PlaceInv'
  BY <1>0, <1>1, MovePlace DEF Start, LockPoll, MutexPoll, sharedVars, netVars
<1>2. ASSUME NEW p \in Procs, PollOnce(p) PROVE PlaceInv'
  BY <1>0, <1>2, PollMsgPlace DEF PollOnce, netVars
<1>3. ASSUME NEW p \in Procs, SelectMsg(p) PROVE PlaceInv'
  BY <1>0, <1>3, PollMsgPlace DEF SelectMsg, netVars
<1>4. ASSUME NEW p \in Procs, Readable(p) \/ ReadableWoken(p) \/ SelectWake(p) PROVE PlaceInv'
  BY <1>0, <1>4, MovePlace DEF Readable, ReadableWoken, SelectWake, sharedVars, netVars
<1>5. ASSUME NEW p \in Procs, SelectLock(p) PROVE PlaceInv'
  BY <1>0, <1>5, MovePlace DEF SelectLock, MutexPoll, sharedVars, netVars
<1>6. ASSUME NEW p \in Procs, ReadMine(p) \/ ReadFault(p) PROVE PlaceInv'
  BY <1>0, <1>6, ReadMinePlace, ReadFaultPlace
<1>7. ASSUME NEW p \in Procs, ReadSignal(p) \/ ReadReply(p) PROVE PlaceInv'
  <2>1. Head(inbox) \in Message /\ Head(inbox).kind \in {"signal", "reply"}
    BY <1>7, InboxHead DEF ReadSignal, ReadReply, TypeOK
  <2>2. Head(inbox).id \notin Foreign
    BY <2>1, ConstantsAssumption DEF Message
  <2> QED BY <1>0, <1>7, <2>2, SkipPlace DEF ReadSignal, ReadReply, futVars, sharedVars
<1>8. ASSUME NEW p \in Procs, ReadCall(p) PROVE PlaceInv'
  BY <1>0, <1>8, ReadCallPlace
<1>9. ASSUME NEW p \in Procs, ReadUnknown(p) PROVE PlaceInv'
  BY <1>0, <1>9, ReadUnknownPlace
<1>10. ASSUME NEW p \in Procs, ReadWouldBlock(p) \/ ClearReady(p) PROVE PlaceInv'
  BY <1>0, <1>10, MovePlace DEF ReadWouldBlock, ClearReady, sharedVars, netVars
<1>24. ASSUME NEW p \in Procs, ReadEof(p) PROVE PlaceInv'
  <2>1. callq' = callq \/ (callq' = <<>> /\ ~qopen')
    BY <1>24 DEF ReadEof, LeftIn
  <2> QED BY <1>0, <1>24, <2>1, MovePlace DEF ReadEof, netVars
<1>11. ASSUME NEW p \in Procs, Answer(p) PROVE PlaceInv'
  BY <1>0, <1>11, MovePlace DEF Answer, netVars
<1>25. ASSUME NEW p \in Procs, AnswerSent(p) PROVE PlaceInv'
  BY <1>0, <1>25, ClearsPlace DEF AnswerSent, sharedVars
<1>26. ASSUME NEW p \in Procs, AnswerFail(p) PROVE PlaceInv'
  <2>1. callq' = callq \/ (callq' = <<>> /\ ~qopen')
    BY <1>26 DEF AnswerFail, LeftIn
  <2>2. \/ failed' = failed \cup {replying[p]} /\ UNCHANGED answered
        \/ UNCHANGED <<answered, failed>> /\ Excused'
    <3>1. CASE replying[p] \in Unanswerable
      BY <1>26, <3>1 DEF AnswerFail
    <3>2. CASE replying[p] \notin Unanswerable
      BY <1>26, <3>2 DEF AnswerFail, Excused
    <3> QED BY <3>1, <3>2
  <2>3. /\ Goto(p, "ret") /\ UNCHANGED <<inbox, peer>> /\ pc[p] = "flushing"
        /\ replying' = [replying EXCEPT ![p] = None] /\ got' = [got EXCEPT ![p] = Err]
    BY <1>26 DEF AnswerFail
  <2> QED BY <1>0, <2>1, <2>2, <2>3, ClearsPlace
<1>12. ASSUME NEW p \in Procs, Cancel(p) PROVE PlaceInv'
  <2>1. callq' = callq \/ (callq' = <<>> /\ ~qopen')
    BY <1>12 DEF Cancel, LeftIn
  <2>2. /\ p \in Droppable /\ pc[p] \in Unfinished /\ Goto(p, "abandoned") /\ DropAnswer(p)
        /\ UNCHANGED <<inbox, peer, got, failed>>
    BY <1>12 DEF Cancel, Suspended
  <2> QED BY <1>0, <2>1, <2>2, DropPlace
<1>13. ASSUME NEW c \in Calls, InsertSender(c) \/ Clean(c) PROVE PlaceInv'
  BY <1>0, <1>13, MovePlace DEF InsertSender, Clean, netVars
<1>14. ASSUME NEW c \in Calls, SendQueue(c) \/ SendFlush(c) PROVE PlaceInv'
  BY <1>0, <1>14, KeepPlace DEF SendQueue, SendFlush, futVars, sharedVars
<1>15. ASSUME NEW c \in Calls, SendReturn(c) \/ SendFail(c) PROVE PlaceInv'
  BY <1>0, <1>15, MovePlace DEF SendReturn, SendFail, sharedVars, netVars
<1>16. ASSUME NEW c \in Calls, CleanPoll(c) PROVE PlaceInv'
  BY <1>0, <1>16, MovePlace DEF CleanPoll, MutexPoll, sharedVars, netVars
<1>17. ASSUME NEW c \in Calls, DropResponse(c) PROVE PlaceInv'
  <2>1. /\ Goto(c, "gone") \/ Goto(c, "spawned")
        /\ UNCHANGED <<callq, inbox, failed, peer, got>> /\ DropAnswer(c)
    BY <1>17 DEF DropResponse
  <2>2. CASE pc[c] = "ret"
    <3>1. replying[c] = None /\ DOMAIN replying = Procs
      BY <1>0, <2>2 DEF TypeOK, FutType
    <3>2. UNCHANGED <<replying, answered>>
      BY <2>1, <3>1 DEF DropAnswer, TypeOK, FutType
    <3> QED BY <1>0, <2>1, <2>2, <3>1, <3>2, MovePlace
  <2>3. CASE c \in Droppable /\ pc[c] \in Unfinished
    BY <1>0, <2>1, <2>3, DropPlace
  <2> QED BY <1>17, <2>2, <2>3 DEF DropResponse, Suspended
<1>18. ASSUME NEW c \in Calls, PeerReply(c) PROVE PlaceInv'
  <2>1. idx[c] \in Serials
    BY <1>18 DEF PeerReply, TypeOK, SharedType, Begun
  <2> DEFINE m == [kind |-> "reply", id |-> c, serial |-> idx[c]]
  <2>2. m \in Message /\ m.id = c
    BY <2>1 DEF Message
  <2>3. c \notin Foreign /\ Arrive(m) /\ peer' = peer \cup {c}
    BY <1>18, ConstantsAssumption DEF PeerReply
  <2> HIDE DEF m
  <2> QED BY <1>0, <2>2, <2>3, ArrivePlace
<1>19. ASSUME NEW r \in Remote, PeerCall(r) PROVE PlaceInv'
  <2> DEFINE m == [kind |-> "call", id |-> r, serial |-> 0]
  <2>1. m \in Message /\ m.id = r
    BY DEF Message
  <2>2. r \notin peer /\ Arrive(m) /\ peer' = peer \cup {r}
    BY <1>19 DEF PeerCall
  <2> HIDE DEF m
  <2> QED BY <1>0, <2>1, <2>2, ArrivePlace
<1>27. ASSUME NEW f \in Faulty, PeerFault(f) PROVE PlaceInv'
  <2> DEFINE m == [kind |-> "faulty", id |-> f, serial |-> 0]
  <2>1. m \in Message /\ m.id = f
    BY DEF Message
  <2>2. f \notin peer /\ Arrive(m) /\ peer' = peer \cup {f}
    BY <1>27 DEF PeerFault
  <2> HIDE DEF m
  <2> QED BY <1>0, <2>1, <2>2, ArrivePlace
<1>20. ASSUME PeerSignal PROVE PlaceInv'
  <2> DEFINE m == [kind |-> "signal", id |-> None, serial |-> 0]
  <2>1. m \in Message /\ m.id = None
    BY DEF Message
  <2>2. None \notin Foreign /\ Arrive(m) /\ peer' = peer
    BY <1>20, ConstantsAssumption DEF PeerSignal
  <2> HIDE DEF m
  <2> QED BY <1>0, <2>1, <2>2, ArrivePlace
<1>21. ASSUME NEW l \in Listeners, GetReceiver(l) PROVE PlaceInv'
  BY <1>0, <1>21, MovePlace DEF GetReceiver, sharedVars, netVars
<1>22. CASE PeerClose \/ UNCHANGED vars
  BY <1>0, <1>22, KeepPlace DEF PeerClose, futVars, sharedVars, netVars, vars
<1>28. CASE RemovePath
  BY <1>0, <1>28, RemovePlace
<1>23. CASE DriverEvent
  <2>1. UNCHANGED <<got, replying, callq, inbox, answered, failed, peer>>
    BY <1>23 DEF DriverEvent, sharedVars, netVars
  <2>2. EmptyHanded'
    BY <1>23, <2>1 DEF DriverEvent, PlaceInv, EmptyHanded
  <2>3. NowhereTwice' /\ \A r \in Foreign : InOne(r)'
    BY <2>1 DEF PlaceInv, NowhereTwice, InOne, Somewhere, Reaching
  <2>4. ASSUME NEW r \in Foreign PROVE Kept(r)'
    BY <1>0, <2>1, KeptStep DEF Somewhere, Reaching
  <2> QED BY <2>2, <2>3, <2>4 DEF PlaceInv
<1> QED
  BY <1>1, <1>2, <1>3, <1>4, <1>5, <1>6, <1>7, <1>8, <1>9, <1>10, <1>11, <1>12,
     <1>13, <1>14, <1>15, <1>16, <1>17, <1>18, <1>19, <1>20, <1>21, <1>22, <1>23,
     <1>24, <1>25, <1>26, <1>27, <1>28
  DEF Next, GetMsgStep, CallStep

\* The places of f that hold r: none, or one.
LEMMA OnePlace ==
  ASSUME NEW S, NEW f, DOMAIN f = S, NEW r, NotTwice(f, r)
  PROVE  /\ ~Holds(f, r) => {j \in S : f[j] = r} = {}
         /\ Holds(f, r) => \E i : {j \in S : f[j] = r} = {i}
BY DEF Holds, NotTwice

\* The peer has made no call yet.
LEMMA PlaceInit == Init => PlaceInv
<1>1. SUFFICES ASSUME Init PROVE PlaceInv
  OBVIOUS
<1>2. EmptyHanded
  BY <1>1 DEF Init, EmptyHanded
<1>3. DOMAIN Ids(inbox) = {} /\ DOMAIN callq = {}
  BY <1>1 DEF Init, Ids
<1>4. \A p \in Procs : got[p] \notin Foreign /\ replying[p] \notin Foreign
  BY <1>1, ConstantsAssumption DEF Init
<1>5. /\ DOMAIN got = Procs /\ DOMAIN replying = Procs
      /\ answered = {} /\ failed = {} /\ peer = {}
  BY <1>1 DEF Init
<1>6. NowhereTwice /\ \A r \in Foreign : InOne(r)
  BY <1>3, <1>4, <1>5 DEF NowhereTwice, InOne, Somewhere, Reaching, Holds, NotTwice
<1>7. \A r \in Foreign : Kept(r)
  BY <1>5 DEF Kept
<1> QED BY <1>2, <1>6, <1>7 DEF PlaceInv

\* What it sends is in one place each at any time.
LEMMA PlaceInductive == Spec => []PlaceInv
<1>1. BaseInv /\ PlaceInv /\ [Next]_vars => PlaceInv'
  BY PlaceNext DEF BaseInv
<1> QED BY <1>1, PlaceInit, BaseInductive, PTL DEF Spec

\* What the peer sends of its own is in at most one place, and a call on a
\* registered path is neither lost nor refused, whoever reads it and whoever
\* is dropped; anything else is lost only with the connection or with a future
\* that was dropped.  Whether or not the serials wrap around.
THEOREM CallsInOnePlace == Spec => []CallInOnePlace
<1>1. ASSUME BaseInv, PlaceInv, NEW r \in Foreign \cap peer
      PROVE  /\ Cardinality(Places(r)) <= 1
             /\ Somewhere(r) => Places(r) # {}
  <2> DEFINE I == {j \in 1 .. Len(inbox) : inbox[j].id = r}
             Q == {j \in 1 .. Len(callq) : callq[j] = r}
             G == {q \in Procs : got[q] = r}
             A == {q \in Procs : replying[q] = r}
             D == answered \cap {r}
             F == failed \cap {r}
  <2>1. Places(r) = {<<"inbox", i>> : i \in I} \cup {<<"queue", i>> : i \in Q}
                      \cup {<<"got", p>> : p \in G} \cup {<<"replying", p>> : p \in A}
                      \cup {<<"answered", a>> : a \in D} \cup {<<"failed", a>> : a \in F}
    BY DEF Places
  <2>2. /\ DOMAIN Ids(inbox) = 1 .. Len(inbox) /\ DOMAIN callq = 1 .. Len(callq)
        /\ \A i \in 1 .. Len(inbox) : Ids(inbox)[i] = inbox[i].id
        /\ DOMAIN got = Procs /\ DOMAIN replying = Procs
    BY <1>1 DEF BaseInv, TypeOK, SharedType, FutType, NetType, Ids
  <2>3. InOne(r) /\ NotTwice(Ids(inbox), r) /\ NotTwice(callq, r) /\ NotTwice(got, r)
        /\ NotTwice(replying, r)
    BY <1>1 DEF PlaceInv, NowhereTwice
  <2>4. (~Holds(Ids(inbox), r) => I = {}) /\ (Holds(Ids(inbox), r) => \E i : I = {i})
    <3> DEFINE f == Ids(inbox)
    <3>1. I = {j \in 1 .. Len(inbox) : f[j] = r}
      BY <2>2
    <3>2. DOMAIN f = 1 .. Len(inbox) /\ NotTwice(f, r)
      BY <2>2, <2>3
    <3> HIDE DEF f, I
    <3>3. (~Holds(f, r) => I = {}) /\ (Holds(f, r) => \E i : I = {i})
      BY <3>1, <3>2, OnePlace
    <3> QED BY <3>3 DEF f
  <2>5. (~Holds(callq, r) => Q = {}) /\ (Holds(callq, r) => \E i : Q = {i})
    BY <2>2, <2>3, OnePlace, ZenonT(60)
  <2>6. (~Holds(got, r) => G = {}) /\ (Holds(got, r) => \E i : G = {i})
    <3> HIDE DEF Procs
    <3> QED BY <2>2, <2>3, OnePlace
  <2>7. (~Holds(replying, r) => A = {}) /\ (Holds(replying, r) => \E i : A = {i})
    <3> HIDE DEF Procs
    <3> QED BY <2>2, <2>3, OnePlace
  <2>8. /\ (r \notin answered => D = {}) /\ (r \in answered => D = {r})
        /\ (r \notin failed => F = {}) /\ (r \in failed => F = {r})
    OBVIOUS
  <2> HIDE DEF I, Q, G, A, D, F
  <2>9. ASSUME Somewhere(r) PROVE \E x : Places(r) = {x}
    <3>1. CASE Holds(Ids(inbox), r)
      <4>1. Q = {} /\ G = {} /\ A = {} /\ D = {} /\ F = {}
        BY <2>3, <2>5, <2>6, <2>7, <2>8, <3>1 DEF InOne
      <4>2. PICK i : I = {i}
        BY <2>4, <3>1
      <4>3. Places(r) = {<<"inbox", i>>}
        BY <2>1, <4>1, <4>2
      <4> QED BY <4>3
    <3>2. CASE Holds(callq, r)
      <4>1. I = {} /\ G = {} /\ A = {} /\ D = {} /\ F = {}
        BY <2>3, <2>4, <2>6, <2>7, <2>8, <3>2 DEF InOne
      <4>2. PICK i : Q = {i}
        BY <2>5, <3>2
      <4>3. Places(r) = {<<"queue", i>>}
        BY <2>1, <4>1, <4>2
      <4> QED BY <4>3
    <3>3. CASE Holds(got, r)
      <4>1. I = {} /\ Q = {} /\ A = {} /\ D = {} /\ F = {}
        BY <2>3, <2>4, <2>5, <2>7, <2>8, <3>3 DEF InOne
      <4>2. PICK i : G = {i}
        BY <2>6, <3>3
      <4>3. Places(r) = {<<"got", i>>}
        BY <2>1, <4>1, <4>2
      <4> QED BY <4>3
    <3>4. CASE Holds(replying, r)
      <4>1. I = {} /\ Q = {} /\ G = {} /\ D = {} /\ F = {}
        BY <2>3, <2>4, <2>5, <2>6, <2>8, <3>4 DEF InOne
      <4>2. PICK i : A = {i}
        BY <2>7, <3>4
      <4>3. Places(r) = {<<"replying", i>>}
        BY <2>1, <4>1, <4>2
      <4> QED BY <4>3
    <3>5. CASE r \in answered
      <4>1. I = {} /\ Q = {} /\ G = {} /\ A = {} /\ D = {r} /\ F = {}
        BY <2>3, <2>4, <2>5, <2>6, <2>7, <2>8, <3>5 DEF InOne
      <4>2. Places(r) = {<<"answered", r>>}
        BY <2>1, <4>1
      <4> QED BY <4>2
    <3>6. CASE r \in failed
      <4>1. I = {} /\ Q = {} /\ G = {} /\ A = {} /\ D = {} /\ F = {r}
        BY <2>3, <2>4, <2>5, <2>6, <2>7, <2>8, <3>6 DEF InOne
      <4>2. Places(r) = {<<"failed", r>>}
        BY <2>1, <4>1
      <4> QED BY <4>2
    <3> QED BY <2>9, <3>1, <3>2, <3>3, <3>4, <3>5, <3>6 DEF Somewhere, Reaching
  <2>10. CASE ~Somewhere(r)
    <3>1. I = {} /\ Q = {} /\ G = {} /\ A = {} /\ D = {} /\ F = {}
      BY <2>4, <2>5, <2>6, <2>7, <2>8, <2>10 DEF Somewhere, Reaching
    <3>2. Places(r) = {}
      BY <2>1, <3>1
    <3> QED BY <2>10, <3>2, FS_EmptySet
  <2>11. CASE Somewhere(r)
    <3>1. PICK x : Places(r) = {x}
      BY <2>9, <2>11
    <3>2. Cardinality({x}) = 1
      BY FS_Singleton
    <3> QED BY <3>1, <3>2
  <2> QED BY <2>10, <2>11
<1>2. ASSUME PlaceInv, NEW r \in Foreign PROVE Kept(r)
  BY <1>2 DEF PlaceInv
<1>3. BaseInv /\ PlaceInv => CallInOnePlace
  BY <1>1, <1>2 DEF CallInOnePlace, Kept
<1> QED BY <1>3, BaseInductive, PlaceInductive, PTL

-----------------------------------------------------------------------------
(* RpcConn implements Connection                                           *)

\* A future moves on, and possibly returns.
LEMMA MovePromise ==
  ASSUME TypeOK, PromiseInv, NEW p \in Procs, NEW l, Goto(p, l),
         UNCHANGED <<wire, peer, qopen>>, closed => closed',
         replying' = replying \/ replying' = [replying EXCEPT ![p] = None],
         l \in {"answering", "flushing"} => replying' = replying /\ replying[p] # None,
         chan' = chan \/ (p \in Calls /\ chan' = [chan EXCEPT ![p] = None]),
         got' = got \/ ~(p \in Calls /\ wire[p] = "queued" /\ ~closed),
         \A q \in Procs : q # p => got'[q] = got[q],
         p \in Calls /\ l \in InGetMsg => wire[p] = "sent"
  PROVE  PromiseInv'
<1>1. /\ pc' = [pc EXCEPT ![p] = l] /\ pc \in [Procs -> PC]
      /\ chan \in [Calls -> Calls \cup {None}]
  BY DEF Goto, TypeOK, SharedType, FutType
<1>2. Arrived'
  BY <1>1 DEF PromiseInv, Arrived
<1>3. SentFirst'
  BY <1>1 DEF PromiseInv, SentFirst
<1>4. Unhandled'
  <2>1. replying \in [Procs -> Remote \cup {None}] /\ None \notin RemoteCalls
    BY ConstantsAssumption DEF TypeOK, FutType
  <2>2. \A q \in Procs : pc'[q] \in {"answering", "flushing"} => replying'[q] # None
    BY <1>1, <2>1 DEF PromiseInv, Unhandled
  <2>3. \A q \in Procs : replying'[q] \in RemoteCalls => ~qopen'
    BY <2>1 DEF PromiseInv, Unhandled
  <2> QED BY <2>2, <2>3 DEF Unhandled
<1> QED BY <1>2, <1>3, <1>4 DEF PromiseInv

\* Nothing that matters changes, or the peer sends something or closes.
LEMMA KeepPromise ==
  ASSUME PromiseInv, UNCHANGED <<chan, wire, got, replying, qopen, pc>>,
         peer \subseteq peer', closed => closed'
  PROVE  PromiseInv'
BY DEF PromiseInv, Arrived, SentFirst, Unhandled

\* Polling msg_fut: the nested future runs only once the call was sent.
LEMMA PollMsgPromise ==
  ASSUME TypeOK, PromiseInv, NEW p \in Procs, NEW pending \in InGetMsg \ {"answering", "flushing"},
         pc[p] \in InGetMsg, PollMsg(p, pending),
         UNCHANGED <<wire, peer, closed, qopen, replying>>
  PROVE  PromiseInv'
<1>1. p \in Calls => wire[p] = "sent"
  BY DEF PromiseInv, SentFirst
<1>2. /\ "ret" \notin {"answering", "flushing"} /\ "panicked" \notin {"answering", "flushing"}
      /\ "queued" # "sent"
  OBVIOUS
<1>3. got \in [Procs -> Calls \cup RemoteCalls \cup {None, Err}]
  BY DEF TypeOK, FutType
<1>4. \E l : Goto(p, l) /\ l \notin {"answering", "flushing"}
  BY <1>2 DEF PollMsg, TakeMsg, TakeErr
<1>5. /\ chan' = chan \/ (p \in Calls /\ chan' = [chan EXCEPT ![p] = None])
      /\ \A q \in Procs : q # p => got'[q] = got[q]
  BY <1>3 DEF PollMsg, TakeMsg, TakeErr
<1> QED BY <1>1, <1>2, <1>4, <1>5, MovePromise

\* Every step keeps the invariant.
LEMMA PromiseNext == IInv /\ PlaceInv /\ PromiseInv /\ [Next]_vars => PromiseInv'
<1> SUFFICES ASSUME IInv, PlaceInv, PromiseInv, [Next]_vars PROVE PromiseInv'
  OBVIOUS
<1>0. /\ TypeOK /\ pc \in [Procs -> PC] /\ wire \in [Calls -> {"unsent", "queued", "sent"}]
      /\ got \in [Procs -> Calls \cup RemoteCalls \cup {None, Err}]
      /\ replying \in [Procs -> Remote \cup {None}]
      /\ chan \in [Calls -> Calls \cup {None}] /\ Calls \subseteq Procs /\ Listeners \subseteq Procs
      /\ \A c \in Calls : pc[c] \in InGetMsg => wire[c] = "sent"
  BY DEF IInv, TypeOK, FutType, NetType, SharedType, PromiseInv, SentFirst
<1>1. ASSUME NEW p \in Procs, Start(p) \/ LockPoll(p) PROVE PromiseInv'
  <2>1. /\ Goto(p, "lock") \/ Goto(p, "prep") \/ Goto(p, "lock_wait")
        /\ UNCHANGED <<wire, peer, closed, qopen, replying, chan, got>>
    BY <1>1 DEF Start, LockPoll, MutexPoll, sharedVars, netVars
  <2> QED BY <1>0, <2>1, MovePromise DEF InGetMsg
<1>2. ASSUME NEW p \in Procs, PollOnce(p) PROVE PromiseInv'
  BY <1>0, <1>2, PollMsgPromise DEF PollOnce, netVars, InGetMsg
<1>3. ASSUME NEW p \in Procs, SelectMsg(p) PROVE PromiseInv'
  BY <1>0, <1>3, PollMsgPromise DEF SelectMsg, netVars, InGetMsg
<1>4. ASSUME NEW p \in Procs,
             \/ Readable(p) \/ ReadableWoken(p) \/ SelectWake(p) \/ SelectLock(p)
             \/ ReadWouldBlock(p) \/ ClearReady(p)
      PROVE  PromiseInv'
  <2>1. /\ pc[p] \in InGetMsg
        /\ \E l \in InGetMsg \ {"answering", "flushing"} : Goto(p, l)
        /\ UNCHANGED <<wire, peer, closed, qopen, replying, chan, got>>
    BY <1>4 DEF Readable, ReadableWoken, SelectWake, SelectLock, MutexPoll, ReadWouldBlock,
                ClearReady, sharedVars, netVars, InGetMsg
  <2> QED BY <1>0, <2>1, MovePromise
<1>5. ASSUME NEW p \in Procs, ReadMine(p) \/ ReadEof(p) \/ ReadFault(p) PROVE PromiseInv'
  <2>1. /\ pc[p] \in InGetMsg /\ Goto(p, "ret") /\ \A q \in Procs : q # p => got'[q] = got[q]
        /\ UNCHANGED <<wire, peer, qopen, replying, chan>> /\ (closed => closed')
    BY <1>0, <1>5 DEF ReadMine, ReadEof, ReadFault, sharedVars, netVars, InGetMsg
  <2> QED BY <1>0, <2>1, MovePromise DEF InGetMsg
<1>6. ASSUME NEW p \in Procs, ReadSignal(p) \/ ReadCall(p) PROVE PromiseInv'
  BY <1>6, KeepPromise DEF ReadSignal, ReadCall, futVars, sharedVars
<1>7. ASSUME NEW p \in Procs, ReadReply(p) PROVE PromiseInv'
  <2>1. /\ UNCHANGED <<wire, peer, closed, qopen, replying, got, pc>> /\ HandOver(Head(inbox))
        /\ inbox # <<>> /\ Head(inbox).kind = "reply"
    BY <1>7 DEF ReadReply, futVars
  <2>2. Head(inbox).id \in peer
    BY <2>1, InboxHead DEF IInv, TypeOK, ReplyInv, PeerInv
  <2>3. Arrived'
    <3>1. ASSUME NEW c \in Calls PROVE chan'[c] \in {chan[c], Head(inbox).id}
      BY <1>0, <2>1 DEF HandOver
    <3> QED BY <2>1, <2>2, <3>1 DEF PromiseInv, Arrived
  <2> QED BY <2>1, <2>3 DEF PromiseInv, SentFirst, Unhandled
<1>8. ASSUME NEW p \in Procs, ReadUnknown(p) PROVE PromiseInv'
  <2> DEFINE h == Head(inbox).id
  <2>1. /\ pc[p] = "read" /\ pc' = [pc EXCEPT ![p] = "answering"]
        /\ replying' = [replying EXCEPT ![p] = h]
        /\ UNCHANGED <<wire, peer, closed, qopen, chan, got>>
        /\ inbox # <<>> /\ Head(inbox).kind = "call" /\ ~Handled(Head(inbox))
    BY <1>8 DEF ReadUnknown, Goto, sharedVars
  <2>2. Head(inbox) \in Message
    BY <1>0, <2>1, InboxHead DEF TypeOK
  <2>3. h \in Remote /\ h # None /\ (h \in RemoteCalls => ~qopen)
    BY <2>1, <2>2, ConstantsAssumption DEF Message, Handled
  <2> HIDE DEF h
  <2>4. Unhandled'
    BY <1>0, <2>1, <2>3 DEF PromiseInv, Unhandled
  <2>5. "read" \in InGetMsg
    BY DEF InGetMsg
  <2>6. Arrived' /\ SentFirst'
    BY <1>0, <2>1, <2>5 DEF PromiseInv, Arrived, SentFirst
  <2> QED BY <2>4, <2>6 DEF PromiseInv
<1>9. ASSUME NEW p \in Procs, Answer(p) PROVE PromiseInv'
  <2>1. /\ Goto(p, "flushing") /\ pc[p] \in InGetMsg /\ replying[p] # None
        /\ UNCHANGED <<wire, peer, closed, qopen, replying, chan, got>>
    BY <1>9 DEF Answer, InGetMsg, netVars, PromiseInv, Unhandled
  <2> QED BY <1>0, <2>1, MovePromise
<1>21. ASSUME NEW p \in Procs, AnswerSent(p) \/ AnswerFail(p) PROVE PromiseInv'
  <2>1. /\ Goto(p, "readable") \/ Goto(p, "ret")
        /\ pc[p] \in InGetMsg
        /\ replying' = [replying EXCEPT ![p] = None]
        /\ UNCHANGED <<wire, peer, closed, qopen, chan>>
        /\ \A q \in Procs : q # p => got'[q] = got[q]
    BY <1>0, <1>21 DEF AnswerSent, AnswerFail, InGetMsg, sharedVars
  <2> QED BY <1>0, <2>1, MovePromise
<1>10. ASSUME NEW p \in Procs, Cancel(p) PROVE PromiseInv'
  <2>1. /\ Goto(p, "abandoned") /\ UNCHANGED <<wire, peer, closed, qopen, chan, got>>
        /\ replying' = [replying EXCEPT ![p] = None]
    BY <1>10 DEF Cancel, DropAnswer
  <2> QED BY <1>0, <2>1, MovePromise DEF InGetMsg
<1>11. ASSUME NEW c \in Calls, InsertSender(c) \/ CleanPoll(c) \/ Clean(c) PROVE PromiseInv'
  <2>1. /\ Goto(c, "sending") \/ Goto(c, "clean") \/ Goto(c, "clean_wait") \/ Goto(c, "gone")
        /\ UNCHANGED <<wire, peer, closed, qopen, replying, chan, got>>
    BY <1>11 DEF InsertSender, CleanPoll, Clean, MutexPoll, sharedVars, netVars
  <2> QED BY <1>0, <2>1, MovePromise DEF InGetMsg
<1>12. ASSUME NEW c \in Calls, SendQueue(c) \/ SendFlush(c) PROVE PromiseInv'
  <2>1. UNCHANGED <<peer, closed, qopen, replying, chan, got, pc>>
    BY <1>12 DEF SendQueue, SendFlush, sharedVars, futVars
  <2>2. \/ wire' = [wire EXCEPT ![c] = "queued"] /\ got[c] = None /\ wire[c] = "unsent"
        \/ wire' = [wire EXCEPT ![c] = "sent"]
    <3>1. pc[c] = "sending" => got[c] = None
      BY <1>0 DEF PlaceInv, EmptyHanded, Unfinished
    <3> QED BY <1>12, <3>1 DEF SendQueue, SendFlush
  <2>3. SentFirst'
    BY <1>0, <2>1, <2>2 DEF PromiseInv, SentFirst
  <2> QED BY <2>1, <2>3 DEF PromiseInv, Arrived, Unhandled
<1>13. ASSUME NEW c \in Calls, SendReturn(c) \/ SendFail(c) PROVE PromiseInv'
  <2>1. CASE SendReturn(c)
    <3>1. /\ Goto(c, "poll") /\ wire[c] = "sent"
          /\ UNCHANGED <<wire, peer, closed, qopen, replying, chan, got>>
      BY <2>1 DEF SendReturn, sharedVars, netVars
    <3> QED BY <1>0, <3>1, MovePromise
  <2>2. CASE SendFail(c)
    <3>1. /\ Goto(c, "abandoned") /\ (wire[c] = "queued" => closed)
          /\ \A q \in Procs : q # c => got'[q] = got[q]
          /\ UNCHANGED <<wire, peer, closed, qopen, replying, chan>>
      BY <1>0, <2>2 DEF SendFail, sharedVars, netVars
    <3> QED BY <1>0, <3>1, MovePromise DEF InGetMsg
  <2> QED BY <1>13, <2>1, <2>2
<1>14. ASSUME NEW c \in Calls, DropResponse(c) PROVE PromiseInv'
  <2>1. /\ Goto(c, "gone") \/ Goto(c, "spawned")
        /\ chan' = [chan EXCEPT ![c] = None] /\ replying' = [replying EXCEPT ![c] = None]
        /\ UNCHANGED <<wire, peer, closed, qopen, got>>
    BY <1>14 DEF DropResponse, DropAnswer
  <2> QED BY <1>0, <2>1, MovePromise DEF InGetMsg
<1>15. ASSUME NEW l \in Listeners, GetReceiver(l) PROVE PromiseInv'
  <2>1. /\ Goto(l, "poll") \/ Goto(l, "ret")
        /\ l \notin Calls
        /\ \A q \in Procs : q # l => got'[q] = got[q]
        /\ UNCHANGED <<wire, peer, closed, qopen, replying, chan>>
    BY <1>0, <1>15, ConstantsAssumption DEF GetReceiver, sharedVars, netVars
  <2> QED BY <1>0, <2>1, ConstantsAssumption, MovePromise
<1>16. ASSUME NEW c \in Calls, PeerReply(c) PROVE PromiseInv'
  BY <1>16, KeepPromise DEF PeerReply, Arrive, sharedVars, futVars
<1>17. ASSUME NEW r \in Foreign, PeerCall(r) \/ PeerFault(r) PROVE PromiseInv'
  BY <1>17, KeepPromise DEF PeerCall, PeerFault, Arrive, sharedVars, futVars
<1>18. CASE PeerSignal \/ PeerClose \/ UNCHANGED vars
  BY <1>18, KeepPromise DEF PeerSignal, PeerClose, Arrive, sharedVars, futVars, netVars, vars
<1>19. CASE RemovePath
  BY <1>19 DEF RemovePath, futVars, netVars, PromiseInv, Arrived, SentFirst, Unhandled
<1>20. CASE DriverEvent
  <2>1. /\ UNCHANGED <<wire, peer, closed, qopen, replying, chan, got>>
        /\ pc' = [p \in Procs |-> IF pc[p] = "reg" THEN "woken" ELSE pc[p]]
    BY <1>20 DEF DriverEvent, sharedVars, netVars
  <2> QED BY <1>0, <2>1 DEF PromiseInv, Arrived, SentFirst, Unhandled, InGetMsg
<1> QED
  BY <1>1, <1>2, <1>3, <1>4, <1>5, <1>6, <1>7, <1>8, <1>9, <1>10, <1>11, <1>12,
     <1>13, <1>14, <1>15, <1>16, <1>17, <1>18, <1>19, <1>20, <1>21
  DEF Next, GetMsgStep, CallStep

\* What Connection does not see may change.
LEMMA UnseenIsStutter ==
  UNCHANGED <<wire, peer, got, answered, failed, qopen, closed>> => UNCHANGED Promise!vars
BY DEF Promise!vars

\* A future that returned nothing yet returns an error for one of the reasons.
LEMMA ErrIsFail ==
  ASSUME NEW p \in Procs, got[p] = None, got' = [got EXCEPT ![p] = Err],
         UNCHANGED <<wire, peer, answered, failed, qopen, closed>>,
         \/ closed
         \/ p \in Calls /\ wire[p] # "sent"
         \/ p \notin Calls /\ ~qopen
  PROVE  Promise!Next
<1>1. Promise!Fail(p)
  BY DEF Promise!Fail, Promise!Returns
<1> QED BY <1>1 DEF Promise!Next, Promise!Futures

\* ... or because of one message of the peer, for the first time.
LEMMA ErrIsFault ==
  ASSUME NEW p \in Procs, got[p] = None, got' = [got EXCEPT ![p] = Err],
         NEW m \in Faulty \cup Unanswerable, m \in peer \ failed, failed' = failed \cup {m},
         UNCHANGED <<wire, peer, answered, qopen>>, closed' \in {closed, TRUE}
  PROVE  Promise!Next
<1>1. m \in peer \cap Foreign
  BY ConstantsAssumption
<1>2. Promise!Fault(p)
  BY <1>1 DEF Promise!Fault, Promise!Returns
<1> QED BY <1>2 DEF Promise!Next, Promise!Futures

\* A call returns its reply, which the peer sent.
LEMMA ReplyIsReturn ==
  ASSUME NEW c \in Calls, c \in peer, got[c] = None, got' = [got EXCEPT ![c] = c],
         UNCHANGED <<wire, peer, answered, failed, qopen, closed>>
  PROVE  Promise!Next
<1>1. Promise!ReturnReply(c)
  BY DEF Promise!ReturnReply, Promise!Returns
<1> QED BY <1>1 DEF Promise!Next

\* A call of the peer that is in the socket, the queue or with the future that
\* answers it is one that nobody took and that was not refused.
LEMMA SomewhereIsPending ==
  ASSUME TypeOK, PlaceInv, NEW r \in Foreign,
         Holds(Ids(inbox), r) \/ Holds(callq, r) \/ Holds(replying, r)
  PROVE  Promise!Pending(r)
<1>1. r \in peer /\ r \notin answered \cup failed /\ ~Holds(got, r)
  BY DEF PlaceInv, InOne, Somewhere, Reaching
<1>2. \A p \in Procs : got[p] # r
  BY <1>1 DEF Holds, TypeOK, FutType
<1> QED BY <1>1, <1>2 DEF Promise!Pending, Promise!Futures

\* get_call returns such a call.
LEMMA CallIsTake ==
  ASSUME NEW l \in Listeners, NEW r \in RemoteCalls, Promise!Pending(r),
         got[l] = None, got' = [got EXCEPT ![l] = r],
         UNCHANGED <<wire, peer, answered, failed, qopen, closed>>
  PROVE  Promise!Next
<1>1. Promise!Take(l, r)
  BY DEF Promise!Take, Promise!Returns
<1> QED BY <1>1 DEF Promise!Next

\* msg_fut returns the call's own reply, a call from the queue, an error of the
\* queue, or nothing.
LEMMA PollMsgIsReturn ==
  ASSUME IInv, PlaceInv, PromiseInv, NEW p \in Procs, NEW pending, pc[p] \in InGetMsg,
         PollMsg(p, pending), UNCHANGED <<wire, peer, answered, failed, qopen, closed>>
  PROVE  Promise!Next \/ UNCHANGED Promise!vars
<1>0. TypeOK /\ got[p] = None
  BY DEF IInv, PlaceInv, EmptyHanded, Unfinished
<1>1. CASE TakeMsg(p) /\ p \in Calls
  <2>1. chan[p] # None /\ got' = [got EXCEPT ![p] = chan[p]]
    BY <1>1 DEF TakeMsg, HasMsg
  <2>2. chan[p] = p /\ p \in peer
    BY <1>1, <2>1 DEF IInv, ReplyInv, ReplyToCaller, PromiseInv, Arrived
  <2> QED BY <1>0, <1>1, <2>1, <2>2, ReplyIsReturn
<1>2. CASE TakeMsg(p) /\ p \notin Calls
  <2>1. callq # <<>> /\ got' = [got EXCEPT ![p] = Head(callq)] /\ callq \in Seq(RemoteCalls)
    BY <1>0, <1>2 DEF TakeMsg, HasMsg, TypeOK, SharedType
  <2>2. Head(callq) \in RemoteCalls /\ Holds(callq, Head(callq))
    BY <2>1 DEF Holds
  <2>3. Promise!Pending(Head(callq))
    BY <1>0, <2>2, SomewhereIsPending
  <2> QED BY <1>0, <1>2, <2>1, <2>2, <2>3, CallIsTake
<1>3. CASE TakeErr(p)
  <2>1. got' = [got EXCEPT ![p] = Err] /\ HasErr(p)
    BY <1>3 DEF TakeErr
  <2>2. p \notin Calls
    <3> SUFFICES ASSUME p \in Calls PROVE FALSE
      OBVIOUS
    <3>1. chan[p] = None /\ \A s \in Serials : replyMap[s] # p
      BY <2>1 DEF HasErr, SenderAlive
    <3>2. idx[p] \in Serials
      BY DEF IInv, ReplyInv, SerialInv, TypeOK, SharedType, InGetMsg
    <3> QED
      BY <3>1, <3>2, ConstantsAssumption DEF IInv, ReplyInv, MapInv, Receiving
  <2>3. ~qopen
    BY <2>1, <2>2 DEF HasErr
  <2> QED BY <1>0, <2>1, <2>2, <2>3, ErrIsFail
<1>4. CASE UNCHANGED got
  BY <1>4, UnseenIsStutter
<1> QED BY <1>1, <1>2, <1>3, <1>4 DEF PollMsg

\* The owner of the mutex returns what it read.
LEMMA ReadMineIsReturn ==
  ASSUME IInv, PlaceInv, NEW p \in Procs, ReadMine(p)
  PROVE  Promise!Next
<1> DEFINE h == Head(inbox)
<1>1. /\ pc[p] = "read" /\ inbox # <<>> /\ Pred(p, h) /\ got' = [got EXCEPT ![p] = h.id]
      /\ UNCHANGED <<wire, peer, answered, failed, qopen, closed>>
  BY DEF ReadMine, sharedVars
<1>2. TypeOK /\ got[p] = None /\ h \in Message /\ h = inbox[1] /\ 1 \in 1 .. Len(inbox)
  <2>1. TypeOK /\ got[p] = None
    BY <1>1 DEF IInv, PlaceInv, EmptyHanded, Unfinished, InGetMsg
  <2>2. NetType
    BY <2>1 DEF TypeOK
  <2>3. Len(inbox) \in Nat
    BY <2>2 DEF NetType
  <2> QED BY <1>1, <2>1, <2>2, <2>3, InboxHead
<1>3. CASE h.kind = "reply"
  <2>1. p \in Calls /\ h.id = p
    BY <1>1, <1>3, HeadReply DEF Pred
  <2>2. h.id \in peer
    BY <1>2, <1>3 DEF IInv, ReplyInv, PeerInv
  <2> HIDE DEF h
  <2> QED BY <1>1, <1>2, <2>1, <2>2, ReplyIsReturn
<1>4. CASE h.kind # "reply"
  <2>1. p \in Listeners /\ h.id \in RemoteCalls
    BY <1>1, <1>4 DEF Pred
  <2>2. Holds(Ids(inbox), h.id)
    BY <1>2 DEF Holds, Ids, TypeOK, NetType
  <2>3. Promise!Pending(h.id)
    BY <1>2, <2>1, <2>2, SomewhereIsPending
  <2> HIDE DEF h
  <2> QED BY <1>1, <1>2, <2>1, <2>3, CallIsTake
<1> QED BY <1>3, <1>4

\* The owner of the mutex reads a message that makes it fail.
LEMMA ReadFaultIsFault ==
  ASSUME IInv, PlaceInv, NEW p \in Procs, ReadFault(p)
  PROVE  Promise!Next
<1> DEFINE h == Head(inbox).id
<1>1. /\ pc[p] = "read" /\ inbox # <<>> /\ got' = [got EXCEPT ![p] = Err]
      /\ failed' = failed \cup {h} /\ closed' \in {closed, TRUE}
      /\ UNCHANGED <<wire, peer, answered, qopen>>
  BY DEF ReadFault
<1>2. TypeOK /\ got[p] = None
  BY <1>1 DEF IInv, PlaceInv, EmptyHanded, Unfinished, InGetMsg
<1>3. h \in Faulty
  BY <1>1, <1>2, InboxHead DEF ReadFault, Message, TypeOK
<1>4. Holds(Ids(inbox), h)
  <2>1. Head(inbox) = inbox[1] /\ 1 \in DOMAIN inbox
    BY <1>1, <1>2 DEF TypeOK, NetType
  <2> QED BY <2>1 DEF Holds, Ids
<1> HIDE DEF h
<1>5. h \in peer \ failed
  BY <1>3, <1>4 DEF PlaceInv, InOne, Somewhere, Reaching
<1> QED BY <1>1, <1>2, <1>3, <1>5, ErrIsFault

\* What a future has to answer is a call of the peer that nobody took.
LEMMA AnswersPending ==
  ASSUME IInv, PlaceInv, PromiseInv, NEW p \in Procs, NEW r, r = replying[p], r # None
  PROVE  /\ r \in Remote /\ Promise!Pending(r) /\ (r \in RemoteCalls => ~qopen)
         /\ r \in peer \ failed
<1>1. TypeOK /\ replying \in [Procs -> Remote \cup {None}]
  BY DEF IInv, TypeOK, FutType
<1>2. r \in Remote /\ Holds(replying, r) /\ (r \in RemoteCalls => ~qopen)
  BY <1>1 DEF PromiseInv, Unhandled, Holds
<1>3. Promise!Pending(r)
  BY <1>1, <1>2, SomewhereIsPending
<1>4. r \in peer \ failed
  BY <1>2 DEF PlaceInv, InOne, Somewhere
<1> QED BY <1>2, <1>3, <1>4

\* The reply of a future that answers a call is written, unless it is dropped
\* before.
LEMMA AnswerIsRefuse ==
  ASSUME IInv, PlaceInv, PromiseInv, NEW p \in Procs, replying[p] \notin Unanswerable \cup {None},
         ~closed, answered' = answered \cup {replying[p]},
         UNCHANGED <<wire, peer, got, failed, qopen, closed>>
  PROVE  Promise!Next
<1> DEFINE r == replying[p]
<1>1. r \in Remote /\ Promise!Pending(r) /\ (r \in RemoteCalls => ~qopen)
  BY AnswersPending
<1>2. r \notin Unanswerable /\ answered' = answered \cup {r}
  OBVIOUS
<1> HIDE DEF r
<1>3. Promise!Refuse(r)
  BY <1>1, <1>2 DEF Promise!Refuse
<1> QED BY <1>1, <1>3 DEF Promise!Next

\* A future that goes with the reply it was sending: the reply is written or not.
LEMMA DropIsRefuse ==
  ASSUME IInv, PlaceInv, PromiseInv, NEW p \in Procs, DropAnswer(p),
         UNCHANGED <<wire, peer, got, failed, qopen, closed>>
  PROVE  Promise!Next \/ UNCHANGED Promise!vars
<1>1. CASE UNCHANGED answered
  BY <1>1, UnseenIsStutter
<1>2. CASE /\ ~closed /\ replying[p] \notin Unanswerable \cup {None}
           /\ answered' = answered \cup {replying[p]}
  BY <1>2, AnswerIsRefuse
<1> QED BY <1>1, <1>2 DEF DropAnswer

\* A future that got an unhandled call cannot answer it.
LEMMA AnswerFailIsFail ==
  ASSUME IInv, PlaceInv, PromiseInv, NEW p \in Procs, AnswerFail(p)
  PROVE  Promise!Next
<1> DEFINE r == replying[p]
<1>1. /\ pc[p] = "flushing" /\ got' = [got EXCEPT ![p] = Err]
      /\ failed' = failed \cup ({r} \cap Unanswerable) /\ (closed \/ r \in Unanswerable)
      /\ UNCHANGED <<wire, peer, answered, qopen, closed>>
  BY DEF AnswerFail
<1>2. got[p] = None /\ r # None
  BY <1>1 DEF PlaceInv, EmptyHanded, Unfinished, InGetMsg, PromiseInv, Unhandled
<1>3. r \in peer \ failed
  BY <1>2, AnswersPending
<1> HIDE DEF r
<1>4. CASE r \in Unanswerable
  <2>1. failed' = failed \cup {r}
    BY <1>1, <1>4
  <2> QED BY <1>1, <1>2, <1>3, <1>4, <2>1, ErrIsFault
<1>5. CASE r \notin Unanswerable
  <2>1. failed' = failed /\ closed
    BY <1>1, <1>5
  <2> QED BY <1>1, <1>2, <2>1, ErrIsFail
<1> QED BY <1>4, <1>5

\* The peer's steps, the last byte of a call and the end of the path are steps
\* of Connection.
LEMMA OutsideIsSeen ==
  ASSUME IInv, PlaceInv, PromiseInv,
         \/ \E c \in Calls : SendFlush(c) \/ PeerReply(c)
         \/ \E r \in Remote : PeerCall(r)
         \/ \E f \in Faulty : PeerFault(f)
         \/ RemovePath \/ PeerClose
  PROVE  Promise!Next
<1>0. TypeOK /\ wire \in [Calls -> {"unsent", "queued", "sent"}] /\ Calls \cap Foreign = {}
  BY ConstantsAssumption DEF IInv, TypeOK, NetType
<1>1. ASSUME NEW c \in Calls, SendFlush(c) PROVE Promise!Next
  <2>1. /\ wire[c] = "queued" /\ ~closed /\ wire' = [wire EXCEPT ![c] = "sent"]
        /\ UNCHANGED <<peer, got, answered, failed, qopen, closed>>
    BY <1>1 DEF SendFlush, sharedVars, futVars
  <2>2. got[c] = None
    BY <2>1 DEF PromiseInv, SentFirst
  <2>3. {d \in Calls : wire'[d] = "sent"} = {d \in Calls : wire[d] = "sent"} \cup {c}
    BY <1>0, <2>1
  <2>4. Promise!Send(c)
    BY <2>1, <2>2, <2>3 DEF Promise!Send
  <2> QED BY <2>4 DEF Promise!Next
<1>2. ASSUME NEW c \in Calls, PeerReply(c) PROVE Promise!Next
  <2>1. /\ wire[c] = "sent" /\ c \notin peer /\ peer' = peer \cup {c} /\ ~closed
        /\ UNCHANGED <<wire, got, answered, failed, qopen, closed>>
    BY <1>2 DEF PeerReply, Arrive, sharedVars, futVars
  <2>2. Promise!Reply(c)
    BY <1>0, <2>1 DEF Promise!Reply
  <2> QED BY <2>2 DEF Promise!Next
<1>3. ASSUME NEW r \in Remote, PeerCall(r) PROVE Promise!Next
  <2>1. /\ r \notin peer /\ peer' = peer \cup {r} /\ ~closed
        /\ UNCHANGED <<wire, got, answered, failed, qopen, closed>>
    BY <1>3 DEF PeerCall, Arrive, sharedVars, futVars
  <2>2. Promise!Call(r)
    BY <1>0, <2>1 DEF Promise!Call
  <2> QED BY <2>2 DEF Promise!Next
<1>6. ASSUME NEW f \in Faulty, PeerFault(f) PROVE Promise!Next
  <2>1. /\ f \notin peer /\ peer' = peer \cup {f} /\ ~closed
        /\ UNCHANGED <<wire, got, answered, failed, qopen, closed>>
    BY <1>6 DEF PeerFault, Arrive, sharedVars, futVars
  <2>2. Promise!Call(f)
    BY <1>0, <2>1 DEF Promise!Call
  <2> QED BY <2>2 DEF Promise!Next
<1>4. CASE RemovePath
  <2>1. Promise!Remove
    BY <1>4 DEF RemovePath, Promise!Remove, futVars, netVars
  <2> QED BY <2>1 DEF Promise!Next
<1>5. CASE PeerClose
  <2>1. Promise!Close
    BY <1>5 DEF PeerClose, Promise!Close, sharedVars, futVars
  <2> QED BY <2>1 DEF Promise!Next
<1> QED BY <1>1, <1>2, <1>3, <1>4, <1>5, <1>6

\* The other steps are not seen, but for the ways in which a future ends.
LEMMA StepIsStep ==
  ASSUME IInv, PlaceInv, PromiseInv, [Next]_vars
  PROVE  Promise!Next \/ UNCHANGED Promise!vars
<1>1. ASSUME NEW p \in Procs,
             \/ Start(p) \/ LockPoll(p) \/ Answer(p)
             \/ Readable(p) \/ ReadableWoken(p) \/ SelectLock(p) \/ SelectWake(p)
             \/ ReadSignal(p) \/ ReadReply(p) \/ ReadCall(p) \/ ReadUnknown(p)
             \/ ReadWouldBlock(p) \/ ClearReady(p)
      PROVE  UNCHANGED <<wire, peer, got, answered, failed, qopen, closed>>
  BY <1>1 DEF Start, LockPoll, Answer, Readable, ReadableWoken, SelectLock, SelectWake, ReadSignal,
     ReadReply, ReadCall, ReadUnknown, ReadWouldBlock, ClearReady, sharedVars, futVars, netVars
<1>2. ASSUME NEW c \in Calls,
             \/ InsertSender(c) \/ SendQueue(c) \/ SendReturn(c)
             \/ CleanPoll(c) \/ Clean(c)
      PROVE  UNCHANGED Promise!vars
  <2>1. CASE SendQueue(c)
    <3>1. /\ wire[c] = "unsent" /\ wire' = [wire EXCEPT ![c] = "queued"]
          /\ UNCHANGED <<peer, got, answered, failed, qopen, closed>>
      BY <2>1 DEF SendQueue, sharedVars, futVars
    <3>2. {d \in Calls : wire'[d] = "sent"} = {d \in Calls : wire[d] = "sent"}
      BY <3>1 DEF IInv, TypeOK, NetType
    <3> QED BY <3>1, <3>2 DEF Promise!vars
  <2>2. CASE ~SendQueue(c)
    <3>1. UNCHANGED <<wire, peer, got, answered, failed, qopen, closed>>
      BY <1>2, <2>2 DEF InsertSender, SendReturn, CleanPoll, Clean, sharedVars, netVars
    <3> QED BY <3>1, UnseenIsStutter
  <2> QED BY <2>1, <2>2
<1>3. ASSUME NEW p \in Procs, PollOnce(p) \/ SelectMsg(p)
      PROVE  Promise!Next \/ UNCHANGED Promise!vars
  <2>1. /\ pc[p] \in InGetMsg /\ UNCHANGED <<wire, peer, answered, failed, qopen, closed>>
        /\ \E pending : PollMsg(p, pending)
    BY <1>3 DEF PollOnce, SelectMsg, InGetMsg, netVars
  <2> QED BY <2>1, PollMsgIsReturn
<1>4. ASSUME NEW p \in Procs, ReadMine(p) \/ ReadFault(p) \/ AnswerFail(p) PROVE Promise!Next
  BY <1>4, ReadMineIsReturn, ReadFaultIsFault, AnswerFailIsFail
<1>10. ASSUME NEW p \in Procs, AnswerSent(p) PROVE Promise!Next
  <2>1. /\ pc[p] = "flushing" /\ ~closed /\ replying[p] \notin Unanswerable
        /\ answered' = answered \cup {replying[p]}
        /\ UNCHANGED <<wire, peer, got, failed, qopen, closed>>
    BY <1>10 DEF AnswerSent, sharedVars
  <2>2. replying[p] # None
    BY <2>1 DEF PromiseInv, Unhandled
  <2> QED BY <2>1, <2>2, AnswerIsRefuse
<1>11. ASSUME NEW p \in Procs, Cancel(p) \/ (p \in Calls /\ DropResponse(p))
       PROVE  Promise!Next \/ UNCHANGED Promise!vars
  BY <1>11, DropIsRefuse DEF Cancel, DropResponse
<1>5. ASSUME NEW p \in Procs, ReadEof(p) PROVE Promise!Next
  <2>1. /\ pc[p] = "read" /\ closed /\ got' = [got EXCEPT ![p] = Err]
        /\ UNCHANGED <<wire, peer, answered, failed, qopen, closed>>
    BY <1>5 DEF ReadEof, sharedVars, netVars
  <2>2. got[p] = None
    BY <2>1 DEF PlaceInv, EmptyHanded, Unfinished, InGetMsg
  <2> QED BY <2>1, <2>2, ErrIsFail
<1>6. ASSUME NEW c \in Calls, SendFail(c) PROVE Promise!Next
  <2>1. /\ pc[c] = "sending" /\ wire[c] # "sent" /\ got' = [got EXCEPT ![c] = Err]
        /\ UNCHANGED <<wire, peer, answered, failed, qopen, closed>>
    BY <1>6 DEF SendFail, sharedVars, netVars
  <2>2. got[c] = None
    BY <2>1 DEF PlaceInv, EmptyHanded, Unfinished
  <2> QED BY <2>1, <2>2, ErrIsFail
<1>7. ASSUME NEW l \in Listeners, GetReceiver(l)
      PROVE  Promise!Next \/ UNCHANGED Promise!vars
  <2>1. pc[l] = "prep" /\ UNCHANGED <<wire, peer, answered, failed, qopen, closed>>
    BY <1>7 DEF GetReceiver, sharedVars, netVars
  <2>2. CASE qopen
    BY <1>7, <2>1, <2>2, UnseenIsStutter DEF GetReceiver
  <2>3. CASE ~qopen
    <3>1. got' = [got EXCEPT ![l] = Err] /\ l \notin Calls
      BY <1>7, <2>3, ConstantsAssumption DEF GetReceiver
    <3>2. got[l] = None
      BY <2>1 DEF PlaceInv, EmptyHanded, Unfinished
    <3> QED BY <2>1, <2>3, <3>1, <3>2, ErrIsFail
  <2> QED BY <2>2, <2>3
<1>8. CASE PeerSignal \/ DriverEvent \/ UNCHANGED vars
  <2>1. UNCHANGED <<wire, peer, got, answered, failed, qopen, closed>>
    BY <1>8 DEF PeerSignal, DriverEvent, Arrive, sharedVars, futVars, netVars, vars
  <2> QED BY <2>1, UnseenIsStutter
<1>9. ASSUME \/ \E c \in Calls : SendFlush(c) \/ PeerReply(c)
             \/ \E r \in Remote : PeerCall(r)
             \/ \E f \in Faulty : PeerFault(f)
             \/ RemovePath \/ PeerClose
      PROVE  Promise!Next
  BY <1>9, OutsideIsSeen
<1> QED
  BY <1>1, <1>2, <1>3, <1>4, <1>5, <1>6, <1>7, <1>8, <1>9, <1>10, <1>11, UnseenIsStutter
  DEF Next, GetMsgStep, CallStep

\* RpcConn keeps its promises to its users, for any number of calls, listeners
\* and messages and any interleaving, as long as the serials do not wrap around:
\* every step of it is one of Connection or changes nothing Connection sees.
THEOREM KeepsPromises == ~Wrap => (Spec => Promises)
<1> SUFFICES ASSUME ~Wrap PROVE Spec => Promises
  OBVIOUS
<1>1. Init => Promise!Init
  BY DEF Init, Promise!Init, Promise!Futures
<1>2. Init => PromiseInv
  BY ConstantsAssumption DEF Init, PromiseInv, Arrived, SentFirst, Unhandled, InGetMsg
<1>3. IInv /\ PlaceInv /\ PromiseInv /\ [Next]_vars => [Promise!Next]_(Promise!vars)
  BY StepIsStep
<1> QED
  BY <1>1, <1>2, <1>3, Inductive, PlaceInductive, PromiseNext, PTL
  DEF Spec, Promises, Promise!Spec
=============================================================================

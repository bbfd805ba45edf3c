----------------------------- MODULE Connection -----------------------------
(***************************************************************************)
(* What RpcConn (src/src/lib.rs) promises to those who use it, with no     *)
(* serials, locks, channels or queues: a call returns its own reply, once, *)
(* and only after the peer sent it; after an error from sending, the call  *)
(* is not sent; an error that neither a closed connection, an unsent call  *)
(* nor a removed path explains is due to one message of the peer, and no   *)
(* other error is due to the same message; a call of the peer is taken by  *)
(* one get_call or gets one reply, never both.                             *)
(***************************************************************************)
CONSTANTS
  Calls,         \* method calls made with send_msg_w_rsp
  Listeners,     \* uses of get_call
  RemoteCalls,   \* method calls the peer makes on the registered path
  UnknownCalls,  \* method calls the peer makes on other paths
  Unanswerable,  \* those of them whose reply cannot be marshalled
  Faulty,        \* messages of the peer that are refused when read
  None,
  Err

VARIABLES
  sent,      \* the calls whose bytes reached the peer
  replied,   \* the calls the peer sent a reply to
  result,    \* what each future returned
  made,      \* the calls and the faulty messages the peer sent
  refused,   \* the calls the connection itself replied to
  failed,    \* the messages for which a future returned an error
  open,      \* is the path still registered?
  closed     \* the peer closed the connection

vars == <<sent, replied, result, made, refused, failed, open, closed>>

Futures == Calls \cup Listeners

Init ==
  /\ sent = {} /\ replied = {} /\ made = {} /\ refused = {} /\ failed = {}
  /\ result = [p \in Futures |-> None]
  /\ open = TRUE /\ closed = FALSE

\* A future returns, for the first time.
Returns(p, v) == result[p] = None /\ result' = [result EXCEPT ![p] = v]

Send(c) ==
  /\ ~closed /\ c \notin sent /\ result[c] = None
  /\ sent' = sent \cup {c}
  /\ UNCHANGED <<replied, result, made, refused, failed, open, closed>>

Reply(c) ==
  /\ ~closed /\ c \in sent \ replied
  /\ replied' = replied \cup {c}
  /\ UNCHANGED <<sent, result, made, refused, failed, open, closed>>

ReturnReply(c) ==
  /\ c \in replied /\ Returns(c, c)
  /\ UNCHANGED <<sent, replied, made, refused, failed, open, closed>>

\* A call fails when it was not sent or the connection is gone, get_call when
\* the path or the connection is.
Fail(p) ==
  /\ closed \/ (IF p \in Calls THEN p \notin sent ELSE ~open)
  /\ Returns(p, Err)
  /\ UNCHANGED <<sent, replied, made, refused, failed, open, closed>>

\* A future fails because of a message that came with wrong fds or malformed,
\* which may end the connection, or of a call whose reply cannot be sent.
Fault(p) ==
  /\ \E m \in made \cap (Faulty \cup Unanswerable) :
       m \notin failed /\ failed' = failed \cup {m}
  /\ Returns(p, Err)
  /\ closed' \in {closed, TRUE}
  /\ UNCHANGED <<sent, replied, made, refused, open>>

Call(r) ==
  /\ ~closed /\ r \notin made
  /\ made' = made \cup {r}
  /\ UNCHANGED <<sent, replied, result, refused, failed, open, closed>>

\* A call of the peer that nobody took and that was not refused.
Pending(r) == r \in made \ (refused \cup failed) /\ \A p \in Futures : result[p] # r

Take(l, r) ==
  /\ Pending(r) /\ Returns(l, r)
  /\ UNCHANGED <<sent, replied, made, refused, failed, open, closed>>

Refuse(r) ==
  /\ ~closed /\ Pending(r) /\ r \notin Unanswerable
  /\ r \in RemoteCalls => ~open
  /\ refused' = refused \cup {r}
  /\ UNCHANGED <<sent, replied, result, made, failed, open, closed>>

Remove ==
  /\ open /\ open' = FALSE
  /\ UNCHANGED <<sent, replied, result, made, refused, failed, closed>>

Close ==
  /\ ~closed /\ closed' = TRUE
  /\ UNCHANGED <<sent, replied, result, made, refused, failed, open>>

Next ==
  \/ \E c \in Calls : Send(c) \/ Reply(c) \/ ReturnReply(c)
  \/ \E p \in Futures : Fail(p) \/ Fault(p)
  \/ \E r \in RemoteCalls \cup UnknownCalls : Call(r) \/ Refuse(r)
  \/ \E f \in Faulty : Call(f)
  \/ \E l \in Listeners, r \in RemoteCalls : Take(l, r)
  \/ Remove \/ Close

Spec == Init /\ [][Next]_vars
=============================================================================

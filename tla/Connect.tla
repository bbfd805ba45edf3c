------------------------------ MODULE Connect ------------------------------
(***************************************************************************)
(* The constructors of Conn and RpcConn: the address is found              *)
(* (src/src/conn/addr.rs), a socket connected and, after the handshake     *)
(* (module Handshake), duplicated (src/src/conn/mod.rs); RpcConn::new      *)
(* (src/src/lib.rs) makes it non-blocking, registers it and says Hello.    *)
(* Any call may fail, and the caller may drop the constructor's future     *)
(* where it awaits.                                                        *)
(*                                                                         *)
(* Sockets are file descriptors that are open until somebody closes them.  *)
(* A value with a Drop owns its descriptor; a raw one has no owner.        *)
(***************************************************************************)
EXTENDS Handshake, FiniteSets

CONSTANT SessionVars   \* values of DBUS_SESSION_BUS_ADDRESS: [family, pairs]

VARIABLES
  stage,    \* addr, connect, raw, handshake, setup, hello, ok, err, dropped
  ctor,     \* session_conn, system_conn, connect_to_addr or connect_to_path of
            \* RpcConn ("addr"), or those of Conn ("conn")
  addr,     \* the DBusAddr: [kind, val], or NoAddr
  open,     \* the descriptors of this process that are open
  owned,    \* those of them that a value owns
  nonblock  \* O_NONBLOCK of the socket, which a duplicate shares

connVars == <<stage, ctor, addr, open, owned, nonblock>>
allVars == <<vars, connVars>>

NoAddr == [kind |-> "none", val |-> "none"]

ConnectInit ==
  /\ Init
  /\ stage = "addr" /\ ctor \in {"session", "system", "addr", "conn"} /\ addr = NoAddr
  /\ open = {} /\ owned = {} /\ nonblock = FALSE

-----------------------------------------------------------------------------
(* Addresses.  A value is "good", "gone" (a path that does not exist),     *)
(* "long" (more than 107 bytes) or "raw" (not UTF-8).                      *)

\* data_pairs: a HashMap of the pairs with one "=", later ones winning
Get(pairs, key) ==
  LET at == SelectLastInSeq(pairs, LAMBDA p : p.key = key /\ p.equals = 1)
  IN IF at = 0 THEN "absent" ELSE pairs[at].val

\* get_session_bus_addr; a value without ":" has the family "none"
SessionAddr(v) ==
  LET get(key) == Get(v.pairs, key) IN
  CASE v.family = "unix" /\ get("abstract") # "absent" -> [kind |-> "abstract", val |-> get("abstract")]
    [] v.family = "unix" /\ get("abstract") = "absent" ->
         IF get("path") \in {"absent", "gone"} THEN NoAddr ELSE [kind |-> "path", val |-> get("path")]
    [] v.family = "tcp" ->
         IF {get("host"), get("port")} \cap {"absent", "raw"} # {} THEN NoAddr
         ELSE [kind |-> "tcp", val |-> "good"]
    [] OTHER -> NoAddr

\* DBusAddr
Given == [kind : {"path", "tcp", "abstract"}, val : {"good", "long"}]

\* The variable may not be set, the socket of the system bus not there.
Found ==
  CASE ctor = "session" -> {NoAddr} \cup {SessionAddr(v) : v \in SessionVars}
    [] ctor = "system" -> {NoAddr, [kind |-> "path", val |-> "good"]}
    [] OTHER -> Given

-----------------------------------------------------------------------------
(* The constructor.  To return is to drop what its values own.             *)

Return(result, kept) ==
  /\ stage' = result
  /\ open' = open \ (owned \ kept) /\ owned' = owned \cap kept

Fail == Return("err", {})

FindAddr ==
  /\ stage = "addr"
  /\ addr' \in Found
  /\ IF addr' = NoAddr THEN Fail ELSE stage' = "connect" /\ UNCHANGED <<open, owned>>
  /\ UNCHANGED <<vars, ctor, nonblock>>

\* UnixStream::connect and TcpStream::connect; no fds over TCP
ConnectStream ==
  /\ stage = "connect" /\ addr.kind \in {"path", "tcp"}
  /\ \/ Fail /\ UNCHANGED nonblock
     \/ /\ ~(addr.kind = "tcp" /\ with_fd)
        /\ stage' = "handshake"
        /\ open' = {"socket"} /\ owned' = {"socket"} /\ nonblock' = TRUE
  /\ UNCHANGED <<vars, ctor, addr>>

\* The name of an abstract address may be too long, and libc::socket may fail.
\* Its descriptor is raw, and nobody sets O_NONBLOCK.
OpenAbstract ==
  /\ stage = "connect" /\ addr.kind = "abstract"
  /\ \/ Fail
     \/ addr.val # "long" /\ stage' = "raw" /\ open' = {"socket"} /\ UNCHANGED owned
  /\ UNCHANGED <<vars, ctor, addr, nonblock>>

\* Mistake: the descriptor is not closed when connect fails.
ConnectAbstractKeepsFd ==
  /\ stage = "raw"
  /\ \/ stage' = "err" /\ UNCHANGED <<open, owned>>
     \/ stage' = "handshake" /\ owned' = {"socket"} /\ UNCHANGED open
  /\ UNCHANGED <<vars, ctor, addr, nonblock>>

\* libc::connect: when it fails the descriptor is closed.  After from_raw_fd a
\* value owns it; when from_std fails that value is dropped, to the same end.
ConnectAbstract ==
  /\ stage = "raw"
  /\ \/ stage' = "err" /\ open' = open \ {"socket"} /\ UNCHANGED owned
     \/ stage' = "handshake" /\ owned' = {"socket"} /\ UNCHANGED open
  /\ UNCHANGED <<vars, ctor, addr, nonblock>>

\* the steps of conn_handshake, and of the bus meanwhile
Shake == stage = "handshake" /\ Next /\ UNCHANGED connVars

ShakeFails ==
  /\ stage = "handshake" /\ pc = "err"
  /\ Fail
  /\ UNCHANGED <<vars, ctor, addr, nonblock>>

\* into_raw_fd duplicates the descriptor, and its self is dropped; GenStream
\* owns the duplicate.
Duplicate ==
  /\ stage = "handshake" /\ pc = "ok"
  /\ \/ Fail
     \/ /\ stage' = IF ctor = "conn" THEN "ok" ELSE "setup"
        /\ open' = (open \cup {"dup"}) \ owned /\ owned' = {"dup"}
  /\ UNCHANGED <<vars, ctor, addr, nonblock>>

\* RpcConn::new up to its first await: fcntl twice, AsyncFd::new
Setup ==
  /\ stage = "setup"
  /\ \/ Fail /\ nonblock' \in {nonblock, TRUE}
     \/ stage' = "hello" /\ nonblock' = TRUE /\ UNCHANGED <<open, owned>>
  /\ UNCHANGED <<vars, ctor, addr>>

\* The answer to Hello: a reply with a name, or a reply without one or an
\* error.  What is left of a line that was too long is no message.
Hello ==
  /\ stage = "hello" /\ bus = "begun"
  /\ (toCli = <<>> /\ Return("ok", {"dup"})) \/ Fail
  /\ UNCHANGED <<vars, ctor, addr, nonblock>>

\* sending or reading fails
HelloIoError ==
  /\ stage = "hello" /\ bus \in {"closed", "gone"}
  /\ Fail
  /\ UNCHANGED <<vars, ctor, addr, nonblock>>

\* The future is dropped: before it is polled or where it awaits the socket,
\* an answer, or room to write.
Cancel ==
  /\ \/ stage \in {"addr", "hello"}
     \/ stage = "connect" /\ addr.kind # "abstract"
     \/ stage = "handshake" /\ pc \notin {"ok", "err"}
  /\ Return("dropped", {})
  /\ UNCHANGED <<vars, ctor, addr, nonblock>>

\* Drop of Conn and of RpcConn
Drop ==
  /\ stage = "ok"
  /\ Return("dropped", {})
  /\ UNCHANGED <<vars, ctor, addr, nonblock>>

\* The bus reads on, or goes, while the client is past the handshake.
Bus ==
  /\ stage \in {"setup", "hello", "ok"}
  /\ \/ BusAnswers
     \/ BusCloses
     \/ /\ bus = "begun" /\ BusGoto("gone") /\ Quiet
        /\ UNCHANGED <<pc, mechs, buf, given, toBus>>
  /\ UNCHANGED connVars

Constructor ==
  \/ FindAddr \/ ConnectStream \/ OpenAbstract \/ ConnectAbstract \/ ShakeFails \/ Duplicate \/ Setup
  \/ Hello \/ HelloIoError

ConnectNext == Constructor \/ Shake \/ Bus \/ Cancel \/ Drop

ConnectSpec == ConnectInit /\ [][ConnectNext]_allVars

\* The future is polled until it ends or is dropped, and the bus answers what
\* it is asked.
FairConnectSpec ==
  /\ ConnectSpec
  /\ WF_allVars(Constructor)
  /\ WF_allVars(stage = "handshake" /\ Client /\ UNCHANGED connVars)
  /\ WF_allVars(stage \in {"handshake", "setup", "hello"} /\ BusAnswers /\ UNCHANGED connVars)

-----------------------------------------------------------------------------
(* Properties                                                              *)

Over == stage \in {"ok", "err", "dropped"}

\* However the constructor ends, by an error at any step, cancelled at any
\* await or with a connection that is dropped later, no descriptor is left
\* behind; a connection has one of its own, closed with it, that passes fds
\* only over Unix sockets and does not block: but for a Conn to an abstract
\* address, whose socket nobody makes non-blocking.
OneSocketOrNone ==
  /\ Over /\ stage # "ok" => open = {}
  /\ stage = "ok" =>
       /\ Cardinality(open) = 1 /\ open = owned
       /\ fdOn => addr.kind # "tcp"
       /\ nonblock \/ (ctor = "conn" /\ addr.kind = "abstract")

\* The inductive invariant behind it: who owns what at each stage.
SocketInv ==
  \/ stage \in {"addr", "connect", "err", "dropped"} /\ open = {} /\ owned = {}
  \/ stage = "raw" /\ open = {"socket"} /\ owned = {} /\ addr.kind = "abstract"
  \/ /\ stage = "handshake" /\ open = {"socket"} /\ owned = {"socket"}
     /\ addr.kind = "tcp" => ~with_fd
     /\ nonblock \/ addr.kind = "abstract"
  \/ /\ stage \in {"setup", "hello", "ok"} /\ open = {"dup"} /\ owned = {"dup"} /\ pc = "ok"
     /\ addr.kind = "tcp" => ~with_fd
     /\ \/ stage = "setup" \/ nonblock
        \/ stage = "ok" /\ ctor = "conn" /\ addr.kind = "abstract"

\* With a bus that stays and answers, a constructor that is not dropped comes
\* to an end: client and bus never wait for each other.  (When the bus goes
\* during the handshake, starts_with reads 0 bytes for ever.)
ConstructorEnds == <>(Over \/ bus \in {"closed", "gone"})
============================================================================

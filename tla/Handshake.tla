----------------------------- MODULE Handshake -----------------------------
(***************************************************************************)
(* Connecting: Conn::conn_handshake (src/src/conn/mod.rs) authenticates by *)
(* lines of text before the first message, with the line reader            *)
(* starts_with underneath.  The bus's side of the protocol is external,    *)
(* modelled from the answers the client is prepared for.                   *)
(*                                                                         *)
(* The bytes from the bus are tokens: the first word of a line, pieces of  *)
(* the rest of it, and END for "\r\n".  A read may end between any two, and *)
(* so may the buffer: a piece is wherever the 512 bytes of a line that is   *)
(* too long end, so that what is left of it may begin with any word, the OK *)
(* of DBUS_COOKIE_SHA1 for one.  The pieces of a REJECTED line that fits    *)
(* name the offered mechanisms; one may not be UTF-8 ("raw").               *)
(***************************************************************************)
EXTENDS Naturals, Sequences, SequencesExt

CONSTANTS
  Mechs,      \* the mechanisms the bus may offer: EXTERNAL, ANONYMOUS
  Uids,       \* the effective user ids the client may have
  Width,      \* number of values of a u32: 2^32
  LineCap,    \* size of starts_with's buffer, in tokens: 512 bytes
  Filler      \* the pieces, after the first word, of a line the bus may write

ASSUME HandshakeAssumption ==
  /\ Mechs \subseteq {"EXTERNAL", "ANONYMOUS"}
  /\ Width \in Nat /\ Width > 10 /\ Uids \subseteq 0 .. Width - 1
  /\ LineCap \in Nat /\ LineCap >= 2
  /\ Filler \subseteq Seq({"...", "raw", "OK", "AGREE_UNIX_FD"})

VARIABLES
  pc,      \* client: start, mechs, external, anonymous, fds, ok, err
  mechs,   \* the mechanisms find_auth_mechs found
  buf,     \* read_buf[..pos] of the running starts_with
  euid,    \* the client's user id
  with_fd, \* the caller asked for fd passing
  toBus,   \* lines the client wrote, not yet handled
  toCli,   \* tokens the bus wrote, not yet read
  bus,     \* auth, authed, begun; closed for a command that it did not expect,
           \* gone by itself
  offers,  \* the mechanisms the bus offers
  okSent,  \* the bus accepted the client
  fdOn,    \* the bus agreed to pass fds
  cut      \* the bus wrote a line that does not fit the client's buffer

given == <<euid, with_fd, offers>>
busVars == <<bus, okSent, fdOn>>
vars == <<pc, mechs, buf, given, toBus, toCli, busVars, cut>>

Init ==
  /\ pc = "start" /\ mechs = {} /\ buf = <<>>
  /\ euid \in Uids /\ with_fd \in BOOLEAN
  /\ toBus = <<>> /\ toCli = <<>>
  /\ bus = "auth" /\ offers \in SUBSET Mechs
  /\ okSent = FALSE /\ fdOn = FALSE /\ cut = FALSE

-----------------------------------------------------------------------------
(* do_external_auth: the digits of the user id                             *)

\* Both loops end within so many rounds: 10^k > 9 * k.
Rounds == Width \div 9 + 1

\* order after k times order *= 10, by u32 multiplication.  A debug build
\* panics instead when it overflows, for every user id from 10^9 on.
Power[k \in 0 .. Rounds] == IF k = 0 THEN 1 ELSE (Power[k - 1] * 10) % Width

\* Mistake: one power of ten short.
OrderShort(uid) ==
  LET Breaks(k) == uid \div Power[k + 1] < 10
  IN Power[CHOOSE k \in 0 .. Rounds - 1 : Breaks(k) /\ \A j \in 0 .. k - 1 : ~Breaks(j)]

\* the first loop: it breaks when the next power is above uid
Order(uid) ==
  LET Breaks(k) == uid \div Power[k + 1] = 0
  IN Power[CHOOSE k \in 0 .. Rounds - 1 : Breaks(k) /\ \A j \in 0 .. k - 1 : ~Breaks(j)]

\* the second loop: order and pid after k rounds, and the number of rounds
OrderAt(uid) ==
  LET order[k \in 0 .. Rounds] == IF k = 0 THEN Order(uid) ELSE order[k - 1] \div 10 IN order

LastRound(uid) ==
  CHOOSE n \in 0 .. Rounds : OrderAt(uid)[n] = 0 /\ \A j \in 0 .. n - 1 : OrderAt(uid)[j] # 0

PidAt(uid) ==
  LET order == OrderAt(uid)
      pid[k \in 0 .. LastRound(uid)] ==
        IF k = 0 THEN uid ELSE pid[k - 1] - (pid[k - 1] \div order[k - 1]) * order[k - 1]
  IN pid

Digits(uid) == [k \in 1 .. LastRound(uid) |-> PidAt(uid)[k - 1] \div OrderAt(uid)[k - 1]]

\* what the bus makes of them: no user id if one is not a digit
Number(ds) ==
  LET number[i \in 0 .. Len(ds)] == IF i = 0 THEN 0 ELSE 10 * number[i - 1] + ds[i]
  IN IF \A i \in 1 .. Len(ds) : ds[i] < 10 THEN number[Len(ds)] ELSE Width

\* The first power of ten that is no u32, 10^10, wraps around to a number that
\* is above every user id with as many digits as the power before it.
WrapsAt == CHOOSE k \in 0 .. Rounds - 1 :
             Power[k] * 10 >= Width /\ \A j \in 0 .. k - 1 : Power[j] * 10 < Width
NoWrap == \A uid \in Uids : uid < Power[WrapsAt] \/ uid < Power[WrapsAt + 1]

-----------------------------------------------------------------------------
(* The client                                                              *)

Line(word) == [word |-> word, uid |-> <<>>]
External == [word |-> "AUTH EXTERNAL", uid |-> Digits(euid)]

\* Write a line, then wait for the answer in a new buffer.
Ask(line, next) ==
  /\ toBus' = Append(toBus, line)
  /\ pc' = next
  /\ buf' = <<>>

Stop(result) == pc' = result /\ buf' = <<>> /\ UNCHANGED toBus

\* do_auth begins: "\0", then find_auth_mechs asks.
Start ==
  /\ pc = "start"
  /\ Ask(Line("AUTH"), "mechs")
  /\ UNCHANGED <<mechs, given, toCli, busVars, cut>>

LineEnd == SelectInSeq(buf, LAMBDA t : t = "END")
LineRead == LineEnd # 0 \/ Len(buf) = LineCap
Waiting == pc \in {"mechs", "external", "anonymous", "fds"}

\* starts_with: the answer, if a line that begins with it was found
StartsWith(word) == LineEnd > 1 /\ buf[1] = word

\* starts_with reads until there is a line ending or the buffer is full.  At
\* the end of the stream it reads 0 bytes and tries again: no step.
Read ==
  /\ Waiting /\ ~LineRead
  /\ \E n \in 1 .. LineCap - Len(buf) :
       /\ n <= Len(toCli)
       /\ buf' = buf \o SubSeq(toCli, 1, n)
       /\ toCli' = SubSeq(toCli, n + 1, Len(toCli))
  /\ UNCHANGED <<pc, mechs, given, toBus, busVars, cut>>

TryAnonymous(ms) == IF "ANONYMOUS" \in ms THEN Ask(Line("AUTH ANONYMOUS"), "anonymous")
                    ELSE Stop("err")
\* Mistake: BEGIN without asking for fds.
AuthedNoFds == Ask(Line("BEGIN"), "ok")
\* do_auth succeeded: conn_handshake goes on.
Authed == IF with_fd THEN Ask(Line("NEGOTIATE_UNIX_FD"), "fds") ELSE Ask(Line("BEGIN"), "ok")

\* find_auth_mechs returns: an error for a REJECTED line that is not UTF-8.
\* Otherwise do_auth tries the first mechanism.
GotMechs ==
  /\ pc = "mechs" /\ LineRead
  /\ IF StartsWith("REJECTED") /\ (\E i \in 1 .. LineEnd : buf[i] = "raw")
     THEN Stop("err") /\ UNCHANGED mechs
     ELSE /\ mechs' = IF StartsWith("REJECTED") THEN offers ELSE {}
          /\ IF "EXTERNAL" \in mechs' THEN Ask(External, "external") ELSE TryAnonymous(mechs')
  /\ UNCHANGED <<given, toCli, busVars, cut>>

\* Mistake: any answer will do.
GotExternalAny ==
  /\ pc = "external" /\ LineRead
  /\ Authed
  /\ UNCHANGED <<mechs, given, toCli, busVars, cut>>

GotExternal ==
  /\ pc = "external" /\ LineRead
  /\ IF StartsWith("OK") THEN Authed ELSE TryAnonymous(mechs)
  /\ UNCHANGED <<mechs, given, toCli, busVars, cut>>

GotAnonymous ==
  /\ pc = "anonymous" /\ LineRead
  /\ IF StartsWith("OK") THEN Authed ELSE Stop("err")
  /\ UNCHANGED <<mechs, given, toCli, busVars, cut>>

\* Mistake: an answer other than AGREE_UNIX_FD is skipped.
GotFdsWaits ==
  /\ pc = "fds" /\ LineRead
  /\ IF StartsWith("AGREE_UNIX_FD") THEN Ask(Line("BEGIN"), "ok")
     ELSE buf' = <<>> /\ UNCHANGED <<pc, toBus>>
  /\ UNCHANGED <<mechs, given, toCli, busVars, cut>>

GotFds ==
  /\ pc = "fds" /\ LineRead
  /\ IF StartsWith("AGREE_UNIX_FD") THEN Ask(Line("BEGIN"), "ok") ELSE Stop("err")
  /\ UNCHANGED <<mechs, given, toCli, busVars, cut>>

\* A read or a write fails on the closed stream: the ? operators return the
\* error, through an ANONYMOUS attempt that fails in the same way if EXTERNAL
\* was being tried.
IoError ==
  /\ bus \in {"closed", "gone"} /\ Waiting
  /\ Stop("err")
  /\ UNCHANGED <<mechs, given, toCli, busVars, cut>>

-----------------------------------------------------------------------------
(* The bus                                                                 *)

Answer(word, rest) == <<word>> \o rest \o <<"END">>
Fits(rest) == Len(rest) + 2 <= LineCap

\* When the buffer ends inside the "\r\n", what is left is no line ending.
Say(word) ==
  \E rest \in Filler :
    \/ toCli' = toCli \o Answer(word, rest) /\ cut' = (cut \/ ~Fits(rest))
    \/ /\ Len(rest) + 1 = LineCap
       /\ toCli' = toCli \o (<<word>> \o rest \o <<"...">>) /\ cut' = TRUE

Quiet == UNCHANGED <<toCli, cut>>
BusGoto(s) == bus' = s /\ okSent' = (okSent \/ s = "authed") /\ UNCHANGED fdOn

\* It accepts a mechanism it offers, EXTERNAL only with the right user id.
Acceptable(line) ==
  \/ line.word = "AUTH EXTERNAL" /\ "EXTERNAL" \in offers /\ Number(line.uid) = euid
  \/ line.word = "AUTH ANONYMOUS" /\ "ANONYMOUS" \in offers

BusAnswers ==
  /\ toBus # <<>> /\ bus \in {"auth", "authed", "begun"}
  /\ toBus' = Tail(toBus)
  /\ LET line == Head(toBus) IN
     CASE bus = "auth" /\ line.word \in {"AUTH", "AUTH EXTERNAL", "AUTH ANONYMOUS"} ->
            \/ Acceptable(line) /\ Say("OK") /\ BusGoto("authed")
            \/ Say("REJECTED") /\ BusGoto("auth")
       [] bus = "authed" /\ line.word = "NEGOTIATE_UNIX_FD" ->
            \/ Say("AGREE_UNIX_FD") /\ fdOn' = TRUE /\ UNCHANGED <<bus, okSent>>
            \/ Say("ERROR") /\ BusGoto("authed")
       [] bus = "authed" /\ line.word = "BEGIN" -> Quiet /\ BusGoto("begun")
       [] OTHER -> Quiet /\ BusGoto("closed")
  /\ UNCHANGED <<pc, mechs, buf, given>>

BusCloses ==
  /\ bus \in {"auth", "authed"}
  /\ BusGoto("gone") /\ Quiet
  /\ UNCHANGED <<pc, mechs, buf, given, toBus>>

Client == Start \/ Read \/ GotMechs \/ GotExternal \/ GotAnonymous \/ GotFds

Next == Client \/ IoError \/ BusAnswers \/ BusCloses

-----------------------------------------------------------------------------
(* Properties                                                              *)

\* As long as the lines of the bus fit starts_with's buffer, a connection is
\* made only to a bus that accepted the client, that passes fds exactly if the
\* caller asked for them, and with no byte of the handshake left where
\* RecvState would take it for a message.  (The rest of a longer line is taken
\* for the answer to the next question, and may read as its OK.)
ConnectedInStep ==
  pc = "ok" /\ ~cut => /\ okSent
                       /\ fdOn = with_fd
                       /\ toCli = <<>>

\* The bus is never sent a command it does not expect (no BEGIN before the OK,
\* nothing after the BEGIN), as long as its lines fit starts_with's buffer.
NeverOutOfTurn == bus = "closed" => cut

\* AUTH EXTERNAL names the user that the client runs as.
RightUid ==
  \A i \in 1 .. Len(toBus) :
    toBus[i].word = "AUTH EXTERNAL" => Number(toBus[i].uid) = euid

-----------------------------------------------------------------------------
(* The inductive invariant behind ConnectedInStep and NeverOutOfTurn: whose *)
(* turn it is, and what that means for what is on its way.                  *)

Words == {"REJECTED", "OK", "AGREE_UNIX_FD", "ERROR"}
Tokens == Words \cup {"...", "raw", "END"}
Unread == buf \o toCli

\* The bus has a question to answer.
Asked(line) == Unread = <<>> /\ toBus = <<line>>

\* The client has an answer, and nothing else, to read.
Answered(word) ==
  /\ toBus = <<>>
  /\ \E rest \in Filler : Fits(rest) /\ Unread = Answer(word, rest)

NotYet == bus \in {"auth", "gone"} /\ ~okSent /\ ~fdOn
Accepted == bus \in {"authed", "gone"} /\ okSent

Turn ==
  \/ pc = "start" /\ NotYet /\ toBus = <<>> /\ Unread = <<>>
  \/ pc = "mechs" /\ NotYet /\ (Asked(Line("AUTH")) \/ Answered("REJECTED"))
  \/ pc = "external" /\ NotYet /\ (Asked(External) \/ Answered("REJECTED"))
  \/ pc = "anonymous" /\ NotYet /\ (Asked(Line("AUTH ANONYMOUS")) \/ Answered("REJECTED"))
  \/ pc \in {"external", "anonymous"} /\ Accepted /\ ~fdOn /\ Answered("OK")
  \/ pc = "fds" /\ with_fd /\ Accepted /\ ~fdOn
       /\ (Asked(Line("NEGOTIATE_UNIX_FD")) \/ Answered("ERROR"))
  \/ pc = "fds" /\ with_fd /\ Accepted /\ fdOn /\ Answered("AGREE_UNIX_FD")
  \/ /\ pc = "ok" /\ okSent /\ fdOn = with_fd /\ Unread = <<>>
     /\ toBus = <<>> \/ (Accepted /\ Asked(Line("BEGIN")))
  \/ pc = "err" /\ (toBus = <<>> \/ bus \in {"closed", "gone"})

HandshakeInv ==
  /\ buf \in Seq(Tokens) /\ toCli \in Seq(Tokens)
  /\ with_fd \in BOOLEAN /\ okSent \in BOOLEAN /\ fdOn \in BOOLEAN
  /\ cut \in BOOLEAN /\ NeverOutOfTurn /\ (cut \/ Turn)

\* The one behind RightUid, and behind fds over Unix sockets only: the lines
\* that the client writes.
Commands == {"AUTH", "AUTH ANONYMOUS", "BEGIN"} \cup {w \in {"NEGOTIATE_UNIX_FD"} : with_fd}
Written == {External} \cup {Line(word) : word \in Commands}
LinesInv == euid \in Uids /\ toBus \in Seq(Written) /\ (fdOn => with_fd)
=============================================================================

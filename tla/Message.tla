------------------------------ MODULE Message ------------------------------
(***************************************************************************)
(* MarshalledMessage and DynamicHeader                                     *)
(* (src/src/rustbus_core/message_builder/mod.rs) on top of MessageBody: a  *)
(* message is given a header, queued by the sender, carried by the bus and *)
(* taken apart by the receiver, which may answer it.  Both ends run this   *)
(* crate; headers of other implementations arrive too.                     *)
(*                                                                         *)
(* An Option is a sequence of length 0 or 1, a name a string; "!" stands   *)
(* for every string that is not valid where it is used.  A marshalled      *)
(* field is [code, kind, val], kind being the type its variant names.      *)
(***************************************************************************)
EXTENDS MessageBody

CONSTANTS
  Conns,         \* the connections' unique names
  Senders,       \* those that do not only answer
  Serials,       \* serials that outgoing messages get
  Objects, Interfaces, Destinations,   \* names the builders are given
  ErrorNames,    \* names make_error_response is given; one that is not valid
                 \* is the "UnknownInterface" of the call hierarchy
  FdLimit,       \* most fds of a message: 32
  Text,          \* the text of an error: one of Params
  ForeignFields  \* a sequence of fields that other implementations use

ASSUME MessageAssumption ==
  /\ Senders \subseteq Conns /\ Serials \subseteq Nat \ {0} /\ "!" \notin Conns
  /\ Text \in Params /\ Text.fault = "none" /\ FdLimit \in Nat
  /\ \A i \in DOMAIN ForeignFields : ForeignFields[i].code \in 0 .. 255

VARIABLES
  inbox,  \* <<>>, or the message received last:
          \* [res, hdr, dyn, body, at, sent], sent being <<>> or <<the RawOut>>
  refused \* history: its answers that were not sent

vars == <<bodyVars, inbox, refused>>

Init == BodyInit /\ inbox = <<>> /\ refused = {}

-----------------------------------------------------------------------------
(* DynamicHeader                                                           *)

\* the dynheader fields by their codes, and the type each must have
Code == <<"object", "interface", "member", "error_name", "response_serial",
          "destination", "sender", "signature", "num_fds">>
Kind == <<"o", "s", "s", "s", "u", "s", "s", "g", "u">>

NoFields == [f \in ToSet(Code) \cup {"serial"} |-> <<>>]
Named == {"object", "interface", "member", "error_name", "destination", "sender"}

Opt(S) == {<<>>} \cup {<<x>> : x \in S}

\* MessageBuilder: call with on, with_interface and at, each optional; signal,
\* which names object and interface, with to
Built(typ, object, interface, destination) ==
  [typ |-> typ, dyn |-> [NoFields EXCEPT !.member = <<"m">>, !.object = object,
                                         !.interface = interface, !.destination = destination]]

MakeResponse(d) ==
  [typ |-> "reply", dyn |-> [NoFields EXCEPT !.destination = d.sender,
                                             !.response_serial = d.serial]]

MakeErrorResponse(d, name) ==
  [typ |-> "error", dyn |-> [NoFields EXCEPT !.destination = d.sender, !.error_name = <<name>>,
                                             !.response_serial = d.serial]]

ValidName(v) == v # "!"

\* DynamicHeader::validate, and the checks of marshal_header
ValidHeader(d) == \A f \in Named : d[f] # <<>> => ValidName(d[f][1])

\* Signature and number of fds are the body's, whatever dynheader says.
Field(d, b, c) ==
  CASE c = 8 -> IF b.buf # <<>> THEN <<b.sig>> ELSE <<>>
    [] c = 9 -> IF b.fds # <<>> THEN <<Len(b.fds)>> ELSE <<>>
    [] OTHER -> d[Code[c]]

\* marshal_header of a valid header: the fields that are there, in the order of
\* their codes
MarshalHeader(m, b, serial) ==
  [typ |-> m.typ, serial |-> serial, cut |-> FALSE,
   fields |-> FlattenSeq([c \in 1 .. 9 |->
     LET opt == Field(m.dyn, b, c) IN
     [i \in DOMAIN opt |-> [code |-> c, kind |-> Kind[c], val |-> opt[i]]]])]

\* <(u8, HdrVar)>::unmarshal fails on a path or a signature that is not one.
Unreadable(x) == \/ x.kind = "o" /\ ~ValidName(x.val)
                 \/ x.kind = "g" /\ ~(ToSet(x.val) \subseteq DOMAIN Types)

\* fields[idx as usize] panics.
PastEnd(code) == code >= 10

Failed(res) == [res |-> res, dyn |-> NoFields]

\* Mistake: the name of the sender is not looked at.
AcceptedNoSender(d) == ValidHeader([d EXCEPT !.sender = <<>>])

Accepted(d) == ValidHeader(d)

\* The field at which reading them stops, and the one that counts of several
\* with one code; code 0 is ignored.
StopsAt(x) == SelectInSeq(x, LAMBDA f : Unreadable(f) \/ PastEnd(f.code))
LastWith(x, c) == SelectLastInSeq(x, LAMBDA f : f.code = c)

\* A field has its type, and a serial is not 0.
Fits(x, c) ==
  LastWith(x, c) # 0 => /\ x[LastWith(x, c)].kind = Kind[c]
                        /\ c = 5 => x[LastWith(x, c)].val # 0

Parsed(hdr) ==
  [f \in DOMAIN NoFields |->
     IF f = "serial" THEN <<hdr.serial>> ELSE
     LET at == LastWith(hdr.fields, CHOOSE c \in 1 .. 9 : Code[c] = f) IN
     IF at = 0 THEN <<>> ELSE <<hdr.fields[at].val>>]

\* DynamicHeader::unmarshal, then the checks of try_get_msg.  cut: the fields do
\* not end where the array does.
Unmarshal(hdr) ==
  LET x == hdr.fields IN
  IF StopsAt(x) # 0 THEN Failed(IF Unreadable(x[StopsAt(x)]) THEN "err" ELSE "panic")
  ELSE IF \/ hdr.cut \/ (\E c \in 1 .. 9 : ~Fits(x, c)) \/ hdr.serial = 0
          \/ ~Accepted(Parsed(hdr))
  THEN Failed("err")
  ELSE [res |-> "ok", dyn |-> Parsed(hdr)]

\* The fields that queue_msg, its predicates and the call hierarchy unwrap, the
\* last one if the call meets an Intro handler
Unwrapped(typ, d, intro) ==
  \/ typ \in {"reply", "error"} /\ d.response_serial = <<>>
  \/ typ = "call" /\ d.object = <<>>
  \/ typ = "call" /\ intro /\ d.interface = <<>>

\* get_next_message and queue_msg: mm_from_raw takes the signature from the
\* header; the number of fds and the body are checked against it.
Receive(hdr, buf, fds, at, sent, intro) ==
  LET u == Unmarshal(hdr)
      b == [buf |-> buf, fds |-> fds,
            sig |-> IF u.dyn.signature = <<>> THEN <<>> ELSE u.dyn.signature[1]]
      res == IF u.res # "ok" THEN u.res
             ELSE IF Len(fds) # (IF u.dyn.num_fds = <<>> THEN 0 ELSE u.dyn.num_fds[1]) \/ ~Validate(b)
             THEN "err"
             ELSE IF Unwrapped(hdr.typ, u.dyn, intro) THEN "panic" ELSE "ok"
  IN [res |-> res, hdr |-> hdr, dyn |-> u.dyn, body |-> b, at |-> at, sent |-> sent]

-----------------------------------------------------------------------------
(* Sending, carrying, answering                                            *)

\* What the sender's queue holds of a header, with what it was made from
Envelope(who, m, b, serial, answers) ==
  [who |-> who, typ |-> m.typ, dyn |-> m.dyn, serial |-> serial, answers |-> answers,
   wire |-> MarshalHeader(m, b, serial)]

\* write_next_message; an invalid header or too many fds are an error and
\* nothing is queued.
Send ==
  /\ inbox = <<>> /\ parser = <<>> /\ Len(body.fds) <= FdLimit
  /\ \E who \in Senders, s \in Serials, typ \in {"call", "signal"},
        o \in Opt(Objects), i \in Opt(Interfaces), d \in Opt(Destinations) :
       /\ typ = "signal" => o # <<>> /\ i # <<>>
       /\ ValidHeader(Built(typ, o, i, d).dyn)
       /\ BufArc(Envelope(who, Built(typ, o, i, d), body, s, {}))
  /\ UNCHANGED <<inbox, refused>>

\* The bus puts the sender's name in the place of whatever the header said.
Stamp(x, who) ==
  FlattenSeq([i \in DOMAIN x |-> IF x[i].code = 7 THEN <<>> ELSE <<x[i]>>])
  \o <<[code |-> 7, kind |-> "s", val |-> who]>>

\* The bus names the sender and picks the receiver: the destination, if that is
\* a connection, else whoever owns the name or listens.
Transmit(o) ==
  /\ inbox = <<>> /\ Written(o)
  /\ LET x == o.hdr.wire
         stamped == [x EXCEPT !.fields = Stamp(@, o.hdr.who)]
         dest == o.hdr.dyn.destination
     IN \E at \in Conns, intro \in BOOLEAN :
          /\ dest # <<>> /\ dest[1] \in Conns => at = dest[1]
          /\ inbox' = <<Receive(stamped, o.buf, o.fds, at, <<o>>, intro)>>
  /\ UNCHANGED refused

\* Another implementation's message, of no body, with nothing else under way
Foreign ==
  /\ inbox = <<>> /\ outs = {} /\ pushed = <<>> /\ ~reused /\ parser = <<>>
  /\ \E typ \in {"call", "reply", "error", "signal"}, serial \in {0} \cup Serials,
        cut, intro \in BOOLEAN, at \in Conns, is \in BoundedSeq(DOMAIN ForeignFields, 2) :
       inbox' = <<Receive([typ |-> typ, serial |-> serial, cut |-> cut,
                           fields |-> [i \in DOMAIN is |-> ForeignFields[is[i]]]],
                          <<>>, <<>>, at, <<>>, intro)>>
  /\ UNCHANGED <<bodyVars, refused>>

AcceptedCall == inbox # <<>> /\ inbox[1].res = "ok" /\ inbox[1].hdr.typ = "call"

\* The receiver answers a call, in a message of its own.  If marshal_header
\* finds its header not valid, write_next_message returns an error and nothing
\* is sent: the receiver may still answer in another way, or drop the call, as
\* the call hierarchy does with its own answer.
Respond(m, c) ==
  /\ AcceptedCall
  /\ IF ValidHeader(m.dyn)
     THEN /\ \E s \in Serials :
               Enqueue(RawOut(Envelope(inbox[1].at, m, c, s,
                                       {[who |-> o.hdr.who, serial |-> o.hdr.serial] :
                                        o \in ToSet(inbox[1].sent)}),
                              c, IF c = Empty THEN <<>> ELSE
                                 <<[sig |-> Text.typ, typ |-> Text.typ, val |-> Text.val]>>, FALSE))
          /\ inbox' = <<>> /\ refused' = {}
     ELSE refused' = refused \cup {m} /\ UNCHANGED <<outs, inbox>>
  /\ UNCHANGED <<body, pushed, reused, parser, got>>

WithText == LET c == PushParamCore([buf |-> <<>>, sig |-> <<>>, fds |-> <<>>, ok |-> TRUE], Text)
            IN [buf |-> c.buf, sig |-> c.sig, fds |-> c.fds]

Reply == inbox # <<>> /\ Respond(MakeResponse(inbox[1].dyn), Empty)

\* also unknown_method, invalid_args, and the answers of the call hierarchy
ReplyError == inbox # <<>> /\ \E name \in ErrorNames, c \in {Empty, WithText} :
  Respond(MakeErrorResponse(inbox[1].dyn, name), c)

DropReceived == inbox # <<>> /\ inbox' = <<>> /\ refused' = {} /\ UNCHANGED bodyVars

\* The body's parser, the queue and the received message do not depend on each
\* other: one is dealt with before the next.
UseBody == inbox = <<>> /\ BodyNext /\ (parser' = <<>> \/ outs = {}) /\ UNCHANGED <<inbox, refused>>

Next ==
  \/ UseBody \/ Send \/ (\E o \in outs : Transmit(o)) \/ Foreign
  \/ Reply \/ ReplyError \/ DropReceived

Spec == Init /\ [][Next]_vars

-----------------------------------------------------------------------------
(* Properties                                                              *)

Received == inbox # <<>> /\ inbox[1].sent # <<>>

\* What marshal_header put on the wire is what the other end's unmarshal makes
\* of it, header and body, whatever became of the body it was made from while
\* the sender was writing (Arc::make_mut): every field with the sender the bus
\* named, the body's signature and fds, and every value pushed.
ReceivedAsSent ==
  Received =>
    LET m == inbox[1]
        o == m.sent[1] IN
    /\ m.res = "ok" \/ (m.hdr.typ = "call" /\ <<>> \in {m.dyn.object, m.dyn.interface})
    /\ m.hdr.typ = o.hdr.typ
    /\ m.dyn = [o.hdr.dyn EXCEPT
                  !.sender = <<o.hdr.who>>, !.serial = <<o.hdr.serial>>,
                  !.signature = IF o.pushed = <<>> THEN <<>> ELSE <<Sigs(o.pushed)>>,
                  !.num_fds = IF o.fds = <<>> THEN <<>> ELSE <<Len(o.fds)>>]
    /\ Validate(m.body) /\ ReadBack(m.body) = Values(o.pushed)

\* Whoever sent a call and whatever its fields, once it is accepted nothing of
\* it can keep its answer from being sent: make_response and
\* make_error_response are refused only for an error name that is not valid in
\* itself.  (The "UnknownInterface" of an Intro path is one, and so its caller
\* is not "replied to with an error".)  An answer that is sent arrives at the
\* connection that called, with the serial it waits for.
AnswerArrives ==
  /\ \A m \in refused : m.dyn.error_name # <<>> /\ ~ValidName(m.dyn.error_name[1])
  /\ Received => \A call \in inbox[1].sent[1].hdr.answers :
       /\ inbox[1].at = call.who
       /\ inbox[1].res = "ok" /\ inbox[1].dyn.response_serial = <<call.serial>>

-----------------------------------------------------------------------------
(* The inductive invariant behind them                                     *)

\* A DynamicHeader: an Option in every field
Options(d) == DOMAIN d = DOMAIN NoFields /\ \A f \in DOMAIN d : d[f] # <<>> => d[f] = <<d[f][1]>>

\* What is on the wire of a header d with body b: exactly the fields that are there.
OnWire(x, d, b) ==
  /\ \A i \in DOMAIN x : /\ x[i].code \in 1 .. 9 /\ x[i].kind = Kind[x[i].code]
                         /\ Field(d, b, x[i].code) = <<x[i].val>>
  /\ \A c \in 1 .. 9 : Field(d, b, c) # <<>> => \E i \in DOMAIN x : x[i].code = c

\* A message with the sender can be taken apart again, and if it answers a call
\* it is for the connection that called and names the call.
Queued(o) ==
  LET d == o.hdr.dyn
      b == [buf |-> o.buf, sig |-> Sigs(o.pushed), fds |-> o.fds] IN
  /\ DOMAIN o = {"hdr", "buf", "fds", "shared", "pushed"}
  /\ Holds(b, o.pushed) /\ Options(d) /\ ValidHeader(d)
  /\ o.hdr.who \in Conns /\ o.hdr.serial # 0
  /\ o.hdr.typ \in {"call", "signal", "reply", "error"}
  /\ o.hdr.typ \in {"reply", "error"} => d.response_serial # <<>>
  /\ d.response_serial # <<>> => d.response_serial[1] # 0
  /\ \A call \in o.hdr.answers :
       /\ o.hdr.typ \in {"reply", "error"} /\ call.who \in Conns
       /\ d.destination = <<call.who>> /\ d.response_serial = <<call.serial>>
  /\ o.hdr.wire = [typ |-> o.hdr.typ, serial |-> o.hdr.serial, cut |-> FALSE,
                   fields |-> o.hdr.wire.fields]
  /\ Len(o.hdr.wire.fields) \in Nat /\ DOMAIN o.hdr.wire.fields = 1 .. Len(o.hdr.wire.fields)
  /\ OnWire(o.hdr.wire.fields, d, b)

\* A call that was accepted has a valid header, which names the call.
Answerable ==
  AcceptedCall =>
    /\ Options(inbox[1].dyn) /\ ValidHeader(inbox[1].dyn) /\ inbox[1].at \in Conns
    /\ inbox[1].dyn.serial # <<>> /\ inbox[1].dyn.serial[1] # 0
    /\ Received => inbox[1].sent = <<inbox[1].sent[1]>> /\ inbox[1].sent[1].hdr.who \in Conns

MessageInv ==
  /\ BodyInv /\ (\A o \in outs : Queued(o)) /\ Answerable
  /\ ReceivedAsSent /\ AnswerArrives
=============================================================================

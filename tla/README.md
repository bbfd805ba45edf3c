# TLA+ models of async-rustbus

async-rustbus is an asynchronous D-Bus client library for tokio. A program
makes one `RpcConn` and shares it among its tasks; every task sends calls,
waits for replies, signals or incoming calls, and whichever of them happens to
own the receive mutex reads the socket on behalf of all the others. These
modules model that machinery, check it with TLC on small instances, and prove
its safety for every instance with TLAPS.

## The system

| component | state | operations |
|---|---|---|
| receive path of `RpcConn` (`lib.rs`) | `serial`, `RecvData` (`reply_map`, hierarchy, match rules) under a tokio mutex, readiness of the socket, one-shot channels | `send_msg_w_rsp`, `get_msg`, `queue_msg`, `get_call`, `ResponseFuture::drop` |
| signals (`lib.rs`, `routing.rs`) | `sig_matches`: a sorted list of rules with queues; the daemon's subscriptions | `insert_sig_match`, `remove_sig_match`, `get_signal`, `queue_sig`, `MatchRule::cmp`/`matches` |
| calls (`routing.rs`) | `CallHierarchy`: a tree of handlers with queues | `insert_path`, `send`, `is_match`, introspection |
| empty map (`routing.rs`) | a static map and a flag | `get_empty_map`, `init_empty_map` |
| sending (`conn/sender.rs`, `lib.rs`) | `SendState`: queue of half-written messages and an index | `write_next_message`, `finish_sending_next`, `current_idx`, the send loop |
| receiving (`conn/recv.rs`) | `RecvState`: stage of the message, its buffers, bytes read too far, fds | `get_next_message`, `try_get_msg`, `extend_max`, `bytes_needed_for_next` |
| ancillary data (`conn/ancillary.rs`) | a buffer of control messages beside one write or read | `add_fds`, `messages` |
| set-up (`lib.rs`, `conn/mod.rs`) and addresses (`conn/addr.rs`) | the socket, its duplicate and who owns them | `session_conn`, `system_conn`, `connect_to_addr`, `connect_to_path`, `get_session_bus_addr`, `RpcConn::new` |
| handshake (`conn/mod.rs`) | position in the authentication protocol, the line buffer | `conn_handshake`, `find_auth_mechs`, `do_auth`, `negotiate_unix_fds`, `starts_with` |
| message header (`message_builder/mod.rs`), standard messages | `DynamicHeader` | the builders, `marshal_header`, `unmarshal`, `validate`, `make_response`, `make_error_response` |
| message body (`message_builder/body.rs`) | buffer (shared with the sender), signature, fds; a parser's two indices | `push_*`, `reset`, `reserve`, `validate`, `get*`, `validate_sig_str` |
| object paths (`path.rs`) | `ObjectPathBuf`: an optional `PathBuf`, none being the root | `push`, `push_path_checked`, `pop`, `reserve`, `clear`, `strip_prefix`, `components` |
| utilities | none | alignment, `poll_once` |

How they interact: a send future takes the send mutex, writes its message or
leaves the rest in `SendState`'s queue; the buffer of its body is shared, not
copied. A waiting future runs `get_msg`: it waits for readability, then for
either its own channel or queue or the receive mutex; the owner pulls messages
out of `RecvState` and hands each to its own caller, a one-shot channel in
`reply_map`, a queue in the hierarchy or a queue of a match rule. `RpcConn`
talks to the bus daemon with the same calls to add and remove rules.

What is hard: futures may be dropped or left un-polled at any await, also right
after a mutex or a message was handed to them; one future's progress is made by
another; reads and writes end anywhere; the bus may close, refuse, or send
something invalid; fds travel beside the bytes they belong to. PROJECT.json lists
the hazards line by line with the property that would catch each.

What makes each component correct:

- receive path: a reply reaches its caller and nobody else, while the caller
  lives; the mutex is passed on; nothing of a dropped future remains; a call of
  the peer is taken once; everybody ends when the connection does.
- signals: a signal is filed with the most specific rule; the list stays
  searchable; list and daemon agree.
- calls: the tree behaves as a table from paths to actions.
- sending: the wire carries whole messages in order, with their fds; a send
  that returned was written; every send ends.
- receiving: messages are delivered whole, in order, with their fds; no
  violation is passed over.
- handshake and set-up: both sides end in agreement, or the client with an
  error; whatever fails or is dropped, no descriptor is left behind.
- header and body: a body holds what was pushed, undone as a whole on failure;
  a message arrives as it was sent and its answer reaches the caller; the
  signature's verdict is the grammar's.
- object paths: a buffer stays an object path and acts as a list of elements.

## Modules

Every MC module only adds constants for TLC; every .cfg only gives constants
their values. Operators commented "Mistake:" are the mutated forms that
PROJECT.json's mutants use; no specification uses them.

**RpcConn** (`lib.rs`). A process is one future: the two stages of
`send_msg_w_rsp` for a member of `Calls`, `get_call` on one registered path for
a member of `Listeners`. `pc` names the point between two visible effects;
`lock`, `waiters` and `ahead` are the fair tokio mutex, including the hand-over
to a future that has not been polled yet; `ready` and `fresh` are AsyncFd's
cached readiness and the tick a read guard carries, so that `clear_ready` may
come too late; `chan` and `replyMap` are the one-shot channels; `inbox`,
`wire`, `peer` and `closed` are the socket and the bus. Actions follow the code:
`AllocateIdx`, `InsertSender`, `SendQueue`/`SendFlush`, `PollOnce`, `Readable`,
`SelectMsg`/`SelectLock`/`SelectWake` (the biased `select!`), one `Read...` per
arm of `queue_msg`, `Answer`, `AnswerSent` and `AnswerFail` for the reply that a
reader sends to a call nobody handles, `Cancel` and `DropResponse` for drops,
`CleanPoll` and `Clean` for the task it spawns. The send mutex's own loop is
SendState. A member of `Faulty` is a message for which `get_next_message` returns an
error to whoever reads (`ReadFault`): too many or too few fds, which leave the
connection open, or a violation, which shuts it down; a reply of that kind is one
too. The reply to a member of `Unanswerable` cannot be marshalled, like the
"UnknownInterface" of `routing.rs:304`; `failed` remembers for which messages a
future returned an error. A dropped future takes the reply it was sending with it,
unless `SendState` already has it (`DropAnswer`). `RemovePath` empties the queue
unless a `get_call` future has a receiver of it, and then its last receiver does
(`LeftIn`); the receivers that `get_call_recv` gives out are CallHierarchy's.

**Connection** is what RpcConn promises to its users, without serials, mutex,
channels or queues: `sent`, `replied` and `result` for the calls, `made`, `refused`
and `failed` for the messages of the peer. `ReturnReply`, `Fail`, `Fault` and `Take`
are the only ways a future returns, each once; `Fail` has a reason (the connection or
the path is gone, or the call was not sent, and then it never is), `Fault` one
message of the peer that is faulty or cannot be answered, and no message is the
reason twice; `Take` and `Refuse` exclude each other. `Promises` of RpcConn is the refinement `Promise!Spec`, where `wire`,
`peer`, `got`, `answered` and `qopen` are what a user sees of its state.

**SendState** (`conn/sender.rs`, the loop in `lib.rs`). Whether fds were
negotiated and how many each message carries is chosen at the start. Messages have a header
and a body of a few bytes; `queue` is `SendState::queue`, `wire` what reached the
socket, write by write. `WriteSome` and `FlushSome` write any prefix of the
buffers that `Populate` puts together, one `AddOut` per message of the queue;
`UpdateWritten` credits the bytes, one `Advance` per message; `WriteBlock` queues
the rest.

**Ancillary** (`conn/ancillary.rs`). The room that `CMSG_SPACE` and `CMSG_LEN`
leave for fds in a control buffer: what SendState may add, what RecvState finds.

**CallHierarchy** (`routing.rs`) with the abstract **CallRoutes**: a table from
paths to actions and queues, in which a call goes to the nearest enclosing
action. `FlatTable` is the refinement `Routes!Spec`. `tree` maps the paths that
have a node to their handler; `InsertInner` includes the trimming. Each call is
for one path (`object`, chosen at the start). In the table a call is taken by a
reader only at the path where it would be queued; the code's `is_match` is wider at
Exact paths, and `OwnCallsOnly` says that no reader makes use of that. One quirk of
the code is part of the table: a path that nobody registered, below an Intro path,
is answered with an empty introspection exactly if its first step below that path
leads to a registered path (`Below`); otherwise the call is refused. The queue of a
handler that is replaced may be held by a receiver (`get_call`, `get_call_recv`),
which may still take its calls: they are "held", then taken or discarded (`Release`).

**SigMatches** (`routing.rs`, `lib.rs`). `matches` is the list; `Gaps` is the set
of places a binary search may return under the code's comparison `Cmp`, which is
not an order for all rules. Users insert and remove in two steps, around the
call to the daemon, which may refuse; `CutShort` is the future being dropped or
failing in between. When a rule is removed under a waiting `get_signal`, that future
still has a receiver and returns a signal that was queued (`Held`), else an error. A rule on which two operations overlapped or one was cut
short is `muddled`: list and daemon may disagree about it from then on.

**EmptyMap** (`routing.rs`). One step per access of the flag or the map.

**RecvState** (`conn/recv.rs`). A message is a fixed header of `HdrLen` bytes, a
length byte, fields and a body, each byte <<message, position>>; a read returns
any number of bytes up to what was asked for, with the fds of the first byte's
message. `TryHeader`, `TryDynHdr` and `TryFinishing` are the stages. `Flaw` is the byte
with which a malformed message shows that it is.

**Handshake** (`conn/mod.rs`). Lines are tokens; a read ends between any two. What
follows the word of an answer is a member of `Filler`, a sequence of pieces: it may
not be UTF-8 ("raw"), not fit the buffer, and read as OK where the buffer ends, and
the buffer may end inside the line ending; `cut` says that a line did not fit. The
digits of the user id are computed by the code's two loops, with multiplication
modulo `Width`: `Power`, `OrderAt` and `PidAt` are the loops' variables after each
round.

**Connect** (`lib.rs`, `conn/mod.rs`, `conn/addr.rs`) composes Handshake with what
comes before and after it: the address, the socket, the duplicate that the
connection keeps, O_NONBLOCK and Hello. An abstract address has a raw descriptor
(`OpenAbstract`) until `ConnectAbstract`, which closes it when it fails. `open` and `owned` are descriptors and
who closes them; `Return` drops what the constructor's values own, `Cancel` is
the caller dropping its future.

**MessageBody** (`body.rs`). Values have an alignment and a length; a failed
marshal has written already. A message with the sender is [hdr, buf, fds, shared,
pushed]: `MakeMut` un-shares it before the body is written to.

**Message** (`message_builder/mod.rs`, with parts of `recv.rs`, `sender.rs` and
`routing.rs`) composes MessageBody with the header: `Send` marshals a built
header over the current body, `Transmit` (external) is the bus that stamps the
sender and picks the receiver, `Receive` all the checks and unwraps on the way in,
`Reply` and `ReplyError` the answers, which travel the same way back, or are
`refused` when their header does not validate. `Foreign`
delivers fields that no builder of this crate makes.

**ObjectPath** (`path.rs`). Strings are sequences of characters, the operations of
`std::path` external definitions. `inner` is the `Option<PathBuf>`.

**SigString** (`body.rs`). `validate_sig_str` one character per step, and the
grammar of signatures, generated by length, that it is compared with.

## Runs

Passing runs (constants in the .cfg; the longest take one to three minutes):

| run | what it shows |
|---|---|
| RpcConnSafe | two calls and a listener, each droppable at every await, with a bus that answers, calls, sends a faulty message and closes: `Promises` (the refinement of Connection), `NoReplyLost`, `NoLeak`, `NoPanic`, `NoOrphanLock`; the two calls are symmetric. Two calls are enough for one to read the other's reply, a third future for a queue at the mutex; one message in the socket at a time (`InboxCap`) and one call or faulty message of the bus (`MaxForeign`) keep it within minutes |
| RpcConnLive | `ReplyReturns`, `CleanupRuns` when signals keep coming, `CloseEndsAll` when the bus closes; one call and one listener, both droppable, a path that may be removed, and two out of a call on the path, a call that cannot be answered and a faulty message: `CallInOnePlace`, and `Promises` here too |
| SendStateAll | three messages of different shapes, dropped or not, with 32 fds in all, in none, 61 in one (more than the control buffer holds), or some in one that may not have them: `ControlFits`, `FramedWire`, `DoneMeansSent`, `FdsWithMessage`, `SendersEnd` |
| CallHierarchyTable | five paths, with siblings and a chain of three: `FlatTable` (the refinement of CallRoutes), `Trimmed`, `OneTaker`, `Discoverable`, as long as Nothing is inserted only where there is a node (`NullifyOnly`) and readers at Exact paths take their own calls (`OwnCallsOnly`) |
| SigMatchesRules | four rules that overlap in every field, two signals, two tasks that insert and remove at once, a daemon that may refuse, and one rule on which operations overlap or are cut short: `MostSpecificFirst`, `QueuedAtMostSpecific`, `SubscribedAtRest`. Two tasks are enough for every overlap; the third narrower rule for neighbours that are in order while the list is not |
| RecvStateAll | two messages out of 20 shapes, right and wrong, with and without fd passing, more fds than the control buffer holds, every split into reads: `NothingLeftOver`, `WholeInOrder`, `AllDelivered`, `ViolationTerminates`. Two messages are enough for a read to end inside the second with all of the first |
| ConnectAll | every constructor, 364 session addresses, every failure and cancellation, lines that are too long, not UTF-8, or read as OK where the buffer of three tokens ends, and a bus that goes away: `ConnectedInStep`, `NeverOutOfTurn`, `RightUid`, `OneSocketOrNone`, `ConstructorEnds` |
| MessageAll | `HoldsWhatWasPushed`, `ParserInStep` with failing pushes and resets; `ReceivedAsSent`, `AnswerArrives` for messages sent while their body is reused, their answers with valid and invalid error names, and up to two out of 14 foreign fields; messages have at most `FdLimit` fds, bodies one more |
| Formats | `Judged` for every signature of up to eight characters, enough for a dict of a struct; `StaysObjectPath`, `ActsOnElements`, `StripRejoins` for paths of up to nine characters and every argument of up to five, enough for `/a//a`, `/./a` and a trailing slash: exactly which of them `push_path_checked` takes |

Runs that TLC refutes, where the code does other than the text beside it says:

| run | what happens |
|---|---|
| RpcConnQuiet | a future whose reply was delivered by another reader sleeps until the socket is readable again |
| SendStateMixed | a new message without fds is put in the write behind a queue that stops at a message with fds; its bytes are counted as that message's, whose fds are never sent |
| CallHierarchyLocal | Nothing inserted on a path without a handler removes its siblings |

EmptyMap has a proof (in CallHierarchyProofs) and no run. The run SendStateAll keeps messages with and
without fds apart (`Unmixed`), SigMatchesRules has rules that the comparison
orders (`Transitive`, and `Layered`, from which it follows), CallHierarchyTable has `NullifyOnly` and `OwnCallsOnly`, ConnectAll user ids
for which no power of ten wraps around (`NoWrap`, evaluated as an ASSUME of
MCConnect): these are the hypotheses of the theorems below.

### Other divergences met

The properties above are stated beside the following, each of which a small
change of a .cfg or of a property shows. They have no run of their own.

- `lib.rs:716`: the fair mutex may be handed to a future that is held but not
  polled; every other future then waits for it (`Fairness` assumes owners poll
  or drop). `tests/rpc_conn.rs` has one such future and expects the other to end.
- `lib.rs:430`: with `Wrap = TRUE` a wrapped serial replaces a live entry of
  `reply_map`, and the older future panics at the `expect` of its channel.
- `routing.rs:254`: `is_match` gives an `Exact` path the calls for children that are
  nodes when its own future reads them, and `send` refuses the same calls when
  another future does; `routing.rs:106` says that it "requires that call object path
  is an exact match, rather than also accepting child paths". With `OwnCallsOnly =
  FALSE` in CallHierarchyTable.cfg TLC violates `FlatTable` in four states.
- `routing.rs:544`: when two namespaces are nested and a third is apart from both,
  `MatchRule`'s order need not be transitive (path namespace `/b/c`, path namespace `/b` with an interface, path
  namespace `/a` form a cycle), and a signal may be queued at a less specific rule.
- `lib.rs:770`: `get_signal` on a wide rule takes signals of narrower rules off
  the socket; `lib.rs:557` says they go to the most specific rule.
- `lib.rs:611`: the error path of a refused `insert_sig_match` may remove the
  rule that another task inserted meanwhile, and two tasks' AddMatch and
  RemoveMatch for one rule may reach the daemon in the other order. Dropping
  either future before its answer leaves list and daemon apart (`lib.rs:606`).
  `SubscribedAtRest` sets such rules (`muddled`) aside.
- `lib.rs:683`, `lib.rs:534`, `routing.rs:135`, `routing.rs:290`, `message_builder/mod.rs:373`:
  a reply without a serial, a call without an object, or without an interface on an
  `Introspect` path, and a header field code above 9 panic whoever reads them, though
  the code calls some of it unreachable (`lib.rs:534`). `Receive` of Message has the
  outcome "panic" for them; no property excludes it.
- `routing.rs:304` answers with the error name `UnknownInterface`, which has no
  dot and does not pass the validation at `message_builder/mod.rs:210`: the answer is
  never sent, though `routing.rs:109` says that other calls "are replied to with an
  error", and the error ends the future that happened to read the call (`lib.rs:729`).
  In RpcConn it is `Unanswerable`, in Message an answer that is `refused`.
- `lib.rs:729`: a future that is dropped while it sends such an answer takes the
  answer with it.
- `path.rs:440` and `path.rs:560`: `clear`, and `reserve_exact` on an unallocated
  root, leave the empty string; `path.rs:434` says "Truncates the object path into
  a root path." `StaysObjectPath` holds until then (`blanked`).
- `path.rs:189`: `strip_prefix("")` panics. `path.rs:530`: `push_path_checked` takes
  `//a`, `/a/` and `/./a`, appending `a`, though `path.rs:505` says that an error is
  returned for what is no valid object path (`Padded` in `ActsOnElements`).
- `conn/mod.rs:288`: a line that does not fit is given up at byte 512, wherever that
  is, and its rest taken for the next answer. A list of mechanisms cut inside
  `DBUS_COOKIE_SHA1` leaves a line that starts with `OK`, which is taken for
  acceptance: without `~cut` TLC violates `ConnectedInStep`.
- `conn/mod.rs:334`: in a debug build the multiplication panics for user ids from
  1 000 000 000 on; the model wraps around, as a release build does.
- `conn/mod.rs:216`: a `Conn` to an abstract address stays in blocking mode; it is
  described as "synchronous non-blocking" (`conn/mod.rs:101`).
- `lib.rs:286` and `lib.rs:314`: the comments of `session_conn` and `system_conn`
  are exchanged. `addr.rs:74`: lists of addresses, separated by ";", are not
  understood.
- `recv.rs:260`: wrong numbers of fds give an error but leave the connection
  open; `README.md:19` says it is terminated. And messages already in the
  read-ahead buffer are delivered after a violation.
- `conn/mod.rs:293`: the line reader loops for ever on reads of 0 bytes once the
  bus has gone; that is why `ConstructorEnds` excludes it.
- `body.rs:193`: `reset` keeps the fds, which go with the next message although
  it is to be "as if this were a new message" (`body.rs:190`).
- `body.rs:70`: dict entries are not counted as nesting, so a valid signature
  may overflow the stack of 64 and panic.

Bounds of the models that the code does not have: `InboxCap` (messages waiting in
the socket), `MaxForeign` (messages the bus sends of its own), `MaxSerial` (2^32 - 1 in the code), `RemCap` (the read-ahead
buffer), `LineCap` (512 bytes), `IovFinish` and `IovNew` (32 and 34 buffers),
`MaxPushed`, `MaxArgs`, `MaxFds` and `FdLimit` (32), `AncCap` (256 bytes), `MaxOuts`, `SigMax`
and `MaxLen` (255), `MaxArg` and `MaxPath` (strings), `MaxMuddled`,
`MaxNesting` and `StackCap` (32 and 64). Each keeps the relation of the code's
limits (the stack holds twice the nesting) and is small enough that the limit is
met. `Droppable`, `Closes`, `Removes`, `Chatter` and `CanCancel` switch on what
the environment may do; `FdChoices`, `with_fd` and the shapes of messages are
chosen in the initial states. Deadlock is not checked where a program may simply
be done.

### Fairness

RpcConn's `FairSpec`: a future that was woken is polled (tokio), a poll that
began runs to its next await, the I/O driver delivers events, and the bus
answers calls. `BusySpec` adds that signals keep coming and that a reader finds
the socket empty now and then: a bus that floods faster than a reader drains keeps
`queue_msg` in its loop with the mutex held, a hazard of the code. SendState: the
futures are polled, one that keeps asking for the fair mutex gets it (strong
fairness of `EnterNew` or `EnterAgain`), and the socket keeps becoming writable.
RecvState: the caller calls again, and the socket, if it keeps becoming readable,
is read. Connect: the constructor's future is polled until it ends or is dropped,
and a bus that has not gone answers, in the handshake and to Hello.

## Proofs

Eight modules hold theorems. Each safety property of the passing runs but those
of Formats is proved for every value of the constants that the `ASSUME`s beside
them allow: any sets of futures, tasks, messages, paths, rules, parameters, names
and threads, any sizes and buffer lengths, every split of a stream into reads and
writes.

| module | theorems | hypothesis besides the `ASSUME`s |
|---|---|---|
| RpcConnProofs | `TypeCorrect`, `LockPassedOn` (`NoOrphanLock`), `CallsInOnePlace` (`CallInOnePlace`) | none |
| | `KeepsPromises` (`Promises`), `RepliesToCallers` (`ReplyToCaller`, a part of `IInv`), `NeverPanics`, `RepliesKept`, `MapCleaned` | `~Wrap`: the connection does not use up its serials |
| SendStateProofs | `AlwaysControlFits` | none |
| | `SendInvariant`, `AlwaysFramedWire`, `AlwaysDoneMeansSent`, `AlwaysFdsWithMessage` | `Unmixed` |
| RecvStateProofs | `RecvInvariant`, `AlwaysNothingLeftOver`, `AlwaysWholeInOrder`, `AlwaysViolationTerminates` | none |
| CallHierarchyProofs | `Invariant`, `AlwaysTrimmed`, `AlwaysOneTaker`, `AlwaysDiscoverable` | none |
| | `Refinement` (`FlatTable`) | `NullifyOnly`, `OwnCallsOnly` |
| | `MapWrittenBeforeUse` (of EmptyMap) | none |
| SigMatchesProofs | `Invariant`, `AlwaysMostSpecificFirst`, `AlwaysSubscribedAtRest`, `AlwaysQueuedAtMostSpecific` | `Transitive` |
| | `LayeredIsTransitive` | `Layered`: apart or equal is transitive among the namespaces |
| ConnectProofs | `ConnectInvariant`, `AlwaysConnectedInStep`, `AlwaysInTurn`, `AlwaysOneSocketOrNone` | none |
| | `AlwaysRightUid` | `NoWrap`: below user id 1 410 065 408 |
| MessageProofs | `AlwaysHoldsWhatWasPushed`, `AlwaysParserInStep`, `AlwaysReceivedAsSent`, `AlwaysAnswerArrives` | none |

Every hypothesis is one that the code needs: a run or an entry of "Other
divergences" above shows what happens without it. The inductive invariants are
in the components' modules, after the properties; TLC was used on each before its
proof.

**RpcConn.** What holds whether or not the serials wrap around is `BaseInv`: the
types, `LockInv` (whoever is at a step that needs the mutex has it, and
`NoOrphanLock`) and `Begun`. For replies that is not enough: that a reader hands
a reply to the right channel depends on whose sender `reply_map` has under its
serial. So `IInv` adds `SerialInv` (serials are given out once, in increasing
order), `MapInv` (an entry belongs to the call with that serial, from insertion to
hand-over or cleanup, and a future that still waits has its message or its entry)
and `PeerInv` (a reply in the socket carries its call's serial). For calls of the
peer `PlaceInv` says without counting that no place holds a message twice, no two
places hold the same one, a future that is not done holds none, and what is not
lost with a dropped future or a closed connection is somewhere (`Kept`): that a
connection once closed and a future once dropped stay so is part of each step.
`OnePlace` turns that into the cardinality of `CallInOnePlace`. There is a lemma per conjunct
(`TypeNext`, `LockNext`, `BegunNext`, `ReplyNext`, `PlaceNext`), each with one case
per action, over lemmas about the mutex, the inbox and the ways an action may
leave a part of the state alone.

That RpcConn implements Connection (`KeepsPromises`) follows from `IInv`, `PlaceInv`
and `PromiseInv`: a reply in a channel was sent by the peer (`Arrived`), a nested
future runs only after its call was sent and a call that failed while its bytes
were queued did so because the connection is closed (`SentFirst`), and a call that
is being answered with an error had no handler, which stays so (`Unhandled`).
A message that ends a future was in the socket or in that future's hands, so by
`PlaceInv` it had not failed before, which is what `Fault` asks. With
them each action is one of Connection (`ErrIsFail`, `ReplyIsReturn`, `CallIsTake`,
`AnswerIsRefuse`, `OutsideIsSeen`) or changes nothing Connection sees
(`UnseenIsStutter`). `IInv` is needed twice: a reader that finds its own serial has
its own reply (`HeadReply`), and a waiting call never finds its channel closed, so
the panic is not a way to return. The model takes an error of a write other than
`WouldBlock` for a closed connection, and so does `Fail`: after an error from which
the socket recovers, a message would still be in SendState's queue.

**SendState.** `FramedWire` says nothing of the future; what is inductive is that
the wire followed by what is left to write (`Stream == wire \o Left(Pending)`) is
a sequence of whole messages, as long as the connection is open. A write sends a
prefix of that rest and `UpdateWritten` takes just that prefix off (`UpdateIs`),
so it leaves `Stream` as it is (`WroteStream`); a new message appends its bytes.
That the io-slices are a prefix of the rest is `PopulateIs` and `PopulateNewIs`,
and this is where `Unmixed` is used: in a mixed queue the new message's slices are
added behind a queue that `populate` left half-way, and the written bytes are
no longer a prefix (the finding of SendStateMixed). `FrontOnly`, `Indexed` (a send
index is the place in the queue, hence `DoneMeansSent`) and `FdsLogged` complete
`SendInv`. `ControlFits` needs only `BaseInv` (no message with too many fds gets
past `Refuses`), and holds for mixed messages too.

**RecvState.** `InStep`: as long as there was no error, the bytes of the buffer,
of `remaining` and of the socket are one `Contiguous` stream that starts with the
first byte of the next message, and `in_fds` are that message's as soon as its
first byte is there. `AtRest`: between two steps bytes are missing of what the
stage waits for; with fds, or before a `recvmsg`, nothing is left over. `TryIs`
and `TryStream` say what `try_get_msg` returns on such a stream. `Complete` (no byte
of a message to come is missing) and `Passed` (what the stage has seen of the message
was good) are what `ViolationTerminates` needs: as long as there is no error, the
flaw of a malformed message is still ahead (`FlawAhead`). That all fds of a
message fit in the control buffer is an assumption about the constants (256
bytes hold one more than `DBUS_MAX_FD_MESSAGE`), so a truncated message is always
one with too many.

**CallHierarchy.** `HierarchyInv`: the parent of a node is a node, every node but
the root leads to an action, and a call is in one queue. The proofs go along the
recursion of `insert_inner` and `send_inner` (`KeptRec`, `SendInnerRec`): a node is
kept exactly if it leads to an action (`KeptLeads`), and a call is decided by the
deepest node on its path that has one (`QueuedAtDeepest`, `MatchIsDeepest`), which
is the table's `Route` (`RouteIsDeepest`). Under `OwnCallsOnly` the path whose future
takes a call is that one too. `Refinement` maps every action to the
table's action of the same name. Proving it showed that an earlier version of
CallRoutes left open when an unregistered path is answered at all; `Below` is the
answer.

**SigMatches.** `SigInv`: the list is strictly sorted by `Cmp`, and every rule that
is not muddled has at most one operation, whose progress says whether the list
and the daemon have it (`InStep`). That `Cmp` puts the narrower of two rules first
(`NarrowerFirst`) and is antisymmetric (`KeysFlip`, `OrderIs`) is proved for all
rules; that it is transitive is not true of all rules (`routing.rs:544` above) and
is the hypothesis. `LayeredIsTransitive` says for which rules it is true: each of
the ten comparisons of `Cmp` but `path_subset` is one with ties (`Weak`) whatever
it compares, `path_subset` is when being apart or equal is transitive
among the namespaces (`Layered`: all in one chain, or all apart), and the first of ten such
comparisons that decides makes a transitive whole (`FirstDecidedWeak`).

**Connect.** `HandshakeInv` is whose turn it is: at each point of the client
either the bus has one line to answer, or the client one answer to read, in the
buffer and the socket together, and nothing else is on its way (`Turn`), until a
line does not fit (`cut \/ Turn`). What a client that is out of step still keeps to
is `LinesInv`: which lines it writes, and that fds are agreed on only if asked for,
which is what `OneSocketOrNone` and `RightUid` need. `SocketInv` lists what is open and who owns it at each stage.
`RightUid` rests on `DigitsRight`. As long as ten times a power is below `Width`,
`Power` is a power of ten (`PowerUp`), and `NoWrap` says that the first loop ends
before, or at, the first one that wraps around, so that it ends with a power `o`
and `uid < 10 * o` (`OrderIs`). The second loop goes through the powers from `o`
down to 1 (`LastRoundIs`), and before each round ten times the power times the
number that the digits so far make, plus `pid`, is the user id (`RoundIs`).

**Message.** `BodyInv` says where each pushed value ends in the buffer (`Holds`):
each ends inside it, the last one at its end, and the last byte of a value names
its parameter, so a parser that stands between two values reads the next one and
no other. A push that fails half-way leaves a grown buffer (`Grown`), which
`Truncate` cuts back to what it was (`PushParamGrown`); a parser that fails goes
back to where it was. For a message with the sender `Queued` says what the other
end needs: the fields on the wire are exactly those that are there (`OnWire`),
the body holds what was pushed when the header was made, whoever writes to the
shared body afterwards (`OutsKept`), and an answer names its call and goes to its
caller. `unmarshal_header_fields` is then the inverse of `marshal_header`, with
what the bus stamps in between, and `Answerable` says of a call that is taken in
that its answer passes `ValidHeader` if its own error name does (`Own`), so that an
answer is `refused` only for that name (`RefuseInv`).

**EmptyMap.** What each value of the flag says about the map and about where
threads may be (`MapInv`).

**Induction.** The library's induction theorems take an operator and cannot be
used with these provers. `Induction` derives from the existence of minimal
elements in well-founded sets (`WFMin`) induction over *sets* of naturals
(`NatSetInduction`, `DownInduction`, `UpInduction`, `ZeroInduction`), which a proof
uses with a set it DEFINEs. With them the recursive functions of the models are
shown to exist and to satisfy their equations (`FlattenRec`, and `KeptRec`,
`SendInnerRec`, `PopulateRec`, `UpdateRec`, `PushAllRec`, `EndsRec`, `LoopExists` and
others in the proof modules), and what they compute is proved for sequences of
every length.

Only model-checked:

- liveness under fairness (`ReplyReturns`, `CleanupRuns`, `CloseEndsAll`,
  `SendersEnd`, `AllDelivered`, `ConstructorEnds`), which the prover does not handle;
- `Judged` of SigString and `StaysObjectPath`, `ActsOnElements`, `StripRejoins` of
  ObjectPath. `Judged` compares a stack machine with a grammar whose words are
  generated by length, ObjectPath's properties speak of strings through a model
  of `std::path`'s splitting and joining: both need induction over the structure of
  words, where the comparison over all bounded inputs is the better evidence;
- `Layered` for the rules of a program, which is a fact about those rules
  (`Transitive` follows, `LayeredIsTransitive`).

## Not modelled

- The bytes of names, values and header fields: their layout and the validation
  of names are the crate rustbus's. `std::path`, `libc`, tokio and the bus are
  external definitions, modelled from how the code uses them.
- `utils.rs`: helpers without state, inside other definitions.
- `Conn::write_next_message`'s own serial, which counts with `+=` and panics on
  overflow in a debug build; `RpcConn` does not use it.
- `request_name` and `release_name`: one call and its reply, as in RpcConn. The
  order and hash of object paths, and the conversions to other string types.
- The outer future of `send_msg_w_rsp` being dropped between inserting its
  sender and having sent leaves its entry in `reply_map`; `NoLeak` speaks of the
  nested one.
- Control messages other than fds, which the kernel sends only if asked.
- The panic of `push_param_core` on signature errors other than length and nesting
  (`body.rs:244`), which a type's own signature does not give.
- Errors of the socket from which it recovers: SendState's `SendError` and RpcConn's
  `SendFail` take an error for a closed connection.

## Plan

Done, in order of importance: RpcConn with Connection, SendState, RecvState,
CallHierarchy with CallRoutes, SigMatches, Connect with Handshake, each with its
proofs, Message with MessageBody and their proofs, ObjectPath, SigString,
Ancillary, EmptyMap with its proof.

Next:

1. `FramedWire` and `FdsWithMessage` from a weaker hypothesis than `Unmixed`: that a
   message without fds is not sent while one with fds waits in the queue.
2. Several paths and rules in RpcConn, by composing it with CallRoutes; the byte
   stream between SendState and RecvState of two ends.

--------------------------- MODULE ConnectProofs ---------------------------
(***************************************************************************)
(* Proofs about Handshake and Connect: the client and the bus stay in step *)
(* through conn_handshake, whatever the bus answers and however the stream *)
(* is cut into reads, and no constructor leaves a descriptor behind.       *)
(***************************************************************************)
EXTENDS Connect, SequenceTheorems, FiniteSetTheorems, Induction, TLAPS

-----------------------------------------------------------------------------
(* Lines                                                                   *)

\* memmem of starts_with finds the first line ending of the buffer, or none.
LEMMA LineEndIs ==
  ASSUME buf \in Seq(Tokens)
  PROVE  \/ LineEnd = 0 /\ \A i \in 1 .. Len(buf) : buf[i] # "END"
         \/ LineEnd \in 1 .. Len(buf) /\ buf[LineEnd] = "END"
<1> DEFINE I == {i \in 1 .. Len(buf) : buf[i] = "END"}
<1>1. LineEnd = IF I # {} THEN Min(I) ELSE 0
  BY DEF LineEnd, SelectInSeq
<1>2. CASE I = {}
  BY <1>1, <1>2
<1>3. CASE I # {}
  <2>1. I \subseteq Nat
    OBVIOUS
  <2>2. Min(I) \in I
    <3> HIDE DEF I
    <3> QED BY <1>3, <2>1, LeastExists
  <2> QED BY <1>1, <1>3, <2>2
<1> QED BY <1>2, <1>3

\* A line of the bus: its word, pieces and an end.
LEMMA LineIs ==
  ASSUME NEW word \in Words, NEW rest \in Filler, NEW end \in Tokens
  PROVE  LET line == <<word>> \o rest \o <<end>> IN
         /\ line \in Seq(Tokens) /\ Len(line) = Len(rest) + 2 /\ Len(rest) \in Nat
         /\ line[1] = word /\ line[Len(rest) + 2] = end
         /\ \A i \in 2 .. Len(rest) + 1 : line[i] # "END"
<1> DEFINE k == Len(rest)
<1> DEFINE P == {"...", "raw", "OK", "AGREE_UNIX_FD"}
<1>1. rest \in Seq(P) /\ rest \in Seq(Tokens) /\ k \in Nat /\ \A i \in 1 .. k : rest[i] # "END"
  <2>1. rest \in Seq(P)
    BY HandshakeAssumption
  <2>2. k \in Nat /\ \A i \in 1 .. k : rest[i] \in P
    BY <2>1, ElementOfSeq, LenProperties
  <2>3. \A i \in 1 .. k : rest[i] \in Tokens /\ rest[i] # "END"
    BY <2>2 DEF Tokens, Words
  <2>4. rest \in [1 .. k -> Tokens]
    BY <2>1, <2>3, LenProperties
  <2> QED BY <2>1, <2>2, <2>3, <2>4
<1>2. <<word>> \in Seq(Tokens) /\ Len(<<word>>) = 1 /\ <<end>> \in Seq(Tokens) /\ Len(<<end>>) = 1
  BY DEF Tokens
<1>3. <<word>>[1] = word /\ <<end>>[1] = end
  OBVIOUS
<1> HIDE DEF k
<1> DEFINE g == <<word>> \o rest
<1>5. /\ g \in Seq(Tokens) /\ Len(g) = 1 + k
      /\ \A i \in 1 .. 1 + k : g[i] = IF i <= 1 THEN <<word>>[i] ELSE rest[i - 1]
  <2>1. Len(rest) = k
    BY DEF k
  <2> QED BY <1>1, <1>2, <2>1, ConcatProperties
<1> HIDE DEF g
<1>6. /\ g \o <<end>> \in Seq(Tokens) /\ Len(g \o <<end>>) = (1 + k) + 1
      /\ \A i \in 1 .. (1 + k) + 1 :
           (g \o <<end>>)[i] = IF i <= 1 + k THEN g[i] ELSE <<end>>[i - (1 + k)]
  BY <1>2, <1>5, ConcatProperties
<1> DEFINE line == <<word>> \o rest \o <<end>>
<1>7. line = g \o <<end>>
  BY DEF g
<1> HIDE DEF line
<1>8. line[1] = word
  BY <1>1, <1>3, <1>5, <1>6, <1>7
<1>9. line[k + 2] = end
  <2>1. k + 2 \in 1 .. (1 + k) + 1 /\ ~(k + 2 <= 1 + k) /\ (k + 2) - (1 + k) = 1
    BY <1>1
  <2> QED BY <1>3, <1>6, <1>7, <2>1
<1>10. ASSUME NEW i \in 2 .. k + 1 PROVE line[i] # "END"
  <2>1. i \in 1 .. (1 + k) + 1 /\ i <= 1 + k /\ i \in 1 .. 1 + k /\ ~(i <= 1) /\ i - 1 \in 1 .. k
    BY <1>1
  <2> QED BY <1>1, <1>5, <1>6, <1>7, <2>1
<1>11. line \in Seq(Tokens) /\ Len(line) = k + 2
  BY <1>1, <1>6, <1>7
<1> QED BY <1>1, <1>8, <1>9, <1>10, <1>11 DEF line, k

\* What is unread: what is in the buffer, then what is on the stream.
LEMMA UnreadIs ==
  ASSUME buf \in Seq(Tokens), toCli \in Seq(Tokens)
  PROVE  /\ Unread \in Seq(Tokens) /\ Len(Unread) = Len(buf) + Len(toCli)
         /\ Len(buf) \in Nat /\ Len(toCli) \in Nat
         /\ \A i \in 1 .. Len(buf) : Unread[i] = buf[i]
         /\ \A i \in 1 .. Len(toCli) : Unread[Len(buf) + i] = toCli[i]
<1>1. Len(buf) \in Nat /\ Len(toCli) \in Nat
  BY LenProperties
<1>2. /\ Unread \in Seq(Tokens) /\ Len(Unread) = Len(buf) + Len(toCli)
      /\ \A i \in 1 .. Len(buf) + Len(toCli) :
           Unread[i] = IF i <= Len(buf) THEN buf[i] ELSE toCli[i - Len(buf)]
  BY ConcatProperties DEF Unread
<1>3. ASSUME NEW i \in 1 .. Len(toCli) PROVE Unread[Len(buf) + i] = toCli[i]
  <2>1. /\ Len(buf) + i \in 1 .. Len(buf) + Len(toCli) /\ ~(Len(buf) + i <= Len(buf))
        /\ (Len(buf) + i) - Len(buf) = i
    BY <1>1
  <2> QED BY <1>2, <2>1
<1> QED BY <1>1, <1>2, <1>3

\* When starts_with returns with an answer that fits, it has read the whole
\* line and nothing is left.
LEMMA AnswerRead ==
  ASSUME buf \in Seq(Tokens), toCli \in Seq(Tokens), LineRead,
         NEW word \in Words, NEW rest \in Filler, Fits(rest), Unread = Answer(word, rest)
  PROVE  toCli = <<>> /\ \A x : StartsWith(x) <=> x = word
<1> DEFINE k == Len(rest)
<1> DEFINE n == Len(buf)
<1> DEFINE m == Len(toCli)
<1> DEFINE line == Answer(word, rest)
<1>1. LineCap \in Nat /\ LineCap >= 2 /\ k + 2 <= LineCap
  BY HandshakeAssumption DEF Fits
<1>2. "END" \in Tokens
  BY DEF Tokens
<1>3. /\ k \in Nat /\ Len(line) = k + 2 /\ line[1] = word /\ line[k + 2] = "END"
      /\ \A i \in 2 .. k + 1 : line[i] # "END"
  BY <1>2, LineIs DEF Answer
<1>4. /\ n \in Nat /\ m \in Nat /\ n + m = Len(line)
      /\ \A i \in 1 .. n : line[i] = buf[i]
  BY UnreadIs
<1>5. word # "END"
  BY DEF Words
<1> HIDE DEF k, n, m, line
<1>6. CASE LineEnd = 0
  <2>1. n = LineCap /\ \A i \in 1 .. n : buf[i] # "END"
    BY <1>6, LineEndIs DEF LineRead, n
  <2>2. k + 2 \in 1 .. n
    BY <1>1, <1>3, <1>4, <2>1
  <2> QED BY <1>3, <1>4, <2>1, <2>2
<1>7. CASE LineEnd # 0
  <2>1. LineEnd \in 1 .. n /\ buf[LineEnd] = "END"
    BY <1>7, LineEndIs DEF n
  <2>2. LineEnd = k + 2
    <3>1. LineEnd # 1
      BY <1>3, <1>4, <1>5, <2>1
    <3>2. LineEnd \notin 2 .. k + 1
      BY <1>3, <1>4, <2>1
    <3> QED BY <1>3, <1>4, <2>1, <3>1, <3>2
  <2>3. m = 0 /\ 1 \in 1 .. n
    BY <1>3, <1>4, <2>1, <2>2
  <2>4. toCli = <<>>
    BY <2>3, EmptySeq DEF m
  <2>5. LineEnd > 1 /\ buf[1] = word
    BY <1>3, <1>4, <2>2, <2>3
  <2> QED BY <2>4, <2>5 DEF StartsWith
<1> QED BY <1>6, <1>7

-----------------------------------------------------------------------------
(* The steps of conn_handshake and of the bus                              *)

\* A read moves bytes into the buffer and keeps their order.
LEMMA ReadKeeps ==
  ASSUME buf \in Seq(Tokens), toCli \in Seq(Tokens), Read
  PROVE  buf' \in Seq(Tokens) /\ toCli' \in Seq(Tokens) /\ Unread' = Unread
<1>1. LineCap \in Nat /\ Len(buf) \in Nat /\ Len(toCli) \in Nat
  BY HandshakeAssumption, LenProperties
<1>2. PICK n \in 1 .. LineCap - Len(buf) :
        /\ n <= Len(toCli)
        /\ buf' = buf \o SubSeq(toCli, 1, n)
        /\ toCli' = SubSeq(toCli, n + 1, Len(toCli))
  BY DEF Read
<1>3. \A i \in 1 .. Len(toCli) : toCli[i] \in Tokens
  BY ElementOfSeq
<1> DEFINE a == SubSeq(toCli, 1, n)
<1> DEFINE b == SubSeq(toCli, n + 1, Len(toCli))
<1>4. n \in Int /\ n \in 1 .. Len(toCli)
  BY <1>1, <1>2
<1>5. \A i \in 1 .. n : toCli[i] \in Tokens
  BY <1>1, <1>3, <1>4
<1>6. \A i \in n + 1 .. Len(toCli) : toCli[i] \in Tokens
  BY <1>1, <1>3, <1>4
<1>7. a \in Seq(Tokens)
  BY <1>4, <1>5, SubSeqProperties
<1>8. b \in Seq(Tokens)
  BY <1>1, <1>4, <1>6, SubSeqProperties
<1>9. a \o b = toCli
  <2>1. /\ 1 \in 1 .. Len(toCli) + 1 /\ n \in 1 - 1 .. Len(toCli)
        /\ Len(toCli) \in n .. Len(toCli)
    BY <1>1, <1>4
  <2>2. SubSeq(toCli, 1, n) \o SubSeq(toCli, n + 1, Len(toCli)) = SubSeq(toCli, 1, Len(toCli))
    BY <2>1, ConcatAdjacentSubSeq
  <2> QED BY <2>2, SubSeqFull
<1>10. buf' = buf \o a /\ toCli' = b
  BY <1>2
<1> HIDE DEF a, b
<1>11. (buf \o a) \o b = buf \o (a \o b)
  BY <1>7, <1>8, ConcatAssociative, SMTT(40)
<1> QED BY <1>7, <1>8, <1>9, <1>10, <1>11, ConcatProperties DEF Unread

\* Nothing is unread when nothing is in the buffer or on the stream.
LEMMA UnreadEmpty ==
  ASSUME buf \in Seq(Tokens), toCli \in Seq(Tokens)
  PROVE  Unread = <<>> <=> buf = <<>> /\ toCli = <<>>
BY ConcatEqualIffEmpty DEF Unread

\* The bus writes a line behind what the client has not read yet: an answer, if
\* that is nothing, or a line that does not fit.
LEMMA SayIs ==
  ASSUME buf \in Seq(Tokens), toCli \in Seq(Tokens), cut \in BOOLEAN,
         NEW word \in Words, Say(word), buf' = buf
  PROVE  /\ toCli' \in Seq(Tokens) /\ cut' \in BOOLEAN /\ (cut => cut')
         /\ Unread = <<>> /\ toBus' = <<>> => cut' \/ Answered(word)'
<1>1. PICK rest \in Filler :
        \/ toCli' = toCli \o Answer(word, rest) /\ cut' = (cut \/ ~Fits(rest))
        \/ toCli' = toCli \o (<<word>> \o rest \o <<"...">>) /\ cut' = TRUE
  BY DEF Say
<1>2. Answer(word, rest) \in Seq(Tokens)
  <2>1. "END" \in Tokens
    BY DEF Tokens
  <2> QED BY <2>1, LineIs DEF Answer
<1>3. CASE toCli' = toCli \o Answer(word, rest) /\ cut' = (cut \/ ~Fits(rest))
  <2>1. toCli' \in Seq(Tokens)
    BY <1>2, <1>3, ConcatProperties
  <2>2. ASSUME Unread = <<>>, toBus' = <<>>, ~cut' PROVE Answered(word)'
    <3>1. buf = <<>> /\ toCli = <<>>
      BY <2>2, UnreadEmpty
    <3>2. toCli' = Answer(word, rest)
      BY <1>2, <1>3, <3>1, ConcatEmptySeq
    <3>3. Unread' = Answer(word, rest)
      BY <1>2, <3>1, <3>2, ConcatEmptySeq DEF Unread
    <3>4. Fits(rest)
      BY <1>3, <2>2
    <3> QED BY <2>2, <3>3, <3>4 DEF Answered
  <2> QED BY <1>3, <2>1, <2>2
<1>4. CASE toCli' = toCli \o (<<word>> \o rest \o <<"...">>) /\ cut' = TRUE
  <2>1. "..." \in Tokens
    BY DEF Tokens
  <2> DEFINE line == <<word>> \o rest \o <<"...">>
  <2>2. line \in Seq(Tokens)
    BY <2>1, LineIs
  <2> HIDE DEF line
  <2>3. toCli \o line \in Seq(Tokens)
    BY <2>2, ConcatProperties
  <2> QED BY <1>4, <2>3 DEF line
<1> QED BY <1>1, <1>3, <1>4

\* What the answer to a question leaves of whose turn it is.
LEMMA Heard ==
  ASSUME buf \in Seq(Tokens), toCli \in Seq(Tokens), LineRead,
         NEW word \in Words, Answered(word)
  PROVE  toBus = <<>> /\ toCli = <<>> /\ \A x : StartsWith(x) <=> x = word
<1>1. PICK rest \in Filler : Fits(rest) /\ Unread = Answer(word, rest)
  BY DEF Answered
<1>2. toBus = <<>>
  BY DEF Answered
<1> QED BY <1>1, <1>2, AnswerRead

\* No answer can be read to its end before the bus has given one.
LEMMA NothingHeard ==
  ASSUME buf \in Seq(Tokens), toCli \in Seq(Tokens), LineRead
  PROVE  Unread # <<>>
<1>1. SUFFICES ASSUME Unread = <<>> PROVE FALSE
  OBVIOUS
<1>2. buf = <<>> /\ Len(buf) = 0
  BY <1>1, UnreadEmpty, EmptySeq
<1>3. LineEnd = 0
  BY <1>2, LineEndIs
<1> QED BY <1>2, <1>3, HandshakeAssumption DEF LineRead

\* A question asked when nothing is left of the last answer
LEMMA AskIs ==
  ASSUME NEW line, NEW next, Ask(line, next), toCli' = toCli, toBus = <<>>
  PROVE  /\ pc' = next /\ buf' = <<>> /\ toBus' = <<line>>
         /\ toCli = <<>> => (Unread = <<>>)'
         /\ toCli = <<>> => Asked(line)'
<1>1. pc' = next /\ buf' = <<>> /\ toBus' = <<line>>
  BY DEF Ask
<1>2. toCli = <<>> => Unread' = <<>>
  BY <1>1, EmptySeq DEF Unread
<1> QED BY <1>1, <1>2 DEF Asked

\* Whose turn it is, unless a line was too long
InStep == cut \/ (Turn /\ bus # "closed")

\* do_auth asks for the mechanisms.
LEMMA StartStep == HandshakeInv /\ ~cut /\ Start => InStep'
<1>1. SUFFICES ASSUME HandshakeInv, ~cut, Start PROVE InStep'
  OBVIOUS
<1>2. NotYet /\ toBus = <<>> /\ Unread = <<>>
  BY <1>1 DEF HandshakeInv, Turn, Start
<1>3. toCli = <<>>
  BY <1>1, <1>2, UnreadEmpty DEF HandshakeInv
<1>4. Ask(Line("AUTH"), "mechs") /\ UNCHANGED <<given, toCli, busVars, cut>>
  BY <1>1 DEF Start
<1>5. pc' = "mechs" /\ Asked(Line("AUTH"))' /\ buf' = <<>>
  BY <1>2, <1>3, <1>4, AskIs
<1>6. NotYet'
  BY <1>2, <1>4 DEF NotYet, busVars
<1> QED BY <1>5, <1>6 DEF InStep, NotYet, Turn

\* A read changes neither whose turn it is nor what is to be read.
LEMMA ReadStep == HandshakeInv /\ ~cut /\ Read => InStep'
<1>1. SUFFICES ASSUME HandshakeInv, ~cut, Read PROVE InStep'
  OBVIOUS
<1>2. Unread' = Unread
  BY <1>1, ReadKeeps DEF HandshakeInv
<1>3. UNCHANGED <<pc, mechs, given, toBus, busVars, cut>>
  BY <1>1 DEF Read
<1>4. NotYet' = NotYet /\ Accepted' = Accepted
  BY <1>3 DEF NotYet, Accepted, busVars
<1>5. External' = External
  BY <1>3 DEF External, given
<1>6. \A line : Asked(line) => Asked(line)'
  BY <1>2, <1>3 DEF Asked
<1>7. \A word : Answered(word) => Answered(word)'
  BY <1>2, <1>3 DEF Answered
<1>8. Turn'
  BY <1>1, <1>2, <1>3, <1>4, <1>5, <1>6, <1>7, ZenonT(60) DEF HandshakeInv, Turn, given, busVars
<1>9. bus' # "closed"
  BY <1>1, <1>3 DEF HandshakeInv, NeverOutOfTurn, busVars
<1> QED BY <1>8, <1>9 DEF InStep

\* What the client's steps after an answer leave alone
Rest == UNCHANGED <<given, toCli, busVars, cut>>

\* Giving up after an answer.
LEMMA StopStep ==
  ASSUME HandshakeInv, ~cut, Rest, Stop("err"), toBus = <<>>
  PROVE  InStep'
<1>1. pc' = "err" /\ toBus' = <<>>
  BY DEF Stop
<1>2. Turn'
  BY <1>1 DEF Turn
<1>3. bus' # "closed"
  BY DEF HandshakeInv, NeverOutOfTurn, Rest, busVars
<1> QED BY <1>2, <1>3 DEF InStep

\* do_auth goes on to ANONYMOUS, or fails.
LEMMA TryAnonymousStep ==
  ASSUME HandshakeInv, ~cut, Rest, NEW ms, TryAnonymous(ms), toBus = <<>>, toCli = <<>>, NotYet
  PROVE  InStep'
<1>1. CASE Stop("err")
  BY <1>1, StopStep
<1>2. CASE Ask(Line("AUTH ANONYMOUS"), "anonymous")
  <2>1. toCli' = toCli
    BY DEF Rest
  <2>2. pc' = "anonymous" /\ Asked(Line("AUTH ANONYMOUS"))'
    BY <1>2, <2>1, AskIs
  <2>3. NotYet'
    BY DEF NotYet, Rest, busVars
  <2> QED BY <2>2, <2>3 DEF InStep, NotYet, Turn
<1> QED BY <1>1, <1>2 DEF TryAnonymous

\* After the OK conn_handshake asks for fds, or begins.
LEMMA AuthedStep ==
  ASSUME HandshakeInv, ~cut, Rest, Authed, toBus = <<>>, toCli = <<>>, Accepted, ~fdOn
  PROVE  InStep'
<1>1. Accepted' /\ fdOn' = fdOn /\ with_fd' = with_fd /\ toCli' = toCli /\ okSent'
  BY DEF Accepted, Rest, busVars, given
<1>2. CASE with_fd /\ Ask(Line("NEGOTIATE_UNIX_FD"), "fds")
  <2>1. pc' = "fds" /\ Asked(Line("NEGOTIATE_UNIX_FD"))'
    BY <1>1, <1>2, AskIs
  <2> QED BY <1>1, <1>2, <2>1 DEF InStep, Accepted, Turn
<1>3. CASE ~with_fd /\ Ask(Line("BEGIN"), "ok")
  <2>1. pc' = "ok" /\ Asked(Line("BEGIN"))' /\ (Unread = <<>>)'
    BY <1>1, <1>3, AskIs
  <2>2. fdOn' = with_fd'
    BY <1>1, <1>3 DEF HandshakeInv
  <2> QED BY <1>1, <2>1, <2>2 DEF InStep, Accepted, Turn
<1> QED BY <1>2, <1>3 DEF Authed

\* find_auth_mechs returns.
LEMMA GotMechsStep == HandshakeInv /\ ~cut /\ GotMechs => InStep'
<1>1. SUFFICES ASSUME HandshakeInv, ~cut, GotMechs PROVE InStep'
  OBVIOUS
<1>2. pc = "mechs" /\ LineRead /\ Rest
  BY <1>1 DEF GotMechs, Rest
<1>3. buf \in Seq(Tokens) /\ toCli \in Seq(Tokens) /\ Unread # <<>>
  BY <1>1, <1>2, NothingHeard DEF HandshakeInv
<1>4. NotYet /\ Answered("REJECTED")
  BY <1>1, <1>2, <1>3 DEF HandshakeInv, Turn, Asked
<1>5. toBus = <<>> /\ toCli = <<>>
  BY <1>2, <1>3, <1>4, Heard DEF Words
<1>6. CASE TryAnonymous(mechs')
  BY <1>1, <1>2, <1>4, <1>5, <1>6, TryAnonymousStep
<1>7. CASE Ask(External, "external")
  <2>1. toCli' = toCli /\ External' = External
    BY <1>2 DEF Rest, given, External
  <2>2. pc' = "external" /\ Asked(External)'
    <3> HIDE DEF External
    <3>1. pc' = "external" /\ toBus' = <<External>> /\ (Unread = <<>>)'
      BY <1>5, <1>7, <2>1, AskIs
    <3> QED BY <2>1, <3>1 DEF Asked
  <2>3. NotYet'
    BY <1>2, <1>4 DEF NotYet, Rest, busVars
  <2> QED BY <2>2, <2>3 DEF InStep, NotYet, Turn
<1>8. CASE Stop("err")
  BY <1>1, <1>2, <1>5, <1>8, StopStep
<1> QED BY <1>1, <1>6, <1>7, <1>8 DEF GotMechs

\* do_external_auth returns.
LEMMA GotExternalStep == HandshakeInv /\ ~cut /\ GotExternal => InStep'
<1>1. SUFFICES ASSUME HandshakeInv, ~cut, GotExternal PROVE InStep'
  OBVIOUS
<1>2. pc = "external" /\ LineRead /\ Rest
  BY <1>1 DEF GotExternal, Rest
<1>3. buf \in Seq(Tokens) /\ toCli \in Seq(Tokens) /\ Unread # <<>>
  BY <1>1, <1>2, NothingHeard DEF HandshakeInv
<1>4. \/ NotYet /\ Answered("REJECTED")
      \/ Accepted /\ ~fdOn /\ Answered("OK")
  BY <1>1, <1>2, <1>3 DEF HandshakeInv, Turn, Asked
<1>5. CASE NotYet /\ Answered("REJECTED")
  <2>1. toBus = <<>> /\ toCli = <<>> /\ ~StartsWith("OK")
    BY <1>2, <1>3, <1>5, Heard DEF Words
  <2>2. TryAnonymous(mechs)
    BY <1>1, <2>1 DEF GotExternal
  <2> QED BY <1>1, <1>2, <1>5, <2>1, <2>2, TryAnonymousStep
<1>6. CASE Accepted /\ ~fdOn /\ Answered("OK")
  <2>1. toBus = <<>> /\ toCli = <<>> /\ StartsWith("OK")
    BY <1>2, <1>3, <1>6, Heard DEF Words
  <2>2. Authed
    BY <1>1, <2>1 DEF GotExternal
  <2> QED BY <1>1, <1>2, <1>6, <2>1, <2>2, AuthedStep
<1> QED BY <1>4, <1>5, <1>6

\* do_anonymous_auth returns.
LEMMA GotAnonymousStep == HandshakeInv /\ ~cut /\ GotAnonymous => InStep'
<1>1. SUFFICES ASSUME HandshakeInv, ~cut, GotAnonymous PROVE InStep'
  OBVIOUS
<1>2. pc = "anonymous" /\ LineRead /\ Rest
  BY <1>1 DEF GotAnonymous, Rest
<1>3. buf \in Seq(Tokens) /\ toCli \in Seq(Tokens) /\ Unread # <<>>
  BY <1>1, <1>2, NothingHeard DEF HandshakeInv
<1>4. \/ NotYet /\ Answered("REJECTED")
      \/ Accepted /\ ~fdOn /\ Answered("OK")
  BY <1>1, <1>2, <1>3 DEF HandshakeInv, Turn, Asked
<1>5. CASE NotYet /\ Answered("REJECTED")
  <2>1. toBus = <<>> /\ ~StartsWith("OK")
    BY <1>2, <1>3, <1>5, Heard DEF Words
  <2>2. Stop("err")
    BY <1>1, <2>1 DEF GotAnonymous
  <2> QED BY <1>1, <1>2, <2>1, <2>2, StopStep
<1>6. CASE Accepted /\ ~fdOn /\ Answered("OK")
  <2>1. toBus = <<>> /\ toCli = <<>> /\ StartsWith("OK")
    BY <1>2, <1>3, <1>6, Heard DEF Words
  <2>2. Authed
    BY <1>1, <2>1 DEF GotAnonymous
  <2> QED BY <1>1, <1>2, <1>6, <2>1, <2>2, AuthedStep
<1> QED BY <1>4, <1>5, <1>6

\* negotiate_unix_fds returns.
LEMMA GotFdsStep == HandshakeInv /\ ~cut /\ GotFds => InStep'
<1>1. SUFFICES ASSUME HandshakeInv, ~cut, GotFds PROVE InStep'
  OBVIOUS
<1>2. pc = "fds" /\ LineRead /\ Rest
  BY <1>1 DEF GotFds, Rest
<1>3. buf \in Seq(Tokens) /\ toCli \in Seq(Tokens) /\ Unread # <<>>
  BY <1>1, <1>2, NothingHeard DEF HandshakeInv
<1>4. /\ with_fd /\ Accepted
      /\ \/ Answered("ERROR")
         \/ fdOn /\ Answered("AGREE_UNIX_FD")
  BY <1>1, <1>2, <1>3 DEF HandshakeInv, Turn, Asked
<1>5. CASE Answered("ERROR")
  <2>1. toBus = <<>> /\ ~StartsWith("AGREE_UNIX_FD")
    BY <1>2, <1>3, <1>5, Heard DEF Words
  <2>2. Stop("err")
    BY <1>1, <2>1 DEF GotFds
  <2> QED BY <1>1, <1>2, <2>1, <2>2, StopStep
<1>6. CASE fdOn /\ Answered("AGREE_UNIX_FD")
  <2>1. toBus = <<>> /\ toCli = <<>> /\ StartsWith("AGREE_UNIX_FD")
    BY <1>2, <1>3, <1>6, Heard DEF Words
  <2>2. Ask(Line("BEGIN"), "ok")
    BY <1>1, <2>1 DEF GotFds
  <2>3. pc' = "ok" /\ Asked(Line("BEGIN"))' /\ (Unread = <<>>)'
    BY <1>2, <2>1, <2>2, AskIs DEF Rest
  <2>4. Accepted' /\ okSent' /\ fdOn' = with_fd'
    BY <1>1, <1>2, <1>4, <1>6 DEF HandshakeInv, Accepted, Rest, busVars, given
  <2> QED BY <2>3, <2>4 DEF InStep, Accepted, Turn
<1> QED BY <1>4, <1>5, <1>6

\* A read or a write fails on a closed stream.
LEMMA IoErrorStep == HandshakeInv /\ ~cut /\ IoError => InStep'
<1>1. SUFFICES ASSUME HandshakeInv, ~cut, IoError PROVE InStep'
  OBVIOUS
<1>2. pc' = "err" /\ bus' \in {"closed", "gone"} /\ bus' = bus
  BY <1>1 DEF IoError, Stop, busVars
<1> QED BY <1>1, <1>2 DEF HandshakeInv, NeverOutOfTurn, InStep, Turn

\* The bus goes while it waits for a command.
LEMMA BusClosesStep == HandshakeInv /\ ~cut /\ BusCloses => InStep'
<1>1. SUFFICES ASSUME HandshakeInv, ~cut, BusCloses PROVE InStep'
  OBVIOUS
<1>2. bus' = "gone" /\ UNCHANGED <<fdOn, pc, mechs, buf, given, toBus, toCli, cut>>
  BY <1>1 DEF BusCloses, BusGoto, Quiet
<1>3. okSent' = okSent
  BY <1>1 DEF BusCloses, BusGoto, HandshakeInv
<1>4. Unread' = Unread /\ External' = External
  BY <1>2 DEF Unread, External, given
<1>5. (NotYet => NotYet') /\ (Accepted => Accepted')
  BY <1>2, <1>3 DEF NotYet, Accepted
<1>6. \A line : Asked(line) => Asked(line)'
  BY <1>2, <1>4 DEF Asked
<1>7. \A word : Answered(word) => Answered(word)'
  BY <1>2, <1>4 DEF Answered
<1>8. Turn'
  BY <1>1, <1>2, <1>3, <1>4, <1>5, <1>6, <1>7, SMTT(40), ZenonT(60) DEF HandshakeInv, Turn, given
<1> QED BY <1>2, <1>8 DEF InStep

\* The words of the client's lines
LEMMA LineWord == \A w : Line(w).word = w
  BY DEF Line

\* The word of the line of do_external_auth
LEMMA ExternalWord == External.word = "AUTH EXTERNAL"
<1>1. \A w : [word |-> w, uid |-> Digits(euid)].word = w
  OBVIOUS
<1> QED BY <1>1, Zenon DEF External

\* What the bus may do with a line, by the word of the line.
LEMMA BusDoes ==
  ASSUME BusAnswers
  PROVE  /\ toBus # <<>> /\ bus \in {"auth", "authed", "begun"} /\ toBus' = Tail(toBus)
         /\ UNCHANGED <<pc, mechs, buf, given>>
         /\ \/ /\ bus = "auth" /\ Head(toBus).word \in {"AUTH", "AUTH EXTERNAL", "AUTH ANONYMOUS"}
               /\ \/ Head(toBus).word # "AUTH" /\ Say("OK") /\ BusGoto("authed")
                  \/ Say("REJECTED") /\ BusGoto("auth")
            \/ /\ bus = "authed" /\ Head(toBus).word = "NEGOTIATE_UNIX_FD"
               /\ \/ Say("AGREE_UNIX_FD") /\ fdOn' = TRUE /\ UNCHANGED <<bus, okSent>>
                  \/ Say("ERROR") /\ BusGoto("authed")
            \/ bus = "authed" /\ Head(toBus).word = "BEGIN" /\ Quiet /\ BusGoto("begun")
            \/ /\ Quiet /\ BusGoto("closed")
               /\ ~(bus = "auth" /\ Head(toBus).word \in {"AUTH", "AUTH EXTERNAL", "AUTH ANONYMOUS"})
               /\ ~(bus = "authed" /\ Head(toBus).word \in {"NEGOTIATE_UNIX_FD", "BEGIN"})
<1> DEFINE w == Head(toBus).word
<1>1. Acceptable(Head(toBus)) => w # "AUTH"
  BY DEF Acceptable
<1>2. CASE bus = "auth" /\ w \in {"AUTH", "AUTH EXTERNAL", "AUTH ANONYMOUS"}
  BY <1>1, <1>2 DEF BusAnswers
<1>3. CASE bus = "authed" /\ w = "NEGOTIATE_UNIX_FD"
  BY <1>3 DEF BusAnswers
<1>4. CASE bus = "authed" /\ w = "BEGIN"
  BY <1>4 DEF BusAnswers
<1>5. CASE /\ ~(bus = "auth" /\ w \in {"AUTH", "AUTH EXTERNAL", "AUTH ANONYMOUS"})
           /\ ~(bus = "authed" /\ w \in {"NEGOTIATE_UNIX_FD", "BEGIN"})
  BY <1>5 DEF BusAnswers
<1> QED BY <1>2, <1>3, <1>4, <1>5

\* The bus handles a line.
LEMMA BusAnswersStep == HandshakeInv /\ ~cut /\ BusAnswers => InStep'
<1>1. SUFFICES ASSUME HandshakeInv, ~cut, BusAnswers, ~cut' PROVE Turn' /\ bus' # "closed"
  BY DEF InStep
<1>2. /\ toBus # <<>> /\ bus \in {"auth", "authed", "begun"} /\ toBus' = Tail(toBus)
      /\ UNCHANGED <<pc, buf, given>>
  BY <1>1, BusDoes
<1>3. buf \in Seq(Tokens) /\ toCli \in Seq(Tokens) /\ okSent \in BOOLEAN /\ cut \in BOOLEAN
  BY <1>1 DEF HandshakeInv
<1>4. pc' = pc /\ buf' = buf /\ with_fd' = with_fd
  BY <1>2 DEF given
<1>5. \A word : ~Answered(word)
  BY <1>2 DEF Answered
<1>6. ASSUME NEW line, Asked(line)
      PROVE  Unread = <<>> /\ Head(toBus) = line /\ toBus' = <<>>
  BY <1>2, <1>6 DEF Asked
<1>7. ASSUME NEW line, Asked(line), NEW word \in Words, Say(word)
      PROVE  Answered(word)'
  BY <1>1, <1>3, <1>4, <1>6, <1>7, SayIs
<1>8. \/ NotYet /\ pc = "mechs" /\ Asked(Line("AUTH"))
      \/ NotYet /\ pc = "external" /\ Asked(External)
      \/ NotYet /\ pc = "anonymous" /\ Asked(Line("AUTH ANONYMOUS"))
      \/ pc = "fds" /\ with_fd /\ Accepted /\ ~fdOn /\ Asked(Line("NEGOTIATE_UNIX_FD"))
      \/ pc = "ok" /\ okSent /\ fdOn = with_fd /\ Accepted /\ Asked(Line("BEGIN"))
  BY <1>1, <1>2, <1>5 DEF HandshakeInv, Turn
<1>9. CASE NotYet /\ pc = "mechs" /\ Asked(Line("AUTH"))
  <2>1. Head(toBus).word = "AUTH" /\ bus = "auth" /\ ~okSent /\ ~fdOn
    BY <1>2, <1>6, <1>9 DEF Line, NotYet
  <2>2. Say("REJECTED") /\ BusGoto("auth")
    BY <1>1, <2>1, BusDoes
  <2>3. Answered("REJECTED")'
    BY <1>7, <1>9, <2>2 DEF Words
  <2>4. NotYet'
    BY <2>1, <2>2 DEF NotYet, BusGoto
  <2> QED BY <1>4, <1>9, <2>3, <2>4 DEF Turn, NotYet
<1>10. CASE NotYet /\ pc = "external" /\ Asked(External)
  <2>1. Head(toBus).word = "AUTH EXTERNAL" /\ bus = "auth" /\ ~okSent /\ ~fdOn
    <3>1. Head(toBus) = External
      BY <1>6, <1>10
    <3>2. Head(toBus).word = "AUTH EXTERNAL"
      BY <3>1, ExternalWord, Zenon
    <3>3. bus = "auth" /\ ~okSent /\ ~fdOn
      BY <1>2, <1>10, Zenon DEF NotYet
    <3> QED BY <3>2, <3>3
  <2>2. \/ Say("OK") /\ BusGoto("authed")
        \/ Say("REJECTED") /\ BusGoto("auth")
    BY <1>1, <2>1, BusDoes
  <2>3. CASE Say("OK") /\ BusGoto("authed")
    <3>1. Answered("OK")'
      BY <1>7, <1>10, <2>3 DEF Words
    <3>2. Accepted' /\ ~fdOn'
      BY <2>1, <2>3 DEF Accepted, BusGoto
    <3> QED BY <1>4, <1>10, <3>1, <3>2 DEF Turn, Accepted
  <2>4. CASE Say("REJECTED") /\ BusGoto("auth")
    <3>1. Answered("REJECTED")'
      BY <1>7, <1>10, <2>4 DEF Words
    <3>2. NotYet'
      BY <2>1, <2>4 DEF NotYet, BusGoto
    <3> QED BY <1>4, <1>10, <3>1, <3>2 DEF Turn, NotYet
  <2> QED BY <2>2, <2>3, <2>4
<1>11. CASE NotYet /\ pc = "anonymous" /\ Asked(Line("AUTH ANONYMOUS"))
  <2>1. Head(toBus).word = "AUTH ANONYMOUS" /\ bus = "auth" /\ ~okSent /\ ~fdOn
    <3>1. Head(toBus) = Line("AUTH ANONYMOUS")
      BY <1>6, <1>11
    <3>2. Head(toBus).word = "AUTH ANONYMOUS"
      BY <3>1, LineWord, Zenon
    <3>3. bus = "auth" /\ ~okSent /\ ~fdOn
      BY <1>2, <1>11, Zenon DEF NotYet
    <3> QED BY <3>2, <3>3
  <2>2. \/ Say("OK") /\ BusGoto("authed")
        \/ Say("REJECTED") /\ BusGoto("auth")
    BY <1>1, <2>1, BusDoes
  <2>3. CASE Say("OK") /\ BusGoto("authed")
    <3>1. Answered("OK")'
      BY <1>7, <1>11, <2>3 DEF Words
    <3>2. Accepted' /\ ~fdOn'
      BY <2>1, <2>3 DEF Accepted, BusGoto
    <3> QED BY <1>4, <1>11, <3>1, <3>2 DEF Turn, Accepted
  <2>4. CASE Say("REJECTED") /\ BusGoto("auth")
    <3>1. Answered("REJECTED")'
      BY <1>7, <1>11, <2>4 DEF Words
    <3>2. NotYet'
      BY <2>1, <2>4 DEF NotYet, BusGoto
    <3> QED BY <1>4, <1>11, <3>1, <3>2 DEF Turn, NotYet
  <2> QED BY <2>2, <2>3, <2>4
<1>12. CASE pc = "fds" /\ with_fd /\ Accepted /\ ~fdOn /\ Asked(Line("NEGOTIATE_UNIX_FD"))
  <2>1. Head(toBus).word = "NEGOTIATE_UNIX_FD" /\ bus = "authed" /\ okSent
    BY <1>2, <1>6, <1>12 DEF Line, Accepted
  <2>2. \/ Say("AGREE_UNIX_FD") /\ fdOn' = TRUE /\ UNCHANGED <<bus, okSent>>
        \/ Say("ERROR") /\ BusGoto("authed")
    BY <1>1, <2>1, BusDoes
  <2>3. CASE Say("AGREE_UNIX_FD") /\ fdOn' = TRUE /\ UNCHANGED <<bus, okSent>>
    <3>1. Answered("AGREE_UNIX_FD")'
      BY <1>7, <1>12, <2>3 DEF Words
    <3>2. Accepted'
      BY <2>1, <2>3 DEF Accepted
    <3> QED BY <1>4, <1>12, <2>3, <3>1, <3>2 DEF Turn, Accepted
  <2>4. CASE Say("ERROR") /\ BusGoto("authed")
    <3>1. Answered("ERROR")'
      BY <1>7, <1>12, <2>4 DEF Words
    <3>2. Accepted' /\ fdOn' = fdOn
      BY <2>1, <2>4 DEF Accepted, BusGoto
    <3> QED BY <1>4, <1>12, <3>1, <3>2 DEF Turn, Accepted
  <2> QED BY <2>2, <2>3, <2>4
<1>13. CASE pc = "ok" /\ okSent /\ fdOn = with_fd /\ Accepted /\ Asked(Line("BEGIN"))
  <2>1. Head(toBus).word = "BEGIN" /\ bus = "authed" /\ Unread = <<>> /\ toBus' = <<>>
    BY <1>2, <1>6, <1>13 DEF Line, Accepted
  <2>2. Quiet /\ BusGoto("begun")
    BY <1>1, <2>1, BusDoes
  <2>3. Unread' = <<>> /\ bus' = "begun" /\ okSent' /\ fdOn' = with_fd'
    BY <1>4, <1>13, <2>1, <2>2 DEF Unread, Quiet, BusGoto
  <2> QED BY <1>4, <1>13, <2>1, <2>3 DEF Turn
<1> QED BY <1>8, <1>9, <1>10, <1>11, <1>12, <1>13

\* What a step of the handshake keeps whatever the bus writes.
LEMMA KeepsTypes ==
  ASSUME HandshakeInv, Next
  PROVE  /\ buf' \in Seq(Tokens) /\ toCli' \in Seq(Tokens)
         /\ with_fd' \in BOOLEAN /\ okSent' \in BOOLEAN /\ fdOn' \in BOOLEAN
         /\ cut' \in BOOLEAN /\ (cut => cut')
<1>1. /\ buf \in Seq(Tokens) /\ toCli \in Seq(Tokens) /\ cut \in BOOLEAN
      /\ with_fd \in BOOLEAN /\ okSent \in BOOLEAN /\ fdOn \in BOOLEAN
  BY DEF HandshakeInv
<1>2. CASE Read
  <2>1. buf' \in Seq(Tokens) /\ toCli' \in Seq(Tokens)
    BY <1>1, <1>2, ReadKeeps
  <2> QED BY <1>1, <1>2, <2>1 DEF Read, given, busVars
<1>3. CASE Start \/ GotMechs \/ GotExternal \/ GotAnonymous \/ GotFds \/ IoError
  <2>1. Rest
    BY <1>3 DEF Start, GotMechs, GotExternal, GotAnonymous, GotFds, IoError, Rest
  <2>2. buf' = <<>>
    BY <1>3 DEF Start, GotMechs, GotExternal, GotAnonymous, GotFds, IoError, TryAnonymous, Authed, Ask, Stop
  <2> QED BY <1>1, <2>1, <2>2, EmptySeq DEF Rest, given, busVars
<1>4. CASE BusAnswers
  <2>1. UNCHANGED <<pc, buf, given>>
    BY <1>4, BusDoes
  <2>2. with_fd' \in BOOLEAN /\ okSent' \in BOOLEAN /\ fdOn' \in BOOLEAN
    BY <1>1, <1>4, <2>1, BusDoes DEF given, BusGoto
  <2>3. ASSUME NEW word \in Words, Say(word)
        PROVE  toCli' \in Seq(Tokens) /\ cut' \in BOOLEAN /\ (cut => cut')
    BY <1>1, <2>1, <2>3, SayIs
  <2>4. ASSUME Quiet PROVE toCli' \in Seq(Tokens) /\ cut' \in BOOLEAN /\ (cut => cut')
    BY <1>1, <2>4 DEF Quiet
  <2>5. Quiet \/ \E word \in Words : Say(word)
    BY <1>4, BusDoes DEF Words
  <2> QED BY <1>1, <2>1, <2>2, <2>3, <2>4, <2>5
<1>5. CASE BusCloses
  BY <1>1, <1>5 DEF BusCloses, BusGoto, Quiet, given
<1> QED BY <1>2, <1>3, <1>4, <1>5 DEF Next, Client

\* Every step of the handshake keeps its invariant: once a line was too long
\* it says nothing of whose turn it is.
LEMMA NextStep == HandshakeInv /\ Next => HandshakeInv'
<1>1. SUFFICES ASSUME HandshakeInv, Next PROVE HandshakeInv'
  OBVIOUS
<1>2. /\ buf' \in Seq(Tokens) /\ toCli' \in Seq(Tokens)
      /\ with_fd' \in BOOLEAN /\ okSent' \in BOOLEAN /\ fdOn' \in BOOLEAN
      /\ cut' \in BOOLEAN /\ (cut => cut')
  BY <1>1, KeepsTypes
<1>3. InStep'
  <2>1. CASE cut
    BY <1>2, <2>1 DEF InStep
  <2>2. CASE ~cut
    BY <1>1, <2>2, StartStep, ReadStep, GotMechsStep, GotExternalStep, GotAnonymousStep,
       GotFdsStep, IoErrorStep, BusAnswersStep, BusClosesStep DEF Next, Client
  <2> QED BY <2>1, <2>2
<1> QED BY <1>2, <1>3 DEF HandshakeInv, NeverOutOfTurn, InStep

\* A step that leaves the handshake alone
LEMMA HandshakeStutters == HandshakeInv /\ UNCHANGED vars => HandshakeInv'
<1>1. SUFFICES ASSUME HandshakeInv, UNCHANGED vars PROVE HandshakeInv'
  OBVIOUS
<1>2. UNCHANGED <<pc, mechs, buf, euid, with_fd, offers, toBus, toCli, bus, okSent, fdOn, cut>>
  BY <1>1 DEF vars, given, busVars
<1>3. Turn' = Turn
  BY <1>2 DEF Turn, NotYet, Accepted, Asked, Answered, Unread, External, Line
<1> QED BY <1>1, <1>2, <1>3 DEF HandshakeInv, NeverOutOfTurn

-----------------------------------------------------------------------------
(* The constructors                                                        *)

\* Every step of a constructor keeps the invariant of the handshake.
LEMMA ConnectKeepsHandshake == HandshakeInv /\ [ConnectNext]_allVars => HandshakeInv'
<1>1. SUFFICES ASSUME HandshakeInv, [ConnectNext]_allVars PROVE HandshakeInv'
  OBVIOUS
<1>2. CASE UNCHANGED vars
  BY <1>1, <1>2, HandshakeStutters
<1>3. CASE Shake
  BY <1>1, <1>3, NextStep DEF Shake
<1>4. CASE Bus
  <2>1. CASE BusAnswers \/ BusCloses
    BY <1>1, <2>1, NextStep DEF Next
  <2>2. CASE /\ bus = "begun" /\ BusGoto("gone") /\ Quiet
             /\ UNCHANGED <<pc, mechs, buf, given, toBus>>
    <3>1. /\ bus = "begun" /\ bus' = "gone" /\ okSent' = okSent
          /\ UNCHANGED <<fdOn, pc, buf, given, toBus, toCli, cut>>
      BY <1>1, <2>2 DEF BusGoto, Quiet, HandshakeInv
    <3>2. Unread' = Unread /\ with_fd' = with_fd
      BY <3>1 DEF Unread, given
    <3>3. cut' \/ Turn'
      BY <1>1, <3>1, <3>2 DEF HandshakeInv, Turn, NotYet, Accepted
    <3> QED BY <1>1, <3>1, <3>2, <3>3 DEF HandshakeInv, NeverOutOfTurn
  <2> QED BY <1>4, <2>1, <2>2 DEF Bus
<1> QED BY <1>1, <1>2, <1>3, <1>4
     DEF ConnectNext, Constructor, FindAddr, ConnectStream, OpenAbstract, ConnectAbstract, ShakeFails,
         Duplicate, Setup, Hello, HelloIoError, Cancel, Drop, allVars

\* Every step of a constructor keeps the books of the descriptors: the
\* handshake's result and the caller's choice stay what they are meanwhile.
LEMMA ConnectKeepsSocket ==
  HandshakeInv /\ SocketInv /\ [ConnectNext]_allVars => SocketInv'
<1>1. SUFFICES ASSUME HandshakeInv, SocketInv, [ConnectNext]_allVars PROVE SocketInv'
  OBVIOUS
<1>2. CASE UNCHANGED allVars
  BY <1>1, <1>2 DEF SocketInv, allVars, connVars, vars, given
<1>3. CASE FindAddr
  BY <1>1, <1>3 DEF SocketInv, FindAddr, Fail, Return
<1>4. CASE ConnectStream
  BY <1>1, <1>4 DEF SocketInv, ConnectStream, Fail, Return, vars, given
<1>5. CASE OpenAbstract
  BY <1>1, <1>5 DEF SocketInv, OpenAbstract, Fail, Return
<1>15. CASE ConnectAbstract
  BY <1>1, <1>15 DEF SocketInv, ConnectAbstract
<1>6. CASE ShakeFails
  BY <1>1, <1>6 DEF SocketInv, ShakeFails, Fail, Return
<1>7. CASE Duplicate
  BY <1>1, <1>7 DEF SocketInv, Duplicate, Fail, Return, vars, given
<1>8. CASE Setup
  BY <1>1, <1>8 DEF SocketInv, Setup, Fail, Return, vars, given
<1>9. CASE Hello
  BY <1>1, <1>9 DEF SocketInv, Hello, Fail, Return, vars, given
<1>10. CASE HelloIoError
  BY <1>1, <1>10 DEF SocketInv, HelloIoError, Fail, Return
<1>11. CASE Shake
  <2>1. with_fd' = with_fd
    BY <1>11 DEF Shake, Next, Client, Start, Read, GotMechs, GotExternal, GotAnonymous, GotFds,
                 IoError, BusAnswers, BusCloses, given
  <2> QED BY <1>1, <1>11, <2>1 DEF SocketInv, Shake, connVars
<1>12. CASE Bus
  <2>1. with_fd' = with_fd /\ pc' = pc
    BY <1>12 DEF Bus, BusAnswers, BusCloses, given
  <2> QED BY <1>1, <1>12, <2>1 DEF SocketInv, Bus, connVars
<1>13. CASE Cancel
  BY <1>1, <1>13 DEF SocketInv, Cancel, Return
<1>14. CASE Drop
  BY <1>1, <1>14 DEF SocketInv, Drop, Return
<1> QED BY <1>1, <1>2, <1>3, <1>4, <1>5, <1>6, <1>7, <1>8, <1>9, <1>10, <1>11, <1>12, <1>13, <1>14, <1>15
     DEF ConnectNext, Constructor

\* The two invariants hold of every constructor, whatever the bus does.
THEOREM ConnectInvariant == ConnectSpec => [](HandshakeInv /\ SocketInv)
<1>1. ConnectInit => HandshakeInv /\ SocketInv
  <2>1. SUFFICES ASSUME ConnectInit PROVE HandshakeInv /\ SocketInv
    OBVIOUS
  <2>2. buf = <<>> /\ toCli = <<>> /\ Unread = <<>>
    BY <2>1, EmptySeq DEF ConnectInit, Init, Unread
  <2>3. Turn /\ NeverOutOfTurn
    BY <2>1, <2>2 DEF ConnectInit, Init, Turn, NotYet, NeverOutOfTurn
  <2>4. SocketInv
    BY <2>1 DEF ConnectInit, SocketInv
  <2> QED BY <2>1, <2>2, <2>3, <2>4, EmptySeq DEF HandshakeInv, ConnectInit, Init
<1>2. HandshakeInv /\ SocketInv /\ [ConnectNext]_allVars => (HandshakeInv /\ SocketInv)'
  BY ConnectKeepsHandshake, ConnectKeepsSocket
<1> QED BY <1>1, <1>2, PTL DEF ConnectSpec

\* While the lines of the bus fit, conn_handshake returns Ok only with a bus
\* that accepted the client and that passes fds as the caller asked, and leaves
\* no byte for the first message.
THEOREM AlwaysConnectedInStep == ConnectSpec => []ConnectedInStep
<1>1. HandshakeInv => ConnectedInStep
  <2>1. SUFFICES ASSUME HandshakeInv, pc = "ok", ~cut PROVE okSent /\ fdOn = with_fd /\ toCli = <<>>
    BY DEF ConnectedInStep
  <2>2. okSent /\ fdOn = with_fd /\ Unread = <<>>
    BY <2>1 DEF HandshakeInv, Turn
  <2> QED BY <2>1, <2>2, UnreadEmpty DEF HandshakeInv
<1> QED BY <1>1, ConnectInvariant, PTL

\* As long as its lines fit starts_with's buffer, the bus is never sent a
\* command that it does not expect.
THEOREM AlwaysInTurn == ConnectSpec => []NeverOutOfTurn
<1>1. HandshakeInv => NeverOutOfTurn
  BY DEF HandshakeInv
<1> QED BY <1>1, ConnectInvariant, PTL

-----------------------------------------------------------------------------
(* The user id of AUTH EXTERNAL (do_external_auth)                         *)

\* A loop of do_external_auth: its variable is a at first, and g[k] after k
\* rounds, of which round k sets it by F[k].
IsLoop(g, n, a, F) ==
  /\ g \in [0 .. n -> Nat] /\ g[0] = a
  /\ \A k \in 1 .. n : g[k] = F[k][g[k - 1]]

\* Every loop has its values.
LEMMA LoopExists ==
  ASSUME NEW n \in Nat, NEW a \in Nat, NEW F \in [1 .. n -> [Nat -> Nat]]
  PROVE  \E g : IsLoop(g, n, a, F)
<1> DEFINE T == {m \in 0 .. n : \E g : IsLoop(g, m, a, F)}
<1>1. 0 \in T
  <2> DEFINE g == [k \in 0 .. 0 |-> a]
  <2>1. IsLoop(g, 0, a, F)
    BY DEF IsLoop
  <2> QED BY <2>1
<1>2. ASSUME NEW m \in 0 .. n - 1, m \in T PROVE m + 1 \in T
  <2>1. PICK g : IsLoop(g, m, a, F)
    BY <1>2
  <2>2. g \in [0 .. m -> Nat] /\ g[0] = a /\ \A k \in 1 .. m : g[k] = F[k][g[k - 1]]
    BY <2>1 DEF IsLoop
  <2> DEFINE h == [k \in 0 .. m + 1 |-> IF k = m + 1 THEN F[m + 1][g[m]] ELSE g[k]]
  <2>3. F[m + 1][g[m]] \in Nat
    <3>1. m + 1 \in 1 .. n /\ g[m] \in Nat
      BY <2>2
    <3> QED BY <3>1
  <2>4. h \in [0 .. m + 1 -> Nat]
    <3>1. ASSUME NEW k \in 0 .. m + 1 PROVE h[k] \in Nat
      BY <2>2, <2>3
    <3> QED BY <3>1
  <2>5. h[0] = a
    BY <2>2
  <2>6. ASSUME NEW k \in 1 .. m + 1 PROVE h[k] = F[k][h[k - 1]]
    <3>1. CASE k = m + 1
      <4>1. h[m] = g[m] /\ k - 1 = m /\ h[k] = F[m + 1][g[m]]
        BY <3>1
      <4> QED BY <3>1, <4>1
    <3>2. CASE k # m + 1
      <4>1. k \in 1 .. m /\ k \in 0 .. m + 1 /\ k - 1 \in 0 .. m + 1 /\ k - 1 # m + 1
        BY <3>2
      <4>2. h[k] = g[k] /\ h[k - 1] = g[k - 1]
        BY <3>2, <4>1
      <4> QED BY <2>2, <4>1, <4>2
    <3> QED BY <3>1, <3>2
  <2> HIDE DEF h
  <2>7. IsLoop(h, m + 1, a, F)
    BY <2>4, <2>5, <2>6 DEF IsLoop
  <2> QED BY <2>7
<1>3. n \in T
  <2>1. n \in 0 .. n
    OBVIOUS
  <2> HIDE DEF T
  <2> QED BY <1>1, <1>2, <2>1, ZeroInduction
<1> QED BY <1>3

\* pid / next == 0, and what pid -= digit * order leaves
LEMMA DivIs ==
  ASSUME NEW a \in Nat, NEW b \in Nat, b > 0
  PROVE  /\ a \div b \in Nat /\ a % b \in 0 .. b - 1 /\ a = b * (a \div b) + (a % b)
         /\ a \div b = 0 <=> a < b
         /\ a - (a \div b) * b \in 0 .. b - 1
<1>1. a \div b \in Nat /\ a % b \in 0 .. b - 1 /\ a = b * (a \div b) + (a % b)
  OBVIOUS
<1>2. a \div b = 0 <=> a < b
  <2>1. a \div b = 0 => a < b
    BY <1>1
  <2>2. ASSUME a < b, a \div b # 0 PROVE FALSE
    <3> DEFINE q == a \div b
    <3>1. q \in Nat /\ q >= 1
      BY <1>1, <2>2
    <3> HIDE DEF q
    <3>2. b * q >= b
      BY <3>1
    <3> QED BY <1>1, <2>2, <3>2 DEF q
  <2> QED BY <2>1, <2>2
<1>3. (a \div b) * b = b * (a \div b)
  BY <1>1
<1> QED BY <1>1, <1>2, <1>3

\* The rounds are enough for 10^k to pass every u32.
LEMMA RoundsIs == Rounds \in Nat /\ Rounds >= 1 /\ 9 * Rounds > Width /\ Width \in Nat /\ Width > 10
  BY HandshakeAssumption DEF Rounds

\* order * 10, by u32 multiplication
LEMMA PowerIs ==
  /\ Power \in [0 .. Rounds -> Nat] /\ Power[0] = 1
  /\ \A k \in 1 .. Rounds : Power[k] = (Power[k - 1] * 10) % Width
<1> DEFINE n == Rounds
           F == [k \in 1 .. n |-> [o \in Nat |-> (o * 10) % Width]]
<1>1. n \in Nat /\ Width \in Nat /\ Width > 10
  BY RoundsIs
<1>2. F \in [1 .. n -> [Nat -> Nat]]
  <2>1. ASSUME NEW o \in Nat PROVE (o * 10) % Width \in Nat
    BY <1>1
  <2>2. [o \in Nat |-> (o * 10) % Width] \in [Nat -> Nat]
    BY <2>1
  <2> QED BY <2>2
<1>3. PICK g : IsLoop(g, n, 1, F)
  <2> HIDE DEF F, n
  <2> QED BY <1>1, <1>2, LoopExists
<1> DEFINE Body(f, k) == IF k = 0 THEN 1 ELSE (f[k - 1] * 10) % Width
<1>4. g = [k \in 0 .. n |-> Body(g, k)]
  <2>1. ASSUME NEW k \in 0 .. n PROVE g[k] = Body(g, k)
    <3>1. CASE k = 0
      BY <1>3, <3>1 DEF IsLoop
    <3>2. CASE k # 0
      <4>1. k \in 1 .. n /\ k - 1 \in 0 .. n /\ g[k - 1] \in Nat
        BY <1>1, <1>3, <3>2 DEF IsLoop
      <4>2. F[k][g[k - 1]] = (g[k - 1] * 10) % Width
        BY <4>1
      <4> QED BY <1>3, <3>2, <4>1, <4>2 DEF IsLoop
    <3> QED BY <3>1, <3>2
  <2> QED BY <1>3, <2>1 DEF IsLoop
<1>5. Power = CHOOSE f : f = [k \in 0 .. n |-> Body(f, k)]
  BY DEF Power
<1>6. Power = [k \in 0 .. n |-> Body(Power, k)]
  <2> HIDE DEF Body, n
  <2> QED BY <1>4, <1>5
<1>7. Power[0] = 1 /\ \A k \in 1 .. n : Power[k] = (Power[k - 1] * 10) % Width
  BY <1>1, <1>6
<1>8. ASSUME NEW k \in 0 .. n PROVE Power[k] \in Nat
  <2> DEFINE T == {i \in 0 .. n : Power[i] \in Nat}
  <2>1. 0 \in T
    BY <1>1, <1>7
  <2>2. \A i \in 0 .. n - 1 : i \in T => i + 1 \in T
    <3>1. SUFFICES ASSUME NEW i \in 0 .. n - 1, i \in T PROVE Power[i + 1] \in Nat
      BY <1>1
    <3>2. i + 1 \in 1 .. n /\ (i + 1) - 1 = i /\ Power[i] \in Nat
      BY <1>1, <3>1
    <3>3. Power[i + 1] = (Power[i] * 10) % Width
      BY <1>7, <3>2
    <3> QED BY <1>1, <3>2, <3>3
  <2>3. 0 .. n \subseteq T
    <3> HIDE DEF T, n
    <3> QED BY <1>1, <2>1, <2>2, ZeroInduction
  <2> QED BY <2>3
<1>9. Power \in [0 .. n -> Nat]
  BY <1>6, <1>8
<1> QED BY <1>7, <1>9

\* The powers of ten
Tens == {x \in Nat : \A T \in SUBSET Nat : 1 \in T /\ (\A y \in T : 10 * y \in T) => x \in T}

\* They are 1 and ten times a power of ten.
LEMMA TensIs ==
  /\ Tens \subseteq Nat \ {0} /\ 1 \in Tens
  /\ \A x \in Tens : 10 * x \in Tens
  /\ \A x \in Tens : x = 1 \/ \E y \in Tens : x = 10 * y
<1>1. Tens \subseteq Nat /\ 1 \in Tens
  BY DEF Tens
<1>2. ASSUME NEW x \in Tens PROVE 10 * x \in Tens
  <2>1. x \in Nat /\ 10 * x \in Nat
    BY <1>1
  <2>2. ASSUME NEW T \in SUBSET Nat, 1 \in T, \A y \in T : 10 * y \in T PROVE 10 * x \in T
    <3>1. x \in T
      BY <2>2 DEF Tens
    <3> QED BY <2>2, <3>1
  <2> QED BY <2>1, <2>2 DEF Tens
<1>3. ASSUME NEW x \in Tens PROVE x = 1 \/ \E y \in Tens : x = 10 * y
  <2> DEFINE T == {z \in Tens : z = 1 \/ \E y \in Tens : z = 10 * y}
  <2>1. T \in SUBSET Nat /\ 1 \in T
    BY <1>1
  <2>2. \A y \in T : 10 * y \in T
    BY <1>2
  <2>3. x \in T
    <3> HIDE DEF T
    <3> QED BY <1>3, <2>1, <2>2 DEF Tens
  <2> QED BY <2>3
<1>4. 0 \notin Tens
  <2> DEFINE T == Nat \ {0}
  <2>1. T \in SUBSET Nat /\ 1 \in T /\ \A y \in T : 10 * y \in T
    OBVIOUS
  <2>2. 0 \notin T
    OBVIOUS
  <2> HIDE DEF T
  <2> QED BY <2>1, <2>2 DEF Tens
<1> QED BY <1>1, <1>2, <1>3, <1>4

\* As long as order * 10 is a u32, order is a power of ten.
LEMMA PowerUp ==
  ASSUME NEW m \in 0 .. Rounds, \A j \in 0 .. m - 1 : Power[j] * 10 < Width
  PROVE  Power[m] \in Tens /\ Power[m] < Width /\ Power[m] > 9 * m
<1> DEFINE T == {i \in 0 .. m : Power[i] \in Tens /\ Power[i] < Width /\ Power[i] > 9 * i}
<1>1. Rounds \in Nat /\ Width \in Nat /\ Width > 10 /\ m \in Nat /\ m <= Rounds
  BY RoundsIs
<1>2. 0 \in T
  <2>1. Power[0] = 1 /\ 1 \in Tens
    BY PowerIs, TensIs
  <2> QED BY <1>1, <2>1
<1>3. ASSUME NEW i \in 0 .. m - 1, i \in T PROVE i + 1 \in T
  <2>1. i + 1 \in 1 .. Rounds /\ i + 1 \in 0 .. m /\ (i + 1) - 1 = i
    BY <1>1
  <2>2. Power[i] \in Tens /\ Power[i] \in Nat /\ Power[i] > 9 * i /\ Power[i] * 10 < Width
    BY <1>3, TensIs
  <2>3. Power[i + 1] = (Power[i] * 10) % Width
    BY <2>1, PowerIs
  <2>4. (Power[i] * 10) % Width = 10 * Power[i]
    <3> DEFINE p == Power[i]
    <3>1. p \in Nat /\ p * 10 < Width
      BY <2>2
    <3> HIDE DEF p
    <3>2. (p * 10) % Width = 10 * p
      BY <1>1, <3>1
    <3> QED BY <3>2 DEF p
  <2>5. 10 * Power[i] \in Tens
    BY <2>2, TensIs
  <2> QED BY <1>1, <2>1, <2>2, <2>3, <2>4, <2>5
<1>4. m \in T
  <2>1. m \in 0 .. m
    BY <1>1
  <2> HIDE DEF T
  <2> QED BY <1>1, <1>2, <1>3, <2>1, ZeroInduction
<1> QED BY <1>4

\* Some multiplication wraps around, and the powers before it do not.
LEMMA WrapsAtIs ==
  /\ WrapsAt \in 1 .. Rounds - 1 /\ Power[WrapsAt] * 10 >= Width
  /\ \A j \in 0 .. WrapsAt - 1 : Power[j] * 10 < Width /\ Power[j + 1] = 10 * Power[j]
<1> DEFINE Wraps(k) == Power[k] * 10 >= Width
           I == {k \in 0 .. Rounds - 1 : Wraps(k)}
<1>1. Rounds \in Nat /\ Rounds >= 1 /\ 9 * Rounds > Width /\ Width \in Nat /\ Width > 10
  BY RoundsIs
<1>2. \A k \in 0 .. Rounds : Power[k] \in Nat
  BY PowerIs
<1>3. I # {}
  <2>1. SUFFICES ASSUME \A j \in 0 .. Rounds - 1 : Power[j] * 10 < Width PROVE FALSE
    BY <1>1, <1>2
  <2>2. Rounds \in 0 .. Rounds
    BY <1>1
  <2>3. Power[Rounds] < Width /\ Power[Rounds] > 9 * Rounds
    BY <2>1, <2>2, PowerUp
  <2> QED BY <1>1, <1>2, <2>2, <2>3
<1>4. Min(I) \in I /\ \A y \in I : Min(I) <= y
  <2>1. I \subseteq Nat
    OBVIOUS
  <2> HIDE DEF I
  <2> QED BY <1>3, <2>1, LeastExists
<1>5. ASSUME NEW j \in 0 .. Min(I) - 1 PROVE Power[j] * 10 < Width
  <2>1. Min(I) \in 0 .. Rounds - 1
    BY <1>4
  <2> DEFINE x == Min(I)
  <2>2. x \in 0 .. Rounds - 1 /\ j \in 0 .. x - 1
    BY <1>5, <2>1
  <2>3. j \in I => x <= j
    BY <1>4
  <2> HIDE DEF x
  <2>4. j \in 0 .. Rounds - 1 /\ j < x /\ x \in Nat /\ j \in Nat
    BY <1>1, <2>2
  <2>5. Power[j] \in Nat
    BY <1>1, <1>2, <2>4
  <2>6. ~Wraps(j)
    BY <2>3, <2>4
  <2> QED BY <1>1, <2>5, <2>6
<1>6. \E k \in 0 .. Rounds - 1 : Power[k] * 10 >= Width /\ \A j \in 0 .. k - 1 : Power[j] * 10 < Width
  <2>1. Min(I) \in 0 .. Rounds - 1 /\ Power[Min(I)] * 10 >= Width
    BY <1>4
  <2> HIDE DEF I
  <2> QED BY <1>5, <2>1
<1>7. /\ WrapsAt \in 0 .. Rounds - 1 /\ Power[WrapsAt] * 10 >= Width
      /\ \A j \in 0 .. WrapsAt - 1 : Power[j] * 10 < Width
  <2> HIDE DEF I
  <2> QED BY <1>6 DEF WrapsAt
<1>8. WrapsAt # 0
  <2>1. Power[0] = 1
    BY PowerIs
  <2> QED BY <1>1, <1>7, <2>1
<1>9. ASSUME NEW j \in 0 .. WrapsAt - 1 PROVE Power[j + 1] = 10 * Power[j]
  <2> DEFINE p == Power[j]
  <2>1. j + 1 \in 1 .. Rounds /\ (j + 1) - 1 = j /\ j \in 0 .. Rounds
    BY <1>1, <1>7
  <2>2. p \in Nat /\ p * 10 < Width /\ Power[j + 1] = (p * 10) % Width
    BY <1>2, <1>7, <2>1, PowerIs
  <2> HIDE DEF p
  <2>3. Power[j + 1] = 10 * p
    BY <1>1, <2>2
  <2> QED BY <2>3 DEF p
<1> QED BY <1>1, <1>7, <1>8, <1>9

\* What a user id that the powers are made for fulfils.
LEMMA UidIs ==
  ASSUME NoWrap, NEW uid \in Uids
  PROVE  uid \in Nat /\ uid < Width /\ (uid < Power[WrapsAt] \/ uid < Power[WrapsAt + 1])
  BY HandshakeAssumption DEF NoWrap

\* The first loop ends with a power of ten that uid has at most the digits of.
LEMMA OrderIs ==
  ASSUME NoWrap, NEW uid \in Uids
  PROVE  Order(uid) \in Tens /\ Order(uid) < Width /\ uid < 10 * Order(uid)
<1> DEFINE w == WrapsAt
           Breaks(k) == uid \div Power[k + 1] = 0
           I == {k \in 0 .. Rounds - 1 : Breaks(k)}
           K == CHOOSE k \in 0 .. Rounds - 1 : Breaks(k) /\ \A j \in 0 .. k - 1 : ~Breaks(j)
<1>1. /\ uid \in Nat /\ uid < Width /\ (uid < Power[w] \/ uid < Power[w + 1])
      /\ Rounds \in Nat /\ Width \in Nat /\ w \in 1 .. Rounds - 1 /\ Power[w] * 10 >= Width
  BY UidIs, RoundsIs, WrapsAtIs
<1>2. \A j \in 0 .. w - 1 : Power[j] * 10 < Width /\ Power[j + 1] = 10 * Power[j]
  BY WrapsAtIs
<1> HIDE DEF w
<1>3. \A k \in 0 .. Rounds : Power[k] \in Nat
  BY PowerIs
<1>4. ASSUME NEW k \in 0 .. w PROVE Power[k] \in Tens /\ Power[k] < Width
  <2>1. k \in 0 .. Rounds /\ \A j \in 0 .. k - 1 : j \in 0 .. w - 1
    BY <1>1
  <2>2. \A j \in 0 .. k - 1 : Power[j] * 10 < Width
    BY <1>2, <2>1
  <2> QED BY <2>1, <2>2, PowerUp
<1>5. \E k \in I : k <= w
  <2>1. CASE uid < Power[w + 1]
    <3>1. w + 1 \in 0 .. Rounds /\ w \in 0 .. Rounds - 1
      BY <1>1
    <3>2. Power[w + 1] \in Nat /\ Power[w + 1] > 0
      BY <1>1, <1>3, <2>1, <3>1
    <3>3. Breaks(w)
      BY <1>1, <2>1, <3>2, DivIs
    <3> QED BY <1>1, <3>1, <3>3
  <2>2. CASE uid < Power[w]
    <3>1. w - 1 \in 0 .. Rounds - 1 /\ (w - 1) + 1 = w /\ w \in 0 .. Rounds /\ w - 1 <= w
      BY <1>1
    <3>2. Power[w] \in Nat /\ Power[w] > 0
      BY <1>1, <1>3, <2>2, <3>1
    <3>3. Breaks(w - 1)
      BY <1>1, <2>2, <3>1, <3>2, DivIs
    <3> QED BY <3>1, <3>3
  <2> QED BY <1>1, <2>1, <2>2
<1>6. Min(I) \in I /\ \A y \in I : Min(I) <= y
  <2>1. I \subseteq Nat /\ I # {}
    BY <1>5
  <2> HIDE DEF I
  <2> QED BY <2>1, LeastExists
<1>7. K \in 0 .. Rounds - 1 /\ Breaks(K) /\ \A j \in 0 .. K - 1 : ~Breaks(j)
  <2> DEFINE x == Min(I)
  <2>1. x \in 0 .. Rounds - 1 /\ Breaks(x) /\ \A y \in I : x <= y
    BY <1>6
  <2> HIDE DEF x
  <2>2. ASSUME NEW j \in 0 .. x - 1 PROVE ~Breaks(j)
    <3>1. j \in 0 .. Rounds - 1 /\ ~(x <= j)
      BY <1>1, <2>1
    <3> QED BY <2>1, <3>1
  <2> HIDE DEF Breaks
  <2> QED BY <2>1, <2>2
<1>8. Order(uid) = Power[K]
  BY DEF Order
<1>9. K \in 0 .. w
  <2>1. PICK k \in I : k <= w
    BY <1>5
  <2>2. k \in 0 .. Rounds - 1 /\ Breaks(k)
    BY <2>1
  <2> HIDE DEF K, I, Breaks
  <2>3. ~(k < K)
    <3>1. k < K => k \in 0 .. K - 1
      BY <1>1, <1>7, <2>2
    <3> QED BY <1>7, <2>2, <3>1
  <2> QED BY <1>1, <1>7, <2>1, <2>2, <2>3
<1>10. Power[K] \in Tens /\ Power[K] < Width /\ Power[K] \in Nat
  <2> HIDE DEF K
  <2> QED BY <1>4, <1>9, TensIs
<1>11. uid < 10 * Power[K]
  <2>1. CASE K = w
    <3> HIDE DEF K
    <3> QED BY <1>1, <1>10, <2>1
  <2>2. CASE K # w
    <3>1. uid \div Power[K + 1] = 0
      BY <1>7
    <3> HIDE DEF K
    <3>2. K \in 0 .. w - 1
      BY <1>1, <1>9, <2>2
    <3>3. Power[K + 1] = 10 * Power[K]
      BY <1>2, <3>2
    <3>4. Power[K + 1] \in Nat /\ Power[K + 1] > 0
      BY <1>10, <3>3, TensIs
    <3> QED BY <1>1, <3>1, <3>3, <3>4, DivIs
  <2> QED BY <2>1, <2>2
<1> QED BY <1>8, <1>10, <1>11

\* order /= 10, round after round
LEMMA OrderAtIs ==
  ASSUME NEW uid, Order(uid) \in Nat
  PROVE  /\ OrderAt(uid) \in [0 .. Rounds -> Nat] /\ OrderAt(uid)[0] = Order(uid)
         /\ \A k \in 1 .. Rounds : OrderAt(uid)[k] = OrderAt(uid)[k - 1] \div 10
<1> DEFINE n == Rounds
           a == Order(uid)
           F == [k \in 1 .. n |-> [o \in Nat |-> o \div 10]]
           Body(f, k) == IF k = 0 THEN a ELSE f[k - 1] \div 10
           h == OrderAt(uid)
<1>1. n \in Nat /\ a \in Nat
  BY RoundsIs
<1>2. F \in [1 .. n -> [Nat -> Nat]]
  OBVIOUS
<1>3. PICK g : IsLoop(g, n, a, F)
  <2> HIDE DEF F, n, a
  <2> QED BY <1>1, <1>2, LoopExists
<1>4. g = [k \in 0 .. n |-> Body(g, k)]
  <2>1. ASSUME NEW k \in 0 .. n PROVE g[k] = Body(g, k)
    <3>1. CASE k = 0
      BY <1>3, <3>1 DEF IsLoop
    <3>2. CASE k # 0
      <4>1. k \in 1 .. n /\ k - 1 \in 0 .. n /\ g[k - 1] \in Nat
        BY <1>1, <1>3, <3>2 DEF IsLoop
      <4>2. F[k][g[k - 1]] = g[k - 1] \div 10
        BY <4>1
      <4> QED BY <1>3, <3>2, <4>1, <4>2 DEF IsLoop
    <3> QED BY <3>1, <3>2
  <2> QED BY <1>3, <2>1 DEF IsLoop
<1>5. h = CHOOSE f : f = [k \in 0 .. n |-> Body(f, k)]
  BY DEF OrderAt
<1>6. h = [k \in 0 .. n |-> Body(h, k)]
  <2> HIDE DEF Body, n, h
  <2> QED BY <1>4, <1>5
<1> HIDE DEF h
<1>7. h[0] = a /\ \A k \in 1 .. n : h[k] = h[k - 1] \div 10
  BY <1>1, <1>6
<1>8. ASSUME NEW k \in 0 .. n PROVE h[k] \in Nat
  <2> DEFINE T == {i \in 0 .. n : h[i] \in Nat}
  <2>1. 0 \in T
    BY <1>1, <1>7
  <2>2. \A i \in 0 .. n - 1 : i \in T => i + 1 \in T
    <3>1. SUFFICES ASSUME NEW i \in 0 .. n - 1, i \in T PROVE h[i + 1] \in Nat
      BY <1>1
    <3>2. i + 1 \in 1 .. n /\ (i + 1) - 1 = i /\ h[i] \in Nat
      BY <1>1, <3>1
    <3>3. h[i + 1] = h[i] \div 10
      BY <1>7, <3>2
    <3> QED BY <3>2, <3>3
  <2>3. 0 .. n \subseteq T
    <3> HIDE DEF T, n
    <3> QED BY <1>1, <2>1, <2>2, ZeroInduction
  <2> QED BY <2>3
<1>9. h \in [0 .. n -> Nat]
  BY <1>6, <1>8
<1> QED BY <1>7, <1>9 DEF h

\* The second loop runs through the powers of ten from Order(uid) down to 1.
LEMMA LastRoundIs ==
  ASSUME NoWrap, NEW uid \in Uids
  PROVE  LET n == LastRound(uid)  order == OrderAt(uid) IN
         /\ n \in 1 .. Rounds /\ order[n - 1] = 1
         /\ \A k \in 0 .. n - 1 : order[k] \in Tens
         /\ \A k \in 1 .. n - 1 : order[k - 1] = 10 * order[k]
<1> DEFINE order == OrderAt(uid)
           n == LastRound(uid)
           T == {i \in 0 .. Rounds : order[i] = 0 \/ (order[i] \in Tens /\ order[i] + 9 * i <= Width)}
           I == {k \in 0 .. Rounds : order[k] = 0}
<1>1. Order(uid) \in Tens /\ Order(uid) < Width /\ Order(uid) \in Nat
  BY OrderIs, TensIs
<1>2. Rounds \in Nat /\ Width \in Nat /\ 9 * Rounds > Width
  BY RoundsIs
<1>3. /\ order[0] = Order(uid) /\ \A k \in 1 .. Rounds : order[k] = order[k - 1] \div 10
      /\ \A k \in 0 .. Rounds : order[k] \in Nat
  BY <1>1, OrderAtIs
<1>4. n = CHOOSE m \in 0 .. Rounds : order[m] = 0 /\ \A j \in 0 .. m - 1 : order[j] # 0
  BY DEF LastRound
<1> HIDE DEF order, n
<1>5. \A y \in Tens : y \in Nat /\ y >= 1 /\ (10 * y) \div 10 = y /\ (y = 1 => y \div 10 = 0)
  BY TensIs
<1>6. 0 .. Rounds \subseteq T
  <2>1. 0 \in T
    BY <1>1, <1>2, <1>3
  <2>2. ASSUME NEW i \in 0 .. Rounds - 1, i \in T PROVE i + 1 \in T
    <3>1. i + 1 \in 1 .. Rounds /\ i + 1 \in 0 .. Rounds /\ (i + 1) - 1 = i /\ i \in Nat
      BY <1>2
    <3>2. order[i + 1] = order[i] \div 10
      BY <1>3, <3>1
    <3>3. CASE order[i] = 0
      <4>1. order[i + 1] = 0
        BY <3>2, <3>3
      <4> QED BY <3>1, <4>1
    <3>4. CASE order[i] = 1
      <4>1. order[i + 1] = 0
        BY <3>2, <3>4
      <4> QED BY <3>1, <4>1
    <3>5. CASE order[i] # 0 /\ order[i] # 1
      <4>1. order[i] \in Tens /\ order[i] + 9 * i <= Width
        BY <2>2, <3>5
      <4>2. PICK y \in Tens : order[i] = 10 * y
        BY <3>5, <4>1, TensIs
      <4>3. order[i + 1] = y /\ y \in Nat /\ y >= 1
        BY <1>5, <3>2, <4>2
      <4>4. y + 9 * (i + 1) <= Width
        BY <1>2, <3>1, <4>1, <4>2, <4>3
      <4> QED BY <3>1, <4>2, <4>3, <4>4
    <3> QED BY <3>3, <3>4, <3>5
  <2> HIDE DEF T
  <2> QED BY <1>2, <2>1, <2>2, ZeroInduction
<1>7. order[Rounds] = 0
  <2>1. Rounds \in T /\ order[Rounds] \in Nat
    BY <1>2, <1>3, <1>6
  <2> QED BY <1>2, <2>1
<1>8. Min(I) \in I /\ \A y \in I : Min(I) <= y
  <2>1. Rounds \in I /\ I \subseteq Nat
    BY <1>2, <1>7
  <2> HIDE DEF I
  <2> QED BY <2>1, LeastExists
<1>9. n \in 0 .. Rounds /\ order[n] = 0 /\ \A j \in 0 .. n - 1 : order[j] # 0
  <2> DEFINE x == Min(I)
  <2>1. x \in 0 .. Rounds /\ order[x] = 0 /\ \A y \in I : x <= y
    BY <1>8
  <2> HIDE DEF x
  <2>2. ASSUME NEW j \in 0 .. x - 1 PROVE order[j] # 0
    <3>1. j \in 0 .. Rounds /\ ~(x <= j)
      BY <1>2, <2>1
    <3> QED BY <2>1, <3>1
  <2> HIDE DEF I
  <2> QED BY <1>4, <2>1, <2>2
<1>10. n # 0
  BY <1>1, <1>3, <1>5, <1>9
<1>11. ASSUME NEW k \in 0 .. n - 1 PROVE order[k] \in Tens
  <2>1. k \in 0 .. Rounds /\ order[k] # 0
    BY <1>2, <1>9
  <2> QED BY <1>6, <2>1
<1>12. ASSUME NEW k \in 1 .. n PROVE IF k = n THEN order[k - 1] = 1 ELSE order[k - 1] = 10 * order[k]
  <2>1. k \in 1 .. Rounds /\ k - 1 \in 0 .. n - 1
    BY <1>2, <1>9
  <2>2. order[k] = order[k - 1] \div 10 /\ order[k - 1] \in Tens
    BY <1>3, <1>11, <2>1
  <2>3. CASE order[k - 1] = 1
    <3>1. order[k] = 0
      BY <1>5, <2>2, <2>3
    <3>2. k = n
      <4>1. k # n => k \in 0 .. n - 1
        BY <1>9, <2>1
      <4> QED BY <1>9, <3>1, <4>1
    <3> QED BY <2>3, <3>2
  <2>4. CASE order[k - 1] # 1
    <3>1. PICK y \in Tens : order[k - 1] = 10 * y
      BY <2>2, <2>4, TensIs
    <3>2. order[k] = y /\ order[k] # 0
      BY <1>5, <2>2, <3>1
    <3>3. k # n
      BY <1>9, <3>2
    <3> QED BY <3>1, <3>2, <3>3
  <2> QED BY <2>3, <2>4
<1>13. n \in 1 .. n /\ n \in 1 .. Rounds /\ \A k \in 1 .. n - 1 : k \in 1 .. n /\ k # n
  BY <1>2, <1>9, <1>10
<1>14. order[n - 1] = 1 /\ \A k \in 1 .. n - 1 : order[k - 1] = 10 * order[k]
  BY <1>12, <1>13
<1> QED BY <1>11, <1>13, <1>14 DEF order, n

\* pid -= digit * order, round after round
LEMMA PidAtIs ==
  ASSUME NoWrap, NEW uid \in Uids
  PROVE  LET n == LastRound(uid)  order == OrderAt(uid)  pid == PidAt(uid) IN
         /\ pid \in [0 .. n -> Nat] /\ pid[0] = uid
         /\ \A k \in 1 .. n : pid[k] = pid[k - 1] - (pid[k - 1] \div order[k - 1]) * order[k - 1]
<1> DEFINE order == OrderAt(uid)
           n == LastRound(uid)
           h == PidAt(uid)
           Less(p, o) == p - (p \div o) * o
           F == [k \in 1 .. n |-> [p \in Nat |-> Less(p, order[k - 1])]]
           Body(f, k) == IF k = 0 THEN uid ELSE Less(f[k - 1], order[k - 1])
<1>1. n \in Nat /\ uid \in Nat /\ \A k \in 0 .. n - 1 : order[k] \in Tens
  BY LastRoundIs, UidIs, RoundsIs
<1>2. h = CHOOSE f : f = [k \in 0 .. n |-> Body(f, k)]
  BY DEF PidAt
<1> HIDE DEF order, n, h
<1>3. \A p \in Nat : \A o \in Tens : Less(p, o) \in Nat
  <2>1. SUFFICES ASSUME NEW p \in Nat, NEW o \in Tens PROVE p - (p \div o) * o \in Nat
    OBVIOUS
  <2>2. o \in Nat /\ o > 0
    BY TensIs
  <2>3. p - (p \div o) * o \in 0 .. o - 1
    BY <2>2, DivIs
  <2> QED BY <2>2, <2>3
<1> HIDE DEF Less
<1>4. F \in [1 .. n -> [Nat -> Nat]]
  <2>1. ASSUME NEW k \in 1 .. n PROVE [p \in Nat |-> Less(p, order[k - 1])] \in [Nat -> Nat]
    <3>1. k - 1 \in 0 .. n - 1
      BY <1>1
    <3>2. \A p \in Nat : Less(p, order[k - 1]) \in Nat
      BY <1>1, <1>3, <3>1
    <3> QED BY <3>2
  <2> QED BY <2>1
<1>5. PICK g : IsLoop(g, n, uid, F)
  <2> HIDE DEF F
  <2> QED BY <1>1, <1>4, LoopExists
<1>6. g = [k \in 0 .. n |-> Body(g, k)]
  <2>1. ASSUME NEW k \in 0 .. n PROVE g[k] = Body(g, k)
    <3>1. CASE k = 0
      BY <1>5, <3>1 DEF IsLoop
    <3>2. CASE k # 0
      <4>1. k \in 1 .. n /\ k - 1 \in 0 .. n /\ g[k - 1] \in Nat
        BY <1>1, <1>5, <3>2 DEF IsLoop
      <4>2. F[k][g[k - 1]] = Less(g[k - 1], order[k - 1])
        BY <4>1
      <4> QED BY <1>5, <3>2, <4>1, <4>2 DEF IsLoop
    <3> QED BY <3>1, <3>2
  <2> QED BY <1>5, <2>1 DEF IsLoop
<1>7. h = [k \in 0 .. n |-> Body(h, k)]
  <2> HIDE DEF Body
  <2> QED BY <1>2, <1>6
<1>8. h[0] = uid /\ \A k \in 1 .. n : h[k] = Less(h[k - 1], order[k - 1])
  BY <1>1, <1>7
<1>9. ASSUME NEW k \in 0 .. n PROVE h[k] \in Nat
  <2> DEFINE T == {i \in 0 .. n : h[i] \in Nat}
  <2>1. 0 \in T
    BY <1>1, <1>8
  <2>2. \A i \in 0 .. n - 1 : i \in T => i + 1 \in T
    <3>1. SUFFICES ASSUME NEW i \in 0 .. n - 1, i \in T PROVE h[i + 1] \in Nat
      BY <1>1
    <3>2. i + 1 \in 1 .. n /\ (i + 1) - 1 = i /\ h[i] \in Nat /\ order[i] \in Tens
      BY <1>1, <3>1
    <3>3. h[i + 1] = Less(h[i], order[i])
      BY <1>8, <3>2
    <3> QED BY <1>3, <3>2, <3>3
  <2>3. 0 .. n \subseteq T
    <3> HIDE DEF T
    <3> QED BY <1>1, <2>1, <2>2, ZeroInduction
  <2> QED BY <2>3
<1>10. h \in [0 .. n -> Nat]
  BY <1>7, <1>9
<1> QED BY <1>8, <1>10 DEF h, order, n, Less

\* The bus reads the digits from the left.
LEMMA NumberIs ==
  ASSUME NEW ds \in Seq(0 .. 9)
  PROVE  \E f \in [0 .. Len(ds) -> Nat] :
           /\ f[0] = 0 /\ \A i \in 1 .. Len(ds) : f[i] = 10 * f[i - 1] + ds[i]
           /\ Number(ds) = f[Len(ds)]
<1> DEFINE n == Len(ds)
           zero == 0
           F == [k \in 1 .. n |-> [m \in Nat |-> 10 * m + ds[k]]]
           Body(f, k) == IF k = 0 THEN 0 ELSE 10 * f[k - 1] + ds[k]
           h == CHOOSE f : f = [k \in 0 .. n |-> Body(f, k)]
<1>1. n \in Nat /\ \A k \in 1 .. n : ds[k] \in Nat /\ ds[k] < 10
  OBVIOUS
<1>2. Number(ds) = h[n]
  BY <1>1 DEF Number
<1> HIDE DEF n
<1>3. F \in [1 .. n -> [Nat -> Nat]]
  <2>1. ASSUME NEW k \in 1 .. n PROVE [m \in Nat |-> 10 * m + ds[k]] \in [Nat -> Nat]
    BY <1>1
  <2> QED BY <2>1
<1>4. PICK g : IsLoop(g, n, zero, F)
  <2>1. zero \in Nat
    OBVIOUS
  <2> HIDE DEF F, zero
  <2> QED BY <1>1, <1>3, <2>1, LoopExists
<1>5. g = [k \in 0 .. n |-> Body(g, k)]
  <2>1. ASSUME NEW k \in 0 .. n PROVE g[k] = Body(g, k)
    <3>1. CASE k = 0
      BY <1>4, <3>1 DEF IsLoop
    <3>2. CASE k # 0
      <4>1. k \in 1 .. n /\ k - 1 \in 0 .. n /\ g[k - 1] \in Nat
        BY <1>1, <1>4, <3>2 DEF IsLoop
      <4>2. F[k][g[k - 1]] = 10 * g[k - 1] + ds[k]
        BY <4>1
      <4> QED BY <1>4, <3>2, <4>1, <4>2 DEF IsLoop
    <3> QED BY <3>1, <3>2
  <2> QED BY <1>4, <2>1 DEF IsLoop
<1>6. h = [k \in 0 .. n |-> Body(h, k)]
  <2> HIDE DEF Body
  <2> QED BY <1>5
<1> HIDE DEF h
<1>7. h[0] = 0 /\ \A k \in 1 .. n : h[k] = 10 * h[k - 1] + ds[k]
  BY <1>1, <1>6
<1>8. ASSUME NEW k \in 0 .. n PROVE h[k] \in Nat
  <2> DEFINE T == {i \in 0 .. n : h[i] \in Nat}
  <2>1. 0 \in T
    BY <1>1, <1>7
  <2>2. \A i \in 0 .. n - 1 : i \in T => i + 1 \in T
    <3>1. SUFFICES ASSUME NEW i \in 0 .. n - 1, i \in T PROVE h[i + 1] \in Nat
      BY <1>1
    <3>2. i + 1 \in 1 .. n /\ (i + 1) - 1 = i /\ h[i] \in Nat
      BY <1>1, <3>1
    <3>3. h[i + 1] = 10 * h[i] + ds[i + 1] /\ ds[i + 1] \in Nat
      BY <1>1, <1>7, <3>2
    <3> QED BY <3>2, <3>3
  <2>3. 0 .. n \subseteq T
    <3> HIDE DEF T
    <3> QED BY <1>1, <2>1, <2>2, ZeroInduction
  <2> QED BY <2>3
<1>9. h \in [0 .. n -> Nat]
  BY <1>6, <1>8
<1> QED BY <1>2, <1>7, <1>9 DEF n

\* A round moves a digit from pid to the number: N is what was read of it.
LEMMA RoundIs ==
  ASSUME NEW N \in Nat, NEW p \in Nat, NEW q \in Nat, NEW d \in Nat
  PROVE  (10 * N + d) * (10 * q) + (p - d * (10 * q)) = N * (10 * (10 * q)) + p
<1> DEFINE x == N * q
           y == d * q
<1>1. x \in Int /\ y \in Int
  OBVIOUS
<1>2. d * (10 * q) = 10 * y /\ N * (10 * (10 * q)) = 100 * x
  OBVIOUS
<1>3. (10 * N + d) * (10 * q) = 100 * x + 10 * y
  OBVIOUS
<1> HIDE DEF x, y
<1> QED BY <1>1, <1>2, <1>3

\* The digits that do_external_auth writes are those of the user id.
LEMMA DigitsRight ==
  ASSUME NoWrap, NEW uid \in Uids
  PROVE  Number(Digits(uid)) = uid
<1> DEFINE order == OrderAt(uid)
           n == LastRound(uid)
           pid == PidAt(uid)
           ds == Digits(uid)
<1>1. /\ n \in Nat /\ n >= 1 /\ order[n - 1] = 1
      /\ \A k \in 0 .. n - 1 : order[k] \in Tens
      /\ \A k \in 1 .. n - 1 : order[k - 1] = 10 * order[k]
  BY LastRoundIs, RoundsIs
<1>2. /\ \A k \in 0 .. n : pid[k] \in Nat
      /\ pid[0] = uid
      /\ \A k \in 1 .. n : pid[k] = pid[k - 1] - (pid[k - 1] \div order[k - 1]) * order[k - 1]
  BY PidAtIs
<1>3. uid \in Nat /\ uid < 10 * order[0]
  <2>1. Order(uid) \in Nat /\ uid < 10 * Order(uid) /\ uid \in Nat
    BY OrderIs, UidIs, TensIs
  <2> QED BY <2>1, OrderAtIs
<1>4. ds = [k \in 1 .. n |-> pid[k - 1] \div order[k - 1]]
  BY DEF Digits
<1> HIDE DEF order, n, pid, ds
<1>5. ASSUME NEW k \in 0 .. n - 1 PROVE order[k] \in Nat /\ order[k] > 0
  <2>1. \A o \in Tens : o \in Nat /\ o > 0
    BY TensIs
  <2>2. order[k] \in Tens
    BY <1>1
  <2> QED BY <2>1, <2>2
<1>6. ASSUME NEW k \in 0 .. n - 1 PROVE pid[k] < 10 * order[k]
  <2>1. CASE k = 0
    BY <1>2, <1>3, <2>1
  <2>2. CASE k # 0
    <3> DEFINE p == pid[k - 1]
               o == order[k - 1]
    <3>1. k - 1 \in 0 .. n - 1 /\ k \in 1 .. n - 1 /\ k \in 1 .. n /\ k - 1 \in 0 .. n
      BY <1>1, <2>2
    <3>2. p \in Nat /\ o \in Nat /\ o > 0 /\ o = 10 * order[k] /\ pid[k] = p - (p \div o) * o
      BY <1>1, <1>2, <1>5, <3>1
    <3> HIDE DEF p, o
    <3>3. p - (p \div o) * o \in 0 .. o - 1
      BY <3>2, DivIs
    <3> QED BY <3>2, <3>3
  <2> QED BY <2>1, <2>2
<1>7. ASSUME NEW k \in 1 .. n PROVE pid[k - 1] \div order[k - 1] \in 0 .. 9
  <2> DEFINE p == pid[k - 1]
             o == order[k - 1]
             d == p \div o
  <2>1. k - 1 \in 0 .. n - 1 /\ k - 1 \in 0 .. n
    BY <1>1
  <2>2. p \in Nat /\ o \in Nat /\ o > 0 /\ p < 10 * o
    BY <1>2, <1>5, <1>6, <2>1
  <2> HIDE DEF p, o
  <2>3. d \in Nat /\ p % o \in Nat /\ p = o * d + (p % o)
    BY <2>2, DivIs
  <2> HIDE DEF d
  <2>4. ASSUME d >= 10 PROVE FALSE
    <3>1. o * d >= o * 10
      BY <2>2, <2>3, <2>4
    <3> QED BY <2>2, <2>3, <3>1
  <2>5. d \in 0 .. 9
    BY <2>3, <2>4
  <2> QED BY <2>5 DEF d, p, o
<1>8. ds \in Seq(0 .. 9) /\ Len(ds) = n
  BY <1>1, <1>4, <1>7, FunctionSeq
<1>9. PICK f \in [0 .. n -> Nat] :
        /\ f[0] = 0 /\ \A i \in 1 .. n : f[i] = 10 * f[i - 1] + ds[i]
        /\ Number(ds) = f[n]
  BY <1>8, NumberIs
<1> DEFINE T == {k \in 0 .. n - 1 : f[k] * (10 * order[k]) + pid[k] = uid}
<1>10. 0 \in T
  <2>1. 0 \in 0 .. n - 1 /\ order[0] \in Nat
    BY <1>1, <1>5
  <2>2. 0 * (10 * order[0]) = 0
    BY <2>1
  <2> QED BY <1>2, <1>3, <1>9, <2>1, <2>2
<1>11. ASSUME NEW k \in 0 .. (n - 1) - 1, k \in T PROVE k + 1 \in T
  <2> DEFINE N == f[k]
             p == pid[k]
             o == order[k]
             q == order[k + 1]
             d == p \div o
  <2>1. /\ k \in 0 .. n - 1 /\ k + 1 \in 0 .. n - 1 /\ k + 1 \in 1 .. n - 1 /\ k + 1 \in 1 .. n
        /\ (k + 1) - 1 = k /\ k \in 0 .. n
    BY <1>1
  <2>2. N \in Nat /\ p \in Nat /\ o \in Nat /\ o > 0 /\ q \in Nat /\ o = 10 * q
    BY <1>1, <1>2, <1>5, <1>9, <2>1
  <2>3. pid[k + 1] = p - d * o /\ f[k + 1] = 10 * N + d
    BY <1>2, <1>4, <1>9, <2>1
  <2>4. N * (10 * o) + p = uid
    BY <1>11
  <2>5. d \in Nat
    <3> HIDE DEF p, o
    <3> QED BY <2>2, DivIs
  <2> HIDE DEF N, p, o, d
  <2>6. f[k + 1] * (10 * q) + pid[k + 1] = uid
    <3> HIDE DEF q
    <3>1. (10 * N + d) * (10 * q) + (p - d * (10 * q)) = N * (10 * (10 * q)) + p
      BY <2>2, <2>5, RoundIs
    <3> QED BY <2>2, <2>3, <2>4, <3>1
  <2> QED BY <2>1, <2>6 DEF q
<1>12. n - 1 \in T
  <2>1. n - 1 \in Nat /\ n - 1 \in 0 .. n - 1
    BY <1>1
  <2> DEFINE m == n - 1
  <2>2. m \in Nat /\ m \in 0 .. m /\ \A k \in 0 .. m - 1 : k \in T => k + 1 \in T
    BY <1>11, <2>1
  <2> HIDE DEF T, m
  <2>3. m \in T
    BY <1>10, <2>2, ZeroInduction
  <2> QED BY <2>3 DEF m
<1>13. f[n] = uid
  <2> DEFINE N == f[n - 1]
             p == pid[n - 1]
  <2>1. n \in 1 .. n /\ n - 1 \in 0 .. n
    BY <1>1
  <2>2. N \in Nat /\ p \in Nat /\ f[n] = 10 * N + (p \div 1)
    BY <1>1, <1>2, <1>4, <1>9, <2>1
  <2>3. N * (10 * 1) + p = uid
    BY <1>1, <1>12
  <2> HIDE DEF N, p
  <2>4. p \div 1 = p
    BY <2>2
  <2> QED BY <1>3, <2>2, <2>3, <2>4
<1> QED BY <1>9, <1>13 DEF ds

-----------------------------------------------------------------------------
(* The lines of the client                                                 *)

\* Ask writes a line that the client may write.
LEMMA AskWrites ==
  ASSUME LinesInv, NEW line \in Written, NEW next, Ask(line, next)
  PROVE  toBus' \in Seq(Written)
  BY DEF LinesInv, Ask

\* The client's steps write its lines, and no step changes who it runs as.
LEMMA ShakeKeepsLines ==
  ASSUME LinesInv, Next
  PROVE  toBus' \in Seq(Written) /\ euid' = euid /\ with_fd' = with_fd /\ (fdOn' => with_fd)
<1>1. toBus \in Seq(Written) /\ euid' = euid /\ with_fd' = with_fd /\ (fdOn => with_fd)
  BY DEF LinesInv, Next, Client, Start, Read, GotMechs, GotExternal, GotAnonymous, GotFds, IoError,
         BusAnswers, BusCloses, given
<1>2. /\ External \in Written /\ \A word \in Commands : Line(word) \in Written
      /\ {"AUTH", "AUTH ANONYMOUS", "BEGIN"} \subseteq Commands
  BY DEF Written, Commands
<1>3. ASSUME NEW result, Stop(result) PROVE toBus' \in Seq(Written)
  BY <1>1, <1>3 DEF Stop
<1>4. ASSUME NEW word \in Commands, NEW next, Ask(Line(word), next) PROVE toBus' \in Seq(Written)
  BY <1>2, <1>4, AskWrites
<1>5. ASSUME NEW ms, TryAnonymous(ms) PROVE toBus' \in Seq(Written)
  <2>1. Ask(Line("AUTH ANONYMOUS"), "anonymous") \/ Stop("err")
    BY <1>5 DEF TryAnonymous
  <2> QED BY <1>2, <1>3, <1>4, <2>1
<1>6. ASSUME Authed PROVE toBus' \in Seq(Written)
  <2>1. CASE with_fd
    <3>1. "NEGOTIATE_UNIX_FD" \in Commands /\ Ask(Line("NEGOTIATE_UNIX_FD"), "fds")
      BY <1>6, <2>1 DEF Authed, Commands
    <3> QED BY <1>4, <3>1
  <2>2. CASE ~with_fd
    <3>1. Ask(Line("BEGIN"), "ok")
      BY <1>6, <2>2 DEF Authed
    <3> QED BY <1>2, <1>4, <3>1
  <2> QED BY <2>1, <2>2
<1>7. CASE Start \/ Read \/ GotMechs \/ GotExternal \/ GotAnonymous \/ GotFds \/ IoError
  <2>1. fdOn' = fdOn
    BY <1>7 DEF Start, Read, GotMechs, GotExternal, GotAnonymous, GotFds, IoError, busVars
  <2>2. CASE Start
    <3>1. Ask(Line("AUTH"), "mechs")
      BY <2>2 DEF Start
    <3> QED BY <1>1, <1>2, <1>4, <2>1, <3>1
  <2>3. CASE Read
    BY <1>1, <2>1, <2>3 DEF Read
  <2>4. CASE GotMechs
    <3>1. Stop("err") \/ Ask(External, "external") \/ TryAnonymous(mechs')
      BY <2>4 DEF GotMechs
    <3> QED BY <1>1, <1>2, <1>3, <1>5, <2>1, <3>1, AskWrites
  <2>5. CASE GotExternal
    <3>1. Authed \/ TryAnonymous(mechs)
      BY <2>5 DEF GotExternal
    <3> QED BY <1>1, <1>5, <1>6, <2>1, <3>1
  <2>6. CASE GotAnonymous
    <3>1. Authed \/ Stop("err")
      BY <2>6 DEF GotAnonymous
    <3> QED BY <1>1, <1>3, <1>6, <2>1, <3>1
  <2>7. CASE GotFds
    <3>1. Ask(Line("BEGIN"), "ok") \/ Stop("err")
      BY <2>7 DEF GotFds
    <3> QED BY <1>1, <1>2, <1>3, <1>4, <2>1, <3>1
  <2>8. CASE IoError
    BY <1>1, <1>3, <2>1, <2>8 DEF IoError
  <2> QED BY <1>7, <2>2, <2>3, <2>4, <2>5, <2>6, <2>7, <2>8
<1>8. CASE BusAnswers
  <2>1. toBus # <<>> /\ toBus' = Tail(toBus)
    BY <1>8 DEF BusAnswers
  <2>2. Head(toBus) \in Written
    BY <1>1, <2>1
  <2>3. Head(toBus).word = "NEGOTIATE_UNIX_FD" => with_fd
    <3>1. SUFFICES ASSUME Head(toBus).word = "NEGOTIATE_UNIX_FD", ~with_fd PROVE FALSE
      OBVIOUS
    <3>2. Head(toBus) # External
      BY <3>1, ExternalWord, Zenon
    <3>3. PICK word \in Commands : Head(toBus) = Line(word)
      BY <2>2, <3>2 DEF Written
    <3>4. word = "NEGOTIATE_UNIX_FD"
      BY <3>1, <3>3, LineWord
    <3> QED BY <3>1, <3>3, <3>4 DEF Commands
  <2>4. fdOn' => fdOn \/ Head(toBus).word = "NEGOTIATE_UNIX_FD"
    BY <1>8, BusDoes DEF BusGoto
  <2> QED BY <1>1, <2>1, <2>3, <2>4
<1>9. CASE BusCloses
  BY <1>1, <1>9 DEF BusCloses, BusGoto
<1> QED BY <1>7, <1>8, <1>9 DEF Next, Client

\* So does every step of a constructor.
LEMMA ConnectKeepsLines == LinesInv /\ [ConnectNext]_allVars => LinesInv'
<1>1. SUFFICES ASSUME LinesInv, [ConnectNext]_allVars PROVE LinesInv'
  OBVIOUS
<1>2. toBus' \in Seq(Written) /\ euid' = euid /\ with_fd' = with_fd /\ (fdOn' => with_fd)
  <2>1. CASE UNCHANGED vars
    BY <1>1, <2>1 DEF LinesInv, vars, given, busVars
  <2>2. CASE Shake
    BY <1>1, <2>2, ShakeKeepsLines DEF Shake
  <2>3. CASE Bus
    <3>1. CASE BusAnswers \/ BusCloses
      BY <1>1, <3>1, ShakeKeepsLines DEF Next
    <3>2. CASE BusGoto("gone") /\ UNCHANGED <<pc, mechs, buf, given, toBus>>
      BY <1>1, <3>2 DEF LinesInv, given, BusGoto
    <3> QED BY <2>3, <3>1, <3>2 DEF Bus
  <2> QED BY <1>1, <2>1, <2>2, <2>3
       DEF ConnectNext, Constructor, FindAddr, ConnectStream, OpenAbstract, ConnectAbstract,
           ShakeFails, Duplicate, Setup, Hello, HelloIoError, Cancel, Drop, allVars
<1>3. Written' = Written
  BY <1>2 DEF Written, External, Commands
<1> QED BY <1>1, <1>2, <1>3 DEF LinesInv

\* They hold of every constructor.
LEMMA LinesInvariant == ConnectSpec => []LinesInv
<1>1. ConnectInit => LinesInv
  BY DEF ConnectInit, Init, LinesInv
<1> QED BY <1>1, ConnectKeepsLines, PTL DEF ConnectSpec

\* No constructor leaves a descriptor behind, and a connection has one, which
\* passes fds over a Unix socket only, even if a line was too long.
THEOREM AlwaysOneSocketOrNone == ConnectSpec => []OneSocketOrNone
<1>1. LinesInv /\ SocketInv => OneSocketOrNone
  <2>1. SUFFICES ASSUME LinesInv, SocketInv PROVE OneSocketOrNone
    OBVIOUS
  <2>2. fdOn => with_fd
    BY <2>1 DEF LinesInv
  <2>3. Cardinality({"dup"}) = 1
    BY FS_Singleton
  <2>4. stage = "ok" => Cardinality(open) = 1 /\ open = owned
    BY <2>1, <2>3 DEF SocketInv
  <2> QED BY <2>1, <2>2, <2>4 DEF OneSocketOrNone, SocketInv, Over
<1> QED BY <1>1, ConnectInvariant, LinesInvariant, PTL

\* The lines of the client name the user that it runs as.
LEMMA WrittenRight ==
  ASSUME NoWrap, euid \in Uids, NEW line \in Written, line.word = "AUTH EXTERNAL"
  PROVE  Number(line.uid) = euid
<1>1. line = External
  <2>1. ASSUME NEW word \in Commands, line = Line(word) PROVE FALSE
    BY <2>1, LineWord DEF Commands
  <2> QED BY <2>1 DEF Written
<1>2. External.uid = Digits(euid)
  BY DEF External
<1> QED BY <1>1, <1>2, DigitsRight

\* AUTH EXTERNAL names the user that the client runs as, for every user id
\* that the powers of ten of do_external_auth do not wrap around for.
THEOREM AlwaysRightUid == ASSUME NoWrap PROVE ConnectSpec => []RightUid
<1>1. LinesInv => RightUid
  <2>1. SUFFICES ASSUME LinesInv, NEW i \in 1 .. Len(toBus), toBus[i].word = "AUTH EXTERNAL"
                 PROVE  Number(toBus[i].uid) = euid
    BY DEF RightUid
  <2>2. toBus \in Seq(Written) /\ euid \in Uids
    BY <2>1 DEF LinesInv
  <2>3. toBus[i] \in Written
    BY <2>2, ElementOfSeq
  <2> QED BY <2>1, <2>2, <2>3, WrittenRight
<1> QED BY <1>1, LinesInvariant, PTL
============================================================================

----------------------------- MODULE ZoicSession -----------------------------
(***************************************************************************)
(* One connection of the network layer, Zoic::Session, with the owner that *)
(* drives it (SessionBank::run, SessionC::run: routine, and close when it  *)
(* fails) and the peer at the other end of the socket.  A byte is its      *)
(* message and its place in it, so that the first two bytes of a message   *)
(* stand for its length.  The units are small: NETWORK_BUF_SIZE is BufSize *)
(* and a message to send has a size of a few bytes.                        *)
(***************************************************************************)
EXTENDS Integers, Sequences, SequencesExt, FiniteSetsExt

CONSTANT Setups     \* how a program may configure a session, and the bounds

VARIABLES
    conf,       \* the configuration, one of Setups
    sess,       \* the members of the Session
    peer,       \* the other end of the socket
    log         \* auxiliary: what was asked and what became of it

sessionVars == <<conf, sess, peer, log>>

BufSize == conf.bufSize         \* NETWORK_BUF_SIZE, the size of the receive buffer
SendInit == conf.sendInit       \* m_init_send_buffer_size
SendMax == conf.sendMax         \* m_max_dynamic_sendbuf_size
Dynamic == conf.dynamic         \* m_sendbuf_dynamic
PingTimes == conf.pingTimes     \* m_syspingTimes: the silences after which it probes
Packet == conf.packets          \* what the peer may send: [len, kind]
OutSize == conf.outSizes        \* the sizes of the messages the program sends
MaxIn == conf.maxIn             \* bounds: the messages of the peer,
MaxOut == conf.maxOut           \* those of the program,
MaxConns == conf.maxConns       \* the connections of one session object
Stall == conf.stall             \* and the longest frame
MayFail == conf.mayFail         \* whether memory may run out when buffers are made

Kinds == {"plain", "ping", "refuse", "error"}

\* What a program may configure: initBuffer raises the first size of the send
\* buffer to NETWORK_BUF_SIZE, and the silences grow (init_s_syspingTimes).
Setup(c) ==
    /\ c.bufSize \in Nat /\ c.bufSize >= 2
    /\ c.sendInit \in Nat /\ c.sendInit >= c.bufSize
    /\ c.sendMax \in Nat /\ c.sendMax >= c.sendInit
    /\ c.dynamic \in BOOLEAN /\ c.mayFail \in BOOLEAN
    /\ c.pingTimes \in Seq(Nat) /\ c.pingTimes # <<>>
    /\ \A i \in DOMAIN c.pingTimes : c.pingTimes[i] <= c.pingTimes[Len(c.pingTimes)]
    /\ c.packets \subseteq [len : Nat, kind : Kinds] /\ c.outSizes \subseteq Nat
    /\ {c.maxIn, c.maxOut, c.maxConns, c.stall} \subseteq Nat

ASSUME SetupAssumption == \A c \in Setups : Setup(c)

Errors == {"none", "closed", "ping", "sendbuffer", "unpack", "parse", "recv", "send",
           "program"}
PingSize == 2               \* the size of a SYSPING message
MaxPing == Len(PingTimes)   \* getMaxPingCount
LastPing == PingTimes[MaxPing]

\* A session that was never opened.
NewConnection ==
    [open |-> FALSE, canRecv |-> TRUE, canSend |-> TRUE, sendBuf |-> <<>>,
     sendSize |-> 0, noSend |-> TRUE, recvBuf |-> <<>>, packetLen |-> 0,
     error |-> "none", pings |-> 0, quiet |-> 0]

\* In: the messages of the peer; line: its bytes not yet received.
NewPeer == [state |-> "away", in |-> <<>>, line |-> <<>>, wire |-> <<>>]
NewLog == [conns |-> 0, given |-> <<>>, out |-> <<>>, lost |-> FALSE]

SessionInit == conf \in Setups /\ sess = NewConnection /\ peer = NewPeer /\ log = NewLog

Bytes(m, n) == [j \in 1..n |-> <<m, j>>]
Drop(q, n) == SubSeq(q, n + 1, Len(q))

-----------------------------------------------------------------------------
\* setError keeps the first error of the connection.
setError(t, e) == IF t.error = "none" THEN [t EXCEPT !.error = e] ELSE t

\* increaseSendBuffer as often as n bytes take: the size doubles up to the maximum.
Doubled(size) == {k \in 0..SendMax : \E e \in 0..SendMax : k = size * 2^e}

\* (Slip: the last doubling goes past the maximum.)
Grown_NoMax(size, n) ==
    IF ~Dynamic \/ size >= n THEN size
    ELSE Min({k \in {size * 2, size * 4, size * 8} : k >= n \/ k >= SendMax})

Grown(size, n) ==
    IF ~Dynamic \/ size >= n THEN size
    ELSE Min({k \in Doubled(size) : k >= n} \cup {SendMax})

\* pushData of message m: the whole of it, or none of it and an error.
\* (Slips: nobody is told of a message that does not fit; its start is sent.)
Room(t, size) == Grown(t.sendSize, Len(t.sendBuf) + size)
Fits(t, size) == ~t.noSend /\ Len(t.sendBuf) + size <= Room(t, size)
Pushed(t, m, size) ==
    [t EXCEPT !.sendSize = Room(t, size), !.sendBuf = t.sendBuf \o Bytes(m, size)]
pushData_Quiet(t, m, size) == IF Fits(t, size) THEN Pushed(t, m, size) ELSE t
pushData_Part(t, m, size) ==
    CASE Fits(t, size) -> Pushed(t, m, size)
      [] ~Fits(t, size) /\ t.noSend -> t
      [] OTHER -> setError([t EXCEPT !.sendBuf = @ \o
                               Bytes(m, Room(t, size) - Len(t.sendBuf))], "sendbuffer")

pushData(t, m, size) ==
    CASE Fits(t, size) -> Pushed(t, m, size)
      [] ~Fits(t, size) /\ t.noSend -> t
      [] OTHER -> setError([t EXCEPT !.sendSize = Room(t, size)], "sendbuffer")

\* What becomes of the message is noted.
Asked(lg, t, size) ==
    IF Fits(t, size) THEN [lg EXCEPT !.out = Append(lg.out, size)] ELSE [lg EXCEPT !.lost = TRUE]

\* A step of routine: x.t is the session, x.log the log, x.wire what was sent,
\* and the rest is of the loop in uppack.
Sent(x, size) ==
    [x EXCEPT !.t = pushData(x.t, Len(x.log.out) + 1, size), !.log = Asked(x.log, x.t, size)]

-----------------------------------------------------------------------------
\* The length the two bytes at the start of a message spell.
LengthAt(q, i) ==
    IF q[i][2] = 1 /\ q[i + 1] = <<q[i][1], 2>> THEN peer.in[q[i][1]].len ELSE 0

\* parseMessage: the handler of the message.
Given(x, bytes) == [x EXCEPT !.log = [x.log EXCEPT !.given = Append(x.log.given, bytes)]]
Handled(x, bytes) ==
    LET y == Given(x, bytes)
        k == peer.in[bytes[1][1]].kind
    IN  CASE k = "ping"   -> Sent(y, PingSize)
          [] k = "error"  -> [y EXCEPT !.t = setError(y.t, "program")]
          [] OTHER        -> y
Refused(bytes) == peer.in[bytes[1][1]].kind = "refuse"

\* One turn of uppack's loop.  The length of the message under way is kept when
\* the rest of it has not come.
Failed(x, e) == [x EXCEPT !.t = setError(x.t, e), !.on = FALSE, !.keep = TRUE]
Length(x) ==
    IF x.t.packetLen # 0 THEN x.t.packetLen ELSE LengthAt(x.t.recvBuf, x.index + 1)
Turn(x) ==
    LET q == x.t.recvBuf
        l == Length(x)
        y == [x EXCEPT !.t = [x.t EXCEPT !.packetLen = l]]
        m == SubSeq(q, x.index + 1, x.index + l)
        h == Handled(y, m)
    IN  IF ~x.on \/ (x.t.packetLen = 0 /\ x.index + 2 > Len(q)) THEN [x EXCEPT !.on = FALSE]
        ELSE IF x.t.packetLen = 0 /\ (l > BufSize \/ l < 2) THEN Failed(y, "unpack")
        ELSE IF x.index + l > Len(q) THEN [y EXCEPT !.on = FALSE]
        ELSE IF Refused(m) THEN Failed(h, "parse")
        ELSE [h EXCEPT !.index = x.index + l, !.t = [h.t EXCEPT !.packetLen = 0]]

\* As many turns as there are bytes are enough: a message has two or more.  (After
\* each turn there is the set of what may have come of them, here of one element.)
Begun(x) == [x EXCEPT !.index = 0, !.on = TRUE, !.keep = FALSE]
Turns(x) ==
    LET after[n \in 0..Len(x.t.recvBuf)] ==
            IF n = 0 THEN {Begun(x)} ELSE {Turn(y) : y \in after[n - 1]}
    IN  after[Len(x.t.recvBuf)]

\* (Slip: the bytes that were handled stay in the buffer.)
uppack_Keeps(x) == Turns(x)

\* After an error the bytes that were handled stay.
Adjusted(y) ==
    IF y.keep THEN y ELSE [y EXCEPT !.t = [y.t EXCEPT !.recvBuf = Drop(y.t.recvBuf, y.index)]]
uppack(x) == {Adjusted(y) : y \in Turns(x)}

\* recvData with n bytes of the line; n = 0: what recv answers without data.
Space(t) == BufSize - Len(t.recvBuf)
RecvOf(t) ==
    IF ~t.canRecv \/ peer.line = <<>> \/ Space(t) = 0 \/ peer.state = "reset" THEN {0}
    ELSE 1..Min({Space(t), Len(peer.line)})
Received(t, n) ==
    [t EXCEPT !.recvBuf = t.recvBuf \o SubSeq(peer.line, 1, n), !.pings = 0, !.quiet = 0,
              !.canRecv = FALSE]
Unheard(t) ==
    LET u == [t EXCEPT !.canRecv = FALSE] IN
    CASE peer.state = "reset" -> setError(u, "recv")
      [] peer.state # "reset" /\ (peer.state = "closed" \/ Space(t) = 0) -> setError(u, "closed")
      [] OTHER -> u
recvData(x, n) ==
    CASE ~x.t.canRecv -> {x}
      [] x.t.canRecv /\ n > 0 -> uppack([x EXCEPT !.t = Received(x.t, n)])
      [] OTHER -> {[x EXCEPT !.t = Unheard(x.t)]}

\* The keep-alive: one more probe when the silence has lasted long enough.
\* (Slip: the last probe does not end the connection.)
NotDue(t) == t.pings >= MaxPing \/ t.quiet < PingTimes[t.pings + 1]
Counted(t) == [t EXCEPT !.pings = t.pings + 1]
probe_NoEnd(x) ==
    IF NotDue(x.t) THEN x
    ELSE Sent([x EXCEPT !.t = [Counted(x.t) EXCEPT !.canSend = TRUE]], PingSize)

probe(x) ==
    CASE NotDue(x.t) -> x
      [] ~NotDue(x.t) /\ x.t.pings + 1 >= MaxPing ->
            [x EXCEPT !.t = setError(Counted(x.t), "ping")]
      [] OTHER -> Sent([x EXCEPT !.t = [Counted(x.t) EXCEPT !.canSend = TRUE]], PingSize)

\* sendData hands n bytes to the socket; n = 0: it would block.
sendData(x, n) ==
    CASE x.t.sendBuf = <<>> -> x
      [] x.t.sendBuf # <<>> /\ peer.state = "reset" -> [x EXCEPT !.t = setError(x.t, "send")]
      [] OTHER -> [x EXCEPT !.t = [x.t EXCEPT !.sendBuf = Drop(x.t.sendBuf, n)],
                            !.wire = x.wire \o SubSeq(x.t.sendBuf, 1, n)]

\* routine: receive, probe, send, and a last send when it fails.
Blocked(x) == [x EXCEPT !.t = [x.t EXCEPT !.canSend = FALSE]]
AfterSend(y, k) == IF y.t.canSend THEN Blocked(sendData(y, k)) ELSE y
LastSend(y, l) == IF y.t.error # "none" THEN sendData(y, l) ELSE y
SendOf(t) == 0..Len(t.sendBuf)

\* close: what the next connection must not find.
\* (Slips: the length under way, or the probes, are left.)
Ended_KeepsLength(t) ==
    [t EXCEPT !.open = FALSE, !.sendBuf = <<>>, !.recvBuf = <<>>, !.pings = 0]
Ended_KeepsProbes(t) ==
    [t EXCEPT !.open = FALSE, !.sendBuf = <<>>, !.recvBuf = <<>>, !.packetLen = 0]

Ended(t) ==
    [t EXCEPT !.open = FALSE, !.sendBuf = <<>>, !.recvBuf = <<>>, !.packetLen = 0,
              !.pings = 0]

-----------------------------------------------------------------------------
\* open, for a new connection: netInitialize and initBuffer.  The send buffer is
\* made once; when that fails its size is set all the same.
Reopened(made) ==
    [sess EXCEPT !.open = TRUE, !.error = "none", !.canRecv = TRUE, !.canSend = TRUE,
                 !.quiet = 0, !.sendSize = IF sess.sendSize = 0 THEN SendInit ELSE sess.sendSize,
                 !.noSend = IF sess.sendSize = 0 THEN ~made ELSE sess.noSend]
open(made) ==
    /\ ~sess.open /\ log.conns < MaxConns
    /\ made \/ (MayFail /\ sess.sendSize = 0)
    /\ sess' = Reopened(made)
    /\ peer' = [NewPeer EXCEPT !.state = "there"]
    /\ log' = [NewLog EXCEPT !.conns = log.conns + 1] /\ UNCHANGED conf

\* What one call of routine may come to: the bytes received are noted in got.
Start(r) == [t |-> sess, log |-> log, wire |-> peer.wire, got |-> r, index |-> 0,
             on |-> TRUE, keep |-> FALSE]
Outcomes ==
    LET reads == {probe(x) : x \in UNION {recvData(Start(r), r) : r \in RecvOf(sess)}}
        sends == UNION {{AfterSend(y, k) : k \in SendOf(y.t)} : y \in reads}
    IN  UNION {{LastSend(z, l) : l \in SendOf(z.t)} : z \in sends}

\* The owner drives the session and closes it when routine fails.
run ==
    /\ sess.open
    /\ \E y \in Outcomes :
         /\ sess' = IF y.t.error = "none" THEN y.t ELSE Ended(y.t)
         /\ peer' = [peer EXCEPT !.wire = y.wire, !.line = Drop(peer.line, y.got)]
         /\ log' = y.log
    /\ UNCHANGED conf

\* The program sends a message, ends the connection, or closes it (stop).
sendMessage(size) ==
    /\ sess.open /\ Len(log.out) < MaxOut
    /\ sess' = pushData(sess, Len(log.out) + 1, size) /\ log' = Asked(log, sess, size)
    /\ UNCHANGED <<conf, peer>>
sessionError ==
    /\ sess.open /\ sess.error = "none" /\ sess' = setError(sess, "program")
    /\ UNCHANGED <<conf, peer, log>>
close == sess.open /\ sess' = Ended(sess) /\ UNCHANGED <<conf, peer, log>>

\* Selector::Tick: the socket can be read or written.
Readable == peer.line # <<>> \/ peer.state \in {"closed", "reset"}
sessionTick ==
    /\ sess.open
    /\ \E writable \in BOOLEAN :
         sess' = [sess EXCEPT !.canRecv = @ \/ Readable, !.canSend = @ \/ writable]
    /\ sess' # sess /\ UNCHANGED <<conf, peer, log>>

\* Time passes, in frames of any length up to Stall, while nothing is received.
tick ==
    /\ sess.open
    /\ \E d \in 1..Stall : sess' = [sess EXCEPT !.quiet = Min({@ + d, LastPing})]
    /\ UNCHANGED <<conf, peer, log>>

\* The peer sends a message, or ends the connection.
PeerSends(p) ==
    /\ sess.open /\ peer.state = "there" /\ Len(peer.in) < MaxIn
    /\ peer' = [peer EXCEPT !.in = Append(@, p),
                            !.line = @ \o Bytes(Len(peer.in) + 1, Max({2, p.len}))]
    /\ UNCHANGED <<conf, sess, log>>
PeerEnds ==
    /\ sess.open /\ peer.state = "there"
    /\ \E e \in {"closed", "reset"} : peer' = [peer EXCEPT !.state = e]
    /\ UNCHANGED <<conf, sess, log>>

SessionNext ==
    \/ \E made \in BOOLEAN : open(made)
    \/ run
    \/ \E n \in OutSize : sendMessage(n)
    \/ sessionError
    \/ close
    \/ sessionTick
    \/ tick
    \/ \E p \in Packet : PeerSends(p)
    \/ PeerEnds

SessionSpec == SessionInit /\ [][SessionNext]_sessionVars

\* The service calls Tick of its modules for ever, and time goes on.
SessionFairSpec == SessionSpec /\ WF_sessionVars(run) /\ WF_sessionVars(tick)

-----------------------------------------------------------------------------
Byte == (Nat \ {0}) \X (Nat \ {0})

\* SessionTypeOK: the members keep their shape; the send buffer never grows past its
\* maximum and what is queued fits in it (increaseSendBuffer, pushData).
SessionTypeOK ==
    /\ sess.open \in BOOLEAN /\ sess.canRecv \in BOOLEAN /\ sess.canSend \in BOOLEAN
    /\ sess.noSend \in BOOLEAN /\ sess.error \in Errors
    /\ sess.sendBuf \in Seq(Byte) /\ sess.recvBuf \in Seq(Byte)
    /\ sess.sendSize \in 0..SendMax /\ Len(sess.sendBuf) <= sess.sendSize
    /\ sess.packetLen \in 0..BufSize /\ sess.pings \in 0..MaxPing /\ sess.quiet \in 0..LastPing

\* HandedInOrder: however the bytes arrive, the handlers are given the peer's
\* messages, whole, in order and none twice, up to the one that ends the
\* connection (uppack, with the length it keeps between calls).
HandedInOrder ==
    /\ Len(log.given) <= Len(peer.in)
    /\ \A i \in 1..Len(log.given) : log.given[i] = Bytes(i, peer.in[i].len)

\* RoomToReceive: the receive buffer of an open connection is never full, so
\* that recv is not asked for 0 bytes, whose answer reads as the peer's farewell
\* (the assertion space > 0 that recvData has in a comment).
RoomToReceive == sess.open => Space(sess) > 0

\* WireInOrder: the peer is sent the messages that were accepted, whole and in
\* order; what it lacks of them is queued (pushData, sendData, adjustSendBuffer).
AskedBytes(out) == FlattenSeq([m \in 1..Len(out) |-> Bytes(m, out[m])])
WireInOrder ==
    IF sess.open THEN peer.wire \o sess.sendBuf = AskedBytes(log.out)
    ELSE IsPrefix(peer.wire, AskedBytes(log.out))

\* LossIsNoticed: when a message was not accepted the connection has an error
\* and ends, unless it never had a send buffer (createBuffer failed in open).
LossIsNoticed == log.lost => sess.error # "none" \/ sess.noSend

\* FramesInOrder: however the bytes of its connections arrive, a session hands
\* on the peer's messages whole, in order and once, and has always room for one
\* more byte (Session::uppack, recvData).
FramesInOrder == HandedInOrder /\ RoomToReceive

\* SentInOrder: with partial writes and a buffer that grows, the peer gets what
\* was accepted, whole and in order; a message that is refused ends the
\* connection, and the buffer stays within its maximum (pushData, sendData).
SentInOrder == WireInOrder /\ LossIsNoticed /\ SessionTypeOK

\* ProbesAreDue: each probe that is counted was due, and a connection that is
\* ended for its silence has been silent for the whole time.
ProbesAreDue ==
    /\ sess.open /\ sess.pings > 0 => sess.quiet >= PingTimes[sess.pings]
    /\ sess.error = "ping" => sess.quiet = LastPing

\* SilenceEnds: a connection whose peer stays silent is ended (routine).
SilenceEnds == sess.open /\ sess.quiet = LastPing ~> ~sess.open \/ sess.quiet < LastPing
=============================================================================

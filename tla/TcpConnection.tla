----------------------------- MODULE TcpConnection -----------------------------
(***************************************************************************)
(* One end of a System Link TCP connection: class Connection of            *)
(* net/xnet_tcp.cc.  A connection is a record and every handler of the     *)
(* class a function from it to the connection the handler leaves behind,   *)
(* whose field out holds the segments that TakeOutput will take.           *)
(*                                                                         *)
(* Sequence numbers keep their width: they are taken modulo SeqSpace.  A     *)
(* byte is the number of its place in what the user wrote.  Whether a      *)
(* resend or a probe is due (retransmit_at_ # 0) is the field armed; when  *)
(* it is due, and the round trip times that decide it, are left out.  With *)
(* a buffer of two segments cwnd only tells "one segment" (after a         *)
(* timeout) from "the whole buffer".                                       *)
(***************************************************************************)
EXTENDS Naturals, Sequences, SequencesExt

CONSTANTS
  SeqSpace,        \* sequence numbers are below this
  BufferSize,    \* kBufferSize, of either direction
  Mss,           \* SendMss() and kSecureMss
  EarlyLimit,    \* kEarlyLimit
  DuplicateAcks, \* kDuplicateAcks
  SynRetries, Retries    \* kSynRetries, kRetries

\* What the constants have to be.
TcpAssumption ==
  /\ {SeqSpace, BufferSize, Mss, EarlyLimit, DuplicateAcks, SynRetries, Retries}
       \subseteq Nat \ {0}
  /\ BufferSize \in Mss..2 * Mss      \* cwnd is one segment or no limit
  /\ SeqSpace % 2 = 0 /\ SeqSpace \div 2 > 2 * BufferSize + 2

Seqs == 0..SeqSpace - 1
Plus(a, n) == (a + n) % SeqSpace
Minus(a, b) == (a + SeqSpace - b) % SeqSpace

\* Sequence numbers compare modulo their width.
Before(a, b) == Minus(a, b) >= SeqSpace \div 2
AtOrBefore(a, b) == a = b \/ Before(a, b)

Bit(b) == IF b THEN 1 ELSE 0
Less(a, b) == IF a < b THEN a ELSE b
Bytes(s, n) == SubSeq(s, 1, Less(n, Len(s)))     \* the first n
Past(s, n) == SubSeq(s, n + 1, Len(s))           \* all but the first n

\* The sequence space a segment takes.
Length(s) == Len(s.data) + Bit("syn" \in s.flags) + Bit("fin" \in s.flags)

States == {"Closed", "SynSent", "SynReceived", "Established", "FinWait1", "FinWait2",
           "Closing", "TimeWait", "CloseWait", "LastAck"}

Connecting(c) == c.state \in {"SynSent", "SynReceived"}
Synchronized(c) == c.state # "Closed" /\ ~Connecting(c)
WindowLessEarly(c) ==      \* a bug: what is kept early takes room too
  LET w == BufferSize - Len(c.receive)
  IN IF w < Len(c.early) THEN 0 ELSE w - Len(c.early)
ReceiveWindow(c) == BufferSize - Len(c.receive)
Writable(c) ==
  IF (c.state \in {"Established", "CloseWait"} \/ Connecting(c)) /\ ~c.finQueued
  THEN BufferSize - Len(c.send) ELSE 0
\* Just past the queued data, where FIN goes.
DataEnd(c) == Plus(c.sendSeq, Len(c.send))
FinAcknowledged(c) == c.finQueued /\ c.una = Plus(DataEnd(c), 1)

-----------------------------------------------------------------------------
\* An acknowledgment also tells the window, whose edge is then promised.
Emit(c, seq, flags, data) ==
  LET acks == "ack" \in flags
      wnd == IF flags = {"rst"} THEN 0 ELSE ReceiveWindow(c)
  IN [c EXCEPT
       !.out = Append(@, [seq |-> seq, ack |-> IF acks THEN c.rcvNxt ELSE 0, flags |-> flags,
                          wnd |-> wnd, data |-> data]),
       !.adv = IF acks THEN Plus(c.rcvNxt, wnd) ELSE @,
       !.ackNow = @ /\ ~acks]

\* What answers a segment that no connection takes.
Refusal(s) ==
  IF "rst" \in s.flags THEN {}
  ELSE IF "ack" \in s.flags
       THEN {[seq |-> s.ack, ack |-> 0, flags |-> {"rst"}, wnd |-> 0, data |-> <<>>]}
       ELSE {[seq |-> 0, ack |-> Plus(s.seq, Length(s)), flags |-> {"rst", "ack"}, wnd |-> 0,
              data |-> <<>>]}

NewConnection(state, active, iss) ==
  [state |-> state, failure |-> "None", connected |-> FALSE, active |-> active,
   iss |-> iss, una |-> iss, nxt |-> Plus(iss, 1), max |-> Plus(iss, 1),
   wnd |-> 0, wl1 |-> 0, wl2 |-> 0, sendSeq |-> Plus(iss, 1), send |-> <<>>,
   finQueued |-> FALSE, slow |-> FALSE, dups |-> 0,
   rcvNxt |-> 0, irs |-> 0, adv |-> 0, receive |-> <<>>, early |-> <<>>,
   finReceived |-> FALSE, ackNow |-> FALSE, armed |-> TRUE, retries |-> 0, out |-> <<>>]

Open(iss) == Emit(NewConnection("SynSent", TRUE, iss), iss, {"syn"}, <<>>)

Answer(syn, iss) ==
  Emit([NewConnection("SynReceived", FALSE, iss) EXCEPT
          !.irs = syn.seq, !.rcvNxt = Plus(syn.seq, 1)],
       iss, {"syn", "ack"}, <<>>)

Fail(c, failure) ==
  [c EXCEPT !.state = "Closed", !.failure = failure, !.armed = FALSE,
            !.send = <<>>, !.receive = <<>>, !.early = <<>>]

-----------------------------------------------------------------------------
\* Sends the first unacknowledged segment again, its FIN with it if that went
\* out already.
ResentDataOnly(c) ==      \* a bug: a lost FIN does not go again
  LET end == DataEnd(c)
      unacked == IF Before(c.una, end)
                 THEN Minus(IF Before(end, c.max) THEN end ELSE c.max, c.una) ELSE 0
  IN [data |-> Bytes(Past(c.send, Minus(c.una, c.sendSeq)), Less(unacked, Mss)), fin |-> FALSE]
Resent(c) ==
  LET end == DataEnd(c)
      unacked == IF Before(c.una, end)
                 THEN Minus(IF Before(end, c.max) THEN end ELSE c.max, c.una) ELSE 0
      size == Less(unacked, Mss)
  IN [data |-> Bytes(Past(c.send, Minus(c.una, c.sendSeq)), size),
      fin |-> c.finQueued /\ Plus(c.una, size) = end /\ Before(end, c.max)]

ResendLength(c) == Len(Resent(c).data) + Bit(Resent(c).fin)

Resend(c) ==
  IF ResendLength(c) = 0 THEN c
  ELSE [Emit(c, c.una, {"ack"} \cup (IF Resent(c).fin THEN {"fin"} ELSE {}), Resent(c).data)
          EXCEPT !.armed = TRUE]

\* One turn of Output's loop.
SendLimit(c) == IF c.slow THEN Less(c.wnd, Mss) ELSE c.wnd
SendSize(c) ==
  LET flight == Minus(c.nxt, c.una)
      unsent == IF Before(c.nxt, DataEnd(c)) THEN Minus(DataEnd(c), c.nxt) ELSE 0
      room == IF SendLimit(c) <= flight THEN 0 ELSE SendLimit(c) - flight
  IN Less(unsent, Less(room, Mss))

Advance(c, n) ==
  [c EXCEPT !.nxt = Plus(@, n), !.armed = TRUE,
            !.max = IF Before(@, Plus(c.nxt, n)) THEN Plus(c.nxt, n) ELSE @]

RECURSIVE SendData(_)
SendData(c) ==
  LET size == SendSize(c)
      data == Bytes(Past(c.send, Minus(c.nxt, c.sendSeq)), size)
  IN IF size = 0 THEN c ELSE SendData(Advance(Emit(c, c.nxt, {"ack"}, data), size))

SendFin(c) ==
  IF ~(c.finQueued /\ c.nxt = DataEnd(c)) THEN c
  ELSE [Advance(Emit(c, c.nxt, {"fin", "ack"}, <<>>), 1) EXCEPT
          !.state = CASE @ = "Established" -> "FinWait1"
                      [] @ = "CloseWait" -> "LastAck"
                      [] OTHER -> @]

\* Only a probe can tell that a closed window opened again.
ProbeNeededIfSent(c) ==    \* a bug: only what was sent is probed
  c.wnd = 0 /\ c.una # c.max /\ Before(c.una, DataEnd(c))
ProbeNeeded(c) == c.wnd = 0 /\ Before(c.una, DataEnd(c))

Output(c) ==
  LET sends == c.state \in {"Established", "CloseWait", "FinWait1", "Closing", "LastAck"}
      d == IF ~sends THEN c
           ELSE LET e == SendFin(SendData(c)) IN [e EXCEPT !.armed = @ \/ ProbeNeeded(e)]
  IN IF d.ackNow /\ Synchronized(d) THEN Emit(d, d.nxt, {"ack"}, <<>>) ELSE d

-----------------------------------------------------------------------------
Establish(c, s) ==
  [c EXCEPT !.state = "Established", !.connected = TRUE, !.wnd = s.wnd, !.wl1 = s.seq,
            !.wl2 = s.ack, !.slow = FALSE, !.retries = 0, !.armed = FALSE]

\* The acknowledged data leaves the send buffer.
TakeAck(c, ack) ==
  LET new == IF Before(c.sendSeq, ack) THEN Less(Minus(ack, c.sendSeq), Len(c.send)) ELSE 0
  IN [c EXCEPT !.send = Past(@, new), !.sendSeq = Plus(@, new), !.una = ack,
               !.nxt = IF Before(@, ack) THEN ack ELSE @,
               !.dups = 0, !.retries = 0, !.slow = FALSE, !.armed = ack # c.max]

IsDuplicateAck(c, s) ==
  /\ s.ack = c.una /\ c.una # c.max
  /\ s.wnd # 0 /\ s.wnd = c.wnd /\ s.data = <<>> /\ s.flags \cap {"syn", "fin"} = {}

\* The count is only compared with kDuplicateAcks, so it stops past it.
DuplicateAck(c) ==
  LET n == Less(c.dups + 1, DuplicateAcks + 1)
  IN IF n = DuplicateAcks THEN Resend([c EXCEPT !.dups = n, !.slow = FALSE])
                          ELSE [c EXCEPT !.dups = n]

WindowIsNewer(c, s) ==
  Before(c.wl1, s.seq) \/ (c.wl1 = s.seq /\ AtOrBefore(c.wl2, s.ack))

UpdateWindow(c, s) ==
  LET heard == IF s.wnd = 0 THEN [c EXCEPT !.retries = 0] ELSE c
      d == IF WindowIsNewer(heard, s)
           THEN [heard EXCEPT !.wnd = s.wnd, !.wl1 = s.seq, !.wl2 = s.ack] ELSE heard
  IN IF ProbeNeeded(d) THEN [d EXCEPT !.nxt = d.una] ELSE d

AcksUnsent(c, s) == Before(c.max, s.ack)

Acknowledge(c, s) ==
  UpdateWindow(IF Before(c.una, s.ack) THEN TakeAck(c, s.ack)
               ELSE IF IsDuplicateAck(c, s) THEN DuplicateAck(c) ELSE c, s)

-----------------------------------------------------------------------------
ReceiveFin(c) ==
  [c EXCEPT !.rcvNxt = Plus(@, 1), !.finReceived = TRUE, !.ackNow = TRUE,
            !.state = CASE @ = "Established" -> "CloseWait"
                        [] @ = "FinWait1" ->
                             IF FinAcknowledged(c) THEN "TimeWait" ELSE "Closing"
                        [] @ = "FinWait2" -> "TimeWait"
                        [] OTHER -> @]

Take(c, data) ==
  [c EXCEPT !.receive = @ \o data, !.rcvNxt = Plus(@, Len(data))]

\* The FIN of early data counts only once every byte before it is in.
EarlyFin(c, e) == e.fin /\ c.rcvNxt = Plus(e.seq, Len(e.data))

\* The early data that the gap before it no longer holds up.
RECURSIVE TakeEarly(_)
TakeEarly(c) ==
  LET Ready == {i \in DOMAIN c.early : ~Before(c.rcvNxt, c.early[i].seq)}
      i == CHOOSE j \in Ready : \A k \in Ready : j <= k
      e == c.early[i]
      data == Bytes(Past(e.data, Minus(c.rcvNxt, e.seq)), BufferSize - Len(c.receive))
      d == [Take(c, data) EXCEPT !.early = RemoveAt(@, i)]
  IN IF Ready = {} THEN c
     ELSE IF EarlyFin(d, e) THEN ReceiveFin([d EXCEPT !.early = <<>>])
     ELSE TakeEarly(d)

Keep(c, s) ==
  IF s.data = <<>> /\ "fin" \notin s.flags THEN c
  ELSE [c EXCEPT !.ackNow = TRUE,
          !.early = IF Len(@) < EarlyLimit
                    THEN Append(@, [seq |-> s.seq, data |-> s.data, fin |-> "fin" \in s.flags])
                    ELSE @]

AcceptAnyFin(c, s) ==      \* a bug: a FIN that overtook the data ends the stream
  LET d == [Take(c, s.data) EXCEPT !.ackNow = @ \/ s.data # <<>>]
  IN IF "fin" \in s.flags THEN ReceiveFin(d) ELSE IF s.seq # c.rcvNxt THEN Keep(c, s) ELSE TakeEarly(d)
AcceptInAnyOrder(c, s) ==  \* a bug: data that overtook other data is taken as the next
  LET d == [Take(c, s.data) EXCEPT !.ackNow = @ \/ s.data # <<>>]
  IN IF "fin" \in s.flags THEN ReceiveFin([d EXCEPT !.early = <<>>]) ELSE TakeEarly(d)
Accept(c, s) ==
  LET d == [Take(c, s.data) EXCEPT !.ackNow = @ \/ s.data # <<>>]
  IN IF s.seq # c.rcvNxt THEN Keep(c, s)
     ELSE IF "fin" \in s.flags THEN ReceiveFin([d EXCEPT !.early = <<>>])
     ELSE TakeEarly(d)

-----------------------------------------------------------------------------
\* Input, in the order of its early returns.

AcksHandshake(c, s) == ~AtOrBefore(s.ack, c.iss) /\ ~AcksUnsent(c, s)

InputSynSent(c, s) ==
  LET acks == "ack" \in s.flags
      d == [c EXCEPT !.irs = s.seq, !.rcvNxt = Plus(s.seq, 1)]
  IN CASE acks /\ ~AcksHandshake(c, s) ->
            IF "rst" \in s.flags THEN c ELSE Emit(c, s.ack, {"rst"}, <<>>)
       [] "rst" \in s.flags -> IF acks THEN Fail(c, "Refused") ELSE c
       [] "syn" \notin s.flags -> c
       [] ~acks -> Emit([d EXCEPT !.state = "SynReceived"], c.iss, {"syn", "ack"}, <<>>)
       [] OTHER -> [Acknowledge(Establish(d, s), s) EXCEPT !.ackNow = TRUE]

\* What arrived already is dropped, the acknowledgment is kept.
OldPart(c, s) == Minus(c.rcvNxt, s.seq) - Bit("syn" \in s.flags)
DropOldNumber(c, s) ==     \* a bug: the data that arrived already stays
  [s EXCEPT !.seq = c.rcvNxt, !.flags = @ \ {"syn"}]
DropOld(c, s) ==
  [s EXCEPT !.seq = c.rcvNxt, !.data = Past(@, OldPart(c, s)),
            !.flags = @ \ ({"syn"} \cup IF OldPart(c, s) > Len(s.data) THEN {"fin"} ELSE {})]
IsRepeat(c, s) ==
  /\ Length(s) > 0 /\ "rst" \notin s.flags
  /\ OldPart(c, s) >= Len(s.data) /\ "fin" \notin DropOld(c, s).flags

Offset(c, s) == Minus(s.seq, c.rcvNxt)
Occupied(s) == Len(s.data) + Bit("syn" \in s.flags)
PastWindow(c, s) ==
  Offset(c, s) >= ReceiveWindow(c) /\ (Occupied(s) > 0 \/ Offset(c, s) > 0)
TakesOnlyAck(c, s) == Offset(c, s) = 0 /\ "ack" \in s.flags
FitWindowInside(c, s) ==    \* a bug: only what straddles the edge is cut
  IF ~PastWindow(c, s) /\ Offset(c, s) + Len(s.data) > ReceiveWindow(c)
  THEN [s EXCEPT !.data = Bytes(@, ReceiveWindow(c) - Offset(c, s))] ELSE s
FitWindow(c, s) ==
  IF PastWindow(c, s) THEN [s EXCEPT !.data = <<>>, !.flags = @ \ {"fin", "syn"}]
  ELSE IF Offset(c, s) + Len(s.data) > ReceiveWindow(c)
  THEN [s EXCEPT !.data = Bytes(@, ReceiveWindow(c) - Offset(c, s)), !.flags = @ \ {"fin"}]
  ELSE s

\* The acknowledgment of this side's FIN.
FinIsAckedOnceAlone(c) ==    \* a bug: both ends finishing at once is forgotten
  IF FinAcknowledged(c) /\ c.state = "FinWait1" THEN [c EXCEPT !.state = "FinWait2"] ELSE c
FinIsAcked(c) ==
  IF ~FinAcknowledged(c) THEN c
  ELSE [c EXCEPT !.state = CASE @ = "FinWait1" -> "FinWait2"
                             [] @ = "Closing" -> "TimeWait"
                             [] @ = "LastAck" -> "Closed"
                             [] OTHER -> @]

\* s as it came, for what the code asks of the untrimmed segment.
InputAcked(c, t, s) ==
  LET d == FinIsAcked(Acknowledge(c, t))
  IN CASE d.state = "Closed" -> d
       [] d.state \in {"Established", "FinWait1", "FinWait2"} -> Output(Accept(d, t))
       [] d.state = "TimeWait" /\ "fin" \in s.flags -> Output([d EXCEPT !.ackNow = TRUE])
       [] OTHER -> Output(d)

ResetAfterFin(c) ==     \* a bug: a reset after the FIN passes for the end of the stream
  Fail(c, IF c.finReceived THEN "None" ELSE "Reset")
Reset(c) == Fail(c, IF c.connected THEN "Reset" ELSE IF c.active THEN "Refused" ELSE "None")

InputUnchecked(c, t, s) ==     \* a bug: any acknowledgment completes the handshake
  LET d == IF c.state = "SynReceived" THEN Establish(c, t) ELSE c
  IN CASE "rst" \in t.flags -> Reset(c)
       [] "rst" \notin t.flags /\ "syn" \in t.flags -> Output([c EXCEPT !.ackNow = TRUE])
       [] t.flags \cap {"rst", "syn", "ack"} = {} -> c
       [] OTHER -> IF AcksUnsent(d, t) THEN Output([d EXCEPT !.ackNow = TRUE])
                   ELSE InputAcked(d, t, s)
InputInWindow(c, t, s) ==
  LET acksHandshake == ~AtOrBefore(t.ack, c.una) /\ ~AcksUnsent(c, t)
      d == IF c.state = "SynReceived" THEN Establish(c, t) ELSE c
  IN CASE "rst" \in t.flags -> IF Before(s.seq, c.rcvNxt) THEN c ELSE Reset(c)
       [] "rst" \notin t.flags /\ "syn" \in t.flags -> Output([c EXCEPT !.ackNow = TRUE])
       [] t.flags \cap {"rst", "syn", "ack"} = {} -> c
       [] OTHER ->
            IF c.state = "SynReceived" /\ ~acksHandshake THEN Emit(c, t.ack, {"rst"}, <<>>)
            ELSE IF AcksUnsent(d, t) THEN Output([d EXCEPT !.ackNow = TRUE])
            ELSE InputAcked(d, t, s)

InputSynchronized(c, s) ==
  LET old == Before(s.seq, c.rcvNxt)
      t == IF old THEN DropOld(c, s) ELSE s
      d == [c EXCEPT !.ackNow = @ \/ (old /\ IsRepeat(c, s))]
      e == IF "rst" \in t.flags THEN d ELSE Output([d EXCEPT !.ackNow = TRUE])
  IN IF ~PastWindow(c, t) THEN InputInWindow(d, FitWindow(c, t), s)
     ELSE IF TakesOnlyAck(c, t) THEN InputInWindow(e, FitWindow(c, t), s)
     ELSE e

Input(c, s) ==
  CASE c.state = "Closed" -> c
    [] c.state = "SynSent" -> Output(InputSynSent(c, s))
    [] /\ c.state = "SynReceived" /\ s.seq = c.irs
       /\ "syn" \in s.flags /\ "ack" \notin s.flags -> Emit(c, c.iss, {"syn", "ack"}, <<>>)
    [] OTHER -> InputSynchronized(c, s)

-----------------------------------------------------------------------------
\* Tick once the timer is due.  TIME_WAIT has a timer of its own.
TimerDue(c) == c.state = "TimeWait" \/ (c.armed /\ c.state # "Closed")

Retry(c, limit, resend) ==
  IF c.retries = limit THEN Fail(c, "TimedOut") ELSE [resend EXCEPT !.retries = @ + 1]

Tick(c) ==
  CASE c.state = "TimeWait" -> [c EXCEPT !.state = "Closed"]
    [] Connecting(c) ->
         Retry(c, SynRetries,
               Emit(c, c.iss, {"syn"} \cup (IF c.state = "SynSent" THEN {} ELSE {"ack"}), <<>>))
    [] ~Connecting(c) /\ ProbeNeeded(c) ->
         LET probe == Emit(c, c.una, {"ack"}, <<c.send[Minus(c.una, c.sendSeq) + 1]>>)
         IN Retry(c, Retries,
                  [probe EXCEPT !.nxt = c.una,
                     !.max = IF Before(@, Plus(c.una, 1)) THEN Plus(c.una, 1) ELSE @])
    [] Synchronized(c) /\ c.state # "TimeWait" /\ ~ProbeNeeded(c) ->
         IF c.una = c.max THEN [c EXCEPT !.armed = FALSE]
         ELSE Retry(c, Retries,
                    LET d == [c EXCEPT !.slow = TRUE, !.dups = 0]
                    IN [Resend(d) EXCEPT !.nxt = Plus(c.una, ResendLength(d)), !.armed = TRUE])

\* The calls of the user of the connection.
Write(c, data) == Output([c EXCEPT !.send = @ \o Bytes(data, Writable(c))])

\* A byte is read; the peer hears of the room it can use.
ReadByte(c) ==
  LET d == [c EXCEPT !.receive = Tail(@)]
      grown == Minus(Plus(d.rcvNxt, ReceiveWindow(d)), d.adv)
  IN IF Synchronized(d) /\ ~d.finReceived /\ grown >= Less(Mss, BufferSize \div 2)
     THEN Output([d EXCEPT !.ackNow = TRUE]) ELSE d

Finish(c) ==
  IF c.finQueued \/ c.state \in {"Closed", "SynSent"} THEN c
  ELSE Output([c EXCEPT !.finQueued = TRUE])

\* Resets a synchronized peer, at the edge of its window.
Abort(c) ==
  IF c.state = "Closed" THEN c
  ELSE Fail(IF c.state = "SynSent" THEN c
            ELSE Emit(c, IF c.wnd # 0 THEN c.max ELSE c.nxt, {"rst"}, <<>>), "None")

\* Closes without a word: what arrived up to the FIN stays readable.
DetachAsEnded(c) ==     \* a bug: what was not read is dropped and the stream ends
  IF c.state = "Closed" THEN c ELSE [Fail(c, "None") EXCEPT !.out = <<>>]
Detach(c) ==
  IF c.state = "Closed" THEN c
  ELSE IF c.finReceived
  THEN [Fail(c, "None") EXCEPT !.receive = c.receive, !.out = <<>>]
  ELSE [Fail(c, "Reset") EXCEPT !.out = <<>>]

TakeOutput(c) == [c EXCEPT !.out = <<>>]
===============================================================================

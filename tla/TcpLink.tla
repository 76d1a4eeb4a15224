------------------------------- MODULE TcpLink --------------------------------
(***************************************************************************)
(* A System Link TCP socket on each of two consoles, the connection        *)
(* between them and the network that carries its segments: the streams of  *)
(* net/system_link.cc around the connections of TcpConnection.             *)
(*                                                                         *)
(* The association under the connection decrypts each packet once (its     *)
(* replay window refuses a second copy), so a segment may be lost or       *)
(* overtaken but not doubled.  When the association ends both ends are     *)
(* detached and nothing more is carried.                                   *)
(*                                                                         *)
(* There is one connection slot per console: a console connects at most    *)
(* once, and a listener answers at most MaxAnswers times, one connection   *)
(* after the other.                                                        *)
(***************************************************************************)
EXTENDS TcpConnection, FiniteSets, Bags, BagsExt

CONSTANTS
  Ends, Other(_),       \* the two consoles
  Connectors, Listeners,
  Iss(_, _),            \* the initial sequence of an end's n-th connection
  MaxWrites,            \* bound: bytes an end writes, a function of the end
  MaxLost,              \* bound: segments the network loses
  MaxAnswers,           \* bound: connections a listener answers
  Ops,                  \* "shutdown", "close", "abort", "orphan", "retire", and
                        \* "handshake": segments are lost before both are connected
  MaxHasty              \* bound: timers that fire with a segment on its way

\* What the constants have to be.
LinkAssumption ==
  /\ TcpAssumption
  /\ \A e \in Ends : Other(e) \in Ends \ {e} /\ Other(Other(e)) = e
  /\ Connectors \cup Listeners \subseteq Ends
  /\ MaxWrites \in [Ends -> Nat] /\ {MaxLost, MaxHasty, MaxAnswers} \subseteq Nat

VARIABLES
  conn,       \* a stream's connection
  user,       \* "none", "pending" (not accepted yet), "open" or "closed" by the guest
  listening,
  net,        \* the segments on their way to an end
  linked,     \* the association is up
  lost, hasty, answers,
  written,    \* how many bytes the guest wrote
  got         \* what the guest read

vars == <<conn, user, listening, net, linked, lost, hasty, answers, written, got>>
bounds == <<lost, hasty, answers>>

NoConnection == [NewConnection("Closed", FALSE, 0) EXCEPT !.armed = FALSE]
Live(e) == conn[e].state # "Closed"

\* What an end still has to deliver, in order: read by the guest or readable.
Held(e) == got[e] \o conn[e].receive

TypeOK ==
  /\ \A e \in Ends :
       /\ conn[e].state \in States
       /\ conn[e].failure \in {"None", "Refused", "Reset", "TimedOut"}
       /\ {conn[e].iss, conn[e].una, conn[e].nxt, conn[e].max, conn[e].rcvNxt} \subseteq Seqs
       /\ Len(conn[e].send) <= BufferSize /\ Len(conn[e].receive) <= BufferSize
       /\ Len(conn[e].early) <= EarlyLimit
       /\ conn[e].out = <<>> /\ IsABag(net[e])
  /\ user \in [Ends -> {"none", "pending", "open", "closed"}]
  /\ listening \in [Ends -> BOOLEAN] /\ linked \in BOOLEAN
  /\ lost \in 0..MaxLost /\ hasty \in 0..MaxHasty /\ answers \in [Ends -> 0..MaxAnswers]
  /\ \A e \in Ends : written[e] \in 0..MaxWrites[e]

Init ==
  /\ conn = [e \in Ends |-> NoConnection] /\ user = [e \in Ends |-> "none"]
  /\ listening = [e \in Ends |-> e \in Listeners]
  /\ net = [e \in Ends |-> EmptyBag] /\ linked = TRUE
  /\ lost = 0 /\ hasty = 0 /\ answers = [e \in Ends |-> 0]
  /\ written = [e \in Ends |-> 0] /\ got = [e \in Ends |-> <<>>]

-----------------------------------------------------------------------------
\* FlushStreams: nobody reads a closed socket, so data that still arrives
\* resets it; what the connection sends goes out.
Flushed(u, c) == IF u = "closed" /\ c.receive # <<>> THEN Abort(c) ELSE c

\* An accept cannot take a connection that ended first.
Unaccepted(u, c) == IF u = "pending" /\ c.state = "Closed" THEN "closed" ELSE u

\* A closed connection leaves the streams, and the guest's socket was its last
\* owner.  That the guest finished it is kept for the properties.
Erased(u, c) ==
  IF u = "closed" /\ c.state = "Closed" THEN [NoConnection EXCEPT !.finQueued = c.finQueued] ELSE c

\* The segments ss reach the network after the segments taken from it.
Sent(e, rest, ss) ==
  net' = [net EXCEPT ![e] = rest,
            ![Other(e)] = IF linked
                          THEN FoldLeft(LAMBDA bag, s : BagAdd(bag, s), @, ss) ELSE @]

Put(e, rest, u, c) ==
  LET d == Flushed(u, c)
  IN /\ user' = [user EXCEPT ![e] = Unaccepted(u, d)]
     /\ conn' = [conn EXCEPT ![e] = Erased(Unaccepted(u, d), TakeOutput(d))]
     /\ Sent(e, rest, d.out)

Do(e, c) == Put(e, net[e], user[e], c)

Connect(e) ==
  /\ e \in Connectors /\ user[e] = "none" /\ linked
  /\ Put(e, net[e], "open", Open(Iss(e, 0)))
  /\ UNCHANGED <<listening, linked, bounds, written, got>>

\* Takes a pending connection, which FlushStreams drops once it is closed.
Stream_Accept(e) ==
  /\ listening[e] /\ user[e] = "pending" /\ conn[e].connected /\ Live(e)
  /\ user' = [user EXCEPT ![e] = "open"]
  /\ UNCHANGED <<conn, net, listening, linked, bounds, written, got>>

Usable(e) == user[e] = "open" /\ conn[e].connected

Send(e) ==
  /\ Usable(e) /\ Live(e) /\ written[e] < MaxWrites[e] /\ Writable(conn[e]) > 0
  /\ written' = [written EXCEPT ![e] = @ + 1]
  /\ Do(e, Write(conn[e], <<written[e] + 1>>))
  /\ UNCHANGED <<listening, linked, bounds, got>>

\* A failure hides what was readable.
Receive(e) ==
  /\ Usable(e) /\ conn[e].failure = "None" /\ conn[e].receive # <<>>
  /\ got' = [got EXCEPT ![e] = Append(@, Head(conn[e].receive))]
  /\ Do(e, ReadByte(conn[e]))
  /\ UNCHANGED <<listening, linked, bounds, written>>

Shutdown(e) ==
  /\ "shutdown" \in Ops /\ Usable(e) /\ ~conn[e].finQueued
  /\ Do(e, Finish(conn[e]))
  /\ UNCHANGED <<listening, linked, bounds, written, got>>

\* Closing with data left to read resets the connection.
Close(e, abort) ==
  /\ "close" \in Ops /\ user[e] = "open" /\ (abort => "abort" \in Ops)
  /\ LET resets == abort \/ conn[e].receive # <<>> \/ Connecting(conn[e])
     IN Put(e, net[e], "closed", IF resets THEN Abort(conn[e]) ELSE Finish(conn[e]))
  /\ UNCHANGED <<listening, linked, bounds, written, got>>

\* A listener takes the connections nobody accepted with it.
CloseListener(e) ==
  /\ "close" \in Ops /\ listening[e]
  /\ listening' = [listening EXCEPT ![e] = FALSE]
  /\ IF user[e] = "pending" THEN Put(e, net[e], "closed", Abort(conn[e]))
                            ELSE UNCHANGED <<conn, user, net>>
  /\ UNCHANGED <<linked, bounds, written, got>>

-----------------------------------------------------------------------------
\* TcpInput: a segment goes to its connection, opens one, or is refused.
IsSyn(s) == s.flags \cap {"syn", "ack", "rst"} = {"syn"}

\* A SYN takes the ports of a connection waiting out TIME_WAIT.
TakenBy(e, s) == Live(e) /\ ~(IsSyn(s) /\ conn[e].state = "TimeWait")

\* The bounds act like a full backlog: the SYN is dropped.
HasRoom(e) == user[e] \in {"none", "closed"} /\ answers[e] < MaxAnswers

Answers(e, s, rest) ==
  /\ ~TakenBy(e, s) /\ IsSyn(s) /\ listening[e] /\ HasRoom(e)
  /\ answers' = [answers EXCEPT ![e] = @ + 1]
  /\ got' = [got EXCEPT ![e] = <<>>] /\ written' = [written EXCEPT ![e] = 0]
  /\ Put(e, rest, "pending", Answer(s, Iss(e, answers[e] + 1)))

Refuses(e, s, rest) ==
  /\ ~TakenBy(e, s) /\ ~(IsSyn(s) /\ listening[e] /\ HasRoom(e))
  /\ conn' = [conn EXCEPT ![e] = Erased(user[e], Detach(@))]
  /\ Sent(e, rest, IF IsSyn(s) /\ listening[e] THEN <<>> ELSE SetToSeq(Refusal(s)))
  /\ UNCHANGED <<user, answers, written, got>>

TcpInput(e) ==
  \E s \in BagToSet(net[e]) :
    LET rest == BagRemove(net[e], s)
    IN /\ \/ /\ TakenBy(e, s) /\ Put(e, rest, user[e], Input(conn[e], s))
             /\ UNCHANGED <<answers, written, got>>
          \/ Answers(e, s, rest)
          \/ Refuses(e, s, rest)
       /\ UNCHANGED <<listening, linked, lost, hasty>>

Lose(e) ==
  \E s \in BagToSet(net[e]) :
    /\ "handshake" \in Ops \/ \A x \in Ends : conn[x].connected
    /\ lost < MaxLost /\ lost' = lost + 1
    /\ net' = [net EXCEPT ![e] = BagRemove(@, s)]
    /\ UNCHANGED <<conn, user, listening, linked, hasty, answers, written, got>>

\* No timer is shorter than a round trip, both ends back off alike, and
\* TIME_WAIT lasts past the slowest resend of the peer's FIN.
InTime(e) ==
  /\ \A x \in Ends : net[x] = EmptyBag
  /\ TimerDue(conn[Other(e)]) /\ conn[Other(e)].state # "TimeWait" =>
       conn[e].state # "TimeWait" /\ conn[e].retries <= conn[Other(e)].retries

TickStreams(e) ==
  /\ TimerDue(conn[e])
  /\ \/ InTime(e) /\ UNCHANGED hasty
     \/ ~InTime(e) /\ hasty < MaxHasty /\ hasty' = hasty + 1
  /\ Do(e, Tick(conn[e]))
  /\ UNCHANGED <<listening, linked, lost, answers, written, got>>

\* A closed socket's connection that did not end in time, kOrphanMs.
Orphan(e) ==
  /\ "orphan" \in Ops /\ user[e] = "closed" /\ Live(e) /\ conn[e].state # "TimeWait"
  /\ Do(e, Abort(conn[e]))
  /\ UNCHANGED <<listening, linked, bounds, written, got>>

\* Retire: the association ended.
Retire(e) ==
  /\ "retire" \in Ops /\ Live(e)
  /\ linked' = FALSE
  /\ LET c == Detach(conn[e])  u == Unaccepted(user[e], c)
     IN conn' = [conn EXCEPT ![e] = Erased(u, c)] /\ user' = [user EXCEPT ![e] = u]
  /\ net' = [x \in Ends |-> EmptyBag]
  /\ UNCHANGED <<listening, bounds, written, got>>

UserNext(e) ==
  \/ Connect(e) \/ Stream_Accept(e) \/ Send(e) \/ Receive(e) \/ Shutdown(e)
  \/ (\E abort \in BOOLEAN : Close(e, abort)) \/ CloseListener(e)

Next ==
  \E e \in Ends : UserNext(e) \/ TcpInput(e) \/ Lose(e) \/ TickStreams(e) \/ Orphan(e) \/ Retire(e)

Spec == Init /\ [][Next]_vars

\* Weak fairness, with what enables an action written out: a segment that is
\* not lost arrives, a timer that is due fires, the guest accepts and reads.
CanInput(e) == net[e] # EmptyBag
CanTick(e) == TimerDue(conn[e]) /\ InTime(e)
CanAccept(e) == listening[e] /\ user[e] = "pending" /\ conn[e].connected
CanReceive(e) == Usable(e) /\ conn[e].failure = "None" /\ conn[e].receive # <<>>

Fairness ==
  \A e \in Ends : /\ []<>~CanInput(e) \/ []<><<TcpInput(e)>>_vars
                  /\ []<>~CanTick(e) \/ []<><<TickStreams(e)>>_vars
                  /\ []<>~CanAccept(e) \/ []<><<Stream_Accept(e)>>_vars
                  /\ []<>~CanReceive(e) \/ []<><<Receive(e)>>_vars

-----------------------------------------------------------------------------
\* The two ends are of the same connection.
Paired(e) ==
  LET c == conn[e]  d == conn[Other(e)]
  IN c.connected /\ d.irs = c.iss /\ c.irs = d.iss /\ user[Other(e)] # "none"

\* What an end drops from its send buffer has reached the peer, which knows of
\* nothing that was never sent: snd_una <= rcv_nxt <= snd_max.
AckedIsReceived ==
  \A e \in Ends : Paired(e) =>
    /\ AtOrBefore(conn[e].una, conn[Other(e)].rcvNxt)
    /\ AtOrBefore(conn[Other(e)].rcvNxt, conn[e].max)

\* A live connection that waits for the peer has a timer that ends the wait:
\* unacknowledged data, a FIN or SYN, or data that a closed window holds back.
NoSilentStall ==
  \A e \in Ends :
    Live(e) /\ conn[e].state # "TimeWait" /\ (conn[e].una # conn[e].max \/ conn[e].send # <<>>) => conn[e].armed

\* Only a probe or a FIN goes past the window that the peer advertised, and by
\* one byte.
StaysInWindow ==
  \A e \in Ends :
    Paired(e) /\ Live(e) => AtOrBefore(conn[e].max, Plus(conn[Other(e)].adv, 1))

\* Two connected ends took up each other's numbers.
HandshakeAgrees ==
  \A e \in Ends :
    LET c == conn[e]  d == conn[Other(e)]
    IN c.connected /\ d.connected /\ Live(e) /\ Live(Other(e)) => c.irs = d.iss

\* Losing as many segments as a connection has resends to spare never makes it
\* give up: every progress and every answered probe resets the count.
NeverTimesOut == \A e \in Ends : conn[e].failure # "TimedOut"

\* What an end advertised is never taken back.
WindowNeverShrinks ==
  [][\A e \in Ends : Paired(e) /\ Paired(e)' => AtOrBefore(conn[e].adv, conn'[e].adv)]_vars

\* The stream from e to its peer.
Stream(e) ==
  INSTANCE ReliableStream WITH
    written <- written[e], finished <- conn[e].finQueued,
    read <- got[Other(e)], ready <- conn[Other(e)].receive,
    ended <- user[Other(e)] # "closed" /\ conn[Other(e)].failure = "None" /\ conn[Other(e)].finReceived,
    broken <- user[Other(e)] = "closed" \/ (user[Other(e)] # "none" /\ ~Live(Other(e)))

\* Either direction is a reliable stream, whatever is lost or late, however the
\* guests close, abort or shut down and when the association ends.
StreamSteps == \A e \in Ends : [Stream(e)!Next]_(Stream(e)!vars)
BothStreams == (\A e \in Ends : Stream(e)!Init) /\ [][StreamSteps]_vars

\* Everything written reaches the peer.
Delivered ==
  \A e \in Ends : written[e] > Len(Held(Other(e))) ~> written[e] = Len(Held(Other(e)))

\* A connection that both guests finished ends at both ends.
EndsAtBoth ==
  (\A e \in Ends : conn[e].finQueued) ~> \A e \in Ends : ~Live(e)

===============================================================================

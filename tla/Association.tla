----------------------------- MODULE Association -----------------------------
(***************************************************************************)
(* Secure associations between two consoles (xnet_association.cc), for one *)
(* key, with the system link thread that owns them.                        *)
(*                                                                         *)
(* An end that wants to talk sends a request and becomes the initiator of  *)
(* a pending association; the other answers it in an association of its    *)
(* own; the first protected packet establishes each side.  Every           *)
(* association has fresh random names (SPI, challenge, public value): here *)
(* its generation <<end, n>>.  The traffic keys come from the two          *)
(* generations, so a pair of generations stands for them.                  *)
(*                                                                         *)
(* |net| holds every frame ever sent: the network may lose, repeat, delay  *)
(* and reorder them.  A frame that authenticates is one of these.          *)
(***************************************************************************)
EXTENDS Integers, Sequences, SequencesExt, FiniteSetsExt

CONSTANTS Ends,           \* the two consoles
          Larger,         \* the one whose XNADDR has the larger MAC
          None,
          Retries,        \* packets of the exchange before an end gives up
          PendingLimit,   \* what may wait for an association: 32
          Window, Jump, LowRange, MaxSequence, AllowZero,  \* see ReplayWindow
          Rooms,          \* how many frames the outbound list may have room for
          Actions,        \* what may happen: a subset of AllActions
          MaxGenerations, MaxFreshness, MaxData  \* bounds on the model

AllActions == {"connect", "send", "close", "restart", "expire", "keepalive"}

\* What the constants have to be.
AssociationAssumption ==
  /\ Larger \in Ends /\ None \notin Ends
  /\ Retries \in Nat \ {0} /\ PendingLimit \in Nat
  /\ Rooms \subseteq Nat
  /\ Actions \subseteq AllActions
  /\ MaxGenerations \in Nat /\ MaxFreshness \in Nat /\ MaxData \in Nat

Replay == INSTANCE ReplayWindow WITH window <- 0, used <- 0, taken <- 0

VARIABLES state,      \* the association of an end, or None
          generation, \* how many associations an end has made
          freshness,  \* the last freshness an end sent
          net,        \* the frames sent to an end
          owner,      \* what the owner last heard or did: a peer's status
          accepted,   \* how many datagrams Send has taken
          dropped,    \* those the owner knows may be lost
          delivered   \* the datagrams given to an end's owner, in order
vars == <<state, generation, freshness, net, owner, accepted, dropped, delivered>>

Other(e) == CHOOSE f \in Ends : f # e
Generations == Ends \X (1 .. MaxGenerations)
Datums == Ends \X (1 .. MaxData)
Keepalive == <<None, "keepalive">>
Teardown == <<None, "teardown">>

Frames ==
  [kind : {"request"}, spi : Generations, fresh : Nat]
    \union [kind : {"response"}, spi : Generations, rspi : Generations, fresh : Nat]
    \union [kind : {"protected"}, spi : Generations, keys : Generations \X Generations,
            sequence : Replay!Sequence, body : Datums \union {Keepalive, Teardown}]

States ==
  [status : {"pending", "established"}, initiator : BOOLEAN,
   local : Generations, remote : Generations \union {None},
   remoteFreshness : Nat, attempts : Nat, pending : Seq(Datums),
   sequence : Nat, haveSent : BOOLEAN, replay : Replay!Windows]

Pending(e) == state[e] # None /\ state[e].status = "pending"
Established(e) == state[e] # None /\ state[e].status = "established"

\* The traffic keys: the generation of the initiator, then the responder's.
KeysOf(s) == IF s.initiator THEN <<s.local, s.remote>> ELSE <<s.remote, s.local>>

\* The generation that made the request this association belongs to.
Challenge(s) == IF s.initiator THEN s.local ELSE s.remote

Init ==
  /\ state = [e \in Ends |-> None]
  /\ generation = [e \in Ends |-> 0]
  /\ freshness = [e \in Ends |-> 0]
  /\ net = [e \in Ends |-> {}]
  /\ owner = [e \in Ends |-> "none"]
  /\ accepted = [e \in Ends |-> 0]
  /\ dropped = [e \in Ends |-> {}]
  /\ delivered = [e \in Ends |-> << >>]

-----------------------------------------------------------------------------
(***************************************************************************)
(* What the handlers are made of.  An operator on a state returns it with  *)
(* the frames it sent.                                                     *)
(***************************************************************************)
NewState(e, initiator, remote, fresh, pending) ==
  [status |-> "pending", initiator |-> initiator,
   local |-> <<e, generation[e] + 1>>, remote |-> remote,
   remoteFreshness |-> fresh, attempts |-> 0, pending |-> pending,
   sequence |-> 0, haveSent |-> FALSE, replay |-> Replay!NewWindow]

ExchangeFrame(s, fresh) ==
  IF s.initiator THEN [kind |-> "request", spi |-> s.local, fresh |-> fresh]
  ELSE [kind |-> "response", spi |-> s.remote, rspi |-> s.local, fresh |-> fresh]

\* A bug: the packets of an exchange are not counted.
ExchangeUncounted(s, fresh, room) ==
  [state |-> s, frames |-> IF room = 0 THEN {} ELSE {ExchangeFrame(s, fresh)}]

\* A request or a response, with a freshness of its own.
ExchangePacket(s, fresh, room) ==
  IF room = 0 THEN [state |-> s, frames |-> {}]
  ELSE [state |-> [s EXCEPT !.attempts = @ + 1], frames |-> {ExchangeFrame(s, fresh)}]

\* The number of the k-th packet from now.
NthSequence(s, k) ==
  IF ~s.haveSent /\ AllowZero THEN k - 1 ELSE s.sequence + k

\* A bug: the numbers of a generation do not run out.
UnusedForEver(s) == MaxSequence + 1

\* The numbers this generation has left.
Unused(s) == MaxSequence - NthSequence(s, 0)

Protected(s, body, k) ==
  [kind |-> "protected", spi |-> s.remote, keys |-> KeysOf(s),
   sequence |-> NthSequence(s, k), body |-> body]

\* The packets in |bodies| are protected one after the other, as far as there
\* is room and there are numbers left.
ProtectAll(s, bodies, room) ==
  LET sent == IF s.status = "established" THEN Min({Len(bodies), room, Unused(s)}) ELSE 0
  IN  [state |-> IF sent = 0 THEN s
                 ELSE [s EXCEPT !.sequence = NthSequence(s, sent), !.haveSent = TRUE],
       frames |-> {Protected(s, bodies[k], k) : k \in 1 .. sent},
       sent |-> sent]

\* A bug: the queue is cleared whether or not it could be sent.
FlushAll(s, first, room) ==
  LET p == ProtectAll(s, first \o s.pending, room)
  IN  [p EXCEPT !.state.pending = << >>]

\* |first|, then what waited for the association, which keeps what is not sent.
Flush(s, first, room) ==
  LET p == ProtectAll(s, first \o s.pending, room)
      gone == Max({p.sent - Len(first), 0})
  IN  [p EXCEPT !.state.pending = SubSeq(@, gone + 1, Len(@))]

\* The association is established by what arrived, which may confirm it only.
Establish(s, room) ==
  IF s.status = "established" THEN [state |-> s, frames |-> {}]
  ELSE Flush([s EXCEPT !.status = "established", !.attempts = 0], <<Keepalive>>, room)

\* A step of |e| that leaves it the association of |result|.
Keep(e, result) ==
  /\ state' = [state EXCEPT ![e] = result.state]
  /\ net' = [net EXCEPT ![Other(e)] = @ \union result.frames]

AcceptedBy(e) == {<<e, k>> : k \in 1 .. accepted[e]}

\* The owner is told that the association retired.
TellRetired(e) ==
  /\ owner' = [owner EXCEPT ![e] = "retired"]
  /\ dropped' = [dropped EXCEPT ![e] = AcceptedBy(e)]

\* A bug: the owner is not told of an association that ends.
RetiredUntold(e) ==
  /\ state' = [state EXCEPT ![e] = None]
  /\ UNCHANGED <<owner, dropped>>

Retired(e) ==
  /\ state' = [state EXCEPT ![e] = None]
  /\ TellRetired(e)

\* The owner hears Connected when an association becomes established.
TellConnected(e, s, t) ==
  owner' = [owner EXCEPT ![e] =
              IF s.status = "pending" /\ t.status = "established" THEN "connected" ELSE @]

NewFreshness(e) ==
  /\ freshness[e] < MaxFreshness
  /\ freshness' = [freshness EXCEPT ![e] = @ + 1]

-----------------------------------------------------------------------------
(***************************************************************************)
(* The owner's calls.                                                      *)
(***************************************************************************)
\* A new association of |e| with the datagrams in |pending| waiting for it.
Initiate(e, pending) ==
  /\ state[e] = None /\ generation[e] < MaxGenerations
  /\ NewFreshness(e)
  /\ \E room \in Rooms \ {0} :
       Keep(e, ExchangePacket(NewState(e, TRUE, None, 0, pending), freshness[e] + 1, room))
  /\ generation' = [generation EXCEPT ![e] = @ + 1]
  /\ owner' = [owner EXCEPT ![e] = "connecting"]

\* Asking again, or asking for what the peer has asked for, changes nothing.
Connect(e) ==
  /\ "connect" \in Actions
  /\ \/ Initiate(e, << >>)
     \/ /\ Pending(e)
        /\ owner' = [owner EXCEPT ![e] = "connecting"]
        /\ UNCHANGED <<state, generation, freshness, net>>
  /\ UNCHANGED <<accepted, dropped, delivered>>

\* A datagram connects first if it must.
Send(e) ==
  /\ "send" \in Actions /\ accepted[e] < MaxData
  /\ accepted' = [accepted EXCEPT ![e] = @ + 1]
  /\ LET datum == <<e, accepted[e] + 1>>
     IN  \/ Initiate(e, <<datum>>)
         \/ /\ Pending(e) /\ Len(state[e].pending) < PendingLimit
            /\ state' = [state EXCEPT ![e].pending = Append(@, datum)]
            /\ owner' = [owner EXCEPT ![e] = "connecting"]
            /\ UNCHANGED <<generation, freshness, net>>
         \/ /\ Established(e)
            /\ \E room \in Rooms :
                 LET p == ProtectAll(state[e], <<datum>>, room)
                 IN  p.sent = 1 /\ Keep(e, p)
            /\ UNCHANGED <<generation, freshness, owner>>
  /\ UNCHANGED <<dropped, delivered>>

\* The peer is told, if the association is established, and the owner knows.
Close(e) ==
  /\ "close" \in Actions /\ state[e] # None
  /\ \E room \in Rooms :
       net' = [net EXCEPT ![Other(e)] =
                 @ \union ProtectAll(state[e], <<Teardown>>, room).frames]
  /\ Retired(e)
  /\ UNCHANGED <<generation, freshness, accepted, delivered>>

\* The transport was lost or the title ended: all associations go, and the
\* owner starts over.
Reset(e) ==
  /\ "restart" \in Actions /\ state[e] # None
  /\ state' = [state EXCEPT ![e] = None]
  /\ owner' = [owner EXCEPT ![e] = "none"]
  /\ dropped' = [dropped EXCEPT ![e] = AcceptedBy(e)]
  /\ UNCHANGED <<generation, freshness, net, accepted, delivered>>

-----------------------------------------------------------------------------
(***************************************************************************)
(* Frames from the peer.                                                   *)
(***************************************************************************)
\* A bug: a response to an established association gives it new keys.
RekeyingResponse(e, m) ==
  /\ m.kind = "response" /\ state[e] # None
  /\ LET s == state[e]
     IN  /\ s.initiator /\ m.spi = s.local /\ m.fresh > s.remoteFreshness
         /\ LET t == [s EXCEPT !.remote = m.rspi, !.remoteFreshness = m.fresh]
            IN  \E room \in Rooms :
                  /\ Keep(e, IF s.status = "established"
                             THEN ProtectAll(t, <<Keepalive>>, room) ELSE Establish(t, room))
                  /\ TellConnected(e, s, Establish(t, room).state)
  /\ UNCHANGED <<generation, freshness, accepted, dropped, delivered>>

\* The answer to this end's request.  A later one may confirm the association
\* but never rekeys it.
ReceiveResponse(e, m) ==
  /\ m.kind = "response" /\ state[e] # None
  /\ LET s == state[e]
     IN  /\ s.initiator /\ m.spi = s.local /\ m.fresh > s.remoteFreshness
         /\ s.status = "established" => m.rspi = s.remote
         /\ LET t == [s EXCEPT !.remote = m.rspi, !.remoteFreshness = m.fresh]
            IN  \E room \in Rooms :
                  /\ Keep(e, IF s.status = "established"
                             THEN ProtectAll(t, <<Keepalive>>, room) ELSE Establish(t, room))
                  /\ TellConnected(e, s, Establish(t, room).state)
  /\ UNCHANGED <<generation, freshness, accepted, dropped, delivered>>

\* A bug: a request is looked at however old it is.
AnyFreshness(e, m) == TRUE

\* An association answers nothing older than what it has heard.
Newer(e, m) == state[e] # None => m.fresh > state[e].remoteFreshness

\* Both ends asked at once.
Simultaneous(e) == Pending(e) /\ state[e].initiator

\* A retry of the request this association answers gets the answer again while
\* it is pending.
ReceiveRetry(e, m) ==
  /\ m.kind = "request" /\ state[e] # None /\ Newer(e, m)
  /\ ~Simultaneous(e) /\ m.spi = Challenge(state[e])
  /\ LET s == [state[e] EXCEPT !.remoteFreshness = m.fresh]
     IN  IF s.status = "pending"
         THEN /\ NewFreshness(e)
              /\ \E room \in Rooms : Keep(e, ExchangePacket(s, freshness[e] + 1, room))
         ELSE /\ state' = [state EXCEPT ![e] = s]
              /\ UNCHANGED <<freshness, net>>
  /\ UNCHANGED <<generation, owner, accepted, dropped, delivered>>

\* A bug: neither end of a simultaneous connect yields.
BothInsist(e) == Simultaneous(e)

\* The end with the larger MAC stays the initiator of a simultaneous connect.
Insists(e) == Simultaneous(e) /\ e = Larger

\* A bug: the side that yields forgets what it queued.
AnswerEmpty(e, m) ==
  NewState(e, FALSE, m.spi, m.fresh, << >>)

\* The association that answers a request.  The side of a simultaneous connect
\* that yields keeps what its title queued.
Answer(e, m) ==
  NewState(e, FALSE, m.spi, m.fresh, IF Simultaneous(e) THEN state[e].pending ELSE << >>)

\* A bug: the owner does not hear of the association a request replaces.
ReplaceSilently(e) == UNCHANGED <<owner, dropped>>

\* The owner hears of the association that a request replaces, but for the one
\* that yields, which the new one stands for.
Replace(e) ==
  IF state[e] # None /\ ~Simultaneous(e) THEN TellRetired(e) ELSE UNCHANGED <<owner, dropped>>

\* A request that is not a retry is answered in a new association.  One that
\* cannot be sent is not kept.
ReceiveRequest(e, m) ==
  /\ m.kind = "request" /\ Newer(e, m) /\ ~Insists(e)
  /\ (state[e] # None /\ ~Simultaneous(e)) => m.spi # Challenge(state[e])
  /\ generation[e] < MaxGenerations
  /\ NewFreshness(e)
  /\ generation' = [generation EXCEPT ![e] = @ + 1]
  /\ \E room \in Rooms :
       LET s == Answer(e, m)
       IN  IF room = 0
           THEN state' = [state EXCEPT ![e] = None] /\ UNCHANGED net
           ELSE Keep(e, ExchangePacket(s, freshness[e] + 1, room))
  /\ Replace(e)
  /\ UNCHANGED <<accepted, delivered>>

\* A packet for this association that its keys open and its window permits.
Opens(e, m) ==
  /\ m.kind = "protected" /\ state[e] # None
  /\ LET s == state[e]
     IN  /\ m.spi = s.local /\ m.keys = KeysOf(s)
         /\ s.initiator => s.status = "established"
         /\ m.sequence \in Replay!Candidates(s.replay, m.sequence % LowRange)

\* A bug: the window does not remember what it permitted.
Unrecorded(e, m) == state[e]

Taken(e, m) == [state[e] EXCEPT !.replay = Replay!Commit(@, m.sequence)]

ReceiveTeardown(e, m) ==
  /\ Opens(e, m) /\ m.body = Teardown
  /\ Retired(e)
  /\ UNCHANGED <<generation, freshness, net, accepted, delivered>>

\* The first packet establishes the side that answered.
ReceivePacket(e, m) ==
  /\ Opens(e, m) /\ m.body # Teardown
  /\ \E room \in Rooms :
       LET s == Taken(e, m)
       IN  Keep(e, Establish(s, room)) /\ TellConnected(e, s, Establish(s, room).state)
  /\ delivered' = [delivered EXCEPT ![e] = IF m.body = Keepalive THEN @ ELSE Append(@, m.body)]
  /\ UNCHANGED <<generation, freshness, accepted, dropped>>

Receive(e, m) ==
  \/ ReceiveResponse(e, m)
  \/ ReceiveRetry(e, m)
  \/ ReceiveRequest(e, m)
  \/ ReceiveTeardown(e, m)
  \/ ReceivePacket(e, m)

-----------------------------------------------------------------------------
(***************************************************************************)
(* Time.  How long ago the last packet was is left open: each of the       *)
(* timeouts may have come at any tick.                                     *)
(***************************************************************************)
\* Nothing arrived for too long, or the numbers are used up.
TickExpire(e) ==
  /\ state[e] # None
  /\ "expire" \in Actions \/ state[e].sequence = MaxSequence
  /\ Retired(e)
  /\ UNCHANGED <<generation, freshness, net, accepted, delivered>>

\* The exchange is tried again, or has been tried often enough.
TickRetry(e) ==
  /\ Pending(e)
  /\ IF state[e].attempts >= Retries
     THEN "expire" \in Actions /\ Retired(e) /\ UNCHANGED <<freshness, net>>
     ELSE /\ NewFreshness(e)
          /\ \E room \in Rooms : Keep(e, ExchangePacket(state[e], freshness[e] + 1, room))
          /\ UNCHANGED <<owner, dropped>>
  /\ UNCHANGED <<generation, accepted, delivered>>

\* A keepalive if it is time for one, and what could not be sent before.
TickEstablished(e) ==
  /\ Established(e)
  /\ \E room \in Rooms, due \in BOOLEAN :
       /\ due => "keepalive" \in Actions
       /\ Keep(e, Flush(state[e], IF due THEN <<Keepalive>> ELSE << >>, room))
  /\ UNCHANGED <<generation, freshness, owner, accepted, dropped, delivered>>

Tick(e) == TickExpire(e) \/ TickRetry(e) \/ TickEstablished(e)

Next ==
  \E e \in Ends :
    \/ Connect(e) \/ Send(e) \/ Close(e) \/ Reset(e) \/ Tick(e)
    \/ \E m \in net[e] : Receive(e, m)

Spec == Init /\ [][Next]_vars

\* The owner's thread ticks for ever, and every frame arrives in the end: a frame
\* that has arrived has no effect a second time, so one at a time is enough.
Fairness ==
  \A e \in Ends :
    /\ WF_vars(TickRetry(e))
    /\ WF_vars(TickEstablished(e))
    /\ WF_vars(\E m \in net[e] : Receive(e, m))

-----------------------------------------------------------------------------
TypeOK ==
  /\ \A e \in Ends : state[e] = None \/ state[e] \in States
  /\ generation \in [Ends -> 0 .. MaxGenerations]
  /\ freshness \in [Ends -> 0 .. MaxFreshness]
  /\ \A e \in Ends : net[e] \subseteq Frames
  /\ owner \in [Ends -> {"none", "connecting", "connected", "retired"}]
  /\ accepted \in [Ends -> 0 .. MaxData]
  /\ \A e \in Ends : dropped[e] \subseteq Datums /\ delivered[e] \in Seq(Datums)

\* The two ends have established the same association.
Shared ==
  /\ \A e \in Ends : Established(e)
  /\ \A e \in Ends : state[e].remote = state[Other(e)].local

\* No datagram reaches the owner twice, whatever the network repeats and however
\* often the ends start over (Associations::Receive, ReplayWindow::Commit).
DeliveredOnce ==
  \A e \in Ends : \A j, k \in DOMAIN delivered[e] :
    delivered[e][j] = delivered[e][k] => j = k

\* A datagram Send took waits for its association, was sent, or belonged to an
\* association whose end the owner knows of.
Accounted ==
  \A e \in Ends : \A d \in AcceptedBy(e) :
    \/ state[e] # None /\ Contains(state[e].pending, d)
    \/ \E m \in net[Other(e)] : m.kind = "protected" /\ m.body = d
    \/ d \in dropped[e]

\* The owner knows of every association that is established, and one its title
\* asked for does not go away unheard.
OwnerKnows ==
  \A e \in Ends :
    /\ owner[e] = "connected" <=> Established(e)
    /\ owner[e] = "connecting" => Pending(e)

\* "A simultaneous connect is answered in the association the title asked for":
\* a title that waits for its peer has an association that waits for it.
AskedForIsAnswered == \A e \in Ends : owner[e] = "connecting" => Pending(e)

\* An established association keeps its keys for as long as it lives.
KeepsKeys(e) ==
  (Established(e) /\ state'[e] # None /\ state'[e].local = state[e].local)
    => /\ state'[e].status = "established"
       /\ state'[e].remote = state[e].remote

\* While two ends share an association no frame that is late ends it, be it a
\* request, a response or a teardown: it ends when an end closes it, or when its
\* numbers are used up.
EndsFresh ==
  Shared => \A e \in Ends :
    \/ state'[e] # None /\ state'[e].local = state[e].local
    \/ state[e].sequence = MaxSequence
    \/ \E m \in net'[Other(e)] :
         m.kind = "protected" /\ m.body = Teardown /\ m.keys = KeysOf(state[e])

\* A title that waits for its peer hears from it or hears that it is gone.
PendingEnds == \A e \in Ends : Pending(e) ~> ~Pending(e)

\* If no frame is lost two consoles that ask for each other come to share an
\* association, whoever asks first, and get all that was sent.
Met ==
  /\ Shared
  /\ \A e \in Ends : \A d \in AcceptedBy(Other(e)) : Contains(delivered[e], d)
Meet == (\E e \in Ends : state[e] # None) ~> []Met

\* The owner's thread ticks for ever.
TickSpec ==
  Spec /\ \A e \in Ends : WF_vars(TickRetry(e)) /\ WF_vars(TickEstablished(e))
=============================================================================

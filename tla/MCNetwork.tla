------------------------------- MODULE MCNetwork ------------------------------
(***************************************************************************)
(* A replay window, or a TCP connection between two consoles in one of     *)
(* five settings, or secure associations in one of five: the initial state *)
(* chooses.  The variables of the other models keep their initial values.  *)
(***************************************************************************)
EXTENDS ReplayWindow, Sequences

CONSTANTS a, b, None

VARIABLES
  model,
  tConn, tUser, tListening, tNet, tLinked, tLost, tHasty, tAnswers, tWritten, tGot,
  aState, aGeneration, aFreshness, aNet, aOwner, aAccepted, aDropped, aDelivered

tVars == <<tConn, tUser, tListening, tNet, tLinked, tLost, tHasty, tAnswers, tWritten,
           tGot>>
aVars == <<aState, aGeneration, aFreshness, aNet, aOwner, aAccepted, aDropped,
           aDelivered>>

Peer(e) == IF e = a THEN b ELSE a
\* a's sequence numbers wrap after its first byte.
FirstSequence(e, n) == IF e = a THEN 14 ELSE (5 + 4 * n) % 16
Writes(n) == [e \in {a, b} |-> IF e = a THEN n ELSE 0]

\* Two segments are lost.
Lossy == INSTANCE TcpLink WITH
         Ends <- {a, b}, Other <- Peer, Iss <- FirstSequence, Listeners <- {b},
         SeqSpace <- 16, EarlyLimit <- 2, DuplicateAcks <- 2, Connectors <- {a},
         BufferSize <- 2, Mss <- 2, SynRetries <- 2, Retries <- 4,
         MaxWrites <- Writes(3), MaxLost <- 2, MaxAnswers <- 1, MaxHasty <- 0,
         Ops <- {"handshake"}, conn <- tConn, user <- tUser, listening <- tListening,
         net <- tNet, linked <- tLinked, lost <- tLost, hasty <- tHasty,
         answers <- tAnswers, written <- tWritten, got <- tGot
\* Both ends shut down.
Closing == INSTANCE TcpLink WITH
         Ends <- {a, b}, Other <- Peer, Iss <- FirstSequence, Listeners <- {b},
         SeqSpace <- 16, EarlyLimit <- 2, DuplicateAcks <- 2, Connectors <- {a},
         BufferSize <- 2, Mss <- 1, SynRetries <- 1, Retries <- 3,
         MaxWrites <- Writes(1), MaxLost <- 1, MaxAnswers <- 1, MaxHasty <- 0,
         Ops <- {"handshake", "shutdown"}, conn <- tConn, user <- tUser,
         listening <- tListening, net <- tNet, linked <- tLinked, lost <- tLost,
         hasty <- tHasty, answers <- tAnswers, written <- tWritten, got <- tGot
\* Ends abort and close with timers that fire early.
Abort == INSTANCE TcpLink WITH
         Ends <- {a, b}, Other <- Peer, Iss <- FirstSequence, Listeners <- {b},
         SeqSpace <- 16, EarlyLimit <- 2, DuplicateAcks <- 2, Connectors <- {a},
         BufferSize <- 1, Mss <- 1, SynRetries <- 1, Retries <- 1,
         MaxWrites <- Writes(1), MaxLost <- 0, MaxAnswers <- 1, MaxHasty <- 1,
         Ops <- {"handshake", "close", "abort"}, conn <- tConn, user <- tUser,
         listening <- tListening, net <- tNet, linked <- tLinked, lost <- tLost,
         hasty <- tHasty, answers <- tAnswers, written <- tWritten, got <- tGot
\* The association goes away.
Retire == INSTANCE TcpLink WITH
         Ends <- {a, b}, Other <- Peer, Iss <- FirstSequence, Listeners <- {b},
         SeqSpace <- 16, EarlyLimit <- 2, DuplicateAcks <- 2, Connectors <- {a},
         BufferSize <- 1, Mss <- 1, SynRetries <- 1, Retries <- 1,
         MaxWrites <- Writes(1), MaxLost <- 0, MaxAnswers <- 1, MaxHasty <- 0,
         Ops <- {"handshake", "shutdown", "retire", "close", "orphan"}, conn <- tConn,
         user <- tUser, listening <- tListening, net <- tNet, linked <- tLinked,
         lost <- tLost, hasty <- tHasty, answers <- tAnswers, written <- tWritten,
         got <- tGot
\* Both ends connect.
Handshake == INSTANCE TcpLink WITH
         Ends <- {a, b}, Other <- Peer, Iss <- FirstSequence, Listeners <- {b},
         SeqSpace <- 16, EarlyLimit <- 2, DuplicateAcks <- 2, Connectors <- {a, b},
         BufferSize <- 1, Mss <- 1, SynRetries <- 1, Retries <- 1,
         MaxWrites <- Writes(0), MaxLost <- 0, MaxAnswers <- 2, MaxHasty <- 1,
         Ops <- {"handshake", "close"}, conn <- tConn, user <- tUser,
         listening <- tListening, net <- tNet, linked <- tLinked, lost <- tLost,
         hasty <- tHasty, answers <- tAnswers, written <- tWritten, got <- tGot
\* Both ends connect and close, up to three times.
Exchange == INSTANCE Association WITH
         Larger <- b, Ends <- {a, b}, Retries <- 1, PendingLimit <- 2, Rooms <- {9},
         Actions <- {"connect", "close"}, MaxGenerations <- 3, MaxFreshness <- 4,
         MaxData <- 0, state <- aState, generation <- aGeneration,
         freshness <- aFreshness, net <- aNet, owner <- aOwner, accepted <- aAccepted,
         dropped <- aDropped, delivered <- aDelivered
\* They also send, twice.
Data == INSTANCE Association WITH
         Larger <- b, Ends <- {a, b}, Retries <- 1, PendingLimit <- 1, Rooms <- {9},
         Actions <- {"connect", "send", "close"}, MaxGenerations <- 2,
         MaxFreshness <- 4, MaxData <- 2, state <- aState, generation <- aGeneration,
         freshness <- aFreshness, net <- aNet, owner <- aOwner, accepted <- aAccepted,
         dropped <- aDropped, delivered <- aDelivered
\* Consoles restart and associations expire.
Time == INSTANCE Association WITH
         Larger <- b, Ends <- {a, b}, Retries <- 1, PendingLimit <- 2, Rooms <- {9},
         Actions <- {"connect", "send", "restart", "expire"}, MaxGenerations <- 2,
         MaxFreshness <- 4, MaxData <- 1, state <- aState, generation <- aGeneration,
         freshness <- aFreshness, net <- aNet, owner <- aOwner, accepted <- aAccepted,
         dropped <- aDropped, delivered <- aDelivered
\* The list of outbound frames is full at times.
Traffic == INSTANCE Association WITH
         Larger <- b, Ends <- {a, b}, Retries <- 1, PendingLimit <- 2, Rooms <- {1, 9},
         Actions <- {"send", "close"}, MaxGenerations <- 2, MaxFreshness <- 2,
         MaxData <- 2, state <- aState, generation <- aGeneration,
         freshness <- aFreshness, net <- aNet, owner <- aOwner, accepted <- aAccepted,
         dropped <- aDropped, delivered <- aDelivered
\* As much data as there are sequence numbers.
Wraps == INSTANCE Association WITH
         Larger <- b, Ends <- {a, b}, Retries <- 1, PendingLimit <- 2, Rooms <- {9},
         Actions <- {"send"}, MaxGenerations <- 1, MaxFreshness <- 2, MaxData <- 5,
         state <- aState, generation <- aGeneration, freshness <- aFreshness,
         net <- aNet, owner <- aOwner, accepted <- aAccepted, dropped <- aDropped,
         delivered <- aDelivered

ASSUME LinksOK ==
  /\ Lossy!LinkAssumption /\ Closing!LinkAssumption /\ Abort!LinkAssumption
  /\ Retire!LinkAssumption /\ Handshake!LinkAssumption
ASSUME AssociationsOK ==
  /\ Exchange!AssociationAssumption /\ Data!AssociationAssumption /\ Time!AssociationAssumption
  /\ Traffic!AssociationAssumption /\ Wraps!AssociationAssumption

MCInit ==
  /\ WindowInit /\ Lossy!Init /\ Exchange!Init
  /\ model \in {"window", "lossy", "closing", "abort", "retire", "handshake",
                "exchange", "data", "time", "traffic", "wraps"}
Links ==
  \/ model = "lossy" /\ Lossy!Next
  \/ model = "closing" /\ Closing!Next
  \/ model = "abort" /\ Abort!Next
  \/ model = "retire" /\ Retire!Next
  \/ model = "handshake" /\ Handshake!Next
Associations ==
  \/ model = "exchange" /\ Exchange!Next
  \/ model = "data" /\ Data!Next
  \/ model = "time" /\ Time!Next
  \/ model = "traffic" /\ Traffic!Next
  \/ model = "wraps" /\ Wraps!Next
MCNext ==
  \/ model = "window" /\ WindowNext /\ UNCHANGED <<model, tVars, aVars>>
  \/ Links /\ UNCHANGED <<model, windowVars, aVars>>
  \/ Associations /\ UNCHANGED <<model, windowVars, tVars>>
MCSpec == MCInit /\ [][MCNext]_<<model, windowVars, tVars, aVars>>

\* Either direction of a connection is a reliable stream, whatever is lost or late, however
\* the guests close, abort or shut down and when the association ends
\* (net/xnet_stream.cc, TcpConnection).
BothStreams ==
  /\ \A e \in {a, b} : Lossy!Stream(e)!Init
  /\ [][model # "handshake" => Lossy!StreamSteps]_<<model, windowVars, tVars, aVars>>

\* What an end drops from its send buffer has reached the peer, two connected ends took up
\* each other's numbers, and one that waits has a timer that ends the wait.  No datagram is
\* delivered twice, and one that is lost is one its owner knows may be (net/xnet_stream.cc,
\* TcpConnection::Input, Output; net/xnet_association.cc, Receive, Send, Retire).
EndsAgree ==
  /\ model = "lossy" => Lossy!TypeOK /\ Lossy!AckedIsReceived /\ Lossy!NoSilentStall
  /\ model = "closing" => Closing!NeverTimesOut
  /\ model = "handshake" => Handshake!HandshakeAgrees
  /\ Data!DeliveredOnce /\ Data!Accounted /\ Data!OwnerKnows

\* An established association keeps its keys, and no late frame ends one that both ends
\* share (net/xnet_association.cc, ReceiveRequest, ReceiveResponse).
NothingStaleEnds ==
  [][/\ \A e \in {a, b} : Data!KeepsKeys(e)
     /\ model \in {"exchange", "data"} =>
          Data!EndsFresh]_<<model, windowVars, tVars, aVars>>
===============================================================================

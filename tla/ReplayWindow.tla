---------------------------- MODULE ReplayWindow ----------------------------
(***************************************************************************)
(* The window that keeps a protected packet from being taken twice         *)
(* (xnet_secure.cc).  Packets carry the low bits of their sequence number  *)
(* only; the receiver guesses the rest, tries to authenticate each guess,  *)
(* and remembers the newest number and which of the Window numbers below   *)
(* it have arrived.                                                        *)
(*                                                                         *)
(* The first part is the window as operators, which Association uses.  The *)
(* second part is the window alone against a network that delivers any     *)
(* number at any time, as often as it likes.                               *)
(***************************************************************************)
EXTENDS Integers

CONSTANTS Window,       \* how many numbers are remembered: 32
          Jump,         \* how far ahead of the newest a number may be: 4096
          LowRange,     \* how many low parts there are: 65536
          MaxSequence,  \* the largest number: UINT32_MAX
          AllowZero     \* number zero is in use (sequence_zero)

\* The low part tells every number the window can permit from the others.
ASSUME WindowAssumption ==
  /\ Window \in Nat \ {0}
  /\ Jump \in Nat \ {0}
  /\ LowRange \in Nat
  /\ Window + Jump <= LowRange
  /\ MaxSequence \in Nat \ {0}
  /\ AllowZero \in BOOLEAN

Sequence == 0 .. MaxSequence

\* |seen| holds the ages, counted back from |highest|, of what has arrived:
\* the bits of the code's mask.
Windows == [highest : Sequence, seen : SUBSET (0 .. Window - 1)]

NewWindow == [highest |-> 0, seen |-> {}]

\* A bug: how old a number may be is not bounded by the mask.
AnyAge(w, s) ==
  /\ s # 0 \/ AllowZero
  /\ \/ s > w.highest /\ s - w.highest <= Jump
     \/ s <= w.highest /\ w.highest - s \notin w.seen

\* A bug: the jump ahead is bounded one short.
ShortJump(w, s) ==
  /\ s # 0 \/ AllowZero
  /\ \/ s > w.highest /\ s - w.highest < Jump
     \/ s <= w.highest /\ w.highest - s < Window /\ w.highest - s \notin w.seen

Permitted(w, s) ==
  /\ s # 0 \/ AllowZero
  /\ \/ s > w.highest /\ s - w.highest <= Jump
     \/ s <= w.highest /\ w.highest - s < Window /\ w.highest - s \notin w.seen

\* A bug: a number whose low part wrapped since the newest is not guessed.
SameHighPart(w, low) ==
  {s \in {w.highest - (w.highest % LowRange) + low} :
     s \in Sequence /\ Permitted(w, s)}

\* The numbers with this low part next to the newest one.
Candidates(w, low) ==
  LET base == w.highest - (w.highest % LowRange) + low
  IN  {s \in {base, base - LowRange, base + LowRange} :
         s \in Sequence /\ Permitted(w, s)}

\* A bug: the bit of the newest number is left clear.
NewestUnmarked(w, s) ==
  IF s > w.highest
  THEN [highest |-> s,
        seen |-> {a \in 0 .. Window - 1 : a - (s - w.highest) \in w.seen}]
  ELSE [w EXCEPT !.seen = @ \union {w.highest - s}]

\* The window after a permitted number: a newer one moves the mask along.
Commit(w, s) ==
  IF s > w.highest
  THEN [highest |-> s,
        seen |-> {0} \union
                 {a \in 0 .. Window - 1 : a - (s - w.highest) \in w.seen}]
  ELSE [w EXCEPT !.seen = @ \union {w.highest - s}]

-----------------------------------------------------------------------------
(***************************************************************************)
(* The window alone.  The sender has used every number up to |used|; a     *)
(* packet authenticates only as the number it was sent with.               *)
(***************************************************************************)
VARIABLES window,  \* the receiver's window
          used,    \* the last number the sender used, or -1
          taken    \* how often each number was taken
windowVars == <<window, used, taken>>

WindowInit == window = NewWindow /\ used = -1 /\ taken = [s \in Sequence |-> 0]

FirstNumber == IF AllowZero THEN 0 ELSE 1

Transmit ==
  /\ used < MaxSequence
  /\ used' = IF used = -1 THEN FirstNumber ELSE used + 1
  /\ UNCHANGED <<window, taken>>

\* A packet sent with number |s| arrives, again perhaps, and one of the
\* guesses authenticates.
Accept(s) ==
  /\ s \in FirstNumber .. used
  /\ s \in Candidates(window, s % LowRange)
  /\ window' = Commit(window, s)
  /\ taken' = [taken EXCEPT ![s] = @ + 1]
  /\ UNCHANGED used

WindowNext == Transmit \/ \E s \in Sequence : Accept(s)

WindowSpec == WindowInit /\ [][WindowNext]_windowVars

-----------------------------------------------------------------------------
WindowTypeOK ==
  /\ window \in Windows
  /\ used \in Sequence \union {-1}
  /\ taken \in [Sequence -> Nat]

\* No packet is taken twice, whatever the network repeats and however late
\* (ReplayWindow::Commit).
TakenOnce == \A s \in Sequence : taken[s] <= 1

\* A packet that has not arrived yet and is no older than the mask, nor too far
\* ahead, is among the guesses, also when its low part wrapped
\* (ReplayWindow::Candidates).
NewIsGuessed ==
  \A s \in FirstNumber .. used :
    (/\ taken[s] = 0
     /\ window.highest - s < Window
     /\ s - window.highest <= Jump)
       => s \in Candidates(window, s % LowRange)

\* The low part leaves one guess at most, so the order in which the guesses are
\* tried does not matter.
OneGuess ==
  \A low \in 0 .. LowRange - 1 :
    \A s, t \in Candidates(window, low) : s = t

=============================================================================

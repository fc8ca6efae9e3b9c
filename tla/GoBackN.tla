------------------------------ MODULE GoBackN ------------------------------
(***************************************************************************)
(* The Go-Back-N protocol of src/original-labs/gbn.c: sender A, receiver B *)
(* and the emulator's event list, one action per event handler.  Time is   *)
(* left out: the events that are scheduled (an arrival from layer 5, the   *)
(* packet at the head of either channel, a running timer) may be handled   *)
(* in any order that keeps each channel first-in first-out.  The emulator  *)
(* gives every packet the same delay and inserts events after those of the *)
(* same time, so it never reorders packets of a direction either.          *)
(*                                                                         *)
(* A message is the number of its arrival from layer 5; the statistics     *)
(* counters and the traces are left out.                                   *)
(***************************************************************************)
EXTENDS Integers, Sequences

CONSTANTS WINDOWSIZE,   \* the window size the user enters
          MAXBUFSIZE,   \* slots of the ring that buffers messages
          NSimMax,      \* nsimmax: messages to simulate
          MaxInFlight   \* bound: a timeout resends only below this load

ASSUME GoBackNAssumption ==
  /\ WINDOWSIZE \in Nat \ {0}
  /\ MAXBUFSIZE \in Nat \ {0}
  /\ NSimMax \in Nat
  /\ MaxInFlight \in Nat

\* A_output writes to the ring of buffered messages without looking whether it
\* is full.  The simulations considered are those in which it never is.
ASSUME NoBufferOverflow == NSimMax <= MAXBUFSIZE + WINDOWSIZE

VARIABLES nextseqnum, base,             \* A's window
          winbuf, winfront, winrear,    \* A's ring of packets to resend
          pktnum,                       \* what A takes for the ring's load
          buffer,                       \* messages waiting for the window
          timers,                       \* timers running for each packet
          toB, toA,                     \* packets and ACKs under way
          faulty,                       \* nlost + ncorrupt > 0
          expected_seqnum, delivered,   \* B
          nsim                          \* messages arrived from layer 5

sender  == <<nextseqnum, base, winbuf, winfront, winrear, pktnum, buffer>>
network == <<toB, toA, faulty>>
receiver == <<expected_seqnum, delivered>>
vars == <<sender, timers, network, receiver, nsim>>

NOTUSED == 0
SeqNums == 0..NSimMax
Slots   == 0..(WINDOWSIZE - 1)
Packet  == [seqnum : Int, payload : Int]

\* The content of a slot of the malloc'ed winbuf that was never written.  Any
\* value would do: ResendReadsWritten shows that none is ever sent.
Unwritten == [seqnum |-> -1, payload |-> -1]

Lesser(a, b) == IF a < b THEN a ELSE b

\* n slots further round A's ring.
SlotAfterUnwrapped(s, n) == s + n   \* mutant: the modulo dropped
SlotAfter(s, n) == (s + n) % WINDOWSIZE

Init ==
  /\ nextseqnum = 0 /\ base = 0
  /\ winbuf = [s \in Slots |-> Unwritten]
  /\ winfront = 0 /\ winrear = 0 /\ pktnum = 0
  /\ buffer = << >>
  /\ timers = [s \in SeqNums |-> 0]
  /\ toB = << >> /\ toA = << >> /\ faulty = FALSE
  /\ expected_seqnum = 0 /\ delivered = << >>
  /\ nsim = 0

-----------------------------------------------------------------------------
(* Timers: the events of the list that will interrupt A.                   *)

starttime_r(tm, s) == [tm EXCEPT ![s] = @ + 1]

\* Only the first timer of that packet found on the event list is removed.
stoptime_r(tm, s) == [tm EXCEPT ![s] = IF @ > 0 THEN @ - 1 ELSE 0]

-----------------------------------------------------------------------------
(* The sender.                                                             *)

\* A ring of MAXBUFSIZE slots read from its front: a message written when all
\* of them are taken overwrites the slot that an unread message is in.
BufferMessage(m) ==
  LET n == Len(buffer)
  IN  [i \in 1..(n + 1) |->
         IF (i - 1) % MAXBUFSIZE = n % MAXBUFSIZE THEN m ELSE buffer[i]]

\* The branch of A_output that sends, once for each message of ms, when the
\* window starts at b and the timers are tm.  The test for the timer is made
\* before nextseqnum is incremented: it is the packet after b that starts
\* the timer of b.
SendAll(ms, b, tm) ==
  LET n == Len(ms)
      new == [i \in 1..n |-> [seqnum  |-> nextseqnum + i - 1,
                              payload |-> ms[i]]]
  IN /\ winbuf' = [s \in Slots |->
                     LET i == (s - winrear) % WINDOWSIZE
                     IN  IF i < n THEN new[i + 1] ELSE winbuf[s]]
     /\ winrear' = SlotAfter(winrear, n)
     /\ nextseqnum' = nextseqnum + n
     /\ toB' = toB \o new
     /\ timers' = IF b + 1 \in nextseqnum..(nextseqnum + n - 1)
                    THEN starttime_r(tm, b) ELSE tm

A_output(m) ==
  IF nextseqnum < base + WINDOWSIZE
    THEN /\ SendAll(<<m>>, base, timers)
         /\ pktnum' = pktnum + 1
         /\ UNCHANGED <<base, winfront, buffer, toA, faulty, receiver>>
    ELSE /\ buffer' = BufferMessage(m)
         /\ UNCHANGED <<nextseqnum, base, winbuf, winfront, winrear, pktnum,
                        timers, network, receiver>>

\* A message arrives from layer 5, as long as there are some to simulate.
FromLayer5 ==
  /\ nsim < NSimMax
  /\ nsim' = nsim + 1
  /\ A_output(nsim)

\* The loop that frees the slots of acknowledged packets stops after f slots.
\* A full ring has winfront = winrear, and then it frees none.
LoopStopsLate(f, newbase) ==   \* mutant: the packet at base freed too
  LET s == SlotAfter(winfront, f)
  IN  s = winrear \/ winbuf[s].seqnum > newbase
LoopStopsAt(f, newbase) ==
  LET s == SlotAfter(winfront, f)
  IN  s = winrear \/ winbuf[s].seqnum >= newbase

\* How many buffered messages the window has room for once it is at newbase.
DrainsNone(newbase) == 0   \* mutant: the second loop of A_input missing
Drained(newbase) == Lesser(Len(buffer), newbase + WINDOWSIZE - nextseqnum)

\* The packet now at base gets a timer, if there is one.
NoRestart(tm, newbase) == tm   \* mutant: only the old timer is stopped
Restart(tm, newbase) ==
  IF newbase < nextseqnum THEN starttime_r(tm, newbase) ELSE tm

\* An ACK inside the window is cumulative; ACK 0 is taken for a damaged one.
Acknowledge(acknum) ==
  LET newbase == acknum + 1
      n == Drained(newbase)
  IN /\ base' = newbase
     /\ \E f \in Slots :
          /\ LoopStopsAt(f, newbase)
          /\ \A g \in 0..(f - 1) : ~ LoopStopsAt(g, newbase)
          /\ winfront' = SlotAfter(winfront, f)
          /\ pktnum' = pktnum - f + n
     /\ SendAll(SubSeq(buffer, 1, n), newbase,
                Restart(stoptime_r(timers, base), newbase))
     /\ buffer' = SubSeq(buffer, n + 1, Len(buffer))

A_input ==
  /\ toA # << >>
  /\ toA' = Tail(toA)
  /\ LET acknum == Head(toA)
     IN  IF acknum # NOTUSED /\ acknum \in base..(nextseqnum - 1)
           THEN Acknowledge(acknum)
           ELSE UNCHANGED <<sender, timers, toB>>
  /\ UNCHANGED <<faulty, receiver, nsim>>

\* A timer of packet s goes off.  MaxInFlight bounds what resends pile up.
A_packet_time_rinterrupt(s) ==
  /\ timers[s] > 0
  /\ IF s # base
       THEN /\ timers' = [timers EXCEPT ![s] = @ - 1]
            /\ UNCHANGED toB
       ELSE /\ Len(toB) + Len(toA) < MaxInFlight
            /\ toB' = toB \o [i \in 1..(nextseqnum - base) |->
                                winbuf[SlotAfter(winfront, i - 1)]]
            /\ UNCHANGED timers  \* the timer that went off, started again
  /\ UNCHANGED <<sender, toA, faulty, receiver, nsim>>

-----------------------------------------------------------------------------
(* The receiver and the channels.                                          *)

AcceptsAhead(p) == p.seqnum >= expected_seqnum   \* mutant: gaps accepted
Accepts(p) == p.seqnum = expected_seqnum

\* The cumulative ACK sent once B expects packet n.
AckOfNext(n) == n   \* mutant: the expected number, not the last received
AckFor(n) == n - 1

B_input ==
  /\ toB # << >>
  /\ toB' = Tail(toB)
  /\ LET p == Head(toB)
     IN  IF Accepts(p)
           THEN /\ delivered' = Append(delivered, p.payload)
                /\ expected_seqnum' = expected_seqnum + 1
           ELSE UNCHANGED receiver
  /\ toA' = Append(toA, AckFor(expected_seqnum'))
  /\ UNCHANGED <<sender, timers, faulty, nsim>>

\* The pattern string has a packet lost, and it never arrives, or corrupted,
\* and the input handler returns at its checksum test.  The fate is drawn
\* when the packet leaves the channel: nothing reads it before.
Perish ==
  /\ faulty' = TRUE
  /\ \/ toB # << >> /\ toB' = Tail(toB) /\ UNCHANGED toA
     \/ toA # << >> /\ toA' = Tail(toA) /\ UNCHANGED toB
  /\ UNCHANGED <<sender, timers, receiver, nsim>>

Next == \/ FromLayer5
        \/ A_input
        \/ \E s \in SeqNums : A_packet_time_rinterrupt(s)
        \/ B_input
        \/ Perish

Spec == Init /\ [][Next]_vars

\* The main loop handles every event it has scheduled.
Fairness == WF_vars(FromLayer5) /\ WF_vars(A_input) /\ WF_vars(B_input)

FairSpec == Spec /\ Fairness

-----------------------------------------------------------------------------
(* Correctness.                                                            *)

\* Type invariant: every variable keeps the C type it stands for, cursors
\* stay inside their rings.
TypeOK ==
  /\ nextseqnum \in SeqNums /\ base \in SeqNums
  /\ winbuf \in [Slots -> Packet]
  /\ winfront \in Slots /\ winrear \in Slots /\ pktnum \in Int
  /\ buffer \in Seq(Nat)
  /\ timers \in [SeqNums -> Nat]
  /\ toB \in Seq(Packet) /\ toA \in Seq(Int) /\ faulty \in BOOLEAN
  /\ expected_seqnum \in Nat /\ delivered \in Seq(Int)
  /\ nsim \in SeqNums

\* B passes up message 0, 1, 2, ... without a gap, a duplicate or a swap,
\* although A's ring may hold, and a timeout may resend, packets of an
\* earlier window (A_input's loop does not run on a full ring).
InOrder == \A i \in 1..Len(delivered) : delivered[i] = i - 1

\* A never takes for acknowledged what B has not delivered, and B never gets
\* ahead of what A has sent; at most a window lies between the two.
WindowBound == /\ base <= expected_seqnum
               /\ expected_seqnum <= nextseqnum
               /\ nextseqnum <= base + WINDOWSIZE

\* A message waits in the buffer only while the window is full: A_input's
\* second loop leaves nothing behind that nothing would later send.
BufferedOnlyWhenFull == buffer # << >> => nextseqnum = base + WINDOWSIZE

\* A timeout of base never reads a slot of the malloc'ed ring that was not
\* written, even when the ring's front has lost step with base.
ResendReadsWritten ==
  \A i \in 0..(nextseqnum - base - 1) :
    winbuf[SlotAfter(winfront, i)] # Unwritten

\* With two packets or more outstanding a timer of base is running.  (With a
\* single one there need not be: see TimerForBase.)
TimerForFullWindow == nextseqnum >= base + 2 => timers[base] > 0

\* Unless the channel loses or corrupts something, every message gets to
\* layer 5 at B.  (Not with a window of one, where the ACK of packet 0 is the
\* only one that could open the window and A ignores it.)
EverythingDelivered == <>(faulty \/ Len(delivered) = NSimMax)

\* The protocol delivers what the abstract transfer promises.
Abstract == INSTANCE ReliableTransfer WITH submitted <- nsim
ImplementsTransfer == Abstract!Spec

(* What the repository says of the protocol and the code does not do.      *)

\* rewrite-plan.md:43 has one timer, of the packet at base, running while
\* packets are outstanding.  A_output starts it one packet late.
TimerForBase == base < nextseqnum => timers[base] > 0

\* gbn.c:266 has a timeout resend every packet of the window: the slots it
\* reads from winfront on hold packets base, base + 1, ...
RingHoldsWindow ==
  \A i \in 0..(nextseqnum - base - 1) :
    winbuf[SlotAfter(winfront, i)].seqnum = base + i
=============================================================================

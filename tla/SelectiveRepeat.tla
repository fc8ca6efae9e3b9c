--------------------------- MODULE SelectiveRepeat ---------------------------
(***************************************************************************)
(* The Selective Repeat protocol of src/original-labs/stable.c, over the   *)
(* same emulator as GoBackN and with the same abstractions: no clock, FIFO *)
(* channels that lose or corrupt, messages known by their arrival number,  *)
(* no traces and no statistics.  Each packet has its own timer and its own *)
(* ACK, and the receiver keeps packets that arrive ahead of a gap.         *)
(***************************************************************************)
EXTENDS Integers, Sequences

CONSTANTS WINDOWSIZE,   \* the window size the user enters
          MAXBUFSIZE,   \* slots of the ring that buffers messages
          NSimMax,      \* nsimmax: messages to simulate
          MaxInFlight,  \* bound: a timeout resends only below this load
          FaultBound    \* bound: where the count of faults saturates

\* B_input's static arrays have 8 slots whatever the window is: a larger
\* window would index past them, and is left out.
ASSUME SelectiveRepeatAssumption ==
  /\ WINDOWSIZE \in 1..8
  /\ MAXBUFSIZE \in Nat \ {0}
  /\ NSimMax \in Nat
  /\ MaxInFlight \in Nat
  /\ FaultBound \in Nat

VARIABLES nextseqnum, base,             \* A's window
          winbuf, winfront, winrear,    \* A's ring of packets in the window
          pktnum,                       \* how many packets the ring holds
          buffer,                       \* messages waiting for the window
          timers,                       \* timers running for each packet
          toB, toA,                     \* packets and ACKs under way
          nfaults,                      \* nlost + ncorrupt, saturated
          expected_seq, recv_window, recv_marked, delivered,    \* B
          nsim,                         \* messages arrived from layer 5
          exited                        \* A_output called exit(1)

sender   == <<nextseqnum, base, winbuf, winfront, winrear, pktnum, buffer>>
receiver == <<expected_seq, recv_window, recv_marked, delivered>>
vars == <<sender, timers, toB, toA, nfaults, receiver, nsim, exited>>

SeqNums == 0..NSimMax
Slots   == 0..(WINDOWSIZE - 1)
Packet  == [seqnum : Int, payload : Int]
Entry   == [seqnum : Int, payload : Int, acknum : {0, 1}]

Unwritten == [seqnum |-> -1, payload |-> -1]

Lesser(a, b) == IF a < b THEN a ELSE b

\* n slots further round A's ring, and the slot of packet q at B.
SlotAfterUnwrapped(s, n) == s + n   \* mutant: the modulo dropped
SlotAfter(s, n) == (s + n) % WINDOWSIZE
SlotOfFewer(q) == q % (WINDOWSIZE - 1)   \* mutant: one slot too few
SlotOf(q) == q % WINDOWSIZE

Init ==
  /\ nextseqnum = 0 /\ base = 0
  /\ winbuf = [s \in Slots |-> [seqnum |-> -1, payload |-> -1, acknum |-> 0]]
  /\ winfront = 0 /\ winrear = 0 /\ pktnum = 0
  /\ buffer = << >>
  /\ timers = [q \in SeqNums |-> 0]
  /\ toB = << >> /\ toA = << >> /\ nfaults = 0
  /\ expected_seq = 0
  /\ recv_window = [s \in Slots |-> Unwritten]
  /\ recv_marked = [s \in Slots |-> 0]
  /\ delivered = << >>
  /\ nsim = 0 /\ exited = FALSE

-----------------------------------------------------------------------------
(* The sender.                                                             *)

\* The packets of ms go out in turn, each into the ring and with a timer.
SendAll(ms, wb, tm) ==
  LET n == Len(ms)
      new == [i \in 1..n |-> [seqnum  |-> nextseqnum + i - 1,
                              payload |-> ms[i]]]
  IN /\ winbuf' = [s \in Slots |->
                     LET i == (s - winrear) % WINDOWSIZE
                     IN  IF i < n THEN [seqnum  |-> new[i + 1].seqnum,
                                        payload |-> new[i + 1].payload,
                                        acknum  |-> 0]
                                  ELSE wb[s]]
     /\ winrear' = SlotAfter(winrear, n)
     /\ nextseqnum' = nextseqnum + n
     /\ toB' = toB \o new
     /\ timers' = [q \in SeqNums |->
                     IF q \in nextseqnum..(nextseqnum + n - 1)
                       THEN tm[q] + 1 ELSE tm[q]]

A_output(m) ==
  \/ /\ nextseqnum < base + WINDOWSIZE
     /\ SendAll(<<m>>, winbuf, timers)
     /\ pktnum' = pktnum + 1
     /\ UNCHANGED <<base, winfront, buffer, exited>>
  \/ /\ nextseqnum >= base + WINDOWSIZE
     /\ Len(buffer) < MAXBUFSIZE - 1
     /\ buffer' = Append(buffer, m)
     /\ UNCHANGED <<nextseqnum, base, winbuf, winfront, winrear, pktnum,
                    timers, toB, exited>>
  \/ /\ nextseqnum >= base + WINDOWSIZE
     /\ Len(buffer) >= MAXBUFSIZE - 1
     /\ exited' = TRUE
     /\ UNCHANGED <<sender, timers, toB>>

\* A message arrives from layer 5, as long as there are some to simulate.
FromLayer5 ==
  /\ ~ exited /\ nsim < NSimMax
  /\ nsim' = nsim + 1
  /\ A_output(nsim)
  /\ UNCHANGED <<toA, nfaults, receiver>>

\* Packet q waits for its ACK at place i of the ring, counted from its front.
WaitsAt(i, q) == LET e == winbuf[SlotAfter(winfront, i)]
                 IN  e.seqnum = q /\ e.acknum = 0

\* The first such place, if there is one: what the search by number finds.
PendingButLast(q) ==   \* mutant: the search ends one place early
  {i \in 0..(pktnum - 2) : WaitsAt(i, q) /\ \A j \in 0..(i - 1) : ~ WaitsAt(j, q)}
Pending(q) ==
  {i \in 0..(pktnum - 1) : WaitsAt(i, q) /\ \A j \in 0..(i - 1) : ~ WaitsAt(j, q)}

\* The first k packets of the window wb are acknowledged, and base may pass.
Acked(wb, k) ==
  \A j \in 0..(k - 1) : LET e == wb[SlotAfter(winfront, j)]
                        IN  e.acknum = 1 /\ e.seqnum = base + j

\* How many buffered messages the window has room for once it is at newbase.
DrainsAll(newbase) == Len(buffer)   \* mutant: the window not looked at
DrainsOne(newbase) ==   \* mutant: an if where the loop is
  Lesser(1, Lesser(Len(buffer), newbase + WINDOWSIZE - nextseqnum))
Drained(newbase) == Lesser(Len(buffer), newbase + WINDOWSIZE - nextseqnum)

TimerLeft(q) == timers   \* mutant: the timer not stopped
TimerStopped(q) == [timers EXCEPT ![q] = IF @ > 0 THEN @ - 1 ELSE 0]

Acknowledge(q) ==
  \E i \in Pending(q) :
    LET wb == [winbuf EXCEPT ![SlotAfter(winfront, i)].acknum = 1]
    IN  \E k \in 0..pktnum :
          /\ Acked(wb, k)
          /\ k < pktnum => ~ Acked(wb, k + 1)
          /\ base' = base + k
          /\ winfront' = SlotAfter(winfront, k)
          /\ LET n == Drained(base + k)
             IN  /\ SendAll(SubSeq(buffer, 1, n), wb, TimerStopped(q))
                 /\ buffer' = SubSeq(buffer, n + 1, Len(buffer))
                 /\ pktnum' = pktnum - k + n

A_input ==
  /\ ~ exited /\ toA # << >>
  /\ toA' = Tail(toA)
  /\ LET q == Head(toA)
     IN  IF q \in base..(nextseqnum - 1) /\ Pending(q) # {}
           THEN Acknowledge(q)
           ELSE UNCHANGED <<sender, timers, toB>>
  /\ UNCHANGED <<nfaults, receiver, nsim, exited>>

\* The timer of packet q goes off: if q still waits it is sent again and the
\* timer restarted.  MaxInFlight bounds what resends pile up.
A_packet_time_rinterrupt(q) ==
  /\ ~ exited /\ timers[q] > 0
  /\ IF Pending(q) # {}
       THEN /\ Len(toB) + Len(toA) < MaxInFlight
            /\ \E i \in Pending(q) :
                 LET e == winbuf[SlotAfter(winfront, i)]
                 IN  toB' = Append(toB, [seqnum  |-> e.seqnum,
                                         payload |-> e.payload])
            /\ UNCHANGED timers
       ELSE /\ timers' = [timers EXCEPT ![q] = @ - 1]
            /\ UNCHANGED toB
  /\ UNCHANGED <<sender, toA, nfaults, receiver, nsim, exited>>

-----------------------------------------------------------------------------
(* The receiver and the channels.                                          *)

\* Packet q lies in the receive window w whose marks are mk.
HoldsAny(w, mk, q) == mk[SlotOf(q)] = 1   \* mutant: any packet will do
Holds(w, mk, q) == mk[SlotOf(q)] = 1 /\ w[SlotOf(q)].seqnum = q

\* From window w and marks mk the loop of B_input passes up n packets.
DeliverRun(w, mk) ==
  \E n \in 0..WINDOWSIZE :
    /\ \A j \in 0..(n - 1) : Holds(w, mk, expected_seq + j)
    /\ ~ Holds(w, mk, expected_seq + n)
    /\ recv_window' = w
    /\ recv_marked' = [s \in Slots |->
                         IF \E j \in 0..(n - 1) : s = SlotOf(expected_seq + j)
                           THEN 0 ELSE mk[s]]
    /\ delivered' = delivered \o
         [j \in 1..n |-> w[SlotOf(expected_seq + j - 1)].payload]
    /\ expected_seq' = expected_seq + n

InReceiveWindowOffByOne(q) ==   \* mutant: the oldest packet left out
  q \in (expected_seq - WINDOWSIZE + 1)..(expected_seq + WINDOWSIZE - 1)
InReceiveWindow(q) ==
  q \in (expected_seq - WINDOWSIZE)..(expected_seq + WINDOWSIZE - 1)

\* A packet already in its slot is not acknowledged again.
B_input ==
  /\ ~ exited /\ toB # << >>
  /\ toB' = Tail(toB)
  /\ LET p == Head(toB)
         s == SlotOf(p.seqnum)
     IN  IF InReceiveWindow(p.seqnum)
           THEN IF Holds(recv_window, recv_marked, p.seqnum)
                  THEN /\ DeliverRun(recv_window, recv_marked)
                       /\ UNCHANGED toA
                  ELSE /\ DeliverRun([recv_window EXCEPT ![s] = p],
                                     [recv_marked EXCEPT ![s] = 1])
                       /\ toA' = Append(toA, p.seqnum)
           ELSE /\ toA' = Append(toA, p.seqnum)
                /\ UNCHANGED receiver
  /\ UNCHANGED <<sender, timers, nfaults, nsim, exited>>

\* The pattern string has a packet lost, and it never arrives, or corrupted,
\* and the input handler returns at its checksum test.  The fate is drawn
\* when the packet leaves the channel: nothing reads it before.
Perish ==
  /\ ~ exited
  /\ nfaults' = Lesser(nfaults + 1, FaultBound)
  /\ \/ toB # << >> /\ toB' = Tail(toB) /\ UNCHANGED toA
     \/ toA # << >> /\ toA' = Tail(toA) /\ UNCHANGED toB
  /\ UNCHANGED <<sender, timers, receiver, nsim, exited>>

Next == \/ FromLayer5
        \/ A_input
        \/ \E q \in SeqNums : A_packet_time_rinterrupt(q)
        \/ B_input
        \/ Perish

Spec == Init /\ [][Next]_vars

\* The main loop handles every event it has scheduled, timers included.
Fairness == /\ WF_vars(FromLayer5)
            /\ WF_vars(A_input)
            /\ WF_vars(B_input)
            /\ \A q \in SeqNums : WF_vars(A_packet_time_rinterrupt(q))

FairSpec == Spec /\ Fairness

\* A timer goes off a fixed time after it was started, however busy the
\* channel is: MaxInFlight, which the code has not, may delay it but not for ever.
PromptTimers == \A q \in SeqNums : SF_vars(A_packet_time_rinterrupt(q))
PromptSpec == FairSpec /\ PromptTimers

-----------------------------------------------------------------------------
(* Correctness.                                                            *)

\* Type invariant: every variable keeps the C type it stands for, cursors
\* stay inside their rings.
TypeOK ==
  /\ nextseqnum \in SeqNums /\ base \in SeqNums
  /\ winbuf \in [Slots -> Entry]
  /\ winfront \in Slots /\ winrear \in Slots /\ pktnum \in Nat
  /\ buffer \in Seq(Nat)
  /\ timers \in [SeqNums -> Nat]
  /\ toB \in Seq(Packet) /\ toA \in Seq(Int) /\ nfaults \in Nat
  /\ expected_seq \in Nat
  /\ recv_window \in [Slots -> Packet] /\ recv_marked \in [Slots -> {0, 1}]
  /\ delivered \in Seq(Int)
  /\ nsim \in SeqNums /\ exited \in BOOLEAN

\* B passes up message 0, 1, 2, ... without a gap, a duplicate or a swap,
\* although packets arrive out of order and more than once.
InOrder == \A i \in 1..Len(delivered) : delivered[i] = i - 1

\* base never passes what B has delivered, and at most a window is out.
WindowBound == /\ base <= expected_seq
               /\ expected_seq <= nextseqnum
               /\ nextseqnum <= base + WINDOWSIZE

\* The ring holds exactly the window: base, base + 1, ... from winfront on.
\* A lookup by sequence number can then find no packet of an earlier lap.
RingHoldsWindow ==
  /\ pktnum = nextseqnum - base
  /\ \A i \in 0..(pktnum - 1) :
       winbuf[SlotAfter(winfront, i)].seqnum = base + i

\* Every packet that waits for its ACK has one timer, and no other packet has
\* any: none goes without a retransmission, none is retransmitted twice.
OneTimerEach ==
  \A q \in SeqNums : timers[q] = IF Pending(q) # {} THEN 1 ELSE 0

\* What A has an ACK for is not lost: B has delivered it or still holds it,
\* although B's slots are overwritten by whatever arrives for them.
AckedIsHeld ==
  \A i \in 0..(pktnum - 1) :
    LET e == winbuf[SlotAfter(winfront, i)]
    IN  e.acknum = 1 => \/ e.seqnum < expected_seq
                        \/ Holds(recv_window, recv_marked, e.seqnum)

\* A message waits in the buffer only while the window is full.
BufferedOnlyWhenFull == buffer # << >> => nextseqnum = base + WINDOWSIZE

\* No packet arrives from outside B's two windows: the last branch of B_input,
\* which acknowledges without looking, is never taken.
ArrivalsInWindow == \A i \in 1..Len(toB) : InReceiveWindow(toB[i].seqnum)

\* A packet or an ACK that is lost or corrupted costs nothing but time.
RecoversFromOne ==
  <>(nfaults > 1 \/ exited \/ Len(delivered) = NSimMax)

\* The protocol delivers what the abstract transfer promises.
Abstract == INSTANCE ReliableTransfer WITH submitted <- nsim
ImplementsTransfer == Abstract!Spec

\* rewrite-plan.md:48 has timeouts and retransmission deal with loss, however
\* often it happens.  Two losses are too many when they hit two ACKs of the
\* packet at base: B has passed it up, stored it a second time with the first
\* resend, and finds it marked (stable.c:314) whenever it comes again.  Without
\* an ACK the window stands still, and the next message is never sent.
RecoversFromTwo ==
  <>(nfaults > 2 \/ exited \/ Len(delivered) = NSimMax)
=============================================================================

----------------------- MODULE SelectiveRepeatProofs -----------------------
(***************************************************************************)
(* Proofs about SelectiveRepeat for every window, buffer and number of     *)
(* messages.  That packets overtake each other in the receive window, are  *)
(* resent and acknowledged out of order, and still come out in order rests *)
(* on two facts: sender's ring and window stay in step, and a packet under *)
(* way is never a whole window behind what is ahead of it in the channel,  *)
(* so that it cannot be taken for, or written over, a later one.           *)
(***************************************************************************)
EXTENDS SelectiveRepeat, SequenceTheorems, TLAPS

\* One of the first n packets of A, as A sent it.
Genuine(p, n) == p.seqnum \in 0..(n - 1) /\ p.payload = p.seqnum

\* Messages k, k + 1, ...
Consecutive(ms, k) == \A i \in 1..Len(ms) : ms[i] = k + i - 1

\* From slot f on, ring wb holds n packets, numbered from b on.
RingFrom(wb, f, b, n) ==
  \A i \in 0..(n - 1) : /\ wb[SlotAfter(f, i)].seqnum = b + i
                        /\ wb[SlotAfter(f, i)].payload = b + i

Ring == /\ pktnum = nextseqnum - base
        /\ winrear = SlotAfter(winfront, pktnum)
        /\ RingFrom(winbuf, winfront, base, pktnum)

\* Packet q is in the window and has no ACK.
Waits(q) == /\ q \in base..(nextseqnum - 1)
            /\ winbuf[SlotAfter(winfront, q - base)].acknum = 0

Timers == \A q \in SeqNums : timers[q] = IF Waits(q) THEN 1 ELSE 0

\* The messages not yet sent wait in the buffer, in order.
Supply == /\ nextseqnum + Len(buffer) <= nsim
          /\ ~ exited => nextseqnum + Len(buffer) = nsim
          /\ Consecutive(buffer, nextseqnum)
          /\ BufferedOnlyWhenFull

Prefix == Len(delivered) = expected_seq /\ InOrder

\* What B holds was sent to it, and lies where it belongs.
HeldAreGenuine ==
  \A s \in Slots : recv_marked[s] = 1 =>
    Genuine(recv_window[s], nextseqnum) /\ SlotOf(recv_window[s].seqnum) = s

\* A packet under way is not a window or more behind B, the packets ahead of it,
\* or those that B holds.
Arrivals ==
  \A i \in 1..Len(toB) :
    /\ Genuine(toB[i], nextseqnum)
    /\ expected_seq <= toB[i].seqnum + WINDOWSIZE
    /\ \A j \in 1..(i - 1) : toB[j].seqnum < toB[i].seqnum + WINDOWSIZE
    /\ \A s \in Slots : recv_marked[s] = 1 =>
         recv_window[s].seqnum < toB[i].seqnum + WINDOWSIZE

\* B has passed up packet q or holds it.
Kept(q) == q < expected_seq \/ Holds(recv_window, recv_marked, q)

Acks == /\ \A i \in 1..Len(toA) : toA[i] \in Nat /\ Kept(toA[i])
        /\ \A i \in 0..(pktnum - 1) :
             winbuf[SlotAfter(winfront, i)].acknum = 1 => Kept(base + i)

\* B's loop passes up all it can.
NothingReady == ~ Holds(recv_window, recv_marked, expected_seq)

IInv == /\ TypeOK /\ WindowBound
        /\ Ring /\ Timers /\ Supply
        /\ Prefix /\ HeldAreGenuine /\ Arrivals /\ Acks /\ NothingReady

-----------------------------------------------------------------------------
(* The rings' arithmetic.                                                  *)

USE SelectiveRepeatAssumption

\* Up to three laps, the remainder is found by subtracting laps.
LEMMA Laps ==
  \A x \in 0..(3 * WINDOWSIZE - 1) :
    x % WINDOWSIZE = IF x < WINDOWSIZE THEN x
                     ELSE IF x < 2 * WINDOWSIZE THEN x - WINDOWSIZE
                     ELSE x - 2 * WINDOWSIZE
OBVIOUS

\* Numbers of one slot of B's are a window or more apart.
LEMMA SameSlot ==
  \A p, q \in Nat : SlotOf(p) = SlotOf(q) /\ p < q => p + WINDOWSIZE <= q
BY DEF SlotOf

\* SlotOf stays in B's arrays.
LEMMA SlotOfType == \A q \in Nat : SlotOf(q) \in Slots
BY DEF SlotOf, Slots

\* A place up to two windows round A's ring.
LEMMA Place ==
  ASSUME NEW f \in Slots, NEW i \in 0..(2 * WINDOWSIZE - 1)
  PROVE  /\ SlotAfter(f, i) \in Slots
         /\ SlotAfter(f, i) = IF f + i < WINDOWSIZE THEN f + i
                              ELSE IF f + i < 2 * WINDOWSIZE THEN f + i - WINDOWSIZE
                              ELSE f + i - 2 * WINDOWSIZE
<1>1. f + i \in 0..(3 * WINDOWSIZE - 1)
  BY DEF Slots
<1>. QED
  BY <1>1, Laps DEF SlotAfter, Slots

\* A place of the ring is a number.
LEMMA ModIsNat == ASSUME NEW x \in Int PROVE x % WINDOWSIZE \in Nat
OBVIOUS

\* WINDOWSIZE slots further is the slot itself.
LEMMA FullLap ==
  ASSUME NEW f \in Slots
  PROVE  SlotAfter(f, WINDOWSIZE) = f
<1>1. /\ WINDOWSIZE \in 0..(2 * WINDOWSIZE - 1) /\ f \in Nat /\ f < WINDOWSIZE
      /\ WINDOWSIZE \in Nat
  BY SelectiveRepeatAssumption DEF Slots
<1>2. /\ ~ (f + WINDOWSIZE < WINDOWSIZE) /\ f + WINDOWSIZE < 2 * WINDOWSIZE
      /\ f + WINDOWSIZE - WINDOWSIZE = f
  BY <1>1
<1>3. SlotAfter(f, WINDOWSIZE) = f + WINDOWSIZE - WINDOWSIZE
  BY <1>1, <1>2, Place
<1>. QED
  BY <1>2, <1>3

\* Two places less than a window apart are different slots.
LEMMA PlacesDiffer ==
  ASSUME NEW f \in Slots, NEW i \in 0..(2 * WINDOWSIZE - 1),
         NEW j \in 0..(2 * WINDOWSIZE - 1), i < j, j < i + WINDOWSIZE
  PROVE  SlotAfter(f, i) # SlotAfter(f, j)
<1>1. /\ f \in Nat /\ f < WINDOWSIZE
      /\ SlotAfter(f, i) = IF f + i < WINDOWSIZE THEN f + i
                           ELSE IF f + i < 2 * WINDOWSIZE THEN f + i - WINDOWSIZE
                           ELSE f + i - 2 * WINDOWSIZE
      /\ SlotAfter(f, j) = IF f + j < WINDOWSIZE THEN f + j
                           ELSE IF f + j < 2 * WINDOWSIZE THEN f + j - WINDOWSIZE
                           ELSE f + j - 2 * WINDOWSIZE
  BY Place DEF Slots
<1>. QED
  BY <1>1

\* Places add up.
LEMMA PlaceAfter ==
  ASSUME NEW f \in Slots, NEW k \in 0..WINDOWSIZE, NEW i \in 0..WINDOWSIZE,
         k + i < 2 * WINDOWSIZE
  PROVE  SlotAfter(SlotAfter(f, k), i) = SlotAfter(f, k + i)
<1>1. k \in 0..(2 * WINDOWSIZE - 1) /\ i \in 0..(2 * WINDOWSIZE - 1)
      /\ k + i \in 0..(2 * WINDOWSIZE - 1)
  OBVIOUS
<1>. DEFINE g == SlotAfter(f, k)
<1>2. g \in Slots /\ g = IF f + k < WINDOWSIZE THEN f + k
                         ELSE IF f + k < 2 * WINDOWSIZE THEN f + k - WINDOWSIZE
                         ELSE f + k - 2 * WINDOWSIZE
  BY <1>1, Place
<1>. HIDE DEF g
<1>3. SlotAfter(g, i) = IF g + i < WINDOWSIZE THEN g + i
                        ELSE IF g + i < 2 * WINDOWSIZE THEN g + i - WINDOWSIZE
                        ELSE g + i - 2 * WINDOWSIZE
  BY <1>1, <1>2, Place
<1>4. SlotAfter(f, k + i) =
        IF f + (k + i) < WINDOWSIZE THEN f + (k + i)
        ELSE IF f + (k + i) < 2 * WINDOWSIZE THEN f + (k + i) - WINDOWSIZE
        ELSE f + (k + i) - 2 * WINDOWSIZE
  BY <1>1, Place
<1>5. SlotAfter(g, i) = SlotAfter(f, k + i)
  BY <1>2, <1>3, <1>4 DEF Slots
<1>. QED
  BY <1>5 DEF g

\* How far a place lies from the rear of a ring with n packets, going forward.
LEMMA FromRear ==
  ASSUME NEW f \in Slots, NEW n \in 0..WINDOWSIZE, NEW i \in 0..(2 * WINDOWSIZE - 1)
  PROVE  /\ i < n => (SlotAfter(f, i) - SlotAfter(f, n)) % WINDOWSIZE = i - n + WINDOWSIZE
         /\ n <= i /\ i < n + WINDOWSIZE
              => (SlotAfter(f, i) - SlotAfter(f, n)) % WINDOWSIZE = i - n
<1>. DEFINE s == SlotAfter(f, i)
            r == SlotAfter(f, n)
<1>1. n \in 0..(2 * WINDOWSIZE - 1)
  OBVIOUS
<1>2. s \in Slots /\ s = IF f + i < WINDOWSIZE THEN f + i
                         ELSE IF f + i < 2 * WINDOWSIZE THEN f + i - WINDOWSIZE
                         ELSE f + i - 2 * WINDOWSIZE
  BY Place
<1>3. r \in Slots /\ r = IF f + n < WINDOWSIZE THEN f + n
                         ELSE IF f + n < 2 * WINDOWSIZE THEN f + n - WINDOWSIZE
                         ELSE f + n - 2 * WINDOWSIZE
  BY <1>1, Place
<1>. HIDE DEF s, r
<1>4. (s - r) % WINDOWSIZE = IF r <= s THEN s - r ELSE s - r + WINDOWSIZE
  BY <1>2, <1>3 DEF Slots
<1>5. /\ i < n => (s - r) % WINDOWSIZE = i - n + WINDOWSIZE
      /\ n <= i /\ i < n + WINDOWSIZE => (s - r) % WINDOWSIZE = i - n
  BY <1>2, <1>3, <1>4 DEF Slots
<1>. QED
  BY <1>5 DEF s, r

-----------------------------------------------------------------------------
(* What A sends.                                                           *)

\* Packets that A sends, new or resent, join the channel in good order when
\* none of them is a window behind A.
LEMMA SendKeepsArrivals ==
  ASSUME TypeOK, WindowBound, Arrivals, HeldAreGenuine,
         NEW new \in Seq(Packet), nextseqnum' \in Nat, nextseqnum <= nextseqnum',
         \A i \in 1..Len(new) :
           /\ Genuine(new[i], nextseqnum')
           /\ nextseqnum <= new[i].seqnum + WINDOWSIZE
           /\ \A j \in 1..(i - 1) : new[j].seqnum < new[i].seqnum + WINDOWSIZE,
         toB' = toB \o new, UNCHANGED receiver
  PROVE  toB' \in Seq(Packet) /\ Arrivals' /\ HeldAreGenuine'
<1>1. /\ nextseqnum \in Nat /\ expected_seq \in Nat /\ expected_seq <= nextseqnum
      /\ toB \in Seq(Packet)
      /\ UNCHANGED <<expected_seq, recv_window, recv_marked>>
  BY DEF TypeOK, SeqNums, WindowBound, receiver
<1>2. /\ toB' \in Seq(Packet) /\ Len(toB') = Len(toB) + Len(new)
      /\ \A i \in 1..Len(toB') :
           toB'[i] = IF i <= Len(toB) THEN toB[i] ELSE new[i - Len(toB)]
  BY <1>1, ConcatProperties
<1>3. HeldAreGenuine'
  BY <1>1 DEF HeldAreGenuine, Genuine
<1>4. ASSUME NEW i \in 1..Len(toB')
      PROVE  /\ Genuine(toB'[i], nextseqnum')
             /\ expected_seq' <= toB'[i].seqnum + WINDOWSIZE
             /\ \A j \in 1..(i - 1) : toB'[j].seqnum < toB'[i].seqnum + WINDOWSIZE
             /\ \A s \in Slots : recv_marked'[s] = 1 =>
                  recv_window'[s].seqnum < toB'[i].seqnum + WINDOWSIZE
  <2>1. Len(toB) \in Nat /\ Len(new) \in Nat
    BY <1>1
  <2>2. CASE i <= Len(toB)
    <3>1. i \in 1..Len(toB) /\ toB'[i] = toB[i]
          /\ \A j \in 1..(i - 1) : toB'[j] = toB[j]
      BY <1>2, <2>1, <2>2
    <3>2. Genuine(toB[i], nextseqnum')
      BY <1>1, <3>1 DEF Arrivals, Genuine
    <3>. QED
      BY <1>1, <3>1, <3>2 DEF Arrivals
  <2>3. CASE i > Len(toB)
    <3>. DEFINE k == i - Len(toB)
    <3>1. k \in 1..Len(new) /\ toB'[i] = new[k]
      BY <1>2, <2>1, <2>3
    <3>2. /\ Genuine(new[k], nextseqnum') /\ nextseqnum <= new[k].seqnum + WINDOWSIZE
          /\ \A j \in 1..(k - 1) : new[j].seqnum < new[k].seqnum + WINDOWSIZE
      BY <3>1
    <3>. HIDE DEF k
    <3>3. new[k].seqnum \in Nat
      BY <3>2 DEF Genuine
    <3>4. ASSUME NEW x \in 0..(nextseqnum - 1) PROVE x < new[k].seqnum + WINDOWSIZE
      <4>. DEFINE y == new[k].seqnum
      <4>1. y \in Nat /\ nextseqnum <= y + WINDOWSIZE
        BY <3>2, <3>3
      <4>. HIDE DEF y
      <4>2. x < y + WINDOWSIZE
        BY <1>1, <4>1
      <4>. QED
        BY <4>2 DEF y
    <3>5. ASSUME NEW j \in 1..(i - 1) PROVE toB'[j].seqnum < new[k].seqnum + WINDOWSIZE
      <4>1. CASE j <= Len(toB)
        <5>1. toB'[j] = toB[j] /\ j \in 1..Len(toB)
          BY <1>2, <2>1, <4>1
        <5>2. toB[j].seqnum \in 0..(nextseqnum - 1)
          BY <5>1 DEF Arrivals, Genuine
        <5>. QED
          BY <3>4, <5>1, <5>2
      <4>2. CASE j > Len(toB)
        <5>1. toB'[j] = new[j - Len(toB)] /\ j - Len(toB) \in 1..(k - 1)
          BY <1>2, <2>1, <4>2 DEF k
        <5>. QED
          BY <3>2, <5>1
      <4>. QED
        BY <2>1, <4>1, <4>2
    <3>6. ASSUME NEW s \in Slots, recv_marked[s] = 1
          PROVE  recv_window[s].seqnum < new[k].seqnum + WINDOWSIZE
      <4>1. recv_window[s].seqnum \in 0..(nextseqnum - 1)
        BY <3>6 DEF HeldAreGenuine, Genuine
      <4>. QED
        BY <3>4, <4>1
    <3>7. expected_seq' <= new[k].seqnum + WINDOWSIZE
      <4>. DEFINE y == new[k].seqnum
      <4>1. y \in Nat /\ nextseqnum <= y + WINDOWSIZE
        BY <3>2, <3>3
      <4>. HIDE DEF y
      <4>2. expected_seq' <= y + WINDOWSIZE
        BY <1>1, <4>1
      <4>. QED
        BY <4>2 DEF y
    <3>. QED
      BY <1>1, <3>1, <3>2, <3>5, <3>6, <3>7
  <2>. QED
    BY <2>1, <2>2, <2>3
<1>5. Arrivals'
  BY <1>4 DEF Arrivals
<1>. QED
  BY <1>2, <1>3, <1>5

\* When the first k packets leave the ring wb and the messages ms enter it, it
\* holds the window again: those that stay do not move, and those of ms wait.
LEMMA SendAllKeepsRing ==
  ASSUME TypeOK, pktnum \in 0..WINDOWSIZE, pktnum = nextseqnum - base,
         winrear = SlotAfter(winfront, pktnum),
         NEW wb \in [Slots -> Entry], RingFrom(wb, winfront, base, pktnum),
         NEW k \in 0..pktnum, NEW ms \in Seq(Nat), Consecutive(ms, nextseqnum),
         pktnum - k + Len(ms) <= WINDOWSIZE, NEW tm \in [SeqNums -> Nat],
         SendAll(ms, wb, tm),
         base' = base + k, winfront' = SlotAfter(winfront, k),
         pktnum' = pktnum - k + Len(ms)
  PROVE  /\ winbuf' \in [Slots -> Entry] /\ winfront' \in Slots /\ winrear' \in Slots
         /\ Ring'
         /\ \A i \in k..(pktnum - 1) :
              winbuf'[SlotAfter(winfront', i - k)] = wb[SlotAfter(winfront, i)]
         /\ \A i \in pktnum..(pktnum + Len(ms) - 1) :
              winbuf'[SlotAfter(winfront', i - k)].acknum = 0
<1>. DEFINE n == Len(ms)
            f == winfront
            L == pktnum
<1>1. /\ n \in Nat /\ nextseqnum \in Nat /\ base \in Nat /\ f \in Slots
      /\ winrear \in Slots /\ nextseqnum' = nextseqnum + n
      /\ L \in 0..WINDOWSIZE /\ k \in 0..WINDOWSIZE /\ n <= WINDOWSIZE - L + k
  BY DEF SendAll, TypeOK, SeqNums
<1>2. ASSUME NEW s \in Slots
      PROVE  LET i == (s - winrear) % WINDOWSIZE
             IN  /\ i \in Nat
                 /\ i >= n => winbuf'[s] = wb[s]
                 /\ i < n => winbuf'[s] = [seqnum |-> nextseqnum + i,
                                           payload |-> nextseqnum + i, acknum |-> 0]
  <2>. DEFINE i == (s - winrear) % WINDOWSIZE
  <2>1. i \in Nat
    <3>1. s \in Int /\ winrear \in Int /\ s - winrear \in Int
      BY <1>1 DEF Slots
    <3>. QED
      BY <3>1, ModIsNat
  <2>2. i < n => i + 1 \in 1..n
    <3>. HIDE DEF i
    <3>. QED
      BY <1>1, <2>1
  <2>3. i < n => ms[i + 1] = nextseqnum + (i + 1) - 1
    BY <2>2 DEF Consecutive
  <2>4. i < n => ms[i + 1] = nextseqnum + i
    <3>1. (i + 1) - 1 = i
      BY <2>1
    <3>. HIDE DEF i
    <3>2. nextseqnum + (i + 1) - 1 = nextseqnum + i
      BY <1>1, <2>1
    <3>. QED
      BY <2>3, <3>2
  <2>5. winbuf'[s] = IF i < n
                       THEN [seqnum  |-> nextseqnum + (i + 1) - 1,
                             payload |-> ms[i + 1], acknum |-> 0]
                       ELSE wb[s]
    BY <2>2 DEF SendAll
  <2>6. nextseqnum + (i + 1) - 1 = nextseqnum + i
    BY <1>1, <2>1
  <2>. HIDE DEF i
  <2>7. i >= n => ~ (i < n)
    BY <1>1, <2>1
  <2>8. i \in Nat /\ (i >= n => winbuf'[s] = wb[s])
        /\ (i < n => winbuf'[s] = [seqnum |-> nextseqnum + i,
                                   payload |-> nextseqnum + i, acknum |-> 0])
    BY <2>1, <2>4, <2>5, <2>6, <2>7
  <2>. QED
    BY <2>8 DEF i
<1>3. winbuf' \in [Slots -> Entry]
  <2>1. winbuf' = [s \in Slots |-> winbuf'[s]]
    BY DEF SendAll
  <2>2. ASSUME NEW s \in Slots PROVE winbuf'[s] \in Entry
    <3>. DEFINE i == (s - winrear) % WINDOWSIZE
    <3>1. /\ i \in Nat /\ (i >= n => winbuf'[s] = wb[s])
          /\ (i < n => winbuf'[s] = [seqnum |-> nextseqnum + i,
                                     payload |-> nextseqnum + i, acknum |-> 0])
      BY <1>2
    <3>. HIDE DEF i
    <3>2. [seqnum |-> nextseqnum + i, payload |-> nextseqnum + i, acknum |-> 0] \in Entry
      BY <1>1, <3>1 DEF Entry
    <3>3. wb[s] \in Entry
      OBVIOUS
    <3>4. i >= n \/ i < n
      BY <1>1, <3>1
    <3>. QED
      BY <3>1, <3>2, <3>3, <3>4
  <2>. QED
    BY <2>1, <2>2
<1>4. winfront' \in Slots /\ winrear' = SlotAfter(winfront, L + n) /\ winrear' \in Slots
  <2>1. winfront' \in Slots
    BY <1>1, Place
  <2>2. winrear' = SlotAfter(SlotAfter(f, L), n)
    BY DEF SendAll
  <2>3. L + n < 2 * WINDOWSIZE \/ (L = WINDOWSIZE /\ n = WINDOWSIZE)
    BY <1>1
  <2>4. L \in 0..(2 * WINDOWSIZE - 1)
    BY <1>1
  <2>5. SlotAfter(f, L) \in Slots
    BY <1>1, <2>4, Place
  <2>6. CASE L + n < 2 * WINDOWSIZE
    BY <1>1, <2>2, <2>5, <2>6, PlaceAfter, Place
  <2>7. CASE L = WINDOWSIZE /\ n = WINDOWSIZE
    <3>1. SlotAfter(f, WINDOWSIZE) = f
      BY <1>1, FullLap
    <3>. DEFINE x == f + (WINDOWSIZE + WINDOWSIZE)
    <3>2. x \in 0..(3 * WINDOWSIZE - 1) /\ x - 2 * WINDOWSIZE = f /\ x >= 2 * WINDOWSIZE
      BY <1>1 DEF Slots
    <3>. HIDE DEF x
    <3>3. x % WINDOWSIZE = x - 2 * WINDOWSIZE
      <4>1. ~ (x < WINDOWSIZE) /\ ~ (x < 2 * WINDOWSIZE)
        BY <3>2
      <4>. QED
        BY <3>2, <4>1, Laps
    <3>4. SlotAfter(f, WINDOWSIZE + WINDOWSIZE) = f
      BY <3>2, <3>3 DEF SlotAfter, x
    <3>. QED
      BY <1>1, <2>2, <2>7, <3>1, <3>4
  <2>. QED
    BY <2>1, <2>3, <2>6, <2>7
<1>5. winrear' = SlotAfter(winfront', pktnum')
  <2>1. CASE L + n < 2 * WINDOWSIZE
    <3>1. L - k + n \in 0..WINDOWSIZE /\ k + (L - k + n) = L + n
      BY <1>1
    <3>2. SlotAfter(SlotAfter(f, k), L - k + n) = SlotAfter(f, L + n)
      BY <1>1, <2>1, <3>1, PlaceAfter
    <3>. QED
      BY <1>4, <3>2
  <2>2. CASE L + n >= 2 * WINDOWSIZE
    <3>1. L = WINDOWSIZE /\ k = WINDOWSIZE /\ n = WINDOWSIZE /\ pktnum' = WINDOWSIZE
      BY <1>1, <2>2
    <3>2. SlotAfter(f, WINDOWSIZE) = f
      BY <1>1, FullLap
    <3>3. winrear' = SlotAfter(SlotAfter(f, L), n)
      BY DEF SendAll
    <3>. QED
      BY <3>1, <3>2, <3>3
  <2>. QED
    BY <1>1, <2>1, <2>2
\* The places of the new ring, by the places of the old one.
<1>6. ASSUME NEW i \in k..(L + n - 1)
      PROVE  /\ SlotAfter(winfront', i - k) \in Slots
             /\ i < L => winbuf'[SlotAfter(winfront', i - k)] = wb[SlotAfter(f, i)]
             /\ i >= L => winbuf'[SlotAfter(winfront', i - k)] =
                             [seqnum  |-> nextseqnum + (i - L),
                              payload |-> nextseqnum + (i - L), acknum |-> 0]
  <2>. DEFINE s == SlotAfter(f, i)
  <2>1. /\ i \in 0..(2 * WINDOWSIZE - 1) /\ i - k \in 0..WINDOWSIZE
        /\ k + (i - k) = i /\ i < L + n /\ i < L + WINDOWSIZE
    BY <1>1
  <2>2. SlotAfter(winfront', i - k) = s
    BY <1>1, <2>1, PlaceAfter
  <2>3. s \in Slots
    BY <1>1, <2>1, Place
  <2>4. /\ i < L => (s - winrear) % WINDOWSIZE = i - L + WINDOWSIZE
        /\ i >= L => (s - winrear) % WINDOWSIZE = i - L
    BY <1>1, <2>1, FromRear
  <2>. HIDE DEF s
  <2>5. CASE i < L
    <3>1. (s - winrear) % WINDOWSIZE >= n
      BY <1>1, <2>1, <2>4, <2>5
    <3>2. winbuf'[s] = wb[SlotAfter(f, i)]
      BY <1>2, <2>3, <3>1 DEF s
    <3>3. ~ (i >= L)
      BY <1>1, <2>1, <2>5
    <3>. QED
      BY <2>2, <2>3, <3>2, <3>3
  <2>6. CASE i >= L
    <3>1. (s - winrear) % WINDOWSIZE < n /\ (s - winrear) % WINDOWSIZE = i - L
      BY <1>1, <2>1, <2>4, <2>6
    <3>2. winbuf'[s] = [seqnum  |-> nextseqnum + (i - L),
                        payload |-> nextseqnum + (i - L), acknum |-> 0]
      BY <1>2, <2>3, <3>1
    <3>3. winbuf'[SlotAfter(winfront', i - k)] =
            [seqnum  |-> nextseqnum + (i - L),
             payload |-> nextseqnum + (i - L), acknum |-> 0]
      BY <2>2, <3>2
    <3>4. ~ (i < L)
      BY <1>1, <2>1, <2>6
    <3>. QED
      BY <2>2, <2>3, <3>3, <3>4
  <2>. QED
    BY <1>1, <2>1, <2>5, <2>6
<1>7. RingFrom(winbuf', winfront', base', pktnum')
  <2>1. ASSUME NEW j \in 0..(pktnum' - 1)
        PROVE  /\ winbuf'[SlotAfter(winfront', j)].seqnum = base' + j
               /\ winbuf'[SlotAfter(winfront', j)].payload = base' + j
    <3>. DEFINE i == j + k
    <3>1. i \in k..(L + n - 1) /\ i - k = j /\ base' + j = base + i
      BY <1>1
    <3>2. CASE i < L
      <4>1. winbuf'[SlotAfter(winfront', j)] = wb[SlotAfter(f, i)]
        BY <1>6, <3>1, <3>2
      <4>2. i \in 0..(L - 1)
        BY <1>1, <3>1, <3>2
      <4>3. wb[SlotAfter(f, i)].seqnum = base + i /\ wb[SlotAfter(f, i)].payload = base + i
        BY <4>2 DEF RingFrom
      <4>. QED
        BY <3>1, <4>1, <4>3
    <3>3. CASE i >= L
      <4>1. winbuf'[SlotAfter(winfront', j)] =
              [seqnum |-> nextseqnum + (i - L), payload |-> nextseqnum + (i - L),
               acknum |-> 0]
        BY <1>6, <3>1, <3>3
      <4>2. nextseqnum + (i - L) = base + i
        BY <1>1, <3>1
      <4>. QED
        BY <3>1, <4>1, <4>2
    <3>. QED
      BY <1>1, <3>1, <3>2, <3>3
  <2>. QED
    BY <2>1 DEF RingFrom
<1>8. pktnum' = nextseqnum' - base'
  BY <1>1
<1>9. Ring'
  BY <1>5, <1>7, <1>8 DEF Ring
<1>10. /\ \A i \in k..(L - 1) :
            winbuf'[SlotAfter(winfront', i - k)] = wb[SlotAfter(f, i)]
       /\ \A i \in L..(L + n - 1) : winbuf'[SlotAfter(winfront', i - k)].acknum = 0
  <2>1. ASSUME NEW i \in k..(L - 1)
        PROVE  winbuf'[SlotAfter(winfront', i - k)] = wb[SlotAfter(f, i)]
    <3>1. i \in k..(L + n - 1) /\ i < L
      BY <1>1
    <3>. QED
      BY <1>6, <3>1
  <2>2. ASSUME NEW i \in L..(L + n - 1)
        PROVE  winbuf'[SlotAfter(winfront', i - k)].acknum = 0
    <3>1. i \in k..(L + n - 1) /\ i >= L
      BY <1>1
    <3>2. winbuf'[SlotAfter(winfront', i - k)] =
            [seqnum  |-> nextseqnum + (i - L),
             payload |-> nextseqnum + (i - L), acknum |-> 0]
      BY <1>6, <3>1
    <3>. QED
      BY <3>2
  <2>. QED
    BY <2>1, <2>2
<1>. QED
  BY <1>3, <1>4, <1>9, <1>10

\* A drops the first k packets of ring wb and sends the messages ms.
Moves(wb, k, ms, tm) ==
  /\ wb \in [Slots -> Entry] /\ RingFrom(wb, winfront, base, pktnum)
  /\ k \in 0..pktnum
  /\ ms \in Seq(Nat) /\ Consecutive(ms, nextseqnum)
  /\ pktnum - k + Len(ms) <= WINDOWSIZE /\ nextseqnum + Len(ms) <= NSimMax
  /\ tm \in [SeqNums -> Nat]
  /\ SendAll(ms, wb, tm)
  /\ base' = base + k /\ winfront' = SlotAfter(winfront, k)
  /\ pktnum' = pktnum - k + Len(ms)

\* What A sends in such a move joins the channel in good order.
LEMMA MoveKeepsChannel ==
  ASSUME TypeOK, WindowBound, Ring, Arrivals, HeldAreGenuine, UNCHANGED receiver,
         NEW wb, NEW k, NEW ms, NEW tm, Moves(wb, k, ms, tm)
  PROVE  /\ nextseqnum' \in SeqNums /\ toB' \in Seq(Packet)
         /\ nextseqnum <= nextseqnum' /\ nextseqnum' <= base' + WINDOWSIZE
         /\ Arrivals' /\ HeldAreGenuine'
<1>. DEFINE n == Len(ms)
            new == [i \in 1..n |-> [seqnum  |-> nextseqnum + i - 1,
                                    payload |-> ms[i]]]
<1>1. /\ n \in Nat /\ nextseqnum \in Nat /\ base \in Nat /\ ms \in Seq(Nat)
      /\ nextseqnum' = nextseqnum + n /\ nextseqnum + n <= NSimMax
      /\ pktnum = nextseqnum - base /\ k \in 0..pktnum
      /\ pktnum - k + n <= WINDOWSIZE /\ base' = base + k
      /\ toB' = toB \o new
  BY DEF Moves, SendAll, TypeOK, SeqNums, Ring
<1>2. \A i \in 1..n : ms[i] = nextseqnum + i - 1
  BY DEF Moves, Consecutive
<1>3. new \in Seq(Packet) /\ Len(new) = n
  <2>1. \A i \in 1..n : new[i] \in Packet
    BY <1>1 DEF Packet
  <2>. QED
    BY <1>1, <2>1
<1>4. ASSUME NEW i \in 1..n
      PROVE  new[i].seqnum = nextseqnum + i - 1 /\ new[i].payload = nextseqnum + i - 1
  BY <1>2
<1>. HIDE DEF new, n
<1>5. ASSUME NEW i \in 1..n
      PROVE  /\ Genuine(new[i], nextseqnum')
             /\ nextseqnum <= new[i].seqnum + WINDOWSIZE
             /\ \A j \in 1..(i - 1) : new[j].seqnum < new[i].seqnum + WINDOWSIZE
  <2>1. Genuine(new[i], nextseqnum') /\ nextseqnum <= new[i].seqnum + WINDOWSIZE
    BY <1>1, <1>4 DEF Genuine
  <2>2. ASSUME NEW j \in 1..(i - 1) PROVE new[j].seqnum < new[i].seqnum + WINDOWSIZE
    <3>1. j \in 1..n /\ i \in Nat /\ j \in Nat /\ j < i
      BY <1>1
    <3>2. new[i].seqnum = nextseqnum + i - 1 /\ new[j].seqnum = nextseqnum + j - 1
      BY <1>4, <3>1
    <3>3. nextseqnum + j - 1 < nextseqnum + i - 1 + WINDOWSIZE
      BY <1>1, <3>1
    <3>. QED
      BY <3>2, <3>3
  <2>. QED
    BY <2>1, <2>2
<1>6. /\ nextseqnum' \in SeqNums /\ nextseqnum' \in Nat /\ nextseqnum <= nextseqnum'
      /\ nextseqnum' <= base' + WINDOWSIZE
  BY <1>1 DEF SeqNums
<1>7. toB' \in Seq(Packet) /\ Arrivals' /\ HeldAreGenuine'
  BY <1>1, <1>3, <1>5, <1>6, SendKeepsArrivals
<1>. QED
  BY <1>6, <1>7

\* In such a move the ring keeps the window, and the packets without an ACK a
\* timer each.
LEMMA MoveKeepsSender ==
  ASSUME TypeOK, WindowBound, Ring, UNCHANGED receiver,
         NEW wb, NEW k, NEW ms, NEW tm, Moves(wb, k, ms, tm),
         \A q \in SeqNums :
           tm[q] = IF /\ q \in (base + k)..(nextseqnum - 1)
                      /\ wb[SlotAfter(winfront, q - base)].acknum = 0
                     THEN 1 ELSE 0,
         \A i \in 0..(pktnum - 1) :
           wb[SlotAfter(winfront, i)].acknum = 1 => Kept(base + i)
  PROVE  /\ winbuf' \in [Slots -> Entry] /\ winfront' \in Slots /\ winrear' \in Slots
         /\ Ring' /\ pktnum' \in Nat /\ timers' \in [SeqNums -> Nat] /\ Timers'
         /\ \A i \in 0..(pktnum' - 1) :
              winbuf'[SlotAfter(winfront', i)].acknum = 1 => Kept(base + i)'
<1>. DEFINE n == Len(ms)
            L == pktnum
<1>1. /\ n \in Nat /\ nextseqnum \in Nat /\ base \in Nat /\ ms \in Seq(Nat)
      /\ nextseqnum' = nextseqnum + n /\ nextseqnum + n <= NSimMax
      /\ L = nextseqnum - base /\ k \in 0..L /\ L \in 0..WINDOWSIZE
      /\ L - k + n <= WINDOWSIZE /\ base' = base + k
      /\ pktnum' = L - k + n /\ winfront' = SlotAfter(winfront, k)
  BY DEF Moves, SendAll, TypeOK, SeqNums, Ring, WindowBound
<1>2. /\ winbuf' \in [Slots -> Entry] /\ winfront' \in Slots /\ winrear' \in Slots
      /\ Ring'
      /\ \A i \in k..(L - 1) :
           winbuf'[SlotAfter(winfront', i - k)] = wb[SlotAfter(winfront, i)]
      /\ \A i \in L..(L + n - 1) : winbuf'[SlotAfter(winfront', i - k)].acknum = 0
  BY <1>1, SendAllKeepsRing DEF Moves, Ring
<1>3. timers' = [q \in SeqNums |-> IF q \in nextseqnum..(nextseqnum + n - 1)
                                     THEN tm[q] + 1 ELSE tm[q]]
      /\ tm \in [SeqNums -> Nat]
  BY DEF Moves, SendAll
<1>. HIDE DEF n
<1>4. ASSUME NEW q \in SeqNums PROVE timers'[q] = IF Waits(q)' THEN 1 ELSE 0
  <2>. DEFINE i == q - base
  <2>1. q \in Nat /\ i \in Int /\ q - base' = i - k
    BY <1>1 DEF SeqNums
  <2>2. CASE i \in k..(L - 1)
    <3>1. /\ q \in base'..(nextseqnum' - 1) /\ q \notin nextseqnum..(nextseqnum + n - 1)
          /\ q \in (base + k)..(nextseqnum - 1)
      BY <1>1, <2>1, <2>2
    <3>2. winbuf'[SlotAfter(winfront', q - base')] = wb[SlotAfter(winfront, q - base)]
      BY <1>2, <2>1, <2>2
    <3>3. Waits(q)' <=> wb[SlotAfter(winfront, q - base)].acknum = 0
      BY <3>1, <3>2 DEF Waits
    <3>. QED
      BY <1>3, <3>1, <3>3
  <2>3. CASE i \in L..(L + n - 1)
    <3>1. /\ q \in base'..(nextseqnum' - 1) /\ q \in nextseqnum..(nextseqnum + n - 1)
          /\ q \notin (base + k)..(nextseqnum - 1)
      BY <1>1, <2>1, <2>3
    <3>2. winbuf'[SlotAfter(winfront', q - base')].acknum = 0
      BY <1>2, <2>1, <2>3
    <3>3. Waits(q)'
      BY <3>1, <3>2 DEF Waits
    <3>4. tm[q] = 0
      BY <3>1
    <3>. QED
      BY <1>3, <3>1, <3>3, <3>4
  <2>4. CASE i \notin k..(L + n - 1)
    <3>1. /\ q \notin base'..(nextseqnum' - 1) /\ q \notin nextseqnum..(nextseqnum + n - 1)
          /\ q \notin (base + k)..(nextseqnum - 1)
      BY <1>1, <2>1, <2>4
    <3>2. ~ Waits(q)'
      BY <3>1 DEF Waits
    <3>. QED
      BY <1>3, <3>1, <3>2
  <2>. QED
    BY <1>1, <2>1, <2>2, <2>3, <2>4
<1>5. Timers'
  BY <1>4 DEF Timers
<1>6. timers' \in [SeqNums -> Nat]
  BY <1>3
<1>7. ASSUME NEW j \in 0..(pktnum' - 1), winbuf'[SlotAfter(winfront', j)].acknum = 1
      PROVE  Kept(base + j)'
  <2>. DEFINE i == j + k
  <2>1. i \in k..(L + n - 1) /\ i - k = j /\ base' + j = base + i
    <3>1. k \in Nat /\ L \in Nat /\ n \in Nat /\ base \in Nat /\ pktnum' = L - k + n
      BY <1>1
    <3>2. j \in Nat /\ j < L - k + n
      BY <3>1
    <3>. QED
      BY <1>1, <3>1, <3>2
  <2>2. i < L
    <3>1. i \notin L..(L + n - 1)
      BY <1>2, <1>7, <2>1
    <3>. QED
      BY <1>1, <2>1, <3>1
  <2>3. wb[SlotAfter(winfront, i)].acknum = 1 /\ i \in 0..(L - 1)
    <3>1. i \in k..(L - 1) /\ i \in 0..(L - 1)
      BY <1>1, <2>1, <2>2
    <3>. QED
      BY <1>2, <1>7, <2>1, <3>1
  <2>4. Kept(base + i)
    BY <2>3
  <2>5. UNCHANGED <<expected_seq, recv_window, recv_marked>>
    BY DEF receiver
  <2>. QED
    BY <2>1, <2>4, <2>5 DEF Kept, Holds
<1>8. pktnum' \in Nat
  BY <1>1
<1>. QED
  BY <1>2, <1>5, <1>6, <1>7, <1>8

\* What the search in the ring for packet q finds is the packet, where the
\* window has it, or nothing.
LEMMA PendingIsWaiting ==
  ASSUME TypeOK, WindowBound, Ring, NEW q \in SeqNums
  PROVE  Pending(q) = IF Waits(q) THEN {q - base} ELSE {}
<1>1. /\ pktnum \in 0..WINDOWSIZE /\ base \in Nat /\ nextseqnum \in Nat /\ q \in Nat
      /\ pktnum = nextseqnum - base
  BY DEF TypeOK, WindowBound, Ring, SeqNums
<1>2. ASSUME NEW i \in 0..(pktnum - 1)
      PROVE  WaitsAt(i, q) <=> i = q - base /\ winbuf[SlotAfter(winfront, i)].acknum = 0
  <2>1. winbuf[SlotAfter(winfront, i)].seqnum = base + i
    BY DEF Ring, RingFrom
  <2>2. base + i = q <=> i = q - base
    BY <1>1
  <2>. QED
    BY <2>1, <2>2 DEF WaitsAt
<1>3. q \in base..(nextseqnum - 1) <=> q - base \in 0..(pktnum - 1)
  BY <1>1
<1>4. CASE Waits(q)
  <2>1. q - base \in 0..(pktnum - 1) /\ WaitsAt(q - base, q)
    BY <1>2, <1>3, <1>4 DEF Waits
  <2>2. \A j \in 0..(q - base - 1) : ~ WaitsAt(j, q)
    <3>1. \A j \in 0..(q - base - 1) : j \in 0..(pktnum - 1) /\ j # q - base
      BY <1>1, <2>1
    <3>. QED
      BY <1>2, <3>1
  <2>3. \A i \in Pending(q) : i = q - base
    BY <1>2 DEF Pending
  <2>4. q - base \in Pending(q)
    BY <2>1, <2>2 DEF Pending
  <2>. QED
    BY <1>4, <2>3, <2>4
<1>5. CASE ~ Waits(q)
  <2>1. \A i \in 0..(pktnum - 1) : ~ WaitsAt(i, q)
    BY <1>2, <1>3, <1>5 DEF Waits
  <2>. QED
    BY <1>5, <2>1 DEF Pending
<1>. QED
  BY <1>4, <1>5

-----------------------------------------------------------------------------
(* IInv is inductive.                                                      *)

\* Nothing has been sent and nothing been received at the start.
LEMMA InitIInv == Init => IInv
<1>. SUFFICES ASSUME Init PROVE IInv
  OBVIOUS
<1>1. TypeOK
  <2>1. winbuf \in [Slots -> Entry] /\ recv_window \in [Slots -> Packet]
    BY DEF Init, Entry, Packet, Unwritten
  <2>2. 0 \in Slots /\ 0 \in SeqNums
    BY DEF Slots, SeqNums
  <2>3. recv_marked \in [Slots -> {0, 1}] /\ timers \in [SeqNums -> Nat]
    BY DEF Init
  <2>. QED
    BY <2>1, <2>2, <2>3 DEF Init, TypeOK
<1>2. WindowBound
  BY DEF Init, WindowBound
<1>3. Ring
  <2>1. SlotAfter(0, 0) = 0
    BY Laps DEF SlotAfter
  <2>. QED
    BY <2>1 DEF Init, Ring, RingFrom
<1>4. Timers
  BY DEF Init, Timers, Waits
<1>5. Supply
  BY DEF Init, Supply, Consecutive, BufferedOnlyWhenFull
<1>6. Prefix /\ HeldAreGenuine /\ Arrivals /\ NothingReady
  <2>1. Len(toB) = 0
    BY DEF Init
  <2>2. SlotOf(0) \in Slots
    BY SlotOfType
  <2>3. ~ Holds(recv_window, recv_marked, expected_seq)
    BY <2>2 DEF Init, Holds
  <2>. QED
    BY <2>1, <2>3 DEF Init, Prefix, InOrder, HeldAreGenuine, Arrivals, NothingReady
<1>7. Acks
  BY DEF Init, Acks
<1>. QED
  BY <1>1, <1>2, <1>3, <1>4, <1>5, <1>6, <1>7 DEF IInv

\* What A's untouched window, ring and timers satisfied still holds.
LEMMA SenderStays ==
  ASSUME Ring, Timers, \A i \in 0..(pktnum - 1) :
           winbuf[SlotAfter(winfront, i)].acknum = 1 => Kept(base + i),
         UNCHANGED <<nextseqnum, base, winbuf, winfront, winrear, pktnum, timers>>,
         \A x \in Int : Kept(x) => Kept(x)', base \in Nat
  PROVE  /\ Ring' /\ Timers'
         /\ \A i \in 0..(pktnum' - 1) :
              winbuf'[SlotAfter(winfront', i)].acknum = 1 => Kept(base + i)'
<1>1. Ring'
  BY DEF Ring, RingFrom
<1>2. Timers'
  BY DEF Timers, Waits
<1>3. ASSUME NEW i \in 0..(pktnum' - 1), winbuf'[SlotAfter(winfront', i)].acknum = 1
      PROVE  Kept(base + i)'
  <2>1. Kept(base + i) /\ base + i \in Int
    BY <1>3
  <2>. QED
    BY <2>1 DEF Kept
<1>. QED
  BY <1>1, <1>2, <1>3

\* What B untouched satisfied still holds.
LEMMA ReceiverStays ==
  ASSUME UNCHANGED receiver
  PROVE  /\ Prefix => Prefix'
         /\ NothingReady => NothingReady'
         /\ \A x \in Int : Kept(x) => Kept(x)'
BY DEF receiver, Prefix, InOrder, NothingReady, Kept, Holds

\* A move of A's window keeps the invariant, if it passes only packets that B
\* has passed up and takes its messages from the buffer in order.
LEMMA MoveKeepsIInv ==
  ASSUME IInv, UNCHANGED <<receiver, nfaults, exited>>,
         NEW wb, NEW k, NEW ms, NEW tm, Moves(wb, k, ms, tm),
         \A q \in SeqNums :
           tm[q] = IF /\ q \in (base + k)..(nextseqnum - 1)
                      /\ wb[SlotAfter(winfront, q - base)].acknum = 0
                     THEN 1 ELSE 0,
         \A i \in 0..(pktnum - 1) :
           wb[SlotAfter(winfront, i)].acknum = 1 => Kept(base + i),
         base + k <= expected_seq,
         buffer' \in Seq(Nat), nsim' \in SeqNums, Supply',
         toA' \in Seq(Int), \A i \in 1..Len(toA') : toA'[i] \in Nat /\ Kept(toA'[i])
  PROVE  IInv'
<1>. USE DEF IInv
<1>1. /\ nextseqnum' \in SeqNums /\ toB' \in Seq(Packet)
      /\ nextseqnum <= nextseqnum' /\ nextseqnum' <= base' + WINDOWSIZE
      /\ Arrivals' /\ HeldAreGenuine'
  BY MoveKeepsChannel
<1>2. /\ winbuf' \in [Slots -> Entry] /\ winfront' \in Slots /\ winrear' \in Slots
      /\ Ring' /\ pktnum' \in Nat /\ timers' \in [SeqNums -> Nat] /\ Timers'
      /\ \A i \in 0..(pktnum' - 1) :
           winbuf'[SlotAfter(winfront', i)].acknum = 1 => Kept(base + i)'
  BY MoveKeepsSender
<1>3. /\ base' = base + k /\ k \in Nat /\ base \in Nat /\ nextseqnum \in SeqNums
      /\ expected_seq \in Nat
      /\ UNCHANGED <<expected_seq, recv_window, recv_marked, delivered>>
  BY DEF Moves, TypeOK, SeqNums, receiver
<1>4. WindowBound'
  BY <1>1, <1>3 DEF WindowBound, SeqNums
<1>5. base' \in SeqNums
  <2>1. base' \in Nat /\ base' <= nextseqnum'
    BY <1>1, <1>3, <1>4 DEF WindowBound, SeqNums
  <2>. QED
    BY <1>1, <2>1 DEF SeqNums
<1>6. TypeOK'
  BY <1>1, <1>2, <1>3, <1>5 DEF TypeOK
<1>7. Prefix' /\ NothingReady' /\ \A x \in Int : Kept(x) => Kept(x)'
  BY ReceiverStays
<1>8. Acks'
  <2>1. ASSUME NEW i \in 1..Len(toA')
        PROVE  toA'[i] \in Nat /\ Kept(toA[i])'
    <3>1. toA'[i] \in Nat /\ Kept(toA'[i])
      OBVIOUS
    <3>. QED
      BY <1>3, <3>1 DEF Kept, Holds
  <2>. QED
    BY <1>2, <2>1 DEF Acks
<1>. QED
  BY <1>1, <1>2, <1>4, <1>6, <1>7, <1>8

\* A_output keeps the invariant, whether it sends the message, buffers it or
\* gives up.
LEMMA FromLayer5IInv == IInv /\ FromLayer5 => IInv'
<1>. SUFFICES ASSUME IInv, FromLayer5 PROVE IInv'
  OBVIOUS
<1>. USE DEF IInv
<1>1. /\ nextseqnum \in Nat /\ base \in Nat /\ nsim \in Nat /\ nsim < NSimMax
      /\ Len(buffer) \in Nat /\ buffer \in Seq(Nat) /\ nsim' = nsim + 1
      /\ nsim' \in SeqNums /\ A_output(nsim) /\ ~ exited
      /\ UNCHANGED <<toA, nfaults, receiver>>
  BY DEF TypeOK, SeqNums, FromLayer5
<1>2. CASE nextseqnum < base + WINDOWSIZE
  <2>. DEFINE ms == <<nsim>>
  <2>1. /\ SendAll(ms, winbuf, timers) /\ pktnum' = pktnum + 1
        /\ UNCHANGED <<base, winfront, buffer, exited>>
    BY <1>1, <1>2 DEF A_output
  <2>2. buffer = << >> /\ nextseqnum = nsim
    BY <1>1, <1>2 DEF Supply, BufferedOnlyWhenFull
  <2>3. /\ ms \in Seq(Nat) /\ Len(ms) = 1 /\ ms[1] = nsim
    BY <1>1
  <2>. HIDE DEF ms
  <2>4. Consecutive(ms, nextseqnum)
    BY <1>1, <2>2, <2>3 DEF Consecutive
  <2>5. /\ pktnum \in Nat /\ pktnum = nextseqnum - base /\ winfront \in Slots
        /\ winbuf \in [Slots -> Entry] /\ RingFrom(winbuf, winfront, base, pktnum)
        /\ timers \in [SeqNums -> Nat]
    BY DEF Ring, TypeOK
  <2>6. SlotAfter(winfront, 0) = winfront
    BY <2>5, Place DEF Slots
  <2>7. Moves(winbuf, 0, ms, timers)
    BY <1>1, <1>2, <2>1, <2>2, <2>3, <2>4, <2>5, <2>6 DEF Moves
  <2>8. \A q \in SeqNums :
          timers[q] = IF /\ q \in (base + 0)..(nextseqnum - 1)
                         /\ winbuf[SlotAfter(winfront, q - base)].acknum = 0
                        THEN 1 ELSE 0
    <3>1. base + 0 = base
      BY <1>1
    <3>. QED
      BY <3>1 DEF Timers, Waits
  <2>9. Supply'
    <3>1. nextseqnum' = nextseqnum + 1
      BY <2>1, <2>3 DEF SendAll
    <3>. QED
      BY <1>1, <2>1, <2>2, <3>1 DEF Supply, Consecutive, BufferedOnlyWhenFull
  <2>10. base + 0 <= expected_seq
    BY <1>1 DEF WindowBound
  <2>11. toA' \in Seq(Int) /\ \A i \in 1..Len(toA') : toA'[i] \in Nat /\ Kept(toA'[i])
    BY <1>1 DEF Acks, TypeOK
  <2>12. \A i \in 0..(pktnum - 1) :
           winbuf[SlotAfter(winfront, i)].acknum = 1 => Kept(base + i)
    BY DEF Acks
  <2>. QED
    BY <1>1, <2>1, <2>7, <2>8, <2>9, <2>10, <2>11, <2>12, MoveKeepsIInv
<1>3. CASE nextseqnum >= base + WINDOWSIZE
  <2>1. UNCHANGED <<nextseqnum, base, winbuf, winfront, winrear, pktnum, timers, toB>>
    BY <1>1, <1>3 DEF A_output, sender
  <2>2. buffer' \in Seq(Nat) /\ exited' \in BOOLEAN /\ Supply'
    <3>1. CASE buffer' = Append(buffer, nsim) /\ UNCHANGED exited
      <4>1. /\ buffer' \in Seq(Nat) /\ Len(buffer') = Len(buffer) + 1
            /\ \A i \in 1..Len(buffer') :
                 buffer'[i] = IF i <= Len(buffer) THEN buffer[i] ELSE nsim
        BY <1>1, <3>1
      <4>2. /\ nextseqnum + Len(buffer) = nsim /\ Consecutive(buffer, nextseqnum)
            /\ nextseqnum = base + WINDOWSIZE
        BY <1>1, <1>3 DEF Supply, WindowBound
      <4>3. Consecutive(buffer', nextseqnum')
        <5>1. ASSUME NEW i \in 1..Len(buffer') PROVE buffer'[i] = nextseqnum + i - 1
          <6>1. CASE i <= Len(buffer)
            <7>1. i \in 1..Len(buffer) /\ buffer'[i] = buffer[i]
              BY <1>1, <4>1, <6>1
            <7>. QED
              BY <4>2, <7>1 DEF Consecutive
          <6>2. CASE i > Len(buffer)
            <7>1. i = Len(buffer) + 1 /\ buffer'[i] = nsim
              BY <1>1, <4>1, <6>2
            <7>. QED
              BY <1>1, <4>2, <7>1
          <6>. QED
            BY <1>1, <4>1, <6>1, <6>2
        <5>. QED
          BY <2>1, <5>1 DEF Consecutive
      <4>4. nextseqnum' + Len(buffer') = nsim'
        BY <1>1, <2>1, <4>1, <4>2
      <4>5. exited' \in BOOLEAN /\ BufferedOnlyWhenFull'
        BY <2>1, <3>1, <4>2 DEF BufferedOnlyWhenFull, TypeOK
      <4>6. Supply'
        BY <1>1, <2>1, <4>1, <4>3, <4>4, <4>5 DEF Supply, TypeOK, SeqNums
      <4>. QED
        BY <4>1, <4>5, <4>6
    <3>2. CASE buffer' = buffer /\ exited' = TRUE
      <4>1. nextseqnum' + Len(buffer') <= nsim'
        BY <1>1, <2>1, <3>2 DEF Supply
      <4>2. Consecutive(buffer', nextseqnum') /\ BufferedOnlyWhenFull'
        BY <2>1, <3>2 DEF Supply, Consecutive, BufferedOnlyWhenFull
      <4>3. exited' = TRUE
        BY <3>2
      <4>. QED
        BY <1>1, <3>2, <4>1, <4>2, <4>3 DEF Supply
    <3>3. ~ (nextseqnum < base + WINDOWSIZE)
      BY <1>1, <1>3
    <3>4. UNCHANGED sender => buffer' = buffer
      BY DEF sender
    <3>5. \/ buffer' = Append(buffer, nsim) /\ UNCHANGED exited
          \/ UNCHANGED sender /\ exited' = TRUE
      BY <1>1, <3>3, Zenon DEF A_output
    <3>. QED
      BY <3>1, <3>2, <3>4, <3>5
  <2>3. Prefix' /\ NothingReady' /\ \A x \in Int : Kept(x) => Kept(x)'
    BY <1>1, ReceiverStays
  <2>4. /\ Ring' /\ Timers'
        /\ \A i \in 0..(pktnum' - 1) :
             winbuf'[SlotAfter(winfront', i)].acknum = 1 => Kept(base + i)'
    BY <1>1, <2>1, <2>3, SenderStays DEF Acks
  <2>5. Acks'
    BY <1>1, <2>3, <2>4 DEF Acks
  <2>6. TypeOK' /\ WindowBound'
    BY <1>1, <2>1, <2>2 DEF TypeOK, WindowBound, receiver
  <2>7. HeldAreGenuine' /\ Arrivals'
    BY <1>1, <2>1 DEF HeldAreGenuine, Arrivals, receiver
  <2>. QED
    BY <2>2, <2>3, <2>4, <2>5, <2>6, <2>7
<1>. QED
  BY <1>1, <1>2, <1>3

\* An ACK for waiting packet q marks it in the ring and nothing else.
LEMMA MarkInRing ==
  ASSUME TypeOK, WindowBound, Ring, Acks, NEW q \in SeqNums, Waits(q), Kept(q),
         NEW wb, wb = [winbuf EXCEPT ![SlotAfter(winfront, q - base)].acknum = 1]
  PROVE  /\ wb \in [Slots -> Entry] /\ RingFrom(wb, winfront, base, pktnum)
         /\ q - base \in 0..(pktnum - 1)
         /\ \A j \in 0..(pktnum - 1) :
              wb[SlotAfter(winfront, j)].acknum =
                IF j = q - base THEN 1 ELSE winbuf[SlotAfter(winfront, j)].acknum
         /\ \A j \in 0..(pktnum - 1) :
              wb[SlotAfter(winfront, j)].acknum = 1 => Kept(base + j)
<1>. DEFINE i == q - base
            t == SlotAfter(winfront, i)
<1>1. /\ pktnum \in 0..WINDOWSIZE /\ base \in Nat /\ nextseqnum \in Nat /\ q \in Nat
      /\ pktnum = nextseqnum - base /\ winfront \in Slots
      /\ winbuf \in [Slots -> Entry] /\ RingFrom(winbuf, winfront, base, pktnum)
  <2>1. /\ base \in Nat /\ nextseqnum \in Nat /\ q \in Nat /\ expected_seq \in Nat
        /\ winfront \in Slots /\ winbuf \in [Slots -> Entry]
    BY DEF TypeOK, SeqNums
  <2>. QED
    BY <2>1 DEF WindowBound, Ring
<1>2. i \in 0..(pktnum - 1) /\ base + i = q
  BY <1>1 DEF Waits
<1>. HIDE DEF i
<1>3. t \in Slots
  BY <1>1, <1>2, Place
<1>4. wb = [winbuf EXCEPT ![t].acknum = 1]
  BY DEF i
<1>. HIDE DEF t
<1>5. /\ wb \in [Slots -> Entry]
      /\ wb[t].seqnum = winbuf[t].seqnum /\ wb[t].payload = winbuf[t].payload
      /\ wb[t].acknum = 1
      /\ \A s \in Slots : s # t => wb[s] = winbuf[s]
  <2>1. winbuf[t] \in Entry
    BY <1>1, <1>3
  <2>2. wb[t] = [winbuf[t] EXCEPT !.acknum = 1]
    BY <1>1, <1>3, <1>4
  <2>3. /\ wb[t] \in Entry
        /\ wb[t].seqnum = winbuf[t].seqnum /\ wb[t].payload = winbuf[t].payload
        /\ wb[t].acknum = 1
    BY ONLY <2>1, <2>2 DEF Entry
  <2>4. /\ \A s \in Slots : s # t => wb[s] = winbuf[s]
        /\ wb = [s \in Slots |-> wb[s]]
    BY <1>1, <1>3, <1>4
  <2>5. \A s \in Slots : wb[s] \in Entry
    BY <1>1, <2>3, <2>4
  <2>. QED
    BY <2>3, <2>4, <2>5
<1>6. ASSUME NEW j \in 0..(pktnum - 1)
      PROVE  /\ wb[SlotAfter(winfront, j)].seqnum = base + j
             /\ wb[SlotAfter(winfront, j)].payload = base + j
             /\ wb[SlotAfter(winfront, j)].acknum =
                  IF j = i THEN 1 ELSE winbuf[SlotAfter(winfront, j)].acknum
  <2>1. SlotAfter(winfront, j) \in Slots
    BY <1>1, Place
  <2>2. /\ winbuf[SlotAfter(winfront, j)].seqnum = base + j
        /\ winbuf[SlotAfter(winfront, j)].payload = base + j
    BY <1>1 DEF RingFrom
  <2>3. CASE j = i
    BY <1>5, <2>2, <2>3 DEF t
  <2>4. CASE j # i
    <3>1. SlotAfter(winfront, j) # t
      <4>1. /\ i \in 0..(2 * WINDOWSIZE - 1) /\ j \in 0..(2 * WINDOWSIZE - 1)
            /\ j < i + WINDOWSIZE /\ i < j + WINDOWSIZE
        BY <1>1, <1>2
      <4>2. i < j \/ j < i
        BY <1>1, <1>2, <2>4
      <4>3. CASE i < j
        BY <1>1, <4>1, <4>3, PlacesDiffer DEF t
      <4>4. CASE j < i
        BY <1>1, <4>1, <4>4, PlacesDiffer DEF t
      <4>. QED
        BY <4>2, <4>3, <4>4
    <3>. QED
      <4>1. wb[SlotAfter(winfront, j)] = winbuf[SlotAfter(winfront, j)]
        BY <1>5, <2>1, <3>1
      <4>2. /\ wb[SlotAfter(winfront, j)].seqnum = base + j
            /\ wb[SlotAfter(winfront, j)].payload = base + j
        BY <2>2, <4>1
      <4>3. wb[SlotAfter(winfront, j)].acknum = winbuf[SlotAfter(winfront, j)].acknum
        BY <4>1
      <4>. QED
        BY <2>4, <4>2, <4>3
  <2>. QED
    BY <2>3, <2>4
<1>7. RingFrom(wb, winfront, base, pktnum)
  BY <1>6 DEF RingFrom
<1>8. \A j \in 0..(pktnum - 1) :
        wb[SlotAfter(winfront, j)].acknum = 1 => Kept(base + j)
  BY <1>2, <1>6 DEF Acks
<1>. QED
  BY <1>2, <1>5, <1>6, <1>7, <1>8 DEF i

\* The first n elements of a sequence.
LEMMA Front ==
  ASSUME NEW q \in Seq(Nat), NEW n \in Nat, n <= Len(q)
  PROVE  /\ SubSeq(q, 1, n) \in Seq(Nat) /\ Len(SubSeq(q, 1, n)) = n
         /\ \A i \in 1..n : SubSeq(q, 1, n)[i] = q[i]
<1>1. \A i \in 1..n : q[i] \in Nat
  BY ElementOfSeq
<1>2. /\ SubSeq(q, 1, n) \in Seq(Nat)
      /\ Len(SubSeq(q, 1, n)) = IF 1 <= n THEN n - 1 + 1 ELSE 0
      /\ \A i \in 1..(n - 1 + 1) : SubSeq(q, 1, n)[i] = q[1 + i - 1]
  BY <1>1, SubSeqProperties
<1>3. n - 1 + 1 = n /\ (~ (1 <= n) => n = 0) /\ \A i \in 1..n : 1 + i - 1 = i
  OBVIOUS
<1>. QED
  BY <1>2, <1>3

\* The messages that the window has room for leave the buffer in order.
LEMMA DrainKeepsSupply ==
  ASSUME TypeOK, Supply, NEW nb \in Nat, nextseqnum <= nb + WINDOWSIZE,
         nextseqnum' = nextseqnum + Drained(nb), base' = nb,
         buffer' = SubSeq(buffer, Drained(nb) + 1, Len(buffer)),
         UNCHANGED <<nsim, exited>>
  PROVE  /\ Drained(nb) \in 0..Len(buffer)
         /\ nextseqnum + Drained(nb) <= nb + WINDOWSIZE
         /\ nextseqnum + Drained(nb) <= nsim
         /\ SubSeq(buffer, 1, Drained(nb)) \in Seq(Nat)
         /\ Len(SubSeq(buffer, 1, Drained(nb))) = Drained(nb)
         /\ Consecutive(SubSeq(buffer, 1, Drained(nb)), nextseqnum)
         /\ buffer' \in Seq(Nat) /\ Supply'
<1>. DEFINE n == Drained(nb)
            L == Len(buffer)
<1>1. buffer \in Seq(Nat) /\ L \in Nat /\ nextseqnum \in Nat /\ nsim \in Nat
  BY DEF TypeOK, SeqNums
<1>2. /\ n \in 0..L /\ nextseqnum + n <= nb + WINDOWSIZE
      /\ n < L => nextseqnum + n = nb + WINDOWSIZE
  BY <1>1 DEF Drained, Lesser
<1>3. nextseqnum' = nextseqnum + n /\ buffer' = SubSeq(buffer, n + 1, L)
  OBVIOUS
<1>4. n \in Nat /\ n <= L
  BY <1>1, <1>2
<1>. HIDE DEF n
<1>5. /\ nextseqnum + L <= nsim /\ (~ exited => nextseqnum + L = nsim)
      /\ \A i \in 1..L : buffer[i] = nextseqnum + i - 1
  BY DEF Supply, Consecutive
<1>6. /\ SubSeq(buffer, 1, n) \in Seq(Nat) /\ Len(SubSeq(buffer, 1, n)) = n
      /\ \A i \in 1..n : SubSeq(buffer, 1, n)[i] = buffer[i]
  BY <1>1, <1>4, Front
<1>7. Consecutive(SubSeq(buffer, 1, n), nextseqnum)
  BY <1>1, <1>2, <1>5, <1>6 DEF Consecutive
<1>8. /\ buffer' \in Seq(Nat) /\ Len(buffer') = L - n
      /\ \A i \in 1..(L - n) : buffer'[i] = buffer[i + n]
  <2>1. /\ \A i \in (n + 1)..L : buffer[i] \in Nat
        /\ L - (n + 1) + 1 = L - n /\ n + 1 \in Int /\ L \in Int
        /\ ~ (n + 1 <= L) => L - n = 0
    BY <1>1, <1>2
  <2>2. /\ buffer' \in Seq(Nat) /\ Len(buffer') = L - n
        /\ \A i \in 1..(L - (n + 1) + 1) : buffer'[i] = buffer[n + 1 + i - 1]
    <3>. DEFINE m == n + 1
    <3>1. m \in Int /\ L \in Int /\ \A i \in m..L : buffer[i] \in Nat
      BY <2>1
    <3>. HIDE DEF m
    <3>2. /\ SubSeq(buffer, m, L) \in Seq(Nat)
          /\ Len(SubSeq(buffer, m, L)) = IF m <= L THEN L - m + 1 ELSE 0
          /\ \A i \in 1..(L - m + 1) : SubSeq(buffer, m, L)[i] = buffer[m + i - 1]
      BY <3>1, SubSeqProperties
    <3>3. Len(SubSeq(buffer, m, L)) = L - n
      BY <1>1, <1>4, <3>2 DEF m
    <3>. QED
      BY <1>3, <3>2, <3>3 DEF m
  <2>3. \A i \in 1..(L - n) : n + 1 + i - 1 = i + n
    BY <1>1, <1>2
  <2>. QED
    BY <2>1, <2>2, <2>3
<1>9. nextseqnum' = nextseqnum + n
  BY <1>3
<1>10. Consecutive(buffer', nextseqnum')
  <2>1. ASSUME NEW i \in 1..(L - n) PROVE buffer'[i] = nextseqnum' + i - 1
    <3>1. i + n \in 1..L
      BY <1>1, <1>2
    <3>2. buffer[i + n] = nextseqnum + (i + n) - 1
      BY <1>5, <3>1
    <3>3. buffer'[i] = buffer[i + n]
      BY <1>8
    <3>4. nextseqnum' + i - 1 = nextseqnum + (i + n) - 1
      BY <1>1, <1>9, <1>4
    <3>. QED
      BY <3>2, <3>3, <3>4
  <2>. QED
    BY <1>8, <2>1 DEF Consecutive
<1>11. BufferedOnlyWhenFull'
  <2>1. ASSUME buffer' # << >> PROVE n < L
    <3>1. Len(buffer') # 0
      BY <1>8, <2>1
    <3>. QED
      BY <1>1, <1>2, <1>8, <3>1
  <2>2. base' = nb
    OBVIOUS
  <2>. QED
    BY <1>2, <1>9, <2>1, <2>2 DEF BufferedOnlyWhenFull
<1>12. nextseqnum' + Len(buffer') = nextseqnum + L
  <2>1. nextseqnum + n + (L - n) = nextseqnum + L
    BY <1>1, <1>4
  <2>. QED
    BY <1>8, <1>9, <2>1
<1>13. Supply'
  BY <1>5, <1>10, <1>11, <1>12 DEF Supply
<1>14. nextseqnum + n <= nsim
  BY <1>1, <1>2, <1>5
<1>. QED
  BY <1>2, <1>6, <1>7, <1>8, <1>13, <1>14 DEF n

\* The ACKs left when one has come out of the channel.
LEMMA TailOfAcks ==
  ASSUME TypeOK, Acks, toA # << >>
  PROVE  /\ Head(toA) \in Nat /\ Kept(Head(toA))
         /\ Tail(toA) \in Seq(Int)
         /\ \A i \in 1..Len(Tail(toA)) : Tail(toA)[i] \in Nat /\ Kept(Tail(toA)[i])
<1>1. toA \in Seq(Int) /\ Len(toA) \in Nat /\ Len(toA) # 0
  BY EmptySeq DEF TypeOK
<1>2. /\ Head(toA) = toA[1] /\ Tail(toA) \in Seq(Int) /\ Len(Tail(toA)) = Len(toA) - 1
      /\ \A i \in 1..Len(Tail(toA)) : Tail(toA)[i] = toA[i + 1]
  BY <1>1, HeadTailProperties
<1>3. 1 \in 1..Len(toA)
  BY <1>1
<1>4. \A i \in 1..Len(Tail(toA)) : i + 1 \in 1..Len(toA)
  BY <1>1, <1>2
<1>5. \A i \in 1..Len(toA) : toA[i] \in Nat /\ Kept(toA[i])
  BY DEF Acks
<1>. QED
  BY <1>2, <1>3, <1>4, <1>5

\* base never passes a packet that B has not passed up: the first one it has
\* not is not ready at B, so B neither has passed it up nor holds it.
LEMMA AckedIsPassedUp ==
  ASSUME TypeOK, WindowBound, Ring, NothingReady, NEW wb, NEW k \in 0..pktnum, Acked(wb, k),
         \A j \in 0..(pktnum - 1) :
           wb[SlotAfter(winfront, j)].acknum = 1 => Kept(base + j)
  PROVE  base + k <= expected_seq
<1>1. base \in Nat /\ expected_seq \in Nat /\ nextseqnum \in Nat /\ base <= expected_seq
      /\ pktnum = nextseqnum - base
  BY DEF TypeOK, SeqNums, WindowBound, Ring
<1>2. SUFFICES ASSUME expected_seq < base + k PROVE FALSE
  BY <1>1
<1>. DEFINE j == expected_seq - base
<1>3. j \in 0..(k - 1) /\ j \in 0..(pktnum - 1) /\ base + j = expected_seq
  BY <1>1, <1>2
<1>. HIDE DEF j
<1>4. wb[SlotAfter(winfront, j)].acknum = 1
  BY <1>3 DEF Acked
<1>5. Kept(expected_seq)
  BY <1>3, <1>4
<1>. QED
  BY <1>1, <1>5 DEF Kept, NothingReady

\* An ACK stops its packet's timer, moves the window past the packets at its
\* front that have one, and sends what there is room for: the invariant stays.
LEMMA AcknowledgeIInv ==
  ASSUME IInv, NEW q \in SeqNums, Kept(q), Pending(q) # {}, Acknowledge(q),
         UNCHANGED <<receiver, nfaults, nsim, exited>>, toA' \in Seq(Int),
         \A i \in 1..Len(toA') : toA'[i] \in Nat /\ Kept(toA'[i])
  PROVE  IInv'
<1>. USE DEF IInv
<1>. DEFINE wb == [winbuf EXCEPT ![SlotAfter(winfront, q - base)].acknum = 1]
            tm == TimerStopped(q)
<1>1. /\ nextseqnum \in Nat /\ base \in Nat /\ base \in SeqNums /\ q \in Nat
      /\ nsim \in SeqNums /\ pktnum = nextseqnum - base
      /\ nextseqnum <= base + WINDOWSIZE /\ expected_seq \in Nat
      /\ timers \in [SeqNums -> Nat]
  BY DEF TypeOK, SeqNums, WindowBound, Ring
<1>2. Waits(q) /\ Pending(q) = {q - base}
  BY PendingIsWaiting
<1>3. PICK k \in 0..pktnum :
        /\ Acked(wb, k) /\ base' = base + k
        /\ winfront' = SlotAfter(winfront, k)
        /\ SendAll(SubSeq(buffer, 1, Drained(base + k)), wb, tm)
        /\ buffer' = SubSeq(buffer, Drained(base + k) + 1, Len(buffer))
        /\ pktnum' = pktnum - k + Drained(base + k)
  BY <1>2, Zenon DEF Acknowledge
<1>4. /\ wb \in [Slots -> Entry] /\ RingFrom(wb, winfront, base, pktnum)
      /\ q - base \in 0..(pktnum - 1)
      /\ \A j \in 0..(pktnum - 1) :
           wb[SlotAfter(winfront, j)].acknum =
             IF j = q - base THEN 1 ELSE winbuf[SlotAfter(winfront, j)].acknum
      /\ \A j \in 0..(pktnum - 1) :
           wb[SlotAfter(winfront, j)].acknum = 1 => Kept(base + j)
  BY <1>2, MarkInRing
<1>5. tm \in [SeqNums -> Nat] /\ \A x \in SeqNums : tm[x] = IF x = q THEN 0 ELSE timers[x]
  <2>1. timers[q] = 1
    BY <1>2 DEF Timers
  <2>. QED
    BY <1>1, <2>1 DEF TimerStopped
<1>. HIDE DEF wb, tm
<1>6. base + k <= expected_seq
  BY <1>3, <1>4, AckedIsPassedUp
<1>. DEFINE n == Drained(base + k)
            ms == SubSeq(buffer, 1, n)
<1>7. /\ base + k \in Nat /\ nextseqnum <= base + k + WINDOWSIZE /\ k \in Nat
  BY <1>1
<1>8. nextseqnum' = nextseqnum + n
  <2>1. n \in Nat /\ n <= Len(buffer)
    <3>1. Len(buffer) \in Nat
      BY DEF TypeOK
    <3>. QED
      BY <1>1, <1>7, <3>1 DEF Drained, Lesser
  <2>2. Len(ms) = n
    <3>1. buffer \in Seq(Nat)
      BY DEF TypeOK
    <3>. QED
      BY <2>1, <3>1
  <2>. QED
    BY <1>3, <2>2 DEF SendAll
<1>9. /\ n \in 0..Len(buffer) /\ nextseqnum + n <= base + k + WINDOWSIZE
      /\ nextseqnum + n <= nsim /\ ms \in Seq(Nat) /\ Len(ms) = n
      /\ Consecutive(ms, nextseqnum) /\ buffer' \in Seq(Nat) /\ Supply'
  BY <1>3, <1>7, <1>8, DrainKeepsSupply
<1>. HIDE DEF n, ms
<1>10. Moves(wb, k, ms, tm)
  <2>1. pktnum - k + Len(ms) <= WINDOWSIZE /\ nextseqnum + Len(ms) <= NSimMax
    <3>1. n \in Nat
      BY <1>9, LenProperties DEF TypeOK
    <3>. QED
      BY <1>1, <1>7, <1>9, <3>1 DEF SeqNums
  <2>2. SendAll(ms, wb, tm) /\ pktnum' = pktnum - k + Len(ms)
    BY <1>3, <1>9 DEF n, ms
  <2>. QED
    BY <1>3, <1>4, <1>5, <1>9, <2>1, <2>2 DEF Moves
<1>11. ASSUME NEW x \in SeqNums
       PROVE  tm[x] = IF /\ x \in (base + k)..(nextseqnum - 1)
                         /\ wb[SlotAfter(winfront, x - base)].acknum = 0
                        THEN 1 ELSE 0
  <2>1. x \in Nat /\ x - base \in Int
    BY <1>1 DEF SeqNums
  <2>2. CASE x \notin base..(nextseqnum - 1)
    <3>1. x \notin (base + k)..(nextseqnum - 1) /\ x # q
      BY <1>1, <1>2, <1>7, <2>1, <2>2 DEF Waits
    <3>2. timers[x] = 0
      BY <2>2 DEF Timers, Waits
    <3>. QED
      BY <1>5, <3>1, <3>2
  <2>3. CASE x \in base..(nextseqnum - 1)
    <3>. DEFINE j == x - base
    <3>1. j \in 0..(pktnum - 1) /\ (j = q - base <=> x = q) /\ (j < k <=> x < base + k)
      BY <1>1, <1>7, <2>1, <2>3
    <3>. HIDE DEF j
    <3>2. wb[SlotAfter(winfront, j)].acknum =
            IF x = q THEN 1 ELSE winbuf[SlotAfter(winfront, j)].acknum
      BY <1>4, <3>1
    <3>3. timers[x] = IF winbuf[SlotAfter(winfront, j)].acknum = 0 THEN 1 ELSE 0
      BY <2>3 DEF Timers, Waits, j
    <3>4. tm[x] = IF wb[SlotAfter(winfront, j)].acknum = 0 THEN 1 ELSE 0
      BY <1>5, <3>2, <3>3
    <3>5. x \notin (base + k)..(nextseqnum - 1) => wb[SlotAfter(winfront, j)].acknum = 1
      <4>1. x \notin (base + k)..(nextseqnum - 1) => j \in 0..(k - 1)
        BY <1>1, <1>7, <2>1, <2>3, <3>1
      <4>. QED
        BY <1>3, <4>1 DEF Acked
    <3>. QED
      BY <3>4, <3>5 DEF j
  <2>. QED
    BY <2>2, <2>3
<1>12. UNCHANGED <<receiver, nfaults, exited>> /\ nsim' \in SeqNums
  BY <1>1
<1>13. \A j \in 0..(pktnum - 1) :
         wb[SlotAfter(winfront, j)].acknum = 1 => Kept(base + j)
  BY <1>4
<1>14. buffer' \in Seq(Nat) /\ Supply'
  BY <1>9
<1>. HIDE DEF IInv
<1>. QED
  BY <1>6, <1>10, <1>11, <1>12, <1>13, <1>14, MoveKeepsIInv

\* A_input keeps the invariant, for an ACK that A waits for and for any other.
LEMMA A_inputIInv == IInv /\ A_input => IInv'
<1>. SUFFICES ASSUME IInv, A_input PROVE IInv'
  OBVIOUS
<1>. USE DEF IInv
<1>. DEFINE q == Head(toA)
<1>1. toA # << >> /\ toA' = Tail(toA) /\ UNCHANGED <<receiver, nfaults, nsim, exited>>
  BY DEF A_input
<1>2. /\ q \in Nat /\ Kept(q) /\ toA' \in Seq(Int)
      /\ \A i \in 1..Len(toA') : toA'[i] \in Nat /\ Kept(toA'[i])
  BY <1>1, TailOfAcks
<1>3. base \in Nat /\ nextseqnum \in SeqNums
  BY DEF TypeOK, SeqNums
<1>4. CASE q \in base..(nextseqnum - 1) /\ Pending(q) # {}
  <2>1. q \in SeqNums
    BY <1>2, <1>3, <1>4 DEF SeqNums
  <2>2. Acknowledge(q)
    BY <1>4 DEF A_input
  <2>. QED
    BY <1>1, <1>2, <1>4, <2>1, <2>2, AcknowledgeIInv
<1>5. CASE ~ (q \in base..(nextseqnum - 1) /\ Pending(q) # {})
  <2>1. UNCHANGED <<sender, timers, toB>>
    BY <1>5 DEF A_input
  <2>2. UNCHANGED <<nextseqnum, base, winbuf, winfront, winrear, pktnum, buffer>>
    BY <2>1 DEF sender
  <2>3. Prefix' /\ NothingReady' /\ \A x \in Int : Kept(x) => Kept(x)'
    BY <1>1, ReceiverStays
  <2>4. /\ Ring' /\ Timers'
        /\ \A i \in 0..(pktnum' - 1) :
             winbuf'[SlotAfter(winfront', i)].acknum = 1 => Kept(base + i)'
    BY <1>3, <2>1, <2>2, <2>3, SenderStays DEF Acks
  <2>5. Acks'
    BY <1>1, <1>2, <2>4 DEF Acks, Kept, Holds, receiver
  <2>6. TypeOK' /\ WindowBound'
    BY <1>1, <1>2, <2>1, <2>2 DEF TypeOK, WindowBound, receiver
  <2>7. HeldAreGenuine' /\ Arrivals'
    BY <1>1, <2>1, <2>2 DEF HeldAreGenuine, Arrivals, receiver
  <2>8. Supply'
    BY <1>1, <2>2 DEF Supply, Consecutive, BufferedOnlyWhenFull
  <2>. QED
    BY <2>3, <2>4, <2>5, <2>6, <2>7, <2>8
<1>. QED
  BY <1>4, <1>5

\* A timeout finds its packet in the window and sends it once more.
LEMMA TimeoutIInv ==
  ASSUME IInv, NEW q \in SeqNums, A_packet_time_rinterrupt(q)
  PROVE  IInv'
<1>. USE DEF IInv
<1>. DEFINE i == q - base
            e == winbuf[SlotAfter(winfront, i)]
            new == <<[seqnum |-> q, payload |-> q]>>
<1>1. /\ nextseqnum \in Nat /\ base \in Nat /\ q \in Nat /\ expected_seq \in Nat
      /\ pktnum = nextseqnum - base /\ nextseqnum <= base + WINDOWSIZE
      /\ timers[q] > 0 /\ UNCHANGED <<sender, toA, nfaults, receiver, nsim, exited>>
  BY DEF TypeOK, SeqNums, Ring, WindowBound, A_packet_time_rinterrupt
<1>2. UNCHANGED <<nextseqnum, base, winbuf, winfront, winrear, pktnum, buffer>>
  BY <1>1 DEF sender
<1>3. Waits(q)
  BY <1>1 DEF Timers
<1>4. Pending(q) = {i}
  BY <1>3, PendingIsWaiting
<1>5. q \in base..(nextseqnum - 1) /\ i \in 0..(pktnum - 1) /\ base + i = q
  BY <1>1, <1>3 DEF Waits
<1>6. e.seqnum = q /\ e.payload = q
  BY <1>5 DEF Ring, RingFrom
<1>7. timers' = timers /\ toB' = toB \o new
  <2>1. UNCHANGED timers /\ toB' = Append(toB, [seqnum |-> e.seqnum, payload |-> e.payload])
    BY <1>4 DEF A_packet_time_rinterrupt
  <2>2. toB' = Append(toB, [seqnum |-> q, payload |-> q])
    BY <1>6, <2>1
  <2>3. toB \in Seq(Packet) /\ [seqnum |-> q, payload |-> q] \in Packet
    BY <1>1 DEF TypeOK, Packet
  <2>. HIDE DEF e, i
  <2>. QED
    BY <2>1, <2>2, <2>3, AppendIsConcat
<1>8. new \in Seq(Packet) /\ Len(new) = 1 /\ new[1] = [seqnum |-> q, payload |-> q]
  BY <1>1 DEF Packet
<1>9. nextseqnum' \in Nat /\ nextseqnum' = nextseqnum
  BY <1>1, <1>2
<1>. HIDE DEF new
<1>10. ASSUME NEW x \in 1..Len(new)
       PROVE  /\ Genuine(new[x], nextseqnum')
              /\ nextseqnum <= new[x].seqnum + WINDOWSIZE
              /\ \A j \in 1..(x - 1) : new[j].seqnum < new[x].seqnum + WINDOWSIZE
  <2>1. x = 1 /\ new[x].seqnum = q /\ new[x].payload = q
    BY <1>8
  <2>2. nextseqnum <= q + WINDOWSIZE /\ q \in 0..(nextseqnum - 1)
    BY <1>1, <1>5
  <2>. QED
    BY <1>9, <2>1, <2>2 DEF Genuine
<1>11. toB' \in Seq(Packet) /\ Arrivals' /\ HeldAreGenuine'
  <2>1. UNCHANGED receiver /\ nextseqnum <= nextseqnum'
    BY <1>1, <1>9
  <2>. QED
    BY <1>7, <1>8, <1>9, <1>10, <2>1, SendKeepsArrivals
<1>12. Prefix' /\ NothingReady' /\ \A x \in Int : Kept(x) => Kept(x)'
  BY <1>1, ReceiverStays
<1>13. /\ Ring' /\ Timers'
       /\ \A j \in 0..(pktnum' - 1) :
            winbuf'[SlotAfter(winfront', j)].acknum = 1 => Kept(base + j)'
  BY <1>1, <1>2, <1>7, <1>12, SenderStays DEF Acks
<1>14. Acks'
  BY <1>1, <1>13 DEF Acks, Kept, Holds, receiver
<1>15. TypeOK' /\ WindowBound'
  BY <1>1, <1>2, <1>7, <1>11 DEF TypeOK, WindowBound, receiver
<1>16. Supply'
  BY <1>1, <1>2 DEF Supply, Consecutive, BufferedOnlyWhenFull
<1>. QED
  BY <1>11, <1>12, <1>13, <1>14, <1>15, <1>16

\* The packets left when one has come out of the channel, and that one.
LEMMA TailOfPackets ==
  ASSUME TypeOK, Arrivals, toB # << >>
  PROVE  /\ Head(toB) \in Packet /\ Genuine(Head(toB), nextseqnum)
         /\ expected_seq <= Head(toB).seqnum + WINDOWSIZE
         /\ \A s \in Slots : recv_marked[s] = 1 =>
              recv_window[s].seqnum < Head(toB).seqnum + WINDOWSIZE
         /\ Tail(toB) \in Seq(Packet)
         /\ \A i \in 1..Len(Tail(toB)) :
              /\ Genuine(Tail(toB)[i], nextseqnum)
              /\ expected_seq <= Tail(toB)[i].seqnum + WINDOWSIZE
              /\ Head(toB).seqnum < Tail(toB)[i].seqnum + WINDOWSIZE
              /\ \A j \in 1..(i - 1) :
                   Tail(toB)[j].seqnum < Tail(toB)[i].seqnum + WINDOWSIZE
              /\ \A s \in Slots : recv_marked[s] = 1 =>
                   recv_window[s].seqnum < Tail(toB)[i].seqnum + WINDOWSIZE
<1>. DEFINE rest == Tail(toB)
<1>1. toB \in Seq(Packet) /\ Len(toB) \in Nat /\ Len(toB) # 0
  BY EmptySeq DEF TypeOK
<1>2. /\ Head(toB) = toB[1] /\ Head(toB) \in Packet
      /\ rest \in Seq(Packet) /\ Len(rest) = Len(toB) - 1
      /\ \A i \in 1..Len(rest) : rest[i] = toB[i + 1]
  BY <1>1, HeadTailProperties
<1>. HIDE DEF rest
<1>3. 1 \in 1..Len(toB)
  BY <1>1
<1>4. ASSUME NEW i \in 1..Len(rest)
      PROVE  /\ Genuine(rest[i], nextseqnum)
             /\ expected_seq <= rest[i].seqnum + WINDOWSIZE
             /\ Head(toB).seqnum < rest[i].seqnum + WINDOWSIZE
             /\ \A j \in 1..(i - 1) : rest[j].seqnum < rest[i].seqnum + WINDOWSIZE
             /\ \A s \in Slots : recv_marked[s] = 1 =>
                  recv_window[s].seqnum < rest[i].seqnum + WINDOWSIZE
  <2>. DEFINE k == i + 1
  <2>1. k \in 1..Len(toB) /\ rest[i] = toB[k] /\ 1 \in 1..(k - 1)
        /\ \A j \in 1..(i - 1) : j + 1 \in 1..(k - 1) /\ rest[j] = toB[j + 1]
    BY <1>1, <1>2
  <2>. HIDE DEF k
  <2>2. /\ Genuine(toB[k], nextseqnum)
        /\ expected_seq <= toB[k].seqnum + WINDOWSIZE
        /\ \A j \in 1..(k - 1) : toB[j].seqnum < toB[k].seqnum + WINDOWSIZE
        /\ \A s \in Slots : recv_marked[s] = 1 =>
             recv_window[s].seqnum < toB[k].seqnum + WINDOWSIZE
    BY <2>1 DEF Arrivals
  <2>3. Head(toB).seqnum < rest[i].seqnum + WINDOWSIZE
    BY <1>2, <2>1, <2>2
  <2>4. \A j \in 1..(i - 1) : rest[j].seqnum < rest[i].seqnum + WINDOWSIZE
    BY <2>1, <2>2
  <2>. QED
    BY <2>1, <2>2, <2>3, <2>4
<1>5. /\ Genuine(toB[1], nextseqnum) /\ expected_seq <= toB[1].seqnum + WINDOWSIZE
      /\ \A s \in Slots : recv_marked[s] = 1 =>
           recv_window[s].seqnum < toB[1].seqnum + WINDOWSIZE
  BY <1>3 DEF Arrivals
<1>. QED
  BY <1>2, <1>4, <1>5 DEF rest

\* A packet or an ACK less under way: the invariant asks for none.
LEMMA PerishIInv == IInv /\ Perish => IInv'
<1>. SUFFICES ASSUME IInv, Perish PROVE IInv'
  OBVIOUS
<1>. USE DEF IInv
<1>1. /\ UNCHANGED <<sender, timers, receiver, nsim, exited>>
      /\ nfaults' \in Nat
      /\ \/ toB # << >> /\ toB' = Tail(toB) /\ UNCHANGED toA
         \/ toA # << >> /\ toA' = Tail(toA) /\ UNCHANGED toB
  BY DEF Perish, TypeOK, Lesser
<1>2. /\ UNCHANGED <<nextseqnum, base, winbuf, winfront, winrear, pktnum, buffer>>
      /\ UNCHANGED <<expected_seq, recv_window, recv_marked, delivered>>
      /\ UNCHANGED <<timers, nsim, exited>> /\ base \in Nat
  BY <1>1 DEF sender, receiver, TypeOK, SeqNums
<1>3. Prefix' /\ NothingReady' /\ \A x \in Int : Kept(x) => Kept(x)'
  BY <1>1, ReceiverStays
<1>4. /\ Ring' /\ Timers'
      /\ \A j \in 0..(pktnum' - 1) :
           winbuf'[SlotAfter(winfront', j)].acknum = 1 => Kept(base + j)'
  BY <1>2, <1>3, SenderStays DEF Acks
<1>5. HeldAreGenuine' /\ WindowBound'
  BY <1>2 DEF HeldAreGenuine, WindowBound
<1>6. Supply'
  BY <1>2 DEF Supply, Consecutive, BufferedOnlyWhenFull
<1>7. toB' \in Seq(Packet) /\ Arrivals'
  <2>1. CASE toB # << >> /\ toB' = Tail(toB)
    BY <1>2, <2>1, TailOfPackets DEF Arrivals
  <2>2. CASE UNCHANGED toB
    BY <1>2, <2>2 DEF Arrivals, TypeOK
  <2>. QED
    BY <1>1, <2>1, <2>2
<1>8. toA' \in Seq(Int) /\ Acks'
  <2>1. toA' \in Seq(Int) /\ \A i \in 1..Len(toA') : toA'[i] \in Nat /\ Kept(toA'[i])
    <3>1. CASE toA # << >> /\ toA' = Tail(toA)
      BY <3>1, TailOfAcks
    <3>2. CASE UNCHANGED toA
      BY <3>2 DEF Acks, TypeOK
    <3>. QED
      BY <1>1, <3>1, <3>2
  <2>. QED
    BY <1>2, <1>4, <2>1 DEF Acks, Kept, Holds
<1>9. TypeOK'
  BY <1>1, <1>2, <1>7, <1>8 DEF TypeOK
<1>. QED
  BY <1>3, <1>4, <1>5, <1>6, <1>7, <1>8, <1>9

\* The loop of B_input passes up a run of genuine packets, stops at the first
\* that is missing, and clears the slots of that run and of no other packet.
LEMMA DeliverRunKeeps ==
  ASSUME TypeOK, WindowBound, Prefix,
         NEW w \in [Slots -> Packet], NEW mk \in [Slots -> {0, 1}], DeliverRun(w, mk),
         \A s \in Slots : mk[s] = 1 =>
           Genuine(w[s], nextseqnum) /\ SlotOf(w[s].seqnum) = s
  PROVE  /\ expected_seq' \in Nat /\ expected_seq <= expected_seq'
         /\ expected_seq' <= nextseqnum
         /\ expected_seq' = expected_seq \/ Holds(w, mk, expected_seq' - 1)
         /\ recv_window' = w /\ recv_marked' \in [Slots -> {0, 1}]
         /\ \A s \in Slots : recv_marked'[s] = 1 => mk[s] = 1
         /\ delivered' \in Seq(Int) /\ Prefix' /\ NothingReady'
         /\ \A x \in Nat : Holds(w, mk, x) =>
              x < expected_seq' \/ Holds(recv_window', recv_marked', x)
<1>1. PICK n \in 0..WINDOWSIZE :
        /\ \A j \in 0..(n - 1) : Holds(w, mk, expected_seq + j)
        /\ ~ Holds(w, mk, expected_seq + n)
        /\ recv_window' = w
        /\ recv_marked' = [s \in Slots |->
                             IF \E j \in 0..(n - 1) : s = SlotOf(expected_seq + j)
                               THEN 0 ELSE mk[s]]
        /\ delivered' = delivered \o
             [j \in 1..n |-> w[SlotOf(expected_seq + j - 1)].payload]
        /\ expected_seq' = expected_seq + n
  BY Zenon DEF DeliverRun
<1>2. n \in Nat /\ expected_seq \in Nat /\ nextseqnum \in Nat /\ expected_seq <= nextseqnum
      /\ delivered \in Seq(Int)
  BY DEF TypeOK, SeqNums, WindowBound
<1>. DEFINE e == expected_seq
<1>3. ASSUME NEW j \in 0..(n - 1)
      PROVE  /\ SlotOf(e + j) \in Slots /\ w[SlotOf(e + j)].seqnum = e + j
             /\ w[SlotOf(e + j)].payload = e + j /\ e + j < nextseqnum
  <2>1. e + j \in Nat
    BY <1>2
  <2>2. SlotOf(e + j) \in Slots
    BY <2>1, SlotOfType
  <2>3. mk[SlotOf(e + j)] = 1 /\ w[SlotOf(e + j)].seqnum = e + j
    BY <1>1 DEF Holds
  <2>4. Genuine(w[SlotOf(e + j)], nextseqnum)
    BY <2>2, <2>3
  <2>5. /\ w[SlotOf(e + j)].seqnum \in 0..(nextseqnum - 1)
        /\ w[SlotOf(e + j)].payload = w[SlotOf(e + j)].seqnum
    BY <2>4 DEF Genuine
  <2>6. e + j \in 0..(nextseqnum - 1)
    BY <2>3, <2>5
  <2>7. e + j < nextseqnum
    BY <1>2, <2>1, <2>6
  <2>. QED
    BY <2>2, <2>3, <2>5, <2>7
<1>4. /\ expected_seq' \in Nat /\ e <= expected_seq' /\ expected_seq' <= nextseqnum
      /\ expected_seq' = e \/ Holds(w, mk, expected_seq' - 1)
  <2>1. CASE n = 0
    BY <1>1, <1>2, <2>1
  <2>2. CASE n # 0
    <3>1. n - 1 \in 0..(n - 1) /\ expected_seq' - 1 = e + (n - 1)
      BY <1>1, <1>2, <2>2
    <3>2. e + (n - 1) < nextseqnum /\ Holds(w, mk, e + (n - 1))
      BY <1>1, <1>3, <3>1
    <3>3. Holds(w, mk, expected_seq' - 1)
      BY <3>1, <3>2
    <3>4. expected_seq' \in Nat /\ e <= expected_seq' /\ expected_seq' <= nextseqnum
      BY <1>1, <1>2, <3>2
    <3>. QED
      BY <3>3, <3>4
  <2>. QED
    BY <2>1, <2>2
<1>5. /\ recv_marked' \in [Slots -> {0, 1}]
      /\ \A s \in Slots : recv_marked'[s] = 1 => mk[s] = 1
  BY <1>1
<1>6. NothingReady'
  <2>1. SlotOf(e + n) \in Slots
    BY <1>2, SlotOfType
  <2>2. ~ (mk[SlotOf(e + n)] = 1 /\ w[SlotOf(e + n)].seqnum = e + n)
    BY <1>1 DEF Holds
  <2>3. ~ Holds(recv_window', recv_marked', e + n)
    BY <1>1, <1>5, <2>1, <2>2 DEF Holds
  <2>. QED
    BY <1>1, <2>3 DEF NothingReady
<1>7. delivered' \in Seq(Int) /\ Prefix'
  <2>. DEFINE run == [j \in 1..n |-> w[SlotOf(e + j - 1)].payload]
  <2>1. ASSUME NEW j \in 1..n PROVE run[j] = e + j - 1
    <3>1. j - 1 \in 0..(n - 1) /\ e + (j - 1) = e + j - 1
      BY <1>2
    <3>2. w[SlotOf(e + (j - 1))].payload = e + (j - 1)
      BY <1>3, <3>1
    <3>. QED
      BY <3>1, <3>2
  <2>2. run \in Seq(Int) /\ Len(run) = n
    <3>1. ASSUME NEW j \in 1..n PROVE w[SlotOf(e + j - 1)].payload \in Int
      <4>1. run[j] = w[SlotOf(e + j - 1)].payload
        OBVIOUS
      <4>2. e + j - 1 \in Int
        BY <1>2
      <4>. HIDE DEF run
      <4>. QED
        BY <2>1, <4>1, <4>2
    <3>. QED
      BY <1>2, <3>1
  <2>3. delivered' = delivered \o run
    BY <1>1
  <2>. HIDE DEF run
  <2>4. /\ delivered' \in Seq(Int) /\ Len(delivered') = Len(delivered) + n
        /\ \A i \in 1..Len(delivered') :
             delivered'[i] = IF i <= Len(delivered) THEN delivered[i]
                             ELSE run[i - Len(delivered)]
    BY <1>2, <2>2, <2>3, ConcatProperties
  <2>5. Len(delivered) = e /\ \A i \in 1..Len(delivered) : delivered[i] = i - 1
    BY DEF Prefix, InOrder
  <2>6. ASSUME NEW i \in 1..Len(delivered') PROVE delivered'[i] = i - 1
    <3>1. i \in 1..(e + n)
      BY <2>4, <2>5
    <3>2. CASE i <= e
      <4>1. i \in 1..Len(delivered) /\ delivered'[i] = delivered[i]
        BY <1>2, <2>4, <2>5, <3>1, <3>2
      <4>. QED
        BY <2>5, <4>1
    <3>3. CASE i > e
      <4>1. i - e \in 1..n /\ e + (i - e) - 1 = i - 1
        BY <1>2, <3>1, <3>3
      <4>2. delivered'[i] = run[i - e]
        BY <1>2, <2>4, <2>5, <3>1, <3>3
      <4>3. run[i - e] = e + (i - e) - 1
        BY <2>1, <4>1
      <4>. QED
        BY <4>1, <4>2, <4>3
    <3>. QED
      BY <1>2, <3>1, <3>2, <3>3
  <2>7. Len(delivered') = expected_seq'
    BY <1>1, <2>4, <2>5
  <2>. QED
    BY <2>4, <2>6, <2>7 DEF Prefix, InOrder
<1>8. ASSUME NEW x \in Nat, Holds(w, mk, x), ~ (x < expected_seq')
      PROVE  Holds(recv_window', recv_marked', x)
  <2>1. SlotOf(x) \in Slots /\ mk[SlotOf(x)] = 1 /\ w[SlotOf(x)].seqnum = x
    BY <1>8, SlotOfType DEF Holds
  <2>2. ASSUME NEW j \in 0..(n - 1) PROVE SlotOf(x) # SlotOf(e + j)
    <3>1. w[SlotOf(e + j)].seqnum = e + j
      BY <1>3
    <3>2. e + j < expected_seq'
      BY <1>1, <1>2
    <3>3. x # e + j
      BY <1>8, <3>2
    <3>. QED
      BY <2>1, <3>1, <3>3
  <2>3. recv_marked'[SlotOf(x)] = 1
    BY <1>1, <2>1, <2>2
  <2>. QED
    BY <1>1, <2>1, <2>3 DEF Holds
<1>. QED
  BY <1>1, <1>4, <1>5, <1>6, <1>7, <1>8

\* B_input keeps the invariant, once it has put the arriving packet p, if it is
\* a new one, into the receive window w whose marks are mk: no packet under way
\* is a window behind those of w, and w has what B had kept.
LEMMA ArrivalIInv ==
  ASSUME IInv, toB # << >>, toB' = Tail(toB),
         UNCHANGED <<sender, timers, nfaults, nsim, exited>>,
         NEW w \in [Slots -> Packet], NEW mk \in [Slots -> {0, 1}], DeliverRun(w, mk),
         \A s \in Slots : mk[s] = 1 =>
           /\ Genuine(w[s], nextseqnum) /\ SlotOf(w[s].seqnum) = s
           /\ w[s] = Head(toB) \/ (recv_marked[s] = 1 /\ w[s] = recv_window[s]),
         \A x \in Nat : Kept(x) => x < expected_seq \/ Holds(w, mk, x),
         toA' \in Seq(Int),
         \A i \in 1..Len(toA') :
           toA'[i] \in Nat /\ (toA'[i] < expected_seq \/ Holds(w, mk, toA'[i]))
  PROVE  IInv'
<1>. USE DEF IInv
<1>1. /\ UNCHANGED <<nextseqnum, base, winbuf, winfront, winrear, pktnum, buffer>>
      /\ UNCHANGED <<timers, nfaults, nsim, exited>>
      /\ nextseqnum \in Nat /\ base \in Nat /\ expected_seq \in Nat
      /\ base <= expected_seq /\ nextseqnum <= base + WINDOWSIZE
  BY DEF sender, TypeOK, SeqNums, WindowBound
<1>2. /\ expected_seq' \in Nat /\ expected_seq <= expected_seq'
      /\ expected_seq' <= nextseqnum
      /\ expected_seq' = expected_seq \/ Holds(w, mk, expected_seq' - 1)
      /\ recv_window' = w /\ recv_marked' \in [Slots -> {0, 1}]
      /\ \A s \in Slots : recv_marked'[s] = 1 => mk[s] = 1
      /\ delivered' \in Seq(Int) /\ Prefix' /\ NothingReady'
      /\ \A x \in Nat : Holds(w, mk, x) =>
           x < expected_seq' \/ Holds(recv_window', recv_marked', x)
  BY DeliverRunKeeps
<1>3. HeldAreGenuine'
  BY <1>1, <1>2 DEF HeldAreGenuine
<1>4. ASSUME NEW x \in Nat, x < expected_seq \/ Holds(w, mk, x)
      PROVE  x < expected_seq' \/ Holds(recv_window', recv_marked', x)
  BY <1>1, <1>2, <1>4
<1>5. ASSUME NEW x \in Int, Kept(x)
      PROVE  x < expected_seq' \/ Holds(recv_window', recv_marked', x)
  <2>1. CASE x < expected_seq
    BY <1>1, <1>2, <2>1
  <2>2. CASE ~ (x < expected_seq)
    <3>1. x \in Nat
      BY <1>1, <2>2
    <3>. QED
      BY <1>4, <1>5, <3>1
  <2>. QED
    BY <2>1, <2>2
<1>6. \A x \in Int : Kept(x) => Kept(x)'
  BY <1>5 DEF Kept
<1>7. /\ Ring' /\ Timers'
      /\ \A j \in 0..(pktnum' - 1) :
           winbuf'[SlotAfter(winfront', j)].acknum = 1 => Kept(base + j)'
  BY <1>1, <1>6, SenderStays DEF Acks
<1>8. Acks'
  <2>1. \A i \in 1..Len(toA') :
          /\ toA'[i] \in Nat
          /\ toA'[i] < expected_seq' \/ Holds(recv_window', recv_marked', toA'[i])
    BY <1>4
  <2>. QED
    BY <1>7, <2>1 DEF Acks, Kept
<1>9. toB' \in Seq(Packet) /\ Arrivals'
  <2>. DEFINE rest == Tail(toB)
  <2>1. /\ rest \in Seq(Packet)
        /\ \A i \in 1..Len(rest) :
             /\ Genuine(rest[i], nextseqnum)
             /\ expected_seq <= rest[i].seqnum + WINDOWSIZE
             /\ Head(toB).seqnum < rest[i].seqnum + WINDOWSIZE
             /\ \A j \in 1..(i - 1) : rest[j].seqnum < rest[i].seqnum + WINDOWSIZE
             /\ \A s \in Slots : recv_marked[s] = 1 =>
                  recv_window[s].seqnum < rest[i].seqnum + WINDOWSIZE
    BY TailOfPackets
  <2>. HIDE DEF rest
  <2>2. ASSUME NEW i \in 1..Len(rest)
        PROVE  /\ Genuine(rest[i], nextseqnum)
               /\ expected_seq' <= rest[i].seqnum + WINDOWSIZE
               /\ \A j \in 1..(i - 1) : rest[j].seqnum < rest[i].seqnum + WINDOWSIZE
               /\ \A s \in Slots : recv_marked'[s] = 1 =>
                    recv_window'[s].seqnum < rest[i].seqnum + WINDOWSIZE
    <3>1. ASSUME NEW s \in Slots, mk[s] = 1
          PROVE  w[s].seqnum < rest[i].seqnum + WINDOWSIZE
      BY <2>1, <3>1
    <3>2. \A s \in Slots : recv_marked'[s] = 1 =>
            recv_window'[s].seqnum < rest[i].seqnum + WINDOWSIZE
      BY <1>2, <3>1
    <3>3. expected_seq' <= rest[i].seqnum + WINDOWSIZE
      <4>1. CASE expected_seq' = expected_seq
        BY <2>1, <4>1
      <4>2. CASE expected_seq' # expected_seq
        <5>. DEFINE x == expected_seq' - 1
                    t == SlotOf(x)
                    b == rest[i].seqnum
        <5>1. Holds(w, mk, x) /\ x \in Nat
          BY <1>1, <1>2, <4>2
        <5>2. t \in Slots
          BY <5>1, SlotOfType
        <5>3. mk[t] = 1 /\ w[t].seqnum = x
          BY <5>1 DEF Holds
        <5>4. w[t].seqnum < b + WINDOWSIZE
          BY <3>1, <5>2, <5>3
        <5>5. b \in Nat
          BY <1>1, <2>1 DEF Genuine
        <5>. HIDE DEF t, b
        <5>6. x < b + WINDOWSIZE
          BY <5>3, <5>4
        <5>7. expected_seq' <= b + WINDOWSIZE
          BY <1>2, <5>5, <5>6
        <5>. QED
          BY <5>7 DEF b
      <4>. QED
        BY <4>1, <4>2
    <3>. QED
      BY <2>1, <3>2, <3>3
  <2>3. toB' = rest /\ nextseqnum' = nextseqnum
    BY <1>1 DEF rest
  <2>. QED
    BY <2>1, <2>2, <2>3 DEF Arrivals
<1>10. WindowBound'
  BY <1>1, <1>2 DEF WindowBound
<1>11. TypeOK'
  BY <1>1, <1>2, <1>9 DEF TypeOK
<1>12. Supply'
  BY <1>1 DEF Supply, Consecutive, BufferedOnlyWhenFull
<1>. QED
  BY <1>2, <1>3, <1>7, <1>8, <1>9, <1>10, <1>11, <1>12

\* A packet that arrives in the slot of another one finds that B has passed the
\* other one up: B_input never loses a packet it has acknowledged.
LEMMA OverwriteIsSafe ==
  ASSUME IInv, toB # << >>, NEW p, p = Head(toB),
         ~ Holds(recv_window, recv_marked, p.seqnum),
         NEW x \in Nat, Holds(recv_window, recv_marked, x), SlotOf(x) = SlotOf(p.seqnum)
  PROVE  x < expected_seq
<1>. USE DEF IInv
<1>. DEFINE q == p.seqnum
<1>1. /\ nextseqnum \in Nat /\ base \in Nat /\ expected_seq \in Nat
      /\ base <= expected_seq /\ nextseqnum <= base + WINDOWSIZE
  BY DEF TypeOK, SeqNums, WindowBound
<1>2. q \in 0..(nextseqnum - 1)
  BY TailOfPackets DEF Genuine
<1>3. SlotOf(x) \in Slots /\ recv_marked[SlotOf(x)] = 1
      /\ recv_window[SlotOf(x)].seqnum = x
  BY SlotOfType DEF Holds
<1>4. x < q + WINDOWSIZE
  BY <1>3, TailOfPackets
<1>5. x # q
  OBVIOUS
<1>. HIDE DEF q
<1>6. q \in Nat /\ q < nextseqnum
  BY <1>1, <1>2
<1>7. SlotOf(q) = SlotOf(x)
  BY DEF q
<1>8. CASE q < x
  BY <1>4, <1>6, <1>7, <1>8, SameSlot
<1>9. CASE x < q
  <2>1. x + WINDOWSIZE <= q
    BY <1>6, <1>7, <1>9, SameSlot
  <2>. QED
    BY <1>1, <1>6, <2>1
<1>. QED
  BY <1>5, <1>6, <1>8, <1>9

\* No packet comes from outside B's two windows.
LEMMA HeadInWindow ==
  ASSUME IInv, NEW p, Genuine(p, nextseqnum), expected_seq <= p.seqnum + WINDOWSIZE
  PROVE  InReceiveWindow(p.seqnum)
<1>1. /\ nextseqnum \in Nat /\ base \in Nat /\ expected_seq \in Nat
      /\ base <= expected_seq /\ nextseqnum <= base + WINDOWSIZE
  BY DEF IInv, TypeOK, SeqNums, WindowBound
<1>. DEFINE q == p.seqnum
<1>2. q \in 0..(nextseqnum - 1) /\ expected_seq <= q + WINDOWSIZE
  BY DEF Genuine
<1>. HIDE DEF q
<1>3. InReceiveWindow(q)
  BY <1>1, <1>2 DEF InReceiveWindow
<1>. QED
  BY <1>3 DEF q

\* B_input keeps the invariant, for a packet it holds and for a new one.
LEMMA B_inputIInv == IInv /\ B_input => IInv'
<1>. SUFFICES ASSUME IInv, B_input PROVE IInv'
  OBVIOUS
<1>. USE DEF IInv
<1>. DEFINE p == Head(toB)
            q == p.seqnum
            s == SlotOf(q)
<1>1. toB # << >> /\ toB' = Tail(toB) /\ UNCHANGED <<sender, timers, nfaults, nsim, exited>>
  BY DEF B_input
<1>2. p \in Packet /\ Genuine(p, nextseqnum) /\ expected_seq <= q + WINDOWSIZE
  BY <1>1, TailOfPackets
<1>3. InReceiveWindow(q)
  BY <1>2, HeadInWindow
<1>4. /\ nextseqnum \in Nat /\ q \in Nat /\ s \in Slots
      /\ recv_window \in [Slots -> Packet] /\ recv_marked \in [Slots -> {0, 1}]
      /\ toA \in Seq(Int)
  BY <1>2, SlotOfType DEF TypeOK, SeqNums, Genuine
<1>5. \A x \in Nat : Kept(x) => x < expected_seq \/ Holds(recv_window, recv_marked, x)
  BY DEF Kept
<1>6. \A i \in 1..Len(toA) : toA[i] \in Nat /\ Kept(toA[i])
  BY DEF Acks
<1>7. CASE Holds(recv_window, recv_marked, q)
  <2>1. DeliverRun(recv_window, recv_marked) /\ toA' = toA
    BY <1>3, <1>7 DEF B_input
  <2>2. \A t \in Slots : recv_marked[t] = 1 =>
          /\ Genuine(recv_window[t], nextseqnum) /\ SlotOf(recv_window[t].seqnum) = t
          /\ recv_window[t] = Head(toB) \/ recv_marked[t] = 1
    BY DEF HeldAreGenuine
  <2>3. /\ toA' \in Seq(Int)
        /\ \A i \in 1..Len(toA') :
             /\ toA'[i] \in Nat
             /\ toA'[i] < expected_seq \/ Holds(recv_window, recv_marked, toA'[i])
    BY <1>4, <1>5, <1>6, <2>1
  <2>. HIDE DEF IInv
  <2>. QED
    BY <1>1, <1>4, <1>5, <2>1, <2>2, <2>3, ArrivalIInv
<1>8. CASE ~ Holds(recv_window, recv_marked, q)
  <2>. DEFINE w == [recv_window EXCEPT ![s] = p]
              mk == [recv_marked EXCEPT ![s] = 1]
  <2>1. DeliverRun(w, mk) /\ toA' = Append(toA, q)
    BY <1>3, <1>8 DEF B_input
  <2>. HIDE DEF s, q, p
  <2>2. /\ w \in [Slots -> Packet] /\ mk \in [Slots -> {0, 1}]
        /\ w[s] = p /\ mk[s] = 1
        /\ \A t \in Slots : t # s => w[t] = recv_window[t] /\ mk[t] = recv_marked[t]
    BY <1>2, <1>4
  <2>. HIDE DEF w, mk
  <2>3. p.seqnum = q /\ SlotOf(q) = s
    BY DEF p, q, s
  <2>4. ASSUME NEW t \in Slots, mk[t] = 1
        PROVE  /\ Genuine(w[t], nextseqnum) /\ SlotOf(w[t].seqnum) = t
               /\ w[t] = Head(toB) \/ (recv_marked[t] = 1 /\ w[t] = recv_window[t])
    <3>1. CASE t = s
      <4>1. w[t] = p
        BY <2>2, <3>1
      <4>2. Genuine(w[t], nextseqnum)
        BY <1>2, <4>1
      <4>3. SlotOf(w[t].seqnum) = t
        BY <2>3, <3>1, <4>1
      <4>4. w[t] = Head(toB)
        BY <4>1 DEF p
      <4>. QED
        BY <4>2, <4>3, <4>4
    <3>2. CASE t # s
      <4>1. w[t] = recv_window[t] /\ recv_marked[t] = 1
        BY <2>2, <2>4, <3>2
      <4>. QED
        BY <4>1 DEF HeldAreGenuine
    <3>. QED
      BY <3>1, <3>2
  <2>5. ASSUME NEW x \in Nat, Kept(x)
        PROVE  x < expected_seq \/ Holds(w, mk, x)
    <3>1. CASE x < expected_seq
      BY <3>1
    <3>2. CASE Holds(recv_window, recv_marked, x) /\ SlotOf(x) = s
      <4>1. ~ Holds(recv_window, recv_marked, p.seqnum) /\ SlotOf(x) = SlotOf(p.seqnum)
        BY <1>8, <2>3, <3>2
      <4>2. x < expected_seq
        BY <1>1, <3>2, <4>1, OverwriteIsSafe DEF p
      <4>. QED
        BY <4>2
    <3>3. CASE Holds(recv_window, recv_marked, x) /\ SlotOf(x) # s
      <4>1. SlotOf(x) \in Slots
        BY SlotOfType
      <4>. QED
        BY <2>2, <3>3, <4>1 DEF Holds
    <3>. QED
      BY <1>5, <2>5, <3>1, <3>2, <3>3
  <2>6. Holds(w, mk, q)
    BY <2>2, <2>3 DEF Holds
  <2>7. /\ toA' \in Seq(Int) /\ Len(toA') = Len(toA) + 1
        /\ \A i \in 1..Len(toA') : toA'[i] = IF i <= Len(toA) THEN toA[i] ELSE q
    BY <1>4, <2>1, AppendProperties
  <2>8. ASSUME NEW i \in 1..Len(toA')
        PROVE  toA'[i] \in Nat /\ (toA'[i] < expected_seq \/ Holds(w, mk, toA'[i]))
    <3>1. CASE i <= Len(toA)
      <4>1. i \in 1..Len(toA) /\ toA'[i] = toA[i]
        BY <1>4, <2>7, <3>1
      <4>2. toA[i] \in Nat /\ Kept(toA[i])
        BY <1>6, <4>1
      <4>3. toA[i] < expected_seq \/ Holds(w, mk, toA[i])
        BY <2>5, <4>2
      <4>. QED
        BY <4>1, <4>2, <4>3
    <3>2. CASE i > Len(toA)
      <4>1. toA'[i] = q
        BY <1>4, <2>7, <3>2
      <4>. QED
        BY <1>4, <2>6, <4>1
    <3>. QED
      BY <1>4, <2>7, <3>1, <3>2
  <2>. HIDE DEF IInv
  <2>. QED
    BY <1>1, <2>1, <2>2, <2>4, <2>5, <2>7, <2>8, ArrivalIInv
<1>. QED
  BY <1>7, <1>8

\* Every event of the main loop keeps it.
LEMMA NextIInv == IInv /\ [Next]_vars => IInv'
<1>. SUFFICES ASSUME IInv, [Next]_vars PROVE IInv'
  OBVIOUS
<1>1. CASE FromLayer5
  BY <1>1, FromLayer5IInv
<1>2. CASE A_input
  BY <1>2, A_inputIInv
<1>3. ASSUME NEW q \in SeqNums, A_packet_time_rinterrupt(q) PROVE IInv'
  BY <1>3, TimeoutIInv
<1>4. CASE B_input
  BY <1>4, B_inputIInv
<1>5. CASE Perish
  BY <1>5, PerishIInv
<1>6. CASE UNCHANGED vars
  <2>1. /\ UNCHANGED <<nextseqnum, base, winbuf, winfront, winrear, pktnum, buffer>>
        /\ UNCHANGED <<expected_seq, recv_window, recv_marked, delivered>>
        /\ UNCHANGED <<timers, toB, toA, nfaults, nsim, exited>>
    BY <1>6 DEF vars, sender, receiver
  <2>2. TypeOK' /\ WindowBound' /\ Ring' /\ Timers'
    BY <2>1 DEF IInv, TypeOK, WindowBound, Ring, RingFrom, Timers, Waits
  <2>3. Supply' /\ Prefix' /\ HeldAreGenuine'
    BY <2>1 DEF IInv, Supply, Consecutive, BufferedOnlyWhenFull, Prefix, InOrder,
                HeldAreGenuine
  <2>4. Arrivals' /\ Acks' /\ NothingReady'
    BY <2>1 DEF IInv, Arrivals, Acks, Kept, Holds, NothingReady
  <2>. QED
    BY <2>2, <2>3, <2>4 DEF IInv
<1>. QED
  BY <1>1, <1>2, <1>3, <1>4, <1>5, <1>6 DEF Next

\* IInv holds throughout: all that stable.c's handlers preserve together, for
\* any window, any buffer and any number of messages.
THEOREM Inductive == Spec => []IInv
<1>1. Init => IInv
  BY InitIInv
<1>2. IInv /\ [Next]_vars => IInv'
  BY NextIInv
<1>. QED
  BY <1>1, <1>2, PTL DEF Spec

-----------------------------------------------------------------------------
(* What follows from it.                                                   *)

\* Every variable of the two ends keeps its type and its cursors their rings,
\* whatever the channel loses.
THEOREM TypeCorrect == Spec => []TypeOK
<1>1. IInv => TypeOK
  BY DEF IInv
<1>. QED
  BY <1>1, Inductive, PTL

\* B_input passes up the messages in order, each once, though packets overtake
\* each other in its receive window.
THEOREM DeliveryInOrder == Spec => []InOrder
<1>1. IInv => InOrder
  BY DEF IInv, Prefix
<1>. QED
  BY <1>1, Inductive, PTL

\* A_input moves base past no packet that B has not passed up.
THEOREM WindowBounded == Spec => []WindowBound
<1>1. IInv => WindowBound
  BY DEF IInv
<1>. QED
  BY <1>1, Inductive, PTL

\* The ring's cursors follow base and nextseqnum on every lap, so the search by
\* number in A_input and in the timeout finds the right packet or none.
THEOREM RingInStep == Spec => []RingHoldsWindow
<1>1. IInv => RingHoldsWindow
  BY DEF IInv, Ring, RingFrom, RingHoldsWindow
<1>. QED
  BY <1>1, Inductive, PTL

\* Every packet that waits for its ACK has one timer, no other packet has any.
THEOREM OneTimer == Spec => []OneTimerEach
<1>1. IInv => OneTimerEach
  <2>. SUFFICES ASSUME IInv, NEW q \in SeqNums
                PROVE  timers[q] = IF Pending(q) # {} THEN 1 ELSE 0
    BY DEF OneTimerEach
  <2>1. Pending(q) = IF Waits(q) THEN {q - base} ELSE {}
    BY PendingIsWaiting DEF IInv
  <2>2. timers[q] = IF Waits(q) THEN 1 ELSE 0
    BY DEF IInv, Timers
  <2>. QED
    BY <2>1, <2>2
<1>. QED
  BY <1>1, Inductive, PTL

\* What A has an ACK for, B has passed up or still holds: no arrival overwrites
\* it in recv_window before.
THEOREM AckedKept == Spec => []AckedIsHeld
<1>1. IInv => AckedIsHeld
  <2>. SUFFICES ASSUME IInv, NEW i \in 0..(pktnum - 1),
                       winbuf[SlotAfter(winfront, i)].acknum = 1
                PROVE  LET e == winbuf[SlotAfter(winfront, i)]
                       IN  \/ e.seqnum < expected_seq
                           \/ Holds(recv_window, recv_marked, e.seqnum)
    BY DEF AckedIsHeld
  <2>1. winbuf[SlotAfter(winfront, i)].seqnum = base + i
    BY DEF IInv, Ring, RingFrom
  <2>2. Kept(base + i)
    BY DEF IInv, Acks
  <2>. QED
    BY <2>1, <2>2 DEF Kept
<1>. QED
  BY <1>1, Inductive, PTL

\* No message is left in the buffer while the window has room for it.
THEOREM NoMessageStranded == Spec => []BufferedOnlyWhenFull
<1>1. IInv => BufferedOnlyWhenFull
  BY DEF IInv, Supply
<1>. QED
  BY <1>1, Inductive, PTL

\* The last branch of B_input, which acknowledges a packet it has not looked
\* at, is dead: no packet comes from outside B's two windows.
THEOREM ArrivalsKnown == Spec => []ArrivalsInWindow
<1>1. IInv => ArrivalsInWindow
  <2>. SUFFICES ASSUME IInv, NEW i \in 1..Len(toB)
                PROVE  InReceiveWindow(toB[i].seqnum)
    BY DEF ArrivalsInWindow
  <2>1. Genuine(toB[i], nextseqnum) /\ expected_seq <= toB[i].seqnum + WINDOWSIZE
    BY DEF IInv, Arrivals
  <2>. QED
    BY <2>1, HeadInWindow
<1>. QED
  BY <1>1, Inductive, PTL

\* Passing up messages in order is the abstract transfer's delivery of the next
\* ones, or of none.
LEMMA RunIsDeliver ==
  ASSUME IInv, IInv', nsim' = nsim, expected_seq <= expected_seq'
  PROVE  Abstract!Deliver \/ UNCHANGED <<nsim, delivered>>
<1>1. /\ delivered \in Seq(Int) /\ Len(delivered) = expected_seq
      /\ \A i \in 1..Len(delivered) : delivered[i] = i - 1
      /\ expected_seq \in Nat
  BY DEF IInv, TypeOK, Prefix, InOrder
<1>2. /\ delivered' \in Seq(Int) /\ Len(delivered') = expected_seq'
      /\ \A i \in 1..Len(delivered') : delivered'[i] = i - 1
      /\ expected_seq' \in Nat
  BY DEF IInv, TypeOK, Prefix, InOrder
<1>3. expected_seq' <= nsim
  <2>1. /\ expected_seq' <= nextseqnum' /\ nextseqnum' \in Nat
        /\ nextseqnum' + Len(buffer') <= nsim' /\ Len(buffer') \in Nat /\ nsim' \in Nat
    BY DEF IInv, TypeOK, SeqNums, WindowBound, Supply
  <2>. QED
    BY <1>2, <2>1
<1>4. nsim \in Nat
  BY DEF IInv, TypeOK, SeqNums
<1>5. delivered' = [i \in 1..expected_seq' |-> i - 1]
  BY <1>2
<1>6. CASE expected_seq' = expected_seq
  <2>1. delivered = [i \in 1..expected_seq |-> i - 1]
    BY <1>1
  <2>. QED
    BY <1>5, <1>6, <2>1
<1>7. CASE expected_seq' # expected_seq
  <2>1. expected_seq' \in (Len(delivered) + 1)..nsim
    BY <1>1, <1>2, <1>3, <1>4, <1>7
  <2>. QED
    BY <1>5, <2>1 DEF Abstract!Deliver
<1>. QED
  BY <1>6, <1>7

\* Selective Repeat implements the reliable transfer: B's loop delivers the next
\* messages, an arrival from layer 5 submits one, and nothing else is visible.
THEOREM Refinement == Spec => ImplementsTransfer
<1>1. Init => Abstract!Init
  BY DEF Init, Abstract!Init
<1>2. IInv /\ [Next]_vars => [Abstract!Next]_<<nsim, delivered>>
  <2>. SUFFICES ASSUME IInv, [Next]_vars
                PROVE  [Abstract!Next]_<<nsim, delivered>>
    OBVIOUS
  <2>1. CASE FromLayer5
    <3>1. delivered' = delivered
      BY <2>1 DEF FromLayer5, receiver
    <3>2. nsim < NSimMax /\ nsim' = nsim + 1
      BY <2>1 DEF FromLayer5
    <3>. QED
      BY <3>1, <3>2 DEF Abstract!Next, Abstract!Submit
  <2>2. CASE A_input
    BY <2>2 DEF A_input, receiver
  <2>3. ASSUME NEW q \in SeqNums, A_packet_time_rinterrupt(q)
        PROVE  UNCHANGED <<nsim, delivered>>
    BY <2>3 DEF A_packet_time_rinterrupt, receiver
  <2>4. CASE B_input
    <3>1. nsim' = nsim /\ IInv'
      BY <2>4, NextIInv DEF B_input
    <3>2. expected_seq <= expected_seq'
      <4>1. \/ UNCHANGED receiver
            \/ \E n \in Nat : expected_seq' = expected_seq + n
        BY <2>4 DEF B_input, DeliverRun
      <4>2. expected_seq \in Nat
        BY DEF IInv, TypeOK
      <4>. QED
        BY <4>1, <4>2 DEF receiver
    <3>. QED
      BY <3>1, <3>2, RunIsDeliver DEF Abstract!Next
  <2>5. CASE Perish
    BY <2>5 DEF Perish, receiver
  <2>6. CASE UNCHANGED vars
    BY <2>6 DEF vars, receiver
  <2>. QED
    BY <2>1, <2>2, <2>3, <2>4, <2>5, <2>6 DEF Next
<1>. QED
  BY <1>1, <1>2, Inductive, PTL DEF Spec, ImplementsTransfer, Abstract!Spec
=============================================================================

--------------------------- MODULE GoBackNProofs ---------------------------
(***************************************************************************)
(* Proofs about GoBackN for every window size, buffer size and number of   *)
(* messages.  The invariants that matter follow from IInv, which ties the  *)
(* contents of the channels, of the ring and of the buffer to A's and B's  *)
(* counters.                                                               *)
(***************************************************************************)
EXTENDS GoBackN, SequenceTheorems, TLAPS

\* One of the first n packets of A, as A sent it.
Genuine(p, n) == p.seqnum \in 0..(n - 1) /\ p.payload = p.seqnum

AllGenuine(ch, n) == \A i \in 1..Len(ch) : Genuine(ch[i], n)

\* Messages k, k + 1, ...
Consecutive(ms, k) == \A i \in 1..Len(ms) : ms[i] = k + i - 1

\* The slots written when n packets have been sent; on the first lap each
\* still holds the packet of its own number.
Written(buf, n) == \A s \in Slots : s < n => Genuine(buf[s], n)
InPlace(buf, n) == \A s \in 0..(n - 1) : buf[s].seqnum = s

Prefix == Len(delivered) = expected_seqnum /\ InOrder

\* The messages not yet sent wait in the buffer, in order.
Supply == /\ nextseqnum + Len(buffer) = nsim
          /\ Consecutive(buffer, nextseqnum)
          /\ BufferedOnlyWhenFull

Channels == /\ AllGenuine(toB, nextseqnum)
            /\ \A i \in 1..Len(toA) : toA[i] < expected_seqnum

\* On the first lap the ring's front follows base and its rear nextseqnum.
Ring == /\ Written(winbuf, nextseqnum)
        /\ nextseqnum < WINDOWSIZE => /\ winfront = base /\ winrear = nextseqnum
                                      /\ InPlace(winbuf, nextseqnum)

IInv == /\ TypeOK
        /\ WindowBound
        /\ Prefix
        /\ Supply
        /\ Channels
        /\ Ring
        /\ TimerForFullWindow

-----------------------------------------------------------------------------
(* The ring's arithmetic and the operators of the sender.                  *)

USE GoBackNAssumption

\* A step round the ring ends inside it, and without a wrap it is a sum.
LEMMA SlotAfterType ==
  \A s, n \in Nat : /\ SlotAfter(s, n) \in Slots
                    /\ s + n < WINDOWSIZE => SlotAfter(s, n) = s + n
BY DEF SlotAfter, Slots

\* The distance from one slot to another, going forward.
LEMMA DistanceType ==
  \A s, r \in Slots : /\ (s - r) % WINDOWSIZE \in Slots
                      /\ r <= s => (s - r) % WINDOWSIZE = s - r
                      /\ s < r => (s - r) % WINDOWSIZE = s - r + WINDOWSIZE
BY DEF Slots

\* A position on the first lap of the ring is its own slot.
LEMMA SmallMod == \A a, m \in Nat : a < m => a % m = a
OBVIOUS

\* Buffering a message while the ring of messages has a free slot appends it.
LEMMA BufferMessageAppends ==
  ASSUME TypeOK, Len(buffer) < MAXBUFSIZE, NEW m \in Nat
  PROVE  /\ BufferMessage(m) \in Seq(Nat)
         /\ Len(BufferMessage(m)) = Len(buffer) + 1
         /\ \A i \in 1..Len(buffer) : BufferMessage(m)[i] = buffer[i]
         /\ BufferMessage(m)[Len(buffer) + 1] = m
<1>. DEFINE n == Len(buffer)
<1>1. n \in Nat /\ buffer \in Seq(Nat)
  BY DEF TypeOK
<1>2. \A i \in 1..(n + 1) : (i - 1) % MAXBUFSIZE = i - 1
  <2>. TAKE i \in 1..(n + 1)
  <2>1. i - 1 \in Nat /\ i - 1 < MAXBUFSIZE
    BY <1>1
  <2>. QED
    BY <2>1, SmallMod
<1>3. n % MAXBUFSIZE = n
  BY <1>1, SmallMod
<1>4. BufferMessage(m) = [i \in 1..(n + 1) |-> IF i = n + 1 THEN m ELSE buffer[i]]
  <2>1. BufferMessage(m) = [i \in 1..(n + 1) |->
                              IF (i - 1) % MAXBUFSIZE = n % MAXBUFSIZE THEN m ELSE buffer[i]]
    BY DEF BufferMessage
  <2>2. \A i \in 1..(n + 1) : ((i - 1) % MAXBUFSIZE = n % MAXBUFSIZE) <=> (i = n + 1)
    BY <1>1, <1>2, <1>3
  <2>. QED
    BY <2>1, <2>2
<1>. QED
  BY <1>1, <1>4

\* Sending the messages that come next, at most a window of them, keeps what
\* the channel to B and the ring hold genuine.
LEMMA SendAllKeepsGenuine ==
  ASSUME TypeOK, Ring, AllGenuine(toB, nextseqnum),
         NEW ms \in Seq(Nat), NEW b \in SeqNums, NEW tm \in [SeqNums -> Nat],
         Len(ms) <= WINDOWSIZE, nextseqnum + Len(ms) <= NSimMax,
         Consecutive(ms, nextseqnum), SendAll(ms, b, tm)
  PROVE  /\ nextseqnum' = nextseqnum + Len(ms) /\ nextseqnum' \in SeqNums
         /\ winbuf' \in [Slots -> Packet] /\ winrear' \in Slots
         /\ toB' \in Seq(Packet) /\ AllGenuine(toB', nextseqnum')
         /\ Written(winbuf', nextseqnum')
         /\ nextseqnum' < WINDOWSIZE => /\ winrear' = nextseqnum'
                                        /\ InPlace(winbuf', nextseqnum')
<1>. DEFINE n == Len(ms)
            new == [i \in 1..n |-> [seqnum  |-> nextseqnum + i - 1,
                                    payload |-> ms[i]]]
<1>1. n \in Nat /\ nextseqnum' = nextseqnum + n /\ nextseqnum \in Nat
  BY DEF SendAll, TypeOK, SeqNums
<1>2. new \in Seq(Packet) /\ Len(new) = n
  <2>1. \A i \in 1..n : new[i] \in Packet
    BY <1>1 DEF Packet
  <2>. QED
    BY <1>1, <2>1
<1>3. \A i \in 1..n : new[i].seqnum = nextseqnum + i - 1
                     /\ new[i].payload = nextseqnum + i - 1
  BY <1>1 DEF Consecutive
<1>4. toB' = toB \o new /\ toB \in Seq(Packet)
  BY DEF SendAll, TypeOK
<1>5. \A p : Genuine(p, nextseqnum) => Genuine(p, nextseqnum')
  BY <1>1 DEF Genuine
<1>. HIDE DEF n, new
<1>6. toB' \in Seq(Packet) /\ AllGenuine(toB', nextseqnum')
  <2>1. Len(toB') = Len(toB) + n /\ toB' \in Seq(Packet)
    <3>1. Len(toB \o new) = Len(toB) + Len(new) /\ toB \o new \in Seq(Packet)
      BY <1>2, <1>4, ConcatProperties
    <3>. QED
      BY <3>1, <1>2, <1>4
  <2>2. ASSUME NEW i \in 1..Len(toB') PROVE Genuine(toB'[i], nextseqnum')
    <3>1. CASE i <= Len(toB)
      <4>1. toB'[i] = toB[i] /\ i \in 1..Len(toB)
        BY <1>2, <1>4, <2>1, <3>1
      <4>. QED
        BY <4>1, <1>5 DEF AllGenuine
    <3>2. CASE i > Len(toB)
      <4>. DEFINE j == i - Len(toB)
      <4>1. j \in 1..n /\ toB'[i] = new[j]
        BY <1>1, <1>2, <1>4, <2>1, <3>2
      <4>. HIDE DEF j
      <4>2. new[j].seqnum = nextseqnum + j - 1 /\ new[j].payload = nextseqnum + j - 1
        BY <4>1, <1>3
      <4>3. nextseqnum + j - 1 \in 0..(nextseqnum' - 1)
        BY <4>1, <1>1
      <4>. QED
        BY <4>1, <4>2, <4>3 DEF Genuine
    <3>. QED
      BY <3>1, <3>2, <1>4
  <2>. QED
    BY <2>1, <2>2 DEF AllGenuine
<1>7. winrear \in Slots /\ winbuf \in [Slots -> Packet]
  BY DEF TypeOK
<1>8. \A s \in Slots :
        winbuf'[s] = LET i == (s - winrear) % WINDOWSIZE
                     IN  IF i < n THEN new[i + 1] ELSE winbuf[s]
  BY DEF SendAll, n, new
<1>9. winbuf' = [s \in Slots |-> winbuf'[s]]
  BY DEF SendAll
<1>10. winrear' = SlotAfter(winrear, n) /\ winrear' \in Slots
  BY <1>1, <1>7, SlotAfterType DEF SendAll, n, Slots
<1>11. ASSUME NEW s \in Slots
       PROVE  /\ winbuf'[s] \in Packet
              /\ s < nextseqnum' => Genuine(winbuf'[s], nextseqnum')
              /\ nextseqnum' < WINDOWSIZE /\ s < nextseqnum' => winbuf'[s].seqnum = s
  <2>. DEFINE i == (s - winrear) % WINDOWSIZE
  <2>1. /\ i \in Slots
        /\ winrear <= s => i = s - winrear
        /\ s < winrear => i = s - winrear + WINDOWSIZE
    BY <1>7, DistanceType
  <2>2. winbuf'[s] = IF i < n THEN new[i + 1] ELSE winbuf[s]
    BY <1>8
  <2>. HIDE DEF i
  <2>3. CASE i < n
    <3>1. i + 1 \in 1..n /\ winbuf'[s] = new[i + 1]
      BY <2>1, <2>2, <2>3, <1>1 DEF Slots
    <3>2. winbuf'[s].seqnum = nextseqnum + i /\ winbuf'[s].payload = nextseqnum + i
      BY <3>1, <2>1, <1>3, <1>1 DEF Slots
    <3>3. new[i + 1] \in Packet
      BY <3>1, <1>2
    <3>4. i \in Nat
      BY <2>1 DEF Slots
    <3>5. ASSUME nextseqnum' < WINDOWSIZE, s < nextseqnum' PROVE nextseqnum + i = s
      <4>1. winrear = nextseqnum /\ s \in Nat
        BY <3>5, <1>1 DEF Ring, Slots
      <4>2. CASE s < nextseqnum
        <5>1. i = s - winrear + WINDOWSIZE
          BY <4>1, <4>2, <2>1
        <5>. QED
          BY <5>1, <4>1, <4>2, <2>3, <3>5, <1>1
      <4>. QED
        BY <4>1, <4>2, <2>1, <1>1
    <3>. QED
      BY <3>1, <3>2, <3>3, <3>4, <3>5, <2>3, <1>1 DEF Genuine
  <2>4. CASE ~ (i < n)
    <3>1. winbuf'[s] = winbuf[s] /\ winbuf[s] \in Packet
      BY <2>2, <2>4, <1>7
    <3>2. ASSUME s < nextseqnum' PROVE s < nextseqnum
      <4>1. CASE nextseqnum < WINDOWSIZE
        <5>1. winrear = nextseqnum
          BY <4>1 DEF Ring
        <5>. QED
          BY <5>1, <2>1, <2>4, <3>2, <1>1 DEF Slots
      <4>. QED
        BY <4>1, <1>1 DEF Slots
    <3>3. s < nextseqnum => Genuine(winbuf[s], nextseqnum)
      BY DEF Ring, Written
    <3>4. nextseqnum < WINDOWSIZE /\ s < nextseqnum => winbuf[s].seqnum = s
      BY <1>1 DEF Ring, InPlace, Slots
    <3>. QED
      BY <3>1, <3>2, <3>3, <3>4, <1>1 DEF Genuine
  <2>. QED
    BY <2>3, <2>4
<1>12. winbuf' \in [Slots -> Packet]
  BY <1>9, <1>11
<1>13. Written(winbuf', nextseqnum')
  BY <1>11 DEF Written
<1>14. ASSUME nextseqnum' < WINDOWSIZE
       PROVE  winrear' = nextseqnum' /\ InPlace(winbuf', nextseqnum')
  <2>1. winrear = nextseqnum
    BY <1>14, <1>1 DEF Ring
  <2>2. winrear' = nextseqnum'
    BY <2>1, <1>1, <1>10, <1>14, SlotAfterType
  <2>. QED
    BY <2>2, <1>11, <1>1, <1>14 DEF Slots, InPlace
<1>. QED
  BY <1>1, <1>6, <1>10, <1>12, <1>13, <1>14 DEF n, SeqNums

\* Sending stops no timer, and starts one for the packet at b with the one
\* that follows it.
LEMMA SendAllTimers ==
  ASSUME TypeOK, NEW ms \in Seq(Nat), NEW b \in SeqNums,
         NEW tm \in [SeqNums -> Nat], SendAll(ms, b, tm)
  PROVE  /\ timers' \in [SeqNums -> Nat]
         /\ \A s \in SeqNums : timers'[s] >= tm[s]
         /\ b + 1 \in nextseqnum..(nextseqnum' - 1) => timers'[b] > 0
<1>1. nextseqnum' = nextseqnum + Len(ms) /\ nextseqnum \in Nat /\ Len(ms) \in Nat
  BY DEF SendAll, TypeOK, SeqNums
<1>2. timers' = IF b + 1 \in nextseqnum..(nextseqnum' - 1)
                  THEN [tm EXCEPT ![b] = tm[b] + 1] ELSE tm
  BY <1>1 DEF SendAll, starttime_r
<1>3. tm[b] \in Nat /\ \A s \in SeqNums : tm[s] \in Nat
  OBVIOUS
<1>. QED
  BY <1>2, <1>3

\* Every slot a timeout reads holds a packet that A sent.
LEMMA ResendIsGenuine ==
  ASSUME TypeOK, WindowBound, Ring, NEW i \in 0..(nextseqnum - base - 1)
  PROVE  Genuine(winbuf[SlotAfter(winfront, i)], nextseqnum)
<1>1. /\ nextseqnum \in Nat /\ base \in Nat /\ i \in Nat
      /\ winfront \in Nat /\ i < WINDOWSIZE
  BY DEF TypeOK, SeqNums, Slots, WindowBound
<1>. DEFINE s == SlotAfter(winfront, i)
<1>2. s \in Slots
  BY <1>1, SlotAfterType
<1>3. s < nextseqnum
  <2>1. CASE nextseqnum < WINDOWSIZE
    <3>1. winfront + i < nextseqnum
      BY <2>1, <1>1 DEF Ring
    <3>. QED
      BY <3>1, <2>1, <1>1, SlotAfterType
  <2>2. CASE nextseqnum >= WINDOWSIZE
    BY <2>2, <1>1, <1>2 DEF Slots
  <2>. QED
    BY <2>1, <2>2, <1>1
<1>. QED
  BY <1>2, <1>3 DEF Ring, Written

\* On the first lap the loop of A_input stops at the slot of the new base.
LEMMA FrontFollowsBase ==
  ASSUME TypeOK, Ring, nextseqnum < WINDOWSIZE,
         NEW newbase \in (base + 1)..nextseqnum, NEW f \in Slots,
         LoopStopsAt(f, newbase),
         \A g \in 0..(f - 1) : ~ LoopStopsAt(g, newbase)
  PROVE  SlotAfter(winfront, f) = newbase
<1>. DEFINE d == newbase - base
<1>1. /\ base \in Nat /\ nextseqnum \in Nat /\ newbase \in Nat
      /\ f \in Nat /\ d \in Nat /\ winfront = base /\ winrear = nextseqnum
  BY DEF TypeOK, SeqNums, Slots, Ring
<1>2. \A g \in 0..d : SlotAfter(winfront, g) = base + g
  BY <1>1, SlotAfterType
<1>3. LoopStopsAt(d, newbase)
  <2>1. SlotAfter(winfront, d) = newbase
    BY <1>1, <1>2
  <2>2. newbase < nextseqnum => winbuf[newbase].seqnum = newbase
    BY <1>1 DEF Ring, InPlace
  <2>. QED
    BY <2>1, <2>2, <1>1 DEF LoopStopsAt
<1>4. ASSUME NEW g \in 0..(d - 1) PROVE ~ LoopStopsAt(g, newbase)
  <2>1. /\ SlotAfter(winfront, g) = base + g
        /\ base + g < newbase /\ base + g \in 0..(nextseqnum - 1)
    BY <1>1, <1>2
  <2>2. winbuf[base + g].seqnum = base + g
    BY <2>1 DEF Ring, InPlace
  <2>. QED
    BY <2>1, <2>2, <1>1 DEF LoopStopsAt
<1>5. f = d
  <2>1. ~ (d < f)
    BY <1>1, <1>3
  <2>2. ~ (f < d)
    BY <1>1, <1>4
  <2>. QED
    BY <2>1, <2>2, <1>1
<1>. QED
  BY <1>1, <1>2, <1>5

-----------------------------------------------------------------------------
(* IInv is an inductive invariant.                                         *)

\* A_init leaves an empty window, an empty ring and nothing on the channels.
LEMMA InitIInv == Init => IInv
<1>. SUFFICES ASSUME Init PROVE IInv
  OBVIOUS
<1>1. winbuf \in [Slots -> Packet] /\ timers \in [SeqNums -> Nat]
  BY DEF Init, Packet, Unwritten
<1>2. TypeOK
  BY <1>1 DEF Init, TypeOK, SeqNums, Slots
<1>. QED
  BY <1>2 DEF Init, IInv, WindowBound, Prefix, InOrder, Supply, Channels,
              BufferedOnlyWhenFull, Ring, TimerForFullWindow, Slots,
              AllGenuine, Consecutive, Written, InPlace

\* A_output keeps the invariant, whether it sends the message or buffers it.
LEMMA FromLayer5IInv == IInv /\ FromLayer5 => IInv'
<1>. SUFFICES ASSUME IInv, FromLayer5 PROVE IInv'
  OBVIOUS
<1>. USE DEF IInv
<1>1. /\ nextseqnum \in Nat /\ base \in Nat /\ nsim \in Nat /\ nsim < NSimMax
      /\ Len(buffer) \in Nat /\ nsim' = nsim + 1 /\ A_output(nsim)
      /\ nsim' \in SeqNums
  BY DEF TypeOK, SeqNums, FromLayer5
<1>2. CASE nextseqnum < base + WINDOWSIZE
  <2>. DEFINE ms == <<nsim>>
  <2>1. /\ SendAll(ms, base, timers) /\ pktnum' = pktnum + 1
        /\ UNCHANGED <<base, winfront, buffer, toA, faulty, receiver>>
    BY <1>1, <1>2 DEF A_output
  <2>2. buffer = << >> /\ nsim = nextseqnum
    BY <1>1, <1>2 DEF Supply, BufferedOnlyWhenFull, TypeOK
  <2>3. ms \in Seq(Nat) /\ Len(ms) = 1 /\ Consecutive(ms, nextseqnum)
    BY <1>1, <2>2 DEF Consecutive
  <2>4. base \in SeqNums /\ timers \in [SeqNums -> Nat]
    BY DEF TypeOK
  <2>. HIDE DEF ms
  <2>5. /\ nextseqnum' = nextseqnum + 1 /\ nextseqnum' \in SeqNums
        /\ winbuf' \in [Slots -> Packet] /\ winrear' \in Slots
        /\ toB' \in Seq(Packet) /\ AllGenuine(toB', nextseqnum')
        /\ Written(winbuf', nextseqnum')
        /\ nextseqnum' < WINDOWSIZE => /\ winrear' = nextseqnum'
                                       /\ InPlace(winbuf', nextseqnum')
    <3>1. AllGenuine(toB, nextseqnum)
      BY DEF Channels
    <3>2. Len(ms) <= WINDOWSIZE /\ nextseqnum + Len(ms) <= NSimMax
      BY <1>1, <2>2, <2>3
    <3>. QED
      BY <3>1, <3>2, <2>1, <2>3, <2>4, SendAllKeepsGenuine
  <2>6. /\ timers' \in [SeqNums -> Nat]
        /\ \A s \in SeqNums : timers'[s] >= timers[s]
        /\ base + 1 \in nextseqnum..(nextseqnum' - 1) => timers'[base] > 0
    BY <2>1, <2>3, <2>4, SendAllTimers
  <2>7. TypeOK'
    <3>1. /\ base' \in SeqNums /\ winfront' \in Slots /\ buffer' \in Seq(Nat)
          /\ toA' \in Seq(Int) /\ faulty' \in BOOLEAN
          /\ expected_seqnum' \in Nat /\ delivered' \in Seq(Int)
      BY <2>1 DEF TypeOK, receiver
    <3>2. pktnum' \in Int
      BY <2>1 DEF TypeOK
    <3>. QED
      BY ONLY <1>1, <2>5, <2>6, <3>1, <3>2 DEF TypeOK
  <2>8. WindowBound'
    BY <1>1, <1>2, <2>1, <2>5 DEF WindowBound, receiver, TypeOK
  <2>9. Prefix'
    BY <2>1 DEF Prefix, InOrder, receiver
  <2>10. Supply'
    BY <1>1, <2>1, <2>2, <2>5 DEF Supply, Consecutive, BufferedOnlyWhenFull
  <2>11. Channels'
    BY <2>1, <2>5 DEF Channels, receiver
  <2>12. Ring'
    BY <2>1, <2>5, <1>1 DEF Ring
  <2>13. TimerForFullWindow'
    <3>. SUFFICES ASSUME nextseqnum' >= base' + 2 PROVE timers'[base'] > 0
      BY DEF TimerForFullWindow
    <3>1. CASE nextseqnum = base + 1
      BY <3>1, <1>1, <2>1, <2>5, <2>6
    <3>2. CASE nextseqnum >= base + 2
      <4>1. timers[base] > 0 /\ timers'[base] >= timers[base]
        BY <3>2, <2>4, <2>6 DEF TimerForFullWindow
      <4>. QED
        BY <4>1, <2>1, <2>4, <2>6
    <3>. QED
      BY <3>1, <3>2, <1>1, <2>1, <2>5
  <2>. QED
    BY <2>7, <2>8, <2>9, <2>10, <2>11, <2>12, <2>13
<1>3. CASE ~ (nextseqnum < base + WINDOWSIZE)
  <2>1. /\ buffer' = BufferMessage(nsim)
        /\ UNCHANGED <<nextseqnum, base, winbuf, winfront, winrear, pktnum,
                       timers, network, receiver>>
    BY <1>1, <1>3 DEF A_output
  <2>2. Len(buffer) = nsim - nextseqnum /\ Len(buffer) < MAXBUFSIZE
        /\ nextseqnum = base + WINDOWSIZE
    BY <1>1, <1>3, NoBufferOverflow DEF Supply, WindowBound
  <2>3. /\ buffer' \in Seq(Nat) /\ Len(buffer') = Len(buffer) + 1
        /\ \A i \in 1..Len(buffer) : buffer'[i] = buffer[i]
        /\ buffer'[Len(buffer) + 1] = nsim
    BY <1>1, <2>1, <2>2, BufferMessageAppends
  <2>4. TypeOK'
    BY <1>1, <2>1, <2>3 DEF TypeOK, network, receiver
  <2>5. Supply'
    BY <1>1, <2>1, <2>2, <2>3 DEF Supply, Consecutive, BufferedOnlyWhenFull
  <2>6. WindowBound' /\ Prefix' /\ TimerForFullWindow'
    BY <2>1 DEF WindowBound, Prefix, InOrder, TimerForFullWindow, receiver
  <2>7. Channels' /\ Ring'
    BY <2>1 DEF Channels, Ring, network, receiver
  <2>. QED
    BY <2>4, <2>5, <2>6, <2>7
<1>. QED
  BY <1>2, <1>3

\* The first n elements of a sequence, and the others.
LEMMA Front ==
  ASSUME NEW q \in Seq(Nat), NEW n \in Nat, n <= Len(q)
  PROVE  /\ SubSeq(q, 1, n) \in Seq(Nat) /\ Len(SubSeq(q, 1, n)) = n
         /\ \A i \in 1..n : SubSeq(q, 1, n)[i] = q[i]
<1>1. \A i \in 1..n : q[i] \in Nat
  BY ElementOfSeq
<1>2. /\ SubSeq(q, 1, n) \in Seq(Nat)
      /\ Len(SubSeq(q, 1, n)) = IF 1 <= n THEN n - 1 + 1 ELSE 0
      /\ \A i \in 1..(n - 1 + 1) : SubSeq(q, 1, n)[i] = q[1 + i - 1]
  BY <1>1, SubSeqProperties
<1>3. n - 1 + 1 = n /\ (~ (1 <= n) => n = 0) /\ \A i \in 1..n : 1 + i - 1 = i
  OBVIOUS
<1>. QED
  BY <1>2, <1>3

LEMMA Rest ==
  ASSUME NEW q \in Seq(Nat), NEW n \in Nat, n <= Len(q)
  PROVE  /\ SubSeq(q, n + 1, Len(q)) \in Seq(Nat)
         /\ Len(SubSeq(q, n + 1, Len(q))) = Len(q) - n
         /\ \A i \in 1..(Len(q) - n) : SubSeq(q, n + 1, Len(q))[i] = q[n + i]
<1>. DEFINE m == n + 1
            L == Len(q)
<1>1. L \in Nat /\ m \in Int /\ m >= 1
  OBVIOUS
<1>2. L - m + 1 = L - n /\ (~ (m <= L) => L - n = 0) /\ \A i \in 1..(L - n) : m + i - 1 = n + i
  BY <1>1
<1>. HIDE DEF m
<1>3. \A i \in m..L : q[i] \in Nat
  BY <1>1, ElementOfSeq
<1>4. /\ SubSeq(q, m, L) \in Seq(Nat)
      /\ Len(SubSeq(q, m, L)) = IF m <= L THEN L - m + 1 ELSE 0
      /\ \A i \in 1..(L - m + 1) : SubSeq(q, m, L)[i] = q[m + i - 1]
  BY <1>1, <1>3, SubSeqProperties
<1>5. Len(SubSeq(q, m, L)) = L - n
  BY <1>2, <1>4
<1>. HIDE DEF L
<1>6. \A i \in 1..(L - n) : SubSeq(q, m, L)[i] = q[n + i]
  BY <1>2, <1>4
<1>. QED
  BY <1>4, <1>5, <1>6 DEF m, L

\* What is buffered are the messages from the next sequence number on.
LEMMA ConsecutiveBuffer ==
  ASSUME Supply, buffer \in Seq(Nat)
  PROVE  \A i \in 1..Len(buffer) : buffer[i] \in Nat /\ buffer[i] = nextseqnum + i - 1
BY ElementOfSeq DEF Supply, Consecutive

\* A sequence of the first n numbers is determined.
LEMMA Counting ==
  ASSUME NEW s \in Seq(Int), NEW n \in Nat, Len(s) = n,
         \A i \in 1..Len(s) : s[i] = i - 1
  PROVE  s = [i \in 1..n |-> i - 1]
<1>1. DOMAIN s = 1..n /\ s = [i \in DOMAIN s |-> s[i]]
  OBVIOUS
<1>. QED
  BY <1>1

\* An ACK inside the window keeps it: the loop that frees slots may stop
\* early, but what SendAll then writes and sends is genuine and in its place.
LEMMA AcknowledgeIInv ==
  ASSUME IInv, NEW acknum \in base..(nextseqnum - 1), acknum < expected_seqnum,
         Acknowledge(acknum), toA' = Tail(toA), toA # << >>,
         UNCHANGED <<faulty, receiver, nsim>>
  PROVE  IInv'
<1>. USE DEF IInv
<1>. DEFINE newbase == acknum + 1
            n  == Drained(newbase)
            ms == SubSeq(buffer, 1, n)
            tm == Restart(stoptime_r(timers, base), newbase)
<1>1. /\ nextseqnum \in Nat /\ base \in Nat /\ nsim \in Nat /\ nsim <= NSimMax
      /\ Len(buffer) \in Nat /\ buffer \in Seq(Nat) /\ expected_seqnum \in Nat
      /\ newbase \in (base + 1)..nextseqnum /\ newbase <= expected_seqnum
      /\ newbase \in SeqNums /\ base \in SeqNums
      /\ nextseqnum <= base + WINDOWSIZE /\ nextseqnum + Len(buffer) = nsim
  BY DEF TypeOK, SeqNums, WindowBound, Supply
<1>2. /\ base' = newbase
      /\ SendAll(ms, newbase, tm)
      /\ buffer' = SubSeq(buffer, n + 1, Len(buffer))
  BY DEF Acknowledge
<1>3. PICK f \in Slots : /\ LoopStopsAt(f, newbase)
                         /\ \A g \in 0..(f - 1) : ~ LoopStopsAt(g, newbase)
                         /\ winfront' = SlotAfter(winfront, f)
                         /\ pktnum' = pktnum - f + n
  BY DEF Acknowledge
<1>4. /\ n \in 0..Len(buffer) /\ n <= newbase + WINDOWSIZE - nextseqnum
      /\ n < Len(buffer) => n = newbase + WINDOWSIZE - nextseqnum
      /\ n <= WINDOWSIZE
  BY <1>1 DEF Drained, Lesser
<1>5. tm \in [SeqNums -> Nat] /\ (newbase < nextseqnum => tm[newbase] > 0)
  <2>1. stoptime_r(timers, base) \in [SeqNums -> Nat]
    BY DEF stoptime_r, TypeOK
  <2>. QED
    BY <1>1, <2>1 DEF Restart, starttime_r
<1>. HIDE DEF newbase, n, tm
<1>6. ms \in Seq(Nat) /\ Len(ms) = n /\ Consecutive(ms, nextseqnum)
  <2>1. \A i \in 1..n : buffer[i] \in Nat /\ buffer[i] = nextseqnum + i - 1
    BY <1>1, <1>4, ConsecutiveBuffer
  <2>2. /\ ms \in Seq(Nat) /\ Len(ms) = n
        /\ \A i \in 1..n : ms[i] = buffer[i]
    <3>1. n \in Nat /\ n <= Len(buffer)
      BY <1>1, <1>4
    <3>. QED
      BY <1>1, <3>1, Front
  <2>. QED
    BY <2>1, <2>2 DEF Consecutive
<1>7. /\ buffer' \in Seq(Nat) /\ Len(buffer') = Len(buffer) - n
      /\ Consecutive(buffer', nextseqnum + n)
  <2>1. \A i \in (n + 1)..Len(buffer) : buffer[i] = nextseqnum + i - 1
    BY <1>1, <1>4, ConsecutiveBuffer
  <2>2. /\ buffer' \in Seq(Nat) /\ Len(buffer') = Len(buffer) - n
        /\ \A i \in 1..(Len(buffer) - n) : buffer'[i] = buffer[n + i]
    <3>1. n \in Nat /\ n <= Len(buffer)
      BY <1>1, <1>4
    <3>. QED
      BY <1>1, <1>2, <3>1, Rest
  <2>3. ASSUME NEW i \in 1..(Len(buffer) - n)
        PROVE  buffer'[i] = nextseqnum + n + i - 1
    <3>1. buffer'[i] = buffer[n + i]
      BY <2>2
    <3>2. n + i \in (n + 1)..Len(buffer)
      BY <1>1, <1>4
    <3>3. buffer[n + i] = nextseqnum + (n + i) - 1
      BY <3>2, <2>1
    <3>. QED
      BY <3>1, <3>3, <1>1, <1>4
  <2>. QED
    BY <2>2, <2>3 DEF Consecutive
<1>. HIDE DEF ms
<1>8. /\ nextseqnum' = nextseqnum + n /\ nextseqnum' \in SeqNums
      /\ winbuf' \in [Slots -> Packet] /\ winrear' \in Slots
      /\ toB' \in Seq(Packet) /\ AllGenuine(toB', nextseqnum')
      /\ Written(winbuf', nextseqnum')
      /\ nextseqnum' < WINDOWSIZE => /\ winrear' = nextseqnum'
                                     /\ InPlace(winbuf', nextseqnum')
  <2>1. AllGenuine(toB, nextseqnum)
    BY DEF Channels
  <2>2. Len(ms) <= WINDOWSIZE /\ nextseqnum + Len(ms) <= NSimMax
    BY <1>1, <1>4, <1>6
  <2>. QED
    BY <2>1, <2>2, <1>1, <1>2, <1>5, <1>6, SendAllKeepsGenuine
<1>9. /\ timers' \in [SeqNums -> Nat]
      /\ \A s \in SeqNums : timers'[s] >= tm[s]
      /\ newbase + 1 \in nextseqnum..(nextseqnum' - 1) => timers'[newbase] > 0
  BY <1>1, <1>2, <1>5, <1>6, SendAllTimers
<1>10. toA' \in Seq(Int) /\ \A i \in 1..Len(toA') : toA'[i] < expected_seqnum
  <2>1. toA \in Seq(Int) /\ Len(toA) \in Nat
    BY DEF TypeOK
  <2>2. /\ toA' \in Seq(Int) /\ Len(toA') = Len(toA) - 1
        /\ \A i \in 1..Len(toA') : toA'[i] = toA[i + 1]
    BY <2>1, HeadTailProperties
  <2>. QED
    BY <2>1, <2>2 DEF Channels
<1>11. TypeOK'
  <2>1. winfront' \in Slots /\ pktnum' \in Int
    <3>1. winfront \in Nat /\ f \in Nat /\ pktnum \in Int /\ n \in Nat
      BY <1>1, <1>4 DEF TypeOK, Slots
    <3>. QED
      BY <3>1, <1>3, SlotAfterType
  <2>. QED
    BY <2>1, <1>1, <1>2, <1>7, <1>8, <1>9, <1>10 DEF TypeOK, receiver
<1>12. WindowBound'
  BY <1>1, <1>2, <1>4, <1>8 DEF WindowBound, receiver
<1>13. Prefix'
  BY DEF Prefix, InOrder, receiver
<1>14. Supply'
  <2>1. nextseqnum' + Len(buffer') = nsim' /\ Consecutive(buffer', nextseqnum')
    <3>1. nsim' = nsim
      OBVIOUS
    <3>2. Consecutive(buffer', nextseqnum')
      BY <1>7, <1>8
    <3>3. nextseqnum' = nextseqnum + n /\ Len(buffer') = Len(buffer) - n
      BY <1>7, <1>8
    <3>4. n \in Int /\ Len(buffer) \in Int /\ nextseqnum \in Int
      BY <1>1, <1>4
    <3>5. nextseqnum' + Len(buffer') = nextseqnum + Len(buffer)
      BY <3>3, <3>4
    <3>. QED
      BY <3>1, <3>2, <3>5, <1>1
  <2>2. buffer' # << >> => nextseqnum' = base' + WINDOWSIZE
    <3>. HAVE buffer' # << >>
    <3>1. Len(buffer') > 0
      BY <1>7
    <3>. QED
      BY <3>1, <1>1, <1>2, <1>4, <1>7, <1>8
  <2>. QED
    BY <2>1, <2>2 DEF Supply, BufferedOnlyWhenFull
<1>15. Channels'
  BY <1>8, <1>10 DEF Channels, receiver
<1>16. Ring'
  <2>1. ASSUME nextseqnum' < WINDOWSIZE PROVE winfront' = newbase
    <3>1. nextseqnum < WINDOWSIZE
      BY <2>1, <1>1, <1>4, <1>8
    <3>. QED
      BY <3>1, <1>1, <1>3, FrontFollowsBase
  <2>. QED
    BY <2>1, <1>2, <1>8 DEF Ring
<1>17. TimerForFullWindow'
  <2>. SUFFICES ASSUME nextseqnum' >= newbase + 2 PROVE timers'[newbase] > 0
    BY <1>2 DEF TimerForFullWindow
  <2>1. CASE newbase < nextseqnum
    <3>1. timers'[newbase] >= tm[newbase] /\ tm[newbase] > 0
      BY <2>1, <1>1, <1>5, <1>9
    <3>. QED
      BY <3>1, <1>1, <1>5, <1>9
  <2>2. CASE newbase = nextseqnum
    BY <2>2, <1>1, <1>4, <1>8, <1>9
  <2>. QED
    BY <2>1, <2>2, <1>1
<1>. QED
  BY <1>11, <1>12, <1>13, <1>14, <1>15, <1>16, <1>17

\* A_input keeps it, for an ACK it acts on and for one it ignores.
LEMMA A_inputIInv == IInv /\ A_input => IInv'
<1>. SUFFICES ASSUME IInv, A_input PROVE IInv'
  OBVIOUS
<1>. USE DEF IInv
<1>. DEFINE acknum == Head(toA)
<1>1. /\ toA # << >> /\ toA' = Tail(toA)
      /\ UNCHANGED <<faulty, receiver, nsim>>
  BY DEF A_input
<1>2. toA \in Seq(Int) /\ Len(toA) \in Nat \ {0}
  BY <1>1 DEF TypeOK
<1>3. acknum = toA[1] /\ acknum < expected_seqnum
  BY <1>1, <1>2 DEF Channels
<1>4. CASE acknum # NOTUSED /\ acknum \in base..(nextseqnum - 1)
  <2>1. Acknowledge(acknum)
    BY <1>4 DEF A_input
  <2>. QED
    BY <2>1, <1>1, <1>3, <1>4, AcknowledgeIInv
<1>5. CASE ~ (acknum # NOTUSED /\ acknum \in base..(nextseqnum - 1))
  <2>1. UNCHANGED <<sender, timers, toB>>
    BY <1>5 DEF A_input
  <2>2. /\ toA' \in Seq(Int) /\ Len(toA') = Len(toA) - 1
        /\ \A i \in 1..Len(toA') : toA'[i] = toA[i + 1]
    BY <1>1, <1>2, HeadTailProperties
  <2>3. TypeOK'
    BY <1>1, <2>1, <2>2 DEF TypeOK, sender, receiver
  <2>4. Channels'
    BY <1>1, <1>2, <2>1, <2>2 DEF Channels, sender, receiver
  <2>5. WindowBound' /\ Prefix' /\ Supply' /\ Ring' /\ TimerForFullWindow'
    BY <1>1, <2>1 DEF WindowBound, Prefix, InOrder, Supply, BufferedOnlyWhenFull,
                      Ring, TimerForFullWindow, sender, receiver
  <2>. QED
    BY <2>3, <2>4, <2>5
<1>. QED
  BY <1>4, <1>5

\* A timeout keeps it: what it resends was once written, so that B can have
\* been sent it before.
LEMMA TimeoutIInv ==
  ASSUME IInv, NEW s \in SeqNums, A_packet_time_rinterrupt(s)
  PROVE  IInv'
<1>. USE DEF IInv
<1>1. timers[s] > 0 /\ UNCHANGED <<sender, toA, faulty, receiver, nsim>>
  BY DEF A_packet_time_rinterrupt
<1>2. /\ timers' \in [SeqNums -> Nat] /\ timers'[base] = timers[base]
      /\ toB' \in Seq(Packet) /\ AllGenuine(toB', nextseqnum)
  <2>1. CASE s # base
    <3>1. timers' = [timers EXCEPT ![s] = @ - 1] /\ toB' = toB
      BY <2>1 DEF A_packet_time_rinterrupt
    <3>2. timers \in [SeqNums -> Nat] /\ base \in SeqNums
      BY DEF TypeOK
    <3>3. timers[s] - 1 \in Nat
      BY <1>1, <3>2
    <3>. QED
      BY <2>1, <3>1, <3>2, <3>3 DEF TypeOK, Channels
  <2>2. CASE s = base
    <3>. DEFINE n == nextseqnum - base
                again == [i \in 1..n |-> winbuf[SlotAfter(winfront, i - 1)]]
    <3>1. toB' = toB \o again /\ timers' = timers
      BY <2>2 DEF A_packet_time_rinterrupt
    <3>2. n \in Nat /\ winfront \in Nat
      BY DEF TypeOK, SeqNums, Slots, WindowBound
    <3>3. ASSUME NEW i \in 1..n
          PROVE  again[i] \in Packet /\ Genuine(again[i], nextseqnum)
      <4>1. i - 1 \in 0..(n - 1) /\ i - 1 \in Nat
        BY <3>2
      <4>2. Genuine(again[i], nextseqnum)
        BY <4>1, ResendIsGenuine
      <4>3. SlotAfter(winfront, i - 1) \in Slots
        BY <3>2, <4>1, SlotAfterType
      <4>. QED
        BY <4>2, <4>3 DEF TypeOK
    <3>4. again \in Seq(Packet) /\ Len(again) = n
      BY <3>2, <3>3
    <3>5. toB \in Seq(Packet) /\ Len(toB) \in Nat
      BY DEF TypeOK
    <3>. HIDE DEF again, n
    <3>6. /\ toB' \in Seq(Packet) /\ Len(toB') = Len(toB) + n
          /\ \A i \in 1..(Len(toB) + n) :
               toB'[i] = IF i <= Len(toB) THEN toB[i] ELSE again[i - Len(toB)]
      BY <3>1, <3>4, <3>5, ConcatProperties
    <3>7. ASSUME NEW i \in 1..Len(toB') PROVE Genuine(toB'[i], nextseqnum)
      <4>1. CASE i <= Len(toB)
        BY <4>1, <3>2, <3>5, <3>6 DEF Channels, AllGenuine
      <4>2. CASE ~ (i <= Len(toB))
        <5>1. i - Len(toB) \in 1..n /\ toB'[i] = again[i - Len(toB)]
          BY <4>2, <3>2, <3>5, <3>6
        <5>. QED
          BY <5>1, <3>3
      <4>. QED
        BY <4>1, <4>2
    <3>. QED
      BY <3>1, <3>6, <3>7 DEF AllGenuine, TypeOK
  <2>. QED
    BY <2>1, <2>2
<1>3. TypeOK'
  BY <1>1, <1>2 DEF TypeOK, sender, receiver
<1>4. WindowBound' /\ Prefix' /\ Supply' /\ Ring'
  BY <1>1 DEF WindowBound, Prefix, InOrder, Supply, BufferedOnlyWhenFull, Ring,
              sender, receiver
<1>5. Channels' /\ TimerForFullWindow'
  BY <1>1, <1>2 DEF Channels, TimerForFullWindow, sender, receiver
<1>. QED
  BY <1>3, <1>4, <1>5

\* B_input keeps it: the packet B accepts is the one whose message comes next.
LEMMA B_inputIInv == IInv /\ B_input => IInv'
<1>. SUFFICES ASSUME IInv, B_input PROVE IInv'
  OBVIOUS
<1>. USE DEF IInv
<1>. DEFINE p == Head(toB)
<1>1. /\ toB # << >> /\ toB' = Tail(toB)
      /\ toA' = Append(toA, AckFor(expected_seqnum'))
      /\ UNCHANGED <<sender, timers, faulty, nsim>>
  BY DEF B_input
<1>2. /\ toB \in Seq(Packet) /\ Len(toB) \in Nat \ {0} /\ p = toB[1]
      /\ toA \in Seq(Int) /\ delivered \in Seq(Int)
      /\ expected_seqnum \in Nat /\ nextseqnum \in Nat
  BY <1>1 DEF TypeOK, SeqNums
<1>3. Genuine(p, nextseqnum)
  BY <1>2 DEF Channels, AllGenuine
<1>4. /\ expected_seqnum' \in Nat /\ expected_seqnum <= expected_seqnum'
      /\ expected_seqnum' <= nextseqnum
      /\ delivered' \in Seq(Int) /\ Prefix'
  <2>1. CASE Accepts(p)
    <3>1. /\ expected_seqnum' = expected_seqnum + 1
          /\ delivered' = Append(delivered, p.payload)
      BY <2>1 DEF B_input
    <3>2. p.payload = expected_seqnum /\ expected_seqnum < nextseqnum
      BY <1>2, <1>3, <2>1 DEF Genuine, Accepts
    <3>3. /\ delivered' \in Seq(Int) /\ Len(delivered') = Len(delivered) + 1
          /\ \A i \in 1..Len(delivered) : delivered'[i] = delivered[i]
          /\ delivered'[Len(delivered) + 1] = expected_seqnum
      BY <1>2, <3>1, <3>2, AppendProperties
    <3>. QED
      BY <1>2, <3>1, <3>2, <3>3 DEF Prefix, InOrder
  <2>2. CASE ~ Accepts(p)
    <3>1. UNCHANGED receiver
      BY <2>2 DEF B_input
    <3>. QED
      BY <1>2, <3>1 DEF receiver, Prefix, InOrder, WindowBound
  <2>. QED
    BY <2>1, <2>2
<1>5. /\ toB' \in Seq(Packet) /\ Len(toB') = Len(toB) - 1
      /\ \A i \in 1..Len(toB') : toB'[i] = toB[i + 1]
  BY <1>1, <1>2, HeadTailProperties
<1>6. AllGenuine(toB', nextseqnum)
  <2>1. \A i \in 1..Len(toB) : Genuine(toB[i], nextseqnum)
    BY DEF AllGenuine, Channels
  <2>2. \A i \in 1..Len(toB') : i + 1 \in 1..Len(toB) /\ toB'[i] = toB[i + 1]
    BY <1>2, <1>5
  <2>. QED
    BY <2>1, <2>2 DEF AllGenuine
<1>7. /\ toA' \in Seq(Int) /\ Len(toA') = Len(toA) + 1
      /\ \A i \in 1..Len(toA) : toA'[i] = toA[i]
      /\ toA'[Len(toA) + 1] = expected_seqnum' - 1
  <2>1. AckFor(expected_seqnum') \in Int /\ AckFor(expected_seqnum') = expected_seqnum' - 1
    BY <1>4 DEF AckFor
  <2>. QED
    BY <1>1, <1>2, <2>1, AppendProperties
<1>8. TypeOK'
  BY <1>1, <1>4, <1>5, <1>7 DEF TypeOK, sender
<1>9. WindowBound' /\ Supply' /\ Ring' /\ TimerForFullWindow'
  BY <1>1, <1>2, <1>4 DEF WindowBound, Supply, BufferedOnlyWhenFull, Ring,
                          TimerForFullWindow, TypeOK, SeqNums, sender
<1>10. Channels'
  <2>1. ASSUME NEW i \in 1..Len(toA') PROVE toA'[i] < expected_seqnum'
    <3>1. CASE i <= Len(toA)
      <4>1. toA[i] \in Int /\ toA[i] < expected_seqnum /\ toA'[i] = toA[i]
        BY <3>1, <1>2, <1>7 DEF Channels
      <4>. QED
        BY <4>1, <1>2, <1>4
    <3>2. CASE i > Len(toA)
      BY <3>2, <1>2, <1>4, <1>7
    <3>. QED
      BY <3>1, <3>2, <1>2
  <2>. QED
    BY <2>1, <1>1, <1>6 DEF Channels, sender
<1>. QED
  BY <1>4, <1>8, <1>9, <1>10

\* The loss of a packet keeps it: less is under way than before.
LEMMA PerishIInv == IInv /\ Perish => IInv'
<1>. SUFFICES ASSUME IInv, Perish PROVE IInv'
  OBVIOUS
<1>. USE DEF IInv
<1>1. UNCHANGED <<sender, timers, receiver, nsim>> /\ faulty' \in BOOLEAN
  BY DEF Perish
<1>2. /\ toB \in Seq(Packet) /\ toA \in Seq(Int)
      /\ Len(toB) \in Nat /\ Len(toA) \in Nat
  BY DEF TypeOK
<1>3. /\ toB' \in Seq(Packet) /\ AllGenuine(toB', nextseqnum)
      /\ toA' \in Seq(Int) /\ \A i \in 1..Len(toA') : toA'[i] < expected_seqnum
  <2>1. CASE toB # << >> /\ toB' = Tail(toB) /\ toA' = toA
    <3>1. /\ toB' \in Seq(Packet) /\ Len(toB') = Len(toB) - 1
          /\ \A i \in 1..Len(toB') : toB'[i] = toB[i + 1]
      BY <2>1, <1>2, HeadTailProperties
    <3>2. \A i \in 1..Len(toB') : i + 1 \in 1..Len(toB) /\ toB'[i] = toB[i + 1]
      BY <1>2, <3>1
    <3>. QED
      BY <2>1, <1>2, <3>1, <3>2 DEF AllGenuine, Channels
  <2>2. CASE toA # << >> /\ toA' = Tail(toA) /\ toB' = toB
    <3>1. /\ toA' \in Seq(Int) /\ Len(toA') = Len(toA) - 1
          /\ \A i \in 1..Len(toA') : toA'[i] = toA[i + 1]
      BY <2>2, <1>2, HeadTailProperties
    <3>. QED
      BY <2>2, <1>2, <3>1 DEF Channels
  <2>. QED
    BY <2>1, <2>2 DEF Perish
<1>4. TypeOK'
  BY <1>1, <1>3 DEF TypeOK, sender, receiver
<1>5. Channels'
  BY <1>1, <1>3 DEF Channels, sender, receiver
<1>6. WindowBound' /\ Prefix' /\ Supply' /\ Ring' /\ TimerForFullWindow'
  BY <1>1 DEF WindowBound, Prefix, InOrder, Supply, BufferedOnlyWhenFull, Ring,
              TimerForFullWindow, sender, receiver
<1>. QED
  BY <1>4, <1>5, <1>6

\* Every event of the main loop keeps it.
LEMMA NextIInv == IInv /\ [Next]_vars => IInv'
<1>. SUFFICES ASSUME IInv, [Next]_vars PROVE IInv'
  OBVIOUS
<1>1. CASE FromLayer5
  BY <1>1, FromLayer5IInv
<1>2. CASE A_input
  BY <1>2, A_inputIInv
<1>3. ASSUME NEW s \in SeqNums, A_packet_time_rinterrupt(s) PROVE IInv'
  BY <1>3, TimeoutIInv
<1>4. CASE B_input
  BY <1>4, B_inputIInv
<1>5. CASE Perish
  BY <1>5, PerishIInv
<1>6. CASE UNCHANGED vars
  BY <1>6 DEF vars, sender, network, receiver, IInv, TypeOK, WindowBound,
              Prefix, InOrder, Supply, BufferedOnlyWhenFull, Channels, Ring,
              TimerForFullWindow
<1>. QED
  BY <1>1, <1>2, <1>3, <1>4, <1>5, <1>6 DEF Next

\* IInv holds throughout: all that gbn.c's handlers preserve together, for any
\* window and any number of messages that the ring of messages can take.
THEOREM Inductive == Spec => []IInv
<1>1. Init => IInv
  BY InitIInv
<1>2. IInv /\ [Next]_vars => IInv'
  BY NextIInv
<1>. QED
  BY <1>1, <1>2, PTL DEF Spec

-----------------------------------------------------------------------------
(* What follows from it.                                                   *)

\* Every variable of the two ends keeps its type, whatever the channel loses.
THEOREM TypeCorrect == Spec => []TypeOK
<1>1. IInv => TypeOK
  BY DEF IInv
<1>. QED
  BY <1>1, Inductive, PTL

\* B hands over the messages in order, each once: the damage done to A's ring
\* can stop the transfer but never corrupt it.
THEOREM DeliveryInOrder == Spec => []InOrder
<1>1. IInv => InOrder
  BY DEF IInv, Prefix
<1>. QED
  BY <1>1, Inductive, PTL

\* A's idea of what is acknowledged never passes what B delivered.
THEOREM WindowBounded == Spec => []WindowBound
<1>1. IInv => WindowBound
  BY DEF IInv
<1>. QED
  BY <1>1, Inductive, PTL

\* No message is left in the buffer while the window has room for it.
THEOREM NoMessageStranded == Spec => []BufferedOnlyWhenFull
<1>1. IInv => BufferedOnlyWhenFull
  BY DEF IInv, Supply
<1>. QED
  BY <1>1, Inductive, PTL

\* A timeout never sends memory that was not initialised.
THEOREM ResendInitialised == Spec => []ResendReadsWritten
<1>1. IInv => ResendReadsWritten
  <2>. SUFFICES ASSUME IInv, NEW i \in 0..(nextseqnum - base - 1)
                PROVE  winbuf[SlotAfter(winfront, i)] # Unwritten
    BY DEF ResendReadsWritten
  <2>1. Genuine(winbuf[SlotAfter(winfront, i)], nextseqnum)
    BY ResendIsGenuine DEF IInv
  <2>2. winbuf[SlotAfter(winfront, i)].seqnum \in Nat
    BY <2>1 DEF Genuine
  <2>. QED
    BY <2>2 DEF Unwritten
<1>. QED
  BY <1>1, Inductive, PTL

\* Two packets outstanding are always covered by a timer for the first.
THEOREM TimerCovers == Spec => []TimerForFullWindow
<1>1. IInv => TimerForFullWindow
  BY DEF IInv
<1>. QED
  BY <1>1, Inductive, PTL

\* Go-Back-N implements the reliable transfer: B's arrivals deliver the next
\* message, those from layer 5 submit one, and nothing else is visible.
THEOREM Refinement == Spec => ImplementsTransfer
<1>1. Init => Abstract!Init
  BY DEF Init, Abstract!Init
<1>2. IInv /\ [Next]_vars => [Abstract!Next]_<<nsim, delivered>>
  <2>. SUFFICES ASSUME IInv, [Next]_vars
                PROVE  [Abstract!Next]_<<nsim, delivered>>
    OBVIOUS
  <2>1. CASE FromLayer5
    <3>1. delivered' = delivered
      BY <2>1 DEF FromLayer5, A_output, receiver
    <3>2. nsim < NSimMax /\ nsim' = nsim + 1
      BY <2>1 DEF FromLayer5
    <3>. QED
      BY <3>1, <3>2 DEF Abstract!Next, Abstract!Submit
  <2>2. CASE A_input
    BY <2>2 DEF A_input, receiver
  <2>3. ASSUME NEW s \in SeqNums, A_packet_time_rinterrupt(s)
        PROVE  UNCHANGED <<nsim, delivered>>
    BY <2>3 DEF A_packet_time_rinterrupt, receiver
  <2>4. CASE B_input
    <3>. DEFINE n == Len(delivered) + 1
    <3>1. nsim' = nsim
      BY <2>4 DEF B_input
    <3>2. CASE Accepts(Head(toB))
      <4>1. /\ delivered' = Append(delivered, Head(toB).payload)
            /\ expected_seqnum' = expected_seqnum + 1
        BY <2>4, <3>2 DEF B_input
      <4>2. IInv'
        BY NextIInv
      <4>3. /\ delivered' \in Seq(Int) /\ Len(delivered') = expected_seqnum'
            /\ Len(delivered) = expected_seqnum /\ expected_seqnum \in Nat
            /\ expected_seqnum' <= nextseqnum' /\ nextseqnum' <= nsim'
            /\ nsim' \in Nat /\ nextseqnum' \in Nat
            /\ \A i \in 1..Len(delivered') : delivered'[i] = i - 1
        BY <4>2 DEF IInv, TypeOK, SeqNums, Prefix, InOrder, WindowBound, Supply
      <4>4. delivered' = [i \in 1..n |-> i - 1]
        <5>1. n \in Nat /\ Len(delivered') = n
          BY <4>1, <4>3
        <5>. HIDE DEF n
        <5>. QED
          BY <4>3, <5>1, Counting
      <4>5. n \in (Len(delivered) + 1)..nsim
        BY <3>1, <4>1, <4>3
      <4>. QED
        BY <3>1, <4>4, <4>5 DEF Abstract!Next, Abstract!Deliver
    <3>3. CASE ~ Accepts(Head(toB))
      BY <2>4, <3>3, <3>1 DEF B_input, receiver
    <3>. QED
      BY <3>2, <3>3
  <2>5. CASE Perish
    BY <2>5 DEF Perish, receiver
  <2>6. CASE UNCHANGED vars
    BY <2>6 DEF vars, receiver
  <2>. QED
    BY <2>1, <2>2, <2>3, <2>4, <2>5, <2>6 DEF Next
<1>. QED
  BY <1>1, <1>2, Inductive, PTL DEF Spec, ImplementsTransfer, Abstract!Spec
=============================================================================

--------------------------- MODULE MetricsProofs ---------------------------
(***************************************************************************)
(* For any number of threads, calls and latencies: the variables keep      *)
(* their types, no more than MAX_SAMPLES samples among them, and the       *)
(* maximum is the largest latency (module Metrics).                        *)
(*                                                                         *)
(* The maximum of a compare_exchange loop is right because max only grows  *)
(* between a thread's load and its exchange: what was loaded is never      *)
(* above max.  A reset breaks this, unless no call is under way.           *)
(***************************************************************************)
EXTENDS Metrics, TLAPS

\* A thread that records a latency has one.
Measuring == {"findStats", "count", "loadSum", "addSum", "loadMax", "raiseMax",
              "lockSamples", "sample"}
Measured == \A t \in Threads : pc[t] \in Measuring => latency[t] \in Latencies

\* What a thread loaded is no more than the maximum.
LoadedBelow ==
  ~ overlap => \A t \in Threads : pc[t] = "raiseMax" => old[t] <= max

\* A reset that overlaps no call has no other thread inside one.
ResetAlone ==
  ~ overlap => \A t, u \in Threads : pc[t] \in Resets /\ u # t => pc[u] = "idle"

IInv == TypeOK /\ Measured /\ LoadedBelow /\ ResetAlone /\ LargestKept

USE MetricsAssumption

-----------------------------------------------------------------------------
(* Places.                                                                 *)

\* A thread's new place is one of the places, and the others stay.
LEMMA GotoType ==
  ASSUME TypeOK, NEW t \in Threads, NEW from, NEW to \in Places, Goto(t, from, to)
  PROVE  /\ pc' \in [Threads -> Places] /\ pc[t] = from
         /\ \A u \in Threads : pc'[u] = IF u = t THEN to ELSE pc[u]
BY DEF Goto, TypeOK

\* Locks are taken and released by threads.
LEMMA AcquireType ==
  ASSUME TypeOK, NEW t \in Threads, NEW m, Acquire(t, m)
  PROVE  owner' \in [Locks -> Threads \cup {NoThread}]
BY DEF Acquire, TypeOK

LEMMA ReleaseType ==
  ASSUME TypeOK, NEW t \in Threads, NEW ms, Release(t, ms)
  PROVE  owner' \in [Locks -> Threads \cup {NoThread}]
BY DEF Release, TypeOK

\* A step of one thread inside its call, which neither begins nor ends what a
\* reset or a latency's call is, keeps the facts about places.
LEMMA PlacesKept ==
  ASSUME TypeOK, Measured, ResetAlone, NEW t \in Threads, NEW from, NEW to \in Places,
         Goto(t, from, to), UNCHANGED <<overlap, latency>>, from # "idle",
         to \in Measuring => from \in Measuring,
         to \in Resets => from \in Resets
  PROVE  Measured' /\ ResetAlone'
<1>1. pc[t] = from /\ \A u \in Threads : pc'[u] = IF u = t THEN to ELSE pc[u]
  BY GotoType
<1>2. Measured'
  BY <1>1 DEF Measured
<1>3. ResetAlone'
  BY <1>1 DEF ResetAlone, Resets
<1>. QED
  BY <1>2, <1>3

\* While the maximum stays, so does what is known of it.
LEMMA MaxUntouched ==
  ASSUME TypeOK, LoadedBelow, LargestKept, NEW t \in Threads, NEW from, NEW to \in Places,
         Goto(t, from, to), to # "raiseMax", UNCHANGED <<max, noted, overlap>>,
         \A u \in Threads : u # t => old'[u] = old[u]
  PROVE  LoadedBelow' /\ LargestKept'
<1>1. \A u \in Threads : pc'[u] = IF u = t THEN to ELSE pc[u]
  BY GotoType
<1>2. LoadedBelow'
  BY <1>1 DEF LoadedBelow
<1>3. LargestKept'
  BY DEF LargestKept
<1>. QED
  BY <1>2, <1>3

-----------------------------------------------------------------------------
(* A call begins.                                                          *)

\* Whatever is called: it may make a reset overlap.
LEMMA CallKept ==
  ASSUME IInv, NEW t \in Threads, NEW to \in Places, Call(t, to), to # "raiseMax",
         to \in Resets => to = "reset",
         \A u \in Threads : u # t => latency'[u] = latency[u],
         to \in Measuring => latency'[t] \in Latencies
  PROVE  Measured' /\ LoadedBelow' /\ ResetAlone' /\ LargestKept'
<1>1. /\ UNCHANGED <<data, old, noted>> /\ pc[t] = "idle"
      /\ \A u \in Threads : pc'[u] = IF u = t THEN to ELSE pc[u]
      /\ overlap' = (overlap \/ \E u \in Busy : to = "reset" \/ pc[u] \in Resets)
  BY GotoType DEF Call, IInv
<1>2. Measured'
  BY <1>1 DEF IInv, Measured
<1>3. LoadedBelow'
  BY <1>1 DEF IInv, LoadedBelow, data
<1>4. LargestKept'
  BY <1>1 DEF IInv, LargestKept, data
<1>5. ResetAlone'
  <2> SUFFICES ASSUME ~ overlap', NEW u \in Threads, NEW v \in Threads,
                      pc'[u] \in Resets, v # u
               PROVE  pc'[v] = "idle"
    BY DEF ResetAlone
  <2>1. ~ overlap /\ \A w \in Threads : pc[w] # "idle" => to # "reset" /\ pc[w] \notin Resets
    BY <1>1 DEF Busy
  <2>2. u = t
    BY <1>1, <2>1 DEF Resets
  <2>3. to = "reset"
    BY <1>1, <2>2
  <2>. QED
    BY <1>1, <2>1, <2>2, <2>3
<1>. QED
  BY <1>2, <1>3, <1>4, <1>5

\* A call leaves the places of the locks and the data.
LEMMA CallType ==
  ASSUME TypeOK, NEW t \in Threads, NEW to \in Places, Call(t, to),
         key' \in [Threads -> Keys], latency' \in [Threads -> Nat],
         asked' \in [counters : [Keys -> Nat], count : Nat, sum : Nat]
  PROVE  TypeOK'
<1>1. pc' \in [Threads -> Places]
  BY GotoType DEF Call
<1>2. calls' \in Nat /\ overlap' \in BOOLEAN /\ UNCHANGED <<data, owner, old, noted>>
  BY DEF Call, TypeOK
<1>. QED
  BY <1>1, <1>2 DEF TypeOK, data

\* A call that counts.
LEMMA CountedType ==
  ASSUME TypeOK, NEW t \in Threads, NEW first \in Keys, NEW ks, Counted(t, first, ks)
  PROVE  /\ key' \in [Threads -> Keys] /\ UNCHANGED latency
         /\ asked' \in [counters : [Keys -> Nat], count : Nat, sum : Nat]
<1>1. asked.counters \in [Keys -> Nat]
  BY DEF TypeOK
<1>2. CountedOnce(ks) \in [Keys -> Nat]
  BY <1>1 DEF CountedOnce
<1>3. asked' = [asked EXCEPT !.counters = CountedOnce(ks)]
  BY DEF Counted
<1>4. asked' \in [counters : [Keys -> Nat], count : Nat, sum : Nat]
  BY <1>2, <1>3 DEF TypeOK
<1>. QED
  BY <1>4 DEF Counted, TypeOK

\* Beginning a call keeps the invariant.
LEMMA BeginKept ==
  ASSUME IInv, NEW t \in Threads, Begin(t)
  PROVE  IInv'
<1>0. TypeOK
  BY DEF IInv
<1>1. ASSUME NEW first \in Keys, NEW ks, NEW to \in {"find", "add"},
             Call(t, to), Counted(t, first, ks)
      PROVE  IInv'
  <2>1. to \in Places /\ to \notin Resets /\ to \notin Measuring /\ to # "raiseMax"
    BY DEF Places, Resets, Measuring
  <2>2. UNCHANGED latency
    BY <1>1 DEF Counted
  <2>3. Measured' /\ LoadedBelow' /\ ResetAlone' /\ LargestKept'
    BY <1>1, <2>1, <2>2, CallKept
  <2>4. latency' \in [Threads -> Nat]
    BY <1>0, <2>2 DEF TypeOK
  <2>5. TypeOK'
    BY <1>0, <1>1, <2>1, <2>4, CountedType, CallType
  <2>. QED
    BY <2>3, <2>5 DEF IInv
<1>2. CASE recordRequest(t)
  BY <1>1, <1>2 DEF recordRequest, Keys
<1>3. CASE recordError(t)
  BY <1>1, <1>3 DEF recordError, Keys
<1>4. CASE recordHttpRequest(t)
  BY <1>1, <1>4 DEF recordHttpRequest, Keys
<1>5. CASE recordLatency(t)
  <2>1. PICK l \in Latencies :
          /\ Call(t, "findStats")
          /\ latency' = [latency EXCEPT ![t] = l] /\ UNCHANGED key
          /\ asked' = [asked EXCEPT !.count = @ + 1, !.sum = @ + l]
    BY <1>5 DEF recordLatency
  <2>2. l \in Nat
    OBVIOUS
  <2>3. latency' \in [Threads -> Nat] /\ key' \in [Threads -> Keys]
    BY <1>0, <2>1, <2>2 DEF TypeOK
  <2>4. asked' \in [counters : [Keys -> Nat], count : Nat, sum : Nat]
    <3>1. asked \in [counters : [Keys -> Nat], count : Nat, sum : Nat]
      BY <1>0 DEF TypeOK
    <3>2. asked.count + 1 \in Nat /\ asked.sum + l \in Nat
      BY <2>2, <3>1
    <3>3. asked' = [asked EXCEPT !.count = asked.count + 1, !.sum = asked.sum + l]
      BY <2>1, <3>1
    <3>. QED
      BY ONLY <3>1, <3>2, <3>3
  <2>5. "findStats" \in Places /\ "findStats" \notin Resets
    BY DEF Places, Resets
  <2>6. latency'[t] \in Latencies /\ \A u \in Threads : u # t => latency'[u] = latency[u]
    BY <1>0, <2>1 DEF TypeOK
  <2>7. Measured' /\ LoadedBelow' /\ ResetAlone' /\ LargestKept'
    BY <2>1, <2>5, <2>6, CallKept
  <2>8. TypeOK'
    BY <1>0, <2>1, <2>3, <2>4, <2>5, CallType
  <2>. QED
    BY <2>7, <2>8 DEF IInv
<1>6. ASSUME NEW to \in {"average", "percentile", "reset"}, Call(t, to),
             UNCHANGED <<key, latency, asked>>
      PROVE  IInv'
  <2>1. to \in Places /\ (to \in Resets => to = "reset") /\ to \notin Measuring
        /\ to # "raiseMax"
    BY DEF Places, Resets, Measuring
  <2>2. Measured' /\ LoadedBelow' /\ ResetAlone' /\ LargestKept'
    BY <1>6, <2>1, CallKept
  <2>3. TypeOK'
    <3>1. /\ key' \in [Threads -> Keys] /\ latency' \in [Threads -> Nat]
          /\ asked' \in [counters : [Keys -> Nat], count : Nat, sum : Nat]
      BY <1>0, <1>6 DEF TypeOK
    <3>. QED
      BY <1>0, <1>6, <2>1, <3>1, CallType
  <2>. QED
    BY <2>2, <2>3 DEF IInv
<1>7. CASE getAverageLatency(t)
  BY <1>6, <1>7 DEF getAverageLatency
<1>8. CASE getLatencyPercentile(t)
  BY <1>6, <1>8 DEF getLatencyPercentile
<1>9. CASE reset(t)
  BY <1>6, <1>9 DEF reset
<1>. QED
  BY <1>2, <1>3, <1>4, <1>5, <1>7, <1>8, <1>9 DEF Begin

-----------------------------------------------------------------------------
(* Steps that change neither the statistics nor the histories.             *)

\* Taking a lock, giving it back, finding a counter.
Moves(t) ==
  \/ getOrCreateCounter(t) \/ getOrCreateLatencyStats(t)
  \/ AverageLocked(t) \/ AverageRead(t)
  \/ PercentileLocked(t) \/ SamplesFound(t) \/ PercentileRead(t)
  \/ ResetLocked(t) \/ LatencyLocked(t) \/ ResetSamplesLocked(t) \/ SamplesLocked(t)

\* From where to where.
Routes == {<<"find", "add">>, <<"findStats", "count">>, <<"average", "averageRead">>,
           <<"averageRead", "idle">>, <<"percentile", "percentileStats">>,
           <<"percentileStats", "percentileRead">>, <<"percentileRead", "idle">>,
           <<"reset", "resetCounters">>, <<"resetLatency", "resetStats">>,
           <<"resetSamples", "resetDone">>, <<"lockSamples", "sample">>}

\* What such a step does.
LEMMA MovesEffect ==
  ASSUME TypeOK, NEW t \in Threads, Moves(t)
  PROVE  /\ UNCHANGED <<data, locals, calls, history>>
         /\ owner' \in [Locks -> Threads \cup {NoThread}]
         /\ \E r \in Routes : Goto(t, r[1], r[2])
<1>1. CASE getOrCreateCounter(t)
  BY <1>1 DEF getOrCreateCounter, Rest, TypeOK, Routes
<1>2. CASE getOrCreateLatencyStats(t)
  BY <1>2 DEF getOrCreateLatencyStats, Rest, TypeOK, Routes
<1>3. CASE AverageLocked(t)
  BY <1>3, AcquireType DEF AverageLocked, Read, Rest, Routes
<1>4. CASE AverageRead(t)
  BY <1>4, ReleaseType DEF AverageRead, Read, Rest, Routes
<1>5. CASE PercentileLocked(t)
  BY <1>5, AcquireType DEF PercentileLocked, Read, Rest, Routes
<1>6. CASE SamplesFound(t)
  BY <1>6, AcquireType DEF SamplesFound, Read, Rest, Routes
<1>7. CASE PercentileRead(t)
  BY <1>7, ReleaseType DEF PercentileRead, Read, Rest, Routes
<1>8. CASE ResetLocked(t)
  BY <1>8, AcquireType DEF ResetLocked, Read, Rest, Routes
<1>9. CASE LatencyLocked(t)
  BY <1>9, AcquireType DEF LatencyLocked, Read, Rest, Routes
<1>10. CASE ResetSamplesLocked(t)
  BY <1>10, AcquireType DEF ResetSamplesLocked, Read, Rest, Routes
<1>11. CASE SamplesLocked(t)
  BY <1>11, AcquireType DEF SamplesLocked, Rest, Routes
<1>. QED
  BY <1>1, <1>2, <1>3, <1>4, <1>5, <1>6, <1>7, <1>8, <1>9, <1>10, <1>11 DEF Moves

\* It keeps the invariant.
LEMMA MovesKept ==
  ASSUME IInv, NEW t \in Threads, Moves(t)
  PROVE  IInv'
<1>0. TypeOK
  BY DEF IInv
<1>1. /\ UNCHANGED <<data, locals, calls, history>>
      /\ owner' \in [Locks -> Threads \cup {NoThread}]
  BY <1>0, MovesEffect
<1>2. PICK r \in Routes : Goto(t, r[1], r[2])
  BY <1>0, MovesEffect
<1>3. /\ r[2] \in Places /\ r[1] # "idle" /\ r[2] # "raiseMax"
      /\ r[2] \in Measuring => r[1] \in Measuring
      /\ r[2] \in Resets => r[1] \in Resets
  BY DEF Routes, Places, Measuring, Resets
<1>4. UNCHANGED <<max, old, latency, noted, overlap>>
  BY <1>1 DEF data, locals, history
<1>5. pc' \in [Threads -> Places]
  BY <1>0, <1>2, <1>3, GotoType
<1>6. TypeOK'
  BY <1>0, <1>1, <1>5 DEF TypeOK, data, locals, history
<1>7. Measured' /\ ResetAlone'
  BY <1>0, <1>2, <1>3, <1>4, PlacesKept DEF IInv
<1>8. LoadedBelow' /\ LargestKept'
  BY <1>0, <1>2, <1>3, <1>4, MaxUntouched DEF IInv
<1>. QED
  BY <1>6, <1>7, <1>8 DEF IInv

-----------------------------------------------------------------------------
(* Steps that change the data, but not the maximum.                        *)

\* A step that leaves the maximum, and what other threads loaded of it.
LEMMA DataKept ==
  ASSUME IInv, NEW t \in Threads, NEW from, NEW to \in Places, Goto(t, from, to),
         UNCHANGED <<max, latency, noted, overlap>>, from # "idle", to # "raiseMax",
         to \in Measuring => from \in Measuring, to \in Resets => from \in Resets,
         \A u \in Threads : u # t => old'[u] = old[u], TypeOK'
  PROVE  IInv'
<1>1. Measured' /\ ResetAlone'
  BY PlacesKept DEF IInv
<1>2. LoadedBelow' /\ LargestKept'
  BY MaxUntouched DEF IInv
<1>. QED
  BY <1>1, <1>2 DEF IInv

\* Adding to a counter.
LEMMA AddKept ==
  ASSUME IInv, NEW t \in Threads, fetch_add(t)
  PROVE  IInv'
<1>0. TypeOK
  BY DEF IInv
<1> DEFINE to == IF Following(key[t]) = key[t] THEN "idle" ELSE "find"
<1>1. /\ Goto(t, "add", to) /\ to \in Places /\ to # "raiseMax"
      /\ to \notin Measuring /\ to \notin Resets
  BY DEF fetch_add, Places, Measuring, Resets
<1>2. key[t] \in Keys /\ Following(key[t]) \in Keys
  BY <1>0 DEF TypeOK, Following, Keys
<1>3. counters' \in [Keys -> Nat]
  BY <1>0, <1>2 DEF fetch_add, TypeOK
<1>4. key' \in [Threads -> Keys]
  BY <1>0, <1>2 DEF fetch_add, TypeOK
<1>5. UNCHANGED <<count, sum, max, samples, owner, latency, old, calls, history>>
  BY DEF fetch_add, Rest
<1>6. pc' \in [Threads -> Places]
  BY <1>0, <1>1, GotoType
<1>7. TypeOK'
  BY <1>0, <1>3, <1>4, <1>5, <1>6 DEF TypeOK, history
<1> HIDE DEF to
<1>. QED
  BY <1>1, <1>5, <1>7, DataKept DEF history

\* The count and the sum.
LEMMA CountAndSumKept ==
  ASSUME IInv, NEW t \in Threads, CountAdded(t) \/ SumLoaded(t) \/ SumExchanged(t)
  PROVE  IInv'
<1>0. TypeOK /\ latency[t] \in Nat /\ old[t] \in Nat
  BY DEF IInv, TypeOK
<1>1. PICK r \in {<<"count", "loadSum">>, <<"loadSum", "addSum">>, <<"addSum", "loadMax">>,
                 <<"addSum", "addSum">>} : Goto(t, r[1], r[2])
  BY DEF CountAdded, SumLoaded, SumExchanged
<1>2. /\ r[2] \in Places /\ r[1] # "idle" /\ r[2] # "raiseMax" /\ r[1] \in Measuring
      /\ r[2] \notin Resets
  BY DEF Places, Measuring, Resets
<1>3. UNCHANGED <<counters, max, samples, owner, key, latency, calls, history>>
  BY DEF CountAdded, SumLoaded, SumExchanged, Rest, data, locals
<1>4. count' \in Nat /\ sum' \in Nat
  BY <1>0 DEF CountAdded, SumLoaded, SumExchanged, data, locals, TypeOK
<1>5. /\ old' \in [Threads -> Nat] /\ \A u \in Threads : u # t => old'[u] = old[u]
  <2>1. old \in [Threads -> Nat] /\ sum \in Nat
    BY <1>0 DEF TypeOK
  <2>2. UNCHANGED old \/ old' = [old EXCEPT ![t] = sum]
    BY DEF CountAdded, SumLoaded, SumExchanged, data, locals
  <2>. QED
    BY <2>1, <2>2
<1>6. pc' \in [Threads -> Places]
  BY <1>0, <1>1, <1>2, GotoType
<1>7. TypeOK'
  BY <1>0, <1>3, <1>4, <1>5, <1>6 DEF TypeOK, history
<1>. QED
  BY <1>1, <1>2, <1>3, <1>5, <1>7, DataKept DEF history

\* A sample, of which there are never too many.
LEMMA SampledKept ==
  ASSUME IInv, NEW t \in Threads, Sampled(t)
  PROVE  IInv'
<1>0. TypeOK
  BY DEF IInv
<1>1. Goto(t, "sample", "idle") /\ pc[t] = "sample"
  BY DEF Sampled, Goto
<1>2. latency[t] \in Latencies
  BY <1>1 DEF IInv, Measured, Measuring
<1>3. samples \in Seq(Latencies) /\ Len(samples) \in Nat /\ Len(samples) <= MAX_SAMPLES
  BY <1>0 DEF TypeOK
<1>4. samples' \in Seq(Latencies) /\ Len(samples') <= MAX_SAMPLES
  <2>1. CASE Len(samples) < MAX_SAMPLES /\ samples' = Append(samples, latency[t])
    BY <1>2, <1>3, <2>1
  <2>2. CASE UNCHANGED samples
    BY <1>3, <2>2
  <2>3. ASSUME NEW i \in 1..MAX_SAMPLES, samples' = [samples EXCEPT ![i] = latency[t]],
               Len(samples) >= MAX_SAMPLES
        PROVE  samples' \in Seq(Latencies) /\ Len(samples') <= MAX_SAMPLES
    <3>1. i \in 1..Len(samples)
      BY <1>3, <2>3
    <3>. QED
      BY <1>2, <1>3, <2>3, <3>1
  <2>. QED
    BY <2>1, <2>2, <2>3 DEF Sampled
<1>5. owner' \in [Locks -> Threads \cup {NoThread}]
  BY <1>0, ReleaseType DEF Sampled
<1>6. UNCHANGED <<counters, count, sum, max, locals, calls, history>>
  BY DEF Sampled, Rest
<1>7. "idle" \in Places /\ "idle" \notin Measuring /\ "idle" \notin Resets
  BY DEF Places, Measuring, Resets
<1>8. TypeOK'
  <2>1. pc' \in [Threads -> Places]
    BY <1>0, <1>1, <1>7, GotoType
  <2>. QED
    BY <1>0, <1>4, <1>5, <1>6, <2>1 DEF TypeOK, locals, history
<1>. QED
  BY <1>1, <1>6, <1>7, <1>8, DataKept DEF locals, history

\* A reset's other steps.
LEMMA ResetKept ==
  ASSUME IInv, NEW t \in Threads, CountersReset(t) \/ SamplesReset(t)
  PROVE  IInv'
<1>0. TypeOK
  BY DEF IInv
<1>1. CASE CountersReset(t)
  <2>1. /\ Goto(t, "resetCounters", "resetLatency") /\ counters' = Zero
        /\ asked' = [counters |-> Zero, count |-> 0, sum |-> 0]
        /\ UNCHANGED <<count, sum, max, samples, owner, locals, calls, noted, overlap>>
    BY <1>1 DEF CountersReset
  <2>2. Zero \in [Keys -> Nat]
    BY DEF Zero
  <2>3. "resetLatency" \in Places /\ "resetLatency" \notin Measuring
        /\ "resetCounters" \in Resets
    BY DEF Places, Measuring, Resets
  <2>4. pc' \in [Threads -> Places]
    BY <1>0, <2>1, <2>3, GotoType
  <2>5. asked' \in [counters : [Keys -> Nat], count : Nat, sum : Nat]
    BY <2>1, <2>2
  <2>6. TypeOK'
    BY <1>0, <2>1, <2>2, <2>4, <2>5 DEF TypeOK, locals
  <2>. QED
    BY <2>1, <2>3, <2>6, DataKept DEF locals
<1>2. CASE SamplesReset(t)
  <2>1. /\ Goto(t, "resetDone", "idle") /\ samples' = << >>
        /\ UNCHANGED <<counters, count, sum, max, locals, calls, history>>
    BY <1>2 DEF SamplesReset, Rest
  <2>2. "idle" \in Places /\ "idle" \notin Measuring /\ "idle" \notin Resets
    BY DEF Places, Measuring, Resets
  <2>3. pc' \in [Threads -> Places]
    BY <1>0, <2>1, <2>2, GotoType
  <2>4. owner' \in [Locks -> Threads \cup {NoThread}]
    BY <1>0, <1>2, ReleaseType DEF SamplesReset
  <2>5. samples' \in Seq(Latencies) /\ Len(samples') <= MAX_SAMPLES
    BY <2>1
  <2>6. TypeOK'
    BY <1>0, <2>1, <2>3, <2>4, <2>5 DEF TypeOK, locals, history
  <2>. QED
    BY <2>1, <2>2, <2>6, DataKept DEF locals, history
<1>. QED
  BY <1>1, <1>2

-----------------------------------------------------------------------------
(* Steps on the maximum.                                                   *)

\* The maximum is loaded.
LEMMA MaxLoadedKept ==
  ASSUME IInv, NEW t \in Threads, MaxLoaded(t)
  PROVE  IInv'
<1>0. TypeOK /\ max \in Nat
  BY DEF IInv, TypeOK
<1>1. /\ Goto(t, "loadMax", "raiseMax") /\ old' = [old EXCEPT ![t] = max]
      /\ UNCHANGED <<data, owner, key, latency, calls, history>>
  BY DEF MaxLoaded, Rest
<1>2. "raiseMax" \in Places /\ "loadMax" \in Measuring /\ "raiseMax" \notin Resets
  BY DEF Places, Measuring, Resets
<1>3. pc' \in [Threads -> Places] /\ \A u \in Threads : pc'[u] = IF u = t THEN "raiseMax" ELSE pc[u]
  BY <1>0, <1>1, <1>2, GotoType
<1>4. old' \in [Threads -> Nat] /\ \A u \in Threads : old'[u] = IF u = t THEN max ELSE old[u]
  BY <1>0, <1>1 DEF TypeOK
<1>5. TypeOK'
  BY <1>0, <1>1, <1>3, <1>4 DEF TypeOK, data, history
<1>6. Measured' /\ ResetAlone'
  BY <1>0, <1>1, <1>2, PlacesKept DEF IInv, history
<1>7. LoadedBelow'
  BY <1>0, <1>1, <1>3, <1>4 DEF IInv, LoadedBelow, data, history
<1>8. LargestKept'
  BY <1>1 DEF IInv, LargestKept, data, history
<1>. QED
  BY <1>5, <1>6, <1>7, <1>8 DEF IInv

\* The maximum is raised, loaded again, or found high enough.
LEMMA MaxExchangedKept ==
  ASSUME IInv, NEW t \in Threads, MaxExchanged(t)
  PROVE  IInv'
<1>0. /\ TypeOK /\ max \in Nat /\ old[t] \in Nat /\ noted \subseteq Latencies
      /\ \A l \in Latencies : l \in Nat
  BY DEF IInv, TypeOK
<1>1. UNCHANGED <<counters, count, sum, samples, owner, key, latency, calls, asked, overlap>>
  BY DEF MaxExchanged
<1>2. pc[t] = "raiseMax"
  BY DEF MaxExchanged, Goto
<1>3. latency[t] \in Latencies /\ latency[t] \in Nat
  BY <1>0, <1>2 DEF IInv, Measured, Measuring
<1>4. {"raiseMax", "lockSamples"} \subseteq Places \cap Measuring
      /\ {"raiseMax", "lockSamples"} \cap Resets = {}
  BY DEF Places, Measuring, Resets
<1>5. ~ overlap => old[t] <= max
  BY <1>2 DEF IInv, LoadedBelow
<1>6. CASE max # old[t] /\ old' = [old EXCEPT ![t] = max] /\ Goto(t, "raiseMax", "raiseMax")
           /\ UNCHANGED <<max, noted>>
  <2>1. pc' \in [Threads -> Places] /\ \A u \in Threads : pc'[u] = pc[u]
    BY <1>0, <1>2, <1>4, <1>6, GotoType
  <2>2. old' \in [Threads -> Nat] /\ \A u \in Threads : old'[u] = IF u = t THEN max ELSE old[u]
    BY <1>0, <1>6 DEF TypeOK
  <2>3. TypeOK'
    BY <1>0, <1>1, <1>6, <2>1, <2>2 DEF TypeOK
  <2>4. Measured' /\ ResetAlone'
    BY <1>1, <2>1 DEF IInv, Measured, ResetAlone
  <2>5. LoadedBelow'
    BY <1>0, <1>1, <1>6, <2>1, <2>2 DEF IInv, LoadedBelow
  <2>6. LargestKept'
    BY <1>1, <1>6 DEF IInv, LargestKept
  <2>. QED
    BY <2>3, <2>4, <2>5, <2>6 DEF IInv
<1>7. CASE /\ Goto(t, "raiseMax", "lockSamples") /\ UNCHANGED old
           /\ noted' = noted \cup {latency[t]}
           /\ \/ latency[t] > old[t] /\ max = old[t] /\ max' = latency[t]
              \/ latency[t] <= old[t] /\ UNCHANGED max
  <2>1. /\ pc' \in [Threads -> Places]
        /\ \A u \in Threads : pc'[u] = IF u = t THEN "lockSamples" ELSE pc[u]
    BY <1>0, <1>4, <1>7, GotoType
  <2>2. max' \in Nat /\ max <= max'
    BY <1>0, <1>3, <1>7
  <2>3. TypeOK'
    <3>1. noted' \subseteq Latencies
      BY <1>0, <1>3, <1>7
    <3>. QED
      BY <1>0, <1>1, <1>7, <2>1, <2>2, <3>1 DEF TypeOK
  <2>4. Measured' /\ ResetAlone'
    BY <1>0, <1>1, <1>4, <1>7, PlacesKept DEF IInv
  <2>5. LoadedBelow'
    <3> SUFFICES ASSUME ~ overlap, NEW u \in Threads, pc'[u] = "raiseMax"
                 PROVE  old[u] <= max'
      BY <1>1, <1>7 DEF LoadedBelow
    <3>1. pc[u] = "raiseMax" /\ old[u] \in Nat
      BY <1>0, <2>1 DEF TypeOK
    <3>2. old[u] <= max
      BY <3>1 DEF IInv, LoadedBelow
    <3>. QED
      BY <1>0, <2>2, <3>1, <3>2
  <2>6. LargestKept'
    <3> SUFFICES ASSUME ~ overlap
                 PROVE  (\A l \in noted' : l <= max') /\ max' \in noted' \cup {0}
      BY <1>1 DEF LargestKept
    <3>1. /\ \A l \in noted : l <= max
          /\ max \in noted \cup {0}
      BY DEF IInv, LargestKept
    <3>2. latency[t] <= max'
      BY <1>0, <1>3, <1>5, <1>7
    <3>3. \A l \in noted' : l <= max'
      BY <1>0, <1>7, <2>2, <3>1, <3>2
    <3>4. max' \in noted' \cup {0}
      BY <1>7, <3>1
    <3>. QED
      BY <3>3, <3>4
  <2>. QED
    BY <2>3, <2>4, <2>5, <2>6 DEF IInv
<1>. QED
  BY <1>6, <1>7 DEF MaxExchanged

\* A reset that overlaps no call finds no thread between load and exchange.
LEMMA StatsResetKept ==
  ASSUME IInv, NEW t \in Threads, StatsReset(t)
  PROVE  IInv'
<1>0. TypeOK
  BY DEF IInv
<1>1. /\ Goto(t, "resetStats", "resetSamples") /\ count' = 0 /\ sum' = 0 /\ max' = 0
      /\ noted' = {}
      /\ UNCHANGED <<counters, samples, owner, locals, calls, asked, overlap>>
  BY DEF StatsReset
<1>2. /\ "resetSamples" \in Places /\ "resetSamples" \notin Measuring
      /\ "resetSamples" # "raiseMax" /\ "resetStats" \in Resets
  BY DEF Places, Measuring, Resets
<1>3. /\ pc' \in [Threads -> Places] /\ pc[t] = "resetStats"
      /\ \A u \in Threads : pc'[u] = IF u = t THEN "resetSamples" ELSE pc[u]
  BY <1>0, <1>1, <1>2, GotoType
<1>4. TypeOK'
  BY <1>0, <1>1, <1>3 DEF TypeOK, locals
<1>5. Measured' /\ ResetAlone'
  BY <1>0, <1>1, <1>2, PlacesKept DEF IInv, locals
<1>6. ~ overlap => \A u \in Threads : pc'[u] # "raiseMax"
  BY <1>2, <1>3 DEF IInv, ResetAlone
<1>7. LoadedBelow'
  BY <1>1, <1>6 DEF LoadedBelow
<1>8. LargestKept'
  BY <1>1 DEF LargestKept
<1>. QED
  BY <1>4, <1>5, <1>7, <1>8 DEF IInv

-----------------------------------------------------------------------------
(* The theorems.                                                           *)

\* At first no call was made.
LEMMA Initial == Init => IInv
<1> SUFFICES ASSUME Init
             PROVE  IInv
  OBVIOUS
<1>1. Zero \in [Keys -> Nat]
  BY DEF Zero
<1>2. "idle" \in Places /\ "idle" \notin Measuring /\ "idle" \notin Resets
      /\ "requests" \in Keys
  BY DEF Places, Measuring, Resets, Keys
<1>3. TypeOK
  <2>1. samples \in Seq(Latencies) /\ Len(samples) <= MAX_SAMPLES
    BY MetricsAssumption DEF Init
  <2>2. asked \in [counters : [Keys -> Nat], count : Nat, sum : Nat]
    BY <1>1 DEF Init
  <2>3. counters \in [Keys -> Nat] /\ count \in Nat /\ sum \in Nat /\ max \in Nat
    BY <1>1 DEF Init
  <2>4. owner \in [Locks -> Threads \cup {NoThread}]
    BY DEF Init
  <2>5. /\ pc \in [Threads -> Places] /\ key \in [Threads -> Keys]
        /\ latency \in [Threads -> Nat] /\ old \in [Threads -> Nat]
    BY <1>2 DEF Init
  <2>6. calls \in Nat /\ noted \subseteq Latencies /\ overlap \in BOOLEAN
    BY DEF Init
  <2>. QED
    BY <2>1, <2>2, <2>3, <2>4, <2>5, <2>6 DEF TypeOK
<1>4. Measured /\ LoadedBelow /\ ResetAlone /\ LargestKept
  BY <1>2 DEF Init, Measured, LoadedBelow, ResetAlone, LargestKept
<1>. QED
  BY <1>3, <1>4 DEF IInv

\* Every step keeps the invariant.
LEMMA Inductive == IInv /\ [Next]_vars => IInv'
<1> SUFFICES ASSUME IInv, [Next]_vars
             PROVE  IInv'
  OBVIOUS
<1>1. ASSUME NEW t \in Threads, Begin(t)
      PROVE  IInv'
  BY <1>1, BeginKept
<1>2. ASSUME NEW t \in Threads, Continue(t)
      PROVE  IInv'
  <2>1. CASE Moves(t)
    BY <2>1, MovesKept
  <2>2. CASE fetch_add(t)
    BY <2>2, AddKept
  <2>3. CASE CountAdded(t) \/ SumLoaded(t) \/ SumExchanged(t)
    BY <2>3, CountAndSumKept
  <2>4. CASE MaxLoaded(t)
    BY <2>4, MaxLoadedKept
  <2>5. CASE MaxExchanged(t)
    BY <2>5, MaxExchangedKept
  <2>6. CASE Sampled(t)
    BY <2>6, SampledKept
  <2>7. CASE CountersReset(t) \/ SamplesReset(t)
    BY <2>7, ResetKept
  <2>8. CASE StatsReset(t)
    BY <2>8, StatsResetKept
  <2>. QED
    BY <1>2, <2>1, <2>2, <2>3, <2>4, <2>5, <2>6, <2>7, <2>8 DEF Continue, Moves
<1>3. CASE UNCHANGED vars
  <2>1. UNCHANGED <<counters, count, sum, max, samples, owner, pc, key, latency, old, calls,
                    asked, noted, overlap>>
    BY <1>3 DEF vars, data, locals, history
  <2>2. TypeOK'
    BY <2>1 DEF IInv, TypeOK
  <2>3. Measured' /\ LoadedBelow' /\ ResetAlone' /\ LargestKept'
    BY <2>1 DEF IInv, Measured, LoadedBelow, ResetAlone, LargestKept
  <2>. QED
    BY <2>2, <2>3 DEF IInv
<1>. QED
  BY <1>1, <1>2, <1>3 DEF Next

\* Every variable keeps its type, and there are at most MAX_SAMPLES samples,
\* of latencies that were recorded (module Metrics, TypeOK).
THEOREM TypeCorrect == Spec => []TypeOK
<1>1. IInv => TypeOK
  BY DEF IInv
<1>. QED
  BY Initial, Inductive, <1>1, PTL DEF Spec

\* The maximum is the largest latency of all calls that are done with it,
\* however the loads and exchanges of recordLatency interleave.
THEOREM MaximumIsLargest == Spec => []LargestKept
<1>1. IInv => LargestKept
  BY DEF IInv
<1>. QED
  BY Initial, Inductive, <1>1, PTL DEF Spec

=============================================================================

------------------------------ MODULE Metrics ------------------------------
(***************************************************************************)
(* The counters and latency statistics that the threads of the server      *)
(* share (metrics.cpp).  A counter is found under requestMutex_ and then   *)
(* added to with no lock held; a latency is added to the count, the sum    *)
(* and the maximum by atomic operations of their own, the last two in      *)
(* loops of compare_exchange_weak, and kept as a sample under sampleMutex. *)
(* reset(), which the tests call, takes the three locks one in another.    *)
(*                                                                         *)
(* An action is one atomic operation, or what is done under a lock that is *)
(* held.  A compare_exchange_weak that fails of itself changes nothing and *)
(* is no step.  The statistics are those of one command, as are errors;    *)
(* sums of doubles are taken to be exact.                                  *)
(***************************************************************************)
EXTENDS Naturals, Sequences, FiniteSets

CONSTANTS Threads, NoThread,
          Codes,          \* error codes of the command
          Latencies,      \* what the timers measure
          MAX_SAMPLES,
          MaxCalls        \* bound: calls made

ASSUME MetricsAssumption ==
  /\ NoThread \notin Threads
  /\ Codes \cap {"requests", "errors", "http", "endpoint"} = {}
  /\ Latencies \subseteq Nat /\ MAX_SAMPLES \in Nat \ {0} /\ MaxCalls \in Nat

Keys == {"requests", "errors", "http", "endpoint"} \cup Codes
Locks == {"requestMutex_", "latencyMutex_", "sampleMutex"}

VARIABLES
  counters,          \* requestCounts_, errorCounts_ and httpRequests_
  count, sum, max, samples,    \* LatencyStats
  owner,             \* who holds each mutex
  pc, key,           \* what a thread does next, and of which counter
  latency, old,      \* its latencyMs, and its oldSum or oldMax
  calls,             \* how many calls were made
  asked,             \* history: what the calls ask for, since the last reset
  noted,             \* history: latencies of calls that are done with max
  overlap            \* history: a reset and another call overlapped

data == <<counters, count, sum, max, samples>>
locals == <<key, latency, old>>
history == <<asked, noted, overlap>>
vars == <<data, owner, pc, locals, calls, history>>

Zero == [k \in Keys |-> 0]

Init ==
  /\ counters = Zero /\ count = 0 /\ sum = 0 /\ max = 0 /\ samples = << >>
  /\ owner = [m \in Locks |-> NoThread]
  /\ pc = [t \in Threads |-> "idle"] /\ key = [t \in Threads |-> "requests"]
  /\ latency = [t \in Threads |-> 0] /\ old = [t \in Threads |-> 0]
  /\ calls = 0 /\ noted = {} /\ overlap = FALSE
  /\ asked = [counters |-> Zero, count |-> 0, sum |-> 0]

-----------------------------------------------------------------------------
(* The calls.                                                              *)

Goto(t, from, to) == pc[t] = from /\ pc' = [pc EXCEPT ![t] = to]
Acquire(t, m) == owner[m] = NoThread /\ owner' = [owner EXCEPT ![m] = t]
Release(t, ms) == owner' = [m \in Locks |-> IF m \in ms THEN NoThread ELSE owner[m]]

Resets == {"reset", "resetCounters", "resetLatency", "resetStats", "resetSamples",
           "resetDone"}
Busy == {t \in Threads : pc[t] # "idle"}

\* A thread calls one of the functions.
Call(t, to) ==
  /\ Goto(t, "idle", to)
  /\ calls < MaxCalls /\ calls' = calls + 1
  /\ overlap' = (overlap \/ \E u \in Busy : to = "reset" \/ pc[u] \in Resets)
  /\ UNCHANGED <<data, owner, old, noted>>

CountedOnce(ks) == [k \in Keys |-> asked.counters[k] + IF k \in ks THEN 1 ELSE 0]
Counted(t, first, ks) ==
  /\ key' = [key EXCEPT ![t] = first]
  /\ asked' = [asked EXCEPT !.counters = CountedOnce(ks)]
  /\ UNCHANGED latency

recordRequest(t) == Call(t, "find") /\ Counted(t, "requests", {"requests"})
recordError(t) ==
  \E c \in Codes : Call(t, "find") /\ Counted(t, c, {c, "errors"})
recordHttpRequest(t) == Call(t, "add") /\ Counted(t, "http", {"http", "endpoint"})

recordLatency(t) ==
  \E l \in Latencies :
    /\ Call(t, "findStats")
    /\ latency' = [latency EXCEPT ![t] = l] /\ UNCHANGED key
    /\ asked' = [asked EXCEPT !.count = @ + 1, !.sum = @ + l]

getAverageLatency(t) == Call(t, "average") /\ UNCHANGED <<key, latency, asked>>
getLatencyPercentile(t) == Call(t, "percentile") /\ UNCHANGED <<key, latency, asked>>
reset(t) == Call(t, "reset") /\ UNCHANGED <<key, latency, asked>>

-----------------------------------------------------------------------------
(* Counters.                                                               *)

Rest == UNCHANGED <<calls, history>>

\* A counter that is not there yet is made and reads as zero.
getOrCreateCounter(t) ==
  /\ owner["requestMutex_"] = NoThread /\ Goto(t, "find", "add")
  /\ UNCHANGED <<data, owner, locals>> /\ Rest

Following(k) == IF k \in Codes THEN "errors" ELSE IF k = "http" THEN "endpoint" ELSE k

fetch_add(t) ==
  /\ Goto(t, "add", IF Following(key[t]) = key[t] THEN "idle" ELSE "find")
  /\ counters' = [counters EXCEPT ![key[t]] = @ + 1]
  /\ key' = [key EXCEPT ![t] = Following(@)]
  /\ UNCHANGED <<count, sum, max, samples, owner, latency, old>> /\ Rest

-----------------------------------------------------------------------------
(* Latencies.                                                              *)

getOrCreateLatencyStats(t) ==
  /\ owner["latencyMutex_"] = NoThread /\ Goto(t, "findStats", "count")
  /\ UNCHANGED <<data, owner, locals>> /\ Rest

CountAdded(t) ==
  /\ Goto(t, "count", "loadSum") /\ count' = count + 1
  /\ UNCHANGED <<counters, sum, max, samples, owner, locals>> /\ Rest

SumLoaded(t) ==
  /\ Goto(t, "loadSum", "addSum") /\ old' = [old EXCEPT ![t] = sum]
  /\ UNCHANGED <<data, owner, key, latency>> /\ Rest

\* Mutant: the sum is stored whatever became of it since it was loaded.
SumStored(t) ==
  /\ Goto(t, "addSum", "loadMax") /\ sum' = old[t] + latency[t]
  /\ UNCHANGED <<counters, count, max, samples, owner, locals>> /\ Rest

\* compare_exchange_weak: what is there is loaded when it is not what was.
SumExchanged(t) ==
  /\ UNCHANGED <<counters, count, max, samples, owner, key, latency>> /\ Rest
  /\ \/ /\ sum = old[t] /\ sum' = old[t] + latency[t]
        /\ Goto(t, "addSum", "loadMax") /\ UNCHANGED old
     \/ /\ sum # old[t] /\ old' = [old EXCEPT ![t] = sum]
        /\ Goto(t, "addSum", "addSum") /\ UNCHANGED sum

MaxLoaded(t) ==
  /\ Goto(t, "loadMax", "raiseMax") /\ old' = [old EXCEPT ![t] = max]
  /\ UNCHANGED <<data, owner, key, latency>> /\ Rest

\* Mutant: the maximum is stored whatever became of it since it was loaded.
MaxStored(t) ==
  /\ Goto(t, "raiseMax", "lockSamples")
  /\ max' = IF latency[t] > old[t] THEN latency[t] ELSE max
  /\ noted' = noted \cup {latency[t]}
  /\ UNCHANGED <<counters, count, sum, samples, owner, locals, calls, asked, overlap>>

\* The loop ends too when the maximum is no less than the latency.
MaxExchanged(t) ==
  /\ UNCHANGED <<counters, count, sum, samples, owner, key, latency>>
  /\ UNCHANGED <<calls, asked, overlap>>
  /\ \/ /\ latency[t] > old[t] /\ max # old[t] /\ old' = [old EXCEPT ![t] = max]
        /\ Goto(t, "raiseMax", "raiseMax") /\ UNCHANGED <<max, noted>>
     \/ /\ \/ latency[t] > old[t] /\ max = old[t] /\ max' = latency[t]
           \/ latency[t] <= old[t] /\ UNCHANGED max
        /\ Goto(t, "raiseMax", "lockSamples")
        /\ noted' = noted \cup {latency[t]} /\ UNCHANGED old

SamplesLocked(t) ==
  /\ Goto(t, "lockSamples", "sample") /\ Acquire(t, "sampleMutex")
  /\ UNCHANGED <<data, locals>> /\ Rest

\* Mutant: one sample too many is kept.
SampledOneMore(t) ==
  /\ Goto(t, "sample", "idle") /\ Release(t, {"sampleMutex"})
  /\ \/ Len(samples) <= MAX_SAMPLES /\ samples' = Append(samples, latency[t])
     \/ Len(samples) > MAX_SAMPLES /\ UNCHANGED samples
  /\ UNCHANGED <<counters, count, sum, max, locals>> /\ Rest

\* Reservoir sampling, of an index up to the count: the largest there is when
\* a reset has just made the count zero.
Sampled(t) ==
  /\ Goto(t, "sample", "idle") /\ Release(t, {"sampleMutex"})
  /\ \/ Len(samples) < MAX_SAMPLES /\ samples' = Append(samples, latency[t])
     \/ /\ Len(samples) >= MAX_SAMPLES
        /\ \/ \E i \in 1..MAX_SAMPLES :
                /\ count = 0 \/ i <= count
                /\ samples' = [samples EXCEPT ![i] = latency[t]]
           \/ (count = 0 \/ count > MAX_SAMPLES) /\ UNCHANGED samples
  /\ UNCHANGED <<counters, count, sum, max, locals>> /\ Rest

\* std::sort: the elements in an order in which none is less than one before.
Sorts(f, s) == /\ \A i \in DOMAIN s : \E j \in DOMAIN s : f[j] = i
               /\ \A i, j \in DOMAIN s : i <= j => s[f[i]] <= s[f[j]]
Sorted(s) ==
  LET order == CHOOSE f \in [DOMAIN s -> DOMAIN s] : Sorts(f, s)
  IN  [i \in DOMAIN s |-> s[order[i]]]

\* Mutant: the index is rounded down.
PercentileRoundedDown(s, p) ==
  LET idx == (p * Len(s)) \div 100 + 1
  IN  Sorted(s)[IF idx > Len(s) THEN Len(s) ELSE idx]

\* The value below which a percentage p of the samples lies.
PercentileOf(s, p) ==
  LET idx == (p * Len(s) + 99) \div 100
  IN  Sorted(s)[IF idx = 0 THEN Len(s) ELSE idx]

-----------------------------------------------------------------------------
(* Readers, which leave the data as it is, and reset.                      *)

Read(t, from, to) == Goto(t, from, to) /\ UNCHANGED <<data, locals>> /\ Rest

AverageLocked(t) == Read(t, "average", "averageRead") /\ Acquire(t, "latencyMutex_")
\* Mutant: the sum is divided by getRequestCount(), which locks requestMutex_.
AverageOfRequests(t) ==
  /\ owner["requestMutex_"] = NoThread
  /\ Read(t, "averageRead", "idle") /\ Release(t, {"latencyMutex_"})

AverageRead(t) == Read(t, "averageRead", "idle") /\ Release(t, {"latencyMutex_"})

PercentileLocked(t) == Read(t, "percentile", "percentileStats") /\ Acquire(t, "latencyMutex_")
SamplesFound(t) == Read(t, "percentileStats", "percentileRead") /\ Acquire(t, "sampleMutex")
PercentileRead(t) ==
  Read(t, "percentileRead", "idle") /\ Release(t, {"latencyMutex_", "sampleMutex"})

ResetLocked(t) == Read(t, "reset", "resetCounters") /\ Acquire(t, "requestMutex_")

CountersReset(t) ==
  /\ Goto(t, "resetCounters", "resetLatency") /\ counters' = Zero
  /\ asked' = [counters |-> Zero, count |-> 0, sum |-> 0]
  /\ UNCHANGED <<count, sum, max, samples, owner, locals, calls, noted, overlap>>

LatencyLocked(t) == Read(t, "resetLatency", "resetStats") /\ Acquire(t, "latencyMutex_")

\* The stores are one step: a call between them overlaps the reset anyway.
StatsReset(t) ==
  /\ Goto(t, "resetStats", "resetSamples") /\ count' = 0 /\ sum' = 0 /\ max' = 0
  /\ noted' = {}
  /\ UNCHANGED <<counters, samples, owner, locals, calls, asked, overlap>>

ResetSamplesLocked(t) == Read(t, "resetSamples", "resetDone") /\ Acquire(t, "sampleMutex")

SamplesReset(t) ==
  /\ Goto(t, "resetDone", "idle") /\ samples' = << >> /\ Release(t, Locks)
  /\ UNCHANGED <<counters, count, sum, max, locals>> /\ Rest

-----------------------------------------------------------------------------
Begin(t) ==
  \/ recordRequest(t) \/ recordError(t) \/ recordHttpRequest(t) \/ recordLatency(t)
  \/ getAverageLatency(t) \/ getLatencyPercentile(t) \/ reset(t)

Continue(t) ==
  \/ getOrCreateCounter(t) \/ fetch_add(t)
  \/ getOrCreateLatencyStats(t) \/ CountAdded(t) \/ SumLoaded(t) \/ SumExchanged(t)
  \/ MaxLoaded(t) \/ MaxExchanged(t) \/ SamplesLocked(t) \/ Sampled(t)
  \/ AverageLocked(t) \/ AverageRead(t)
  \/ PercentileLocked(t) \/ SamplesFound(t) \/ PercentileRead(t)
  \/ ResetLocked(t) \/ CountersReset(t) \/ LatencyLocked(t) \/ StatsReset(t)
  \/ ResetSamplesLocked(t) \/ SamplesReset(t)

Next == \E t \in Threads : Begin(t) \/ Continue(t)

Spec == Init /\ [][Next]_vars

\* A thread inside a call runs; whether it calls again is its own affair.
FairSpec == Spec /\ \A t \in Threads : WF_vars(Continue(t))

-----------------------------------------------------------------------------
(* Properties.                                                             *)

Places == {"idle", "find", "add", "findStats", "count", "loadSum", "addSum", "loadMax",
           "raiseMax", "lockSamples", "sample", "average", "averageRead",
           "percentile", "percentileStats", "percentileRead"} \cup Resets

\* What the variables hold; there are never more than MAX_SAMPLES samples.
TypeOK ==
  /\ counters \in [Keys -> Nat] /\ count \in Nat /\ sum \in Nat /\ max \in Nat
  /\ samples \in Seq(Latencies) /\ Len(samples) <= MAX_SAMPLES
  /\ owner \in [Locks -> Threads \cup {NoThread}]
  /\ pc \in [Threads -> Places] /\ key \in [Threads -> Keys]
  /\ latency \in [Threads -> Nat] /\ old \in [Threads -> Nat]
  /\ calls \in Nat /\ noted \subseteq Latencies /\ overlap \in BOOLEAN
  /\ asked \in [counters : [Keys -> Nat], count : Nat, sum : Nat]

\* The maximum is the largest of the latencies that threads are done comparing
\* with it, whatever they did between a load and its compare_exchange, since
\* the last reset, unless that overlapped a call.
LargestKept ==
  ~ overlap => /\ \A l \in noted : l <= max
               /\ max \in noted \cup {0}

\* "Thread-safe metrics collection" (metrics.h:15): when no call is under way,
\* every counter, count, sum and number of samples is what the calls amount to.
NothingLost ==
  ~ overlap /\ Busy = {} =>
    /\ counters = asked.counters /\ count = asked.count /\ sum = asked.sum
    /\ Len(samples) = IF count < MAX_SAMPLES THEN count ELSE MAX_SAMPLES

Percentages == {1, 50, 95, 99, 100}

\* A percentile is the nearest rank: of the samples, p in a hundred are no
\* larger, and fewer than p in a hundred smaller.
PercentileIsNearestRank ==
  \A p \in Percentages : samples # << >> =>
    LET v == PercentileOf(samples, p)
        Portion(S) == 100 * Cardinality(S)
    IN  /\ Portion({i \in DOMAIN samples : samples[i] <= v}) >= p * Len(samples)
        /\ Portion({i \in DOMAIN samples : samples[i] < v}) < p * Len(samples)

\* Every call returns: no two threads wait for each other's locks, the ones
\* that reset holds while it takes the next among them, and no thread retries
\* a compare_exchange for ever.
EveryCallReturns == \A t \in Threads : t \in Busy ~> t \notin Busy

=============================================================================

-------------------------------- MODULE Metrics --------------------------------
(***************************************************************************)
(* The resource samples of src/metrics.rs: run_resource_sampler records    *)
(* one a second with record_resource_sample, while handlers of             *)
(* /debug/metrics take snapshots from other threads.  Each access to one   *)
(* of the atomics is a step.  They are interleaved in program order, which *)
(* Ordering::Relaxed does not even promise: what goes wrong here can go    *)
(* wrong in any build.                                                     *)
(*                                                                         *)
(* The sampler is the only writer of these atomics, so the exchange of     *)
(* saturating_fetch_add succeeds with the value it loaded.  The counters   *)
(* that other tasks add to are in the modules of those tasks.              *)
(***************************************************************************)
EXTENDS Naturals, Sequences

CONSTANTS
  Value,        \* the values a sample may have
  MaxU64,       \* the largest u64
  MaxSamples,   \* bound: the samples recorded
  MaxSnapshots  \* bound: the snapshots taken

Gauge == {"cpu", "memory"}
Samples == <<"samples", "all">>

VARIABLES
  atomics,      \* the atomics: <<kind, gauge>> -> value
  sample,       \* the sample being recorded: gauge -> value
  recording,    \* the next step of record_resource_sample, 0 between two calls
  recorded,     \* calls of it so far
  loaded,       \* what the snapshot under way has loaded: <<kind, gauge>> -> value
  loading,      \* its next step
  snapshots,    \* snapshots taken so far
  largest       \* history: the largest value of any sample, per gauge

vars == <<atomics, sample, recording, recorded, loaded, loading, snapshots, largest>>

Atomic == ({"last", "sum", "max"} \X Gauge) \cup {Samples}

Init ==
  /\ atomics = [a \in Atomic |-> 0]
  /\ sample = [g \in Gauge |-> 0]
  /\ recording = 0
  /\ recorded = 0
  /\ loaded = [a \in Atomic |-> 0]
  /\ loading = 1
  /\ snapshots = 0
  /\ largest = [g \in Gauge |-> 0]

Larger(m, n) == IF m < n THEN n ELSE m

-----------------------------------------------------------------------------
(* record_resource_sample.                                                 *)

RecordOps ==
  << <<"last", "cpu">>, <<"last", "memory">>, Samples, <<"sum", "cpu">>, <<"max", "cpu">>,
     <<"sum", "memory">>, <<"max", "memory">> >>

\* a tick of the sampler that finds its process
Tick(cpu, memory) ==
  /\ recording = 0
  /\ recorded < MaxSamples
  /\ sample' = [g \in Gauge |-> IF g = "cpu" THEN cpu ELSE memory]
  /\ largest' = [g \in Gauge |-> Larger(largest[g], sample'[g])]
  /\ recording' = 1
  /\ recorded' = recorded + 1
  /\ UNCHANGED <<atomics, loaded, loading, snapshots>>

\* what the step at an atomic makes of its value
Recorded(a, old) ==
  CASE a = Samples -> old + 1
    [] a[1] = "last" -> sample[a[2]]
    [] a[1] = "sum" -> IF old + sample[a[2]] > MaxU64 THEN MaxU64 ELSE old + sample[a[2]]
    [] a[1] = "max" -> Larger(old, sample[a[2]])

Record ==
  /\ recording > 0
  /\ LET a == RecordOps[recording] IN
       atomics' = [atomics EXCEPT ![a] = Recorded(a, @)]
  /\ recording' = (recording + 1) % (Len(RecordOps) + 1)
  /\ UNCHANGED <<sample, recorded, loaded, loading, snapshots, largest>>

-----------------------------------------------------------------------------
(* snapshot.                                                               *)

SnapshotOps ==
  << Samples, <<"sum", "cpu">>, <<"sum", "memory">>, <<"last", "cpu">>, <<"max", "cpu">>,
     <<"last", "memory">>, <<"max", "memory">> >>

SnapshotTaken == loading > Len(SnapshotOps)

Load ==
  /\ ~ SnapshotTaken
  /\ LET a == SnapshotOps[loading] IN loaded' = [loaded EXCEPT ![a] = atomics[a]]
  /\ loading' = loading + 1
  /\ UNCHANGED <<atomics, sample, recording, recorded, snapshots, largest>>

NextSnapshot ==
  /\ SnapshotTaken
  /\ snapshots + 1 < MaxSnapshots
  /\ snapshots' = snapshots + 1
  /\ loading' = 1
  /\ loaded' = [a \in Atomic |-> 0]
  /\ UNCHANGED <<atomics, sample, recording, recorded, largest>>

Average(g) ==
  IF loaded[Samples] = 0 THEN 0 ELSE loaded[<<"sum", g>>] \div loaded[Samples]

Next ==
  \/ \E cpu, memory \in Value : Tick(cpu, memory)
  \/ Record \/ Load \/ NextSnapshot

Spec == Init /\ [][Next]_vars

-----------------------------------------------------------------------------
\* What the load test's page says of /debug/metrics: the average is based on the
\* samples collected so far.  So it is at most the largest of them
\* (metrics.rs:90-95).
AverageIsOfSamples ==
  SnapshotTaken => \A g \in Gauge : Average(g) <= largest[g]
================================================================================

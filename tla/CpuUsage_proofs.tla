--------------------------- MODULE CpuUsage_proofs ---------------------------
(***************************************************************************)
(* Proofs about CpuUsage for every start, every length of the run and any  *)
(* number of failing reads.                                                *)
(***************************************************************************)
EXTENDS CpuUsage, TLAPS

Percents == 0 .. 100

\* cpu_calculate_usage clamps its result, whatever the two samples are.
LEMMA CalculateType ==
  ASSUME NEW from \in Sample, NEW to \in Sample, from.total <= to.total
  PROVE  Calculate(from, to) \in Percents
<1> USE TimeAssumption
<1> DEFINE total == to.total - from.total
           idles == to.idle - from.idle
<1>1. /\ from.total \in Int /\ to.total \in Int
      /\ from.idle \in Int /\ to.idle \in Int
  BY DEF Sample
<1>2. CASE to.total = from.total
  BY <1>2 DEF Calculate, Percents
<1>3. CASE to.total # from.total
  <2>1. total \in Nat \ {0} /\ idles \in Int
    BY <1>1, <1>3
  <2>2. (100 * (total - idles)) \in Int
    BY <2>1
  <2> DEFINE percent == (100 * (total - idles)) \div total
  <2>3. percent \in Int
    BY <2>1, <2>2
  <2>4. Calculate(from, to) = Clamp(percent)
    BY <1>3 DEF Calculate
  <2>5. QED
    <3> HIDE DEF percent
    <3>1. QED
      BY <2>3, <2>4 DEF Clamp, Percents
<1>4. QED
  BY <1>2, <1>3

-----------------------------------------------------------------------------
(* The inductive invariant. *)

Publishing == {"publish", "publish_flag", "publish_usage"}

\* Samples are of some moment up to now; those of an update are in order.
SampleInv ==
  /\ prev.total <= now /\ curr.total <= now /\ before.total <= now
  /\ before.total <= curr.total
  /\ thread = "sample" => prev = curr
  /\ thread \in Publishing => prev = before

\* The thread updates within the second in which it woke.
ClockInv ==
  /\ thread \in {"update", "first", "flag", "sample"} \cup Publishing => woke = now

\* The two threads do not meet in cached_prev: while the event loop initialises
\* the cache, the thread does not evaluate a sample, nor begin to.
RaceInv ==
  /\ thread \in {"sample"} \cup Publishing => initialized
  /\ valid => initialized
  /\ thread \in {"first", "flag"} => ~valid
  /\ getting \in {"read", "flag"} =>
       /\ ~valid
       /\ initialized => thread = "sleep" /\ woke = now

\* What is in cached_usage, between updates and in each of their steps.
UsageInv ==
  /\ usage \in published \cup {0}
  /\ valid /\ thread \in {"sleep", "update", "sample"} =>
       usage = Calculate(before, curr)
  /\ thread = "publish_flag" => usage = Calculate(prev, curr)
  /\ thread \in {"publish_flag", "publish_usage"} =>
       Calculate(prev, curr) \in published
  /\ thread = "publish_usage" => valid
  /\ thread = "warm" => ~valid

Inv == TypeOK /\ SampleInv /\ ClockInv /\ RaceInv /\ UsageInv /\ ClientSeesPublished

LEMMA InvInit == Init => Inv
<1> SUFFICES ASSUME Init PROVE Inv
  OBVIOUS
<1> USE TimeAssumption, FaultsAssumption DEF Init
<1>1. Zero \in Sample
  BY DEF Zero, Sample
<1>2. TypeOK
  <2>1. {prev, curr, before} \subseteq Sample /\ {valid, initialized} \subseteq BOOLEAN
    BY <1>1
  <2>2. QED
    BY <2>1 DEF TypeOK
<1>3. SampleInv /\ ClockInv /\ RaceInv /\ UsageInv /\ ClientSeesPublished
  BY DEF SampleInv, ClockInv, RaceInv, UsageInv, ClientSeesPublished, Publishing, Zero
<1>4. QED
  BY <1>2, <1>3 DEF Inv

-----------------------------------------------------------------------------
(* The monitor thread. *)

\* What is in /proc/stat is a sample.
LEMMA StatType == TypeOK => Stat \in Sample /\ Stat.total = now
<1> SUFFICES ASSUME TypeOK PROVE Stat \in Sample /\ Stat.total = now
  OBVIOUS
<1>1. now \in 0 .. MaxTime /\ idle \in 0 .. MaxTime
  BY TimeAssumption DEF TypeOK
<1>2. QED
  BY <1>1 DEF Stat, Sample

LEMMA TickInv == \A busy \in BOOLEAN : Inv /\ Tick(busy) => Inv'
<1> SUFFICES ASSUME NEW busy \in BOOLEAN, Inv, Tick(busy) PROVE Inv'
  OBVIOUS
<1> USE TimeAssumption DEF Inv, Tick, Quick, cache
<1>1. TypeOK'
  <2>1. /\ now' \in StartTime .. MaxTime /\ idle' \in 0 .. now'
        /\ woke' \in StartTime .. now'
    BY DEF TypeOK
  <2>2. QED
    BY <2>1 DEF TypeOK
<1>2. SampleInv'
  <2>1. /\ prev.total \in Int /\ curr.total \in Int /\ before.total \in Int
        /\ now \in Int /\ now' = now + 1
    BY DEF TypeOK, Sample
  <2>2. QED
    BY <2>1 DEF SampleInv
<1>3. ClockInv' /\ RaceInv' /\ UsageInv' /\ ClientSeesPublished'
  BY DEF ClockInv, RaceInv, UsageInv, ClientSeesPublished, Publishing
<1>4. QED
  BY <1>1, <1>2, <1>3

LEMMA SleepInv == Inv /\ (WarmUp \/ Wake) => Inv'
<1> SUFFICES ASSUME Inv, WarmUp \/ Wake PROVE Inv'
  OBVIOUS
<1> USE DEF Inv, WarmUp, Wake, Fault, clock, cache
<1>1. TypeOK'
  <2>1. woke' \in StartTime .. now /\ faults' \in 0 .. MaxFaults
    BY TimeAssumption, FaultsAssumption DEF TypeOK
  <2>2. thread' \in {"sleep", "update"}
    OBVIOUS
  <2>3. QED
    BY <2>1, <2>2 DEF TypeOK
<1>2. SampleInv' /\ ClockInv'
  BY DEF SampleInv, ClockInv, Publishing
<1>3. RaceInv'
  BY DEF RaceInv, TypeOK, Publishing
<1>4. UsageInv' /\ ClientSeesPublished'
  BY DEF UsageInv, ClientSeesPublished
<1>5. QED
  BY <1>1, <1>2, <1>3, <1>4

LEMMA UpdateInv == Inv /\ Update => Inv'
<1> SUFFICES ASSUME Inv, Update PROVE Inv'
  OBVIOUS
<1> USE DEF Inv, Update, clock
<1>1. TypeOK'
  <2>1. prev' \in Sample /\ thread' \in {"sample", "first"}
    BY DEF TypeOK
  <2>2. QED
    BY <2>1 DEF TypeOK
<1>2. SampleInv' /\ ClockInv' /\ RaceInv'
  BY DEF SampleInv, ClockInv, RaceInv, Publishing
<1>3. UsageInv' /\ ClientSeesPublished'
  BY DEF UsageInv, ClientSeesPublished
<1>4. QED
  BY <1>1, <1>2, <1>3

LEMMA FirstInv == Inv /\ (FirstSample \/ FlagInitialized) => Inv'
<1> SUFFICES ASSUME Inv, FirstSample \/ FlagInitialized PROVE Inv'
  OBVIOUS
<1> USE StatType DEF Inv, FirstSample, FlagInitialized, clock
<1>1. TypeOK'
  <2>1. prev' \in Sample /\ initialized' \in BOOLEAN /\ thread' \in {"flag", "sleep"}
    BY DEF TypeOK
  <2>2. QED
    BY <2>1 DEF TypeOK
<1>2. SampleInv'
  <2>1. now \in Int
    BY TimeAssumption DEF TypeOK
  <2>2. prev'.total <= now
    BY <2>1 DEF SampleInv
  <2>3. QED
    BY <2>2 DEF SampleInv, Publishing
<1>3. ClockInv' /\ RaceInv'
  BY DEF ClockInv, RaceInv, Publishing
<1>4. UsageInv' /\ ClientSeesPublished'
  BY DEF UsageInv, ClientSeesPublished, RaceInv
<1>5. QED
  BY <1>1, <1>2, <1>3, <1>4

LEMMA TakeSampleInv == Inv /\ TakeSample => Inv'
<1> SUFFICES ASSUME Inv, TakeSample PROVE Inv'
  OBVIOUS
<1> USE StatType DEF Inv, TakeSample, clock
<1>1. TypeOK'
  <2>1. before' \in Sample /\ curr' \in Sample /\ thread' = "publish"
    BY DEF TypeOK
  <2>2. QED
    BY <2>1 DEF TypeOK
<1>2. SampleInv'
  <2>1. now \in Int
    BY TimeAssumption DEF TypeOK
  <2>2. QED
    BY <2>1 DEF SampleInv, Publishing
<1>3. ClockInv' /\ RaceInv'
  BY DEF ClockInv, RaceInv, Publishing
<1>4. UsageInv' /\ ClientSeesPublished'
  BY DEF UsageInv, ClientSeesPublished
<1>5. QED
  BY <1>1, <1>2, <1>3, <1>4

LEMMA SampleFailsInv == Inv /\ SampleFails => Inv'
<1> SUFFICES ASSUME Inv, SampleFails PROVE Inv'
  OBVIOUS
<1> USE DEF Inv, SampleFails, Fault, clock, cache
<1>1. TypeOK'
  <2>1. faults' \in 0 .. MaxFaults /\ thread' = "sleep"
    BY FaultsAssumption DEF TypeOK
  <2>2. QED
    BY <2>1 DEF TypeOK
<1>2. SampleInv' /\ ClockInv' /\ RaceInv'
  BY DEF SampleInv, ClockInv, RaceInv, Publishing
<1>3. UsageInv' /\ ClientSeesPublished'
  BY DEF UsageInv, ClientSeesPublished, RaceInv
<1>4. QED
  BY <1>1, <1>2, <1>3

LEMMA PublishInv == Inv /\ (Publish \/ PublishRest) => Inv'
<1> SUFFICES ASSUME Inv, Publish \/ PublishRest PROVE Inv'
  OBVIOUS
<1> DEFINE load == Calculate(prev, curr)
<1> USE DEF Inv, Publish, PublishRest, clock
<1>1. thread \in Publishing /\ prev = before
  BY DEF SampleInv, Publishing
<1>2. load \in Percents
  <2>1. prev \in Sample /\ curr \in Sample /\ prev.total <= curr.total
    BY <1>1 DEF TypeOK, SampleInv
  <2>2. QED
    BY <2>1, CalculateType
<1>3. load' = load /\ before' = before
  OBVIOUS
<1> HIDE DEF load
<1>4. TypeOK'
  <2>1. usage' \in Percents /\ published' \subseteq Percents
    BY <1>2 DEF TypeOK, Percents, load
  <2>2. thread' \in {"publish_flag", "publish_usage", "sleep"} /\ valid' \in BOOLEAN
    BY DEF TypeOK
  <2>3. QED
    BY <2>1, <2>2 DEF TypeOK, Percents
<1>5. SampleInv' /\ ClockInv'
  BY <1>1 DEF SampleInv, ClockInv, Publishing
<1>6. RaceInv'
  BY <1>1 DEF RaceInv, Publishing, ClockInv
<1>7. UsageInv'
  BY <1>1, <1>3 DEF UsageInv, load
<1>8. ClientSeesPublished'
  BY DEF ClientSeesPublished
<1>9. QED
  BY <1>4, <1>5, <1>6, <1>7, <1>8

-----------------------------------------------------------------------------
(* The event loop. *)

LEMMA GetUsageInv == Inv /\ GetUsage => Inv'
<1> SUFFICES ASSUME Inv, GetUsage PROVE Inv'
  OBVIOUS
<1> USE DEF Inv, GetUsage, Return, clock, cache
<1>1. TypeOK'
  <2>1. answer' \in -1 .. 100 /\ getting' \in {"done", "read"}
    BY DEF TypeOK
  <2>2. QED
    BY <2>1 DEF TypeOK
<1>2. SampleInv' /\ ClockInv' /\ RaceInv'
  BY DEF SampleInv, ClockInv, RaceInv
<1>3. UsageInv' /\ ClientSeesPublished'
  BY DEF UsageInv, ClientSeesPublished
<1>4. QED
  BY <1>1, <1>2, <1>3

LEMMA GetFirstInv == Inv /\ (GetFirstSample \/ GetFlagInitialized \/ GetFails) => Inv'
<1> SUFFICES ASSUME Inv, GetFirstSample \/ GetFlagInitialized \/ GetFails PROVE Inv'
  OBVIOUS
<1> USE StatType
        DEF Inv, GetFirstSample, GetFlagInitialized, GetFails, Return, Fault, clock, cache
<1>1. getting \in {"read", "flag"} /\ thread \notin {"sample"} \cup Publishing
  BY DEF RaceInv, Publishing
<1>2. TypeOK'
  <2>1. prev' \in Sample /\ initialized' \in BOOLEAN
    BY DEF TypeOK
  <2>2. getting' \in {"flag", "done"} /\ answer' \in -1 .. 100
    BY DEF TypeOK
  <2>3. faults' \in 0 .. MaxFaults
    BY FaultsAssumption DEF TypeOK
  <2>4. QED
    BY <2>1, <2>2, <2>3 DEF TypeOK
<1>3. SampleInv'
  <2>1. now \in Int
    BY TimeAssumption DEF TypeOK
  <2>2. prev' \in {prev, Stat} /\ prev.total <= now
    BY DEF SampleInv
  <2>3. prev'.total <= now
    BY <2>1, <2>2
  <2>4. QED
    BY <1>1, <2>3 DEF SampleInv
<1>4. ClockInv' /\ RaceInv'
  BY <1>1 DEF ClockInv, RaceInv, Publishing
<1>5. UsageInv' /\ ClientSeesPublished'
  BY <1>1 DEF UsageInv, ClientSeesPublished, Publishing
<1>6. QED
  BY <1>2, <1>3, <1>4, <1>5

LEMMA AskInv == Inv /\ (Ask \/ Show) => Inv'
<1> SUFFICES ASSUME Inv, Ask \/ Show PROVE Inv'
  OBVIOUS
<1> USE DEF Inv, Ask, Show, clock, cache
<1>1. TypeOK'
  <2>1. answer' \in -1 .. 100 /\ getting' \in {"check", "idle"}
    BY DEF TypeOK
  <2>2. QED
    BY <2>1 DEF TypeOK
<1>2. SampleInv' /\ ClockInv' /\ RaceInv'
  BY DEF SampleInv, ClockInv, RaceInv
<1>3. UsageInv' /\ ClientSeesPublished'
  BY DEF UsageInv, ClientSeesPublished
<1>4. QED
  BY <1>1, <1>2, <1>3

-----------------------------------------------------------------------------
LEMMA InvNext == Inv /\ [Next]_vars => Inv'
<1> SUFFICES ASSUME Inv, [Next]_vars PROVE Inv'
  OBVIOUS
<1>1. CASE Monitor
  BY <1>1, SleepInv, UpdateInv, FirstInv, TakeSampleInv, SampleFailsInv, PublishInv
     DEF Monitor
<1>2. CASE Loop
  BY <1>2, AskInv, GetUsageInv, GetFirstInv DEF Loop
<1>3. CASE \E busy \in BOOLEAN : Tick(busy)
  BY <1>3, TickInv
<1>4. CASE UNCHANGED vars
  BY <1>4 DEF vars, clock, cache, Inv, TypeOK, SampleInv, ClockInv, RaceInv, UsageInv,
              ClientSeesPublished
<1>5. QED
  BY <1>1, <1>2, <1>3, <1>4 DEF Next

LEMMA InvAlways == Spec => []Inv
  BY InvInit, InvNext, PTL DEF Spec

\* The usage that cpu.c keeps is a percentage, and its samples are of the past.
THEOREM TypeCorrect == Spec => []TypeOK
<1>1. Inv => TypeOK
  BY DEF Inv
<1>2. QED
  BY <1>1, InvAlways, PTL

\* The usage that cpu_update_cache leaves is of the last interval, although the
\* event loop may initialise the cache at any moment and reads may fail: nothing it
\* stores in cached_prev is ever evaluated.
THEOREM UsageIsRecent == Spec => []UsageIsOfLastInterval
<1>1. Inv => UsageIsOfLastInterval
  BY DEF Inv, UsageInv, UsageIsOfLastInterval
<1>2. QED
  BY <1>1, InvAlways, PTL

\* cpu_get_usage returns a usage that cpu_update_cache published, or 0 or -1, for
\* every interleaving of the two threads and both orders of its last two stores.
THEOREM AnswersArePublished == Spec => []ClientSeesPublished
<1>1. Inv => ClientSeesPublished
  BY DEF Inv
<1>2. QED
  BY <1>1, InvAlways, PTL

-----------------------------------------------------------------------------
(* How long it takes: an invariant on top of Inv. *)

\* How many seconds the thread has used without a failure, while there is no
\* usage. It wakes in every second.
Seconds == woke - StartTime - faults

TimeInv ==
  /\ now <= woke + 1
  /\ ~valid =>
       /\ thread = "warm" => Seconds <= 0
       /\ thread = "sleep" => Seconds <= IF initialized THEN 2 ELSE 1
       /\ thread = "update" => Seconds <= IF initialized THEN 3 ELSE 2
       /\ thread \in {"first", "flag"} => Seconds <= 2
       /\ thread = "sample" => Seconds <= 3

LEMMA TimeInit == Init => TimeInv
  BY TimeAssumption DEF Init, TimeInv, Seconds

LEMMA TimeNext == Inv /\ TimeInv /\ [Next]_vars => TimeInv'
<1> SUFFICES ASSUME Inv, TimeInv, [Next]_vars PROVE TimeInv'
  OBVIOUS
<1>1. now \in Int /\ woke \in Int /\ faults \in Int /\ StartTime \in Int /\ woke <= now
  BY TimeAssumption, FaultsAssumption DEF Inv, TypeOK
<1>2. ASSUME NEW busy \in BOOLEAN, Tick(busy) PROVE TimeInv'
  BY <1>1, <1>2 DEF Tick, cache, TimeInv, Seconds
<1>3. CASE WarmUp
  BY <1>1, <1>3 DEF WarmUp, Fault, clock, cache, TimeInv, Seconds
<1>4. CASE Wake
  BY <1>1, <1>4 DEF Wake, clock, cache, TimeInv, Seconds
<1>5. CASE Update
  BY <1>1, <1>5 DEF Update, clock, TimeInv, Seconds
<1>6. CASE FirstSample \/ FlagInitialized
  BY <1>1, <1>6 DEF FirstSample, FlagInitialized, clock, TimeInv, Seconds
<1>7. CASE TakeSample
  BY <1>1, <1>7 DEF TakeSample, clock, TimeInv, Seconds
<1>8. CASE SampleFails
  BY <1>1, <1>8 DEF SampleFails, Fault, clock, cache, TimeInv, Seconds, Inv, RaceInv
<1>9. CASE Publish \/ PublishRest
  BY <1>1, <1>9 DEF Publish, PublishRest, clock, TimeInv, Seconds
<1>10. CASE GetUsage \/ Ask \/ Show
  BY <1>1, <1>10 DEF GetUsage, Ask, Show, clock, cache, TimeInv, Seconds
<1>11. CASE GetFirstSample
  BY <1>1, <1>11 DEF GetFirstSample, clock, TimeInv, Seconds
<1>12. CASE GetFails
  BY <1>1, <1>12 DEF GetFails, Fault, clock, cache, TimeInv, Seconds
<1>13. CASE GetFlagInitialized
  BY <1>1, <1>13 DEF GetFlagInitialized, clock, TimeInv, Seconds
<1>14. CASE UNCHANGED vars
  BY <1>14 DEF vars, clock, cache, TimeInv, Seconds
<1>15. QED
  BY <1>2, <1>3, <1>4, <1>5, <1>6, <1>7, <1>8, <1>9, <1>10, <1>11, <1>12, <1>13, <1>14
     DEF Next, Monitor, Loop

\* A usage is there in the third second after the start and one second later for
\* every read that failed: it does not matter which thread initialises the cache,
\* nor at which step of the other.
THEOREM UsageIsInTime == Spec => []UsageComesInTime
<1>1. Inv /\ TimeInv => UsageComesInTime
  <2> SUFFICES ASSUME Inv, TimeInv PROVE UsageComesInTime
    OBVIOUS
  <2>1. woke \in Int /\ faults \in Int /\ StartTime \in Int
    BY TimeAssumption, FaultsAssumption DEF Inv, TypeOK
  <2>2. QED
    BY <2>1 DEF TimeInv, Seconds, UsageComesInTime
<1>2. Spec => []TimeInv
  BY TimeInit, TimeNext, InvAlways, PTL DEF Spec
<1>3. QED
  BY <1>1, <1>2, InvAlways, PTL

=============================================================================

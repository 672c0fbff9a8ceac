------------------------------ MODULE CpuUsage ------------------------------
(***************************************************************************)
(* The CPU usage cache of cpu.c and the two threads that share it without  *)
(* a lock: the monitor thread of main.c, which updates it once a second,   *)
(* and the event loop, which reads it for a client and, while nobody has   *)
(* initialised it, writes it too.                                          *)
(*                                                                         *)
(* Time is in seconds since boot, and the processor is idle or busy for a  *)
(* whole second. A read of /proc/stat may fail.                            *)
(***************************************************************************)
EXTENDS Integers, FiniteSets

CONSTANTS
  StartTime,  \* when the server starts
  MaxTime,    \* bound on the time
  MaxFaults   \* bound on the reads and tools that fail

ASSUME TimeAssumption   == MaxTime \in Nat /\ StartTime \in 1 .. MaxTime
ASSUME FaultsAssumption == MaxFaults \in Nat

VARIABLES
  now, idle,    \* seconds since boot, and how many of them were idle
  prev, curr,   \* cached_prev, cached_curr
  usage,        \* cached_usage
  valid,        \* cache_valid
  initialized,  \* cache_initialized
  thread,       \* where the monitor thread stands
  woke,         \* when it last woke from sleep(1)
  getting,      \* where the event loop stands in cpu_get_usage
  answer,       \* what cpu_get_usage has returned
  faults,       \* counted against the bound
  (* history *)
  before,       \* the last sample of an update but one
  published     \* every usage that was published

clock  == <<now, idle>>
cache  == <<prev, curr, usage, valid, initialized>>
vars   == <<clock, cache, thread, woke, getting, answer, faults, before, published>>

Sample == [total : 0 .. MaxTime, idle : 0 .. MaxTime]
Zero   == [total |-> 0, idle |-> 0]
Stat   == [total |-> now, idle |-> idle]   \* /proc/stat

Init ==
  /\ now = StartTime /\ idle \in 0 .. StartTime
  /\ prev = Zero /\ curr = Zero
  /\ usage = 0 /\ valid = FALSE /\ initialized = FALSE
  /\ thread = "warm" /\ woke = now
  /\ getting = "idle" /\ answer = 0
  /\ faults = 0
  /\ before = Zero /\ published = {}

\* cpu_calculate_usage, in whole percent. The differences are of unsigned
\* numbers, and the result is cut to 0 .. 100.
Clamp(percent) == IF percent < 0 THEN 0 ELSE IF percent > 100 THEN 100 ELSE percent
Calculate(from, to) ==
  IF to.total = from.total THEN 0
  ELSE Clamp((100 * ((to.total - from.total) - (to.idle - from.idle)))
               \div (to.total - from.total))

-----------------------------------------------------------------------------
(* The clock. Less than a second passes inside cpu_update_cache and inside *)
(* cpu_get_usage, each of which reads one line of /proc/stat at most.      *)

Quick == thread \in {"warm", "sleep"} /\ getting \in {"idle", "done"}

Tick(busy) ==
  /\ now < MaxTime
  /\ Quick
  /\ woke = now
  /\ now' = now + 1
  /\ idle' = IF busy THEN idle ELSE idle + 1
  /\ UNCHANGED <<cache, thread, woke, getting, answer, faults, before, published>>

Fault == faults < MaxFaults /\ faults' = faults + 1

-----------------------------------------------------------------------------
(* cpu_monitor_thread: sleep(1), then cpu_update_cache, for ever.          *)

\* What it samples before its loop is thrown away; the second sample, and with
\* it the second of sleep, is left out when the first has failed.
WarmUp ==
  /\ thread = "warm"
  /\ thread' = "sleep"
  /\ \/ woke < now /\ woke' = now /\ UNCHANGED faults
     \/ woke = now /\ Fault /\ UNCHANGED woke
  /\ UNCHANGED <<clock, cache, getting, answer, before, published>>

Wake ==
  /\ thread = "sleep" /\ woke < now
  /\ woke' = now
  /\ thread' = "update"
  /\ UNCHANGED <<clock, cache, getting, answer, faults, before, published>>

Update ==
  /\ thread = "update"
  /\ IF initialized
       THEN thread' = "sample" /\ prev' = curr
       ELSE thread' = "first" /\ UNCHANGED prev
  /\ UNCHANGED <<clock, curr, usage, valid, initialized, woke, getting, answer,
                 faults, before, published>>

FirstSample ==
  /\ thread = "first"
  /\ prev' = Stat
  /\ thread' = "flag"
  /\ UNCHANGED <<clock, curr, usage, valid, initialized, woke, getting, answer,
                 faults, before, published>>

FlagInitialized ==
  /\ thread = "flag"
  /\ initialized' = TRUE
  /\ thread' = "sleep"
  /\ UNCHANGED <<clock, prev, curr, usage, valid, woke, getting, answer, faults,
                 before, published>>

TakeSample ==
  /\ thread = "sample"
  /\ before' = curr
  /\ curr' = Stat
  /\ thread' = "publish"
  /\ UNCHANGED <<clock, prev, usage, valid, initialized, woke, getting, answer,
                 faults, published>>

SampleFailsStored ==
  /\ thread \in {"first", "sample"}
  /\ Fault
  /\ usage' = -1
  /\ thread' = "sleep"
  /\ UNCHANGED <<clock, prev, curr, valid, initialized, woke, getting, answer, before,
                 published>>
SampleFailsStartingOver ==
  /\ thread \in {"first", "sample"}
  /\ Fault
  /\ initialized' = FALSE
  /\ thread' = "sleep"
  /\ UNCHANGED <<clock, prev, curr, usage, valid, woke, getting, answer, before,
                 published>>
SampleFails ==
  /\ thread \in {"first", "sample"}
  /\ Fault
  /\ thread' = "sleep"
  /\ UNCHANGED <<clock, cache, woke, getting, answer, before, published>>

\* The last two statements, two stores to unrelated variables: nothing orders
\* them for the other thread, so either may be seen first.
Publish ==
  /\ thread = "publish"
  /\ \/ usage' = Calculate(prev, curr) /\ thread' = "publish_flag" /\ UNCHANGED valid
     \/ valid' = TRUE /\ thread' = "publish_usage" /\ UNCHANGED usage
  /\ published' = published \cup {Calculate(prev, curr)}
  /\ UNCHANGED <<clock, prev, curr, initialized, woke, getting, answer, faults, before>>

PublishRest ==
  /\ thread \in {"publish_flag", "publish_usage"}
  /\ usage' = IF thread = "publish_usage" THEN Calculate(prev, curr) ELSE usage
  /\ valid' = TRUE
  /\ thread' = "sleep"
  /\ UNCHANGED <<clock, prev, curr, initialized, woke, getting, answer, faults,
                 before, published>>

Monitor ==
  \/ WarmUp \/ Wake \/ Update
  \/ FirstSample \/ FlagInitialized
  \/ TakeSample \/ SampleFails
  \/ Publish \/ PublishRest

-----------------------------------------------------------------------------
(* cpu_get_usage, on the event loop. *)

Return(value) == getting' = "done" /\ answer' = value

GetUsageFresh ==
  /\ getting = "check"
  /\ Return(IF valid THEN Calculate(prev, curr) ELSE 0)
  /\ UNCHANGED <<clock, cache, thread, woke, faults, before, published>>
GetUsageAlwaysInitializes ==
  /\ getting = "check"
  /\ IF valid THEN Return(usage) ELSE getting' = "read" /\ UNCHANGED answer
  /\ UNCHANGED <<clock, cache, thread, woke, faults, before, published>>
GetUsage ==
  /\ getting = "check"
  /\ IF valid \/ initialized
       THEN Return(usage)
       ELSE getting' = "read" /\ UNCHANGED answer
  /\ UNCHANGED <<clock, cache, thread, woke, faults, before, published>>

GetFirstSample ==
  /\ getting = "read"
  /\ prev' = Stat
  /\ getting' = "flag"
  /\ UNCHANGED <<clock, curr, usage, valid, initialized, thread, woke, answer,
                 faults, before, published>>

GetFails ==
  /\ getting = "read"
  /\ Fault
  /\ Return(-1)
  /\ UNCHANGED <<clock, cache, thread, woke, before, published>>

GetFlagInitialized ==
  /\ getting = "flag"
  /\ initialized' = TRUE
  /\ Return(0)
  /\ UNCHANGED <<clock, prev, curr, usage, valid, thread, woke, faults, before,
                 published>>

\* handle_cpu, and handle_system_info_complete among its other parts; both show
\* what came back, the one a failure as 500 and the other as 0.
Ask ==
  /\ getting = "idle"
  /\ getting' = "check"
  /\ UNCHANGED <<clock, cache, thread, woke, answer, faults, before, published>>
Show ==
  /\ getting = "done"
  /\ getting' = "idle" /\ answer' = 0
  /\ UNCHANGED <<clock, cache, thread, woke, faults, before, published>>

Loop ==
  \/ Ask \/ Show
  \/ GetUsage
  \/ GetFirstSample \/ GetFails \/ GetFlagInitialized

Next == Monitor \/ Loop \/ \E busy \in BOOLEAN : Tick(busy)

Spec == Init /\ [][Next]_vars

-----------------------------------------------------------------------------
TypeOK ==
  /\ now \in StartTime .. MaxTime /\ idle \in 0 .. now
  /\ {prev, curr, before} \subseteq Sample
  /\ usage \in 0 .. 100
  /\ {valid, initialized} \subseteq BOOLEAN
  /\ thread \in {"warm", "sleep", "update", "first", "flag", "sample", "publish",
                 "publish_flag", "publish_usage"}
  /\ woke \in StartTime .. now
  /\ getting \in {"idle", "check", "read", "flag", "done"}
  /\ answer \in -1 .. 100
  /\ faults \in 0 .. MaxFaults
  /\ published \subseteq 0 .. 100

\* A usage that is published is the load between the last two samples of the
\* monitor thread, with nothing lost to reads that failed in between and nothing
\* mixed in from the event loop. The first has no sample before it and is the
\* load since boot.
UsageIsOfLastInterval ==
  valid /\ thread = "sleep" => usage = Calculate(before, curr)

\* A client is told no usage that was never published, however the two threads
\* interleave: 0 stands for none yet, -1 for a failed read.
ClientSeesPublished ==
  getting = "done" => answer \in published \cup {0, -1}

\* A usage is there three seconds after the start, and one second later for every
\* read that has failed, whoever has initialised the cache.
UsageComesInTime ==
  thread = "sleep" /\ woke >= StartTime + 3 + faults => valid

=============================================================================

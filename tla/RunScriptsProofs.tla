-------------------------- MODULE RunScriptsProofs --------------------------
(***************************************************************************)
(* What the benchmark scripts report and where apu_se.py stops, for any    *)
(* set of scripts, any end of time, any drain and any number of exit       *)
(* events.                                                                 *)
(***************************************************************************)
EXTENDS RunScripts, TLAPS, SequenceTheorems, FiniteSetTheorems

Calls   == {"boot", "region", "logs", "check", "simulate", "simulate_last",
            "handle", "simulate_fs"}
Cpus    == {"kvm", "timing"}
Periods == [from : Nat, to : Nat, cpu : Cpus, cause : Causes]
Intervals == [from : Nat, to : Nat]

TypeOK ==
  /\ script \in Scripts
  /\ pc \in Calls \cup Final
  /\ curTick \in Nat /\ guest \in Nat
  /\ cpu \in Cpus /\ exit \in Causes
  /\ since \in Nat /\ start_tick \in Nat /\ end_tick \in Nat
  /\ insts \in Intervals
  /\ dumps \in Seq(Intervals)
  /\ periods \in Seq(Periods)

-----------------------------------------------------------------------------
(* The benchmarks.  The first call ends where the region begins, the       *)
(* second where it ends; "logs" and "done" come after both.                *)

RegionBegan ==
  /\ periods[1].cause = Benchmark.begin
  /\ start_tick = periods[1].to

RegionEnded ==
  /\ Len(periods) >= 2
  /\ RegionBegan
  /\ periods[2].cause \in Benchmark.ends
  /\ periods[2].cpu = "timing"
  /\ periods[2].from - periods[1].to <= MaxDrain
  /\ dumps # <<>>
  /\ dumps[1] = Interval(periods[1].to, periods[2].to)
  /\ insts = dumps[1]

InRegions == pc \in {"boot", "region", "logs"} \cup Final

Measured ==
  script.kind \in Regions =>
    /\ InRegions
    /\ pc = "boot" => periods = <<>> /\ dumps = <<>>
    /\ pc = "region" =>
         /\ Len(periods) = 1 /\ RegionBegan
         /\ dumps = <<>> /\ since = start_tick /\ cpu = "timing"
         /\ curTick - since <= MaxDrain
    /\ pc = "logs" => Len(periods) = 2 /\ RegionEnded /\ end_tick = insts.to
    /\ ReportOfRegion

\* The calls of the other scripts are their own.
Apart ==
  /\ pc \in {"simulate", "simulate_last", "check"} => script.kind = "apu_se"
  /\ pc = "simulate_fs" => script.kind \in {"gpufs", "arm"}
  /\ pc = "handle" => script.kind \notin Regions
  /\ pc \in {"region", "logs"} => script.kind \in Regions
  /\ pc = "logs" => Benchmark.logs

\* The calls among the first n of ps that apu_se.py dumps, and those that an
\* Arm script answers; and that the notes taken of them are in order.
Detailed(ps, n) ==
  {k \in 1 .. n : ps[k].cpu = "timing" /\ ps[k].cause = "switchcpu"}
Dumped(ps, ds, n) ==
  /\ Len(ds) = Cardinality(Detailed(ps, n))
  /\ \A k \in Detailed(ps, n) :
       ds[Rank(Detailed(ps, n), k)] = Interval(ps[k].from, ps[k].to)

Requests(ps, n) == {k \in 1 .. n : ps[k].cause = "checkpoint"}
Written(ps, cs, n) ==
  /\ Len(cs) = Cardinality(Requests(ps, n))
  /\ \A k \in Requests(ps, n) : cs[Rank(Requests(ps, n), k)].name = ps[k].to

\* The call not handled yet is the last one, if there is any.
Handled == IF pc = "handle" THEN Len(periods) - 1 ELSE Len(periods)

\* apu_se.py that switches on request: the statistics were reset where the
\* next call, or the one not handled yet, begins.
Switching ==
  script.kind = "apu_se" /\ script.fast_forward = "pseudo_op" =>
    /\ pc \in {"check", "simulate", "handle"} \cup Final
    /\ pc \in {"check", "simulate"} => since = curTick
    /\ pc = "handle" =>
         /\ Len(periods) > 0
         /\ periods[Len(periods)] =
              [from |-> since, to |-> curTick, cpu |-> cpu, cause |-> exit]
    /\ Dumped(periods, dumps, Handled)

CptTypes == [name : Nat, tick : Nat]

\* The Arm scripts: a request waits from the end of its call.
Answering ==
  script.kind = "arm" =>
    /\ pc \in {"simulate_fs", "handle", "done"}
    /\ cpts \in Seq(CptTypes)
    /\ pc = "handle" =>
         /\ Len(periods) > 0
         /\ periods[Len(periods)].to = curTick
         /\ periods[Len(periods)].cause = exit
    /\ Written(periods, cpts, Handled)

IInv == /\ TypeOK /\ Apart /\ Measured /\ ApuStopsAtMaxTick
        /\ Switching /\ Answering

-----------------------------------------------------------------------------
(* The simulator: where a call may end.                                    *)

LEMMA ExitsWithin ==
  ASSUME TypeOK, NEW d \in Nat, NEW e \in Exits(d)
  PROVE  /\ e.cause \in Causes /\ e.tick \in Nat /\ e.guest \in Nat
         /\ e.tick <= curTick + d
<1> USE RunScriptsAssumption DEF TypeOK
<1> DEFINE end == Least(curTick + d, MaxTick)
<1>1. end \in Nat /\ end <= curTick + d
  BY SMT DEF Least
<1>2. CASE e \in [cause : {"limit"}, tick : {end}, guest : {guest}]
  BY <1>1, <1>2 DEF Causes
<1>3. CASE guest # 0 /\ e \in [cause : GuestCauses, tick : curTick .. end,
                              guest : {guest - 1}]
  BY <1>1, <1>3 DEF Causes
<1>4. CASE e \in [cause : {"max_insts"}, tick : curTick .. end, guest : {guest}]
  BY <1>1, <1>4 DEF Causes
<1> QED
  BY <1>2, <1>3, <1>4 DEF Exits

LEMMA SimulatedTypes ==
  ASSUME TypeOK, NEW d \in Nat, NEW e \in Exits(d), Simulated(e)
  PROVE  /\ exit' \in Causes /\ guest' \in Nat
         /\ periods' \in Seq(Periods)
         /\ Len(periods') = Len(periods) + 1
         /\ \A k \in 1 .. Len(periods) : periods'[k] = periods[k]
         /\ periods'[Len(periods')] =
              [from |-> curTick, to |-> e.tick, cpu |-> cpu, cause |-> e.cause]
<1>1. /\ e.cause \in Causes /\ e.tick \in Nat /\ e.guest \in Nat
  BY ExitsWithin
<1>2. [from |-> curTick, to |-> e.tick, cpu |-> cpu, cause |-> e.cause] \in Periods
  BY <1>1 DEF TypeOK, Periods
<1> QED
  BY <1>1, <1>2, SMT DEF Simulated, TypeOK

LEMMA DrainedWithin ==
  ASSUME NEW t \in Nat, NEW u \in Drained(t)
  PROVE  u \in Nat /\ u - t <= MaxDrain
BY RunScriptsAssumption, SMT DEF Drained, Least

\* How long each script simulates at most.
LEMMA Durations ==
  ASSUME TypeOK
  PROVE  MaxTick \in Nat /\ RegionTicks \in Nat /\ FullSystemTicks \in Nat
         /\ ApuMaxTick \in Nat /\ ApuTicks \in Int
<1>1. script.ticks \in Nat \cup {None}
  BY RunScriptsAssumption DEF TypeOK, ScriptTypes
<1> QED
  BY <1>1, RunScriptsAssumption, SMT
     DEF TypeOK, None, RegionTicks, FullSystemTicks, ApuMaxTick, ApuTicks

-----------------------------------------------------------------------------
(* Types.                                                                  *)

LEMMA InitTypes == Init => TypeOK
<1> SUFFICES ASSUME Init PROVE TypeOK
  OBVIOUS
<1>1. script.restored \in Nat /\ script.kind \in Kinds
  BY RunScriptsAssumption DEF Init, ScriptTypes
<1>2. pc \in Calls \cup Final
  BY <1>1 DEF Init, FirstCall, Calls, Final, Kinds, Regions
<1>3. cpu \in Cpus
  BY DEF Init, FirstCpu, Cpus
<1>4. curTick \in Nat /\ guest \in Nat
  BY <1>1, RunScriptsAssumption DEF Init
<1> QED
  BY <1>2, <1>3, <1>4 DEF Init, TypeOK, Causes, Interval, Intervals

\* Where e ends a call, the ticks stay numbers and the interval a statistic.
LEMMA CallTypes ==
  ASSUME TypeOK, NEW d \in Nat, NEW e \in Exits(d)
  PROVE  Interval(since, e.tick) \in Intervals
BY ExitsWithin DEF TypeOK, Interval, Intervals

LEMMA NextTypes == TypeOK /\ [Next]_vars => TypeOK'
<1> SUFFICES ASSUME TypeOK, [Next]_vars PROVE TypeOK'
  OBVIOUS
<1> USE DEF Unchecked
<1>d. MaxTick \in Nat /\ RegionTicks \in Nat /\ FullSystemTicks \in Nat
      /\ ApuMaxTick \in Nat /\ ApuTicks \in Int
  BY Durations
<1>1. CASE Boot
  <2>1. PICK e \in Exits(MaxTick) :
          /\ Simulated(e) /\ UNCHANGED insts
          /\ \/ /\ since' = e.tick /\ start_tick' = e.tick
                /\ curTick' \in Drained(e.tick)
                /\ cpu' = "timing" /\ pc' = "region"
                /\ UNCHANGED <<script, dumps, end_tick>>
             \/ Fail(e)
    BY <1>1 DEF Boot
  <2>2. e.tick \in Nat
    BY <2>1, <1>d, ExitsWithin
  <2>3. exit' \in Causes /\ guest' \in Nat /\ periods' \in Seq(Periods)
    BY <2>1, <1>d, SimulatedTypes
  <2>4. \A u \in Drained(e.tick) : u \in Nat
    BY <2>2, DrainedWithin
  <2> QED
    BY <2>1, <2>2, <2>3, <2>4 DEF TypeOK, Fail, Calls, Final, Cpus
<1>2. CASE Region
  <2>1. PICK e \in Exits(RegionTicks) :
          /\ Simulated(e)
          /\ \/ /\ insts' = Interval(since, e.tick)
                /\ dumps' = Append(dumps, Interval(since, e.tick))
                /\ since' \in {e.tick, since}
                /\ end_tick' = e.tick /\ curTick' = e.tick
                /\ pc' \in {"logs", "done"}
                /\ UNCHANGED <<script, cpu, start_tick>>
             \/ insts' \in {Interval(since, e.tick), insts} /\ Fail(e)
    BY <1>2 DEF Region
  <2>2. e.tick \in Nat
    BY <2>1, <1>d, ExitsWithin
  <2>3. exit' \in Causes /\ guest' \in Nat /\ periods' \in Seq(Periods)
    BY <2>1, <1>d, SimulatedTypes
  <2>4. Interval(since, e.tick) \in Intervals
    BY <1>d, CallTypes
  <2>5. dumps' \in Seq(Intervals) /\ insts' \in Intervals
    <3>1. dumps' = dumps \/ dumps' = Append(dumps, Interval(since, e.tick))
      BY <2>1 DEF Fail
    <3>2. insts' \in {Interval(since, e.tick), insts}
      BY <2>1 DEF Fail
    <3>3. dumps \in Seq(Intervals) /\ insts \in Intervals
      BY DEF TypeOK
    <3> QED
      BY <2>4, <3>1, <3>2, <3>3, AppendProperties
  <2> QED
    BY <2>1, <2>2, <2>3, <2>5 DEF TypeOK, Fail, Calls, Final, Cpus
<1>3. CASE CopyLogs
  <2>1. PICK e \in Exits(MaxTick) :
          /\ Simulated(e) /\ UNCHANGED insts
          /\ \/ /\ dumps' = Append(dumps, Interval(since, e.tick))
                /\ since' = e.tick /\ end_tick' = e.tick
                /\ curTick' = e.tick /\ pc' = "done"
                /\ UNCHANGED <<script, cpu, start_tick>>
             \/ /\ curTick' = e.tick /\ pc' = "done"
                /\ UNCHANGED <<script, cpu, since, dumps, start_tick, end_tick>>
             \/ Fail(e)
    BY <1>3 DEF CopyLogs
  <2>2. e.tick \in Nat
    BY <2>1, <1>d, ExitsWithin
  <2>3. exit' \in Causes /\ guest' \in Nat /\ periods' \in Seq(Periods)
    BY <2>1, <1>d, SimulatedTypes
  <2>4. Interval(since, e.tick) \in Intervals
    BY <1>d, CallTypes
  <2>5. dumps' \in Seq(Intervals)
    <3>1. dumps' = dumps \/ dumps' = Append(dumps, Interval(since, e.tick))
      BY <2>1 DEF Fail
    <3>2. dumps \in Seq(Intervals)
      BY DEF TypeOK
    <3> QED
      BY <2>4, <3>1, <3>2, AppendProperties
  <2> QED
    BY <2>1, <2>2, <2>3, <2>5 DEF TypeOK, Fail, Calls, Final, Cpus
<1>4. CASE BootUbuntu
  <2>1. PICK e \in Exits(MaxTick) : Simulated(e) /\ curTick' = e.tick
    BY <1>4 DEF BootUbuntu
  <2>2. e.tick \in Nat /\ exit' \in Causes /\ guest' \in Nat
        /\ periods' \in Seq(Periods)
    BY <2>1, <1>d, ExitsWithin, SimulatedTypes
  <2> QED
    BY <1>4, <2>1, <2>2 DEF BootUbuntu, TypeOK, Final
<1>5. CASE ApuSimulate
  <2>1. CASE pc' = "failed" /\ Unchecked
    BY <2>1 DEF TypeOK, Final
  <2>2. CASE \E e \in Exits(ApuTicks) : ApuTicks >= 0 /\ Simulated(e) /\ curTick' = e.tick
    <3>1. PICK e \in Exits(ApuTicks) :
            ApuTicks >= 0 /\ Simulated(e) /\ curTick' = e.tick
      BY <2>2
    <3>2. ApuTicks \in Nat
      BY <3>1, <1>d
    <3>3. e.tick \in Nat /\ exit' \in Causes /\ guest' \in Nat
          /\ periods' \in Seq(Periods)
      BY <3>1, <3>2, ExitsWithin, SimulatedTypes
    <3>4. CASE pc' = "failed" /\ Unchecked
      BY <3>4 DEF TypeOK, Final
    <3>5. CASE ~(pc' = "failed" /\ Unchecked)
      BY <1>5, <3>1, <3>3, <3>5 DEF ApuSimulate, TypeOK, Calls, Final
    <3> QED
      BY <3>4, <3>5
  <2> QED
    BY <1>5, <2>1, <2>2 DEF ApuSimulate
<1>6. CASE FullSystemRun
  <2>1. PICK e \in Exits(FullSystemTicks) : Simulated(e) /\ curTick' = e.tick
    BY <1>6 DEF FullSystemRun
  <2>2. e.tick \in Nat /\ exit' \in Causes /\ guest' \in Nat
        /\ periods' \in Seq(Periods)
    BY <2>1, <1>d, ExitsWithin, SimulatedTypes
  <2> QED
    BY <1>6, <2>1, <2>2 DEF FullSystemRun, TypeOK, Calls
<1>7. CASE ApuSwitch
  <2>1. curTick' \in Nat
    BY <1>7, DrainedWithin DEF ApuSwitch, TypeOK
  <2>i. Interval(since, curTick) \in Intervals
    BY DEF TypeOK, Interval, Intervals
  <2>2. dumps' \in Seq(Intervals)
    BY <1>7, <2>i DEF ApuSwitch, TypeOK
  <2> QED
    BY <1>7, <2>1, <2>2 DEF ApuSwitch, TypeOK, Calls, Cpus
<1>8. CASE ApuCheck \/ ApuEnd \/ GpuEnd \/ GpuContinue
  BY <1>8 DEF ApuCheck, ApuEnd, GpuEnd, GpuContinue, TypeOK, Calls, Final
<1>9. CASE GpuCheckpoint \/ ArmHandle
  <2>1. curTick' = curTick \/ curTick' \in Drained(curTick)
    BY <1>9 DEF GpuCheckpoint, ArmHandle, WriteCheckpoint
  <2>2. curTick' \in Nat
    BY <2>1, DrainedWithin DEF TypeOK
  <2> QED
    BY <1>9, <2>2 DEF GpuCheckpoint, ArmHandle, WriteCheckpoint, TypeOK, Calls, Final
<1>10. CASE UNCHANGED vars
  BY <1>10 DEF vars, TypeOK
<1> QED
  BY <1>1, <1>2, <1>3, <1>4, <1>5, <1>6, <1>7, <1>8, <1>9, <1>10 DEF Next

-----------------------------------------------------------------------------
(* Which script makes which call.                                          *)

LEMMA ScriptKept == [Next]_vars => script' = script
BY DEF Next, vars, Boot, Region, CopyLogs, BootUbuntu, ApuCheck, ApuSimulate,
       ApuSwitch, ApuEnd, FullSystemRun, GpuEnd, GpuCheckpoint, GpuContinue,
       ArmHandle, Unchecked, Fail

LEMMA BenchmarkKept == script' = script => Benchmark' = Benchmark
BY DEF Benchmark, Parsec, Gapbs, Npb, Spec2006, Spec2017, Spec_CPU, Work

\* Only the scripts that copy logs set end_tick again.
LEMMA BenchmarkFields ==
  ASSUME script.kind \in Regions
  PROVE  Benchmark.sets_end => Benchmark.logs
BY DEF Regions, Benchmark, Parsec, Gapbs, Npb, Spec2006, Spec2017, Spec_CPU, Work

LEMMA InitApart == Init => Apart
<1> SUFFICES ASSUME Init PROVE Apart
  OBVIOUS
<1>1. script.kind \in Kinds
  BY RunScriptsAssumption DEF Init, ScriptTypes
<1> QED
  BY <1>1 DEF Init, Apart, FirstCall, Kinds, Regions

LEMMA NextApart == Apart /\ [Next]_vars => Apart'
<1> SUFFICES ASSUME Apart, [Next]_vars PROVE Apart'
  OBVIOUS
<1>1. script' = script /\ Benchmark' = Benchmark
  BY ScriptKept, BenchmarkKept
<1> USE <1>1 DEF Apart, Unchecked
<1>2. CASE Boot
  BY <1>2 DEF Boot, Fail
<1>3. CASE Region
  BY <1>3 DEF Region, Fail
<1>4. CASE CopyLogs
  BY <1>4 DEF CopyLogs, Fail
<1>5. CASE BootUbuntu
  BY <1>5 DEF BootUbuntu
<1>6. CASE ApuSimulate
  BY <1>6 DEF ApuSimulate, Regions
<1>7. CASE ApuCheck \/ ApuSwitch \/ ApuEnd
  BY <1>7 DEF ApuCheck, ApuSwitch, ApuEnd
<1>8. CASE FullSystemRun
  BY <1>8 DEF FullSystemRun, Regions
<1>9. CASE GpuEnd \/ GpuCheckpoint \/ GpuContinue \/ ArmHandle
  BY <1>9 DEF GpuEnd, GpuCheckpoint, GpuContinue, ArmHandle
<1>10. CASE UNCHANGED vars
  BY <1>10 DEF vars
<1> QED
  BY <1>2, <1>3, <1>4, <1>5, <1>6, <1>7, <1>8, <1>9, <1>10 DEF Next

-----------------------------------------------------------------------------
(* apu_se.py: a call simulates what is left of the limit.                  *)

LEMMA NextApu ==
  TypeOK /\ Apart /\ ApuStopsAtMaxTick /\ [Next]_vars => ApuStopsAtMaxTick'
<1> SUFFICES ASSUME TypeOK, Apart, ApuStopsAtMaxTick, [Next]_vars,
                    script'.kind = "apu_se"
             PROVE  \A k \in 1 .. Len(periods') : periods'[k].to <= ApuMaxTick'
  BY DEF ApuStopsAtMaxTick
<1>1. script' = script /\ script.kind = "apu_se"
  BY ScriptKept
<1>2. ApuMaxTick' = ApuMaxTick
  BY <1>1 DEF ApuMaxTick
<1>3. ApuMaxTick \in Nat /\ ApuTicks \in Int
  BY Durations
<1>4. CASE periods' = periods
  BY <1>1, <1>2, <1>4 DEF ApuStopsAtMaxTick
<1>5. CASE \E e \in Exits(ApuTicks) : ApuTicks >= 0 /\ Simulated(e)
  <2>1. PICK e \in Exits(ApuTicks) : ApuTicks >= 0 /\ Simulated(e)
    BY <1>5
  <2>2. ApuTicks \in Nat
    BY <2>1, <1>3
  <2>3. e.tick \in Nat /\ e.tick <= curTick + ApuTicks
    BY <2>1, <2>2, ExitsWithin
  <2>4. e.tick <= ApuMaxTick
    BY <2>3, <1>3 DEF ApuTicks, TypeOK
  <2>5. /\ Len(periods') = Len(periods) + 1
        /\ \A k \in 1 .. Len(periods) : periods'[k] = periods[k]
        /\ periods'[Len(periods')] =
             [from |-> curTick, to |-> e.tick, cpu |-> cpu, cause |-> e.cause]
    BY <2>1, <2>2, SimulatedTypes
  <2>6. Len(periods) \in Nat
    BY DEF TypeOK
  <2>7. ASSUME NEW k \in 1 .. Len(periods') PROVE periods'[k].to <= ApuMaxTick'
    <3>1. CASE k \in 1 .. Len(periods)
      BY <3>1, <2>5, <1>1, <1>2 DEF ApuStopsAtMaxTick
    <3>2. CASE k = Len(periods')
      BY <3>2, <2>4, <2>5, <1>2
    <3> QED
      BY <3>1, <3>2, <2>5, <2>6
  <2> QED
    BY <2>7
<1>6. CASE ApuSimulate
  BY <1>4, <1>5, <1>6 DEF ApuSimulate, Unchecked
<1>7. ~Boot /\ ~Region /\ ~CopyLogs /\ ~BootUbuntu /\ ~FullSystemRun
  BY <1>1 DEF Boot, Region, CopyLogs, BootUbuntu, FullSystemRun, Apart, Regions
<1>8. ApuSimulate \/ periods' = periods
  BY <1>7 DEF Next, vars, ApuCheck, ApuSwitch, ApuEnd, GpuEnd, GpuCheckpoint,
              GpuContinue, ArmHandle, Unchecked
<1> QED
  BY <1>4, <1>6, <1>8

-----------------------------------------------------------------------------
(* The benchmarks, call by call.                                           *)

LEMMA InitMeasured == Init => Measured
<1> SUFFICES ASSUME Init, script.kind \in Regions PROVE Measured
  BY DEF Measured
<1>1. pc = "boot"
  BY DEF Init, FirstCall, Regions
<1> QED
  BY <1>1 DEF Init, Measured, ReportOfRegion, InRegions, Final

\* What ends the script without a report leaves what was dumped before.
LEMMA FailedBefore ==
  ASSUME script'.kind \in Regions, pc' = "failed", dumps' = <<>>
  PROVE  Measured'
BY DEF Measured, ReportOfRegion, InRegions, Final

LEMMA BootMeasured ==
  ASSUME TypeOK, Measured, Boot
  PROVE  Measured'
<1> SUFFICES ASSUME script.kind \in Regions PROVE Measured'
  BY ScriptKept DEF Next, Measured
<1>1. script' = script /\ Benchmark' = Benchmark
  BY ScriptKept, BenchmarkKept DEF Next
<1>2. periods = <<>> /\ dumps = <<>>
  BY DEF Boot, Measured
<1>3. PICK e \in Exits(MaxTick) :
        /\ Simulated(e) /\ UNCHANGED insts
        /\ \/ /\ e.cause = Benchmark.begin
              /\ since' = e.tick /\ start_tick' = e.tick
              /\ curTick' \in Drained(e.tick)
              /\ cpu' = "timing" /\ pc' = "region"
              /\ UNCHANGED dumps
           \/ Fail(e)
  BY DEF Boot
<1>4. CASE Fail(e)
  BY <1>1, <1>2, <1>4, FailedBefore DEF Fail
<1>5. CASE ~Fail(e)
  <2>1. MaxTick \in Nat /\ e.tick \in Nat
    BY ExitsWithin, Durations
  <2>2. /\ Len(periods') = 1
        /\ periods'[1] = [from |-> curTick, to |-> e.tick, cpu |-> cpu,
                          cause |-> e.cause]
    BY <1>2, <1>3, <2>1, SimulatedTypes
  <2>3. curTick' - since' <= MaxDrain
    BY <1>3, <1>5, <2>1, DrainedWithin
  <2> QED
    BY <1>1, <1>2, <1>3, <1>5, <2>2, <2>3
       DEF Measured, ReportOfRegion, RegionBegan, InRegions, Final
<1> QED
  BY <1>4, <1>5

LEMMA RegionMeasured ==
  ASSUME TypeOK, Measured, Region, script.kind \in Regions
  PROVE  Measured'
<1>1. script' = script /\ Benchmark' = Benchmark
  BY ScriptKept, BenchmarkKept DEF Next
<1>2. /\ Len(periods) = 1 /\ RegionBegan
      /\ dumps = <<>> /\ since = start_tick /\ cpu = "timing"
      /\ curTick - since <= MaxDrain
  BY DEF Region, Measured
<1>3. PICK e \in Exits(RegionTicks) :
        /\ Simulated(e)
        /\ \/ /\ e.cause \in Benchmark.ends
              /\ insts' = Interval(since, e.tick)
              /\ dumps' = Append(dumps, Interval(since, e.tick))
              /\ end_tick' = e.tick
              /\ pc' = IF Benchmark.logs THEN "logs" ELSE "done"
              /\ UNCHANGED start_tick
           \/ Fail(e)
  BY DEF Region
<1>4. CASE Fail(e)
  BY <1>1, <1>2, <1>4, FailedBefore DEF Fail
<1>5. CASE ~Fail(e)
  <2>1. RegionTicks \in Nat
    BY Durations
  <2>2. /\ Len(periods') = 2 /\ periods'[1] = periods[1]
        /\ periods'[2] = [from |-> curTick, to |-> e.tick, cpu |-> cpu,
                          cause |-> e.cause]
    BY <1>2, <1>3, <2>1, SimulatedTypes
  <2>3. dumps' = <<Interval(since, e.tick)>>
    BY <1>2, <1>3, <1>5
  <2>4. dumps' # <<>> /\ dumps'[1] = Interval(since, e.tick)
    BY <2>3
  <2>5. RegionEnded'
    BY <1>1, <1>2, <1>3, <1>5, <2>2, <2>4 DEF RegionEnded, RegionBegan
  <2>6. end_tick' = insts'.to /\ start_tick' = insts'.from
    BY <1>2, <1>3, <1>5 DEF Interval
  <2>7. ~Benchmark.logs => ~Benchmark.sets_end
    BY BenchmarkFields
  <2>8. ReportOfRegion'
    BY <1>1, <1>3, <1>5, <2>2, <2>5, <2>6, <2>7
       DEF ReportOfRegion, RegionEnded, RegionBegan
  <2> QED
    BY <1>1, <1>3, <1>5, <2>2, <2>5, <2>6, <2>8 DEF Measured, InRegions, Final
<1> QED
  BY <1>4, <1>5

LEMMA CopyLogsMeasured ==
  ASSUME TypeOK, Measured, CopyLogs, script.kind \in Regions
  PROVE  Measured'
<1>1. script' = script /\ Benchmark' = Benchmark
  BY ScriptKept, BenchmarkKept DEF Next
<1>2. Len(periods) = 2 /\ RegionEnded /\ end_tick = insts.to
  BY DEF CopyLogs, Measured
<1>3. PICK e \in Exits(MaxTick) :
        /\ Simulated(e) /\ UNCHANGED <<insts, start_tick>>
        /\ \/ /\ Benchmark.sets_end
              /\ dumps' = Append(dumps, Interval(since, e.tick))
              /\ end_tick' = e.tick /\ pc' = "done"
           \/ /\ ~Benchmark.sets_end /\ pc' = "done"
              /\ UNCHANGED <<dumps, end_tick>>
           \/ pc' = "failed" /\ UNCHANGED dumps
  BY DEF CopyLogs, Fail
<1>4. MaxTick \in Nat
  BY Durations
<1>5. /\ Len(periods') = 3
      /\ periods'[1] = periods[1] /\ periods'[2] = periods[2]
      /\ periods'[3].to = e.tick
  <2>1. /\ Len(periods') = Len(periods) + 1
        /\ \A k \in 1 .. Len(periods) : periods'[k] = periods[k]
        /\ periods'[Len(periods')] =
             [from |-> curTick, to |-> e.tick, cpu |-> cpu, cause |-> e.cause]
    BY <1>3, <1>4, SimulatedTypes
  <2>2. Len(periods) = 2
    BY <1>2
  <2> QED
    BY <2>1, <2>2
<1>6. Interval(since, e.tick) \in Intervals
  BY <1>4, CallTypes
<1>7. dumps' # <<>> /\ dumps'[1] = dumps[1]
  <2>1. dumps \in Seq(Intervals) /\ Len(dumps) > 0
    BY <1>2, EmptySeq, LenProperties DEF TypeOK, RegionEnded
  <2>2. Append(dumps, Interval(since, e.tick)) # <<>>
        /\ Append(dumps, Interval(since, e.tick))[1] = dumps[1]
    BY <1>6, <2>1, AppendProperties
  <2> QED
    BY <1>2, <1>3, <2>2 DEF RegionEnded
<1>8. RegionEnded'
  BY <1>1, <1>2, <1>3, <1>5, <1>7 DEF RegionEnded, RegionBegan
<1>9. start_tick' = insts'.from /\ insts' = Interval(periods[1].to, periods[2].to)
  BY <1>2, <1>3 DEF RegionEnded, RegionBegan, Interval
<1>10. pc' = "done" => end_tick' = IF Benchmark.sets_end THEN periods'[3].to
                                                        ELSE insts'.to
  BY <1>2, <1>3, <1>5
<1>11. ReportOfRegion'
  BY <1>1, <1>5, <1>8, <1>9, <1>10 DEF ReportOfRegion, RegionEnded, RegionBegan
<1> QED
  BY <1>1, <1>3, <1>11 DEF Measured, InRegions, Final

LEMMA NextMeasured == TypeOK /\ Apart /\ Measured /\ [Next]_vars => Measured'
<1> SUFFICES ASSUME TypeOK, Apart, Measured, [Next]_vars, script.kind \in Regions
             PROVE  Measured'
  BY ScriptKept DEF Measured
<1>1. CASE Boot
  BY <1>1, BootMeasured
<1>2. CASE Region
  BY <1>2, RegionMeasured
<1>3. CASE CopyLogs
  BY <1>3, CopyLogsMeasured
<1>4. CASE UNCHANGED vars
  BY <1>4, BenchmarkKept
     DEF vars, Measured, ReportOfRegion, RegionEnded, RegionBegan, InRegions, Final
<1>5. Boot \/ Region \/ CopyLogs \/ UNCHANGED vars
  <2>1. ~BootUbuntu
    BY DEF BootUbuntu, Regions
  <2>2. /\ ~ApuCheck /\ ~ApuSimulate /\ ~ApuSwitch /\ ~ApuEnd
        /\ ~FullSystemRun /\ ~GpuEnd /\ ~GpuCheckpoint /\ ~GpuContinue
        /\ ~ArmHandle
    BY DEF Apart, Regions, ApuCheck, ApuSimulate, ApuSwitch, ApuEnd,
           FullSystemRun, GpuEnd, GpuCheckpoint, GpuContinue, ArmHandle
  <2> QED
    BY <2>1, <2>2 DEF Next
<1> QED
  BY <1>1, <1>2, <1>3, <1>4, <1>5

-----------------------------------------------------------------------------
(* Ranks: what is noted of one more call leaves the ranks of the others.   *)

LEMMA RankWithin ==
  ASSUME NEW n \in Nat, NEW S \in SUBSET (1 .. n), NEW k \in S
  PROVE  Cardinality(S) \in Nat /\ Rank(S, k) \in 1 .. Cardinality(S)
<1> DEFINE Low == {j \in S : j <= k}
<1>1. IsFiniteSet(1 .. n)
  BY FS_Interval
<1>2. IsFiniteSet(S)
  BY <1>1, FS_Subset
<1>3. Low \subseteq S /\ k \in Low
  OBVIOUS
<1>4. IsFiniteSet(Low) /\ Cardinality(Low) <= Cardinality(S)
  BY <1>2, <1>3, FS_Subset
<1>5. Cardinality(Low) \in Nat /\ Cardinality(S) \in Nat
  BY <1>2, <1>4, FS_CardinalityType
<1>6. Cardinality(Low) # 0
  BY <1>3, <1>4, FS_EmptySet
<1> HIDE DEF Low
<1>7. Cardinality(Low) \in 1 .. Cardinality(S)
  BY <1>4, <1>5, <1>6
<1> QED
  BY <1>5, <1>7 DEF Rank, Low

LEMMA RankOfNext ==
  ASSUME NEW n \in Nat, NEW S \in SUBSET (1 .. n)
  PROVE  /\ Cardinality(S \cup {n + 1}) = Cardinality(S) + 1
         /\ Rank(S \cup {n + 1}, n + 1) = Cardinality(S) + 1
         /\ \A k \in S : Rank(S \cup {n + 1}, k) = Rank(S, k)
<1>1. IsFiniteSet(1 .. n)
  BY FS_Interval
<1>2. IsFiniteSet(S)
  BY <1>1, FS_Subset
<1>3. n + 1 \notin S
  BY n + 1 \notin 1 .. n
<1>4. Cardinality(S \cup {n + 1}) = Cardinality(S) + 1
  BY <1>2, <1>3, FS_AddElement
<1>5. {j \in S \cup {n + 1} : j <= n + 1} = S \cup {n + 1}
  BY \A j \in S \cup {n + 1} : j \in Int /\ j <= n + 1
<1>6. ASSUME NEW k \in S
      PROVE  {j \in S \cup {n + 1} : j <= k} = {j \in S : j <= k}
  OBVIOUS
<1> QED
  BY <1>4, <1>5, <1>6 DEF Rank

-----------------------------------------------------------------------------
(* apu_se.py, switching on request.                                        *)

\* A call that is appended leaves what was noted of those before it.
LEMMA EarlierDumped ==
  ASSUME NEW ps, NEW qs, NEW ds, NEW n \in Nat, Dumped(ps, ds, n),
         \A k \in 1 .. n : qs[k] = ps[k]
  PROVE  Dumped(qs, ds, n)
<1>1. Detailed(qs, n) = Detailed(ps, n)
  BY DEF Detailed
<1>2. \A k \in Detailed(ps, n) : qs[k] = ps[k]
  BY DEF Detailed
<1> QED
  BY <1>1, <1>2 DEF Dumped

LEMMA OneMoreDumped ==
  ASSUME NEW ps, NEW n \in Nat, NEW ds \in Seq(Intervals), Dumped(ps, ds, n),
         ps[n + 1].cpu = "timing" /\ ps[n + 1].cause = "switchcpu",
         NEW x \in Intervals, x = Interval(ps[n + 1].from, ps[n + 1].to)
  PROVE  Dumped(ps, Append(ds, x), n + 1)
<1>1. Detailed(ps, n) \in SUBSET (1 .. n)
  BY DEF Detailed
<1>2. Detailed(ps, n + 1) = Detailed(ps, n) \cup {n + 1}
  BY SMT DEF Detailed
<1> DEFINE more == Append(ds, x)
<1>3. /\ Len(ds) = Cardinality(Detailed(ps, n))
      /\ \A k \in Detailed(ps, n) : ds[Rank(Detailed(ps, n), k)] = Interval(ps[k].from, ps[k].to)
  BY DEF Dumped
<1>4. /\ Len(more) = Cardinality(Detailed(ps, n + 1))
      /\ more[Rank(Detailed(ps, n + 1), n + 1)] = x
      /\ \A k \in Detailed(ps, n) :
           more[Rank(Detailed(ps, n + 1), k)] = ds[Rank(Detailed(ps, n), k)]
  <2> DEFINE S == Detailed(ps, n)
  <2>1. S \in SUBSET (1 .. n) /\ Len(ds) = Cardinality(S) /\ ds \in Seq(Intervals)
    BY <1>1, <1>3
  <2> HIDE DEF S
  <2>2. /\ Cardinality(S \cup {n + 1}) = Cardinality(S) + 1
        /\ Rank(S \cup {n + 1}, n + 1) = Cardinality(S) + 1
        /\ \A k \in S : Rank(S \cup {n + 1}, k) = Rank(S, k)
    BY <2>1, RankOfNext
  <2>3. \A k \in S : Rank(S, k) \in 1 .. Len(ds)
    BY <2>1, RankWithin
  <2>4. /\ Len(ds) \in Nat /\ Len(more) = Len(ds) + 1
        /\ more[Len(ds) + 1] = x
        /\ \A i \in 1 .. Len(ds) : more[i] = ds[i]
    BY <2>1, AppendProperties, LenProperties
  <2>5. /\ Len(more) = Cardinality(S \cup {n + 1})
        /\ more[Rank(S \cup {n + 1}, n + 1)] = x
        /\ \A k \in S : more[Rank(S \cup {n + 1}, k)] = ds[Rank(S, k)]
    BY <2>1, <2>2, <2>3, <2>4
  <2> QED
    BY <1>2, <2>5 DEF S
<1> HIDE DEF more
<1>5. \A k \in Detailed(ps, n + 1) :
        more[Rank(Detailed(ps, n + 1), k)] = Interval(ps[k].from, ps[k].to)
  BY <1>2, <1>3, <1>4
<1>6. Dumped(ps, more, n + 1)
  BY <1>4, <1>5 DEF Dumped
<1> QED
  BY <1>6 DEF more

LEMMA NoneMoreDumped ==
  ASSUME NEW ps, NEW n \in Nat, NEW ds, Dumped(ps, ds, n),
         ~(ps[n + 1].cpu = "timing" /\ ps[n + 1].cause = "switchcpu")
  PROVE  Dumped(ps, ds, n + 1)
<1>1. Detailed(ps, n + 1) = Detailed(ps, n)
  BY SMT DEF Detailed
<1> QED
  BY <1>1 DEF Dumped

LEMMA InitSwitching == Init => Switching
<1> SUFFICES ASSUME Init, script.kind = "apu_se" PROVE Switching
  BY DEF Switching
<1>1. pc = "check" /\ since = curTick /\ periods = <<>> /\ dumps = <<>>
  BY DEF Init, FirstCall, Regions
<1>2. Detailed(periods, 0) = {}
  BY DEF Detailed
<1>3. Dumped(periods, dumps, 0)
  BY <1>1, <1>2, FS_EmptySet DEF Dumped
<1> QED
  BY <1>1, <1>3 DEF Switching, Handled

LEMMA NextSwitching == TypeOK /\ Apart /\ Switching /\ [Next]_vars => Switching'
<1> SUFFICES ASSUME TypeOK, Apart, Switching, [Next]_vars,
                    script.kind = "apu_se", script.fast_forward = "pseudo_op"
             PROVE  Switching'
  BY ScriptKept DEF Switching
<1>1. script' = script
  BY ScriptKept
<1>2. /\ pc \in {"check", "simulate", "handle"} \cup Final
      /\ Dumped(periods, dumps, Handled)
      /\ Len(periods) \in Nat
      /\ dumps \in Seq(Intervals)
  BY DEF Switching, TypeOK
<1>3. ASSUME pc' \in Final, periods' = periods, dumps' = dumps, pc # "handle"
      PROVE  Switching'
  BY <1>1, <1>2, <1>3 DEF Switching, Handled, Final
<1>4. CASE ApuCheck
  <2>1. pc = "check" /\ since = curTick
    BY <1>4 DEF ApuCheck, Switching
  <2> QED
    BY <1>1, <1>2, <1>3, <1>4, <2>1 DEF ApuCheck, Unchecked, Switching, Handled, Final
<1>5. CASE ApuSimulate
  <2>1. pc = "simulate" /\ since = curTick
    BY <1>2, <1>5 DEF ApuSimulate, Final, Switching
  <2>2. CASE pc' = "failed" /\ Unchecked
    BY <1>3, <2>1, <2>2 DEF Unchecked, Final
  <2>3. CASE ~(pc' = "failed" /\ Unchecked)
    <3>1. PICK e \in Exits(ApuTicks) :
            /\ ApuTicks >= 0 /\ Simulated(e) /\ curTick' = e.tick
            /\ pc' = "handle" /\ UNCHANGED <<cpu, since, dumps>>
      BY <1>5, <2>1, <2>3 DEF ApuSimulate
    <3>2. ApuTicks \in Nat
      BY <3>1, Durations
    <3>3. /\ Len(periods') = Len(periods) + 1
          /\ \A k \in 1 .. Len(periods) : periods'[k] = periods[k]
          /\ periods'[Len(periods')] =
               [from |-> since', to |-> curTick', cpu |-> cpu', cause |-> exit']
      BY <2>1, <3>1, <3>2, SimulatedTypes DEF Simulated
    <3>4. Handled = Len(periods) /\ Handled' = Len(periods)
      BY <1>2, <2>1, <3>1, <3>3 DEF Handled
    <3>5. Dumped(periods', dumps', Len(periods))
      BY <1>2, <3>1, <3>3, <3>4, EarlierDumped
    <3> QED
      BY <1>1, <1>2, <3>1, <3>3, <3>4, <3>5 DEF Switching, Final
  <2> QED
    BY <2>2, <2>3
<1>6. CASE ApuSwitch \/ ApuEnd
  <2>1. /\ pc = "handle" /\ pc' \in {"simulate", "done"} /\ periods' = periods
    BY <1>6 DEF ApuSwitch, ApuEnd, Unchecked
  <2> DEFINE n == Len(periods) - 1
  <2>2. /\ n \in Nat /\ Handled = n /\ Handled' = n + 1 /\ n + 1 = Len(periods)
        /\ periods[n + 1] =
             [from |-> since, to |-> curTick, cpu |-> cpu, cause |-> exit]
    BY <1>2, <2>1, SMT DEF Switching, Handled
  <2> HIDE DEF n
  <2>3. Dumped(periods, dumps, n)
    BY <1>2, <2>2
  <2>4. Interval(since, curTick) \in Intervals
    BY DEF TypeOK, Interval, Intervals
  <2>5. CASE ApuSwitch
    <3>1. /\ exit = "switchcpu" /\ pc' = "simulate" /\ since' = curTick'
          /\ dumps' = IF cpu = "timing"
                      THEN Append(dumps, Interval(since, curTick)) ELSE dumps
      BY <2>5 DEF ApuSwitch, ApuSwitches
    <3>2. CASE cpu = "timing"
      <4>1. Dumped(periods, Append(dumps, Interval(since, curTick)), n + 1)
        BY <1>2, <2>2, <2>3, <2>4, <3>1, <3>2, OneMoreDumped
      <4> QED
        BY <1>1, <2>1, <2>2, <3>1, <3>2, <4>1 DEF Switching
    <3>3. CASE cpu # "timing"
      <4>1. Dumped(periods, dumps, n + 1)
        BY <2>2, <2>3, <3>3, NoneMoreDumped
      <4> QED
        BY <1>1, <2>1, <2>2, <3>1, <3>3, <4>1 DEF Switching
    <3> QED
      BY <3>2, <3>3
  <2>6. CASE ApuEnd
    <3>1. exit # "switchcpu" /\ pc' = "done" /\ dumps' = dumps
      BY <2>6 DEF ApuEnd, ApuSwitches, Unchecked
    <3>2. Dumped(periods, dumps, n + 1)
      BY <2>2, <2>3, <3>1, NoneMoreDumped
    <3> QED
      BY <1>1, <2>1, <2>2, <3>1, <3>2 DEF Switching, Final
  <2> QED
    BY <1>6, <2>5, <2>6
<1>7. CASE UNCHANGED vars
  BY <1>7 DEF vars, Switching, Handled
<1>8. /\ ~Boot /\ ~Region /\ ~CopyLogs /\ ~BootUbuntu /\ ~FullSystemRun
      /\ ~GpuEnd /\ ~GpuCheckpoint /\ ~GpuContinue /\ ~ArmHandle
  BY DEF Boot, Region, CopyLogs, BootUbuntu, FullSystemRun, GpuEnd,
         GpuCheckpoint, GpuContinue, ArmHandle, Apart, Regions
<1> QED
  BY <1>4, <1>5, <1>6, <1>7, <1>8 DEF Next

-----------------------------------------------------------------------------
(* The Arm scripts.                                                        *)

LEMMA EarlierWritten ==
  ASSUME NEW ps, NEW qs, NEW cs, NEW n \in Nat, Written(ps, cs, n),
         \A k \in 1 .. n : qs[k] = ps[k]
  PROVE  Written(qs, cs, n)
<1>1. Requests(qs, n) = Requests(ps, n)
  BY DEF Requests
<1>2. \A k \in Requests(ps, n) : qs[k] = ps[k]
  BY DEF Requests
<1> QED
  BY <1>1, <1>2 DEF Written

LEMMA OneMoreWritten ==
  ASSUME NEW ps, NEW n \in Nat, NEW cs \in Seq(CptTypes), Written(ps, cs, n),
         ps[n + 1].cause = "checkpoint",
         NEW x \in CptTypes, x.name = ps[n + 1].to
  PROVE  Written(ps, Append(cs, x), n + 1)
<1>1. Requests(ps, n) \in SUBSET (1 .. n)
  BY DEF Requests
<1>2. Requests(ps, n + 1) = Requests(ps, n) \cup {n + 1}
  BY SMT DEF Requests
<1> DEFINE more == Append(cs, x)
<1>3. /\ Len(cs) = Cardinality(Requests(ps, n))
      /\ \A k \in Requests(ps, n) : cs[Rank(Requests(ps, n), k)].name = ps[k].to
  BY DEF Written
<1>4. /\ Len(more) = Cardinality(Requests(ps, n + 1))
      /\ more[Rank(Requests(ps, n + 1), n + 1)] = x
      /\ \A k \in Requests(ps, n) :
           more[Rank(Requests(ps, n + 1), k)] = cs[Rank(Requests(ps, n), k)]
  <2> DEFINE S == Requests(ps, n)
  <2>1. S \in SUBSET (1 .. n) /\ Len(cs) = Cardinality(S) /\ cs \in Seq(CptTypes)
    BY <1>1, <1>3
  <2> HIDE DEF S
  <2>2. /\ Cardinality(S \cup {n + 1}) = Cardinality(S) + 1
        /\ Rank(S \cup {n + 1}, n + 1) = Cardinality(S) + 1
        /\ \A k \in S : Rank(S \cup {n + 1}, k) = Rank(S, k)
    BY <2>1, RankOfNext
  <2>3. \A k \in S : Rank(S, k) \in 1 .. Len(cs)
    BY <2>1, RankWithin
  <2>4. /\ Len(cs) \in Nat /\ Len(more) = Len(cs) + 1
        /\ more[Len(cs) + 1] = x
        /\ \A i \in 1 .. Len(cs) : more[i] = cs[i]
    BY <2>1, AppendProperties, LenProperties
  <2>5. /\ Len(more) = Cardinality(S \cup {n + 1})
        /\ more[Rank(S \cup {n + 1}, n + 1)] = x
        /\ \A k \in S : more[Rank(S \cup {n + 1}, k)] = cs[Rank(S, k)]
    BY <2>1, <2>2, <2>3, <2>4
  <2> QED
    BY <1>2, <2>5 DEF S
<1> HIDE DEF more
<1>5. \A k \in Requests(ps, n + 1) :
        more[Rank(Requests(ps, n + 1), k)].name = ps[k].to
  BY <1>2, <1>3, <1>4
<1>6. Written(ps, more, n + 1)
  BY <1>4, <1>5 DEF Written
<1> QED
  BY <1>6 DEF more

LEMMA NoneMoreWritten ==
  ASSUME NEW ps, NEW n \in Nat, NEW cs, Written(ps, cs, n),
         ps[n + 1].cause # "checkpoint"
  PROVE  Written(ps, cs, n + 1)
<1>1. Requests(ps, n + 1) = Requests(ps, n)
  BY SMT DEF Requests
<1> QED
  BY <1>1 DEF Written

LEMMA InitAnswering == Init => Answering
<1> SUFFICES ASSUME Init, script.kind = "arm" PROVE Answering
  BY DEF Answering
<1>1. pc = "simulate_fs" /\ periods = <<>> /\ cpts = <<>>
  BY DEF Init, FirstCall, Regions
<1>2. Requests(periods, 0) = {}
  BY DEF Requests
<1>3. Written(periods, cpts, 0)
  BY <1>1, <1>2, FS_EmptySet DEF Written
<1> QED
  BY <1>1, <1>3 DEF Answering, Handled

LEMMA NextAnswering == TypeOK /\ Apart /\ Answering /\ [Next]_vars => Answering'
<1> SUFFICES ASSUME TypeOK, Apart, Answering, [Next]_vars, script.kind = "arm"
             PROVE  Answering'
  BY ScriptKept DEF Answering
<1>1. script' = script
  BY ScriptKept
<1>2. /\ pc \in {"simulate_fs", "handle", "done"}
      /\ Written(periods, cpts, Handled)
      /\ cpts \in Seq(CptTypes)
      /\ Len(periods) \in Nat
  BY DEF Answering, TypeOK
<1>3. CASE FullSystemRun
  <2>1. PICK e \in Exits(FullSystemTicks) :
          /\ Simulated(e) /\ curTick' = e.tick /\ pc' = "handle" /\ cpts' = cpts
    BY <1>3 DEF FullSystemRun
  <2>2. FullSystemTicks \in Nat
    BY Durations
  <2>3. /\ Len(periods') = Len(periods) + 1
        /\ \A k \in 1 .. Len(periods) : periods'[k] = periods[k]
        /\ periods'[Len(periods')].to = curTick'
        /\ periods'[Len(periods')].cause = exit'
    BY <2>1, <2>2, SimulatedTypes DEF Simulated
  <2>4. Handled = Len(periods) /\ Handled' = Len(periods)
    BY <1>2, <1>3, <2>1, <2>3 DEF Handled, FullSystemRun
  <2>5. Written(periods', cpts', Len(periods))
    BY <1>2, <2>1, <2>3, <2>4, EarlierWritten
  <2> QED
    BY <1>1, <1>2, <2>1, <2>3, <2>4, <2>5 DEF Answering
<1>4. CASE ArmHandle
  <2>1. pc = "handle" /\ pc' \in {"simulate_fs", "done"} /\ periods' = periods
    BY <1>4 DEF ArmHandle, Unchecked
  <2> DEFINE n == Len(periods) - 1
  <2>2. /\ n \in Nat /\ Handled = n /\ Handled' = n + 1 /\ n + 1 = Len(periods)
        /\ periods[n + 1].to = curTick /\ periods[n + 1].cause = exit
    BY <1>2, <2>1, SMT DEF Answering, Handled
  <2> HIDE DEF n
  <2>3. Written(periods, cpts, n)
    BY <1>2, <2>2
  <2>4. CASE exit = "checkpoint"
    <3>1. /\ curTick' \in Drained(curTick) /\ pc' = "simulate_fs"
          /\ cpts' = Append(cpts, [name |-> curTick, tick |-> curTick'])
      BY <1>4, <2>4 DEF ArmHandle, WriteCheckpoint
    <3>2. curTick' \in Nat /\ curTick \in Nat
      BY <3>1, DrainedWithin DEF TypeOK
    <3>3. [name |-> curTick, tick |-> curTick'] \in CptTypes
      BY <3>2 DEF CptTypes
    <3>4. Written(periods, cpts', n + 1)
      BY <1>2, <2>2, <2>3, <2>4, <3>1, <3>3, OneMoreWritten
    <3>5. cpts' \in Seq(CptTypes)
      BY <1>2, <3>1, <3>3
    <3> QED
      BY <1>1, <2>1, <2>2, <3>1, <3>4, <3>5 DEF Answering
  <2>5. CASE exit # "checkpoint"
    <3>1. pc' = "done" /\ cpts' = cpts
      BY <1>4, <2>5 DEF ArmHandle, Unchecked
    <3>2. Written(periods, cpts, n + 1)
      BY <2>2, <2>3, <2>5, NoneMoreWritten
    <3> QED
      BY <1>1, <1>2, <2>1, <2>2, <3>1, <3>2 DEF Answering
  <2> QED
    BY <2>4, <2>5
<1>5. CASE UNCHANGED vars
  BY <1>5 DEF vars, Answering, Handled
<1>6. /\ ~Boot /\ ~Region /\ ~CopyLogs /\ ~BootUbuntu
      /\ ~ApuCheck /\ ~ApuSimulate /\ ~ApuSwitch /\ ~ApuEnd
      /\ ~GpuEnd /\ ~GpuCheckpoint /\ ~GpuContinue
  BY DEF Boot, Region, CopyLogs, BootUbuntu, ApuCheck, ApuSimulate, ApuSwitch,
         ApuEnd, GpuEnd, GpuCheckpoint, GpuContinue, Apart, Regions
<1> QED
  BY <1>3, <1>4, <1>5, <1>6 DEF Next

-----------------------------------------------------------------------------
(* Theorems.                                                               *)

LEMMA Invariant == Spec => []IInv
<1>1. Init => IInv
  BY InitTypes, InitApart, InitMeasured, InitSwitching, InitAnswering
     DEF IInv, ApuStopsAtMaxTick, Init
<1>2. IInv /\ [Next]_vars => IInv'
  BY NextTypes, NextApart, NextMeasured, NextApu, NextSwitching, NextAnswering
     DEF IInv
<1> QED
  BY <1>1, <1>2, PTL DEF Spec

\* The scripts' variables keep their types, whatever the guest does.
THEOREM TypeCorrect == Spec => []TypeOK
BY Invariant, PTL DEF IInv

\* The statistics and the instructions a benchmark script reports are those of
\* the region of interest, for every script, drain and sequence of exit events.
THEOREM RegionReported == Spec => []ReportOfRegion
<1>1. IInv => ReportOfRegion
  BY DEF IInv, Measured, ReportOfRegion
<1> QED
  BY Invariant, <1>1, PTL

\* No call of apu_se.py simulates past --abs-max-tick, however many there are.
THEOREM ApuWithinLimit == Spec => []ApuStopsAtMaxTick
BY Invariant, PTL DEF IInv

\* However often the CPUs change places, apu_se.py dumps the statistics of the
\* calls on the detailed ones that the guest ended, each once and in order.
THEOREM SwitchesMeasured == Spec => []DetailedPeriodsDumped
<1>1. IInv => DetailedPeriodsDumped
  BY DEF IInv, Switching, Handled, Dumped, Detailed, DetailedPeriodsDumped
<1> QED
  BY Invariant, <1>1, PTL

\* An Arm script answers every request for a checkpoint, in the order of the
\* requests, under the tick of the request, however long each drain.
THEOREM CheckpointsAnswered == Spec => []RequestsAnswered
<1>1. IInv => RequestsAnswered
  BY DEF IInv, Answering, Handled, Written, Requests, RequestsAnswered
<1> QED
  BY Invariant, <1>1, PTL
=============================================================================

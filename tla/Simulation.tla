----------------------------- MODULE Simulation -----------------------------
(***************************************************************************)
(* configs/common/Simulation.py: run(), the driver of every simulation,    *)
(* with scriptCheckpoints, benchCheckpoints and repeatSwitch.  It checks   *)
(* the options, creates the CPU groups, restores a checkpoint, hands over  *)
(* between CPU groups and then runs one of the three loops.  Each action   *)
(* is one call of the simulator and the code up to the next one; pc names  *)
(* the call that comes next.                                               *)
(***************************************************************************)
EXTENDS Gem5Engine, FiniteSets

CONSTANTS
  Options,     \* command lines: records, see OptionTypes
  Archives,    \* what checkpoint_dir may hold: sets of checkpoint ticks
  SwitchTicks  \* ticks on the restoring CPUs before the switch (10000)

None == -1

\* An option the command line does not give is None, 0 or FALSE as in the
\* code; options that are only tested for truth are Booleans.  An instruction
\* count is only told apart from 0, which limits nothing.
OptionTypes ==
  [cpu_type : {"Atomic", "Timing", "O3"}, restore_with_cpu : {"Atomic", "Timing", "O3"},
   caches : BOOLEAN, checkpoint_dir : BOOLEAN,
   fast_forward : {None, 0, 1}, maxinsts : BOOLEAN, warmup_insts : BOOLEAN,
   checkpoint_restore : Nat \cup {None},
   standard_switch : Nat, repeat_switch : Nat,
   take_checkpoints : {<<>>} \cup (0 .. MaxTick) \X Nat,  \* <<when, period>>
   at_instruction : BOOLEAN,
   simpoint : {"off", "missing", "found"},      \* --simpoint, workload has one
   max_checkpoints : Nat, checkpoint_at_end : BOOLEAN, initialize_only : BOOLEAN,
   abs_max_tick : 0 .. MaxTick, rel_max_tick : Nat]

ASSUME SimulationAssumption ==
  /\ Options \subseteq OptionTypes
  /\ Archives \subseteq SUBSET (0 .. MaxTick)
  /\ SwitchTicks \in Nat \ {0}

VARIABLES
  opts,        \* the parsed options
  archive,     \* ticks of the checkpoints found in checkpoint_dir
  pc,          \* the next call, or how run() ended
  cptdir,      \* directory for checkpoints
  starttick,   \* cpt_starttick
  maxtick,
  pair,        \* repeat_switch_cpu_list: <<old group, new group>>
  simticks,    \* sim_ticks of scriptCheckpoints
  count,       \* num_checkpoints
  exitcause    \* exit_cause of scriptCheckpoints, refreshed less often than
               \* the exit event

vars == <<engine, opts, archive, pc, cptdir, starttick, maxtick, pair,
          simticks, count, exitcause>>

-----------------------------------------------------------------------------
(* setCPUClass() and the CPU groups of run().                              *)

\* The option is a string: "0" is as true as any other.
FastForwards(o) == o.fast_forward # None

\* Restoring and fast forwarding start on one class and go on with another.
InitialClass(o) ==
  IF o.checkpoint_restore # None THEN o.restore_with_cpu
  ELSE IF FastForwards(o) THEN "Atomic" ELSE o.cpu_type

\* Faulty variant: a restored run stays on the class it was restored with.
FutureClassUnlessRestored(o) == o.checkpoint_restore = None /\ FastForwards(o)

\* The third result of setCPUClass, cpu_class in run(), is not None.
HasFutureClass(o) ==
  IF o.checkpoint_restore # None THEN o.restore_with_cpu # o.cpu_type
                                 ELSE FastForwards(o)

Class(o, g) ==
  CASE g = "cpu"                -> InitialClass(o)
    [] g = "switch_cpus"        -> IF o.standard_switch > 0 THEN "Timing"
                                                            ELSE o.cpu_type
    [] g = "switch_cpus_1"      -> "O3"
    [] g = "repeat_switch_cpus" -> o.cpu_type

Switching(o) == o.standard_switch > 0 \/ HasFutureClass(o)

Created(o) ==
  {"cpu"} \cup (IF Switching(o) THEN {"switch_cpus"} ELSE {})
          \cup (IF o.standard_switch > 0 THEN {"switch_cpus_1"} ELSE {})
          \cup (IF o.repeat_switch > 0 THEN {"repeat_switch_cpus"} ELSE {})

\* repeat_switch_cpu_list: the group that runs first, and its counterpart.
SwapList(o) ==
  IF o.repeat_switch = 0 THEN <<>>
  ELSE <<IF HasFutureClass(o) THEN "switch_cpus" ELSE "cpu",
         "repeat_switch_cpus">>

TakesCheckpoints(o) == o.take_checkpoints # <<>>
ByInstruction(o)    == o.at_instruction \/ o.simpoint # "off"

\* --at-instruction makes the option an integer, and 0 is false where run()
\* tests it for truth; a simpoint's offset is added to a count above 0.
AtInstructionZero(o) ==
  /\ TakesCheckpoints(o) /\ o.at_instruction /\ o.simpoint = "off"
  /\ o.take_checkpoints[1] = 0

\* max_insts_any_thread of each group: the last assignment wins, and a limit
\* of 0 is none.
CpuLimit(o) ==
  IF TakesCheckpoints(o) /\ ByInstruction(o)
    THEN IF AtInstructionZero(o) THEN "none" ELSE "checkpoint"
  ELSE IF o.standard_switch > 0 /\ o.checkpoint_restore # None THEN "one"
  ELSE IF FastForwards(o)
         THEN IF o.fast_forward = 0 THEN "none" ELSE "fast_forward"
  ELSE IF o.standard_switch > 0
         THEN IF o.simpoint # "off" THEN "simpoint" ELSE "one"
  ELSE IF o.maxinsts THEN "maxinsts" ELSE "none"

Limit(o, g) ==
  CASE g = "cpu" -> CpuLimit(o)
    [] g = "switch_cpus" /\ o.standard_switch > 0 ->
         IF o.warmup_insts THEN "warmup" ELSE "none"
    [] g \in Created(o) /\ ~(g = "switch_cpus" /\ o.standard_switch > 0) ->
         IF o.maxinsts THEN "maxinsts" ELSE "none"
    [] OTHER -> "none"

\* The combinations run() and setCPUClass() refuse.
Refused(o) ==
  \/ o.cpu_type = "O3" /\ ~o.caches
  \/ FastForwards(o) /\ o.checkpoint_restore # None
  \/ o.standard_switch > 0 /\ ~o.caches
  \/ o.standard_switch > 0 /\ o.repeat_switch > 0
  \/ o.repeat_switch > 0 /\ TakesCheckpoints(o)
  \/ /\ o.simpoint = "missing"
     /\ \/ TakesCheckpoints(o)
        \/ o.checkpoint_restore > 0
        \/ o.standard_switch > 0 /\ o.checkpoint_restore = None /\ ~FastForwards(o)

-----------------------------------------------------------------------------
(* findCptDir() and the limits of the simulation.                          *)

Restores(o) == o.checkpoint_restore > 0

\* Ticks at which the restored system may start: that of the checkpoint with
\* the given number when sorted by tick, or of one of an instruction count,
\* whose name does not tell its tick.
Restorable(o, S) ==
  IF ByInstruction(o) THEN S
  ELSE {t \in S : Cardinality({u \in S : u <= t}) = o.checkpoint_restore}

Least(a, b) == IF a < b THEN a ELSE b

MaxTicks(o, start) ==
  Least(IF o.abs_max_tick > 0 THEN o.abs_max_tick ELSE MaxTick,
        IF o.rel_max_tick > 0 THEN o.rel_max_tick + start ELSE MaxTick)

\* Which loop runs once the CPUs are in place.
Loop(o, last) ==
  IF TakesCheckpoints(o)
    THEN IF ByInstruction(o) THEN "script_inst" ELSE "script_when"
  ELSE IF o.repeat_switch > 0 /\ last > o.repeat_switch THEN "repeat"
  ELSE "bench"

\* A run that restores and takes checkpoints writes to the output directory,
\* unless the option was turned into the number 0.
WriteDir(o, dir) ==
  IF TakesCheckpoints(o) /\ ~AtInstructionZero(o) /\ Restores(o)
    THEN "outdir" ELSE dir

-----------------------------------------------------------------------------
(* run() up to m5.instantiate().                                           *)

Init ==
  /\ opts \in Options
  /\ archive \in Archives
  /\ pc = "options"
  /\ cptdir = IF opts.checkpoint_dir THEN "checkpoint_dir" ELSE "outdir"
  /\ curTick = 0
  /\ event = NoEvent
  /\ active = {}
  /\ limit = [g \in Groups |-> "none"]
  /\ guest = MaxGuest
  /\ drained = 0
  /\ dropped = <<>>
  /\ starttick = 0
  /\ maxtick = MaxTick
  /\ pair = <<>>
  /\ simticks = 0
  /\ count = 0
  /\ exitcause = "none"

locals == <<cptdir, starttick, maxtick, pair, simticks, count, exitcause>>

Fatal ==
  /\ pc = "options"
  /\ Refused(opts) \/ (Restores(opts) /\ Restorable(opts, archive) = {})
  /\ pc' = "fatal"
  /\ UNCHANGED <<engine, opts, archive, locals>>

\* The CPUs of group "cpu" run, all the others are created switched out.
CreateSystem ==
  /\ pc = "options"
  /\ ~Refused(opts)
  /\ active' = {"cpu"}
  /\ limit' = [g \in Groups |-> Limit(opts, g)]
  /\ pair' = SwapList(opts)
  /\ IF Restores(opts)
       THEN /\ curTick' \in Restorable(opts, archive)
            /\ starttick' = IF ByInstruction(opts) THEN 0 ELSE curTick'
       ELSE UNCHANGED <<curTick, starttick>>
  /\ pc' = IF opts.initialize_only THEN "initialized" ELSE "limits"
  /\ UNCHANGED <<event, guest, drained, dropped, opts, archive, cptdir,
                 maxtick, simticks, count, exitcause>>

\* --checkpoint-restore 0 restores nothing and leaves cpt_starttick undefined.
SetLimits ==
  /\ pc = "limits"
  /\ maxtick' = MaxTicks(opts, starttick)
  /\ pc' = IF opts.checkpoint_restore = 0 THEN "error"
           ELSE IF Restores(opts) /\ maxtick' < starttick THEN "fatal"
           ELSE IF Switching(opts) THEN "switch" ELSE Loop(opts, maxtick')
  /\ cptdir' = WriteDir(opts, cptdir)
  /\ UNCHANGED <<engine, opts, archive, starttick, pair, simticks, count,
                 exitcause>>

-----------------------------------------------------------------------------
(* Calls of m5.simulate().                                                 *)

\* What is left of the period a guest checkpoint interrupted; the faulty
\* variant starts the period again.
PeriodAnew   == opts.take_checkpoints[2]
RestOfPeriod == simticks - curTick

\* The argument of the call, for each place that makes one.
Ticks ==
  CASE pc = "switch" -> IF opts.standard_switch > 0 \/ FastForwards(opts)
                          THEN MaxTick ELSE SwitchTicks
    [] pc = "warmup" -> IF opts.warmup_insts THEN MaxTick
                                             ELSE opts.standard_switch
    [] pc = "script_inst"   -> MaxTick
    [] pc = "script_when"   -> opts.take_checkpoints[1] - curTick
    [] pc = "script_period" -> opts.take_checkpoints[2]
    [] pc = "script_last"   -> maxtick - simticks
    [] pc = "script_skip"   -> RestOfPeriod
    [] pc = "repeat"        -> opts.repeat_switch
    [] pc \in {"bench", "repeat_last"} -> maxtick - curTick

Simulating == {"switch", "warmup", "script_inst", "script_when",
               "script_period", "script_last", "script_skip", "repeat",
               "bench", "repeat_last"}

\* A negative number of ticks is no argument: the script dies.
NegativeTicks ==
  /\ pc \in Simulating
  /\ Ticks < 0
  /\ pc' = "error"
  /\ UNCHANGED <<engine, opts, archive, locals>>

\* simulate() is called at p; next names what follows each exit cause.
RunFrom(p, next(_)) ==
  /\ pc = p
  /\ Ticks >= 0
  /\ Simulate(Ticks)
  /\ pc' = next(event'.cause)
  /\ UNCHANGED <<opts, archive>>

-----------------------------------------------------------------------------
(* Hand-over between CPU groups, whatever exit event ended the first run.  *)

Switch ==
  /\ RunFrom("switch", LAMBDA c : "handover")
  /\ UNCHANGED locals

Warmup ==
  /\ RunFrom("warmup", LAMBDA c : "handover_1")
  /\ UNCHANGED locals

\* The groups the next switchCpus() takes over from and to.
Outgoing == CASE pc = "handover"    -> "cpu"
              [] pc = "handover_1"  -> "switch_cpus"
              [] pc = "repeat_swap" -> pair[1]
Incoming == CASE pc = "handover"    -> "switch_cpus"
              [] pc = "handover_1"  -> "switch_cpus_1"
              [] pc = "repeat_swap" -> pair[2]

Handover ==
  /\ pc \in {"handover", "handover_1"}
  /\ MaySwitch(Outgoing, Incoming)
  /\ SwitchCpus(Outgoing, Incoming)
  /\ pc' = IF pc = "handover" /\ opts.standard_switch > 0 THEN "warmup"
                                                         ELSE Loop(opts, maxtick)
  /\ UNCHANGED <<opts, archive, locals>>

-----------------------------------------------------------------------------
(* scriptCheckpoints().                                                    *)

\* One checkpoint when the CPUs reach the instruction; checkpoint
\* instructions of the guest are skipped.
ScriptInstruction ==
  /\ RunFrom("script_inst", LAMBDA c : CASE c = "checkpoint" -> "script_inst"
                                         [] c = "maxinsts"   -> "script_inst_write"
                                         [] OTHER            -> "finish")
  /\ UNCHANGED locals

ScriptInstructionWrite ==
  /\ pc = "script_inst_write"
  /\ Checkpoint(cptdir)
  /\ pc' = "finish"
  /\ UNCHANGED <<opts, archive, locals>>

\* The first checkpoint, at tick <when>.
ScriptWhen ==
  /\ RunFrom("script_when", LAMBDA c : CASE c = "checkpoint" -> "script_when"
                                         [] c = "limit"      -> "script_write"
                                         [] OTHER            -> "finish")
  /\ simticks' = opts.take_checkpoints[1]
  /\ exitcause' = event'.cause
  /\ UNCHANGED <<cptdir, starttick, maxtick, pair, count>>

\* Faulty variants of the loop test: one checkpoint too many, and periods
\* that ignore maxtick.
PeriodicLoopOneMore(n) ==
  IF n > opts.max_checkpoints \/ exitcause # "limit" THEN "finish"
  ELSE IF simticks + opts.take_checkpoints[2] > maxtick THEN "script_last"
  ELSE "script_period"

PeriodicLoopNoMaxtick(n) ==
  IF n >= opts.max_checkpoints \/ exitcause # "limit" THEN "finish"
  ELSE "script_period"

\* The test of the periodic loop and of its first branch.
PeriodicLoop(n) ==
  IF n >= opts.max_checkpoints \/ exitcause # "limit" THEN "finish"
  ELSE IF simticks + opts.take_checkpoints[2] > maxtick THEN "script_last"
  ELSE "script_period"

ScriptWrite ==
  /\ pc = "script_write"
  /\ Checkpoint(cptdir)
  /\ count' = count + 1
  /\ pc' = PeriodicLoop(count')
  /\ UNCHANGED <<opts, archive, cptdir, starttick, maxtick, pair, simticks,
                 exitcause>>

AfterPeriod(c) == CASE c = "checkpoint" -> "script_skip"
                    [] c = "limit"      -> "script_write"
                    [] OTHER            -> "finish"

ScriptPeriod ==
  /\ RunFrom("script_period", AfterPeriod)
  /\ simticks' = simticks + opts.take_checkpoints[2]
  /\ exitcause' = event'.cause
  /\ UNCHANGED <<cptdir, starttick, maxtick, pair, count>>

\* Skipping a checkpoint instruction refreshes the exit event, not exit_cause.
ScriptSkip ==
  /\ RunFrom("script_skip", AfterPeriod)
  /\ UNCHANGED locals

ScriptLast ==
  /\ RunFrom("script_last", LAMBDA c : "finish")
  /\ exitcause' = event'.cause
  /\ UNCHANGED <<cptdir, starttick, maxtick, pair, simticks, count>>

-----------------------------------------------------------------------------
(* benchCheckpoints(): the guest asks for its checkpoints.                 *)

Bench ==
  /\ RunFrom("bench", LAMBDA c : IF c = "checkpoint" THEN "bench_write"
                                                     ELSE "finish")
  /\ UNCHANGED locals

BenchWrite ==
  /\ pc = "bench_write"
  /\ Checkpoint(cptdir)
  /\ count' = count + 1
  /\ pc' = IF count' = opts.max_checkpoints THEN "finish" ELSE "bench"
  /\ UNCHANGED <<opts, archive, cptdir, starttick, maxtick, pair, simticks,
                 exitcause>>

-----------------------------------------------------------------------------
(* repeatSwitch(): back and forth between two groups until maxtick.        *)

Repeat ==
  /\ RunFrom("repeat", LAMBDA c : IF c = "limit" THEN "repeat_swap"
                                                 ELSE "finish")
  /\ UNCHANGED locals

\* Faulty variants: the list is not turned around; maxtick is not tested.
RepeatSwapSameList ==
  /\ pc = "repeat_swap"
  /\ MaySwitch(Outgoing, Incoming)
  /\ SwitchCpus(Outgoing, Incoming)
  /\ pc' = "repeat"
  /\ UNCHANGED <<opts, archive, locals>>

RepeatSwapForever ==
  /\ pc = "repeat_swap"
  /\ MaySwitch(Outgoing, Incoming)
  /\ SwitchCpus(Outgoing, Incoming)
  /\ pair' = <<pair[2], pair[1]>>
  /\ pc' = "repeat"
  /\ UNCHANGED <<opts, archive, cptdir, starttick, maxtick, simticks, count,
                 exitcause>>

RepeatSwap ==
  /\ pc = "repeat_swap"
  /\ MaySwitch(Outgoing, Incoming)
  /\ SwitchCpus(Outgoing, Incoming)
  /\ pair' = <<pair[2], pair[1]>>
  /\ pc' = IF maxtick - curTick' <= opts.repeat_switch THEN "repeat_last"
                                                       ELSE "repeat"
  /\ UNCHANGED <<opts, archive, cptdir, starttick, maxtick, simticks, count,
                 exitcause>>

RepeatLast ==
  /\ RunFrom("repeat_last", LAMBDA c : "finish")
  /\ UNCHANGED locals

-----------------------------------------------------------------------------
\* Report the exit and take the checkpoint asked for at the end of the run.
Finish ==
  /\ pc = "finish"
  /\ IF opts.checkpoint_at_end THEN Checkpoint(cptdir) ELSE UNCHANGED engine
  /\ pc' = "exited"
  /\ UNCHANGED <<opts, archive, locals>>

Ended == {"fatal", "error", "initialized", "exited"}

Next ==
  \/ Fatal \/ CreateSystem \/ SetLimits \/ NegativeTicks
  \/ Switch \/ Warmup \/ Handover
  \/ ScriptInstruction \/ ScriptInstructionWrite
  \/ ScriptWhen \/ ScriptWrite \/ ScriptPeriod \/ ScriptSkip \/ ScriptLast
  \/ Bench \/ BenchWrite
  \/ Repeat \/ RepeatSwap \/ RepeatLast
  \/ Finish

Spec     == Init /\ [][Next]_vars
FairSpec == Spec /\ WF_vars(Next)

-----------------------------------------------------------------------------
(* Properties.                                                             *)

TypeOK ==
  /\ EngineTypeOK
  /\ opts \in OptionTypes
  /\ archive \subseteq 0 .. MaxTick
  /\ pc \in Simulating \cup Ended \cup
       {"options", "limits", "handover", "handover_1", "script_inst_write",
        "script_write", "bench_write", "repeat_swap", "finish"}
  /\ cptdir \in Dirs
  /\ starttick \in 0 .. MaxTick
  /\ maxtick \in 0 .. MaxTick
  /\ pair \in {<<>>} \cup Groups \X Groups
  /\ simticks \in Nat
  /\ count \in Nat
  /\ exitcause \in Causes

\* switchCpus() is only ever asked to take over from the group that runs, to
\* one that was created and is switched out: through the two one-time
\* switches, the list each option combination builds, and however often
\* repeatSwitch() turns its list around.
HandoverIsLegal ==
  pc \in {"handover", "handover_1", "repeat_swap"} =>
    /\ active = {Outgoing}
    /\ Incoming \in Created(opts) \ active

\* The loop that is measured runs on the class the user asked for: cpu_type,
\* or the detailed CPU after a standard switch, whatever the run was restored
\* or fast forwarded with.
Measuring == {"script_inst", "script_inst_write", "script_when", "script_write",
              "script_period", "script_skip", "script_last", "bench",
              "bench_write", "repeat", "repeat_swap", "repeat_last", "finish"}

MeasuredOnRequestedCpu ==
  pc \in Measuring =>
    \A g \in active :
      Class(opts, g) = IF opts.standard_switch > 0 THEN "O3" ELSE opts.cpu_type

Periodic(o) == TakesCheckpoints(o) /\ ~ByInstruction(o)

\* The k-th periodic checkpoint is written at <when> + (k-1) <period>, late at
\* most by the time spent draining so far, also when checkpoint instructions
\* of the guest interrupt a period.
OnSchedule ==
  Periodic(opts) =>
    \A k \in 1 .. count :
      LET due == opts.take_checkpoints[1] + (k - 1) * opts.take_checkpoints[2]
      IN  dropped[k].tick \in due .. due + dropped[k].drained

\* Runs whose length is given in ticks: from the start or a numbered
\* checkpoint, no phase ends with an instruction count (--standard-switch,
\* --fast-forward, --at-instruction, --simpoint), and the first checkpoint is
\* due before maxtick.
Bounded(o) ==
  /\ o.standard_switch = 0 /\ ~FastForwards(o)
  /\ Restores(o) => ~ByInstruction(o)
  /\ TakesCheckpoints(o) => ~ByInstruction(o) /\ o.take_checkpoints[1] <= maxtick

\* Ticks from starttick that run() simulates before it looks at maxtick: those
\* on the restoring CPUs and the first period of --repeat-switch, which is
\* shorter than maxtick but not than maxtick - starttick.
Unchecked(o) ==
  (IF Switching(o) THEN SwitchTicks ELSE 0)
    + (IF Loop(o, maxtick) = "repeat" THEN o.repeat_switch ELSE 0)

LastTick(o) ==
  IF starttick + Unchecked(o) > maxtick THEN starttick + Unchecked(o) ELSE maxtick

\* Such a run ends at maxtick, a restored one at the latest when what it
\* simulates before looking at maxtick is over, passing either by no more than
\* the time it spent draining.
StopsAtMaxtick ==
  (Bounded(opts) /\ pc \notin {"options", "limits", "fatal"}) =>
    curTick <= LastTick(opts) + drained

\* run() provides the checkpoint service: time never goes back; a checkpoint is
\* of the moment it is written, after draining; no combination of loops and
\* --checkpoint-at-end writes more than --max-checkpoints asks for; the second
\* set of a restored run stays out of the directory of the first, except when
\* --at-instruction makes the number of --take-checkpoints 0, which is not true;
\* after the end nothing is written.
Request(o) ==
  IF o.max_checkpoints = 0 THEN <<>>
  ELSE <<o.max_checkpoints + IF o.checkpoint_at_end THEN 1 ELSE 0>>

FirstSet(o) ==
  IF o.checkpoint_dir /\ Restores(o) /\ TakesCheckpoints(o) /\ ~AtInstructionZero(o)
    THEN {"checkpoint_dir"} ELSE {}

Stage == IF pc \in {"options", "limits"} THEN "setup"
         ELSE IF pc \in Ended THEN "ended" ELSE "running"

Written == [k \in 1 .. Len(dropped) |->
              [tick |-> dropped[k].tick, dir |-> dropped[k].dir]]

Service == INSTANCE CheckpointService WITH
  Places <- Dirs, state <- Stage, now <- curTick, written <- Written,
  quota <- Request(opts), reserved <- FirstSet(opts)

ProvidesService == Service!Spec

\* run() comes to an end: the guest raises finitely many events and every
\* loop makes progress towards maxtick or its number of checkpoints.
Terminates == <>(pc \in Ended)
=============================================================================

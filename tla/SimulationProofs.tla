-------------------------- MODULE SimulationProofs --------------------------
(***************************************************************************)
(* Proofs about run(), for all option sets, drains, guests and archives.   *)
(***************************************************************************)
EXTENDS Simulation, TLAPS, SequenceTheorems

(***************************************************************************)
(* Which CPU group runs where.  FirstGroup is the one the measured loop    *)
(* starts on; a repeating run alternates between it and its counterpart,   *)
(* and pair always names the running one first.                            *)
(***************************************************************************)
FirstGroup(o) ==
  IF o.standard_switch > 0 THEN "switch_cpus_1"
  ELSE IF HasFutureClass(o) THEN "switch_cpus" ELSE "cpu"

Repeating == {"repeat", "repeat_swap", "repeat_last"}

GroupsOK ==
  /\ pc \notin {"options", "fatal"} => ~Refused(opts)
  /\ pc \in {"limits", "switch", "handover"} =>
       active = {"cpu"} /\ pair = SwapList(opts)
  /\ pc \in {"switch", "handover"} => Switching(opts)
  /\ pc \in {"warmup", "handover_1"} =>
       active = {"switch_cpus"} /\ opts.standard_switch > 0
  /\ pc \in Repeating =>
       /\ opts.repeat_switch > 0
       /\ pair \in {SwapList(opts), <<SwapList(opts)[2], SwapList(opts)[1]>>}
       /\ active = {pair[1]}
  /\ pc \in Measuring \ Repeating =>
       \/ active = {FirstGroup(opts)}
       \/ active = {"repeat_switch_cpus"} /\ opts.repeat_switch > 0

(***************************************************************************)
(* Where the periodic checkpoints stand: sim_ticks counts the periods, and *)
(* only drains make the simulated time run ahead of it.                    *)
(***************************************************************************)
when   == opts.take_checkpoints[1]
period == opts.take_checkpoints[2]

Scripting == {"script_when", "script_write", "script_period", "script_skip",
              "script_last"}

ScheduleOK ==
  /\ pc \in Scripting => Periodic(opts)
  /\ pc \in Measuring \ (Scripting \cup {"finish"}) => ~Periodic(opts)
  /\ pc \in {"options", "limits", "switch", "handover", "warmup",
             "handover_1", "script_inst", "script_inst_write", "script_when"} =>
       count = 0 /\ dropped = <<>>
  /\ pc \in Measuring \ {"finish"} => Len(dropped) = count
  /\ pc = "finish" /\ Periodic(opts) => Len(dropped) = count
  /\ pc \in {"script_write", "script_skip"} => simticks = when + count * period
  /\ pc \in {"script_period", "script_last"} =>
       count > 0 /\ simticks = when + (count - 1) * period
  /\ pc \in {"script_write", "script_period", "script_last"} => simticks <= curTick
  /\ pc \in Scripting \ {"script_when"} =>
       simticks <= MaxTick /\ curTick <= simticks + drained
  /\ pc = "script_period" => simticks + period <= maxtick
  /\ \A k \in 1 .. Len(dropped) : dropped[k].drained <= drained

IInv == TypeOK /\ GroupsOK /\ ScheduleOK /\ OnSchedule

-----------------------------------------------------------------------------
(***************************************************************************)
(* The simulator's calls.                                                  *)
(***************************************************************************)
LEMMA ConstantsOK ==
  /\ MaxTick \in Nat /\ MaxTick > 0 /\ MaxDrain \in Nat /\ MaxGuest \in Nat
  /\ SwitchTicks \in Nat
BY EngineAssumption, SimulationAssumption

LEMMA OptionsOK ==
  ASSUME opts \in OptionTypes
  PROVE  /\ opts.checkpoint_restore \in Nat \cup {None}
         /\ opts.standard_switch \in Nat
         /\ opts.repeat_switch \in Nat
         /\ opts.max_checkpoints \in Nat
         /\ opts.abs_max_tick \in 0 .. MaxTick
         /\ opts.rel_max_tick \in Nat
         /\ TakesCheckpoints(opts) => when \in 0 .. MaxTick /\ period \in Nat
BY DEF OptionTypes, TakesCheckpoints, when, period

\* simulate(d) moves the time forward by at most d, exactly d if the limit is
\* the exit cause, and changes nothing but the guest's side.
LEMMA SimulateOK ==
  ASSUME EngineTypeOK, NEW d \in Nat, Simulate(d)
  PROVE  /\ EngineTypeOK'
         /\ curTick <= curTick' /\ curTick' <= curTick + d
         /\ event'.cause = "limit" =>
              curTick' = IF curTick + d < MaxTick THEN curTick + d ELSE MaxTick
         /\ event'.cause \in Causes
         /\ UNCHANGED <<active, drained, dropped>>
<1> DEFINE end == IF curTick + d < MaxTick THEN curTick + d ELSE MaxTick
<1>0. /\ curTick \in 0 .. MaxTick /\ end \in curTick .. MaxTick
      /\ end <= curTick + d
  BY ConstantsOK DEF EngineTypeOK
<1>1. curTick' \in curTick .. end /\ UNCHANGED <<active, drained, dropped>>
  BY <1>0 DEF Simulate
<1>2. event' \in [cause : Causes, limit : Limits]
  <2>1. \A g \in active : limit[g] \in Limits
    BY DEF EngineTypeOK
  <2> QED
    BY <2>1 DEF Simulate, Event, Causes, Limits
<1>3. limit' \in [Groups -> Limits] /\ guest' \in 0 .. MaxGuest
  <2>1. CASE UNCHANGED <<limit, guest>>
    BY <2>1 DEF EngineTypeOK
  <2>2. CASE guest > 0 /\ guest' = guest - 1 /\ limit' = limit
    <3>1. guest \in 0 .. MaxGuest /\ limit \in [Groups -> Limits]
      BY DEF EngineTypeOK
    <3>2. guest - 1 \in 0 .. MaxGuest
      BY <2>2, <3>1, ConstantsOK
    <3> QED
      BY <2>2, <3>1, <3>2
  <2>3. CASE guest' = guest /\ \E g \in active :
                                limit' = [limit EXCEPT ![g] = "none"]
    BY <2>3 DEF EngineTypeOK, Limits
  <2> QED
    BY <2>1, <2>2, <2>3 DEF Simulate
<1>4. event'.cause = "limit" => curTick' = end
  BY DEF Simulate, Event
<1>5. curTick' \in 0 .. MaxTick /\ curTick <= curTick' /\ curTick' <= curTick + d
  <2> HIDE DEF end
  <2>1. end \in Int /\ curTick \in Int /\ curTick' \in Int
    BY <1>0, <1>1
  <2> QED
    BY <1>0, <1>1, <2>1, ConstantsOK
<1>6. EngineTypeOK'
  BY <1>1, <1>2, <1>3, <1>5 DEF EngineTypeOK
<1> QED
  BY <1>1, <1>2, <1>4, <1>5, <1>6

LEMMA DrainOK ==
  ASSUME EngineTypeOK, Drain
  PROVE  /\ curTick' \in 0 .. MaxTick /\ drained' \in Nat
         /\ curTick <= curTick' /\ drained <= drained'
         /\ curTick' - curTick = drained' - drained
BY ConstantsOK DEF EngineTypeOK, Drain

LEMMA DroppedOK ==
  ASSUME EngineTypeOK
  PROVE  /\ Len(dropped) \in Nat
         /\ \A k \in 1 .. Len(dropped) : /\ dropped[k].tick \in 0 .. MaxTick
                                       /\ dropped[k].drained \in Nat
<1> DEFINE Drops == [tick : 0 .. MaxTick, drained : Nat, dir : Dirs,
                     limit : Limits]
<1>1. dropped \in Seq(Drops)
  BY DEF EngineTypeOK
<1>2. \A k \in 1 .. Len(dropped) : dropped[k] \in Drops
  <2> HIDE DEF Drops
  <2> QED
    BY <1>1, ElementOfSeq
<1> QED
  BY <1>1, <1>2

LEMMA CheckpointOK ==
  ASSUME EngineTypeOK, NEW dir \in Dirs, Checkpoint(dir)
  PROVE  /\ EngineTypeOK'
         /\ curTick <= curTick' /\ drained <= drained'
         /\ curTick' - curTick = drained' - drained
         /\ active' = active
         /\ Len(dropped') = Len(dropped) + 1
         /\ \A k \in 1 .. Len(dropped) : dropped'[k] = dropped[k]
         /\ dropped'[Len(dropped')].tick = curTick'
         /\ dropped'[Len(dropped')].drained = drained'
<1>1. /\ curTick' \in 0 .. MaxTick /\ drained' \in Nat
      /\ curTick <= curTick' /\ drained <= drained'
      /\ curTick' - curTick = drained' - drained
  BY DrainOK DEF Checkpoint
<1> DEFINE new == [tick |-> curTick', drained |-> drained', dir |-> dir,
                   limit |-> event.limit]
           Drops == [tick : 0 .. MaxTick, drained : Nat, dir : Dirs,
                     limit : Limits]
<1>2. new \in Drops
  BY <1>1 DEF EngineTypeOK
<1>3. dropped \in Seq(Drops) /\ dropped' = Append(dropped, new)
  BY DEF Checkpoint, EngineTypeOK
<1>4. /\ dropped' \in Seq(Drops)
      /\ Len(dropped') = Len(dropped) + 1
      /\ \A k \in 1 .. Len(dropped) : dropped'[k] = dropped[k]
      /\ dropped'[Len(dropped')] = new
  <2> HIDE DEF new, Drops
  <2> QED
    BY <1>2, <1>3, AppendProperties
<1>5. UNCHANGED <<event, active, limit, guest>>
  BY DEF Checkpoint
<1>6. EngineTypeOK'
  BY <1>1, <1>4, <1>5 DEF EngineTypeOK
<1> QED
  BY <1>1, <1>4, <1>5, <1>6

LEMMA SwitchCpusOK ==
  ASSUME EngineTypeOK, NEW old \in Groups, NEW new \in Groups,
         SwitchCpus(old, new)
  PROVE  /\ EngineTypeOK'
         /\ curTick <= curTick' /\ drained <= drained'
         /\ curTick' - curTick = drained' - drained
         /\ active' = (active \ {old}) \cup {new}
         /\ dropped' = dropped
<1>1. /\ curTick' \in 0 .. MaxTick /\ drained' \in Nat
      /\ curTick <= curTick' /\ drained <= drained'
      /\ curTick' - curTick = drained' - drained
  BY DrainOK DEF SwitchCpus
<1> QED
  BY <1>1 DEF SwitchCpus, EngineTypeOK

\* Every call that is made has a defined number of ticks.
LEMMA TicksOK ==
  ASSUME IInv, pc \in Simulating, Ticks >= 0
  PROVE  Ticks \in Nat
<1>1. /\ curTick \in Int /\ simticks \in Int /\ maxtick \in Int
      /\ opts.standard_switch \in Nat /\ opts.repeat_switch \in Nat
      /\ TakesCheckpoints(opts) => when \in Nat /\ period \in Nat
  BY ConstantsOK, OptionsOK DEF IInv, TypeOK, EngineTypeOK
<1>2. pc \in Scripting => TakesCheckpoints(opts)
  BY DEF IInv, ScheduleOK, Periodic
<1>3. Ticks \in Int
  BY <1>1, <1>2, ConstantsOK
  DEF Ticks, Simulating, Scripting, when, period, RestOfPeriod
<1> QED
  BY <1>3

-----------------------------------------------------------------------------
(***************************************************************************)
(* The initial state, and the steps before the first call.                 *)
(***************************************************************************)
LEMMA InitInv == Init => IInv
<1> SUFFICES ASSUME Init PROVE IInv
  OBVIOUS
<1> USE ConstantsOK DEF Init
<1>1. opts \in OptionTypes /\ archive \subseteq 0 .. MaxTick
  BY SimulationAssumption
<1>2. EngineTypeOK
  BY DEF EngineTypeOK, NoEvent, Event, Causes, Limits
<1>3. TypeOK
  BY <1>1, <1>2 DEF TypeOK, Dirs, Causes
<1>4. GroupsOK
  BY DEF GroupsOK, Measuring, Repeating
<1>5. ScheduleOK /\ OnSchedule
  BY DEF ScheduleOK, Scripting, Measuring, OnSchedule
<1> QED
  BY <1>3, <1>4, <1>5 DEF IInv

LEMMA MaxTicksOK ==
  ASSUME opts \in OptionTypes, starttick \in 0 .. MaxTick
  PROVE  MaxTicks(opts, starttick) \in 0 .. MaxTick
BY OptionsOK, ConstantsOK DEF MaxTicks, Least

\* The loop a run enters fits its options.
LEMMA LoopOK ==
  ASSUME NEW last
  PROVE  /\ Loop(opts, last) \in Measuring \ {"finish"}
         /\ Loop(opts, last) \in {"script_inst", "script_when", "repeat", "bench"}
         /\ Loop(opts, last) = "script_when" => Periodic(opts)
         /\ Loop(opts, last) # "script_when" => ~Periodic(opts)
         /\ Loop(opts, last) = "repeat" =>
              opts.repeat_switch > 0 /\ last > opts.repeat_switch
BY DEF Loop, Measuring, Periodic

LEMMA SwapListOK ==
  ASSUME opts \in OptionTypes
  PROVE  /\ SwapList(opts) \in {<<>>} \cup Groups \X Groups
         /\ opts.repeat_switch > 0 =>
              SwapList(opts) = <<IF HasFutureClass(opts) THEN "switch_cpus"
                                                         ELSE "cpu",
                                 "repeat_switch_cpus">>
BY OptionsOK DEF SwapList, Groups

LEMMA FatalOK == IInv /\ Fatal => IInv'
<1> SUFFICES ASSUME IInv, Fatal PROVE IInv'
  OBVIOUS
<1>1. TypeOK'
  BY DEF IInv, Fatal, TypeOK, EngineTypeOK, engine, locals, Ended
<1>2. GroupsOK' /\ ScheduleOK' /\ OnSchedule'
  BY DEF IInv, Fatal, GroupsOK, ScheduleOK, OnSchedule, engine, locals,
         Scripting, Measuring, Repeating
<1> QED
  BY <1>1, <1>2 DEF IInv

LEMMA CreateSystemOK == IInv /\ CreateSystem => IInv'
<1> SUFFICES ASSUME IInv, CreateSystem PROVE IInv'
  OBVIOUS
<1>t. TypeOK /\ EngineTypeOK /\ opts \in OptionTypes
  BY DEF IInv, TypeOK
<1>1. curTick' \in 0 .. MaxTick /\ starttick' \in 0 .. MaxTick
  <2>1. CASE Restores(opts)
    <3>1. Restorable(opts, archive) \subseteq archive
      BY DEF Restorable
    <3>2. curTick' \in archive /\ (starttick' = 0 \/ starttick' = curTick')
      BY <2>1, <3>1 DEF CreateSystem
    <3>3. archive \subseteq 0 .. MaxTick /\ 0 \in 0 .. MaxTick
      BY <1>t, ConstantsOK DEF TypeOK
    <3> QED
      BY <3>2, <3>3
  <2>2. CASE ~Restores(opts)
    BY <1>t, <2>2 DEF CreateSystem, TypeOK, EngineTypeOK
  <2> QED
    BY <2>1, <2>2
<1>2. limit' \in [Groups -> Limits]
  <2>1. \A g \in Groups : Limit(opts, g) \in Limits
    BY DEF Limit, CpuLimit, Limits, Groups
  <2> QED
    BY <2>1 DEF CreateSystem
<1>3. EngineTypeOK'
  BY <1>t, <1>1, <1>2 DEF CreateSystem, EngineTypeOK, Groups
<1>4. TypeOK'
  BY <1>t, <1>1, <1>3, SwapListOK DEF CreateSystem, TypeOK, Ended
<1>5. GroupsOK'
  BY DEF CreateSystem, GroupsOK, Measuring, Repeating
<1>6. ScheduleOK' /\ OnSchedule'
  BY DEF IInv, CreateSystem, ScheduleOK, OnSchedule, Scripting, Measuring
<1> QED
  BY <1>4, <1>5, <1>6 DEF IInv

LEMMA SetLimitsOK == IInv /\ SetLimits => IInv'
<1> SUFFICES ASSUME IInv, SetLimits PROVE IInv'
  OBVIOUS
<1>t. TypeOK /\ EngineTypeOK /\ opts \in OptionTypes /\ starttick \in 0 .. MaxTick
  BY DEF IInv, TypeOK
<1>1. maxtick' \in 0 .. MaxTick /\ cptdir' \in Dirs
  BY <1>t, MaxTicksOK DEF SetLimits, WriteDir, TypeOK, Dirs
<1>2. /\ pc' \in {"error", "fatal", "switch", Loop(opts, maxtick')}
      /\ (pc' = "switch" => Switching(opts))
      /\ (pc' = Loop(opts, maxtick') => ~Switching(opts))
  BY LoopOK DEF SetLimits, Measuring
<1>3. EngineTypeOK'
  BY <1>t DEF SetLimits, engine, EngineTypeOK
<1>4. TypeOK'
  BY <1>t, <1>1, <1>2, <1>3, LoopOK DEF SetLimits, TypeOK, Ended, Simulating
<1>5. GroupsOK'
  <2>1. /\ active' = {"cpu"} /\ pair' = SwapList(opts) /\ opts' = opts
        /\ ~Refused(opts)
    BY DEF IInv, SetLimits, GroupsOK, engine
  <2>2. CASE pc' \in {"error", "fatal", "switch"}
    BY <1>2, <2>1, <2>2 DEF GroupsOK, Measuring, Repeating
  <2>3. CASE pc' = Loop(opts, maxtick')
    <3>1. FirstGroup(opts) = "cpu" /\ ~Switching(opts)
      BY <1>2, <1>t, <2>3, OptionsOK DEF Switching, FirstGroup
    <3>2. opts.repeat_switch > 0 =>
            SwapList(opts) = <<"cpu", "repeat_switch_cpus">>
      BY <1>t, <3>1, SwapListOK DEF Switching
    <3> QED
      BY <2>1, <2>3, <3>1, <3>2, LoopOK DEF GroupsOK, Measuring, Repeating
  <2> QED
    BY <1>2, <2>2, <2>3
<1>6. ScheduleOK' /\ OnSchedule'
  BY <1>2, LoopOK
  DEF IInv, SetLimits, ScheduleOK, OnSchedule, Scripting, Measuring, engine,
      Periodic, when, period
<1> QED
  BY <1>4, <1>5, <1>6 DEF IInv

-----------------------------------------------------------------------------
(***************************************************************************)
(* Switching CPUs.                                                         *)
(***************************************************************************)
LEMMA TypesOK ==
  ASSUME IInv
  PROVE  /\ EngineTypeOK /\ opts \in OptionTypes
         /\ curTick \in 0 .. MaxTick /\ drained \in Nat
         /\ simticks \in Nat /\ count \in Nat
         /\ maxtick \in 0 .. MaxTick
         /\ cptdir \in Dirs
         /\ Len(dropped) \in Nat
BY DEF IInv, TypeOK, EngineTypeOK

LEMMA RunOK ==
  ASSUME IInv, pc \in Simulating, Ticks >= 0, Simulate(Ticks)
  PROVE  /\ Ticks \in Nat
         /\ EngineTypeOK'
         /\ curTick' \in 0 .. MaxTick
         /\ curTick <= curTick' /\ curTick' <= curTick + Ticks
         /\ event'.cause = "limit" =>
              curTick' = IF curTick + Ticks < MaxTick THEN curTick + Ticks
                                                      ELSE MaxTick
         /\ event'.cause \in Causes
         /\ UNCHANGED <<active, drained, dropped>>
<1>1. Ticks \in Nat
  BY TicksOK
<1> HIDE DEF Ticks
<1>2. EngineTypeOK' => curTick' \in 0 .. MaxTick
  BY DEF EngineTypeOK
<1> QED
  BY <1>1, <1>2, SimulateOK, TypesOK

LEMMA NegativeTicksOK == IInv /\ NegativeTicks => IInv'
<1> SUFFICES ASSUME IInv, NegativeTicks PROVE IInv'
  OBVIOUS
<1>1. UNCHANGED <<engine, opts, archive, locals>> /\ pc' = "error"
      /\ pc \notin {"options", "fatal"}
  BY DEF NegativeTicks, Simulating
<1>2. TypeOK'
  BY <1>1 DEF IInv, TypeOK, EngineTypeOK, engine, locals, Ended
<1>3. GroupsOK' /\ ScheduleOK' /\ OnSchedule'
  BY <1>1 DEF IInv, GroupsOK, ScheduleOK, OnSchedule, engine, locals,
              Scripting, Measuring, Repeating
<1> QED
  BY <1>2, <1>3 DEF IInv

LEMMA SwitchOK == IInv /\ (Switch \/ Warmup) => IInv'
<1> SUFFICES ASSUME IInv, Switch \/ Warmup PROVE IInv'
  OBVIOUS
<1>1. /\ pc \in {"switch", "warmup"} /\ Ticks >= 0 /\ Simulate(Ticks)
      /\ pc = "switch" => pc' = "handover"
      /\ pc = "warmup" => pc' = "handover_1"
      /\ UNCHANGED <<opts, archive, locals>>
  BY DEF Switch, Warmup, RunFrom
<1>2. EngineTypeOK' /\ UNCHANGED <<active, drained, dropped>>
  BY <1>1, RunOK DEF Simulating
<1>3. TypeOK'
  BY <1>1, <1>2 DEF IInv, TypeOK, locals
<1>4. GroupsOK'
  BY <1>1, <1>2 DEF IInv, GroupsOK, locals, Measuring, Repeating
<1>5. ScheduleOK' /\ OnSchedule'
  BY <1>1, <1>2 DEF IInv, ScheduleOK, OnSchedule, locals, Scripting, Measuring
<1> QED
  BY <1>3, <1>4, <1>5 DEF IInv

LEMMA HandoverOK == IInv /\ Handover => IInv'
<1> SUFFICES ASSUME IInv, Handover PROVE IInv'
  OBVIOUS
<1>t. /\ TypeOK /\ GroupsOK /\ ScheduleOK /\ OnSchedule
      /\ opts \in OptionTypes /\ EngineTypeOK
  BY DEF IInv, TypeOK
<1>1. /\ Outgoing \in Groups /\ Incoming \in Groups
      /\ active = {Outgoing}
      /\ pc = "handover" => Outgoing = "cpu" /\ Incoming = "switch_cpus"
      /\ pc = "handover_1" =>
           Outgoing = "switch_cpus" /\ Incoming = "switch_cpus_1"
  BY <1>t DEF Handover, Outgoing, Incoming, Groups, GroupsOK
<1>2. EngineTypeOK' /\ dropped' = dropped /\ active' = {Incoming}
  BY <1>t, <1>1, SwitchCpusOK DEF Handover
<1>3. pc' \in {"warmup", Loop(opts, maxtick)}
      /\ UNCHANGED <<opts, archive, locals>>
  BY DEF Handover
<1>4. TypeOK'
  BY <1>t, <1>2, <1>3, LoopOK DEF TypeOK, locals, Simulating
<1>5. GroupsOK'
  <2>1. CASE pc' = "warmup"
    <3>1. pc = "handover" /\ opts.standard_switch > 0
      BY <2>1, LoopOK DEF Handover
    <3> QED
      BY <1>t, <1>1, <1>2, <1>3, <2>1, <3>1
      DEF GroupsOK, Measuring, Repeating, locals
  <2>2. CASE pc' = Loop(opts, maxtick)
    <3>0. /\ pc' \in {"script_inst", "script_when", "repeat", "bench"}
          /\ pc' = "repeat" => opts.repeat_switch > 0
          /\ ~Refused(opts)
      BY <1>t, <2>2, LoopOK DEF Handover, GroupsOK
    <3>1. CASE pc = "handover"
      <4>1. ~(opts.standard_switch > 0) /\ HasFutureClass(opts)
        BY <1>t, <2>2, <3>1, LoopOK DEF Handover, GroupsOK, Switching
      <4>2. FirstGroup(opts) = "switch_cpus" /\ active' = {"switch_cpus"}
        BY <1>1, <1>2, <3>1, <4>1 DEF FirstGroup
      <4>3. pair' = SwapList(opts)
        BY <1>t, <1>3, <3>1 DEF GroupsOK, locals
      <4>4. opts.repeat_switch > 0 =>
              SwapList(opts) = <<"switch_cpus", "repeat_switch_cpus">>
        BY <1>t, <4>1, SwapListOK
      <4> QED
        BY <1>3, <3>0, <4>2, <4>3, <4>4 DEF GroupsOK, Measuring, Repeating
    <3>2. CASE pc = "handover_1"
      <4>1. opts.standard_switch > 0 /\ ~(opts.repeat_switch > 0)
        BY <1>t, <3>2, OptionsOK DEF GroupsOK, Refused
      <4>2. FirstGroup(opts) = "switch_cpus_1" /\ active' = {"switch_cpus_1"}
        BY <1>1, <1>2, <3>2, <4>1 DEF FirstGroup
      <4> QED
        BY <1>3, <3>0, <4>1, <4>2 DEF GroupsOK, Measuring, Repeating
    <3> QED
      BY <3>1, <3>2 DEF Handover
  <2> QED
    BY <1>3, <2>1, <2>2
<1>6. ScheduleOK' /\ OnSchedule'
  <2>1. count = 0 /\ dropped = <<>>
    BY <1>t DEF Handover, ScheduleOK
  <2> QED
    BY <1>2, <1>3, <2>1, LoopOK
    DEF ScheduleOK, OnSchedule, locals, Scripting, Measuring, Periodic
<1> QED
  BY <1>4, <1>5, <1>6 DEF IInv

-----------------------------------------------------------------------------
(***************************************************************************)
(* The loops that only run, or that switch back and forth.                 *)
(***************************************************************************)

\* Runs of the loops that keep no schedule.
LEMMA PlainRunOK ==
  IInv /\ (ScriptInstruction \/ Bench \/ Repeat \/ RepeatLast) => IInv'
<1> SUFFICES ASSUME IInv, ScriptInstruction \/ Bench \/ Repeat \/ RepeatLast
             PROVE  IInv'
  OBVIOUS
<1>1. /\ pc \in {"script_inst", "bench", "repeat", "repeat_last"}
      /\ Ticks >= 0 /\ Simulate(Ticks)
      /\ pc = "script_inst" =>
           pc' \in {"script_inst", "script_inst_write", "finish"}
      /\ pc = "bench" => pc' \in {"bench_write", "finish"}
      /\ pc = "repeat" => pc' \in {"repeat_swap", "finish"}
      /\ pc = "repeat_last" => pc' = "finish"
      /\ UNCHANGED <<opts, archive, locals>>
  BY DEF ScriptInstruction, Bench, Repeat, RepeatLast, RunFrom
<1>2. EngineTypeOK' /\ UNCHANGED <<active, drained, dropped>>
  BY <1>1, RunOK DEF Simulating
<1>3. TypeOK'
  BY <1>1, <1>2 DEF IInv, TypeOK, locals, Simulating
<1>4. GroupsOK'
  <2>1. CASE pc \in {"repeat", "repeat_last"} /\ pc' = "finish"
    <3>1. /\ ~Refused(opts) /\ opts.repeat_switch > 0
          /\ pair \in {SwapList(opts), <<SwapList(opts)[2], SwapList(opts)[1]>>}
          /\ active = {pair[1]}
      BY <2>1 DEF IInv, GroupsOK, Repeating
    <3>2. ~(opts.standard_switch > 0)
      BY <3>1 DEF Refused
    <3>3. SwapList(opts) = <<FirstGroup(opts), "repeat_switch_cpus">>
      BY <3>1, <3>2, SwapListOK, TypesOK DEF FirstGroup
    <3>4. active \in {{FirstGroup(opts)}, {"repeat_switch_cpus"}}
      BY <3>1, <3>3
    <3> QED
      BY <1>1, <1>2, <2>1, <3>1, <3>4 DEF GroupsOK, Measuring, Repeating
  <2>2. CASE ~(pc \in {"repeat", "repeat_last"} /\ pc' = "finish")
    BY <1>1, <1>2, <2>2 DEF IInv, GroupsOK, locals, Measuring, Repeating
  <2> QED
    BY <2>1, <2>2
<1>5. ScheduleOK' /\ OnSchedule'
  BY <1>1, <1>2 DEF IInv, ScheduleOK, OnSchedule, locals, Scripting, Measuring
<1> QED
  BY <1>3, <1>4, <1>5 DEF IInv

LEMMA RepeatSwapOK == IInv /\ RepeatSwap => IInv'
<1> SUFFICES ASSUME IInv, RepeatSwap PROVE IInv'
  OBVIOUS
<1>1. /\ opts.repeat_switch > 0
      /\ pair \in {SwapList(opts), <<SwapList(opts)[2], SwapList(opts)[1]>>}
      /\ active = {pair[1]}
      /\ pc' \in {"repeat", "repeat_last"}
      /\ pair' = <<pair[2], pair[1]>>
      /\ Outgoing = pair[1] /\ Incoming = pair[2]
      /\ UNCHANGED <<opts, archive, cptdir, starttick, maxtick, simticks,
                     count, exitcause>>
  BY DEF IInv, GroupsOK, Repeating, RepeatSwap, Outgoing, Incoming
<1>2. /\ SwapList(opts) \in Groups \X Groups
      /\ SwapList(opts) = <<SwapList(opts)[1], SwapList(opts)[2]>>
  BY <1>1, SwapListOK, TypesOK
<1>3. pair \in Groups \X Groups /\ pair' \in Groups \X Groups
  BY <1>1, <1>2
<1>4. EngineTypeOK' /\ dropped' = dropped /\ active' = {pair'[1]}
      /\ drained <= drained'
  BY <1>1, <1>3, SwitchCpusOK, TypesOK DEF RepeatSwap
<1>5. TypeOK'
  BY <1>1, <1>3, <1>4 DEF IInv, TypeOK, Simulating
<1>6. GroupsOK'
  BY <1>1, <1>2, <1>4 DEF IInv, GroupsOK, RepeatSwap, Measuring, Repeating
<1>7. ScheduleOK' /\ OnSchedule'
  <2>1. /\ pc = "repeat_swap"
        /\ \A k \in 1 .. Len(dropped) : dropped[k].drained \in Nat
    BY TypesOK, DroppedOK DEF RepeatSwap
  <2>2. drained' \in Nat /\ drained \in Nat
    BY <1>4, TypesOK DEF EngineTypeOK
  <2>3. ~Periodic(opts)
    BY <2>1 DEF IInv, ScheduleOK, Scripting, Measuring
  <2>4. \A k \in 1 .. Len(dropped') : dropped'[k].drained <= drained'
    BY <1>4, <2>1, <2>2 DEF IInv, ScheduleOK
  <2>5. Len(dropped) = count
    BY <2>1 DEF IInv, ScheduleOK, Measuring
  <2> QED
    BY <1>1, <1>4, <2>3, <2>4, <2>5
    DEF ScheduleOK, OnSchedule, Scripting, Measuring
<1> QED
  BY <1>5, <1>6, <1>7 DEF IInv

-----------------------------------------------------------------------------
(***************************************************************************)
(* Checkpoints.                                                            *)
(***************************************************************************)

\* Writing a checkpoint that is not a periodic one.
LEMMA PlainWriteOK ==
  IInv /\ (ScriptInstructionWrite \/ BenchWrite \/ Finish) => IInv'
<1> SUFFICES ASSUME IInv, ScriptInstructionWrite \/ BenchWrite \/ Finish
             PROVE  IInv'
  OBVIOUS
<1>1. /\ pc \in {"script_inst_write", "bench_write", "finish"}
      /\ Checkpoint(cptdir) \/ (pc = "finish" /\ UNCHANGED engine)
      /\ pc' \in {"finish", "bench", "exited"}
      /\ pc = "finish" <=> pc' = "exited"
      /\ count' = IF pc = "bench_write" THEN count + 1 ELSE count
      /\ UNCHANGED <<opts, archive, cptdir, starttick, maxtick, pair, simticks,
                     exitcause>>
  BY DEF ScriptInstructionWrite, BenchWrite, Finish, locals
<1>2. /\ EngineTypeOK' /\ active' = active
      /\ drained' \in Nat /\ drained <= drained'
      /\ Len(dropped') \in {Len(dropped), Len(dropped) + 1}
      /\ pc # "finish" => Len(dropped') = Len(dropped) + 1
      /\ \A k \in 1 .. Len(dropped) : dropped'[k] = dropped[k]
      /\ \A k \in 1 .. Len(dropped') : dropped'[k].drained <= drained'
  <2>t. \A k \in 1 .. Len(dropped) : dropped[k].drained \in Nat
    BY TypesOK, DroppedOK
  <2>1. CASE Checkpoint(cptdir)
    <3>1. /\ EngineTypeOK' /\ active' = active
          /\ drained <= drained'
          /\ Len(dropped') = Len(dropped) + 1
          /\ \A k \in 1 .. Len(dropped) : dropped'[k] = dropped[k]
          /\ dropped'[Len(dropped')].drained = drained'
      BY <2>1, CheckpointOK, TypesOK
    <3>2. drained' \in Nat
      BY <3>1 DEF EngineTypeOK
    <3>3. ASSUME NEW k \in 1 .. Len(dropped')
          PROVE  dropped'[k].drained <= drained'
      <4>1. CASE k = Len(dropped')
        BY <3>1, <3>2, <4>1
      <4>2. CASE k # Len(dropped')
        <5>1. k \in 1 .. Len(dropped)
          BY <3>1, <4>2, TypesOK
        <5> QED
          BY <2>t, <3>1, <3>2, <5>1, TypesOK DEF IInv, ScheduleOK
      <4> QED
        BY <4>1, <4>2
    <3> QED
      BY <3>1, <3>2, <3>3
  <2>2. CASE pc = "finish" /\ UNCHANGED engine
    BY <2>2, TypesOK DEF engine, EngineTypeOK, IInv, ScheduleOK
  <2> QED
    BY <1>1, <2>1, <2>2
<1>3. TypeOK'
  BY <1>1, <1>2, TypesOK DEF IInv, TypeOK, Simulating, Ended
<1>4. GroupsOK'
  <2>1. /\ pc \in Measuring \ Repeating
        /\ pc' = "exited" \/ pc' \in Measuring \ Repeating
    BY <1>1 DEF Measuring, Repeating
  <2>2. /\ ~Refused(opts)
        /\ \/ active = {FirstGroup(opts)}
           \/ active = {"repeat_switch_cpus"} /\ opts.repeat_switch > 0
    BY <2>1 DEF IInv, GroupsOK, Measuring
  <2> QED
    BY <1>1, <1>2, <2>1, <2>2 DEF GroupsOK, Measuring, Repeating
<1>5. Periodic(opts) => pc = "finish" /\ count \in 0 .. Len(dropped)
  <2>1. Periodic(opts) => pc = "finish"
    BY <1>1 DEF IInv, ScheduleOK, Measuring, Scripting
  <2>2. Periodic(opts) /\ pc = "finish" => Len(dropped) = count
    BY DEF IInv, ScheduleOK, Measuring
  <2> QED
    BY <2>1, <2>2, TypesOK
<1>6. OnSchedule'
  <2>1. CASE ~Periodic(opts)
    BY <1>1, <2>1 DEF OnSchedule, Periodic
  <2>2. CASE Periodic(opts)
    <3>1. count' = count /\ \A k \in 1 .. count : dropped'[k] = dropped[k]
      BY <1>1, <1>2, <1>5, <2>2, TypesOK
    <3> QED
      BY <1>1, <2>2, <3>1 DEF IInv, OnSchedule, Periodic
  <2> QED
    BY <2>1, <2>2
<1>7. ScheduleOK'
  <2>1. pc' \notin Scripting
    BY <1>1 DEF Scripting
  <2>2. pc' \in Measuring \ {"finish"} => ~Periodic(opts)
    BY <1>1, <1>5 DEF Measuring
  <2>3. pc' \in Measuring \ {"finish"} => Len(dropped') = count'
    <3>1. CASE pc = "bench_write"
      <4>1. Len(dropped) = count
        BY <3>1 DEF IInv, ScheduleOK, Measuring
      <4> QED
        BY <1>1, <1>2, <3>1, <4>1, TypesOK
    <3>2. CASE pc # "bench_write"
      BY <1>1, <3>2 DEF Measuring, ScriptInstructionWrite, BenchWrite, Finish
    <3> QED
      BY <3>1, <3>2
  <2>4. pc' = "finish" /\ Periodic(opts) => Len(dropped') = count'
    BY <1>1, <1>5
  <2> QED
    BY <1>1, <1>2, <2>1, <2>2, <2>3, <2>4 DEF ScheduleOK, Scripting, Periodic
<1> QED
  BY <1>3, <1>4, <1>6, <1>7 DEF IInv

-----------------------------------------------------------------------------
(***************************************************************************)
(* The periodic checkpoints.                                               *)
(***************************************************************************)
LEMMA StayMeasuring ==
  ASSUME IInv, pc \in Measuring \ Repeating, pc' \in Measuring \ Repeating,
         active' = active, opts' = opts
  PROVE  GroupsOK'
<1>1. /\ ~Refused(opts)
      /\ \/ active = {FirstGroup(opts)}
         \/ active = {"repeat_switch_cpus"} /\ opts.repeat_switch > 0
  BY DEF IInv, GroupsOK, Measuring
<1> QED
  BY <1>1 DEF GroupsOK, Measuring, Repeating

\* What the runs of scriptCheckpoints() have in common.
LEMMA ScriptRunOK ==
  ASSUME IInv, pc \in Scripting \ {"script_write"}, Ticks >= 0, Simulate(Ticks),
         UNCHANGED <<opts, archive, cptdir, starttick, maxtick, pair, count>>,
         pc' \in {"script_when", "script_write", "script_skip", "finish"},
         simticks' \in Nat, exitcause' \in Causes,
         pc' = "script_when" => count = 0 /\ dropped = <<>>,
         pc' \in {"script_write", "script_skip"} =>
           /\ simticks' = when + count * period
           /\ simticks' <= MaxTick /\ curTick' <= simticks' + drained,
         pc' = "script_write" => simticks' <= curTick'
  PROVE  IInv'
<1>1. /\ EngineTypeOK' /\ UNCHANGED <<active, drained, dropped>>
  BY RunOK DEF Simulating, Scripting
<1>2. TypeOK'
  BY <1>1 DEF IInv, TypeOK, Simulating
<1>3. GroupsOK'
  BY <1>1, StayMeasuring DEF Scripting, Measuring, Repeating
<1>4. Periodic(opts) /\ Len(dropped) = count
  BY DEF IInv, ScheduleOK, Scripting, Measuring
<1>5. OnSchedule'
  BY <1>1 DEF IInv, OnSchedule
<1>6. ScheduleOK'
  BY <1>1, <1>4 DEF IInv, ScheduleOK, Scripting, Measuring, when, period
<1> QED
  BY <1>2, <1>3, <1>5, <1>6 DEF IInv

LEMMA ScheduleTypes ==
  ASSUME IInv, pc \in Scripting
  PROVE  /\ when \in 0 .. MaxTick /\ period \in Nat
         /\ count * period \in Nat
         /\ (count + 1) * period = count * period + period
         /\ (count - 1) * period = count * period - period
<1>1. /\ when \in 0 .. MaxTick /\ period \in Nat /\ count \in Nat
  BY OptionsOK, TypesOK DEF IInv, ScheduleOK, Periodic
<1> QED
  BY <1>1

LEMMA ScriptWhenOK == IInv /\ ScriptWhen => IInv'
<1> SUFFICES ASSUME IInv, ScriptWhen PROVE IInv'
  OBVIOUS
<1>1. /\ pc = "script_when" /\ Ticks >= 0 /\ Simulate(Ticks)
      /\ Ticks = when - curTick
      /\ pc' \in {"script_when", "script_write", "finish"}
      /\ pc' = "script_write" => event'.cause = "limit"
      /\ simticks' = when /\ exitcause' = event'.cause
      /\ UNCHANGED <<opts, archive, cptdir, starttick, maxtick, pair, count>>
  BY DEF ScriptWhen, RunFrom, Ticks, when
<1>2. when \in 0 .. MaxTick /\ count = 0 /\ dropped = <<>>
  BY <1>1, ScheduleTypes DEF IInv, ScheduleOK, Scripting
<1>3. when = when + count * period
  BY <1>1, <1>2, ScheduleTypes DEF Scripting
<1>4. /\ exitcause' \in Causes
      /\ pc' = "script_write" => curTick' = when
  BY <1>1, <1>2, RunOK, TypesOK, ConstantsOK DEF Simulating
<1> QED
  BY <1>1, <1>2, <1>3, <1>4, TypesOK, ScriptRunOK DEF Scripting

LEMMA ScriptPeriodOK == IInv /\ ScriptPeriod => IInv'
<1> SUFFICES ASSUME IInv, ScriptPeriod PROVE IInv'
  OBVIOUS
<1>1. /\ pc = "script_period" /\ Ticks >= 0 /\ Simulate(Ticks)
      /\ Ticks = period
      /\ pc' \in {"script_skip", "script_write", "finish"}
      /\ pc' = "script_write" => event'.cause = "limit"
      /\ simticks' = simticks + period /\ exitcause' = event'.cause
      /\ UNCHANGED <<opts, archive, cptdir, starttick, maxtick, pair, count>>
  BY DEF ScriptPeriod, RunFrom, AfterPeriod, Ticks, period
<1>2. /\ simticks = when + (count - 1) * period
      /\ simticks <= curTick /\ curTick <= simticks + drained
      /\ simticks + period <= maxtick
  BY <1>1 DEF IInv, ScheduleOK, Scripting
<1>3. /\ period \in Nat
      /\ simticks' = when + count * period
      /\ simticks' \in Nat /\ simticks' <= MaxTick
  <2>1. /\ when \in Nat /\ period \in Nat /\ count * period \in Nat
        /\ (count - 1) * period = count * period - period
    BY <1>1, ScheduleTypes, ConstantsOK DEF Scripting
  <2>2. /\ simticks \in Nat /\ maxtick \in Int /\ maxtick <= MaxTick
        /\ MaxTick \in Nat
    BY TypesOK, ConstantsOK
  <2> DEFINE c == count * period
             b == (count - 1) * period
  <2>3. c \in Nat /\ b = c - period /\ simticks = when + b
    BY <1>2, <2>1
  <2> HIDE DEF c, b
  <2>4. simticks + period = when + c
    BY <2>1, <2>2, <2>3
  <2>5. simticks + period \in Nat /\ simticks + period <= MaxTick
    BY <1>2, <2>1, <2>2
  <2> QED
    BY <1>1, <2>1, <2>4, <2>5 DEF c
<1>4. /\ exitcause' \in Causes
      /\ curTick' <= simticks' + drained
      /\ pc' = "script_write" => simticks' <= curTick'
  <2>1. /\ curTick' <= curTick + period
        /\ pc' = "script_write" =>
             curTick' = IF curTick + period < MaxTick THEN curTick + period
                                                      ELSE MaxTick
        /\ exitcause' \in Causes /\ curTick' \in 0 .. MaxTick
    BY <1>1, RunOK DEF Simulating
  <2>2. /\ curTick \in Int /\ drained \in Nat /\ simticks \in Nat
        /\ curTick' \in Int /\ MaxTick \in Int
    BY <2>1, TypesOK, ConstantsOK
  <2> QED
    BY <1>1, <1>2, <1>3, <2>1, <2>2
<1> QED
  BY <1>1, <1>3, <1>4, ScriptRunOK DEF Scripting

LEMMA ScriptSkipOK == IInv /\ ScriptSkip => IInv'
<1> SUFFICES ASSUME IInv, ScriptSkip PROVE IInv'
  OBVIOUS
<1>1. /\ pc = "script_skip" /\ Ticks >= 0 /\ Simulate(Ticks)
      /\ Ticks = simticks - curTick
      /\ pc' \in {"script_skip", "script_write", "finish"}
      /\ pc' = "script_write" => event'.cause = "limit"
      /\ UNCHANGED <<opts, archive, cptdir, starttick, maxtick, pair, count,
                     simticks, exitcause>>
  BY DEF ScriptSkip, RunFrom, AfterPeriod, Ticks, RestOfPeriod, locals
<1>2. /\ simticks = when + count * period
      /\ simticks <= MaxTick /\ curTick <= simticks + drained
      /\ exitcause \in Causes
  BY <1>1 DEF IInv, TypeOK, ScheduleOK, Scripting
<1>3. /\ curTick' <= simticks + drained
      /\ pc' = "script_write" => simticks <= curTick'
  <2>1. /\ curTick' \in 0 .. MaxTick /\ curTick' <= curTick + Ticks
        /\ event'.cause = "limit" =>
             curTick' = IF curTick + Ticks < MaxTick THEN curTick + Ticks
                                                     ELSE MaxTick
    BY <1>1, RunOK DEF Simulating
  <2>2. /\ curTick \in Int /\ simticks \in Int /\ drained \in Nat
        /\ MaxTick \in Int /\ curTick + Ticks = simticks
    BY <1>1, TypesOK, ConstantsOK
  <2>3. /\ pc' = "script_write" => event'.cause = "limit"
        /\ simticks <= MaxTick /\ 0 <= drained
    BY <1>1, <1>2, <2>2
  <2> QED
    BY <2>1, <2>2, <2>3
<1> QED
  BY <1>1, <1>2, <1>3, TypesOK, ScriptRunOK DEF Scripting

LEMMA ScriptLastOK == IInv /\ ScriptLast => IInv'
<1> SUFFICES ASSUME IInv, ScriptLast PROVE IInv'
  OBVIOUS
<1>1. /\ pc = "script_last" /\ Ticks >= 0 /\ Simulate(Ticks)
      /\ pc' = "finish" /\ exitcause' = event'.cause
      /\ UNCHANGED <<opts, archive, cptdir, starttick, maxtick, pair, simticks,
                     count>>
  BY DEF ScriptLast, RunFrom
<1>2. exitcause' \in Causes /\ simticks' \in Nat
  BY <1>1, RunOK, TypesOK DEF Simulating
<1> QED
  BY <1>1, <1>2, ScriptRunOK DEF Scripting

LEMMA ScriptWriteOK == IInv /\ ScriptWrite => IInv'
<1> SUFFICES ASSUME IInv, ScriptWrite PROVE IInv'
  OBVIOUS
<1>1. /\ pc = "script_write" /\ Checkpoint(cptdir)
      /\ count' = count + 1
      /\ pc' = PeriodicLoop(count')
      /\ UNCHANGED <<opts, archive, cptdir, starttick, maxtick, pair, simticks,
                     exitcause>>
  BY DEF ScriptWrite
<1>2. /\ Periodic(opts) /\ Len(dropped) = count
      /\ simticks = when + count * period
      /\ simticks <= curTick /\ curTick <= simticks + drained
      /\ simticks <= MaxTick
  BY <1>1 DEF IInv, ScheduleOK, Scripting, Measuring
<1>3. /\ EngineTypeOK' /\ active' = active
      /\ curTick <= curTick' /\ drained <= drained'
      /\ curTick' - curTick = drained' - drained
      /\ Len(dropped') = count + 1
      /\ \A k \in 1 .. count : dropped'[k] = dropped[k]
      /\ dropped'[count + 1].tick = curTick'
      /\ dropped'[count + 1].drained = drained'
  BY <1>1, <1>2, CheckpointOK, TypesOK
<1>4. /\ curTick' \in 0 .. MaxTick /\ drained' \in Nat /\ count' \in Nat
      /\ count' > 0
  BY <1>1, <1>3, TypesOK DEF EngineTypeOK
<1>5. /\ pc' \in {"script_period", "script_last", "finish"}
      /\ pc' = "script_period" => simticks + period <= maxtick
  <2>1. simticks + period \in Int /\ maxtick \in Int
    <3>1. period \in Nat
      BY <1>1, ScheduleTypes DEF Scripting
    <3>2. simticks \in Nat /\ maxtick \in Int
      BY TypesOK
    <3> QED
      BY <3>1, <3>2
  <2> QED
    BY <1>1, <2>1 DEF PeriodicLoop, period
<1>6. TypeOK'
  BY <1>1, <1>3, <1>4, <1>5 DEF IInv, TypeOK, Simulating
<1>7. GroupsOK'
  BY <1>1, <1>3, <1>5, StayMeasuring DEF Measuring, Repeating
<1>8. simticks <= curTick' /\ curTick' <= simticks + drained'
  BY <1>2, <1>3, <1>4, TypesOK
<1>9. OnSchedule'
  <2> SUFFICES ASSUME NEW k \in 1 .. count + 1
               PROVE  dropped'[k].tick \in
                        when + (k - 1) * period
                          .. when + (k - 1) * period + dropped'[k].drained
    BY <1>1 DEF OnSchedule, when, period
  <2>1. CASE k = count + 1
    <3>1. (k - 1) * period = count * period
      BY <2>1, TypesOK
    <3>2. curTick' \in simticks .. simticks + drained'
      BY <1>4, <1>8, TypesOK
    <3> QED
      BY <1>2, <1>3, <2>1, <3>1, <3>2
  <2>2. CASE k # count + 1
    <3>1. k \in 1 .. count
      BY <2>2, TypesOK
    <3> QED
      BY <1>2, <1>3, <3>1 DEF IInv, OnSchedule, when, period
  <2> QED
    BY <2>1, <2>2
<1>10. ScheduleOK'
  <2>1. \A k \in 1 .. Len(dropped') : dropped'[k].drained <= drained'
    <3> SUFFICES ASSUME NEW k \in 1 .. count + 1
                 PROVE  dropped'[k].drained <= drained'
      BY <1>3
    <3>1. CASE k = count + 1
      BY <1>3, <1>4, <3>1
    <3>2. CASE k # count + 1
      <4>1. k \in 1 .. count
        BY <3>2, TypesOK
      <4>2. dropped[k].drained \in Nat /\ dropped[k].drained <= drained
        BY <1>2, <4>1, DroppedOK, TypesOK DEF IInv, ScheduleOK
      <4>3. dropped'[k] = dropped[k]
        BY <1>3, <4>1
      <4>4. drained \in Nat /\ drained' \in Nat /\ drained <= drained'
        BY <1>3, <1>4, TypesOK
      <4> QED
        BY <4>2, <4>3, <4>4, SMT
    <3> QED
      BY <3>1, <3>2
  <2>2. simticks = when + (count' - 1) * period
    <3>1. count' - 1 = count
      BY <1>1, TypesOK
    <3> QED
      BY <1>2, <3>1
  <2> QED
    BY <1>1, <1>2, <1>3, <1>4, <1>5, <1>8, <2>1, <2>2
    DEF ScheduleOK, Scripting, Measuring, Periodic, when, period
<1> QED
  BY <1>6, <1>7, <1>9, <1>10 DEF IInv

-----------------------------------------------------------------------------
LEMMA StutterOK == IInv /\ UNCHANGED vars => IInv'
<1> SUFFICES ASSUME IInv, UNCHANGED vars PROVE IInv'
  OBVIOUS
<1>1. TypeOK'
  BY DEF IInv, TypeOK, EngineTypeOK, vars, engine
<1>2. GroupsOK'
  BY DEF IInv, GroupsOK, vars, engine
<1>3. ScheduleOK'
  BY DEF IInv, ScheduleOK, vars, engine, when, period
<1>4. OnSchedule'
  BY DEF IInv, OnSchedule, vars, engine
<1> QED
  BY <1>1, <1>2, <1>3, <1>4 DEF IInv

LEMMA Inductive == Spec => []IInv
<1>1. IInv /\ [Next]_vars => IInv'
  BY FatalOK, CreateSystemOK, SetLimitsOK, NegativeTicksOK, SwitchOK, HandoverOK,
     PlainRunOK, PlainWriteOK, ScriptWhenOK, ScriptWriteOK, ScriptPeriodOK,
     ScriptSkipOK, ScriptLastOK, RepeatSwapOK, StutterOK
  DEF Next
<1> QED
  BY InitInv, <1>1, PTL DEF Spec

\* Every variable keeps its type in every reachable state.
THEOREM TypeCorrect == Spec => []TypeOK
<1>1. IInv => TypeOK
  BY DEF IInv
<1> QED
  BY Inductive, <1>1, PTL

\* Every hand-over is legal: the group it takes over from is the one that
\* runs, and the group it hands to exists and is switched out.
THEOREM LegalHandovers == Spec => []HandoverIsLegal
<1>1. IInv => HandoverIsLegal
  <2> SUFFICES ASSUME IInv, pc \in {"handover", "handover_1", "repeat_swap"}
               PROVE  active = {Outgoing} /\ Incoming \in Created(opts) \ active
    BY DEF HandoverIsLegal
  <2>1. CASE pc = "handover"
    BY <2>1 DEF IInv, GroupsOK, Outgoing, Incoming, Created
  <2>2. CASE pc = "handover_1"
    BY <2>2 DEF IInv, GroupsOK, Outgoing, Incoming, Created
  <2>3. CASE pc = "repeat_swap"
    <3>1. /\ opts.repeat_switch > 0
          /\ pair \in {SwapList(opts), <<SwapList(opts)[2], SwapList(opts)[1]>>}
          /\ active = {pair[1]} /\ Outgoing = pair[1] /\ Incoming = pair[2]
      BY <2>3 DEF IInv, GroupsOK, Repeating, Outgoing, Incoming
    <3>2. SwapList(opts) = <<IF HasFutureClass(opts) THEN "switch_cpus"
                                                     ELSE "cpu",
                             "repeat_switch_cpus">>
      BY <3>1, SwapListOK, TypesOK
    <3> QED
      BY <3>1, <3>2 DEF Created, Switching
  <2> QED
    BY <2>1, <2>2, <2>3
<1> QED
  BY Inductive, <1>1, PTL

\* The measured loop runs on the requested CPU class.
THEOREM RequestedCpu == Spec => []MeasuredOnRequestedCpu
<1>1. IInv => MeasuredOnRequestedCpu
  <2> SUFFICES ASSUME IInv, pc \in Measuring, NEW g \in active
               PROVE  Class(opts, g) = IF opts.standard_switch > 0
                                         THEN "O3" ELSE opts.cpu_type
    BY DEF MeasuredOnRequestedCpu
  <2>1. g = FirstGroup(opts) \/ (g = "repeat_switch_cpus" /\ opts.repeat_switch > 0)
    <3>1. CASE pc \in Repeating
      <4>1. /\ ~Refused(opts) /\ opts.repeat_switch > 0
            /\ pair \in {SwapList(opts),
                         <<SwapList(opts)[2], SwapList(opts)[1]>>}
            /\ active = {pair[1]}
        BY <3>1 DEF IInv, GroupsOK, Repeating
      <4>2. SwapList(opts) = <<FirstGroup(opts), "repeat_switch_cpus">>
        BY <4>1, SwapListOK, TypesOK DEF FirstGroup, Refused
      <4> QED
        BY <4>1, <4>2
    <3>2. CASE pc \notin Repeating
      BY <3>2 DEF IInv, GroupsOK
    <3> QED
      BY <3>1, <3>2
  <2>2. opts.repeat_switch > 0 => ~(opts.standard_switch > 0)
    BY DEF IInv, GroupsOK, Measuring, Refused
  <2> QED
    BY <2>1, <2>2 DEF Class, FirstGroup, InitialClass, HasFutureClass
<1> QED
  BY Inductive, <1>1, PTL

\* Periodic checkpoints are on time up to the time spent draining.
THEOREM CheckpointsOnSchedule == Spec => []OnSchedule
<1>1. IInv => OnSchedule
  BY DEF IInv
<1> QED
  BY Inductive, <1>1, PTL

-----------------------------------------------------------------------------
(***************************************************************************)
(* run() stops at maxtick.                                                 *)
(***************************************************************************)
Unlimited == {"options", "limits", "fatal"}

\* What precedes a loop and is not bounded by maxtick.
Unbounded == {"warmup", "handover_1", "script_inst", "script_inst_write"}

\* How far from its last tick each call is made: the first period of a restored
\* run begins at most SwitchTicks after the start, every other period and
\* round of the repeated switch where it fits.
WithinLimit ==
  Bounded(opts) =>
    /\ curTick <= LastTick(opts) + drained
    /\ pc \notin Unbounded
    /\ pc \in {"switch", "handover"} => Switching(opts)
    /\ pc = "switch" => curTick <= starttick + drained
    /\ pc = "handover" => curTick <= starttick + SwitchTicks + drained
    /\ pc \in Scripting \ {"script_when"} => simticks <= maxtick
    /\ pc = "repeat" => curTick + opts.repeat_switch <= LastTick(opts) + drained

LimitOK ==
  /\ pc \in {"options", "limits"} =>
       /\ maxtick = MaxTick
       /\ ~Restores(opts) => curTick = 0 /\ starttick = 0
  /\ pc = "options" => curTick = 0
  /\ pc = "limits" /\ Restores(opts) /\ ~ByInstruction(opts) => starttick = curTick
  /\ pc \notin Unlimited => WithinLimit

\* The last tick is maxtick, or where the first period of a restored run ends.
LEMMA LastTickOK ==
  ASSUME IInv
  PROVE  /\ LastTick(opts) \in Nat
         /\ maxtick <= LastTick(opts)
         /\ Switching(opts) => starttick + SwitchTicks <= LastTick(opts)
         /\ Loop(opts, maxtick) = "repeat" =>
              /\ starttick + opts.repeat_switch <= LastTick(opts)
              /\ Switching(opts) =>
                   starttick + SwitchTicks + opts.repeat_switch <= LastTick(opts)
<1>1. /\ starttick \in Nat /\ maxtick \in Nat /\ SwitchTicks \in Nat
      /\ opts.repeat_switch \in Nat
  BY TypesOK, OptionsOK, ConstantsOK, SimulationAssumption DEF IInv, TypeOK
<1> QED
  BY <1>1 DEF LastTick, Unchecked

LEMMA LimitInit == Init => LimitOK
BY ConstantsOK DEF Init, LimitOK, Unlimited

\* No step but SetLimits changes what a run is bounded by.
LEMMA Settled ==
  ASSUME IInv, LimitOK, pc \notin Unlimited, pc' \notin Unlimited,
         opts' = opts, maxtick' = maxtick, starttick' = starttick,
         Bounded(opts) =>
           /\ curTick' <= LastTick(opts) + drained'
           /\ pc' \notin Unbounded \cup {"switch"}
           /\ pc' = "handover" =>
                Switching(opts) /\ curTick' <= starttick + SwitchTicks + drained'
           /\ pc' \in Scripting \ {"script_when"} => simticks' <= maxtick
           /\ pc' = "repeat" =>
                curTick' + opts.repeat_switch <= LastTick(opts) + drained'
  PROVE  LimitOK'
<1>1. Bounded(opts)' <=> Bounded(opts)
  BY DEF Bounded
<1>2. LastTick(opts)' = LastTick(opts)
  BY DEF LastTick, Unchecked
<1> QED
  BY <1>1, <1>2 DEF LimitOK, WithinLimit, Unlimited

LEMMA LimitSetUp == IInv /\ LimitOK /\ (Fatal \/ CreateSystem) => LimitOK'
<1> SUFFICES ASSUME IInv, LimitOK, Fatal \/ CreateSystem PROVE LimitOK'
  OBVIOUS
<1>1. CASE Fatal
  BY <1>1 DEF Fatal, LimitOK, Unlimited
<1>2. CASE CreateSystem
  <2>1. /\ pc' \in {"initialized", "limits"}
        /\ maxtick' = MaxTick /\ opts' = opts
        /\ ~Restores(opts) => curTick' = 0 /\ starttick' = 0
        /\ Restores(opts) /\ ~ByInstruction(opts) => starttick' = curTick'
        /\ drained' = drained
    BY <1>2 DEF CreateSystem, LimitOK
  <2>2. curTick' <= LastTick(opts)' + drained'
    <3>1. archive \subseteq 0 .. MaxTick
      BY DEF IInv, TypeOK
    <3>2. curTick' \in 0 .. MaxTick
      BY <1>2, <3>1, TypesOK DEF CreateSystem, Restorable
    <3>3. IInv'
      BY <1>2, CreateSystemOK
    <3>4. /\ starttick' \in Nat /\ maxtick' \in Nat /\ SwitchTicks \in Nat
          /\ opts'.repeat_switch \in Nat
      BY <2>1, <3>3, TypesOK, OptionsOK, ConstantsOK DEF IInv, TypeOK
    <3>5. LastTick(opts)' \in Nat /\ maxtick' <= LastTick(opts)'
      BY <3>4 DEF LastTick, Unchecked
    <3> QED
      BY <2>1, <3>2, <3>5, TypesOK, ConstantsOK
  <2> QED
    BY <2>1, <2>2 DEF LimitOK, WithinLimit, Unlimited, Unbounded, Scripting,
                      Restores, ByInstruction
<1> QED
  BY <1>1, <1>2

LEMMA LimitSet == IInv /\ LimitOK /\ SetLimits => LimitOK'
<1> SUFFICES ASSUME IInv, LimitOK, SetLimits PROVE LimitOK'
  OBVIOUS
<1>1. /\ pc = "limits" /\ opts' = opts
      /\ maxtick' = MaxTicks(opts, starttick) /\ UNCHANGED <<curTick, drained>>
      /\ pc' = IF opts.checkpoint_restore = 0 THEN "error"
               ELSE IF Restores(opts) /\ maxtick' < starttick THEN "fatal"
               ELSE IF Switching(opts) THEN "switch" ELSE Loop(opts, maxtick')
  BY DEF SetLimits, engine
<1>2. maxtick' \in 0 .. MaxTick
  BY <1>1, MaxTicksOK DEF IInv, TypeOK
<1>3. /\ ~Restores(opts) => curTick = 0 /\ starttick = 0
      /\ Restores(opts) /\ ~ByInstruction(opts) => starttick = curTick
  BY <1>1 DEF LimitOK
<1>4. pc' \in {"error", "fatal", "switch", "script_inst", "script_when", "repeat",
               "bench"}
  BY <1>1, LoopOK
<1>5. ASSUME Bounded(opts)', pc' # "fatal"
      PROVE  /\ curTick' <= LastTick(opts)' + drained'
             /\ pc' \notin Unbounded
             /\ pc' = "switch" =>
                  Switching(opts') /\ curTick' <= starttick' + drained'
             /\ pc' = "repeat" =>
                  curTick' + opts'.repeat_switch <= LastTick(opts)' + drained'
  <2>1. /\ Restores(opts) => ~ByInstruction(opts)
        /\ TakesCheckpoints(opts) => ~ByInstruction(opts)
    BY <1>1, <1>5 DEF Bounded, Restores, ByInstruction, TakesCheckpoints
  <2>2. starttick = curTick /\ starttick' = starttick
    BY <1>3, <2>1 DEF SetLimits
  <2>3. curTick <= maxtick'
    <3>1. CASE Restores(opts)
      BY <1>1, <1>2, <1>5, <2>2, <3>1, TypesOK DEF Restores
    <3>2. CASE ~Restores(opts)
      BY <1>2, <1>3, <3>2
    <3> QED
      BY <3>1, <3>2
  <2>4. /\ starttick' \in Nat /\ maxtick' \in Nat /\ SwitchTicks \in Nat
        /\ opts'.repeat_switch \in Nat
    BY <1>1, <1>2, <2>2, TypesOK, OptionsOK, ConstantsOK DEF IInv, TypeOK
  <2>5. /\ LastTick(opts)' \in Nat /\ maxtick' <= LastTick(opts)'
        /\ Loop(opts', maxtick') = "repeat" =>
             starttick' + opts'.repeat_switch <= LastTick(opts)'
    BY <2>4 DEF LastTick, Unchecked
  <2>6. pc' \notin Unbounded
    BY <1>1, <1>4, <2>1 DEF Unbounded, Loop
  <2>7. pc' = "switch" => Switching(opts')
    BY <1>1, <1>4, LoopOK
  <2>8. pc' = "repeat" =>
          curTick' + opts'.repeat_switch <= LastTick(opts)' + drained'
    <3>1. pc' = "repeat" => Loop(opts', maxtick') = "repeat"
      BY <1>1
    <3> QED
      BY <1>1, <2>2, <2>5, <3>1, OptionsOK, TypesOK
  <2> QED
    BY <1>1, <1>2, <2>2, <2>3, <2>5, <2>6, <2>7, <2>8, TypesOK
<1>6. pc' # "fatal" => WithinLimit'
  BY <1>1, <1>4, <1>5 DEF WithinLimit, Scripting, Unbounded
<1> QED
  BY <1>4, <1>6 DEF LimitOK, Unlimited

LEMMA LimitPlain ==
  ASSUME IInv, LimitOK,
         \/ NegativeTicks \/ Switch \/ Warmup \/ Handover \/ ScriptInstruction
         \/ ScriptInstructionWrite \/ Finish
  PROVE  LimitOK'
<1>1. /\ pc \notin Unlimited /\ opts' = opts /\ maxtick' = maxtick
      /\ simticks' = simticks /\ starttick' = starttick
      /\ pc' \notin Unlimited
  BY LoopOK DEF NegativeTicks, Switch, Warmup, Handover, ScriptInstruction,
     ScriptInstructionWrite, Finish, RunFrom, locals, Unlimited, Simulating,
     Measuring
<1>2. CASE NegativeTicks
  BY <1>1, <1>2, Settled DEF NegativeTicks, engine, LimitOK, WithinLimit,
     Unbounded, Scripting
<1>3. CASE Warmup \/ ScriptInstruction \/ ScriptInstructionWrite
  <2>1. pc \in Unbounded
    BY <1>3 DEF Warmup, ScriptInstruction, ScriptInstructionWrite, RunFrom, Unbounded
  <2>2. ~Bounded(opts)
    BY <1>1, <2>1 DEF LimitOK, WithinLimit
  <2> QED
    BY <1>1, <2>2, Settled
<1>5. CASE Switch
  <2>1. /\ pc = "switch" /\ pc' = "handover" /\ Ticks >= 0 /\ Simulate(Ticks)
    BY <1>5 DEF Switch, RunFrom
  <2>2. SUFFICES ASSUME Bounded(opts)
                 PROVE  /\ curTick' <= LastTick(opts) + drained'
                        /\ Switching(opts)
                        /\ curTick' <= starttick + SwitchTicks + drained'
    BY <1>1, <2>1, Settled DEF Unbounded, Scripting
  <2>3. Ticks = SwitchTicks
    BY <2>1, <2>2 DEF Ticks, Bounded, FastForwards
  <2>4. Switching(opts) /\ curTick <= starttick + drained
    BY <1>1, <2>1, <2>2 DEF LimitOK, WithinLimit
  <2>5. /\ curTick \in Nat /\ curTick' \in Nat /\ drained \in Nat
        /\ drained' = drained /\ curTick' <= curTick + SwitchTicks
        /\ starttick \in Nat /\ SwitchTicks \in Nat
    BY <2>1, <2>3, RunOK, TypesOK, ConstantsOK DEF IInv, TypeOK, Simulating
  <2> QED
    BY <2>4, <2>5, LastTickOK
<1>6. CASE Handover
  <2>1. SUFFICES ASSUME Bounded(opts)
                 PROVE  /\ curTick' <= LastTick(opts) + drained'
                        /\ pc' \notin Unbounded \cup {"switch", "handover"}
                        /\ pc' \in Scripting => pc' = "script_when"
                        /\ pc' = "repeat" =>
                             curTick' + opts.repeat_switch <= LastTick(opts) + drained'
    BY <1>1, Settled
  <2>2. /\ pc = "handover" /\ SwitchCpus(Outgoing, Incoming)
        /\ pc' = Loop(opts, maxtick)
    BY <1>1, <1>6, <2>1, OptionsOK DEF Handover, LimitOK, WithinLimit, Unbounded, Bounded
  <2>3. Switching(opts) /\ curTick <= starttick + SwitchTicks + drained
    BY <1>1, <2>1, <2>2 DEF LimitOK, WithinLimit
  <2>4. Drain
    BY <2>2 DEF SwitchCpus
  <2>5. /\ curTick' - curTick = drained' - drained
        /\ curTick' \in Int /\ drained' \in Int
        /\ curTick \in Nat /\ drained \in Nat /\ starttick \in Nat
        /\ SwitchTicks \in Nat /\ opts.repeat_switch \in Nat
    BY <2>4, DrainOK, TypesOK, OptionsOK, SimulationAssumption DEF IInv, TypeOK
  <2>6. /\ pc' \in {"script_inst", "script_when", "repeat", "bench"}
        /\ pc' # "script_inst"
    BY <2>1, <2>2, LoopOK DEF Loop, Bounded
  <2> QED
    BY <2>2, <2>3, <2>5, <2>6, LastTickOK DEF Unbounded, Scripting
<1>4. CASE Finish
  <2>1. /\ pc = "finish" /\ pc' = "exited"
        /\ Checkpoint(cptdir) \/ UNCHANGED engine
    BY <1>4 DEF Finish
  <2>2. \/ UNCHANGED <<curTick, drained>>
        \/ /\ curTick' - curTick = drained' - drained
           /\ curTick' \in Int /\ drained' \in Int
    <3>1. CASE Checkpoint(cptdir)
      BY <3>1, CheckpointOK, TypesOK DEF EngineTypeOK
    <3>2. CASE UNCHANGED engine
      BY <3>2 DEF engine
    <3> QED
      BY <2>1, <3>1, <3>2
  <2>3. Bounded(opts) => curTick' <= LastTick(opts) + drained'
    BY <1>1, <2>2, TypesOK, LastTickOK DEF LimitOK, WithinLimit
  <2> QED
    BY <1>1, <2>1, <2>3, Settled DEF Unbounded, Scripting
<1> QED
  BY <1>2, <1>3, <1>4, <1>5, <1>6

\* The calls that are given what is left up to maxtick, or up to a point before.
LEMMA LimitRun ==
  ASSUME IInv, LimitOK,
         \/ Bench \/ RepeatLast \/ Repeat
         \/ ScriptWhen \/ ScriptPeriod \/ ScriptSkip \/ ScriptLast
  PROVE  LimitOK'
<1>1. /\ pc \in Simulating \ Unbounded /\ pc \notin Unlimited
      /\ Ticks >= 0 /\ Simulate(Ticks)
      /\ opts' = opts /\ maxtick' = maxtick /\ starttick' = starttick
      /\ pc' \notin Unlimited \cup Unbounded \cup {"repeat", "switch", "handover"}
  BY DEF Bench, RepeatLast, Repeat, ScriptWhen, ScriptPeriod, ScriptSkip,
     ScriptLast, RunFrom, AfterPeriod, locals, Unlimited, Unbounded, Simulating
<1>2. /\ curTick \in Nat /\ curTick' \in Nat /\ drained \in Nat /\ drained' = drained
      /\ maxtick \in Nat /\ simticks \in Nat /\ opts.repeat_switch \in Nat
      /\ Ticks \in Nat /\ curTick' <= curTick + Ticks
      /\ LastTick(opts) \in Nat /\ maxtick <= LastTick(opts)
  BY <1>1, RunOK, TypesOK, OptionsOK, ConstantsOK, LastTickOK
<1> SUFFICES ASSUME Bounded(opts)
             PROVE  /\ curTick' <= LastTick(opts) + drained
                    /\ pc' \in Scripting \ {"script_when"} => simticks' <= maxtick
  BY <1>1, <1>2, Settled
<1>3. /\ pc \in Scripting \ {"script_when"} => simticks <= maxtick
      /\ pc = "repeat" => curTick + opts.repeat_switch <= LastTick(opts) + drained
  BY <1>1 DEF LimitOK, WithinLimit
<1>4. pc \in Scripting \ {"script_when"} => curTick <= simticks + drained
  BY DEF IInv, ScheduleOK
<1>5. CASE Bench \/ RepeatLast
  <2>1. Ticks = maxtick - curTick /\ pc' \notin Scripting
    BY <1>5 DEF Bench, RepeatLast, RunFrom, Ticks, Scripting
  <2> QED
    BY <1>2, <2>1
<1>6. CASE Repeat
  <2>1. pc = "repeat" /\ Ticks = opts.repeat_switch /\ pc' \notin Scripting
    BY <1>6 DEF Repeat, RunFrom, Ticks, Scripting
  <2> QED
    BY <1>2, <1>3, <2>1
<1>7. CASE ScriptWhen
  <2>1. pc = "script_when" /\ Ticks = when - curTick /\ simticks' = when
    BY <1>7 DEF ScriptWhen, RunFrom, Ticks, when
  <2>2. when \in Nat /\ when <= maxtick
    BY <2>1, ScheduleTypes DEF Bounded, IInv, ScheduleOK, Scripting, Periodic, when
  <2> QED
    BY <1>2, <2>1, <2>2
<1>8. CASE ScriptPeriod
  <2>1. pc = "script_period" /\ Ticks = period /\ simticks' = simticks + period
    BY <1>8 DEF ScriptPeriod, RunFrom, Ticks, period
  <2>2. period \in Nat /\ simticks + period <= maxtick
    BY <2>1, ScheduleTypes DEF IInv, ScheduleOK, Scripting
  <2> QED
    BY <1>2, <1>4, <2>1, <2>2 DEF Scripting
<1>9. CASE ScriptSkip
  <2>1. pc = "script_skip" /\ Ticks = simticks - curTick /\ simticks' = simticks
    BY <1>9 DEF ScriptSkip, RunFrom, Ticks, RestOfPeriod, locals
  <2> QED
    BY <1>2, <1>3, <2>1 DEF Scripting
<1>10. CASE ScriptLast
  <2>1. pc = "script_last" /\ Ticks = maxtick - simticks /\ pc' = "finish"
    BY <1>10 DEF ScriptLast, RunFrom, Ticks
  <2> QED
    BY <1>2, <1>3, <1>4, <2>1 DEF Scripting
<1> QED
  BY <1>5, <1>6, <1>7, <1>8, <1>9, <1>10

\* What drains counts for both sides.
LEMMA LimitWrite ==
  ASSUME IInv, LimitOK, ScriptWrite \/ BenchWrite
  PROVE  LimitOK'
<1>1. /\ pc \in {"script_write", "bench_write"}
      /\ Checkpoint(cptdir) /\ opts' = opts /\ maxtick' = maxtick
      /\ simticks' = simticks /\ starttick' = starttick
      /\ pc' \in {"finish", "script_last", "script_period", "bench"}
      /\ pc' \in Scripting => pc = "script_write"
  BY DEF ScriptWrite, BenchWrite, PeriodicLoop, Scripting
<1>2. /\ curTick' - curTick = drained' - drained
      /\ curTick' \in Int /\ drained' \in Int
  BY <1>1, CheckpointOK, TypesOK DEF EngineTypeOK
<1>3. Bounded(opts) => /\ curTick <= LastTick(opts) + drained
                       /\ pc = "script_write" => simticks <= maxtick
  BY <1>1 DEF LimitOK, WithinLimit, Unlimited, Scripting
<1>4. Bounded(opts) => curTick' <= LastTick(opts) + drained'
  BY <1>2, <1>3, TypesOK, LastTickOK
<1>5. /\ pc \notin Unlimited
      /\ pc' \notin Unlimited \cup Unbounded \cup {"repeat", "switch", "handover"}
  BY <1>1 DEF Unlimited, Unbounded
<1> QED
  BY <1>1, <1>3, <1>4, <1>5, Settled

LEMMA LimitSwap == IInv /\ LimitOK /\ RepeatSwap => LimitOK'
<1> SUFFICES ASSUME IInv, LimitOK, RepeatSwap PROVE LimitOK'
  OBVIOUS
<1>1. /\ pc = "repeat_swap" /\ SwitchCpus(Outgoing, Incoming)
      /\ opts' = opts /\ maxtick' = maxtick /\ starttick' = starttick
      /\ pc' = IF maxtick - curTick' <= opts.repeat_switch THEN "repeat_last"
                                                           ELSE "repeat"
  BY DEF RepeatSwap
<1>2. Drain
  BY <1>1 DEF SwitchCpus
<1>3. /\ curTick' - curTick = drained' - drained
      /\ curTick' \in Int /\ drained' \in Int
  BY <1>2, DrainOK, TypesOK
<1>4. Bounded(opts) => curTick' <= LastTick(opts) + drained'
  BY <1>1, <1>3, TypesOK, LastTickOK DEF LimitOK, WithinLimit, Unlimited
<1>5. pc' = "repeat" => curTick' + opts.repeat_switch <= LastTick(opts) + drained'
  <2>1. /\ opts.repeat_switch \in Int /\ maxtick \in Int
        /\ drained' \in Nat
    BY <1>2, DrainOK, TypesOK, OptionsOK
  <2>2. pc' = "repeat" => ~(maxtick - curTick' <= opts.repeat_switch)
    BY <1>1
  <2> QED
    BY <1>3, <2>1, <2>2, LastTickOK
<1> QED
  BY <1>1, <1>4, <1>5, Settled DEF Unlimited, Unbounded, Scripting

LEMMA LimitStutter == LimitOK /\ UNCHANGED vars => LimitOK'
BY DEF vars, engine, locals, LimitOK, WithinLimit, Bounded, LastTick, Unchecked,
       Restores, ByInstruction

\* run() stops at maxtick (StopsAtMaxtick), or where a restored run first looks
\* at it: a run whose length is given in ticks passes that tick by no more than
\* it spent draining, whichever of scriptCheckpoints, benchCheckpoints and
\* repeatSwitch it is in, and however often the guest interrupts a period.
THEOREM StopsInTime == Spec => []StopsAtMaxtick
<1>1. IInv /\ LimitOK /\ [Next]_vars => LimitOK'
  BY LimitSetUp, LimitSet, LimitPlain, LimitRun, LimitWrite, LimitSwap,
     LimitStutter DEF Next
<1>2. IInv /\ LimitOK => StopsAtMaxtick
  BY DEF LimitOK, WithinLimit, Unlimited, StopsAtMaxtick
<1> QED
  BY Inductive, LimitInit, <1>1, <1>2, PTL DEF Spec

-----------------------------------------------------------------------------
(***************************************************************************)
(* What the invariants above do not say: how many checkpoints may still be *)
(* written, and where they go.                                             *)
(***************************************************************************)
MayWrite == {"script_write", "script_period", "script_skip", "bench",
             "bench_write"}

QuotaOK ==
  /\ opts.max_checkpoints > 0 /\ pc \in Measuring =>
       Len(dropped) <= opts.max_checkpoints
  /\ opts.max_checkpoints > 0 /\ pc \in MayWrite =>
       Len(dropped) < opts.max_checkpoints
  /\ pc \notin {"options", "limits"} \cup Ended => cptdir \notin FirstSet(opts)

LEMMA DroppedLen ==
  ASSUME IInv
  PROVE  /\ Len(dropped) \in Nat /\ count \in Nat /\ opts.max_checkpoints \in Nat
         /\ pc \in Measuring \ {"finish"} => Len(dropped) = count
BY TypesOK, OptionsOK DEF IInv, ScheduleOK

\* A call of the simulator writes nothing, so only the loops that may write
\* next have to be told apart.
LEMMA QuotaRun ==
  ASSUME IInv, QuotaOK, dropped' = dropped, opts' = opts, cptdir' = cptdir,
         pc \notin {"options", "limits"} \cup Ended,
         \/ pc' \in Ended
         \/ dropped = <<>>
         \/ /\ pc \in Measuring
            /\ pc' \notin MayWrite
         \/ pc \in MayWrite
  PROVE  QuotaOK'
<1>1. cptdir' \notin FirstSet(opts')
  BY DEF QuotaOK, MayWrite
<1>2. CASE pc' \in Ended
  BY <1>2 DEF QuotaOK, MayWrite, Ended, Measuring
<1>3. CASE dropped = <<>>
  <2>1. Len(dropped') = 0 /\ opts'.max_checkpoints \in Nat
    BY <1>3, DroppedLen
  <2> QED
    BY <1>1, <2>1 DEF QuotaOK, MayWrite
<1>4. CASE /\ pc \in Measuring
           /\ pc' \notin MayWrite
  BY <1>1, <1>4 DEF QuotaOK, MayWrite
<1>5. CASE pc \in MayWrite
  <2>1. opts.max_checkpoints > 0 => Len(dropped) < opts.max_checkpoints
    BY <1>5 DEF QuotaOK, MayWrite
  <2> QED
    BY <1>1, <2>1, DroppedLen DEF QuotaOK, MayWrite
<1> QED
  BY <1>2, <1>3, <1>4, <1>5

\* Every loop stops asking for checkpoints when it has them all.
LEMMA QuotaWrite ==
  ASSUME IInv, QuotaOK, ScriptInstructionWrite \/ ScriptWrite \/ BenchWrite
  PROVE  QuotaOK'
<1>1. /\ pc \in {"script_inst_write", "script_write", "bench_write"}
      /\ Checkpoint(cptdir) /\ opts' = opts /\ cptdir' = cptdir
  BY DEF ScriptInstructionWrite, ScriptWrite, BenchWrite, locals
<1>2. /\ Len(dropped') = Len(dropped) + 1
      /\ Len(dropped) = count
      /\ cptdir' \notin FirstSet(opts')
  BY <1>1, CheckpointOK, TypesOK, DroppedLen DEF QuotaOK, MayWrite, Ended, Measuring
<1>3. opts.max_checkpoints > 0 => Len(dropped) < opts.max_checkpoints
  <2>1. CASE pc = "script_inst_write"
    <3>1. Len(dropped) = 0
      BY <2>1, TypesOK DEF IInv, ScheduleOK
    <3> QED
      BY <3>1, DroppedLen
  <2>2. CASE pc # "script_inst_write"
    BY <1>1, <2>2 DEF QuotaOK, MayWrite
  <2> QED
    BY <2>1, <2>2
<1>4. /\ pc' \in {"finish", "bench", "script_last", "script_period"}
      /\ pc' \in {"bench", "script_period"} /\ opts.max_checkpoints > 0 =>
           Len(dropped') < opts.max_checkpoints
  <2>1. CASE ScriptInstructionWrite
    BY <2>1 DEF ScriptInstructionWrite
  <2>2. CASE ScriptWrite
    BY <1>2, <1>3, <2>2, DroppedLen DEF ScriptWrite, PeriodicLoop
  <2>3. CASE BenchWrite
    BY <1>2, <1>3, <2>3, DroppedLen DEF BenchWrite
  <2> QED
    BY <2>1, <2>2, <2>3
<1> QED
  BY <1>1, <1>2, <1>3, <1>4, DroppedLen DEF QuotaOK, MayWrite, Ended

LEMMA QuotaStep == IInv /\ QuotaOK /\ Next => QuotaOK'
<1> SUFFICES ASSUME IInv, QuotaOK, Next PROVE QuotaOK'
  OBVIOUS
<1>1. CASE Fatal \/ CreateSystem
  BY <1>1 DEF Fatal, CreateSystem, QuotaOK, MayWrite, Measuring, Ended
<1>2. CASE SetLimits
  <2>1. dropped' = <<>> /\ opts' = opts
    BY <1>2 DEF IInv, ScheduleOK, SetLimits, engine
  <2>2. Len(dropped') = 0 /\ opts'.max_checkpoints \in Nat
    BY <2>1, DroppedLen
  <2>3. cptdir' \notin FirstSet(opts')
    BY <1>2 DEF SetLimits, WriteDir, FirstSet
  <2> QED
    BY <2>2, <2>3 DEF QuotaOK, MayWrite
<1>3. CASE NegativeTicks
  BY <1>3, QuotaRun DEF NegativeTicks, Simulating, Ended, engine, locals
<1>4. CASE Switch \/ Warmup \/ ScriptInstruction \/ ScriptWhen
  <2>1. /\ pc \in {"switch", "warmup", "script_inst", "script_when"}
        /\ dropped' = dropped /\ opts' = opts /\ cptdir' = cptdir
    BY <1>4 DEF Switch, Warmup, ScriptInstruction, ScriptWhen, RunFrom,
                Simulate, locals
  <2> QED
    BY <2>1, QuotaRun DEF IInv, ScheduleOK, Ended, MayWrite
<1>5. CASE Handover
  <2>1. /\ pc \in {"handover", "handover_1"}
        /\ dropped' = dropped /\ opts' = opts /\ cptdir' = cptdir
    BY <1>5 DEF Handover, SwitchCpus, locals
  <2> QED
    BY <2>1, QuotaRun DEF IInv, ScheduleOK, Ended, MayWrite
<1>6. CASE ScriptPeriod \/ ScriptSkip \/ Bench
  <2>1. /\ pc \in {"script_period", "script_skip", "bench"}
        /\ dropped' = dropped /\ opts' = opts /\ cptdir' = cptdir
    BY <1>6 DEF ScriptPeriod, ScriptSkip, Bench, RunFrom, Simulate, locals
  <2> QED
    BY <2>1, QuotaRun DEF Ended, MayWrite
<1>7. CASE ScriptLast \/ Repeat \/ RepeatSwap \/ RepeatLast
  <2>1. /\ pc \in {"script_last", "repeat", "repeat_swap", "repeat_last"}
        /\ pc' \in {"finish", "repeat", "repeat_swap", "repeat_last"}
        /\ dropped' = dropped /\ opts' = opts /\ cptdir' = cptdir
    BY <1>7 DEF ScriptLast, Repeat, RepeatSwap, RepeatLast, RunFrom, Simulate,
                SwitchCpus, locals
  <2> QED
    BY <2>1, QuotaRun DEF Ended, Measuring, MayWrite
<1>8. CASE ScriptInstructionWrite \/ ScriptWrite \/ BenchWrite
  BY <1>8, QuotaWrite
<1>9. CASE Finish
  BY <1>9 DEF Finish, QuotaOK, MayWrite, Ended, Measuring
<1> QED
  BY <1>1, <1>2, <1>3, <1>4, <1>5, <1>6, <1>7, <1>8, <1>9 DEF Next

LEMMA QuotaInductive == Spec => [](IInv /\ QuotaOK)
<1>1. Init => QuotaOK
  <2> SUFFICES ASSUME Init PROVE QuotaOK
    OBVIOUS
  <2>1. pc = "options" /\ pc \notin Measuring /\ pc \notin MayWrite
    BY DEF Init, Measuring, MayWrite
  <2> QED
    BY <2>1 DEF QuotaOK, MayWrite
<1>2. IInv /\ QuotaOK /\ [Next]_vars => QuotaOK'
  <2>1. IInv /\ QuotaOK /\ UNCHANGED vars => QuotaOK'
    BY DEF QuotaOK, MayWrite, vars, engine
  <2> QED
    BY <2>1, QuotaStep
<1> QED
  BY <1>1, <1>2, Inductive, PTL DEF Spec

-----------------------------------------------------------------------------
(***************************************************************************)
(* The refinement.                                                         *)
(***************************************************************************)
LEMMA RequestOK ==
  ASSUME opts \in OptionTypes
  PROVE  /\ Request(opts) \in Seq(Nat)
         /\ \A k \in 1 .. Len(Request(opts)) :
              /\ opts.max_checkpoints > 0
              /\ Request(opts)[k] =
                   opts.max_checkpoints + IF opts.checkpoint_at_end THEN 1 ELSE 0
<1>1. opts.max_checkpoints \in Nat
  BY OptionsOK
<1>2. CASE opts.max_checkpoints = 0
  BY <1>2 DEF Request
<1>3. CASE opts.max_checkpoints # 0
  BY <1>1, <1>3 DEF Request
<1> QED
  BY <1>2, <1>3

LEMMA ServiceInit == Init => Service!Init
<1> SUFFICES ASSUME Init PROVE Service!Init
  OBVIOUS
<1>1. opts \in OptionTypes
  BY InitInv, TypesOK
<1>2. Stage = "setup" /\ curTick \in Nat
  BY DEF Init, Stage
<1>3. Written = <<>>
  BY DEF Init, Written
<1>4. FirstSet(opts) \subseteq Dirs
  BY DEF FirstSet, Dirs
<1> QED
  BY <1>1, <1>2, <1>3, <1>4, RequestOK DEF Service!Init

\* Everything but writing a checkpoint.
LEMMA ServiceProceed ==
  ASSUME IInv, IInv', dropped' = dropped, opts' = opts,
         \/ Stage = "setup"
         \/ Stage = "running" /\ curTick <= curTick' /\ Stage' # "setup"
  PROVE  Service!Next
<1>1. Written' = Written
  BY DEF Written
<1>2. curTick' \in Nat /\ Stage' \in {"setup", "running", "ended"}
  BY ConstantsOK DEF IInv, TypeOK, EngineTypeOK, Stage
<1> QED
  BY <1>1, <1>2 DEF Service!Next, Service!Prepare, Service!Proceed,
                    Service!request

LEMMA ServiceWrite ==
  ASSUME IInv, IInv', Checkpoint(cptdir), opts' = opts, Stage = "running",
         Stage' # "setup", cptdir \notin FirstSet(opts),
         opts.max_checkpoints > 0 =>
           \/ Len(dropped) < opts.max_checkpoints
           \/ /\ opts.checkpoint_at_end
              /\ Len(dropped) < opts.max_checkpoints + 1
  PROVE  Service!Next
<1>1. /\ Len(dropped) \in Nat /\ cptdir \in Dirs
      /\ EngineTypeOK /\ opts \in OptionTypes /\ opts.max_checkpoints \in Nat
      /\ curTick' \in Nat /\ curTick <= curTick'
  <2>1. /\ Len(dropped) \in Nat /\ cptdir \in Dirs
        /\ EngineTypeOK /\ opts \in OptionTypes /\ opts.max_checkpoints \in Nat
    BY TypesOK, DroppedLen
  <2>2. curTick <= curTick'
    BY <2>1, CheckpointOK
  <2>3. curTick' \in 0 .. MaxTick
    BY DEF IInv, TypeOK, EngineTypeOK
  <2> QED
    BY <2>1, <2>2, <2>3, ConstantsOK
<1>2. /\ Len(dropped') = Len(dropped) + 1
      /\ \A k \in 1 .. Len(dropped) : dropped'[k] = dropped[k]
      /\ dropped'[Len(dropped) + 1].tick = curTick'
      /\ dropped'[Len(dropped) + 1].dir = cptdir
  <2>1. \A k \in 1 .. Len(dropped) : dropped'[k] = dropped[k]
    BY <1>1, CheckpointOK
  <2>2. Len(dropped') = Len(dropped) + 1
        /\ dropped'[Len(dropped')].tick = curTick'
    BY <1>1, CheckpointOK
  <2>3. dropped'[Len(dropped) + 1] =
          [tick |-> curTick', drained |-> drained', dir |-> cptdir,
           limit |-> event.limit]
    <3> DEFINE Drops == [tick : 0 .. MaxTick, drained : Nat, dir : Dirs,
                         limit : Limits]
               new == [tick |-> curTick', drained |-> drained', dir |-> cptdir,
                       limit |-> event.limit]
    <3>1. dropped \in Seq(Drops) /\ dropped' = Append(dropped, new)
      BY <1>1 DEF EngineTypeOK, Checkpoint
    <3>2. new \in Drops
      <4>1. EngineTypeOK'
        BY <1>1, CheckpointOK
      <4> QED
        BY <1>1, <4>1 DEF EngineTypeOK
    <3> HIDE DEF Drops, new
    <3>3. dropped'[Len(dropped) + 1] = new
      BY <3>1, <3>2, AppendProperties
    <3> QED
      BY <3>3 DEF new
  <2> QED
    BY <2>1, <2>2, <2>3
<1>3. Written' = Append(Written, [tick |-> curTick', dir |-> cptdir])
      /\ Len(Written) = Len(dropped)
  <2> DEFINE n == Len(dropped)
             Last == [tick |-> curTick', dir |-> cptdir]
             W == [tick : Nat, dir : STRING \cup Dirs]
             f(k) == [tick |-> dropped[k].tick, dir |-> dropped[k].dir]
             g(k) == [tick |-> dropped'[k].tick, dir |-> dropped'[k].dir]
  <2>1. n \in Nat /\ Written = [k \in 1 .. n |-> f(k)]
        /\ Written' = [k \in 1 .. n + 1 |-> g(k)]
    BY <1>1, <1>2 DEF Written
  <2>2. (\A k \in 1 .. n : g(k) = f(k)) /\ g(n + 1) = Last
    BY <1>2
  <2> HIDE DEF n, f, g, Last
  <2>3. Len(Written) = n
    BY <2>1
  <2>4. Append(Written, Last) = [k \in 1 .. n + 1 |->
                                   IF k = n + 1 THEN Last ELSE Written[k]]
    BY <2>1, <2>3
  <2>5. \A k \in 1 .. n + 1 : g(k) = IF k = n + 1 THEN Last ELSE Written[k]
    BY <2>1, <2>2
  <2>6. Written' = Append(Written, Last)
    BY <2>1, <2>4, <2>5, Zenon
  <2> QED
    BY <2>3, <2>6 DEF n, Last
<1>4. \A k \in 1 .. Len(Request(opts)) : Len(Written) < Request(opts)[k]
  BY <1>1, <1>3, RequestOK
<1>5. Stage' \in {"running", "ended"}
  BY DEF Stage
<1>6. Service!Write(cptdir)
  BY <1>1, <1>3, <1>4, <1>5 DEF Service!Write, Service!request
<1> QED
  BY <1>1, <1>6 DEF Service!Next

LEMMA ServiceStep ==
  ASSUME IInv, QuotaOK, IInv', [Next]_vars
  PROVE  [Service!Next]_(Service!svars)
<1>1. CASE UNCHANGED vars
  BY <1>1 DEF vars, engine, Service!svars, Service!request, Stage, Written
<1>2. CASE Fatal \/ CreateSystem \/ SetLimits
  BY <1>2, ServiceProceed
  DEF Fatal, CreateSystem, SetLimits, Stage, engine
<1>3. CASE NegativeTicks
  <2>1. curTick' = curTick /\ curTick \in Int
    BY <1>3, TypesOK DEF NegativeTicks, engine
  <2> QED
    BY <1>3, <2>1, ServiceProceed
    DEF NegativeTicks, Stage, Simulating, Ended, engine
<1>4. CASE \/ Switch \/ Warmup \/ ScriptInstruction \/ ScriptWhen
           \/ ScriptPeriod \/ ScriptSkip \/ ScriptLast \/ Bench \/ Repeat
           \/ RepeatLast
  <2>1. /\ pc \in Simulating /\ Ticks >= 0 /\ Simulate(Ticks) /\ opts' = opts
        /\ pc' \notin {"options", "limits"}
    BY <1>4 DEF Switch, Warmup, ScriptInstruction, ScriptWhen, ScriptPeriod,
                ScriptSkip, ScriptLast, Bench, Repeat, RepeatLast, RunFrom,
                AfterPeriod, Simulating
  <2>2. curTick <= curTick' /\ dropped' = dropped
    BY <2>1, RunOK
  <2>3. Stage = "running" /\ Stage' # "setup"
    BY <2>1 DEF Stage, Simulating, Ended
  <2> QED
    BY <2>1, <2>2, <2>3, ServiceProceed
<1>5. CASE Handover \/ RepeatSwap
  <2>1. /\ dropped' = dropped /\ opts' = opts /\ Drain
        /\ pc' \notin {"options", "limits"}
    BY <1>5, LoopOK DEF Handover, RepeatSwap, SwitchCpus
  <2>2. curTick <= curTick'
    BY <2>1, DrainOK, TypesOK
  <2>3. Stage = "running" /\ Stage' # "setup"
    BY <1>5, <2>1 DEF Stage, Handover, RepeatSwap, Ended
  <2> QED
    BY <2>1, <2>2, <2>3, ServiceProceed
<1>6. CASE ScriptInstructionWrite \/ ScriptWrite \/ BenchWrite
  <2>1. /\ pc \in {"script_inst_write", "script_write", "bench_write"}
        /\ Checkpoint(cptdir) /\ opts' = opts
        /\ pc' \notin {"options", "limits"}
    BY <1>6 DEF ScriptInstructionWrite, ScriptWrite, BenchWrite, PeriodicLoop
  <2>2. opts.max_checkpoints > 0 => Len(dropped) < opts.max_checkpoints
    <3>1. CASE pc = "script_inst_write"
      <4>1. Len(dropped) = 0
        BY <3>1, TypesOK DEF IInv, ScheduleOK
      <4> QED
        BY <4>1, DroppedLen
    <3>2. CASE pc # "script_inst_write"
      BY <2>1, <3>2 DEF QuotaOK, MayWrite
    <3> QED
      BY <3>1, <3>2
  <2>3. Stage = "running" /\ Stage' # "setup" /\ cptdir \notin FirstSet(opts)
    BY <2>1 DEF Stage, Ended, QuotaOK, MayWrite
  <2> QED
    BY <2>1, <2>2, <2>3, ServiceWrite
<1>7. CASE Finish
  <2>1. /\ pc = "finish" /\ opts' = opts /\ pc' = "exited"
        /\ \/ opts.checkpoint_at_end /\ Checkpoint(cptdir)
           \/ UNCHANGED engine
    BY <1>7 DEF Finish
  <2>2. Stage = "running" /\ Stage' # "setup" /\ cptdir \notin FirstSet(opts)
    BY <2>1 DEF Stage, Ended, QuotaOK, MayWrite
  <2>3. opts.max_checkpoints > 0 => Len(dropped) < opts.max_checkpoints + 1
    BY <2>1, DroppedLen DEF QuotaOK, MayWrite, Measuring
  <2>4. CASE opts.checkpoint_at_end /\ Checkpoint(cptdir)
    BY <2>1, <2>2, <2>3, <2>4, ServiceWrite
  <2>5. CASE UNCHANGED engine
    <3>1. curTick' = curTick /\ dropped' = dropped /\ curTick \in Int
      BY <2>5, TypesOK DEF engine
    <3> QED
      BY <2>1, <2>2, <3>1, ServiceProceed
  <2> QED
    BY <2>1, <2>4, <2>5
<1> QED
  BY <1>1, <1>2, <1>3, <1>4, <1>5, <1>6, <1>7 DEF Next

\* run() provides the checkpoint service: every step is one of the service's
\* or leaves it alone, whatever the options, the guest and the drains.
THEOREM ServiceProvided == Spec => ProvidesService
<1>1. Init => Service!Init
  BY ServiceInit
<1>2. (IInv /\ QuotaOK) /\ (IInv /\ QuotaOK)' /\ [Next]_vars
        => [Service!Next]_(Service!svars)
  BY ServiceStep
<1> QED
  BY <1>1, <1>2, QuotaInductive, PTL DEF Spec, ProvidesService, Service!Spec
=============================================================================

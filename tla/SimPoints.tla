------------------------------ MODULE SimPoints ------------------------------
(***************************************************************************)
(* configs/common/Simulation.py: the two runs of the SimPoint method.  The *)
(* first reads an analysis file and writes one checkpoint per simpoint     *)
(* (parseSimpointAnalysisFile, takeSimpointCheckpoints); the second        *)
(* restores one of them on a fast CPU, hands over to the detailed one,     *)
(* warms up and measures one interval (findCptDir,                         *)
(* restoreSimpointCheckpoint).  Time is counted in instructions: the CPU   *)
(* stops at the counts in simpoint_start_insts.                            *)
(***************************************************************************)
EXTENDS Integers, Sequences, FiniteSets

CONSTANTS
  Analyses,        \* pairs of files: records [intervals, weights]
  IntervalLength,
  WarmupLength,
  ProgramLength,   \* instructions the program executes before it exits
  SwitchInsts,     \* most instructions executed in the 10000 ticks before the
                   \* CPUs are switched
  MaxGuest         \* checkpoint instructions the program executes, at most

Bad     == -1      \* a line that does not match
MaxIndex == 999    \* names are modelled for indices of up to three digits

ASSUME SimPointsAssumption ==
  /\ \A a \in Analyses : /\ a.intervals \in Seq(Nat \cup {Bad})
                         /\ a.weights \in Seq(BOOLEAN)   \* FALSE: a bad line
                         /\ Len(a.intervals) <= MaxIndex + 1
  /\ IntervalLength \in Nat \ {0}
  /\ WarmupLength \in Nat
  /\ ProgramLength \in Nat \ {0}
  /\ SwitchInsts \in Nat
  /\ MaxGuest \in Nat

VARIABLES
  pc,
  files,       \* the analysis the first run reads
  line,        \* lines read
  simpoints,   \* [interval, start, warmup], see parseSimpointAnalysisFile
  inst,        \* instructions the program has executed
  stops,       \* counts at which the running CPU still stops
  index,       \* simpoints done
  last,        \* last_chkpnt_inst_count
  cptdir,      \* the checkpoints written: [index, interval, start, warmup, inst]
  number,      \* --checkpoint-restore of the second run
  resumed,     \* the checkpoints it resumed from: one, once chosen
  measured,    \* instruction counts at which the statistics were reset and
               \* the simpoint was done
  guest        \* checkpoint instructions the program may still execute

vars == <<pc, files, line, simpoints, inst, stops, index, last, cptdir,
          number, resumed, measured, guest>>

Init ==
  /\ pc = "parse"
  /\ files \in Analyses
  /\ line = 0
  /\ simpoints = <<>>
  /\ inst = 0
  /\ stops = {}
  /\ index = 0
  /\ last = -1
  /\ cptdir = {}
  /\ number = 0
  /\ resumed = {}
  /\ measured = <<>>
  /\ guest = MaxGuest

-----------------------------------------------------------------------------
(* parseSimpointAnalysisFile()                                             *)

FullWarmup(interval) ==
  LET start == interval * IntervalLength - WarmupLength
  IN  [interval |-> interval, start |-> IF start > 0 THEN start ELSE 0,
       warmup |-> WarmupLength]

\* Where a simpoint starts and how long it warms up: from the beginning of
\* the program if there is not enough room.
Simpoint(interval) ==
  LET start == interval * IntervalLength - WarmupLength
  IN  IF start > 0
        THEN [interval |-> interval, start |-> start, warmup |-> WarmupLength]
        ELSE [interval |-> interval, start |-> 0,
              warmup |-> interval * IntervalLength]

\* One line of each file.
ReadLine ==
  /\ pc = "parse"
  /\ line < Len(files.intervals)
  /\ LET n == line + 1
     IN  IF files.intervals[n] = Bad \/ n > Len(files.weights)
            THEN pc' = "fatal" /\ UNCHANGED <<line, simpoints>>
         ELSE IF ~files.weights[n]
            THEN pc' = "fatal" /\ UNCHANGED <<line, simpoints>>
         ELSE /\ line' = n
              /\ simpoints' = Append(simpoints, Simpoint(files.intervals[n]))
              /\ UNCHANGED pc
  /\ UNCHANGED <<files, inst, stops, index, last, cptdir, number,
                 resumed, measured, guest>>

\* A stable sort by starting instruction.
Position(s, i) ==
  Cardinality({j \in 1 .. Len(s) : \/ s[j].start < s[i].start
                                   \/ s[j].start = s[i].start /\ j <= i})
SortedByStart(s) ==
  [k \in 1 .. Len(s) |-> s[CHOOSE i \in 1 .. Len(s) : Position(s, i) = k]]

\* End of the file: sort, and let the CPU stop at every start.
Start ==
  /\ pc = "parse"
  /\ line = Len(files.intervals)
  /\ simpoints' = SortedByStart(simpoints)
  /\ stops' = {simpoints[k].start : k \in 1 .. Len(simpoints)}
  /\ pc' = "take"
  /\ UNCHANGED <<files, line, inst, index, last, cptdir, number,
                 resumed, measured, guest>>

-----------------------------------------------------------------------------
(* m5.simulate(): up to the next stop, a checkpoint instruction of the     *)
(* program, or its end.  A stop several simpoints share is one event.      *)

NextStop == CHOOSE s \in stops : \A t \in stops : s <= t
HasStop  == stops # {} /\ NextStop <= ProgramLength
Horizon  == IF HasStop THEN NextStop ELSE ProgramLength

StopFound ==
  /\ HasStop
  /\ inst' = NextStop
  /\ stops' = stops \ {NextStop}
  /\ UNCHANGED guest

GuestCheckpoint ==
  /\ guest > 0
  /\ inst' \in inst .. Horizon
  /\ guest' = guest - 1
  /\ UNCHANGED stops

ProgramEnd ==
  /\ ~HasStop
  /\ inst' = ProgramLength
  /\ UNCHANGED <<stops, guest>>

-----------------------------------------------------------------------------
(* takeSimpointCheckpoints()                                               *)

Current == simpoints[index + 1]

\* A simpoint with the start of the previous one is written without running.
Shared == Current.start = last

TakeShared ==
  /\ pc = "take"
  /\ index < Len(simpoints)
  /\ Shared
  /\ pc' = "write"
  /\ UNCHANGED <<files, line, simpoints, inst, stops, index, last, cptdir,
                 number, resumed, measured, guest>>

\* Faulty variant: a checkpoint instruction of the program counts as a stop.
TakeRunAnyEvent ==
  /\ pc = "take"
  /\ index < Len(simpoints)
  /\ ~Shared
  /\ \/ (StopFound \/ GuestCheckpoint) /\ pc' = "write"
     \/ ProgramEnd /\ pc' = "taken"
  /\ UNCHANGED <<files, line, simpoints, index, last, cptdir, number, resumed,
                 measured>>

\* Checkpoint instructions are skipped; anything but a stop ends the loop.
TakeRun ==
  /\ pc = "take"
  /\ index < Len(simpoints)
  /\ ~Shared
  /\ \/ StopFound /\ pc' = "write"
     \/ GuestCheckpoint /\ UNCHANGED pc
     \/ ProgramEnd /\ pc' = "taken"
  /\ UNCHANGED <<files, line, simpoints, index, last, cptdir, number, resumed,
                 measured>>

Write ==
  /\ pc = "write"
  /\ cptdir' = cptdir \cup
       {[index |-> index, interval |-> Current.interval, start |-> Current.start,
         warmup |-> Current.warmup, inst |-> inst]}
  /\ last' = Current.start
  /\ index' = index + 1
  /\ pc' = "take"
  /\ UNCHANGED <<files, line, simpoints, inst, stops, number, resumed,
                 measured, guest>>

AllTaken ==
  /\ pc = "take"
  /\ index = Len(simpoints)
  /\ pc' = "taken"
  /\ UNCHANGED <<files, line, simpoints, inst, stops, index, last,
                 cptdir, number, resumed, measured, guest>>

-----------------------------------------------------------------------------
(* findCptDir() with --restore-simpoint-checkpoint                         *)

\* The names are sorted as strings.  They differ in the index, which is
\* printed with at least two digits and followed by an underscore, a
\* character after the digits.
Digits(i) == IF i < 100 THEN <<i \div 10, i % 10>>
                        ELSE <<i \div 100, (i \div 10) % 10, i % 10>>
Name(i) == Append(Digits(i), 10)
Before(i, j) ==
  \E p \in DOMAIN Name(i) \cap DOMAIN Name(j) :
    /\ Name(i)[p] < Name(j)[p]
    /\ \A q \in 1 .. p - 1 : Name(i)[q] = Name(j)[q]

\* Faulty variant: an option counting from 1 used as an index from 0.
NthByIndex(n) ==
  {c \in cptdir : Cardinality({d \in cptdir : Before(d.index, c.index)}) = n}

Nth(n) ==
  {c \in cptdir : Cardinality({d \in cptdir : Before(d.index, c.index)}) = n - 1}

\* Restore checkpoint n; both CPUs stop after the warmup and after the
\* interval, counted from where they start.
Restore ==
  /\ pc = "taken"
  /\ \E n \in 1 .. Cardinality(cptdir) + 1 :
       /\ number' = n
       /\ resumed' = Nth(n)
       /\ IF n > Cardinality(cptdir)
            THEN pc' = "fatal" /\ UNCHANGED <<inst, stops>>
            ELSE \E c \in resumed' :
                 /\ inst' = c.inst
                 /\ stops' = {c.inst + c.warmup,
                              c.inst + c.warmup + IntervalLength}
                 /\ pc' = "switch"
  /\ guest' = MaxGuest
  /\ UNCHANGED <<files, line, simpoints, index, last, cptdir, measured>>

-----------------------------------------------------------------------------
(* run(): the hand-over to the detailed CPU, then                          *)
(* restoreSimpointCheckpoint().                                            *)

Warmup == (CHOOSE c \in resumed : TRUE).warmup

\* 10000 ticks on the CPU the checkpoint was restored with, or less if it
\* stops; the CPU taking over counts its instructions from here.
Switch ==
  /\ pc = "switch"
  /\ \/ /\ inst' \in inst .. inst + SwitchInsts
        /\ inst' <= Horizon
        /\ UNCHANGED guest
     \/ /\ guest > 0
        /\ inst' \in inst .. inst + SwitchInsts
        /\ inst' <= Horizon
        /\ guest' = guest - 1
  /\ stops' = {inst' + Warmup, inst' + Warmup + IntervalLength}
  /\ pc' = "warmup"
  /\ UNCHANGED <<files, line, simpoints, index, last, cptdir, number,
                 resumed, measured>>

\* Checkpoint instructions are not skipped here: any other exit ends the run.
WarmUp ==
  /\ pc = "warmup"
  /\ \/ StopFound /\ pc' = "measure" /\ measured' = <<inst'>>
     \/ (GuestCheckpoint \/ ProgramEnd) /\ pc' = "exited" /\ UNCHANGED measured
  /\ UNCHANGED <<files, line, simpoints, index, last, cptdir, number,
                 resumed>>

Measure ==
  /\ pc = "measure"
  /\ \/ StopFound /\ pc' = "done" /\ measured' = Append(measured, inst')
     \/ (GuestCheckpoint \/ ProgramEnd) /\ pc' = "exited" /\ UNCHANGED measured
  /\ UNCHANGED <<files, line, simpoints, index, last, cptdir, number,
                 resumed>>

Ended == {"fatal", "exited", "done"}

Next ==
  \/ ReadLine \/ Start
  \/ TakeShared \/ TakeRun \/ Write \/ AllTaken
  \/ Restore \/ Switch \/ WarmUp \/ Measure

Spec     == Init /\ [][Next]_vars
-----------------------------------------------------------------------------
(* Properties.                                                             *)

\* Every checkpoint holds the program at the start its name gives, however
\* many simpoints share the start and whichever checkpoint instructions the
\* program executed on the way; and the first run leaves a simpoint out only
\* if the program ends before it.
WrittenAtStart ==
  /\ \A c \in cptdir : c.inst = c.start
  /\ pc = "taken" =>
       \A k \in 1 .. Len(simpoints) :
         \/ \E c \in cptdir :
              c.index = k - 1 /\ c.interval = simpoints[k].interval
         \/ simpoints[k].start > ProgramLength

\* Across both runs: what is measured is one interval, the one the analysis
\* chose, late at most by the instructions executed before the hand-over.
MeasuresItsInterval ==
  pc = "done" =>
    \A c \in resumed :
      /\ measured[2] - measured[1] = IntervalLength
      /\ measured[1] - c.interval * IntervalLength \in 0 .. SwitchInsts

\* --checkpoint-restore <N> resumes the N-th simpoint in program order.
ResumesTheNth == \A c \in resumed : c.index = number - 1

=============================================================================

--------------------------- MODULE CheckpointTest ---------------------------
(***************************************************************************)
(* tests/gem5/configs/checkpoint.py: a test that simulates for an          *)
(* interval, writes a checkpoint, and goes on from it in a new process.    *)
(* The processes share the checkpoint's directory and tell the test how    *)
(* they ended by their exit codes; the test passes when the guest exits.   *)
(***************************************************************************)
EXTENDS Integers

CONSTANTS
  max_checkpoints,
  Interval,        \* ticks a child simulates
  MaxDrain,        \* ticks a checkpoint may take to drain the system
  EndOfTime        \* m5.MaxTick

ASSUME CheckpointTestAssumption ==
  /\ max_checkpoints \in Nat \ {0}
  /\ Interval \in Nat \ {0}
  /\ MaxDrain \in Nat
  /\ EndOfTime \in Nat \ {0}

NoCheckpoint == -1     \* nothing, or only a part of it, is in the directory

VARIABLES
  exitAt,        \* the tick at which the guest exits
  exitCause,     \* "normal": one of _exit_normal; "other" if it fails
  step,
  cpt_no,
  restore,       \* restore is not None
  checkpointed,
  cpt,           \* the tick of the checkpoint in test.cpt
  tick,          \* m5.curTick() of the process that simulates
  exitcode,      \* of the last child
  code,          \* exit code of the test
  origin,        \* history: the tick at which that process started
  reached,       \* history: the tick at which the last checkpoint left off
  killed         \* history: a child was killed

test_vars == <<exitAt, exitCause, step, cpt_no, restore, checkpointed, cpt, tick,
          exitcode, code, origin, reached, killed>>
guest == <<exitAt, exitCause>>

ExitCodes == {"done", "fail", "checkpoint", "killed"}

TypeOK ==
  /\ exitAt \in 1 .. EndOfTime + 1          \* EndOfTime + 1: never
  /\ exitCause \in {"normal", "other"}
  /\ step \in {"loop", "simulate", "write", "join", "simulate_final", "exited"}
  /\ cpt_no \in 0 .. max_checkpoints
  /\ restore \in BOOLEAN /\ checkpointed \in BOOLEAN /\ killed \in BOOLEAN
  /\ cpt \in 0 .. EndOfTime \cup {NoCheckpoint}
  /\ tick \in 0 .. EndOfTime /\ origin \in 0 .. EndOfTime
  /\ reached \in 0 .. EndOfTime
  /\ exitcode \in ExitCodes
  /\ code \in {-1, 0, 1}                    \* -1: still running

TestInit ==
  /\ exitAt \in 1 .. EndOfTime + 1
  /\ exitCause \in {"normal", "other"}
  /\ step = "loop" /\ cpt_no = 0
  /\ restore = FALSE /\ checkpointed = FALSE
  /\ cpt = NoCheckpoint
  /\ tick = 0 /\ exitcode = "done" /\ code = -1
  /\ origin = 0 /\ reached = 0 /\ killed = FALSE

\* m5.instantiate, with the checkpoint or without.
Instantiate(from) ==
  /\ tick' = IF from THEN cpt ELSE 0
  /\ origin' = tick'

\* m5.simulate until tick `until`: the guest's exit is returned if it happens
\* by then.  One that happens while a checkpoint drains is not returned.
Exits(until) == tick < exitAt /\ exitAt <= until
IntervalEnd == IF tick + Interval < EndOfTime THEN tick + Interval
                                               ELSE EndOfTime

\* p.start() of one iteration.
Start(from) ==
  /\ Instantiate(from)
  /\ step' = "simulate"
  /\ UNCHANGED <<guest, cpt_no, restore, checkpointed, cpt, exitcode, code,
                 reached, killed>>
StartChildFromStart ==                                      \* faulty variant
  step = "loop" /\ cpt_no < max_checkpoints /\ Start(FALSE)
StartChild ==
  step = "loop" /\ cpt_no < max_checkpoints /\ Start(restore)

\* _run_step up to the end of m5.simulate(interval).
ChildSimulate ==
  /\ step = "simulate"
  /\ \/ /\ Exits(IntervalEnd)
        /\ tick' = exitAt
        /\ exitcode' = IF exitCause = "normal" THEN "done" ELSE "fail"
        /\ step' = "join"
     \/ /\ ~Exits(IntervalEnd)
        /\ tick' = IntervalEnd
        /\ step' = "write"
        /\ UNCHANGED exitcode
  /\ UNCHANGED <<guest, cpt_no, restore, checkpointed, cpt, code, origin,
                 reached, killed>>

\* m5.checkpoint(name), over the one the child was restored from.
ChildWrite ==
  /\ step = "write"
  /\ \E d \in 0 .. MaxDrain :
       /\ tick + d <= EndOfTime
       /\ tick' = tick + d
  /\ cpt' = tick'
  /\ reached' = tick'
  /\ exitcode' = "checkpoint"
  /\ step' = "join"
  /\ UNCHANGED <<guest, cpt_no, restore, checkpointed, code, origin,
                 killed>>

\* A child may be killed, also with the checkpoint half written.
ChildDies ==
  /\ step \in {"simulate", "write"}
  /\ cpt' \in IF step = "write" THEN {cpt, NoCheckpoint} ELSE {cpt}
  /\ exitcode' = "killed"
  /\ killed' = TRUE
  /\ step' = "join"
  /\ UNCHANGED <<guest, cpt_no, restore, checkpointed, tick, code, origin,
                 reached>>

Exit(c) ==
  /\ code' = c
  /\ step' = "exited"

\* p.join() and what follows it in the iteration; the code to exit with when
\* the guest is done differs in the faulty variant.
Joined(doneCode) ==
  /\ step = "join"
  /\ restore' = TRUE
  /\ \/ /\ exitcode = "done"
        /\ Exit(doneCode)
        /\ UNCHANGED <<cpt_no, checkpointed>>
     \/ /\ exitcode = "checkpoint"
        /\ checkpointed' = TRUE
        /\ cpt_no' = cpt_no + 1
        /\ step' = "loop"
        /\ UNCHANGED code
     \/ /\ exitcode \notin {"done", "checkpoint"}
        /\ Exit(1)
        /\ UNCHANGED <<cpt_no, checkpointed>>
  /\ UNCHANGED <<guest, cpt, tick, exitcode, origin, reached, killed>>
JoinAnyDone == Joined(0)                                    \* faulty variant
Join        == Joined(IF checkpointed THEN 0 ELSE 1)

\* The number of checkpoints is reached: the test simulates itself.
StartFinal ==
  /\ step = "loop" /\ cpt_no = max_checkpoints
  /\ Instantiate(FALSE)
  /\ step' = "simulate_final"
  /\ UNCHANGED <<guest, cpt_no, restore, checkpointed, cpt, exitcode, code,
                 reached, killed>>

SimulateFinal ==
  /\ step = "simulate_final"
  /\ tick' = IF Exits(EndOfTime) THEN exitAt ELSE EndOfTime
  /\ Exit(IF Exits(EndOfTime) /\ exitCause = "normal" THEN 0 ELSE 1)
  /\ UNCHANGED <<guest, cpt_no, restore, checkpointed, cpt, exitcode, origin,
                 reached, killed>>

TestNext ==
  \/ StartChild \/ ChildSimulate \/ ChildWrite \/ ChildDies \/ Join
  \/ StartFinal \/ SimulateFinal

TestSpec == TestInit /\ [][TestNext]_test_vars

-----------------------------------------------------------------------------
(* What makes the test a test.                                             *)

\* Every child goes on at the tick at which the one before it left its
\* checkpoint: nothing is simulated twice or left out, though all use one
\* directory and any of them may be killed while it writes.
ContinuesFromCheckpoint ==
  [][step = "loop" /\ step' = "simulate" => tick' = reached]_test_vars

\* The verdict: the test passes only if the guest exited normally and a
\* checkpoint was written, and fails only if the guest did not, a child was
\* killed, or the guest exited before the first checkpoint was due.
VerdictIsRight ==
  /\ code = 0 => exitCause = "normal" /\ reached > 0 /\ exitAt <= EndOfTime
  /\ code = 1 => \/ exitCause = "other" \/ exitAt > EndOfTime
                 \/ killed \/ exitAt <= Interval

-----------------------------------------------------------------------------
(* What the documentation says and the code does not do.                   *)

\* "take a checkpoint, then restore from the same checkpoint and run until
\* the system calls m5 exit" (run_test): the process that ran up to the
\* guest's exit had started where the last checkpoint left off.
RestoredUntilExit == code = 0 => origin = reached
=============================================================================

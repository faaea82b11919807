----------------------------- MODULE TestProofs -----------------------------
(***************************************************************************)
(* Proofs about what the tests rely on: UniqueFixture.setup(), for all     *)
(* suites, threads and targets, with failures and interrupted sessions;    *)
(* and, in the second half, the checkpoint test.                           *)
(***************************************************************************)
EXTENDS Fixtures, CheckpointTest, TLAPS, SequenceTheorems

ControlTypes ==
  /\ lock \in [Targets -> Suites \cup {NoSuite}]
  /\ pc \in [Suites -> InSetup \cup {"next", "ready", "broken"}]
  /\ current \in [Suites -> Nat \ {0}]
  /\ \A s \in Suites : current[s] <= Len(Needs[s]) + 1
  /\ setup_done \in [Targets -> BOOLEAN]
  /\ setups \in [Targets -> Nat]

\* A suite inside a setup holds the lock of that target.
HoldersOK ==
  \A s \in Suites : pc[s] \in InSetup =>
    current[s] <= Len(Needs[s]) /\ lock[Target(s)] = s

\* A lock that is taken is held by a suite inside the setup of that target.
LockedOK ==
  \A t \in Targets : lock[t] # NoSuite =>
    lock[t] \in Suites /\ pc[lock[t]] \in InSetup /\ Target(lock[t]) = t

\* A target is being set up at most once, and only after _setup_done is set.
OnceOK ==
  \A t \in Targets :
    /\ lock[t] # NoSuite => setup_done[t]
    /\ setups[t] = IF setup_done[t] THEN 1 ELSE 0

\* What a suite has got past is set up, and nobody is at it.
PastOK ==
  \A s \in Suites : \A k \in 1 .. Len(Needs[s]) :
    k < current[s] => setup_done[Needs[s][k]] /\ lock[Needs[s][k]] = NoSuite

IInv == ControlTypes /\ HoldersOK /\ LockedOK /\ OnceOK /\ PastOK

-----------------------------------------------------------------------------
LEMMA NeedsOK ==
  ASSUME NEW s \in Suites, NEW k \in 1 .. Len(Needs[s])
  PROVE  Needs[s][k] \in Targets
<1>1. Needs[s] \in Seq(Targets)
  BY FixturesAssumption
<1> QED
  BY <1>1, ElementOfSeq

LEMMA LengthOK == \A s \in Suites : Len(Needs[s]) \in Nat
<1> SUFFICES ASSUME NEW s \in Suites PROVE Len(Needs[s]) \in Nat
  OBVIOUS
<1>1. Needs[s] \in Seq(Targets)
  BY FixturesAssumption
<1> QED
  BY <1>1, LenProperties

LEMMA TargetOK ==
  ASSUME ControlTypes, NEW s \in Suites, current[s] <= Len(Needs[s])
  PROVE  current[s] \in 1 .. Len(Needs[s]) /\ Target(s) \in Targets
<1>1. Needs[s] \in Seq(Targets)
  BY FixturesAssumption
<1>2. Len(Needs[s]) \in Nat /\ current[s] \in Nat \ {0}
  BY <1>1, LenProperties DEF ControlTypes
<1>3. current[s] \in 1 .. Len(Needs[s])
  BY <1>2
<1> QED
  BY <1>3, NeedsOK DEF Target

LEMMA InitInv == Init => IInv
<1> SUFFICES ASSUME Init PROVE IInv
  OBVIOUS
<1>1. ControlTypes
  BY LengthOK DEF Init, Fresh, ControlTypes
<1>2. HoldersOK /\ LockedOK
  BY DEF Init, Fresh, HoldersOK, LockedOK, InSetup
<1>3. OnceOK
  BY DEF Init, Fresh, OnceOK
<1>4. PastOK
  BY DEF Init, PastOK
<1> QED
  BY <1>1, <1>2, <1>3, <1>4 DEF IInv

LEMMA RerunOK == Rerun => IInv'
<1> SUFFICES ASSUME Rerun PROVE IInv'
  OBVIOUS
<1>1. ControlTypes'
  BY LengthOK DEF Rerun, NewSession, Fresh, ControlTypes
<1>2. HoldersOK' /\ LockedOK'
  BY DEF Rerun, NewSession, Fresh, HoldersOK, LockedOK, InSetup
<1>3. OnceOK'
  BY DEF Rerun, NewSession, Fresh, OnceOK
<1>4. PastOK'
  BY DEF Rerun, NewSession, PastOK
<1> QED
  BY <1>1, <1>2, <1>3, <1>4 DEF IInv

control == <<lock, pc, current, setup_done, setups>>

LEMMA UnchangedOK == IInv /\ UNCHANGED control => IInv'
<1> SUFFICES ASSUME IInv, UNCHANGED control PROVE IInv'
  OBVIOUS
<1>1. ControlTypes' /\ HoldersOK' /\ LockedOK' /\ OnceOK' /\ PastOK'
  BY DEF IInv, ControlTypes, HoldersOK, LockedOK, OnceOK, PastOK, Target, control
<1> QED
  BY <1>1 DEF IInv

LEMMA ReadyOK ==
  ASSUME IInv, NEW s \in Suites, Ready(s)
  PROVE  IInv'
<1>1. ControlTypes'
  BY DEF IInv, Ready, Goto, ControlTypes, hist
<1>2. HoldersOK' /\ LockedOK'
  BY DEF IInv, Ready, Goto, HoldersOK, LockedOK, ControlTypes, Target, InSetup
<1>3. OnceOK' /\ PastOK'
  BY DEF IInv, Ready, OnceOK, PastOK, hist
<1> QED
  BY <1>1, <1>2, <1>3 DEF IInv

\* A suite that finds a setup done goes on, a suite that does not holds the
\* lock nobody held.
LEMMA EnterOK ==
  ASSUME IInv, NEW s \in Suites, Enter(s)
  PROVE  IInv'
<1> DEFINE t == Target(s)
<1>1. /\ current[s] \in 1 .. Len(Needs[s]) /\ t \in Targets
      /\ lock[t] = NoSuite /\ pc[s] = "next"
  BY TargetOK DEF IInv, Enter
<1>2. CASE setup_done[t]
  <2>1. /\ current' = [current EXCEPT ![s] = @ + 1]
        /\ UNCHANGED <<lock, setup_done, setups, pc>>
    BY <1>2 DEF Enter
  <2>2. ControlTypes'
    BY <1>1, <2>1, LengthOK DEF IInv, ControlTypes
  <2>3. HoldersOK'
    <3> SUFFICES ASSUME NEW o \in Suites, pc[o] \in InSetup
                 PROVE  current'[o] <= Len(Needs[o]) /\ lock[Needs[o][current'[o]]] = o
      BY <2>1 DEF HoldersOK, Target
    <3>1. o # s
      BY <1>1 DEF InSetup
    <3> QED
      BY <2>1, <3>1 DEF IInv, ControlTypes, HoldersOK, Target
  <2>4. OnceOK' /\ LockedOK'
    BY <1>1, <2>1 DEF IInv, ControlTypes, OnceOK, LockedOK, Target, InSetup
  <2>5. PastOK'
    <3> SUFFICES ASSUME NEW o \in Suites, NEW k \in 1 .. Len(Needs[o]),
                        k < current'[o]
                 PROVE  setup_done[Needs[o][k]] /\ lock[Needs[o][k]] = NoSuite
      BY <2>1 DEF PastOK
    <3>1. CASE o = s /\ k = current[s]
      BY <1>1, <1>2, <3>1 DEF Target
    <3>2. CASE ~(o = s /\ k = current[s])
      <4>1. current[o] \in Nat /\ k \in Int
        BY DEF IInv, ControlTypes
      <4>2. k < current[o]
        BY <2>1, <3>2, <4>1 DEF IInv, ControlTypes
      <4> QED
        BY <4>2 DEF IInv, PastOK
    <3> QED
      BY <3>1, <3>2
  <2> QED
    BY <2>2, <2>3, <2>4, <2>5 DEF IInv
<1>3. CASE ~setup_done[t]
  <2>1. /\ lock' = [lock EXCEPT ![t] = s]
        /\ setup_done' = [setup_done EXCEPT ![t] = TRUE]
        /\ setups' = [setups EXCEPT ![t] = @ + 1]
        /\ pc' = [pc EXCEPT ![s] = IF Kind[t] = "scons" THEN "scons" ELSE "exists"]
        /\ current' = current
    BY <1>3 DEF Enter, Goto
  <2>2. ControlTypes'
    BY <1>1, <2>1 DEF IInv, ControlTypes, InSetup
  <2>3. HoldersOK'
    <3> SUFFICES ASSUME NEW o \in Suites, pc'[o] \in InSetup
                 PROVE  current[o] <= Len(Needs[o]) /\ lock'[Target(o)] = o
      BY <2>1 DEF HoldersOK, Target
    <3>1. CASE o = s
      BY <1>1, <2>1, <3>1 DEF IInv, ControlTypes
    <3>2. CASE o # s
      <4>1. current[o] <= Len(Needs[o]) /\ lock[Target(o)] = o
        BY <2>1, <3>2 DEF IInv, ControlTypes, HoldersOK
      <4>2. Target(o) # t
        BY <1>1, <4>1, NoSuiteAssumption
      <4>3. Target(o) \in Targets
        BY <4>1, TargetOK DEF IInv
      <4> QED
        BY <2>1, <4>1, <4>2, <4>3 DEF IInv, ControlTypes
    <3> QED
      BY <3>1, <3>2
  <2>4. OnceOK'
    BY <1>1, <1>3, <2>1 DEF IInv, ControlTypes, OnceOK
  <2>6. LockedOK'
    <3> SUFFICES ASSUME NEW u \in Targets, lock'[u] # NoSuite
                 PROVE  /\ lock'[u] \in Suites /\ pc'[lock'[u]] \in InSetup
                        /\ Target(lock'[u]) = u
      BY <2>1 DEF LockedOK, Target
    <3>1. CASE u = t
      BY <1>1, <2>1, <3>1 DEF IInv, ControlTypes, InSetup
    <3>2. CASE u # t
      <4>1. lock'[u] = lock[u]
        BY <2>1, <3>2 DEF IInv, ControlTypes
      <4>2. lock[u] \in Suites /\ pc[lock[u]] \in InSetup /\ Target(lock[u]) = u
        BY <4>1 DEF IInv, LockedOK
      <4>3. lock[u] # s
        BY <1>1, <4>2 DEF InSetup
      <4> QED
        BY <2>1, <4>1, <4>2, <4>3 DEF IInv, ControlTypes
    <3> QED
      BY <3>1, <3>2
  <2>5. PastOK'
    <3> SUFFICES ASSUME NEW o \in Suites, NEW k \in 1 .. Len(Needs[o]),
                        k < current[o]
                 PROVE  setup_done'[Needs[o][k]] /\ lock'[Needs[o][k]] = NoSuite
      BY <2>1 DEF PastOK
    <3>1. setup_done[Needs[o][k]] /\ lock[Needs[o][k]] = NoSuite
      BY DEF IInv, PastOK
    <3>2. Needs[o][k] # t /\ Needs[o][k] \in Targets
      BY <1>3, <3>1, NeedsOK
    <3> QED
      BY <2>1, <3>1, <3>2 DEF IInv, ControlTypes
  <2> QED
    BY <2>2, <2>3, <2>4, <2>5, <2>6 DEF IInv
<1> QED
  BY <1>2, <1>3

\* A step within a setup, one that ends it, and one that gives it up.
LEMMA StayOK ==
  ASSUME IInv, NEW s \in Suites, pc[s] \in InSetup, NEW l \in InSetup, Goto(s, l),
         UNCHANGED <<lock, current, setup_done, setups>>
  PROVE  IInv'
<1>1. ControlTypes'
  BY DEF IInv, Goto, ControlTypes
<1>2. HoldersOK' /\ LockedOK'
  BY DEF IInv, Goto, ControlTypes, HoldersOK, LockedOK, Target
<1>3. OnceOK' /\ PastOK'
  BY DEF IInv, OnceOK, PastOK
<1> QED
  BY <1>1, <1>2, <1>3 DEF IInv

LEMMA ReleaseOK ==
  ASSUME IInv, NEW s \in Suites, pc[s] \in InSetup,
         lock' = [lock EXCEPT ![Target(s)] = NoSuite],
         NEW l \in {"next", "broken"}, Goto(s, l),
         UNCHANGED <<setup_done, setups>>,
         \/ current' = [current EXCEPT ![s] = @ + 1]
         \/ current' = current
  PROVE  IInv'
<1> DEFINE t == Target(s)
<1>1. /\ current[s] \in 1 .. Len(Needs[s]) /\ t \in Targets
      /\ lock[t] = s /\ setup_done[t]
  BY TargetOK, NoSuiteAssumption DEF IInv, HoldersOK, OnceOK
<1>2. ControlTypes'
  <2>1. /\ lock' \in [Targets -> Suites \cup {NoSuite}]
        /\ pc' \in [Suites -> InSetup \cup {"next", "ready", "broken"}]
        /\ setup_done' \in [Targets -> BOOLEAN]
        /\ setups' \in [Targets -> Nat]
    BY <1>1 DEF IInv, Goto, ControlTypes
  <2>2. current' \in [Suites -> Nat \ {0}]
    BY DEF IInv, ControlTypes
  <2>3. \A o \in Suites : current'[o] <= Len(Needs[o]) + 1
    <3> SUFFICES ASSUME NEW o \in Suites
                 PROVE  current'[o] <= Len(Needs[o]) + 1
      OBVIOUS
    <3>1. Len(Needs[o]) \in Nat /\ current[o] \in Nat
      BY LengthOK DEF IInv, ControlTypes
    <3>2. current[o] <= Len(Needs[o]) + 1
      BY DEF IInv, ControlTypes
    <3>3. CASE o = s /\ current'[o] = current[o] + 1
      <4>1. current[o] <= Len(Needs[o])
        BY <1>1, <3>3
      <4> QED
        BY <3>1, <3>3, <4>1
    <3>4. current'[o] = current[o] \/ (o = s /\ current'[o] = current[o] + 1)
      BY DEF IInv, ControlTypes
    <3> QED
      BY <3>2, <3>3, <3>4
  <2> QED
    BY <2>1, <2>2, <2>3 DEF ControlTypes
<1>3. HoldersOK'
  <2> SUFFICES ASSUME NEW o \in Suites, pc'[o] \in InSetup
               PROVE  current'[o] <= Len(Needs[o]) /\ lock'[Needs[o][current'[o]]] = o
    BY DEF HoldersOK, Target
  <2>1. o # s /\ pc[o] \in InSetup
    BY DEF IInv, ControlTypes, Goto, InSetup
  <2>2. current'[o] = current[o]
    BY <2>1 DEF IInv, ControlTypes
  <2>3. current[o] <= Len(Needs[o]) /\ lock[Target(o)] = o
    BY <2>1 DEF IInv, HoldersOK
  <2>4. Target(o) # t /\ Target(o) \in Targets
    BY <1>1, <2>1, <2>3, TargetOK DEF IInv
  <2> QED
    BY <2>2, <2>3, <2>4 DEF IInv, ControlTypes, Target
<1>4. OnceOK'
  BY <1>1 DEF IInv, ControlTypes, OnceOK
<1>5. PastOK'
  <2> SUFFICES ASSUME NEW o \in Suites, NEW k \in 1 .. Len(Needs[o]),
                      k < current'[o]
               PROVE  setup_done[Needs[o][k]] /\ lock'[Needs[o][k]] = NoSuite
    BY DEF PastOK
  <2>0. Needs[o][k] \in Targets
    BY NeedsOK
  <2>1. CASE Needs[o][k] = t
    BY <1>1, <2>1 DEF IInv, ControlTypes
  <2>2. CASE Needs[o][k] # t
    <3>1. current[o] \in Nat /\ k \in Int
      BY DEF IInv, ControlTypes
    <3>2. ~(o = s /\ k = current[s])
      BY <2>2 DEF Target
    <3>3. k < current[o]
      BY <3>1, <3>2 DEF IInv, ControlTypes
    <3>4. setup_done[Needs[o][k]] /\ lock[Needs[o][k]] = NoSuite
      BY <3>3 DEF IInv, PastOK
    <3> QED
      BY <2>0, <2>2, <3>4 DEF IInv, ControlTypes
  <2> QED
    BY <2>1, <2>2
<1>6. LockedOK'
  <2> SUFFICES ASSUME NEW u \in Targets, lock'[u] # NoSuite
               PROVE  /\ lock'[u] \in Suites /\ pc'[lock'[u]] \in InSetup
                      /\ Needs[lock'[u]][current'[lock'[u]]] = u
    BY DEF LockedOK, Target
  <2>1. u # t /\ lock'[u] = lock[u]
    BY <1>1 DEF IInv, ControlTypes
  <2>2. lock[u] \in Suites /\ pc[lock[u]] \in InSetup /\ Target(lock[u]) = u
    BY <2>1 DEF IInv, LockedOK
  <2>3. lock[u] # s
    BY <2>1, <2>2
  <2> QED
    BY <2>1, <2>2, <2>3 DEF IInv, ControlTypes, Goto, Target
<1> QED
  BY <1>2, <1>3, <1>4, <1>5, <1>6 DEF IInv

LEMMA InSetupOK ==
  ASSUME IInv, NEW s \in Suites,
         \/ Build(s) \/ Exists(s) \/ Remote(s) \/ Download(s) \/ Decompress(s)
         \/ Write(s) \/ Written(s) \/ Extract(s)
  PROVE  IInv'
<1>1. pc[s] \in InSetup /\ UNCHANGED <<setup_done, setups>>
  BY DEF Build, Exists, Remote, Download, Decompress, Write, Written, Extract,
         InSetup, hist
<1>2. \/ Leave(s)
      \/ Raise(s)
      \/ (\E l \in InSetup : Goto(s, l)) /\ UNCHANGED <<lock, current>>
  BY DEF Build, Exists, Remote, Download, Decompress, Write, Written, Extract,
         InSetup
<1>3. CASE Leave(s)
  BY <1>1, <1>3, ReleaseOK DEF Leave
<1>4. CASE Raise(s)
  BY <1>1, <1>4, ReleaseOK DEF Raise
<1>5. CASE (\E l \in InSetup : Goto(s, l)) /\ UNCHANGED <<lock, current>>
  BY <1>1, <1>5, StayOK
<1> QED
  BY <1>2, <1>3, <1>4, <1>5

LEMMA Inductive == Spec => []IInv
<1>1. IInv /\ [Next]_vars => IInv'
  <2> SUFFICES ASSUME IInv, [Next]_vars PROVE IInv'
    OBVIOUS
  <2>1. CASE Publish
    BY <2>1, UnchangedOK DEF Publish, control, hist
  <2>2. CASE Rerun
    BY <2>2, RerunOK
  <2>3. CASE \E s \in Suites : Step(s)
    BY <2>3, ReadyOK, EnterOK, InSetupOK DEF Step
  <2>4. CASE UNCHANGED vars
    BY <2>4, UnchangedOK DEF vars, control, hist
  <2> QED
    BY <2>1, <2>2, <2>3, <2>4 DEF Next
<1> QED
  BY InitInv, <1>1, PTL DEF Spec

-----------------------------------------------------------------------------
\* No suite gets past a fixture another one is still setting up: it would use
\* a file UniqueFixture.setup() has not finished.
THEOREM UsedAfterSetup == Spec => []NoUseDuringSetup
<1>1. IInv => NoUseDuringSetup
  <2> SUFFICES ASSUME IInv, NEW s \in Suites, NEW o \in Suites,
                      pc[o] \in InSetup, Target(o) \in Has(s)
               PROVE  FALSE
    BY DEF NoUseDuringSetup
  <2>1. lock[Target(o)] = o
    BY DEF IInv, HoldersOK
  <2>2. PICK k \in 1 .. current[s] - 1 : Target(o) = Needs[s][k]
    BY DEF Has
  <2>3. k \in 1 .. Len(Needs[s]) /\ k < current[s]
    BY <2>2, LengthOK DEF IInv, ControlTypes
  <2>4. lock[Target(o)] = NoSuite
    BY <2>2, <2>3 DEF IInv, PastOK
  <2> QED
    BY <2>1, <2>4, NoSuiteAssumption
<1> QED
  BY Inductive, <1>1, PTL

\* Within a session no setup is executed twice.
THEOREM SetUpOnce == Spec => []SetupOnce
<1>1. IInv => SetupOnce
  BY DEF IInv, OnceOK, SetupOnce
<1> QED
  BY Inductive, <1>1, PTL

-----------------------------------------------------------------------------
(***************************************************************************)
(* The files, as long as nothing fails and no session ends within a setup: *)
(* one that nobody is at is whole or does not exist, one that is set up is *)
(* whole unless the build was skipped, and what is under way is where the  *)
(* suite that holds the lock has got to.                                   *)
(***************************************************************************)
FileTypes ==
  /\ version \in Nat \ {0}
  /\ content \in [Targets -> Int]
  /\ unpacked \in [Targets -> Int]
  /\ fetched \in [Suites -> Nat]
  /\ skip_build \in BOOLEAN
  /\ interrupted \in BOOLEAN
  /\ failures \in Nat

Undisturbed == failures = 0 /\ ~interrupted

Whole(t) == content[t] > 0 /\ (Kind[t] = "archive" => unpacked[t] = content[t])

WholeOrNone(t) == content[t] = 0 \/ Whole(t)

Usable(t) == Whole(t) \/ (Kind[t] = "scons" /\ skip_build)

StageOK(s) ==
  /\ pc[s] = "scons" => Kind[Target(s)] = "scons"
  /\ pc[s] \in {"scons", "exists"} => WholeOrNone(Target(s))
  /\ pc[s] = "remote" => Whole(Target(s))
  /\ pc[s] \in {"decompress", "write", "written"} => fetched[s] > 0
  /\ pc[s] = "extract" => content[Target(s)] > 0

FilesOK ==
  Undisturbed =>
    /\ \A t \in Targets : lock[t] = NoSuite =>
         WholeOrNone(t) /\ (setup_done[t] => Usable(t))
    /\ \A s \in Suites : StageOK(s)

FInv == IInv /\ FileTypes /\ FilesOK

LEMMA FilesInit == Init => FileTypes /\ FilesOK
<1> SUFFICES ASSUME Init PROVE FileTypes /\ FilesOK
  OBVIOUS
<1>1. FileTypes
  <2>1. /\ version \in Nat \ {0} /\ failures \in Nat
        /\ content \in [Targets -> Int] /\ unpacked \in [Targets -> Int]
        /\ fetched \in [Suites -> Nat]
    BY DEF Init, Fresh
  <2>2. skip_build \in BOOLEAN /\ interrupted \in BOOLEAN
    BY Zenon DEF Init
  <2> QED
    BY <2>1, <2>2, Zenon DEF FileTypes
<1>2. \A s \in Suites : pc[s] = "next"
  BY DEF Init
<1>3. \A s \in Suites : StageOK(s)
  BY <1>2 DEF StageOK
<1>4. \A t \in Targets : content[t] = 0 /\ ~setup_done[t]
  BY DEF Init, Fresh
<1> QED
  BY <1>1, <1>3, <1>4 DEF FilesOK, WholeOrNone

LEMMA FileTypesStep == FileTypes /\ [Next]_vars => FileTypes'
<1> SUFFICES ASSUME FileTypes, [Next]_vars PROVE FileTypes'
  OBVIOUS
<1>1. CASE Publish
  BY <1>1 DEF Publish, FileTypes, disk, run
<1>2. CASE Rerun
  BY <1>2 DEF Rerun, NewSession, FileTypes, disk
<1>3. ASSUME NEW s \in Suites, Step(s) PROVE FileTypes'
  <2>1. CASE Ready(s) \/ Enter(s) \/ Exists(s)
    BY <2>1 DEF Ready, Enter, Exists, FileTypes, disk, run
  <2>2. CASE Build(s) \/ Remote(s) \/ Download(s) \/ Decompress(s)
    BY <2>2 DEF Build, Remote, Download, Decompress, Raise, FileTypes, disk, run
  <2>3. CASE Write(s) \/ Written(s) \/ Extract(s)
    BY <2>3 DEF Write, Written, Extract, Raise, FileTypes, run
  <2> QED
    BY <1>3, <2>1, <2>2, <2>3 DEF Step
<1>4. CASE UNCHANGED vars
  BY <1>4 DEF vars, FileTypes, disk, run
<1> QED
  BY <1>1, <1>2, <1>3, <1>4 DEF Next

\* A suite inside a setup only touches the target it holds.
LEMMA OneTarget ==
  ASSUME FInv, Undisturbed, NEW s \in Suites, pc[s] \in InSetup,
         NEW h \in Targets, h = Target(s),
         setup_done' = setup_done, skip_build' = skip_build,
         \A u \in Targets \ {h} :
           /\ content'[u] = content[u] /\ unpacked'[u] = unpacked[u]
           /\ lock'[u] = lock[u],
         \A o \in Suites \ {s} :
           pc'[o] = pc[o] /\ current'[o] = current[o] /\ fetched'[o] = fetched[o],
         lock'[h] = NoSuite => WholeOrNone(h)' /\ Usable(h)',
         StageOK(s)'
  PROVE  FilesOK'
<1>1. setup_done[h] /\ lock[h] = s
  BY NoSuiteAssumption DEF FInv, IInv, HoldersOK, OnceOK
<1>2. ASSUME NEW t \in Targets, lock'[t] = NoSuite
      PROVE  WholeOrNone(t)' /\ (setup_done'[t] => Usable(t)')
  <2>1. CASE t = h
    BY <1>2, <2>1
  <2>2. CASE t # h
    BY <1>2, <2>2 DEF FInv, FilesOK, WholeOrNone, Usable, Whole
  <2> QED
    BY <2>1, <2>2
<1>3. ASSUME NEW o \in Suites, o # s PROVE StageOK(o)'
  <2>1. StageOK(o) /\ Target(o)' = Target(o)
    BY <1>3 DEF FInv, FilesOK, Target
  <2>2. pc[o] \in InSetup => Target(o) \in Targets /\ Target(o) # h
    BY <1>1, <1>3, TargetOK DEF FInv, IInv, HoldersOK
  <2> QED
    BY <1>3, <2>1, <2>2 DEF StageOK, WholeOrNone, Whole, InSetup
<1> QED
  BY <1>2, <1>3 DEF FilesOK

\* A failure or an interruption ends what is promised.
LEMMA StillUndisturbed ==
  ASSUME FileTypes, [Next]_vars, Undisturbed'
  PROVE  /\ Undisturbed
         /\ Rerun => \A s \in Suites : pc[s] \notin InSetup
         /\ \A s \in Suites : ~Raise(s)
<1>1. Rerun => Undisturbed /\ \A s \in Suites : pc[s] \notin InSetup
  BY DEF Rerun, Undisturbed
<1>2. \A s \in Suites : ~Raise(s)
  BY DEF Raise, FileTypes, Undisturbed
<1>3. Undisturbed
  <2>1. CASE Publish \/ UNCHANGED vars
    BY <2>1 DEF Publish, vars, run, Undisturbed
  <2>2. ASSUME NEW s \in Suites, Step(s) PROVE Undisturbed
    <3>1. /\ interrupted' = interrupted
          /\ failures' = failures \/ failures' = failures + 1
      BY <2>2 DEF Step, Ready, Enter, Build, Exists, Remote, Download,
         Decompress, Write, Written, Extract, Raise, run
    <3> QED
      BY <3>1 DEF Undisturbed, FileTypes
  <2> QED
    BY <1>1, <2>1, <2>2 DEF Next
<1> QED
  BY <1>1, <1>2, <1>3

\* A session that ends with nobody in a setup leaves every lock free, and so
\* every file whole or none.
LEMMA FilesRerun ==
  ASSUME FInv, Undisturbed, Rerun, \A s \in Suites : pc[s] \notin InSetup
  PROVE  FilesOK'
<1>1. \A t \in Targets : lock[t] = NoSuite
  BY DEF FInv, IInv, LockedOK
<1>2. /\ UNCHANGED <<content, unpacked>>
      /\ \A t \in Targets : setup_done'[t] = FALSE
      /\ \A s \in Suites : pc'[s] = "next"
  BY DEF Rerun, NewSession, Fresh, disk
<1>3. \A t \in Targets : WholeOrNone(t)'
  BY <1>1, <1>2 DEF FInv, FilesOK, WholeOrNone, Whole
<1>4. \A s \in Suites : StageOK(s)'
  BY <1>2 DEF StageOK
<1> QED
  BY <1>2, <1>3, <1>4 DEF FilesOK

LEMMA FilesSetup ==
  ASSUME FInv, Undisturbed, Undisturbed', NEW s \in Suites, ~Raise(s), Step(s)
  PROVE  FilesOK'
<1>t. /\ StageOK(s) /\ skip_build' = skip_build
      /\ \A t \in Targets : lock[t] = NoSuite => WholeOrNone(t)
      /\ content \in [Targets -> Int] /\ unpacked \in [Targets -> Int]
      /\ fetched \in [Suites -> Nat] /\ version \in Nat \ {0} /\ failures \in Nat
      /\ pc \in [Suites -> InSetup \cup {"next", "ready", "broken"}]
      /\ lock \in [Targets -> Suites \cup {NoSuite}]
      /\ current \in [Suites -> Nat \ {0}]
      /\ setup_done \in [Targets -> BOOLEAN]
  <2>1. skip_build' = skip_build
    BY DEF Step, Ready, Enter, Build, Exists, Remote, Download, Decompress,
           Write, Written, Extract, run
  <2> QED
    BY <2>1 DEF FInv, FilesOK, FileTypes, IInv, ControlTypes
<1>u. pc[s] \in InSetup => Target(s) \in Targets /\ lock[Target(s)] # NoSuite
  BY TargetOK, NoSuiteAssumption DEF FInv, IInv, HoldersOK
<1>1. CASE Ready(s)
  BY <1>1, <1>t DEF Ready, Goto, FInv, FilesOK, StageOK, WholeOrNone, Usable, Whole,
                    Target, disk, hist
<1>2. CASE Enter(s)
  <2>1. current[s] \in 1 .. Len(Needs[s]) /\ Target(s) \in Targets
        /\ lock[Target(s)] = NoSuite /\ pc[s] = "next"
    BY <1>2, TargetOK DEF Enter, FInv, IInv
  <2>2. UNCHANGED <<content, unpacked, fetched>>
    BY <1>2 DEF Enter, disk
  <2>3. CASE setup_done[Target(s)]
    <3>1. /\ current' = [current EXCEPT ![s] = @ + 1]
          /\ UNCHANGED <<lock, setup_done, pc>>
      BY <1>2, <2>3 DEF Enter
    <3>2. ASSUME NEW o \in Suites PROVE StageOK(o)'
      <4>1. CASE o = s
        BY <2>1, <3>1, <4>1 DEF StageOK
      <4>2. CASE o # s
        BY <1>t, <2>2, <3>1, <4>2 DEF FInv, FilesOK, StageOK, WholeOrNone, Whole, Target
      <4> QED
        BY <4>1, <4>2
    <3> QED
      BY <1>t, <2>2, <3>1, <3>2 DEF FInv, FilesOK, WholeOrNone, Usable, Whole
  <2>4. CASE ~setup_done[Target(s)]
    <3>1. /\ lock' = [lock EXCEPT ![Target(s)] = s]
          /\ setup_done' = [setup_done EXCEPT ![Target(s)] = TRUE]
          /\ pc' = [pc EXCEPT ![s] = IF Kind[Target(s)] = "scons" THEN "scons"
                                                                  ELSE "exists"]
          /\ current' = current
      BY <1>2, <2>4 DEF Enter, Goto
    <3>2. ASSUME NEW o \in Suites PROVE StageOK(o)'
      <4>0. Target(o)' = Target(o)
        BY <3>1 DEF Target
      <4>1. CASE o = s
        BY <1>t, <2>1, <2>2, <2>4, <3>1, <4>0, <4>1 DEF StageOK, WholeOrNone, Whole
      <4>2. CASE o # s
        BY <1>t, <2>2, <3>1, <4>0, <4>2 DEF FInv, FilesOK, StageOK, WholeOrNone, Whole
      <4> QED
        BY <4>1, <4>2
    <3>3. ASSUME NEW t \in Targets, lock'[t] = NoSuite
          PROVE  WholeOrNone(t)' /\ (setup_done'[t] => Usable(t)')
      <4>1. CASE t = Target(s)
        BY <1>t, <2>1, <3>1, <3>3, <4>1, NoSuiteAssumption
      <4>2. CASE t # Target(s)
        BY <1>t, <2>2, <3>1, <3>3, <4>2 DEF FInv, FilesOK, WholeOrNone, Usable, Whole
      <4> QED
        BY <4>1, <4>2
    <3> QED
      BY <3>2, <3>3 DEF FilesOK
  <2> QED
    BY <2>3, <2>4
<1>3. CASE \/ Build(s) \/ Exists(s) \/ Remote(s) \/ Download(s) \/ Decompress(s)
           \/ Write(s) \/ Written(s) \/ Extract(s)
  <2>1. /\ pc[s] \in InSetup /\ setup_done' = setup_done
        /\ failures' = failures
    BY <1>3, <1>t DEF Undisturbed, Build, Exists, Remote, Download, Decompress,
       Write, Written, Extract, InSetup, hist
  <2> PICK h \in Targets : h = Target(s)
    BY <1>u, <2>1
  <2>2. /\ \/ content' = content
           \/ \E v \in Int : content' = [content EXCEPT ![h] = v]
        /\ \/ unpacked' = unpacked
           \/ \E v \in Int : unpacked' = [unpacked EXCEPT ![h] = v]
        /\ \/ lock' = lock
           \/ lock' = [lock EXCEPT ![h] = NoSuite]
        /\ \E l : pc' = [pc EXCEPT ![s] = l]
        /\ \/ current' = current
           \/ current' = [current EXCEPT ![s] = @ + 1]
        /\ \/ fetched' = fetched
           \/ fetched' = [fetched EXCEPT ![s] = version]
    <3>1. CASE Build(s) \/ Exists(s)
      BY <1>t, <3>1 DEF Build, Exists, Leave, Goto, disk
    <3>2. CASE Remote(s) \/ Download(s) \/ Decompress(s)
      BY <1>t, <3>2 DEF Remote, Download, Decompress, Leave, Goto, disk
    <3>3. CASE Write(s)
      <4>1. content' = [content EXCEPT ![h] = -1] /\ -1 \in Int
        BY <3>3 DEF Write
      <4> QED
        BY <3>3, <4>1 DEF Write, Goto
    <3>4. CASE Written(s)
      BY <1>t, <3>4 DEF Written, Leave, Goto
    <3>5. CASE Extract(s)
      BY <1>t, <1>u, <2>1, <3>5 DEF Extract, Leave, Goto
    <3> QED
      BY <1>3, <3>1, <3>2, <3>3, <3>4, <3>5
  <2>3. /\ \A u \in Targets \ {h} :
             /\ content'[u] = content[u] /\ unpacked'[u] = unpacked[u]
             /\ lock'[u] = lock[u]
        /\ \A o \in Suites \ {s} :
             pc'[o] = pc[o] /\ current'[o] = current[o] /\ fetched'[o] = fetched[o]
    BY <1>t, <2>2
  <2>4. (lock'[h] = NoSuite => WholeOrNone(h)' /\ Usable(h)') /\ StageOK(s)'
    <3>1. CASE Build(s)
      BY <1>t, <1>u, <2>1, <3>1, FixturesAssumption
         DEF Build, Leave, Goto, WholeOrNone, Usable, Whole, StageOK
    <3>2. CASE Exists(s)
      BY <1>t, <1>u, <2>1, <3>2
         DEF Exists, Goto, StageOK, WholeOrNone, Whole, Target, disk
    <3>3. CASE Remote(s)
      BY <1>t, <1>u, <2>1, <3>3
         DEF Remote, Leave, Goto, StageOK, WholeOrNone, Usable, Whole, disk
    <3>4. CASE Download(s) \/ Decompress(s)
      BY <1>t, <1>u, <2>1, <3>4 DEF Download, Decompress, Goto, StageOK, disk
    <3>5. CASE Write(s)
      BY <1>t, <1>u, <2>1, <3>5 DEF Write, Goto, StageOK
    <3>6. CASE Written(s)
      BY <1>t, <1>u, <2>1, <3>6
         DEF Written, Leave, Goto, StageOK, WholeOrNone, Usable, Whole, Target
    <3>7. CASE Extract(s)
      BY <1>t, <1>u, <2>1, <3>7
         DEF Extract, Leave, Goto, StageOK, WholeOrNone, Usable, Whole
    <3> QED
      BY <1>3, <3>1, <3>2, <3>3, <3>4, <3>5, <3>6, <3>7
  <2> QED
    BY <1>t, <2>1, <2>3, <2>4, OneTarget
<1> QED
  BY <1>1, <1>2, <1>3 DEF Step

\* As long as nothing fails and no session ends within a setup, a suite has
\* everything it set up in the state it needs (UsableWhenReady): downloads
\* whole and unpacked by whichever suite came first, in this session or an
\* earlier one, and the simulator built, unless the build was skipped.
THEOREM UsableFiles == Spec => []UsableWhenReady
<1>1. FInv /\ [Next]_vars => FilesOK'
  <2> SUFFICES ASSUME FInv, [Next]_vars, Undisturbed' PROVE FilesOK'
    BY DEF FilesOK
  <2>1. /\ Undisturbed
        /\ Rerun => \A s \in Suites : pc[s] \notin InSetup
        /\ \A s \in Suites : ~Raise(s)
    BY StillUndisturbed DEF FInv
  <2>2. CASE Publish \/ UNCHANGED vars
    BY <2>1, <2>2 DEF Publish, vars, disk, run, FInv, FilesOK, StageOK,
                      WholeOrNone, Usable, Whole, Target
  <2>3. CASE Rerun
    BY <2>1, <2>3, FilesRerun
  <2>4. CASE \E s \in Suites : Step(s)
    BY <2>1, <2>4, FilesSetup
  <2> QED
    BY <2>2, <2>3, <2>4 DEF Next
<1>2. FInv => UsableWhenReady
  <2> SUFFICES ASSUME FInv, Undisturbed, NEW s \in Suites, NEW t \in Has(s)
               PROVE  /\ content[t] > 0 \/ (Kind[t] = "scons" /\ skip_build)
                      /\ Kind[t] = "archive" => unpacked[t] = content[t]
    BY DEF UsableWhenReady, Undisturbed
  <2>1. PICK k \in 1 .. current[s] - 1 : t = Needs[s][k]
    BY DEF Has
  <2>2. k \in 1 .. Len(Needs[s]) /\ k < current[s]
    BY <2>1, LengthOK DEF FInv, IInv, ControlTypes
  <2>3. t \in Targets /\ setup_done[t] /\ lock[t] = NoSuite
    BY <2>1, <2>2, NeedsOK DEF FInv, IInv, PastOK
  <2>4. Usable(t)
    BY <2>3 DEF FInv, FilesOK
  <2> QED
    BY <2>4 DEF Usable, Whole
<1> QED
  BY Inductive, FilesInit, FileTypesStep, <1>1, <1>2, PTL DEF FInv, Spec

-----------------------------------------------------------------------------
(***************************************************************************)
(* The chain of processes and the verdict of the checkpoint test, for any  *)
(* number of checkpoints, any interval and any drain.                      *)
(***************************************************************************)

\* Between two children the checkpoint on disk is whole, and is where the
\* chain has got to.
Between ==
  step = "loop" =>
    /\ restore <=> cpt_no > 0
    /\ reached = IF cpt_no > 0 THEN cpt ELSE 0

\* While a child runs.
Running ==
  /\ step \in {"simulate", "write"} => cpt_no < max_checkpoints
  /\ step = "simulate" /\ cpt_no = 0 => tick = 0
  /\ step = "write" => tick > 0

\* What an exit code tells the parent about the guest and the disk.
Told ==
  step = "join" =>
    /\ exitcode = "done" =>
         /\ exitCause = "normal" /\ exitAt <= EndOfTime
         /\ cpt_no = 0 => exitAt <= Interval
    /\ exitcode = "fail" => exitCause = "other"
    /\ exitcode = "killed" => killed
    /\ exitcode = "checkpoint" =>
         cpt_no < max_checkpoints /\ cpt = reached /\ reached > 0

Ending ==
  /\ step = "simulate_final" => cpt_no > 0 /\ tick = 0
  /\ step # "exited" => code = -1

TestInv ==
  /\ TypeOK
  /\ checkpointed <=> cpt_no > 0
  /\ cpt_no > 0 => reached > 0
  /\ Between /\ Running /\ Told /\ Ending
  /\ VerdictIsRight

LEMMA InitIInv == TestInit => TestInv
<1> SUFFICES ASSUME TestInit PROVE TestInv
  OBVIOUS
<1>1. TypeOK
  <2>1. cpt_no \in 0 .. max_checkpoints /\ tick \in 0 .. EndOfTime
        /\ origin \in 0 .. EndOfTime /\ reached \in 0 .. EndOfTime
    BY CheckpointTestAssumption, SMT DEF TestInit
  <2> QED
    BY <2>1, Zenon DEF TestInit, TypeOK, NoCheckpoint, ExitCodes
<1>2. Between /\ Running /\ Told /\ Ending /\ VerdictIsRight
  BY CheckpointTestAssumption
     DEF TestInit, Between, Running, Told, Ending, VerdictIsRight
<1>3. (checkpointed <=> cpt_no > 0) /\ (cpt_no > 0 => reached > 0)
  BY DEF TestInit
<1> QED
  BY <1>1, <1>2, <1>3 DEF TestInv

LEMMA NextIInv == TestInv /\ [TestNext]_test_vars => TestInv'
<1> SUFFICES ASSUME TestInv, [TestNext]_test_vars PROVE TestInv'
  OBVIOUS
<1> USE CheckpointTestAssumption
    DEF TestInv, TypeOK, Between, Running, Told, Ending, VerdictIsRight,
        NoCheckpoint, ExitCodes, guest
<1>1. CASE StartChild
  BY <1>1, SMT DEF StartChild, Start, Instantiate
<1>2. CASE ChildSimulate
  BY <1>2, SMT DEF ChildSimulate, Exits, IntervalEnd
<1>3. CASE ChildWrite
  BY <1>3, SMT DEF ChildWrite
<1>4. CASE ChildDies
  BY <1>4, SMT DEF ChildDies
<1>5. CASE Join
  <2>1. CASE exitcode = "done" /\ checkpointed
    BY <1>5, <2>1, SMT DEF Join, Joined, Exit
  <2>2. CASE exitcode = "done" /\ ~checkpointed
    BY <1>5, <2>2, SMT DEF Join, Joined, Exit
  <2>3. CASE exitcode = "checkpoint"
    BY <1>5, <2>3, SMT DEF Join, Joined, Exit
  <2>4. CASE exitcode \in {"fail", "killed"}
    BY <1>5, <2>4, SMT DEF Join, Joined, Exit
  <2> QED
    BY <2>1, <2>2, <2>3, <2>4
<1>6. CASE StartFinal
  BY <1>6, SMT DEF StartFinal, Instantiate
<1>7. CASE SimulateFinal
  BY <1>7, SMT DEF SimulateFinal, Exits, Exit
<1>8. CASE UNCHANGED test_vars
  BY <1>8, SMT DEF test_vars
<1> QED
  BY <1>1, <1>2, <1>3, <1>4, <1>5, <1>6, <1>7, <1>8 DEF TestNext

LEMMA Invariant == TestSpec => []TestInv
BY InitIInv, NextIInv, PTL DEF TestSpec

\* The test passes and fails for the right reasons: a guest that exits
\* normally after the first checkpoint is never reported as a failure unless
\* a child was killed, and no other guest as a success.
THEOREM RightVerdict == TestSpec => []VerdictIsRight
<1>1. TestInv => VerdictIsRight
  BY DEF TestInv
<1> QED
  BY <1>1, Invariant, PTL

\* A child starts where the chain of checkpoints has got to, so that the
\* children together run the guest once.
THEOREM ChainContinues == TestSpec => ContinuesFromCheckpoint
<1>1. TestInv /\ [TestNext]_test_vars => [step = "loop" /\ step' = "simulate" => tick' = reached]_test_vars
  <2> SUFFICES ASSUME TestInv, TestNext, step = "loop", step' = "simulate"
               PROVE  tick' = reached
    OBVIOUS
  <2>1. StartChild
    BY SMT DEF TestNext, ChildSimulate, ChildWrite, ChildDies, Join, Joined, Exit,
               StartFinal, SimulateFinal
  <2> QED
    BY <2>1, SMT DEF TestInv, Between, TypeOK, StartChild, Start, Instantiate
<1> QED
  BY <1>1, Invariant, PTL DEF TestSpec, ContinuesFromCheckpoint
=============================================================================

------------------------------ MODULE Fixtures ------------------------------
(***************************************************************************)
(* tests/gem5/fixture.py: the files the test suites share.  A              *)
(* UniqueFixture stands for one target in the file system; suites run on   *)
(* several threads, and the first that needs a target sets it up under its *)
(* lock.  A Gem5Fixture is built by SCons, a DownloadedProgram is fetched  *)
(* when it is missing or older than the one on the server, and a           *)
(* DownloadedArchive is unpacked as well.  Files outlive the session; what *)
(* the fixtures remember does not.                                         *)
(***************************************************************************)
EXTENDS Integers, Sequences, FiniteSets

CONSTANTS
  Targets,       \* UniqueFixture.fixtures: one fixture per target
  Kind,          \* its class: "scons", "program" or "archive"
  Gzipped,       \* targets downloaded with gzip_decompress
  Suites,
  Needs,         \* the targets of a suite, in the order it sets them up
  MaxVersion,    \* versions the server publishes, at most
  MaxSessions,   \* sessions: all but the last may be interrupted
  MaxFailures    \* commands and connections that fail, at most

ASSUME FixturesAssumption ==
  /\ Kind \in [Targets -> {"scons", "program", "archive"}]
  /\ Gzipped \subseteq Targets
  /\ Needs \in [Suites -> Seq(Targets)]
  /\ MaxVersion \in Nat \ {0}
  /\ MaxSessions \in Nat \ {0}
  /\ MaxFailures \in Nat

NoSuite == "no suite"
ASSUME NoSuiteAssumption == NoSuite \notin Suites

VARIABLES
  version,     \* what the server has; time is counted in its publications
  content,     \* per target, the version in its file: 0 if there is no file,
               \* -1 if it is incomplete
  mtime,       \* per target, when its file was last written
  unpacked,    \* per target, the version last unpacked from it
  setup_done,  \* per target, _setup_done
  lock,        \* per target, the suite that holds its lock
  pc,          \* per suite, its next step
  current,     \* per suite, the position of the target it sets up
  fetched,     \* per suite, the version being downloaded
  session,
  skip_build,  \* config.skip_build, an option of the session
  failures,
  interrupted, \* history: a session ended within a setup
  setups,      \* history: setups run in this session, per target
  checked      \* history: the newest version a completed setup of this
               \* session compared its file with; 0 if none did

disk   == <<content, mtime, unpacked>>
run    == <<session, skip_build, interrupted>>
hist   == <<setups, checked>>
vars   == <<version, disk, setup_done, lock, pc, current, fetched, run,
            failures, hist>>

Fresh(v) == [t \in Targets |-> v]

\* A new process: no fixture is set up, no lock is held.
NewSession ==
  /\ skip_build' \in BOOLEAN
  /\ setup_done' = Fresh(FALSE)
  /\ lock' = Fresh(NoSuite)
  /\ pc' = [s \in Suites |-> "next"]
  /\ current' = [s \in Suites |-> 1]
  /\ fetched' = [s \in Suites |-> 0]
  /\ setups' = Fresh(0)
  /\ checked' = Fresh(0)

Init ==
  /\ version = 1
  /\ content = Fresh(0) /\ mtime = Fresh(0) /\ unpacked = Fresh(0)
  /\ setup_done = Fresh(FALSE)
  /\ lock = Fresh(NoSuite)
  /\ pc = [s \in Suites |-> "next"]
  /\ current = [s \in Suites |-> 1]
  /\ fetched = [s \in Suites |-> 0]
  /\ session = 1
  /\ skip_build \in BOOLEAN
  /\ failures = 0
  /\ interrupted = FALSE
  /\ setups = Fresh(0) /\ checked = Fresh(0)

\* Where a suite is inside a setup.
InSetup == {"scons", "exists", "remote", "download", "decompress", "write",
            "written", "extract"}

Target(s) == Needs[s][current[s]]
Goto(s, l) == pc' = [pc EXCEPT ![s] = l]

-----------------------------------------------------------------------------
(* UniqueFixture.setup()                                                   *)

\* All its fixtures are set up: the suite runs its tests.
Ready(s) ==
  /\ pc[s] = "next"
  /\ current[s] > Len(Needs[s])
  /\ Goto(s, "ready")
  /\ UNCHANGED <<version, disk, setup_done, lock, current, fetched, run,
                 failures, hist>>

\* Faulty variant: the test of _setup_done does not wait for the lock.
EnterUnlocked(s) ==
  /\ pc[s] = "next"
  /\ current[s] <= Len(Needs[s])
  /\ IF setup_done[Target(s)]
       THEN /\ current' = [current EXCEPT ![s] = @ + 1]
            /\ UNCHANGED <<lock, setup_done, setups, pc>>
       ELSE /\ lock[Target(s)] = NoSuite
            /\ lock' = [lock EXCEPT ![Target(s)] = s]
            /\ setup_done' = [setup_done EXCEPT ![Target(s)] = TRUE]
            /\ setups' = [setups EXCEPT ![Target(s)] = @ + 1]
            /\ Goto(s, IF Kind[Target(s)] = "scons" THEN "scons" ELSE "exists")
            /\ UNCHANGED current
  /\ UNCHANGED <<version, disk, fetched, run, failures, checked>>

\* Faulty variant: _setup_done is not set.
EnterEachTime(s) ==
  /\ pc[s] = "next"
  /\ current[s] <= Len(Needs[s])
  /\ lock[Target(s)] = NoSuite
  /\ lock' = [lock EXCEPT ![Target(s)] = s]
  /\ setups' = [setups EXCEPT ![Target(s)] = @ + 1]
  /\ Goto(s, IF Kind[Target(s)] = "scons" THEN "scons" ELSE "exists")
  /\ UNCHANGED <<version, disk, setup_done, current, fetched, run, failures,
                 checked>>

\* The lock is taken; a setup done before, or under way when it was awaited,
\* is not repeated.  _setup_done is set before _setup() is called.
Enter(s) ==
  /\ pc[s] = "next"
  /\ current[s] <= Len(Needs[s])
  /\ lock[Target(s)] = NoSuite
  /\ IF setup_done[Target(s)]
       THEN /\ current' = [current EXCEPT ![s] = @ + 1]
            /\ UNCHANGED <<lock, setup_done, setups, pc>>
       ELSE /\ lock' = [lock EXCEPT ![Target(s)] = s]
            /\ setup_done' = [setup_done EXCEPT ![Target(s)] = TRUE]
            /\ setups' = [setups EXCEPT ![Target(s)] = @ + 1]
            /\ Goto(s, IF Kind[Target(s)] = "scons" THEN "scons" ELSE "exists")
            /\ UNCHANGED current
  /\ UNCHANGED <<version, disk, fetched, run, failures, checked>>

\* _setup() returned: release the lock, go on to the next fixture.
Leave(s) ==
  /\ lock' = [lock EXCEPT ![Target(s)] = NoSuite]
  /\ current' = [current EXCEPT ![s] = @ + 1]
  /\ Goto(s, "next")

\* Faulty variant: the lock stays taken.
RaiseLocked(s) ==
  /\ failures < MaxFailures
  /\ failures' = failures + 1
  /\ Goto(s, "broken")
  /\ UNCHANGED <<lock, current>>

\* _setup() raised: the lock is released, the suite is not run.
Raise(s) ==
  /\ failures < MaxFailures
  /\ failures' = failures + 1
  /\ lock' = [lock EXCEPT ![Target(s)] = NoSuite]
  /\ Goto(s, "broken")
  /\ UNCHANGED current

-----------------------------------------------------------------------------
(* SConsFixture._setup(): one SCons command for the targets of the         *)
(* fixture, or what is there with --skip-build.                            *)

Build(s) ==
  /\ pc[s] = "scons"
  /\ \/ /\ skip_build
        /\ Leave(s)
        /\ UNCHANGED <<content, mtime, failures>>
     \/ /\ ~skip_build
        /\ content' = [content EXCEPT ![Target(s)] = version]
        /\ mtime' = [mtime EXCEPT ![Target(s)] = version]
        /\ Leave(s)
        /\ UNCHANGED failures
     \/ ~skip_build /\ Raise(s) /\ UNCHANGED <<content, mtime>>
  /\ UNCHANGED <<version, unpacked, setup_done, fetched, run, hist>>

-----------------------------------------------------------------------------
(* DownloadedProgram._setup() and DownloadedArchive._setup()               *)

Exists(s) ==
  /\ pc[s] = "exists"
  /\ Goto(s, IF content[Target(s)] = 0 THEN "download" ELSE "remote")
  /\ UNCHANGED <<version, disk, setup_done, lock, current, fetched, run,
                 failures, hist>>

\* Compare the times; without a connection the old files are used, any other
\* failure of the request or of reading the time is raised.
Remote(s) ==
  /\ pc[s] = "remote"
  /\ \/ /\ version > mtime[Target(s)]
        /\ Goto(s, "download")
        /\ UNCHANGED <<lock, current, failures, checked>>
     \/ /\ version <= mtime[Target(s)]
        /\ checked' = [checked EXCEPT ![Target(s)] = version]
        /\ Leave(s)
        /\ UNCHANGED failures
     \/ /\ failures < MaxFailures
        /\ failures' = failures + 1
        /\ Leave(s)
        /\ UNCHANGED checked
     \/ Raise(s) /\ UNCHANGED checked
  /\ UNCHANGED <<version, disk, setup_done, fetched, run, setups>>

\* The request: what is downloaded is the version of this moment.  A gzipped
\* file goes to a file of its own first.
Download(s) ==
  /\ pc[s] = "download"
  /\ \/ /\ fetched' = [fetched EXCEPT ![s] = version]
        /\ Goto(s, IF Target(s) \in Gzipped THEN "decompress" ELSE "write")
        /\ UNCHANGED <<lock, current, failures>>
     \/ Raise(s) /\ UNCHANGED fetched
  /\ UNCHANGED <<version, disk, setup_done, run, hist>>

\* The gzipped file arrives.
Decompress(s) ==
  /\ pc[s] = "decompress"
  /\ \/ Goto(s, "write") /\ UNCHANGED <<lock, current, failures>>
     \/ Raise(s)
  /\ UNCHANGED <<version, disk, setup_done, fetched, run, hist>>

\* The file is opened for writing, emptied, ...
Write(s) ==
  /\ pc[s] = "write"
  /\ content' = [content EXCEPT ![Target(s)] = -1]
  /\ mtime' = [mtime EXCEPT ![Target(s)] = version]
  /\ Goto(s, "written")
  /\ UNCHANGED <<version, unpacked, setup_done, lock, current, fetched, run,
                 failures, hist>>

\* Faulty variant: an archive is not unpacked.
WrittenOnly(s) ==
  /\ pc[s] = "written"
  /\ content' = [content EXCEPT ![Target(s)] = fetched[s]]
  /\ mtime' = [mtime EXCEPT ![Target(s)] = version]
  /\ checked' = [checked EXCEPT ![Target(s)] = fetched[s]]
  /\ Leave(s)
  /\ UNCHANGED <<version, unpacked, setup_done, fetched, run, failures, setups>>

\* ... and complete, unless the connection or the disk fails.
Written(s) ==
  /\ pc[s] = "written"
  /\ \/ /\ content' = [content EXCEPT ![Target(s)] = fetched[s]]
        /\ mtime' = [mtime EXCEPT ![Target(s)] = version]
        /\ IF Kind[Target(s)] = "archive"
             THEN Goto(s, "extract") /\ UNCHANGED <<lock, current, checked>>
             ELSE /\ checked' = [checked EXCEPT ![Target(s)] = fetched[s]]
                  /\ Leave(s)
        /\ UNCHANGED failures
     \/ Raise(s) /\ UNCHANGED <<content, mtime, checked>>
  /\ UNCHANGED <<version, unpacked, setup_done, fetched, run, setups>>

Extract(s) ==
  /\ pc[s] = "extract"
  /\ \/ /\ unpacked' = [unpacked EXCEPT ![Target(s)] = content[Target(s)]]
        /\ checked' = [checked EXCEPT ![Target(s)] = content[Target(s)]]
        /\ Leave(s)
        /\ UNCHANGED failures
     \/ Raise(s) /\ UNCHANGED <<unpacked, checked>>
  /\ UNCHANGED <<version, content, mtime, setup_done, fetched, run, setups>>

-----------------------------------------------------------------------------
(* The environment.                                                        *)

Publish ==
  /\ version < MaxVersion
  /\ version' = version + 1
  /\ UNCHANGED <<disk, setup_done, lock, pc, current, fetched, run,
                 failures, hist>>

\* The tests are run again, after the last run ended or was interrupted.
Rerun ==
  /\ session < MaxSessions
  /\ session' = session + 1
  /\ interrupted' = (interrupted \/ \E s \in Suites : pc[s] \in InSetup)
  /\ NewSession
  /\ UNCHANGED <<version, disk, failures>>

Step(s) ==
  \/ Ready(s) \/ Enter(s) \/ Build(s) \/ Exists(s) \/ Remote(s) \/ Download(s)
  \/ Decompress(s) \/ Write(s) \/ Written(s) \/ Extract(s)

Next == Publish \/ Rerun \/ \E s \in Suites : Step(s)

Spec     == Init /\ [][Next]_vars
FairSpec == Spec /\ \A s \in Suites : WF_vars(Step(s))

-----------------------------------------------------------------------------
(* Properties.                                                             *)

\* What suite s has already set up, as far as it knows.
Has(s) == {Needs[s][k] : k \in 1 .. current[s] - 1}

\* A suite never gets past a fixture another suite is still setting up, so
\* it never sees the file half written.
NoUseDuringSetup ==
  \A s, o \in Suites :
    pc[o] \in InSetup => Target(o) \notin Has(s)

\* "makes sure that setup is only executed once" (UniqueFixture), whichever
\* suites need the target and in which order their threads run.
SetupOnce == \A t \in Targets : setups[t] <= 1

\* As long as nothing fails and no session ends within a setup, a suite of any
\* session runs with what it needs: every download complete, whether this
\* session fetched it, replaced it or found it, every archive unpacked as it
\* is, and the simulator built, unless --skip-build asked to use what is there.
UsableWhenReady ==
  (failures = 0 /\ ~interrupted) =>
    \A s \in Suites : \A t \in Has(s) :
      /\ content[t] > 0 \/ (Kind[t] = "scons" /\ skip_build)
      /\ Kind[t] = "archive" => unpacked[t] = content[t]

\* Suites that need several targets in different orders never wait for each
\* other for ever: in the last session each one runs or is given up.
EverySuiteSettles ==
  <>[](\A s \in Suites : pc[s] \in {"ready", "broken"})

-----------------------------------------------------------------------------
(* What the documentation says and the code does not do.                   *)

\* "checks the version in the gem5 binary repository and downloads an updated
\* version if it is needed" (DownloadedProgram): a completed check leaves a
\* complete file, as new as the version it was compared with.
DownloadedIfNeeded ==
  \A t \in Targets : (checked[t] > 0 /\ \A s \in Suites : lock[t] # s) =>
    content[t] >= checked[t]
=============================================================================

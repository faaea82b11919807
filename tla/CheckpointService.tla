------------------------- MODULE CheckpointService -------------------------
(***************************************************************************)
(* What a user of a simulation relies on, whatever loops and CPUs carry it *)
(* out: simulated time never runs backwards; a checkpoint is of the        *)
(* present moment; there are at most as many as asked for; none is written *)
(* to a directory that holds the ones the run was restored from; and       *)
(* nothing happens once the run has ended.                                 *)
(***************************************************************************)
EXTENDS Naturals, Sequences

CONSTANT
  Places       \* where checkpoints may be written

VARIABLES
  state,       \* "setup", "running" or "ended"
  now,         \* simulated time
  written,     \* the checkpoints: when and where
  quota,       \* <<n>>: at most n are wanted; <<>>: as many as there are
  reserved     \* places that must not be written to

request == <<quota, reserved>>
svars   == <<state, now, written, request>>

Init ==
  /\ state = "setup"
  /\ now \in Nat
  /\ written = <<>>
  /\ quota \in Seq(Nat)
  /\ reserved \subseteq Places

\* The system is created, perhaps restored to a later time.
Prepare ==
  /\ state = "setup"
  /\ now' \in Nat
  /\ state' \in {"setup", "running", "ended"}
  /\ UNCHANGED <<written, request>>

Proceed ==
  /\ state = "running"
  /\ now' \in Nat
  /\ now' >= now
  /\ state' \in {"running", "ended"}
  /\ UNCHANGED <<written, request>>

\* Draining for a checkpoint takes time.
Write(place) ==
  /\ state = "running"
  /\ place \notin reserved
  /\ \A k \in 1 .. Len(quota) : Len(written) < quota[k]
  /\ now' \in Nat
  /\ now' >= now
  /\ written' = Append(written, [tick |-> now', dir |-> place])
  /\ state' \in {"running", "ended"}
  /\ UNCHANGED request

Next == Prepare \/ Proceed \/ \E place \in Places : Write(place)

Spec == Init /\ [][Next]_svars
=============================================================================

---------------------------- MODULE MeshTraffic ----------------------------
(***************************************************************************)
(* Packets on the networks of MeshTopology.  The network itself (garnet)   *)
(* is not part of the repository; as the topologies rely on it, it routes  *)
(* along shortest paths, at each router over a link of least weight among  *)
(* them, and a packet keeps the buffer of the link it came by until the    *)
(* buffer of the next one is free.  All that matters of a packet is where  *)
(* it is and where it goes; there is no bound on their number.             *)
(***************************************************************************)
EXTENDS MeshTopology

CONSTANT Loaded    \* the meshes among Meshes that carry packets

ASSUME TrafficAssumption == Loaded \subseteq Meshes

VARIABLES
  table,       \* the routing table: the links (by identifier) to choose
               \* from, by router and destination; <<>> before the network
               \* is initialised
  ends,        \* the router each link (by identifier) leads to
  buffer,      \* per link, the destination of the packet in its buffer
  sending      \* the controllers still send packets

traffic == <<table, ends, buffer, sending>>
vars    == <<topology, traffic>>

Empty == -1

TrafficInit ==
  /\ Init
  /\ table = <<>>
  /\ ends = <<>>
  /\ buffer = <<>>
  /\ sending = TRUE

\* The routers within so many hops of d.
Within(d) ==
  LET W[n \in 0 .. num_routers] ==
        IF n = 0 THEN {d}
        ELSE W[n - 1] \cup {l.src : l \in {k \in int_links : k.dst \in W[n - 1]}}
  IN  W

Hops(r, d) == CHOOSE n \in 0 .. num_routers :
                r \in Within(d)[n] /\ (n > 0 => r \notin Within(d)[n - 1])

\* The links a packet at r for d may take.
Choices(r, d) ==
  LET shortest == {l \in int_links : l.src = r /\ r # d
                                       /\ Hops(l.dst, d) + 1 = Hops(r, d)}
  IN  {l.id : l \in {m \in shortest : \A k \in shortest : m.weight <= k.weight}}

LinkIds == {l.id : l \in int_links}

Route ==
  /\ pc = "built"
  /\ mesh \in Loaded
  /\ table = <<>>
  /\ table' = [r \in Routers |-> [d \in Routers |-> Choices(r, d)]]
  /\ ends' = [i \in LinkIds |-> (CHOOSE l \in int_links : l.id = i).dst]
  /\ buffer' = [i \in LinkIds |-> Empty]
  /\ UNCHANGED <<topology, sending>>

\* The links the packet in the buffer of link i may take next; none if it is
\* where it goes.
Wanted(i) == IF buffer[i] = Empty THEN {} ELSE table[ends[i]][buffer[i]]

\* A controller of router r sends to one of router d.
Send ==
  /\ table # <<>>
  /\ sending
  /\ \E r, d \in Routers : \E i \in table[r][d] :
       /\ buffer[i] = Empty
       /\ buffer' = [buffer EXCEPT ![i] = d]
  /\ UNCHANGED <<topology, table, ends, sending>>

Stop ==
  /\ table # <<>>
  /\ sending
  /\ sending' = FALSE
  /\ UNCHANGED <<topology, table, ends, buffer>>

Move(i) ==
  /\ \E j \in Wanted(i) :
       /\ buffer[j] = Empty
       /\ buffer' = [buffer EXCEPT ![i] = Empty, ![j] = buffer[i]]
  /\ UNCHANGED <<topology, table, ends, sending>>

Arrive(i) ==
  /\ buffer[i] = ends[i]
  /\ buffer' = [buffer EXCEPT ![i] = Empty]
  /\ UNCHANGED <<topology, table, ends, sending>>

Next ==
  \/ Build /\ UNCHANGED traffic
  \/ Route \/ Send \/ Stop
  \/ \E i \in DOMAIN buffer : Move(i) \/ Arrive(i)

\* The routers go on as long as a packet can.
Forward == \E i \in DOMAIN buffer : Move(i) \/ Arrive(i)

TrafficSpec == TrafficInit /\ [][Next]_vars /\ WF_vars(Forward)

-----------------------------------------------------------------------------
(* Properties.                                                             *)

Occupied == {i \in DOMAIN buffer : buffer[i] # Empty}

\* "to guarantee deadlock freedom" (Mesh_XY, Mesh_westfirst and
\* MeshDirCorners_XY): there are never packets that all wait for buffers held
\* by each other, whichever links the network chooses among those of equal
\* weight and however many packets there are.
NoCircularWait ==
  LET wanted == [i \in Occupied |-> Wanted(i)]
  IN  \A S \in (SUBSET Occupied) \ {{}} :
        \E i \in S : wanted[i] = {} \/ ~(wanted[i] \subseteq S)

\* Once the controllers are silent the network empties: every packet that
\* was sent has arrived.
EveryPacketArrives == ~sending ~> (Occupied = {})
=============================================================================

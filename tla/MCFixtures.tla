---------------------------- MODULE MCFixtures ----------------------------
EXTENDS Fixtures

MCTargets == {"gem5", "program", "archive"}
MCKind    == [t \in MCTargets |-> IF t = "gem5" THEN "scons" ELSE t]
MCGzipped == {"program"}

\* Suites of three threads that share targets in different orders.
MCSuites == {"hello", "threads", "boot"}
MCNeeds  == [s \in MCSuites |->
               CASE s = "hello"   -> <<"gem5", "program">>
                 [] s = "threads" -> <<"archive", "program">>
                 [] s = "boot"    -> <<"program", "archive", "gem5">>]
===========================================================================

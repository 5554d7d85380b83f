------------------------- MODULE MCPlatformServices -------------------------
(***************************************************************************)
(* Instances of PlatformServices for TLC.                                  *)
(***************************************************************************)
EXTENDS PlatformServices

DataIndexAndJobs == {"di", "js"}
DataIndexFirst == <<"di", "js">>
FewTriggers == [s \in Services |-> IF s = "di" THEN 2 ELSE 1]
JobsOnly == {"js"}

Sources(di, js) == [s \in Services |-> IF s = "di" THEN di ELSE js]
ServiceSpec(services, di, js, sink) == [services |-> services, source |-> Sources(di, js), sink |-> sink]

\* Brokers here and there, with and without a sink.
MixedSpecs ==
  {ServiceSpec({"di", "js"}, "other", "other", TRUE),
   ServiceSpec({"di", "js"}, "own", "other", TRUE),
   ServiceSpec({"di"}, "other", "none", FALSE),
   ServiceSpec({"js"}, "none", "own", FALSE)}

AllServiceFaults == ServiceFaults
=============================================================================

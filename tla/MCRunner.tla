------------------------------ MODULE MCRunner ------------------------------
(* Small topologies for module Runner.                                     *)
EXTENDS RunnerProvision

CONSTANTS d1, d2, d3

\* d1 is the management server, d2 a switch or host, d3 a host.
MCFunction == [d \in Device |-> CASE d = d1 -> OOBServer
                                  [] d = d2 -> 5
                                  [] OTHER -> NoFunction]
=============================================================================

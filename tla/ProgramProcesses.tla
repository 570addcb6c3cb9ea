------------------------- MODULE ProgramProcesses -------------------------
(* The processes of the program that run, one after another or at once,    *)
(* with the same configuration: the service, a terminal, ...               *)
EXTENDS FiniteSets

CONSTANT Processes

ASSUME ProcessesAssumption == IsFiniteSet(Processes)
=============================================================================

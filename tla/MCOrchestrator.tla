-------------------------- MODULE MCOrchestrator ---------------------------
(* Small instances of Orchestrator.                                          *)
EXTENDS Orchestrator

CONSTANTS a1, a2, a3
=============================================================================

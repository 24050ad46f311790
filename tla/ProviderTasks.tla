---------------------------- MODULE ProviderTasks ----------------------------
(***************************************************************************)
(* The calls on one provider object that run at the same time.             *)
(***************************************************************************)
EXTENDS Naturals, Sequences, FiniteSets

CONSTANTS Tasks,    \* concurrent calls of present and cleanup
          Nothing   \* no zone, no token, no task

ASSUME TasksAssumption == Nothing \notin Tasks
=============================================================================

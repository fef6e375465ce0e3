----------------------------- MODULE MCTaskControl -----------------------------
(* Where the behaviours of the runs of TaskControl start, and their bounds.    *)
EXTENDS TaskControl

From(mode, status, commands, faults) ==
  [mode |-> mode, status |-> status, commands |-> commands, faults |-> faults]

\* A full copy and an incremental task from their creation, with one fault; a
\* task that streams, with one fault or with three commands (pause, validate,
\* repair, ready for cutover, cutover); and a rollback with one fault.
MCStarts == {From("FULL", "CREATED", 1, 1), From("INCREMENTAL", "CREATED", 1, 1),
             From("FULL_AND_INCREMENTAL", "CDC_CATCHING_UP", 0, 1),
             From("FULL_AND_INCREMENTAL", "CDC_CATCHING_UP", 3, 0),
             From("FULL_AND_INCREMENTAL", "FINISHED", 4, 1)}

\* A full copy without and with one fault.
FullCopy == {From("FULL", "CREATED", 1, 0)}
FullCopyFault == {From("FULL", "CREATED", 1, 1)}
=============================================================================

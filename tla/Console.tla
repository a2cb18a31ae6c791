------------------------------ MODULE Console ------------------------------
(***************************************************************************)
(* The shell commands that do not use the camera: sensors, tree and        *)
(* membench.  The shell runs one command at a time, and these commands     *)
(* share no state, so a session repeats one of them.                       *)
(***************************************************************************)
EXTENDS Sensors, TreeScan, MemcpyDma

VARIABLE command  \* the command the user types

vars == <<command, sensorVars, treeVars, copyVars>>

Init ==
  /\ command \in {"sensors", "tree", "membench"}
  /\ SensorsInit /\ TreeInit /\ CopyInit

RunSensors ==
  /\ command = "sensors"
  /\ SensorsNext
  /\ UNCHANGED <<command, treeVars, copyVars>>

RunTree ==
  /\ command = "tree"
  /\ TreeNext
  /\ UNCHANGED <<command, sensorVars, copyVars>>

RunMembench ==
  /\ command = "membench"
  /\ CopyNext
  /\ UNCHANGED <<command, sensorVars, treeVars>>

Next == RunSensors \/ RunTree \/ RunMembench

Idle == round = "idle" /\ pc = "idle" /\ step = "idle"

\* A command that was started runs on: its waits have timeouts.
Spec == Init /\ [][Next]_vars /\ WF_vars(~Idle /\ Next)

(***************************************************************************)
(* Properties.                                                             *)
(***************************************************************************)

\* The prompt comes back: every command ends, whatever fails, unless a path has
\* overrun fbuff (main.c 338-365, collector.c 299-447, memcpy_dma.c 93-97).
PromptReturns == []<>(Idle \/ pc = "overrun")
=============================================================================

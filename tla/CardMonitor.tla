---------------------------- MODULE CardMonitor ----------------------------
(***************************************************************************)
(* The SD card monitor and the main thread of main.c: a timer callback     *)
(* debounces the card switch and broadcasts insertion and removal events;  *)
(* the main loop respawns the shell and dispatches one pending event per   *)
(* round, lowest event id first; the handlers connect and mount the card   *)
(* while the shell's commands use the file system.                         *)
(*                                                                         *)
(* Main and shell have the same priority and no time quantum, so they      *)
(* change over only where one of them blocks: each action of a thread is   *)
(* what it does between two such places.  The loop's top is a step of its  *)
(* own, because a thread whose wait has ended is ready before it runs.     *)
(* The timer interrupts anywhere.  The card, its driver and the kernel are *)
(* external; of FatFs, f_mount reads the volume (ff.c 3346).               *)
(***************************************************************************)
EXTENDS Integers, FiniteSetsExt

CONSTANTS
  POLLING_INTERVAL,  \* polls with the card in before it counts as inserted
  CardFails          \* connecting or mounting a card that is in may fail

ASSUME PollingAssumption == POLLING_INTERVAL \in Nat \ {0}
ASSUME SwitchesAssumption == CardFails \in BOOLEAN

VARIABLES
  inserted,    \* the card switch, as blkIsInserted reads it
  cnt,         \* debounce counter
  pending,     \* event ids pending at the main thread
  fs_ready,
  connected,   \* the SDC driver is in state BLK_READY
  pc,          \* where the main thread is
  shelltp,     \* the shell pointer is not NULL
  shell,       \* the shell thread itself
  badCard,     \* history: the last insertion failed to connect or mount
  overtaken,   \* history: the last insertion was broadcast with the removal
               \* before it still pending
  crashed      \* a kernel assertion stopped the system

monitorVars == <<cnt, pending, overtaken>>
shellVars   == <<shelltp, shell, crashed>>
vars == <<inserted, cnt, pending, fs_ready, connected, pc, shelltp, shell,
          badCard, overtaken, crashed>>

InsertedEvent == 0
RemovedEvent  == 1
ShellEvent    == 2
EventIds == {InsertedEvent, RemovedEvent, ShellEvent}

MainSteps   == {"loop", "wait", "insert", "mount", "shell_exit"}
ShellStates == {"none", "idle", "fs", "terminated"}

Running == ~crashed

(***************************************************************************)
(* The card and the monitor's timer.                                       *)
(***************************************************************************)

MoveCard ==
  /\ Running
  /\ inserted' = ~inserted
  /\ UNCHANGED <<monitorVars, fs_ready, connected, pc, shellVars, badCard>>

\* Insertions are event 0 and removals event 1: what is broadcast behind a
\* pending removal will be dispatched in front of it.
BroadcastInserted ==
  /\ pending' = pending \cup {InsertedEvent}
  /\ overtaken' \in BOOLEAN /\ (overtaken' <=> RemovedEvent \in pending)

\* Slip: counting down past zero.
PollInsertedUnguarded ==
  /\ inserted
  /\ cnt' = cnt - 1
  /\ IF cnt' = 0 THEN BroadcastInserted ELSE UNCHANGED <<pending, overtaken>>

\* Slip: cnt-- in place of --cnt.
PollInsertedOldCount ==
  /\ cnt > 0 /\ inserted
  /\ cnt' = cnt - 1
  /\ IF cnt = 0 THEN BroadcastInserted ELSE UNCHANGED <<pending, overtaken>>

\* A poll that finds the card in counts down and broadcasts at zero, whatever
\* is still pending.
PollInserted ==
  /\ cnt > 0 /\ inserted
  /\ cnt' = cnt - 1
  /\ IF cnt' = 0 THEN BroadcastInserted ELSE UNCHANGED <<pending, overtaken>>

\* A poll that finds it out starts the count again.
PollBounce ==
  /\ cnt > 0 /\ ~inserted
  /\ cnt' = POLLING_INTERVAL
  /\ UNCHANGED <<pending, overtaken>>

\* Slip: the removal is not broadcast.
PollRemovedSilent ==
  /\ cnt = 0 /\ ~inserted
  /\ cnt' = POLLING_INTERVAL
  /\ UNCHANGED <<pending, overtaken>>

\* A counted card has gone.
PollRemoved ==
  /\ cnt = 0 /\ ~inserted
  /\ cnt' = POLLING_INTERVAL
  /\ pending' = pending \cup {RemovedEvent}
  /\ UNCHANGED overtaken

tmrfunc ==
  /\ Running
  /\ PollInserted \/ PollBounce \/ PollRemoved
  /\ UNCHANGED <<inserted, fs_ready, connected, pc, shellVars, badCard>>

(***************************************************************************)
(* The main thread.                                                        *)
(***************************************************************************)

\* Slip: the pointer to a collected shell is not cleared.
RespawnKeepsPointer ==
  /\ Running /\ pc = "loop"
  /\ pc' = "wait"
  /\ \/ ~shelltp /\ shelltp' = TRUE /\ shell' = "idle"
     \/ shelltp /\ shell = "terminated" /\ shell' = "none" /\ UNCHANGED shelltp
     \/ shelltp /\ shell # "terminated" /\ UNCHANGED <<shelltp, shell>>
  /\ UNCHANGED <<inserted, monitorVars, fs_ready, connected, badCard, crashed>>

\* The top of the loop respawns the shell or collects a terminated one.  The
\* shell's working area is all that is ever taken from the heap and it is given
\* back before the next one is taken, so chThdCreateFromHeap succeeds.
RespawnShell ==
  /\ Running /\ pc = "loop"
  /\ pc' = "wait"
  /\ \/ ~shelltp /\ shelltp' = TRUE /\ shell' = "idle"
     \/ shelltp /\ shell = "terminated" /\ shelltp' = FALSE /\ shell' = "none"
     \/ shelltp /\ shell # "terminated" /\ UNCHANGED <<shelltp, shell>>
  /\ UNCHANGED <<inserted, monitorVars, fs_ready, connected, badCard, crashed>>

\* One event per round, the lowest id first.
Dispatch ==
  /\ Running /\ pc = "wait" /\ pending # {}
  /\ pending' = pending \ {Min(pending)}
  /\ UNCHANGED <<inserted, cnt, overtaken, shellVars>>
  /\ \/ /\ Min(pending) = InsertedEvent
        /\ pc' = "insert"
        /\ UNCHANGED <<fs_ready, connected, badCard>>
     \/ /\ Min(pending) = RemovedEvent  \* RemoveHandler
        /\ pc' = "loop"
        /\ connected' = FALSE
        /\ fs_ready' = FALSE
        /\ UNCHANGED badCard
     \/ /\ Min(pending) = ShellEvent
        /\ pc' = "shell_exit"
        /\ UNCHANGED <<fs_ready, connected, badCard>>

\* Nothing for 500 ms.
WaitTimeout ==
  /\ Running /\ pc = "wait" /\ pending = {}
  /\ pc' = "loop"
  /\ UNCHANGED <<inserted, monitorVars, fs_ready, connected, shellVars, badCard>>

\* sdcConnect succeeds only with a card in; a failed one disconnects.
SdcConnect ==
  /\ Running /\ pc = "insert"
  /\ \/ inserted /\ connected' = TRUE /\ pc' = "mount" /\ UNCHANGED badCard
     \/ /\ ~inserted \/ CardFails
        /\ connected' = FALSE /\ pc' = "loop" /\ badCard' = TRUE
  /\ UNCHANGED <<inserted, monitorVars, fs_ready, shellVars>>

\* Slip: the return behind sdcDisconnect is missing.
MountWithoutReturn ==
  /\ Running /\ pc = "mount"
  /\ pc' = "loop"
  /\ fs_ready' = TRUE
  /\ \/ inserted /\ badCard' = FALSE /\ UNCHANGED connected
     \/ /\ ~inserted \/ CardFails
        /\ connected' = FALSE /\ badCard' = TRUE
  /\ UNCHANGED <<inserted, monitorVars, shellVars>>

\* f_mount reads the volume; InsertHandler disconnects when that fails.
Mount ==
  /\ Running /\ pc = "mount"
  /\ pc' = "loop"
  /\ \/ inserted /\ fs_ready' = TRUE /\ badCard' = FALSE /\ UNCHANGED connected
     \/ /\ ~inserted \/ CardFails
        /\ connected' = FALSE /\ badCard' = TRUE /\ UNCHANGED fs_ready
  /\ UNCHANGED <<inserted, monitorVars, shellVars>>

InsertHandler == SdcConnect \/ Mount

\* chThdTerminatedX is read through shelltp.  A NULL pointer makes it read the
\* vector table: either the byte does not look like a terminated thread, or
\* chThdRelease asserts on it.
ShellHandler ==
  /\ Running /\ pc = "shell_exit"
  /\ pc' = "loop"
  /\ \/ /\ shelltp /\ shell = "terminated"
        /\ shelltp' = FALSE /\ shell' = "none" /\ UNCHANGED crashed
     \/ shelltp /\ shell # "terminated" /\ UNCHANGED shellVars
     \/ ~shelltp /\ crashed' \in BOOLEAN /\ UNCHANGED <<shelltp, shell>>
  /\ UNCHANGED <<inserted, monitorVars, fs_ready, connected, badCard>>

Main == RespawnShell \/ Dispatch \/ WaitTimeout \/ InsertHandler \/ ShellHandler

(***************************************************************************)
(* The shell thread.                                                       *)
(***************************************************************************)

\* tree, image and image_rgb check fs_ready once and then use the volume.
StartFsCommand ==
  /\ Running /\ shell = "idle" /\ fs_ready
  /\ shell' = "fs"
  /\ UNCHANGED <<inserted, monitorVars, fs_ready, connected, pc, badCard,
                 shelltp, crashed>>

EndFsCommand ==
  /\ Running /\ shell = "fs"
  /\ shell' = "idle"
  /\ UNCHANGED <<inserted, monitorVars, fs_ready, connected, pc, badCard,
                 shelltp, crashed>>

\* The kernel broadcasts shell_terminated and ends the thread in one step.
ExitShell ==
  /\ Running /\ shell = "idle"
  /\ shell' = "terminated"
  /\ pending' = pending \cup {ShellEvent}
  /\ UNCHANGED <<inserted, cnt, overtaken, fs_ready, connected, pc, badCard,
                 shelltp, crashed>>

Shell == StartFsCommand \/ EndFsCommand \/ ExitShell

Init ==
  /\ inserted \in BOOLEAN
  /\ cnt = POLLING_INTERVAL /\ pending = {}  \* tmr_init
  /\ fs_ready = FALSE /\ connected = FALSE
  /\ pc = "loop"
  /\ shelltp = FALSE /\ shell = "none"
  /\ badCard = FALSE /\ overtaken = FALSE /\ crashed = FALSE

Next == MoveCard \/ tmrfunc \/ Main \/ Shell

\* The timer rearms itself and the main thread is scheduled whenever it can
\* run.  Cards and users do what they like.
Fairness == WF_vars(tmrfunc) /\ WF_vars(Main)

Spec == Init /\ [][Next]_vars /\ Fairness

(***************************************************************************)
(* Properties.                                                             *)
(***************************************************************************)

TypeOK ==
  /\ inserted \in BOOLEAN
  /\ cnt \in 0 .. POLLING_INTERVAL /\ pending \subseteq EventIds
  /\ fs_ready \in BOOLEAN /\ connected \in BOOLEAN
  /\ pc \in MainSteps
  /\ shelltp \in BOOLEAN /\ shell \in ShellStates
  /\ badCard \in BOOLEAN /\ overtaken \in BOOLEAN /\ crashed \in BOOLEAN

\* "FS mounted and ready" (main.c 115): with fs_ready set the card's driver is
\* connected.  A swapped card whose insertion is handled before the removal and
\* then fails disconnects the driver under fs_ready; that lasts no longer than
\* the removal is pending (main.c 384-399, 407-415, 974).
FsReadyMeansConnected == fs_ready => connected \/ RemovedEvent \in pending

\* When the main thread has no event left to handle, whatever bounced, failed
\* or was dispatched out of order before, the volume is ready exactly when a
\* card counts as in, was mounted, and its insertion did not overtake the
\* removal of the card before it: the removal handled late unmounts the new
\* card (main.c 381-415, 461-480, 974).
SettledAgrees ==
  (pc \in {"loop", "wait"} /\ pending \subseteq {ShellEvent}) =>
     /\ fs_ready <=> cnt = 0 /\ ~badCard /\ ~overtaken
     /\ fs_ready => connected

\* A card that stays out stops being ready, whatever happened before.  One that
\* stays in becomes ready, unless its mounting has failed or its insertion
\* overtook a removal: then it stays unmounted, but the next card whose
\* insertion does not is followed again (main.c 461-480, 974).
CardIsFollowed ==
  /\ <>[]inserted => <>[](fs_ready \/ badCard \/ overtaken \/ crashed)
  /\ <>[]~inserted => <>[](~fs_ready \/ crashed)

\* A shell that has exited is replaced, although both the loop and the event
\* handler look for it, or the handler's use of the NULL pointer that the loop
\* left has stopped the system (main.c 424, 942-973).
ShellRespawns == shell = "terminated" ~> shell = "idle" \/ crashed

\* "volume control functions, f_mount() ... are always not re-entrant"
\* (ffconf.h 253-254): main does not mount the volume while a shell command is
\* inside FatFs.
MountIsExclusive == ~(pc = "mount" /\ shell = "fs")
=============================================================================

------------------------- MODULE CardMonitorProofs -------------------------
(***************************************************************************)
(* Proofs about the card monitor, for every debounce interval and however  *)
(* late the main thread is: the state of the file system follows the       *)
(* debounced switch, except for a card whose insertion was broadcast while *)
(* the removal before it was still pending.                                *)
(***************************************************************************)
EXTENDS CardMonitor, TLAPS

(***************************************************************************)
(* The inductive invariant.                                                *)
(***************************************************************************)

\* An insertion has been broadcast and its handling is not over.
Inserting == InsertedEvent \in pending \/ pc \in {"insert", "mount"}

\* A second insertion, or one on a volume that is still ready, has the removal
\* between the two pending behind it.
RemovalBetween ==
  /\ fs_ready /\ Inserting => RemovedEvent \in pending
  /\ pc \in {"insert", "mount"} /\ InsertedEvent \in pending =>
       RemovedEvent \in pending
  /\ pc = "mount" => connected

\* Without a card, and with one that overtook a removal, the volume is not in
\* use, or a removal is pending.
OutMeansUnused ==
  cnt > 0 \/ overtaken => RemovedEvent \in pending \/ (~fs_ready /\ ~Inserting)

\* A card that did not overtake a removal has none against it.
NoneAgainst == cnt = 0 /\ ~overtaken => RemovedEvent \notin pending

\* Its insertion is being handled, or it is ready unless it failed.
InIsHandled == cnt = 0 /\ ~overtaken => Inserting \/ (fs_ready <=> ~badCard)

CardInv ==
  /\ RemovalBetween /\ OutMeansUnused /\ NoneAgainst /\ InIsHandled
  /\ FsReadyMeansConnected

(***************************************************************************)
(* Types.                                                                  *)
(***************************************************************************)

\* chEvtDispatch takes the lowest pending event.
LEMMA LowestEvent ==
  ASSUME pending \subseteq EventIds, pending # {}
  PROVE  Min(pending) \in pending /\ \A e \in pending : Min(pending) <= e
<1>1. \E m \in pending : \A e \in pending : m <= e
  <2>1. CASE InsertedEvent \in pending
    BY <2>1 DEF EventIds, InsertedEvent, RemovedEvent, ShellEvent
  <2>2. CASE InsertedEvent \notin pending /\ RemovedEvent \in pending
    BY <2>2 DEF EventIds, InsertedEvent, RemovedEvent, ShellEvent
  <2>3. CASE InsertedEvent \notin pending /\ RemovedEvent \notin pending
    <3>1. pending = {ShellEvent}
      BY <2>3 DEF EventIds
    <3> QED
      BY <3>1 DEF ShellEvent
  <2> QED
    BY <2>1, <2>2, <2>3
<1> QED
  BY <1>1 DEF Min

\* The variables of main.c keep their types: the debounce counter stays
\* between 0 and POLLING_INTERVAL (main.c 461-480).
THEOREM TypeCorrect == Spec => []TypeOK
<1>1. Init => TypeOK
  <2>1. POLLING_INTERVAL \in 0 .. POLLING_INTERVAL
    BY PollingAssumption
  <2> QED
    BY <2>1, Zenon DEF Init, TypeOK, MainSteps, ShellStates
<1>2. TypeOK /\ [Next]_vars => TypeOK'
  <2> SUFFICES ASSUME TypeOK, [Next]_vars PROVE TypeOK'
    OBVIOUS
  <2> USE DEF TypeOK, MainSteps, ShellStates
  <2>1. CASE MoveCard
    BY <2>1, Zenon DEF MoveCard, monitorVars, shellVars
  <2>2. CASE tmrfunc
    <3>1. CASE PollInserted
      <4>1. cnt' \in 0 .. POLLING_INTERVAL
        BY <3>1, PollingAssumption DEF PollInserted
      <4>2. pending' \subseteq EventIds
        BY <3>1, Zenon DEF PollInserted, BroadcastInserted, EventIds
      <4>3. overtaken' \in BOOLEAN
        BY <3>1, Zenon DEF PollInserted, BroadcastInserted
      <4> QED
        BY <2>2, <4>1, <4>2, <4>3, Zenon DEF tmrfunc, shellVars
    <3>2. CASE PollBounce \/ PollRemoved
      <4>1. cnt' \in 0 .. POLLING_INTERVAL
        BY <3>2, PollingAssumption DEF PollBounce, PollRemoved
      <4>2. pending' \subseteq EventIds
        BY <3>2, Zenon DEF PollBounce, PollRemoved, EventIds
      <4>3. overtaken' \in BOOLEAN
        BY <3>2, Zenon DEF PollBounce, PollRemoved
      <4> QED
        BY <2>2, <4>1, <4>2, <4>3, Zenon DEF tmrfunc, shellVars
    <3> QED
      BY <2>2, <3>1, <3>2, Zenon DEF tmrfunc
  <2>3. CASE RespawnShell
    BY <2>3, Zenon DEF RespawnShell, monitorVars
  <2>4. CASE Dispatch
    BY <2>4, Zenon DEF Dispatch, shellVars
  <2>5. CASE WaitTimeout
    BY <2>5, Zenon DEF WaitTimeout, monitorVars, shellVars
  <2>6. CASE SdcConnect
    BY <2>6, Zenon DEF SdcConnect, monitorVars, shellVars
  <2>7. CASE Mount
    BY <2>7, Zenon DEF Mount, monitorVars, shellVars
  <2>8. CASE ShellHandler
    BY <2>8, Zenon DEF ShellHandler, monitorVars, shellVars
  <2>9. CASE StartFsCommand \/ EndFsCommand
    BY <2>9, Zenon DEF StartFsCommand, EndFsCommand, monitorVars
  <2>10. CASE ExitShell
    BY <2>10, Zenon DEF ExitShell, EventIds
  <2>11. CASE UNCHANGED vars
    BY <2>11, Zenon DEF vars
  <2> QED
    BY <2>1, <2>2, <2>3, <2>4, <2>5, <2>6, <2>7, <2>8, <2>9, <2>10, <2>11, Zenon
    DEF Next, Main, InsertHandler, Shell
<1> QED
  BY <1>1, <1>2, PTL DEF Spec

(***************************************************************************)
(* Safety.                                                                 *)
(***************************************************************************)

\* A poll counts, bounces or notices a removal; an insertion broadcast behind a
\* pending removal is marked as overtaking it.
LEMMA PollStep ==
  ASSUME TypeOK, CardInv, tmrfunc
  PROVE  CardInv'
<1> USE DEF CardInv, RemovalBetween, OutMeansUnused, NoneAgainst, InIsHandled,
            Inserting, FsReadyMeansConnected, InsertedEvent, RemovedEvent
<1>1. UNCHANGED <<fs_ready, connected, pc, badCard>>
  BY DEF tmrfunc
<1>2. CASE PollInserted
  <2>1. CASE cnt = 1
    <3>1. /\ cnt' = 0 /\ pending' = pending \cup {InsertedEvent}
          /\ overtaken' <=> RemovedEvent \in pending
      <4>1. cnt' = 0
        BY <1>2, <2>1 DEF PollInserted
      <4>2. BroadcastInserted
        BY <1>2, <4>1, Zenon DEF PollInserted
      <4> QED
        BY <4>1, <4>2, Zenon DEF BroadcastInserted
    <3>2. RemovedEvent \in pending \/ (~fs_ready /\ ~Inserting)
      BY <2>1
    <3>3. /\ InsertedEvent \in pending'
          /\ RemovedEvent \in pending' <=> RemovedEvent \in pending
      BY <3>1
    <3>4. RemovalBetween'
      BY <1>1, <3>2, <3>3
    <3>5. OutMeansUnused' /\ NoneAgainst' /\ InIsHandled'
      BY <1>1, <3>1, <3>3
    <3> QED
      BY <1>1, <3>3, <3>4, <3>5
  <2>2. CASE cnt # 1
    <3>1. cnt > 0 /\ cnt' > 0 /\ pending' = pending /\ overtaken' = overtaken
      BY <1>2, <2>2 DEF PollInserted, TypeOK
    <3> QED
      BY <1>1, <3>1
  <2> QED
    BY <2>1, <2>2
<1>3. CASE PollBounce
  <2>1. cnt > 0 /\ cnt' > 0 /\ pending' = pending /\ overtaken' = overtaken
    BY <1>3, PollingAssumption DEF PollBounce
  <2> QED
    BY <1>1, <2>1
<1>4. CASE PollRemoved
  <2>1. cnt' > 0 /\ pending' = pending \cup {RemovedEvent}
    BY <1>4, PollingAssumption DEF PollRemoved
  <2> QED
    BY <1>1, <2>1
<1> QED
  BY <1>2, <1>3, <1>4 DEF tmrfunc

\* A round of the main loop.
LEMMA DispatchStep ==
  ASSUME TypeOK, CardInv, Dispatch
  PROVE  CardInv'
<1> USE DEF CardInv, RemovalBetween, OutMeansUnused, NoneAgainst, InIsHandled,
            Inserting, FsReadyMeansConnected
<1>1. /\ pending # {} /\ pending' = pending \ {Min(pending)}
      /\ pc = "wait" /\ cnt' = cnt /\ overtaken' = overtaken
  BY DEF Dispatch
<1>2. Min(pending) \in pending /\ \A e \in pending : Min(pending) <= e
  BY <1>1, LowestEvent DEF TypeOK
<1>3. CASE Min(pending) = InsertedEvent
  <2>1. pc' = "insert" /\ UNCHANGED <<fs_ready, connected, badCard>>
    BY <1>3 DEF Dispatch, InsertedEvent, RemovedEvent, ShellEvent
  <2> QED
    BY <1>1, <1>2, <1>3, <2>1 DEF InsertedEvent, RemovedEvent
<1>4. CASE Min(pending) = RemovedEvent
  <2>1. pc' = "loop" /\ ~connected' /\ ~fs_ready' /\ badCard' = badCard
    BY <1>4 DEF Dispatch, InsertedEvent, RemovedEvent, ShellEvent
  <2>2. InsertedEvent \notin pending
    BY <1>2, <1>4 DEF InsertedEvent, RemovedEvent
  <2>3. cnt # 0 \/ overtaken
    BY <1>2, <1>4
  <2> QED
    BY <1>1, <2>1, <2>2, <2>3
<1>5. CASE Min(pending) = ShellEvent
  <2>1. pc' = "shell_exit" /\ UNCHANGED <<fs_ready, connected, badCard>>
    BY <1>5 DEF Dispatch, InsertedEvent, RemovedEvent, ShellEvent
  <2>2. /\ InsertedEvent \in pending' <=> InsertedEvent \in pending
        /\ RemovedEvent \in pending' <=> RemovedEvent \in pending
    BY <1>1, <1>5 DEF InsertedEvent, RemovedEvent, ShellEvent
  <2> QED
    BY <1>1, <2>1, <2>2
<1> QED
  BY <1>3, <1>4, <1>5 DEF Dispatch

\* Every step keeps the invariant.
LEMMA CardStep ==
  ASSUME TypeOK, CardInv, [Next]_vars
  PROVE  CardInv'
<1> USE DEF CardInv, RemovalBetween, OutMeansUnused, NoneAgainst, InIsHandled,
            Inserting, FsReadyMeansConnected
<1>1. CASE MoveCard
  BY <1>1 DEF MoveCard, monitorVars
<1>2. CASE tmrfunc
  BY <1>2, PollStep
<1>3. CASE RespawnShell
  BY <1>3 DEF RespawnShell, monitorVars
<1>4. CASE Dispatch
  BY <1>4, DispatchStep
<1>5. CASE WaitTimeout
  BY <1>5 DEF WaitTimeout, monitorVars
<1>6. CASE SdcConnect
  <2>1. pc = "insert" /\ UNCHANGED <<cnt, pending, overtaken, fs_ready>>
    BY <1>6 DEF SdcConnect, monitorVars
  <2>2. \/ connected' /\ pc' = "mount" /\ badCard' = badCard
        \/ ~connected' /\ pc' = "loop" /\ badCard'
    BY <1>6 DEF SdcConnect
  <2> QED
    BY <2>1, <2>2
<1>7. CASE Mount
  <2>1. pc = "mount" /\ pc' = "loop" /\ UNCHANGED <<cnt, pending, overtaken>>
    BY <1>7 DEF Mount, monitorVars
  <2>2. connected /\ (fs_ready => RemovedEvent \in pending)
    BY <2>1
  <2>3. CASE fs_ready' /\ ~badCard' /\ connected' = connected
    BY <2>1, <2>2, <2>3
  <2>4. CASE ~connected' /\ fs_ready' = fs_ready /\ badCard'
    BY <2>1, <2>2, <2>4
  <2> QED
    BY <1>7, <2>3, <2>4 DEF Mount
<1>8. CASE ShellHandler
  BY <1>8 DEF ShellHandler, monitorVars
<1>9. CASE StartFsCommand \/ EndFsCommand
  BY <1>9 DEF StartFsCommand, EndFsCommand, monitorVars
<1>10. CASE ExitShell
  BY <1>10 DEF ExitShell, InsertedEvent, RemovedEvent, ShellEvent
<1>11. CASE UNCHANGED vars
  BY <1>11 DEF vars
<1> QED
  BY <1>1, <1>2, <1>3, <1>4, <1>5, <1>6, <1>7, <1>8, <1>9, <1>10, <1>11
  DEF Next, Main, InsertHandler, Shell

\* The invariant holds throughout, whatever card and shell do and however late
\* the main thread is.
THEOREM CardInvariant == Spec => []CardInv
<1>1. Init => CardInv
  BY PollingAssumption
  DEF Init, CardInv, RemovalBetween, OutMeansUnused, NoneAgainst, InIsHandled,
      Inserting, FsReadyMeansConnected
<1>2. TypeOK /\ CardInv /\ [Next]_vars => CardInv'
  BY CardStep
<1> QED
  BY <1>1, <1>2, TypeCorrect, PTL DEF Spec

\* With fs_ready set the driver is connected or the removal that clears it is
\* pending, also when events are dispatched out of order (main.c 384-415, 974).
THEOREM ReadyIsConnected == Spec => []FsReadyMeansConnected
<1>1. CardInv => FsReadyMeansConnected
  BY DEF CardInv
<1> QED
  BY <1>1, CardInvariant, PTL

\* When no card event is left to handle, the volume is ready exactly when a card
\* counts as in, was mounted and did not overtake a removal (main.c 381-415,
\* 461-480, 974).
THEOREM SettledStateAgrees == Spec => []SettledAgrees
<1>1. TypeOK /\ CardInv => SettledAgrees
  <2> SUFFICES ASSUME TypeOK, CardInv, pc \in {"loop", "wait"},
                      pending \subseteq {ShellEvent}
               PROVE  /\ fs_ready <=> cnt = 0 /\ ~badCard /\ ~overtaken
                      /\ fs_ready => connected
    BY DEF SettledAgrees
  <2>1. InsertedEvent \notin pending /\ RemovedEvent \notin pending /\ ~Inserting
    BY DEF Inserting, InsertedEvent, RemovedEvent, ShellEvent
  <2>2. cnt > 0 \/ cnt = 0
    BY PollingAssumption DEF TypeOK
  <2> QED
    BY <2>1, <2>2 DEF CardInv, OutMeansUnused, InIsHandled, FsReadyMeansConnected
<1> QED
  BY <1>1, CardInvariant, TypeCorrect, PTL
=============================================================================

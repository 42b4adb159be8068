-------------------------- MODULE DemandDmaProofs --------------------------
(***************************************************************************)
(* What is proved of DemandDma for every ring size, every number of        *)
(* threads, with and without a second CPU.                                 *)
(***************************************************************************)
EXTENDS DemandDma, FiniteSetTheorems, SequenceTheorems, TLAPS

(* The processes that are inside start_dma. *)
Restarting(p) == pc[p] \in RestartSteps
NoRestart == \A p \in Procs : ~Restarting(p)
IrqAway == pc[Irq] \in {"idle", "inform"}
EarlyStart == {"start_hook", "start_enable", "start_engine"}

(* Before the first ddma_start nothing moves. *)
Pristine ==
  /\ status # "running" /\ ~hookOn
  /\ ~irqEn /\ ~irqReq /\ ~engine.on /\ ~isBlocked
  /\ pc[Irq] = "idle"
  /\ \A t \in Threads : pc[t] \in {"idle"} \union GetSteps

(* During it the bridge and the handler are still quiet. *)
StartIsQuiet ==
  /\ \A t \in Threads : pc[t] \in StartSteps =>
       /\ status # "running"
       /\ \A u \in Threads : pc[u] # "mark" /\ ~Restarting(u)
  /\ \A t \in Threads : pc[t] \in EarlyStart =>
       /\ ~engine.on /\ ~isBlocked
       /\ pc[t] # "start_hook" => ~irqReq
       /\ writing = 0 /\ block[0] = "Xdma"
       /\ pc[Irq] = "idle"
       /\ pc[t] # "start_engine" => ~irqEn

(* dma->mux is held from the first to the last step of start, stop, wait. *)
MuxHeld ==
  \A t \in Threads :
    pc[t] \in StartSteps \union StopSteps \union WaitSteps => mux = t

(* From then on exactly one party at a time may move the DMA on: the       *)
(* bridge, a latched and enabled interrupt, the handler at one of its      *)
(* steps, one caller of start_dma, or the next mark of a blocked ring.     *)
BridgeMoves ==
  engine.on => /\ engine.at = writing /\ block[writing] = "Xdma"
               /\ ~irqReq /\ ~isBlocked /\ IrqAway /\ NoRestart
InterruptMoves ==
  (irqReq /\ irqEn) => /\ ~engine.on /\ block[writing] = "Xdma"
                       /\ ~isBlocked /\ IrqAway /\ NoRestart
HookMoves ==
  pc[Irq] \in {"test", "fill"} =>
    /\ ~engine.on /\ ~irqEn /\ block[writing] = "Xdma"
    /\ ~isBlocked /\ NoRestart
HookGivesUp ==
  pc[Irq] = "block" =>
    /\ ~engine.on /\ ~irqEn /\ block[writing] # "Xdma"
    /\ ~isBlocked /\ NoRestart
MarkMoves ==
  isBlocked => ~irqEn /\ block[writing] # "Xdma" /\ IrqAway /\ NoRestart
CallerMoves ==
  \A p \in Procs : Restarting(p) =>
    /\ arg[p] = writing
    /\ \A q \in Procs : Restarting(q) => q = p
    /\ p # Irq => IrqAway
    /\ block[writing] = (IF pc[p] = "arm" THEN "Xfree" ELSE "Xdma")
    /\ IF pc[p] = "go" THEN ~irqReq ELSE ~irqEn

Token == /\ BridgeMoves /\ InterruptMoves /\ HookMoves /\ HookGivesUp
         /\ MarkMoves /\ CallerMoves

OneTarget == \A b \in Blocks : block[b] = "Xdma" => b = writing
FullAreUnread == \A b \in Blocks : block[b] = "Xfull" <=> Unread(b)

(* One thread on one CPU that never calls ddma_wait.  Then nothing happens *)
(* between the steps of a stop, and each run starts where the last one     *)
(* really ended.  Otherwise the hook, or a mark that saw the old status,   *)
(* may start the bridge behind the back of the stop; and ddma_wait gives   *)
(* up the running status with the hook installed and the bridge restarted. *)
OneThread == \A t, u \in Threads : t = u
Alone == OneThread /\ ~SMP /\ "wait" \notin Calls

(* A stop quiets one party after the other; a DMA that does not run, and   *)
(* is not being started, is quiet altogether.                              *)
Quiet == ~irqEn /\ pc[Irq] = "idle"
Halts ==
  /\ \A t \in Threads : pc[t] \notin WaitSteps
  /\ \A t \in Threads : pc[t] \in StopSteps =>
       Quiet /\ status = "running" /\ (pc[t] = "stop_ready" => ~engine.on)
  /\ (status # "running" /\ \A t \in Threads : pc[t] \notin StartSteps) =>
       /\ Quiet /\ ~engine.on
       /\ \A t \in Threads : pc[t] \in {"idle"} \union GetSteps
Stops == Alone => Halts

(* The runs the invariant speaks of: the first one, whatever happens, and  *)
(* every one of a process that is alone.                                   *)
Live == starts = 1 \/ (starts > 0 /\ Alone)

Runs ==
  /\ starts = 0 => Pristine
  /\ Live => StartIsQuiet /\ Token /\ OneTarget /\ FullAreUnread

IInv == TypeOK /\ MuxHeld /\ Stops /\ Runs

-----------------------------------------------------------------------------
LEMMA SuccType == \A b \in Blocks \union {-1} : Succ(b) \in Blocks
  BY NumBlocksAssumption DEF Succ, Blocks

(* The steps of a thread, and of the handler. *)
ThreadStep(t) ==
  \/ DdmaMap(t) \/ DdmaStart(t) \/ StartHook(t) \/ StartEnable(t)
  \/ StartEngine(t) \/ StartRunning(t)
  \/ DdmaStop(t) \/ StopHook(t) \/ StopAbort(t) \/ StopReady(t)
  \/ DdmaWait(t) \/ WaitWake(t) \/ WaitReady(t)
  \/ (\E b \in Blocks : DdmaMark(t, b)) \/ MarkFree(t)
  \/ IrqGet(t) \/ IrqAck(t) \/ AckClear(t) \/ AckRearm(t)

(* Next, with the three steps of start_dma for all their callers at once. *)
LEMMA NextCases ==
  ASSUME Next
  PROVE  \/ EngineDone \/ Intr \/ IntrDispatch \/ HookFill \/ HookBlock
         \/ HookInform \/ WorkerTake \/ WorkerPend
         \/ \E p \in Procs : Arm(p) \/ EnableDmaIrq(p) \/ Go(p)
         \/ \E t \in Threads : ThreadStep(t)
  BY DEF Next, Handler, Worker, Thread, Start, Stop, Wait, Mark, Read, Restart,
         ThreadStep, Procs

(* Typing is inductive: one step per action.                               *)
LEMMA TypeInductive == ASSUME TypeOK PROVE [Next]_vars => TypeOK'
<1> USE NumBlocksAssumption, ProcsAssumption, EnvAssumption
    DEF TypeOK, Procs, BlockStatus, Steps, HookSteps, RestartSteps, StartSteps,
        StopSteps, GetSteps, WaitSteps, At, Goto, GotoWith,
        ring, chip, note, locks
<1>0. 0 \in Blocks
  BY DEF Blocks
<1>1. UNCHANGED vars => TypeOK'
  BY DEF vars
<1>2. ASSUME EngineDone PROVE TypeOK'
  <2>1. engine' \in [on : BOOLEAN, at : Blocks]
    BY <1>2 DEF EngineDone
  <2>2. QED
    BY <1>2, <2>1 DEF EngineDone
<1>3. Intr => TypeOK'
  BY DEF Intr
<1>4. ASSUME IntrDispatch PROVE TypeOK'
  <2>1. CASE hookOn
    BY <1>4, <2>1 DEF IntrDispatch
  <2>2. CASE ~hookOn
    BY <1>4, <2>2 DEF IntrDispatch
  <2>3. QED
    BY <2>1, <2>2
<1>5. HookFill => TypeOK'
  BY SuccType DEF HookFill
<1>6. HookBlock => TypeOK'
  BY DEF HookBlock
<1>7. HookInform => TypeOK'
  BY DEF HookInform
<1>8. WorkerTake => TypeOK'
  BY DEF WorkerTake
<1>9. WorkerPend => TypeOK'
  BY DEF WorkerPend
<1>10. ASSUME NEW p \in Procs
     PROVE  Arm(p) \/ EnableDmaIrq(p) \/ Go(p) => TypeOK'
  <2>1. Arm(p) => TypeOK'
    BY DEF Arm
  <2>2. EnableDmaIrq(p) => TypeOK'
    BY DEF EnableDmaIrq
  <2>3. Go(p) => TypeOK'
    BY DEF Go, After
  <2>4. QED
    BY <2>1, <2>2, <2>3
<1>11. ASSUME NEW t \in Threads
     PROVE  ThreadStep(t) => TypeOK'
  <2>1. DdmaMap(t) => TypeOK'
    BY DEF DdmaMap
  <2>2. StartHook(t) => TypeOK'
    BY DEF StartHook
  <2>3. StartEnable(t) => TypeOK'
    BY DEF StartEnable
  <2>4. StartEngine(t) => TypeOK'
    BY <1>0 DEF StartEngine
  <2>5. StartRunning(t) => TypeOK'
    BY DEF StartRunning
  <2>6. DdmaStop(t) => TypeOK'
    BY DEF DdmaStop
  <2>7. StopHook(t) => TypeOK'
    BY DEF StopHook
  <2>8. StopReady(t) => TypeOK'
    BY DEF StopReady
  <2>9. DdmaWait(t) => TypeOK'
    BY DEF DdmaWait
  <2>10. WaitWake(t) => TypeOK'
    BY DEF WaitWake
  <2>11. WaitReady(t) => TypeOK'
    BY DEF WaitReady
  <2>12. IrqGet(t) => TypeOK'
    BY SuccType DEF IrqGet, Deliver
  <2>13. IrqAck(t) => TypeOK'
    BY DEF IrqAck
  <2>14. AckClear(t) => TypeOK'
    BY DEF AckClear
  <2>15. AckRearm(t) => TypeOK'
    BY DEF AckRearm
  <2>16. ASSUME DdmaStart(t) PROVE TypeOK'
    <3>1. block' \in [Blocks -> BlockStatus]
      BY <1>0, <2>16 DEF DdmaStart
    <3>2. starts' \in 0 .. MaxStarts
      BY <1>0, <2>16 DEF DdmaStart
    <3>3. writing' \in Blocks /\ reading' \in Blocks \union {-1}
      BY <1>0, <2>16 DEF DdmaStart
    <3>4. /\ pc' \in [Procs -> Steps] /\ mux' \in Threads \union {Nobody}
          /\ pc'[Irq] = pc[Irq] /\ \A u \in Threads : pc'[u] \notin HookSteps
      BY <1>0, <2>16 DEF DdmaStart
    <3>5. QED
      BY <2>16, <3>1, <3>2, <3>3, <3>4, ZenonT(40) DEF DdmaStart
  <2>17. ASSUME StopAbort(t) PROVE TypeOK'
    <3>1. irqReq' \in BOOLEAN /\ engine' \in [on : BOOLEAN, at : Blocks]
      BY <1>0, <2>17 DEF StopAbort
    <3>2. mux' \in Threads \union {Nobody}
      BY <1>0, <2>17 DEF StopAbort
    <3>3. /\ pc' \in [Procs -> Steps] /\ pc'[Irq] = pc[Irq]
          /\ \A u \in Threads : pc'[u] \notin HookSteps
      BY <1>0, <2>17 DEF StopAbort
    <3>4. QED
      BY <2>17, <3>1, <3>2, <3>3 DEF StopAbort
  <2>18. ASSUME MarkFree(t) PROVE TypeOK'
    <3>1. isBlocked' \in BOOLEAN /\ block' \in [Blocks -> BlockStatus]
      BY <1>0, <2>18 DEF MarkFree
    <3>2. /\ pc' \in [Procs -> Steps] /\ pc'[Irq] = pc[Irq]
          /\ \A u \in Threads : pc'[u] \notin HookSteps
      BY <1>0, <2>18 DEF MarkFree
    <3>3. QED
      BY <2>18, <3>1, <3>2 DEF MarkFree
  <2>19. (\E b \in Blocks : DdmaMark(t, b)) => TypeOK'
    BY DEF DdmaMark
  <2>20. QED
    BY <2>1, <2>2, <2>3, <2>4, <2>5, <2>6, <2>7, <2>8, <2>9, <2>10, <2>11,
       <2>12, <2>13, <2>14, <2>15, <2>16, <2>17, <2>18, <2>19
       DEF ThreadStep
<1>12. QED
  BY <1>1, <1>2, <1>3, <1>4, <1>5, <1>6, <1>7, <1>8, <1>9, <1>10, <1>11,
     NextCases

(* The control state and the ring keep their types: locks, program         *)
(* counters and block indices never leave their ranges.                    *)
THEOREM TypeCorrect == Spec => []TypeOK
<1>1. Init => TypeOK
  <2> SUFFICES ASSUME Init PROVE TypeOK
    OBVIOUS
  <2> USE NumBlocksAssumption, ProcsAssumption, EnvAssumption DEF Init
  <2>1. /\ block \in [Blocks -> BlockStatus]
        /\ writing \in Blocks /\ reading \in Blocks \union {-1}
    BY DEF BlockStatus, Blocks
  <2>2. engine \in [on : BOOLEAN, at : Blocks] /\ arg \in [Procs -> Blocks]
    BY DEF Blocks
  <2>3. /\ pc \in [Procs -> Steps] /\ pc[Irq] = "idle"
        /\ \A t \in Threads : pc[t] \notin HookSteps
    BY DEF Steps, Procs, HookSteps
  <2>4. starts \in 0 .. MaxStarts
    OBVIOUS
  <2>5. QED
    BY <2>1, <2>2, <2>3, <2>4 DEF TypeOK
<1>2. QED
  BY <1>1, TypeInductive, PTL DEF Spec

(* dma->mux is taken and released around start, stop and wait.            *)
LEMMA MuxInductive == ASSUME TypeOK, MuxHeld PROVE [Next]_vars => MuxHeld'
<1> USE ProcsAssumption
    DEF MuxHeld, At, Goto, GotoWith, Procs, Steps, HookSteps, RestartSteps,
        StartSteps, StopSteps, WaitSteps, GetSteps, ring, chip, note, locks
<1>0. pc \in [Procs -> Steps]
  BY DEF TypeOK
<1>1. UNCHANGED vars => MuxHeld'
  BY DEF vars
<1>2. EngineDone => MuxHeld'
  BY <1>0 DEF EngineDone
<1>3. Intr => MuxHeld'
  BY <1>0 DEF Intr
<1>4. IntrDispatch => MuxHeld'
  BY <1>0 DEF IntrDispatch
<1>5. HookFill => MuxHeld'
  BY <1>0 DEF HookFill
<1>6. HookBlock => MuxHeld'
  BY <1>0 DEF HookBlock
<1>7. HookInform => MuxHeld'
  BY <1>0 DEF HookInform
<1>8. WorkerTake => MuxHeld'
  BY <1>0 DEF WorkerTake
<1>9. WorkerPend => MuxHeld'
  BY <1>0 DEF WorkerPend
<1>10. ASSUME NEW p \in Procs
      PROVE  Arm(p) \/ EnableDmaIrq(p) \/ Go(p) => MuxHeld'
  BY <1>0 DEF Arm, EnableDmaIrq, Go, After
<1>11. ASSUME NEW t \in Threads
      PROVE  ThreadStep(t) => MuxHeld'
  <2>1. DdmaMap(t) => MuxHeld'
    BY <1>0 DEF DdmaMap
  <2>2. StartHook(t) => MuxHeld'
    BY <1>0 DEF StartHook
  <2>3. StartEnable(t) => MuxHeld'
    BY <1>0 DEF StartEnable
  <2>4. StartEngine(t) => MuxHeld'
    BY <1>0 DEF StartEngine
  <2>5. StartRunning(t) => MuxHeld'
    BY <1>0 DEF StartRunning
  <2>6. DdmaStop(t) => MuxHeld'
    BY <1>0 DEF DdmaStop
  <2>7. StopHook(t) => MuxHeld'
    BY <1>0 DEF StopHook
  <2>8. StopReady(t) => MuxHeld'
    BY <1>0 DEF StopReady
  <2>9. DdmaWait(t) => MuxHeld'
    BY <1>0 DEF DdmaWait
  <2>10. WaitWake(t) => MuxHeld'
    BY <1>0 DEF WaitWake
  <2>11. WaitReady(t) => MuxHeld'
    BY <1>0 DEF WaitReady
  <2>12. IrqAck(t) => MuxHeld'
    BY <1>0 DEF IrqAck
  <2>13. AckClear(t) => MuxHeld'
    BY <1>0 DEF AckClear
  <2>14. AckRearm(t) => MuxHeld'
    BY <1>0 DEF AckRearm
  <2>15. DdmaStart(t) => MuxHeld'
    BY <1>0 DEF DdmaStart
  <2>16. StopAbort(t) => MuxHeld'
    BY <1>0 DEF StopAbort
  <2>17. MarkFree(t) => MuxHeld'
    BY <1>0 DEF MarkFree
  <2>18. IrqGet(t) => MuxHeld'
    BY <1>0 DEF IrqGet, Deliver
  <2>19. (\E b \in Blocks : DdmaMark(t, b)) => MuxHeld'
    BY <1>0 DEF DdmaMark
  <2>20. QED
    BY <2>1, <2>2, <2>3, <2>4, <2>5, <2>6, <2>7, <2>8, <2>9, <2>10, <2>11,
       <2>12, <2>13, <2>14, <2>15, <2>16, <2>17, <2>18, <2>19
       DEF ThreadStep
<1>12. QED
  BY <1>1, <1>2, <1>3, <1>4, <1>5, <1>6, <1>7, <1>8, <1>9, <1>10, <1>11,
     NextCases

(* Alone, a stop leaves nothing behind.                                    *)
LEMMA StopsInductive ==
  ASSUME TypeOK, Alone, Halts PROVE [Next]_vars => Halts'
<1> USE ProcsAssumption
    DEF Halts, Quiet, Alone, OneThread, CanRun, At, Goto, GotoWith, Procs,
        Steps, HookSteps, RestartSteps,
        StartSteps, StopSteps, WaitSteps, GetSteps, ring, chip, note, locks
<1>0. /\ pc \in [Procs -> Steps]
      /\ engine \in [on : BOOLEAN, at : Blocks]
      /\ \A u \in Threads : pc[u] \notin HookSteps
  BY DEF TypeOK
<1>1. UNCHANGED vars => Halts'
  BY DEF vars
<1>2. EngineDone => Halts'
  BY <1>0 DEF EngineDone
<1>3. Intr => Halts'
  BY <1>0 DEF Intr
<1>4. IntrDispatch => Halts'
  BY <1>0 DEF IntrDispatch
<1>5. HookFill => Halts'
  BY <1>0 DEF HookFill
<1>6. HookBlock => Halts'
  BY <1>0 DEF HookBlock
<1>7. HookInform => Halts'
  BY <1>0 DEF HookInform
<1>8. WorkerTake => Halts'
  BY <1>0 DEF WorkerTake
<1>9. WorkerPend => Halts'
  BY <1>0 DEF WorkerPend
<1>10. ASSUME NEW p \in Procs
      PROVE  Arm(p) \/ EnableDmaIrq(p) \/ Go(p) => Halts'
  BY <1>0 DEF Arm, EnableDmaIrq, Go, After
<1>11. ASSUME NEW t \in Threads
      PROVE  ThreadStep(t) => Halts'
  <2>1. DdmaMap(t) => Halts'
    BY <1>0 DEF DdmaMap
  <2>2. StartHook(t) => Halts'
    BY <1>0 DEF StartHook
  <2>3. StartEnable(t) => Halts'
    BY <1>0 DEF StartEnable
  <2>4. StartEngine(t) => Halts'
    BY <1>0 DEF StartEngine
  <2>5. StartRunning(t) => Halts'
    BY <1>0 DEF StartRunning
  <2>6. DdmaStop(t) => Halts'
    BY <1>0 DEF DdmaStop
  <2>7. StopHook(t) => Halts'
    BY <1>0 DEF StopHook
  <2>8. StopReady(t) => Halts'
    BY <1>0 DEF StopReady
  <2>9. DdmaWait(t) => Halts'
    BY <1>0 DEF DdmaWait
  <2>10. WaitWake(t) => Halts'
    BY <1>0 DEF WaitWake
  <2>11. WaitReady(t) => Halts'
    BY <1>0 DEF WaitReady
  <2>12. IrqAck(t) => Halts'
    BY <1>0 DEF IrqAck
  <2>13. AckClear(t) => Halts'
    BY <1>0 DEF AckClear
  <2>14. AckRearm(t) => Halts'
    BY <1>0 DEF AckRearm
  <2>15. DdmaStart(t) => Halts'
    BY <1>0 DEF DdmaStart
  <2>16. StopAbort(t) => Halts'
    BY <1>0 DEF StopAbort
  <2>17. MarkFree(t) => Halts'
    BY <1>0 DEF MarkFree
  <2>18. IrqGet(t) => Halts'
    BY <1>0 DEF IrqGet, Deliver
  <2>19. (\E b \in Blocks : DdmaMark(t, b)) => Halts'
    BY <1>0 DEF DdmaMark
  <2>20. QED
    BY <2>1, <2>2, <2>3, <2>4, <2>5, <2>6, <2>7, <2>8, <2>9, <2>10, <2>11,
       <2>12, <2>13, <2>14, <2>15, <2>16, <2>17, <2>18, <2>19
       DEF ThreadStep
<1>12. QED
  BY <1>1, <1>2, <1>3, <1>4, <1>5, <1>6, <1>7, <1>8, <1>9, <1>10, <1>11,
     NextCases

(* Filling moves writing_block forward: the block just filled joins the    *)
(* unread ones at their end.                                               *)
LEMMA FillInOrder ==
  ASSUME block \in [Blocks -> BlockStatus],
         writing \in Blocks, reading \in Blocks \union {-1},
         FullAreUnread, block[writing] = "Xdma",
         block' = [block EXCEPT ![writing] = "Xfull"],
         writing' = Succ(writing), reading' = reading
  PROVE  FullAreUnread'
<1> DEFINE first == Succ(reading)
<1>1. writing' \in Blocks /\ first \in Blocks
  BY SuccType
<1>2. \A b \in Blocks : block'[b] = "Xfull" <=> b = writing \/ Unread(b)
  BY DEF FullAreUnread
<1>3. \A b \in Blocks : Unread(b)' <=> b = writing \/ Unread(b)
  <2>1. block[first] = "Xfull" \/ first = writing
    BY <1>1 DEF FullAreUnread, Unread, Blocks
  <2>2. QED
    BY <1>1, <2>1, NumBlocksAssumption DEF FullAreUnread, Unread, Succ, Blocks
<1>4. QED
  BY <1>2, <1>3 DEF FullAreUnread

(* Delivering moves reading_block forward: the block delivered was the     *)
(* first of the unread ones.                                               *)
LEMMA DeliverInOrder ==
  ASSUME block \in [Blocks -> BlockStatus],
         writing \in Blocks, reading \in Blocks \union {-1},
         FullAreUnread, block[Succ(reading)] = "Xfull",
         block' = [block EXCEPT ![Succ(reading)] = "Xuser"],
         writing' = writing, reading' = Succ(reading)
  PROVE  FullAreUnread'
<1> DEFINE first == Succ(reading)
<1>1. first \in Blocks /\ Succ(first) \in Blocks
  BY SuccType
<1>2. \A b \in Blocks : block'[b] = "Xfull" <=> b # first /\ Unread(b)
  BY <1>1 DEF FullAreUnread
<1>3. \A b \in Blocks : Unread(b)' <=> b # first /\ Unread(b)
  BY <1>1, NumBlocksAssumption DEF FullAreUnread, Unread, Succ, Blocks
<1>4. QED
  BY <1>2, <1>3 DEF FullAreUnread

(* The live runs: the ring and the right to move it on, one step per       *)
(* action, and under it one step per conjunct where the action disturbs    *)
(* several of them.                                                        *)
LEMMA RunsInductive ==
  ASSUME TypeOK, MuxHeld, Stops, Runs PROVE [Next]_vars => Runs'
<1> USE NumBlocksAssumption, ProcsAssumption
    DEF Runs, Live, Pristine, StartIsQuiet, MuxHeld, Token, BridgeMoves,
        InterruptMoves, HookMoves, HookGivesUp, MarkMoves, CallerMoves,
        OneTarget, FullAreUnread, Restarting, NoRestart, IrqAway, EarlyStart,
        At, Goto, GotoWith, ring, chip, note, locks, Procs, RestartSteps,
        HookSteps, StartSteps, StopSteps, WaitSteps, GetSteps
<1>0. /\ block \in [Blocks -> BlockStatus] /\ writing \in Blocks
      /\ reading \in Blocks \union {-1}
      /\ pc \in [Procs -> Steps] /\ arg \in [Procs -> Blocks]
      /\ pc[Irq] \in {"idle"} \union HookSteps \union RestartSteps
      /\ \A u \in Threads : pc[u] \notin HookSteps
      /\ engine \in [on : BOOLEAN, at : Blocks]
      /\ irqReq \in BOOLEAN /\ irqEn \in BOOLEAN /\ isBlocked \in BOOLEAN
      /\ starts \in 0 .. MaxStarts
  BY DEF TypeOK
<1>1. UNCHANGED vars => Runs'
  BY DEF vars, Unread
<1>2. EngineDone => Runs'
  BY <1>0 DEF EngineDone, Unread
<1>3. Intr => Runs'
  BY <1>0 DEF Intr, Unread
<1>4. IntrDispatch => Runs'
  BY <1>0 DEF IntrDispatch, Unread
<1>5. HookBlock => Runs'
  BY <1>0 DEF HookBlock, Unread
<1>6. HookInform => Runs'
  BY <1>0 DEF HookInform, Unread
<1>7. WorkerTake => Runs'
  BY <1>0 DEF WorkerTake, Unread
<1>8. WorkerPend => Runs'
  BY <1>0 DEF WorkerPend, Unread
<1>9. ASSUME HookFill PROVE Runs'
  <2>1. starts = 0 => Pristine'
    BY <1>0, <1>9 DEF HookFill
  <2>2. Live => StartIsQuiet'
    BY <1>0, <1>9, SuccType DEF HookFill
  <2>3. Live => BridgeMoves'
    BY <1>0, <1>9, SuccType DEF HookFill
  <2>4. Live => InterruptMoves'
    BY <1>0, <1>9, SuccType DEF HookFill
  <2>5. Live => HookMoves'
    BY <1>0, <1>9, SuccType DEF HookFill
  <2>6. Live => HookGivesUp'
    BY <1>0, <1>9, SuccType DEF HookFill
  <2>7. Live => MarkMoves'
    BY <1>0, <1>9, SuccType DEF HookFill
  <2>8. Live => CallerMoves'
    BY <1>0, <1>9, SuccType DEF HookFill
  <2>9. Live => OneTarget'
    BY <1>0, <1>9, SuccType DEF HookFill
  <2>10. Live => FullAreUnread'
    <3>1. SUFFICES ASSUME Live PROVE FullAreUnread'
      OBVIOUS
    <3>2. block[writing] = "Xdma"
      BY <3>1, <1>9 DEF HookFill
    <3>3. /\ block' = [block EXCEPT ![writing] = "Xfull"]
          /\ writing' = Succ(writing) /\ reading' = reading
      BY <1>9 DEF HookFill
    <3>4. FullAreUnread
      BY <3>1
    <3>5. QED
      BY <1>0, <3>2, <3>3, <3>4, FillInOrder
  <2>11. QED
    BY <1>9, <2>1, <2>2, <2>3, <2>4, <2>5, <2>6, <2>7, <2>8, <2>9, <2>10
       DEF HookFill
<1>10. ASSUME NEW p \in Procs
     PROVE  Arm(p) \/ EnableDmaIrq(p) \/ Go(p) => Runs'
  <2>1. Arm(p) => Runs'
    BY <1>0 DEF Arm, Unread
  <2>2. EnableDmaIrq(p) => Runs'
    BY <1>0 DEF EnableDmaIrq, Unread
  <2>3. Go(p) => Runs'
    BY <1>0 DEF Go, After, Unread
  <2>4. QED
    BY <2>1, <2>2, <2>3
<1>11. ASSUME NEW t \in Threads
      PROVE  ThreadStep(t) => Runs'
  <2>1. DdmaMap(t) => Runs'
    BY <1>0 DEF DdmaMap, Unread
  <2>2. StartHook(t) => Runs'
    BY <1>0 DEF StartHook, Unread
  <2>3. StartEnable(t) => Runs'
    BY <1>0 DEF StartEnable, Unread
  <2>4. StartEngine(t) => Runs'
    BY <1>0 DEF StartEngine, Unread
  <2>5. StartRunning(t) => Runs'
    BY <1>0 DEF StartRunning, Unread
  <2>6. DdmaStop(t) => Runs'
    BY <1>0 DEF DdmaStop, Unread
  <2>7. StopHook(t) => Runs'
    BY <1>0 DEF StopHook, Unread
  <2>8. StopReady(t) => Runs'
    BY <1>0 DEF StopReady, Unread
  <2>9. DdmaWait(t) => Runs'
    BY <1>0 DEF DdmaWait, Unread
  <2>10. WaitWake(t) => Runs'
    BY <1>0 DEF WaitWake, Unread
  <2>11. WaitReady(t) => Runs'
    BY <1>0 DEF WaitReady, Unread
  <2>12. IrqAck(t) => Runs'
    BY <1>0 DEF IrqAck, Unread
  <2>13. AckClear(t) => Runs'
    BY <1>0 DEF AckClear, Unread
  <2>14. AckRearm(t) => Runs'
    BY <1>0 DEF AckRearm, Unread
  <2>15. (\E b \in Blocks : DdmaMark(t, b)) => Runs'
    BY <1>0 DEF DdmaMark, Unread
  <2>16. ASSUME StopAbort(t) PROVE Runs'
    <3>1. starts = 0 => Pristine'
      BY <1>0, <2>16 DEF StopAbort
    <3>2. Live => StartIsQuiet'
      BY <1>0, <2>16 DEF StopAbort
    <3>3. Live => BridgeMoves'
      BY <1>0, <2>16 DEF StopAbort
    <3>4. Live => InterruptMoves'
      BY <1>0, <2>16 DEF StopAbort
    <3>5. Live => HookMoves'
      BY <1>0, <2>16 DEF StopAbort
    <3>6. Live => HookGivesUp'
      BY <1>0, <2>16 DEF StopAbort
    <3>7. Live => MarkMoves'
      BY <1>0, <2>16 DEF StopAbort
    <3>8. Live => CallerMoves'
      BY <1>0, <2>16 DEF StopAbort
    <3>9. Live => OneTarget'
      BY <1>0, <2>16 DEF StopAbort
    <3>10. Live => FullAreUnread'
      BY <1>0, <2>16 DEF StopAbort, Unread
    <3>11. QED
      BY <2>16, <3>1, <3>2, <3>3, <3>4, <3>5, <3>6, <3>7, <3>8, <3>9,
         <3>10
         DEF StopAbort
  <2>17. ASSUME MarkFree(t) PROVE Runs'
    <3>1. starts = 0 => Pristine'
      BY <1>0, <2>17 DEF MarkFree
    <3>2. Live => StartIsQuiet'
      BY <1>0, <2>17 DEF MarkFree
    <3>3. Live => BridgeMoves'
      BY <1>0, <2>17 DEF MarkFree
    <3>4. Live => InterruptMoves'
      BY <1>0, <2>17 DEF MarkFree
    <3>5. Live => HookMoves'
      BY <1>0, <2>17 DEF MarkFree
    <3>6. Live => HookGivesUp'
      BY <1>0, <2>17 DEF MarkFree
    <3>7. Live => MarkMoves'
      <4>1. CASE block[arg[t]] # "Xuser"
        <5>1. block' = block /\ isBlocked' = isBlocked
          BY <2>17, <4>1 DEF MarkFree
        <5>2. pc' = [pc EXCEPT ![t] = "idle"]
          BY <2>17, <4>1 DEF MarkFree
        <5>3. writing' = writing /\ irqEn' = irqEn
          BY <2>17 DEF MarkFree
        <5>4. QED
          BY <1>0, <2>17, <5>1, <5>2, <5>3
      <4>2. CASE block[arg[t]] = "Xuser" /\ arg[t] = writing
        BY <1>0, <2>17, <4>2 DEF MarkFree
      <4>3. CASE block[arg[t]] = "Xuser" /\ arg[t] # writing
        <5>1. isBlocked' = isBlocked /\ block'[writing] = block[writing]
          BY <1>0, <2>17, <4>3 DEF MarkFree
        <5>2. pc' = [pc EXCEPT ![t] = "idle"]
          BY <2>17, <4>3 DEF MarkFree
        <5>3. writing' = writing /\ irqEn' = irqEn
          BY <2>17 DEF MarkFree
        <5>4. QED
          BY <1>0, <2>17, <5>1, <5>2, <5>3
      <4>4. QED
        BY <4>1, <4>2, <4>3
    <3>8. Live => CallerMoves'
      BY <1>0, <2>17 DEF MarkFree
    <3>9. Live => OneTarget'
      BY <1>0, <2>17 DEF MarkFree
    <3>10. Live => FullAreUnread'
      BY <1>0, <2>17 DEF MarkFree, Unread
    <3>11. QED
      BY <2>17, <3>1, <3>2, <3>3, <3>4, <3>5, <3>6, <3>7, <3>8, <3>9,
         <3>10
         DEF MarkFree
  <2>18. ASSUME IrqGet(t) PROVE Runs'
    <3>1. starts = 0 => Pristine'
      BY <1>0, <2>18 DEF IrqGet, Deliver
    <3>2. Live => StartIsQuiet'
      BY <1>0, <2>18, SuccType DEF IrqGet, Deliver
    <3>3. Live => BridgeMoves'
      BY <1>0, <2>18, SuccType DEF IrqGet, Deliver
    <3>4. Live => InterruptMoves'
      BY <1>0, <2>18, SuccType DEF IrqGet, Deliver
    <3>5. Live => HookMoves'
      BY <1>0, <2>18, SuccType DEF IrqGet, Deliver
    <3>6. Live => HookGivesUp'
      BY <1>0, <2>18, SuccType DEF IrqGet, Deliver
    <3>7. Live => MarkMoves'
      BY <1>0, <2>18, SuccType DEF IrqGet, Deliver
    <3>8. Live => CallerMoves'
      BY <1>0, <2>18, SuccType DEF IrqGet, Deliver
    <3>9. Live => OneTarget'
      BY <1>0, <2>18, SuccType DEF IrqGet, Deliver
    <3>10. Live => FullAreUnread'
      <4>1. SUFFICES ASSUME Live PROVE FullAreUnread'
        OBVIOUS
      <4>2. FullAreUnread
        BY <4>1
      <4>3. CASE status = "running" /\ block[Succ(reading)] = "Xfull"
        <5>1. /\ block' = [block EXCEPT ![Succ(reading)] = "Xuser"]
              /\ writing' = writing /\ reading' = Succ(reading)
          BY <2>18, <4>3 DEF IrqGet, Deliver
        <5>2. QED
          BY <1>0, <4>2, <4>3, <5>1, DeliverInOrder
      <4>4. CASE ~(status = "running" /\ block[Succ(reading)] = "Xfull")
        BY <2>18, <4>2, <4>4 DEF IrqGet, Deliver, Unread
      <4>5. QED
        BY <4>3, <4>4
    <3>11. QED
      BY <2>18, <3>1, <3>2, <3>3, <3>4, <3>5, <3>6, <3>7, <3>8, <3>9,
         <3>10
         DEF IrqGet
  <2>19. ASSUME DdmaStart(t) PROVE Runs'
    <3>1. /\ starts' # 0 /\ (starts' = 1 => starts = 0)
          /\ Live' => /\ ~engine.on /\ Quiet
                      /\ \A u \in Threads : pc[u] \in {"idle"} \union GetSteps
      BY <1>0, <2>19 DEF DdmaStart, Stops, Halts, Quiet, Alone, OneThread
    <3>2. ASSUME Live' PROVE StartIsQuiet'
      <4>1. /\ engine' = engine /\ irqEn' = irqEn /\ status' = "ready"
            /\ pc' = [pc EXCEPT ![t] = "start_hook"] /\ ~isBlocked'
            /\ writing' = 0 /\ block'[0] = "Xdma"
        BY <1>0, <2>19 DEF DdmaStart, Blocks
      <4>2. /\ pc'[Irq] = "idle" /\ pc'[t] = "start_hook"
            /\ \A u \in Threads :
                 pc'[u] \in {"idle", "start_hook"} \union GetSteps
        BY <1>0, <3>1, <3>2, <4>1 DEF Quiet
      <4>3. QED
        BY <3>1, <3>2, <4>1, <4>2 DEF Quiet
    <3>3. Live' => BridgeMoves'
      BY <1>0, <2>19, <3>1 DEF DdmaStart, Blocks, Quiet
    <3>4. Live' => InterruptMoves'
      BY <1>0, <2>19, <3>1 DEF DdmaStart, Blocks, Quiet
    <3>5. Live' => HookMoves'
      BY <1>0, <2>19, <3>1 DEF DdmaStart, Blocks, Quiet
    <3>6. Live' => HookGivesUp'
      BY <1>0, <2>19, <3>1 DEF DdmaStart, Blocks, Quiet
    <3>7. Live' => MarkMoves'
      BY <1>0, <2>19, <3>1 DEF DdmaStart, Blocks, Quiet
    <3>8. Live' => CallerMoves'
      BY <1>0, <2>19, <3>1 DEF DdmaStart, Blocks, Quiet
    <3>9. Live' => OneTarget'
      BY <1>0, <2>19, <3>1 DEF DdmaStart, Blocks, Quiet
    <3>10. Live' => FullAreUnread'
      BY <1>0, <2>19, <3>1 DEF DdmaStart, Unread, Succ, Blocks, Quiet
    <3>11. QED
      BY <2>19, <3>1, <3>2, <3>3, <3>4, <3>5, <3>6, <3>7, <3>8, <3>9,
         <3>10
         DEF DdmaStart, Blocks
  <2>20. QED
    BY <2>1, <2>2, <2>3, <2>4, <2>5, <2>6, <2>7, <2>8, <2>9, <2>10, <2>11,
       <2>12, <2>13, <2>14, <2>15, <2>16, <2>17, <2>18, <2>19
       DEF ThreadStep
<1>12. QED
  BY <1>1, <1>2, <1>3, <1>4, <1>5, <1>6, <1>7, <1>8, <1>9, <1>10, <1>11,
     NextCases

(* The invariant holds in every state. *)
LEMMA Invariant == Spec => []IInv
<1>1. Init => MuxHeld /\ Stops /\ Runs
  BY ProcsAssumption
     DEF Init, MuxHeld, Stops, Halts, Quiet, Runs, Live, Pristine, Procs,
         StartSteps, StopSteps, WaitSteps
<1>2. IInv /\ [Next]_vars => MuxHeld' /\ Stops' /\ Runs'
  BY MuxInductive, StopsInductive, RunsInductive DEF IInv, Stops
<1>3. QED
  BY <1>1, <1>2, TypeCorrect, PTL DEF Spec, IInv

(* Until the DMA is started a second time, whatever ring, threads and CPUs *)
(* there are, and for a process that is alone in every run: the bridge     *)
(* writes only into the block that is reserved for it.  (Otherwise, after  *)
(* a stop that raced with the hook, a second run may begin with the bridge *)
(* still moving.)                                                          *)
THEOREM BridgeInTarget == Spec => [](starts <= 1 \/ Alone => EngineInTarget)
<1>1. IInv => (starts <= 1 \/ Alone => EngineInTarget)
  BY DEF IInv, TypeOK, Runs, Live, Pristine, Token, BridgeMoves, OneTarget,
         EngineInTarget
<1>2. QED
  BY <1>1, Invariant, PTL

(* ... and the full blocks are exactly the unread ones, in order.          *)
THEOREM BlocksInOrder == Spec => [](starts <= 1 \/ Alone => RingInOrder)
<1>1. IInv => (starts <= 1 \/ Alone => RingInOrder)
  BY DEF IInv, TypeOK, Runs, Live, Pristine, FullAreUnread, RingInOrder
<1>2. QED
  BY <1>1, Invariant, PTL

(* A DMA that is stopped is idle: when ddma_stop has said so, ddma_map may *)
(* unmap the ring, and the next start finds a bridge at rest.              *)
THEOREM StoppedIsIdle == ASSUME Alone PROVE Spec => []StoppedMeansIdle
<1>1. IInv => StoppedMeansIdle
  BY DEF IInv, Stops, Halts, StoppedMeansIdle
<1>2. QED
  BY <1>1, Invariant, PTL

(* While a start, a stop or a wait is under way no second thread is in     *)
(* one: dma->mux excludes it from its first to its last step.              *)
THEOREM OneCaller ==
  Spec => [](\A t, u \in Threads :
               /\ pc[t] \in StartSteps \union StopSteps \union WaitSteps
               /\ pc[u] \in StartSteps \union StopSteps \union WaitSteps
               => t = u)
<1>1. IInv => \A t, u \in Threads :
                /\ pc[t] \in StartSteps \union StopSteps \union WaitSteps
                /\ pc[u] \in StartSteps \union StopSteps \union WaitSteps
                => t = u
  BY DEF IInv, MuxHeld
<1>2. QED
  BY <1>1, Invariant, PTL

-----------------------------------------------------------------------------
(* No interrupt is lost and no block forgotten.  Each of the three has an  *)
(* invariant of its own, inductive beside IInv, for the same runs.         *)

(* The DMA runs, or ddma_start is about to say so.                         *)
Running == status = "running" \/ \E t \in Threads : pc[t] = "start_running"

(* Unless a stop has begun, somebody moves the DMA on, or it is blocked;   *)
(* and the interrupt that ends what the bridge does is enabled.            *)
NeverSilent ==
  /\ \A t \in Threads : pc[t] \in {"stop_abort", "stop_ready"} => ~hookOn
  /\ \A t \in Threads : pc[t] = "start_engine" => irqEn
  /\ Running /\ hookOn /\ (\A t \in Threads : pc[t] # "stop_hook") =>
       /\ engine.on \/ (\E p \in Procs : pc[p] = "go") => irqEn
       /\ \/ engine.on \/ isBlocked \/ (irqReq /\ irqEn)
          \/ pc[Irq] \in {"test", "fill", "block"} \union RestartSteps
          \/ \E t \in Threads : pc[t] \in RestartSteps
MovesOn == Live => NeverSilent

(* On one CPU nobody frees the block between the two halves of the hook.   *)
WaitsForFull ==
  (Live /\ ~SMP) =>
    (pc[Irq] = "block" \/ isBlocked => block[writing] \in {"Xfull", "Xuser"})

(* With one thread nobody acknowledges before the status is set.           *)
OnItsWay ==
  \/ pending \/ command \/ worker
  \/ pc[Irq] \in {"block", "arm", "enable", "go", "inform"}
  \/ \E t \in Threads : pc[t] = "ack_rearm"
Tells ==
  Live =>
    /\ \A t \in Threads : pc[t] \in EarlyStart => reading = -1
    /\ Running /\ block[Succ(reading)] = "Xfull" => OnItsWay

(* The three outcomes of a mark.                                           *)
MarkRefused(t) ==
  /\ pc' = [pc EXCEPT ![t] = "idle"]
  /\ UNCHANGED <<block, isBlocked>>
MarkRestarts(t) ==
  /\ isBlocked /\ arg[t] = writing /\ ~isBlocked'
  /\ pc' = [pc EXCEPT ![t] = "arm"]
  /\ block[writing] = "Xuser" /\ block' = [block EXCEPT ![writing] = "Xfree"]
MarkFrees(t) ==
  /\ ~(isBlocked /\ arg[t] = writing) /\ UNCHANGED isBlocked
  /\ pc' = [pc EXCEPT ![t] = "idle"]
  /\ block[arg[t]] = "Xuser" /\ block' = [block EXCEPT ![arg[t]] = "Xfree"]

LEMMA MarkCases ==
  ASSUME NEW t \in Threads, isBlocked \in BOOLEAN, MarkFree(t)
  PROVE  MarkRefused(t) \/ MarkRestarts(t) \/ MarkFrees(t)
<1>1. CASE block[arg[t]] # "Xuser"
  BY <1>1 DEF MarkFree, MarkRefused, Goto
<1>2. CASE block[arg[t]] = "Xuser" /\ isBlocked /\ arg[t] = writing
  BY <1>2 DEF MarkFree, MarkRestarts, Goto
<1>3. CASE block[arg[t]] = "Xuser" /\ ~(isBlocked /\ arg[t] = writing)
  BY <1>3 DEF MarkFree, MarkFrees, Goto
<1>4. QED
  BY <1>1, <1>2, <1>3

LEMMA MovesOnInductive ==
  ASSUME IInv, MovesOn PROVE [Next]_vars => MovesOn'
<1> USE NumBlocksAssumption, ProcsAssumption
    DEF MovesOn, Live, NeverSilent, Running, Pristine, StartIsQuiet,
        MuxHeld, Token, BridgeMoves, InterruptMoves, HookMoves, HookGivesUp,
        MarkMoves,
        CallerMoves, IrqAway, At, Goto, GotoWith, Procs, Steps, ring, chip,
        note, locks,
        RestartSteps, HookSteps, StartSteps, StopSteps, WaitSteps, GetSteps,
        Restarting, NoRestart, EarlyStart
<1>0. /\ block \in [Blocks -> BlockStatus] /\ writing \in Blocks
      /\ reading \in Blocks \union {-1}
      /\ pc \in [Procs -> Steps] /\ arg \in [Procs -> Blocks]
      /\ pc[Irq] \in {"idle"} \union HookSteps \union RestartSteps
      /\ \A u \in Threads : pc[u] \notin HookSteps
      /\ starts \in Nat /\ isBlocked \in BOOLEAN
      /\ starts = 0 => Pristine
      /\ Live => StartIsQuiet /\ Token /\ OneTarget
      /\ MuxHeld
  BY DEF IInv, Runs, TypeOK
<1>1. UNCHANGED vars => MovesOn'
  BY <1>0 DEF vars
<1>2. EngineDone => MovesOn'
  BY <1>0 DEF EngineDone
<1>3. Intr => MovesOn'
  BY <1>0 DEF Intr
<1>4. IntrDispatch => MovesOn'
  BY <1>0 DEF IntrDispatch
<1>5. HookFill => MovesOn'
  BY <1>0, SuccType DEF HookFill
<1>6. HookBlock => MovesOn'
  BY <1>0 DEF HookBlock
<1>7. HookInform => MovesOn'
  BY <1>0 DEF HookInform
<1>8. WorkerTake => MovesOn'
  BY <1>0 DEF WorkerTake
<1>9. WorkerPend => MovesOn'
  BY <1>0 DEF WorkerPend
<1>10. ASSUME NEW p \in Procs
     PROVE  Arm(p) \/ EnableDmaIrq(p) \/ Go(p) => MovesOn'
  <2>1. Arm(p) => MovesOn'
    BY <1>0 DEF Arm
  <2>2. EnableDmaIrq(p) => MovesOn'
    BY <1>0 DEF EnableDmaIrq
  <2>3. Go(p) => MovesOn'
    BY <1>0 DEF Go, After
  <2>4. QED
    BY <2>1, <2>2, <2>3
<1>11. ASSUME NEW t \in Threads
      PROVE  ThreadStep(t) => MovesOn'
  <2>1. DdmaMap(t) => MovesOn'
    BY <1>0 DEF DdmaMap
  <2>2. DdmaStart(t) => MovesOn'
    BY <1>0 DEF DdmaStart, Blocks, Succ
  <2>3. StartHook(t) => MovesOn'
    BY <1>0 DEF StartHook
  <2>4. StartEnable(t) => MovesOn'
    BY <1>0 DEF StartEnable
  <2>5. StartEngine(t) => MovesOn'
    BY <1>0 DEF StartEngine
  <2>6. StartRunning(t) => MovesOn'
    BY <1>0 DEF StartRunning
  <2>7. DdmaStop(t) => MovesOn'
    BY <1>0 DEF DdmaStop
  <2>8. StopHook(t) => MovesOn'
    BY <1>0 DEF StopHook
  <2>9. StopAbort(t) => MovesOn'
    BY <1>0 DEF StopAbort
  <2>10. StopReady(t) => MovesOn'
    BY <1>0 DEF StopReady
  <2>11. DdmaWait(t) => MovesOn'
    BY <1>0 DEF DdmaWait
  <2>12. WaitWake(t) => MovesOn'
    BY <1>0 DEF WaitWake
  <2>13. WaitReady(t) => MovesOn'
    BY <1>0 DEF WaitReady
  <2>14. ASSUME MarkFree(t) PROVE MovesOn'
    <3>1. CASE MarkRefused(t)
      BY <1>0, <2>14, <3>1 DEF MarkFree, MarkRefused
    <3>2. CASE MarkRestarts(t)
      BY <1>0, <2>14, <3>2 DEF MarkFree, MarkRestarts
    <3>3. CASE MarkFrees(t)
      BY <1>0, <2>14, <3>3 DEF MarkFree, MarkFrees
    <3>4. QED
      BY <1>0, <2>14, <3>1, <3>2, <3>3, MarkCases
  <2>15. IrqGet(t) => MovesOn'
    BY <1>0, SuccType DEF IrqGet, Deliver
  <2>16. IrqAck(t) => MovesOn'
    BY <1>0 DEF IrqAck
  <2>17. AckClear(t) => MovesOn'
    BY <1>0 DEF AckClear
  <2>18. AckRearm(t) => MovesOn'
    BY <1>0 DEF AckRearm
  <2>19. (\E b \in Blocks : DdmaMark(t, b)) => MovesOn'
    BY <1>0 DEF DdmaMark
  <2>20. QED
    BY <2>1, <2>2, <2>3, <2>4, <2>5, <2>6, <2>7, <2>8, <2>9, <2>10, <2>11,
       <2>12, <2>13, <2>14, <2>15, <2>16, <2>17, <2>18, <2>19
       DEF ThreadStep
<1>12. QED
  BY <1>1, <1>2, <1>3, <1>4, <1>5, <1>6, <1>7, <1>8, <1>9, <1>10, <1>11,
     NextCases

LEMMA WaitsForFullInductive ==
  ASSUME IInv, WaitsForFull PROVE [Next]_vars => WaitsForFull'
<1> USE NumBlocksAssumption, ProcsAssumption
    DEF WaitsForFull, Live, CanRun, Pristine, StartIsQuiet, Token, OneTarget,
        HookMoves, HookGivesUp, MarkMoves, CallerMoves, BlockStatus, IrqAway,
        At, Goto, GotoWith, Procs, Steps, ring, chip, note, locks,
        RestartSteps, HookSteps, StartSteps, StopSteps, WaitSteps, GetSteps,
        Restarting, NoRestart, EarlyStart
<1>0. /\ block \in [Blocks -> BlockStatus] /\ writing \in Blocks
      /\ reading \in Blocks \union {-1}
      /\ pc \in [Procs -> Steps] /\ arg \in [Procs -> Blocks]
      /\ pc[Irq] \in {"idle"} \union HookSteps \union RestartSteps
      /\ \A u \in Threads : pc[u] \notin HookSteps
      /\ starts \in Nat /\ isBlocked \in BOOLEAN
      /\ starts = 0 => Pristine
      /\ Live => StartIsQuiet /\ Token /\ OneTarget
      /\ MuxHeld
  BY DEF IInv, Runs, TypeOK
<1>1. UNCHANGED vars => WaitsForFull'
  BY <1>0 DEF vars
<1>2. EngineDone => WaitsForFull'
  BY <1>0 DEF EngineDone
<1>3. Intr => WaitsForFull'
  BY <1>0 DEF Intr
<1>4. IntrDispatch => WaitsForFull'
  BY <1>0 DEF IntrDispatch
<1>5. HookFill => WaitsForFull'
  BY <1>0, SuccType DEF HookFill
<1>6. HookBlock => WaitsForFull'
  BY <1>0 DEF HookBlock
<1>7. HookInform => WaitsForFull'
  BY <1>0 DEF HookInform
<1>8. WorkerTake => WaitsForFull'
  BY <1>0 DEF WorkerTake
<1>9. WorkerPend => WaitsForFull'
  BY <1>0 DEF WorkerPend
<1>10. ASSUME NEW p \in Procs
     PROVE  Arm(p) \/ EnableDmaIrq(p) \/ Go(p) => WaitsForFull'
  <2>1. Arm(p) => WaitsForFull'
    BY <1>0 DEF Arm
  <2>2. EnableDmaIrq(p) => WaitsForFull'
    BY <1>0 DEF EnableDmaIrq
  <2>3. Go(p) => WaitsForFull'
    BY <1>0 DEF Go, After
  <2>4. QED
    BY <2>1, <2>2, <2>3
<1>11. ASSUME NEW t \in Threads
      PROVE  ThreadStep(t) => WaitsForFull'
  <2>1. DdmaMap(t) => WaitsForFull'
    BY <1>0 DEF DdmaMap
  <2>2. DdmaStart(t) => WaitsForFull'
    BY <1>0 DEF DdmaStart, Blocks, Succ
  <2>3. StartHook(t) => WaitsForFull'
    BY <1>0 DEF StartHook
  <2>4. StartEnable(t) => WaitsForFull'
    BY <1>0 DEF StartEnable
  <2>5. StartEngine(t) => WaitsForFull'
    BY <1>0 DEF StartEngine
  <2>6. StartRunning(t) => WaitsForFull'
    BY <1>0 DEF StartRunning
  <2>7. DdmaStop(t) => WaitsForFull'
    BY <1>0 DEF DdmaStop
  <2>8. StopHook(t) => WaitsForFull'
    BY <1>0 DEF StopHook
  <2>9. StopAbort(t) => WaitsForFull'
    BY <1>0 DEF StopAbort
  <2>10. StopReady(t) => WaitsForFull'
    BY <1>0 DEF StopReady
  <2>11. DdmaWait(t) => WaitsForFull'
    BY <1>0 DEF DdmaWait
  <2>12. WaitWake(t) => WaitsForFull'
    BY <1>0 DEF WaitWake
  <2>13. WaitReady(t) => WaitsForFull'
    BY <1>0 DEF WaitReady
  <2>14. ASSUME MarkFree(t) PROVE WaitsForFull'
    <3>1. CASE MarkRefused(t)
      BY <1>0, <2>14, <3>1 DEF MarkFree, MarkRefused
    <3>2. CASE MarkRestarts(t)
      BY <1>0, <2>14, <3>2 DEF MarkFree, MarkRestarts
    <3>3. CASE MarkFrees(t)
      BY <1>0, <2>14, <3>3 DEF MarkFree, MarkFrees
    <3>4. QED
      BY <1>0, <2>14, <3>1, <3>2, <3>3, MarkCases
  <2>15. IrqGet(t) => WaitsForFull'
    BY <1>0, SuccType DEF IrqGet, Deliver
  <2>16. IrqAck(t) => WaitsForFull'
    BY <1>0 DEF IrqAck
  <2>17. AckClear(t) => WaitsForFull'
    BY <1>0 DEF AckClear
  <2>18. AckRearm(t) => WaitsForFull'
    BY <1>0 DEF AckRearm
  <2>19. (\E b \in Blocks : DdmaMark(t, b)) => WaitsForFull'
    BY <1>0 DEF DdmaMark
  <2>20. QED
    BY <2>1, <2>2, <2>3, <2>4, <2>5, <2>6, <2>7, <2>8, <2>9, <2>10, <2>11,
       <2>12, <2>13, <2>14, <2>15, <2>16, <2>17, <2>18, <2>19
       DEF ThreadStep
<1>12. QED
  BY <1>1, <1>2, <1>3, <1>4, <1>5, <1>6, <1>7, <1>8, <1>9, <1>10, <1>11,
     NextCases

LEMMA TellsInductive ==
  ASSUME IInv, OneThread, Tells PROVE [Next]_vars => Tells'
<1> USE NumBlocksAssumption, ProcsAssumption
    DEF Tells, Live, OnItsWay, OneThread, Running, Pristine, StartIsQuiet,
        MuxHeld, Token, HookMoves, CallerMoves, At, Goto, GotoWith, Procs,
        Steps, ring,
        chip, note, locks,
        RestartSteps, HookSteps, StartSteps, StopSteps, WaitSteps, GetSteps,
        Restarting, NoRestart, EarlyStart
<1>0. /\ block \in [Blocks -> BlockStatus] /\ writing \in Blocks
      /\ reading \in Blocks \union {-1}
      /\ pc \in [Procs -> Steps] /\ arg \in [Procs -> Blocks]
      /\ pc[Irq] \in {"idle"} \union HookSteps \union RestartSteps
      /\ \A u \in Threads : pc[u] \notin HookSteps
      /\ starts \in Nat /\ isBlocked \in BOOLEAN
      /\ starts = 0 => Pristine
      /\ Live => StartIsQuiet /\ Token /\ OneTarget
      /\ MuxHeld
  BY DEF IInv, Runs, TypeOK
<1>1. UNCHANGED vars => Tells'
  BY <1>0 DEF vars
<1>2. EngineDone => Tells'
  BY <1>0 DEF EngineDone
<1>3. Intr => Tells'
  BY <1>0 DEF Intr
<1>4. IntrDispatch => Tells'
  BY <1>0 DEF IntrDispatch
<1>5. HookFill => Tells'
  BY <1>0, SuccType DEF HookFill
<1>6. HookBlock => Tells'
  BY <1>0 DEF HookBlock
<1>7. HookInform => Tells'
  BY <1>0 DEF HookInform
<1>8. WorkerTake => Tells'
  BY <1>0 DEF WorkerTake
<1>9. WorkerPend => Tells'
  BY <1>0 DEF WorkerPend
<1>10. ASSUME NEW p \in Procs
     PROVE  Arm(p) \/ EnableDmaIrq(p) \/ Go(p) => Tells'
  <2>1. Arm(p) => Tells'
    BY <1>0 DEF Arm
  <2>2. EnableDmaIrq(p) => Tells'
    BY <1>0 DEF EnableDmaIrq
  <2>3. Go(p) => Tells'
    BY <1>0 DEF Go, After
  <2>4. QED
    BY <2>1, <2>2, <2>3
<1>11. ASSUME NEW t \in Threads
      PROVE  ThreadStep(t) => Tells'
  <2>1. DdmaMap(t) => Tells'
    BY <1>0 DEF DdmaMap
  <2>2. DdmaStart(t) => Tells'
    BY <1>0 DEF DdmaStart, Blocks, Succ
  <2>3. StartHook(t) => Tells'
    BY <1>0 DEF StartHook
  <2>4. StartEnable(t) => Tells'
    BY <1>0 DEF StartEnable
  <2>5. StartEngine(t) => Tells'
    BY <1>0 DEF StartEngine, Succ
  <2>6. StartRunning(t) => Tells'
    BY <1>0 DEF StartRunning
  <2>7. DdmaStop(t) => Tells'
    BY <1>0 DEF DdmaStop
  <2>8. StopHook(t) => Tells'
    BY <1>0 DEF StopHook
  <2>9. StopAbort(t) => Tells'
    BY <1>0 DEF StopAbort
  <2>10. StopReady(t) => Tells'
    BY <1>0 DEF StopReady
  <2>11. DdmaWait(t) => Tells'
    BY <1>0 DEF DdmaWait
  <2>12. WaitWake(t) => Tells'
    BY <1>0 DEF WaitWake
  <2>13. WaitReady(t) => Tells'
    BY <1>0 DEF WaitReady
  <2>14. ASSUME MarkFree(t) PROVE Tells'
    <3>1. CASE MarkRefused(t)
      BY <1>0, <2>14, <3>1 DEF MarkFree, MarkRefused
    <3>2. CASE MarkRestarts(t)
      BY <1>0, <2>14, <3>2 DEF MarkFree, MarkRestarts
    <3>3. CASE MarkFrees(t)
      BY <1>0, <2>14, <3>3 DEF MarkFree, MarkFrees
    <3>4. QED
      BY <1>0, <2>14, <3>1, <3>2, <3>3, MarkCases
  <2>15. IrqGet(t) => Tells'
    BY <1>0, SuccType DEF IrqGet, Deliver
  <2>16. IrqAck(t) => Tells'
    BY <1>0 DEF IrqAck
  <2>17. AckClear(t) => Tells'
    BY <1>0 DEF AckClear
  <2>18. AckRearm(t) => Tells'
    BY <1>0 DEF AckRearm
  <2>19. (\E b \in Blocks : DdmaMark(t, b)) => Tells'
    BY <1>0 DEF DdmaMark
  <2>20. QED
    BY <2>1, <2>2, <2>3, <2>4, <2>5, <2>6, <2>7, <2>8, <2>9, <2>10, <2>11,
       <2>12, <2>13, <2>14, <2>15, <2>16, <2>17, <2>18, <2>19
       DEF ThreadStep
<1>12. QED
  BY <1>1, <1>2, <1>3, <1>4, <1>5, <1>6, <1>7, <1>8, <1>9, <1>10, <1>11,
     NextCases

(* The bridge never stands still over a lost interrupt: whatever hook,     *)
(* mark, stop and start do to its enable and its latch, a DMA that runs is *)
(* blocked or will be moved on, for any ring, threads and CPUs.            *)
THEOREM NeverStandsStill == Spec => [](starts <= 1 \/ Alone => NoSilentStop)
<1>1. Init => MovesOn
  BY DEF Init, Live, MovesOn
<1>2. IInv /\ MovesOn /\ [Next]_vars => MovesOn'
  BY MovesOnInductive
<1>3. IInv /\ MovesOn => (starts <= 1 \/ Alone => NoSilentStop)
  BY ProcsAssumption
     DEF IInv, TypeOK, MuxHeld, Runs, Live, Pristine, MovesOn, NeverSilent,
         Running, NoSilentStop, StopSteps
<1>4. QED
  BY <1>1, <1>2, <1>3, Invariant, PTL DEF Spec

(* On one CPU is_blocked means what its comment says: the block the DMA    *)
(* waits for is not free, so giving it back restarts the DMA.  (On two,    *)
(* mark may free it between the two sections of the hook.)                 *)
THEOREM BlockedIsFull ==
  Spec => []((starts <= 1 \/ Alone) /\ ~SMP => BlockedMeansFull)
<1>1. Init => WaitsForFull
  BY DEF Init, Live, WaitsForFull
<1>2. IInv /\ WaitsForFull /\ [Next]_vars => WaitsForFull'
  BY WaitsForFullInductive
<1>3. IInv /\ WaitsForFull =>
        ((starts <= 1 \/ Alone) /\ ~SMP => BlockedMeansFull)
  BY DEF IInv, TypeOK, Runs, Live, Pristine, Token, BridgeMoves, WaitsForFull,
         BlockedMeansFull
<1>4. QED
  BY <1>1, <1>2, <1>3, Invariant, PTL DEF Spec

(* A process of one thread is told of every full block: neither its        *)
(* acknowledgement nor the handler of the next block loses the one pending *)
(* bit.  (A second thread may acknowledge while the first one is about to  *)
(* set dma->status.)                                                       *)
THEOREM FullIsAnnounced ==
  ASSUME OneThread PROVE Spec => [](starts <= 1 \/ Alone => Announced)
<1>1. Init => Tells
  BY DEF Init, Live, Tells
<1>2. IInv /\ Tells /\ [Next]_vars => Tells'
  BY TellsInductive
<1>3. IInv /\ Tells => (starts <= 1 \/ Alone => Announced)
  BY DEF IInv, TypeOK, Runs, Live, Pristine, Tells, Running, OnItsWay, Announced
<1>4. QED
  BY <1>1, <1>2, <1>3, Invariant, PTL DEF Spec
-----------------------------------------------------------------------------
(* The refinement.  A ring that is read from r on, is written at w and has *)
(* its full blocks S in order, is the queue of the blocks after r.         *)
Ordered(r, w, S) ==
  LET first == Succ(r) IN
  /\ r \in Blocks \union {-1} /\ w \in Blocks /\ S \subseteq Blocks
  /\ first < w => S = first .. w - 1
  /\ first > w => S = (first .. NumBlocks - 1) \union (0 .. w - 1)
  /\ first = w => S = {} \/ S = Blocks
QueueFrom(r, S) == [i \in 1 .. Cardinality(S) |-> (r + i) % NumBlocks]

LEMMA RingIsOrdered ==
  ASSUME TypeOK, FullAreUnread PROVE Ordered(reading, writing, FullBlocks)
<1> DEFINE first == Succ(reading)
<1>1. /\ reading \in Blocks \union {-1} /\ writing \in Blocks
      /\ first \in Blocks /\ FullBlocks \subseteq Blocks
  BY SuccType DEF TypeOK, FullBlocks
<1>2. \A b \in Blocks : b \in FullBlocks <=> Unread(b)
  BY DEF FullAreUnread, FullBlocks
<1> HIDE DEF first
<1>3. ASSUME first < writing PROVE FullBlocks = first .. writing - 1
  <2>1. \A b \in Blocks : Unread(b) <=> first <= b /\ b < writing
    BY <1>1, <1>3 DEF Unread, first, Blocks
  <2>2. ASSUME NEW b \in FullBlocks PROVE b \in first .. writing - 1
    BY <1>1, <1>2, <2>1, NumBlocksAssumption DEF Blocks
  <2>3. ASSUME NEW b \in first .. writing - 1 PROVE b \in FullBlocks
    BY <1>1, <1>2, <2>1, NumBlocksAssumption DEF Blocks
  <2>4. QED
    BY <2>2, <2>3
<1>4. ASSUME first > writing
      PROVE  FullBlocks = (first .. NumBlocks - 1) \union (0 .. writing - 1)
  <2>1. \A b \in Blocks : Unread(b) <=> first <= b \/ b < writing
    BY <1>1, <1>4 DEF Unread, first, Blocks
  <2> DEFINE both == (first .. NumBlocks - 1) \union (0 .. writing - 1)
  <2>2. ASSUME NEW b \in FullBlocks PROVE b \in both
    BY <1>1, <1>2, <2>1, NumBlocksAssumption DEF Blocks
  <2>3. ASSUME NEW b \in both PROVE b \in FullBlocks
    BY <1>1, <1>2, <2>1, NumBlocksAssumption DEF Blocks
  <2>4. QED
    BY <2>2, <2>3
<1>5. ASSUME first = writing PROVE FullBlocks = {} \/ FullBlocks = Blocks
  <2>1. \A b \in Blocks : Unread(b) <=> block[writing] = "Xfull"
    BY <1>1, <1>5 DEF Unread, first, Blocks
  <2>2. QED
    BY <1>1, <1>2, <2>1
<1>6. QED
  BY <1>1, <1>3, <1>4, <1>5 DEF Ordered, first

(* The ring is finite; going once around it is a subtraction.              *)
LEMMA RingIsFinite ==
  ASSUME NEW S \in SUBSET Blocks
  PROVE  IsFiniteSet(S) /\ Cardinality(S) \in 0 .. NumBlocks
<1>1. IsFiniteSet(Blocks) /\ Cardinality(Blocks) = NumBlocks
  BY FS_Interval, NumBlocksAssumption DEF Blocks
<1>2. IsFiniteSet(S) /\ Cardinality(S) <= Cardinality(Blocks)
  BY <1>1, FS_Subset
<1>3. QED
  BY <1>1, <1>2, FS_CardinalityType

LEMMA AroundTheRing ==
  ASSUME NEW a \in 0 .. 2 * NumBlocks - 1
  PROVE  a % NumBlocks = IF a < NumBlocks THEN a ELSE a - NumBlocks
  BY NumBlocksAssumption

(* How many blocks are full.                                               *)
LEMMA FullCount ==
  ASSUME NEW r, NEW w, NEW S, Ordered(r, w, S)
  PROVE  LET first == Succ(r) IN
         Cardinality(S) = IF first < w THEN w - first
                          ELSE IF first > w THEN NumBlocks - first + w
                          ELSE IF S = {} THEN 0 ELSE NumBlocks
<1> DEFINE first == Succ(r)
<1>1. first \in 0 .. NumBlocks - 1 /\ w \in 0 .. NumBlocks - 1
  BY SuccType DEF Ordered, Blocks
<1> HIDE DEF first
<1>2. CASE first < w
  <2>1. S = first .. w - 1
    BY <1>2 DEF Ordered, first
  <2>2. QED
    BY <1>1, <1>2, <2>1, FS_Interval DEF first
<1>3. CASE first > w
  <2> DEFINE upper == first .. NumBlocks - 1
             lower == 0 .. w - 1
  <2>1. S = upper \union lower
    BY <1>3 DEF Ordered, first
  <2>2. IsFiniteSet(upper) /\ Cardinality(upper) = NumBlocks - first
    BY <1>1, FS_Interval, NumBlocksAssumption
  <2>3. IsFiniteSet(lower) /\ Cardinality(lower) = w
    BY <1>1, FS_Interval
  <2>4. upper \cap lower = {}
    BY <1>1, <1>3
  <2> HIDE DEF upper, lower
  <2>5. Cardinality(upper \union lower) = NumBlocks - first + w - 0
    BY <2>2, <2>3, <2>4, FS_Union, FS_EmptySet
  <2>6. QED
    BY <1>1, <1>3, <2>1, <2>5, NumBlocksAssumption DEF first
<1>4. CASE first = w
  <2>1. Cardinality({}) = 0 /\ Cardinality(Blocks) = NumBlocks
    BY FS_EmptySet, FS_Interval, NumBlocksAssumption DEF Blocks
  <2>2. Blocks # {}
    BY NumBlocksAssumption DEF Blocks
  <2>3. S = {} \/ S = Blocks
    BY <1>4 DEF Ordered, first
  <2>4. ~(first < w) /\ ~(first > w)
    BY <1>1, <1>4
  <2>5. Cardinality(S) = IF S = {} THEN 0 ELSE NumBlocks
    BY <2>1, <2>2, <2>3
  <2>6. QED
    BY <2>4, <2>5 DEF first
<1>5. QED
  BY <1>1, <1>2, <1>3, <1>4

(* The queue holds full blocks only, ...                                   *)
LEMMA QueueIsFull ==
  ASSUME NEW r, NEW w, NEW S, Ordered(r, w, S)
  PROVE  \A i \in DOMAIN QueueFrom(r, S) : QueueFrom(r, S)[i] \in S
<1> DEFINE first == Succ(r)
           n == Cardinality(S)
<1>1. first \in 0 .. NumBlocks - 1 /\ w \in 0 .. NumBlocks - 1
  BY SuccType DEF Ordered, Blocks
<1>2. n = IF first < w THEN w - first
          ELSE IF first > w THEN NumBlocks - first + w
          ELSE IF S = {} THEN 0 ELSE NumBlocks
  BY FullCount
<1>3. n \in 0 .. NumBlocks
  BY RingIsFinite DEF Ordered
<1> HIDE DEF n
<1>4. SUFFICES ASSUME NEW i \in 1 .. n PROVE (r + i) % NumBlocks \in S
  BY DEF QueueFrom, n
<1>5. r \in -1 .. NumBlocks - 1
  BY NumBlocksAssumption DEF Ordered, Blocks
<1>6. (r + i) % NumBlocks = IF first + i - 1 < NumBlocks THEN first + i - 1
                            ELSE first + i - 1 - NumBlocks
  BY <1>3, <1>5, AroundTheRing, NumBlocksAssumption DEF Succ
<1> HIDE DEF first
<1>7. CASE first < w
  <2>1. S = first .. w - 1
    BY <1>7 DEF Ordered, first
  <2>2. QED
    BY <1>1, <1>2, <1>3, <1>6, <1>7, <2>1, NumBlocksAssumption
<1>8. CASE first > w
  <2>1. S = (first .. NumBlocks - 1) \union (0 .. w - 1)
    BY <1>8 DEF Ordered, first
  <2>2. QED
    BY <1>1, <1>2, <1>3, <1>6, <1>8, <2>1, NumBlocksAssumption
<1>9. CASE first = w
  <2>1. S = Blocks
    BY <1>1, <1>2, <1>9 DEF Ordered, first
  <2>2. QED
    BY <1>1, <1>3, <1>6, <2>1, NumBlocksAssumption DEF Blocks
<1>10. QED
  BY <1>1, <1>7, <1>8, <1>9

(* ... filling the writing block appends it, ...                           *)
LEMMA FillAppends ==
  ASSUME NEW r, NEW w, NEW S, Ordered(r, w, S), w \notin S
  PROVE  QueueFrom(r, S \union {w}) = Append(QueueFrom(r, S), w)
<1> DEFINE first == Succ(r)
           n == Cardinality(S)
<1>1. first \in 0 .. NumBlocks - 1 /\ w \in 0 .. NumBlocks - 1
      /\ r \in -1 .. NumBlocks - 1
  BY SuccType, NumBlocksAssumption DEF Ordered, Blocks
<1>2. n = IF first < w THEN w - first
          ELSE IF first > w THEN NumBlocks - first + w
          ELSE IF S = {} THEN 0 ELSE NumBlocks
  BY FullCount
<1>3. n \in 0 .. NumBlocks /\ Cardinality(S \union {w}) = n + 1
  BY RingIsFinite, FS_AddElement DEF Ordered
<1>4. first = w => S = {}
  BY DEF Ordered
<1> HIDE DEF n
<1>5. r + n + 1 = first + n \/ r + n + 1 = first + n + NumBlocks
  BY <1>1, <1>3, NumBlocksAssumption DEF Succ
<1>6. (r + (n + 1)) % NumBlocks = w
  <2> DEFINE a == r + (n + 1)
  <2>1. a \in 0 .. 2 * NumBlocks - 1
    BY <1>1, <1>2, <1>3, <1>4, NumBlocksAssumption
  <2>2. a = w \/ a = w + NumBlocks
    BY <1>1, <1>2, <1>3, <1>4, NumBlocksAssumption DEF Succ
  <2> HIDE DEF a
  <2>3. a % NumBlocks = w
    BY <1>1, <2>2, NumBlocksAssumption
  <2>4. QED
    BY <2>3 DEF a
<1> DEFINE q == QueueFrom(r, S)
           f == QueueFrom(r, S \union {w})
<1>7. /\ q \in Seq(Int) /\ Len(q) = n
      /\ \A i \in 1 .. n : q[i] = (r + i) % NumBlocks
  BY <1>1, <1>3, NumBlocksAssumption DEF QueueFrom, n
<1>8. /\ f \in Seq(Int) /\ Len(f) = n + 1
      /\ \A i \in 1 .. n + 1 : f[i] = (r + i) % NumBlocks
  <2>1. f = [i \in 1 .. n + 1 |-> (r + i) % NumBlocks]
    BY <1>3 DEF QueueFrom
  <2> HIDE DEF f
  <2>2. QED
    BY <1>1, <1>3, <2>1, NumBlocksAssumption
<1> HIDE DEF first, q, f
<1>9. /\ Append(q, w) \in Seq(Int) /\ Len(Append(q, w)) = n + 1
      /\ \A i \in 1 .. n : Append(q, w)[i] = q[i]
      /\ Append(q, w)[n + 1] = w
  BY <1>1, <1>7, AppendProperties
<1>10. \A i \in 1 .. n + 1 : f[i] = Append(q, w)[i]
  BY <1>3, <1>6, <1>7, <1>8, <1>9
<1>11. f = Append(q, w)
  BY <1>8, <1>9, <1>10, SeqEqual
<1>12. QED
  BY <1>11 DEF f, q

(* ... and delivering the block after r takes it from the head.            *)
LEMMA DeliverTakes ==
  ASSUME NEW r \in Blocks \union {-1}, NEW S \in SUBSET Blocks, Succ(r) \in S
  PROVE  /\ QueueFrom(r, S) # <<>>
         /\ Head(QueueFrom(r, S)) = Succ(r)
         /\ QueueFrom(Succ(r), S \ {Succ(r)}) = Tail(QueueFrom(r, S))
<1> DEFINE first == Succ(r)
           n == Cardinality(S)
<1>1. first \in 0 .. NumBlocks - 1 /\ r \in -1 .. NumBlocks - 1
  BY SuccType, NumBlocksAssumption DEF Blocks
<1>2. n \in 1 .. NumBlocks /\ Cardinality(S \ {first}) = n - 1
  <2>1. IsFiniteSet(S) /\ n \in 0 .. NumBlocks
    BY RingIsFinite
  <2>2. n # 0
    BY <2>1, FS_EmptySet
  <2>3. Cardinality(S \ {first}) = n - 1
    BY <2>1, FS_RemoveElement
  <2>4. QED
    BY <2>1, <2>2, <2>3
<1> HIDE DEF n
<1>3. (r + 1) % NumBlocks = first
  BY <1>1, AroundTheRing, NumBlocksAssumption DEF Succ
<1>4. \A i \in 1 .. n - 1 :
        (first + i) % NumBlocks = (r + (i + 1)) % NumBlocks
  <2> TAKE i \in 1 .. n - 1
  <2>1. CASE r + 1 < NumBlocks
    <3>1. first + i = r + (i + 1)
      BY <1>1, <1>2, <2>1, NumBlocksAssumption DEF Succ
    <3>2. QED
      BY <3>1
  <2>2. CASE r + 1 >= NumBlocks
    <3>1. first = 0 /\ r = NumBlocks - 1
      BY <1>1, <2>2, NumBlocksAssumption DEF Succ
    <3>2. i % NumBlocks = i /\ (NumBlocks + i) % NumBlocks = i
      BY <1>2, AroundTheRing, NumBlocksAssumption
    <3>3. first + i = i /\ r + (i + 1) = NumBlocks + i
      BY <1>2, <3>1, NumBlocksAssumption
    <3>4. QED
      BY <3>2, <3>3
  <2>3. QED
    BY <1>1, <2>1, <2>2, NumBlocksAssumption
<1> DEFINE q == QueueFrom(r, S)
           f == QueueFrom(first, S \ {first})
<1>5. /\ q \in Seq(Int) /\ Len(q) = n
      /\ \A i \in 1 .. n : q[i] = (r + i) % NumBlocks
  BY <1>1, <1>2, NumBlocksAssumption DEF QueueFrom, n
<1>6. /\ f \in Seq(Int) /\ Len(f) = n - 1
      /\ \A i \in 1 .. n - 1 : f[i] = (first + i) % NumBlocks
  <2>1. f = [i \in 1 .. n - 1 |-> (first + i) % NumBlocks]
    BY <1>2 DEF QueueFrom
  <2> HIDE DEF f, first
  <2>2. QED
    BY <1>1, <1>2, <2>1, NumBlocksAssumption
<1> HIDE DEF first, q, f
<1>7. q # <<>> /\ Head(q) = first
  BY <1>2, <1>3, <1>5
<1>8. /\ Tail(q) \in Seq(Int) /\ Len(Tail(q)) = n - 1
      /\ \A i \in 1 .. n - 1 : Tail(q)[i] = q[i + 1]
  BY <1>5, <1>7, HeadTailProperties
<1>9. \A i \in 1 .. n - 1 : f[i] = Tail(q)[i]
  BY <1>2, <1>4, <1>5, <1>6, <1>8
<1>10. f = Tail(q)
  BY <1>6, <1>8, <1>9, SeqEqual
<1>11. QED
  BY <1>7, <1>10 DEF first, f, q

(* The mapping reads block, writing and reading only.                      *)
LEMMA RingStutters ==
  ASSUME UNCHANGED <<block, writing, reading>>
  PROVE  UNCHANGED <<Target, Filled, Held>>
<1>1. FullBlocks' = FullBlocks
  BY DEF FullBlocks
<1>2. QED
  BY <1>1 DEF Target, Filled, Held

LEMMA FilledFrom == Filled = QueueFrom(reading, FullBlocks)
  BY DEF Filled, QueueFrom

(* The runs the refinement speaks of.                                      *)
EveryRunLive == MaxStarts <= 1 \/ Alone

LEMMA LiveOrPristine ==
  ASSUME IInv, EveryRunLive
  PROVE  \/ Pristine
         \/ /\ StartIsQuiet /\ Token /\ OneTarget
            /\ Ordered(reading, writing, FullBlocks)
<1>1. starts \in 0 .. MaxStarts /\ MaxStarts \in Nat
  BY EnvAssumption DEF IInv, TypeOK
<1>2. starts = 0 \/ Live
  BY <1>1 DEF EveryRunLive, Live
<1>3. Live => Ordered(reading, writing, FullBlocks)
  BY RingIsOrdered DEF IInv, Runs
<1>4. QED
  BY <1>2, <1>3 DEF IInv, Runs

(* Starting is beginning a new run.                                        *)
LEMMA StartBegins ==
  ASSUME IInv, NEW t \in Threads, DdmaStart(t) PROVE Queue!Begin
<1>1. /\ block' = [b \in Blocks |-> IF b = 0 THEN "Xdma" ELSE "Xfree"]
      /\ writing' = 0 /\ reading' = -1 /\ 0 \in Blocks
  BY NumBlocksAssumption DEF DdmaStart, Blocks
<1>2. FullBlocks' = {} /\ Held' = {} /\ Target' = 0
  BY <1>1 DEF FullBlocks, Held, Target
<1>3. Cardinality(FullBlocks') = 0
  BY <1>2, FS_EmptySet
<1>4. Filled' = <<>>
  BY <1>3 DEF Filled
<1>5. QED
  BY <1>2, <1>4 DEF Queue!Begin

(* The hook fills the target, ...                                          *)
LEMMA HookFills ==
  ASSUME IInv, EveryRunLive, HookFill PROVE Queue!Fill
<1>1. /\ pc[Irq] = "fill" /\ writing' = Succ(writing) /\ reading' = reading
      /\ block' = [block EXCEPT ![writing] = "Xfull"]
  BY DEF HookFill, At
<1>2. /\ block \in [Blocks -> BlockStatus] /\ writing \in Blocks
      /\ Succ(writing) \in Blocks
  BY SuccType DEF IInv, TypeOK
<1>3. /\ block[writing] = "Xdma" /\ OneTarget
      /\ Ordered(reading, writing, FullBlocks)
  BY <1>1, LiveOrPristine DEF Pristine, Token, HookMoves
<1>4. writing # -1 /\ Target = writing
  BY <1>2, <1>3, NumBlocksAssumption DEF Target, Blocks
<1>5. Target' = -1
  BY <1>1, <1>2, <1>3 DEF Target, OneTarget
<1>6. Held' = Held
  BY <1>1, <1>2, <1>3 DEF Held
<1>7. FullBlocks' = FullBlocks \union {writing} /\ writing \notin FullBlocks
  BY <1>1, <1>2, <1>3 DEF FullBlocks
<1>8. Filled' = QueueFrom(reading, FullBlocks \union {writing})
  BY <1>1, <1>7 DEF Filled, QueueFrom
<1>9. Filled' = Append(Filled, writing)
  BY <1>3, <1>7, <1>8, FilledFrom, FillAppends
<1>10. QED
  BY <1>4, <1>5, <1>6, <1>9 DEF Queue!Fill

(* ... and start_dma aims at a free block.                                 *)
LEMMA ArmAims ==
  ASSUME IInv, EveryRunLive, NEW p \in Procs, Arm(p) PROVE Queue!Aim
<1>1. /\ pc[p] = "arm" /\ writing' = writing /\ reading' = reading
      /\ block' = [block EXCEPT ![arg[p]] = "Xdma"]
  BY DEF Arm, At
<1>2. block \in [Blocks -> BlockStatus] /\ writing \in Blocks
  BY DEF IInv, TypeOK
<1>3. /\ arg[p] = writing /\ block[writing] = "Xfree"
      /\ Ordered(reading, writing, FullBlocks)
  BY <1>1, LiveOrPristine
     DEF Pristine, Token, CallerMoves, Restarting, RestartSteps, GetSteps,
         Procs
<1>4. Target = -1 /\ Target' = writing
  BY <1>1, <1>2, <1>3 DEF Target
<1>5. FullBlocks' = FullBlocks /\ Held' = Held
  BY <1>1, <1>2, <1>3 DEF FullBlocks, Held
<1>6. Filled' = Filled
  BY <1>1, <1>5 DEF Filled
<1>7. writing \notin FullBlocks /\ writing \notin Held
  BY <1>3 DEF FullBlocks, Held
<1>8. \A i \in DOMAIN Filled : Filled[i] \in FullBlocks
  BY <1>3, FilledFrom, QueueIsFull
<1>9. QED
  BY <1>2, <1>4, <1>5, <1>6, <1>7, <1>8 DEF Queue!Aim, Queue!Queued

(* irq_get hands the head of the queue to the user, ...                    *)
LEMMA GetHands ==
  ASSUME IInv, EveryRunLive, NEW t \in Threads, IrqGet(t)
  PROVE  Queue!Hand \/ UNCHANGED <<Target, Filled, Held>>
<1> DEFINE first == Succ(reading)
<1>1. CASE ~(status = "running" /\ block[first] = "Xfull")
  BY <1>1, RingStutters DEF IrqGet, Deliver
<1>2. CASE status = "running" /\ block[first] = "Xfull"
  <2>1. /\ block' = [block EXCEPT ![first] = "Xuser"]
        /\ reading' = first /\ writing' = writing
    BY <1>2 DEF IrqGet, Deliver
  <2>2. /\ block \in [Blocks -> BlockStatus] /\ writing \in Blocks
        /\ reading \in Blocks \union {-1} /\ first \in Blocks
    BY SuccType DEF IInv, TypeOK
  <2> HIDE DEF first
  <2>3. Target' = Target
    BY <1>2, <2>1, <2>2 DEF Target
  <2>4. Held' = Held \union {first}
    BY <1>2, <2>1, <2>2 DEF Held
  <2>5. /\ FullBlocks' = FullBlocks \ {first} /\ first \in FullBlocks
        /\ FullBlocks \in SUBSET Blocks
    BY <1>2, <2>1, <2>2 DEF FullBlocks
  <2>6. Filled' = QueueFrom(first, FullBlocks \ {first})
    BY <2>1, <2>5 DEF Filled, QueueFrom
  <2>7. /\ Filled # <<>> /\ Head(Filled) = first
        /\ Filled' = Tail(Filled)
    BY <2>2, <2>5, <2>6, FilledFrom, DeliverTakes DEF first
  <2>8. QED
    BY <2>3, <2>4, <2>7 DEF Queue!Hand
<1>3. QED
  BY <1>1, <1>2

(* ... who gives it back with mark.                                        *)
LEMMA MarkReturns ==
  ASSUME IInv, NEW t \in Threads, MarkFree(t)
  PROVE  Queue!Return \/ UNCHANGED <<Target, Filled, Held>>
<1> DEFINE b == arg[t]
<1>1. /\ block \in [Blocks -> BlockStatus] /\ writing \in Blocks
      /\ isBlocked \in BOOLEAN /\ b \in Blocks
      /\ writing' = writing /\ reading' = reading
  BY DEF IInv, TypeOK, MarkFree, Procs
<1>2. CASE MarkRefused(t)
  BY <1>1, <1>2, RingStutters DEF MarkRefused
<1>3. CASE MarkRestarts(t) \/ MarkFrees(t)
  <2>1. block[b] = "Xuser" /\ block' = [block EXCEPT ![b] = "Xfree"]
    BY <1>3 DEF MarkRestarts, MarkFrees
  <2>2. Target' = Target
    BY <1>1, <2>1 DEF Target
  <2>3. FullBlocks' = FullBlocks /\ Held' = Held \ {b} /\ b \in Held
    BY <1>1, <2>1 DEF FullBlocks, Held
  <2>4. Filled' = Filled
    BY <1>1, <2>3 DEF Filled
  <2>5. QED
    BY <2>2, <2>3, <2>4 DEF Queue!Return
<1>4. QED
  BY <1>1, <1>2, <1>3, MarkCases

(* Every step is a step of the queue, or none.                             *)
LEMMA StepRefines ==
  ASSUME IInv, EveryRunLive, [Next]_vars PROVE [Queue!Next]_(Queue!vars)
<1> DEFINE Same == UNCHANGED <<block, writing, reading>>
<1>1. Same => UNCHANGED Queue!vars
  BY RingStutters DEF Queue!vars
<1>2. CASE UNCHANGED vars
  BY <1>1, <1>2 DEF vars, ring
<1>3. CASE \/ EngineDone \/ Intr \/ IntrDispatch \/ HookBlock \/ HookInform
           \/ WorkerTake \/ WorkerPend
  BY <1>1, <1>3 DEF EngineDone, Intr, IntrDispatch, HookBlock, HookInform,
                    WorkerTake, WorkerPend, ring
<1>4. CASE HookFill
  BY <1>4, HookFills DEF Queue!Next
<1>5. ASSUME NEW p \in Procs, Arm(p) \/ EnableDmaIrq(p) \/ Go(p)
      PROVE  [Queue!Next]_(Queue!vars)
  <2>1. CASE Arm(p)
    BY <2>1, ArmAims DEF Queue!Next
  <2>2. CASE EnableDmaIrq(p) \/ Go(p)
    BY <1>1, <2>2 DEF EnableDmaIrq, Go, ring
  <2>3. QED
    BY <1>5, <2>1, <2>2
<1>6. ASSUME NEW t \in Threads, ThreadStep(t)
      PROVE  [Queue!Next]_(Queue!vars)
  <2>1. CASE DdmaStart(t)
    BY <2>1, StartBegins DEF Queue!Next
  <2>2. CASE IrqGet(t)
    BY <2>2, GetHands DEF Queue!Next, Queue!vars
  <2>3. CASE MarkFree(t)
    BY <2>3, MarkReturns DEF Queue!Next, Queue!vars
  <2>4. CASE \/ DdmaMap(t) \/ StartHook(t) \/ StartEnable(t) \/ StartEngine(t)
             \/ StartRunning(t) \/ DdmaStop(t) \/ StopHook(t) \/ StopAbort(t)
             \/ StopReady(t) \/ DdmaWait(t) \/ WaitWake(t) \/ WaitReady(t)
             \/ (\E b \in Blocks : DdmaMark(t, b))
             \/ IrqAck(t) \/ AckClear(t) \/ AckRearm(t)
    BY <1>1, <2>4
       DEF DdmaMap, StartHook, StartEnable, StartEngine, StartRunning,
           DdmaStop, StopHook, StopAbort, StopReady, DdmaWait, WaitWake,
           WaitReady, DdmaMark, IrqAck, AckClear, AckRearm, ring
  <2>5. QED
    BY <1>6, <2>1, <2>2, <2>3, <2>4 DEF ThreadStep
<1>7. QED
  BY <1>2, <1>3, <1>4, <1>5, <1>6, NextCases

(* Ring, bridge, hook, mark and the ioctls implement the queue of blocks:  *)
(* every filled block is delivered once, in the order of filling, and the  *)
(* bridge is aimed only at free blocks - for any ring, threads and CPUs    *)
(* when the DMA is started once, and however often a process that is alone *)
(* starts it.                                                              *)
THEOREM RingIsQueue == ASSUME EveryRunLive PROVE Spec => QueueSpec
<1>1. Init => Queue!Init
  <2> SUFFICES ASSUME Init PROVE Queue!Init
    OBVIOUS
  <2>1. FullBlocks = {} /\ Held = {} /\ Target = -1
    BY NumBlocksAssumption DEF Init, FullBlocks, Held, Target, Blocks
  <2>2. Cardinality(FullBlocks) = 0
    BY <2>1, FS_EmptySet
  <2>3. Filled = <<>>
    BY <2>2 DEF Filled
  <2>4. QED
    BY <2>1, <2>3 DEF Queue!Init
<1>2. IInv /\ [Next]_vars => [Queue!Next]_(Queue!vars)
  BY StepRefines
<1>3. QED
  BY <1>1, <1>2, Invariant, PTL DEF Spec, QueueSpec, Queue!Spec

(* What being that queue is worth: no block is in two places, or in the    *)
(* queue twice.                                                            *)
OnePlace ==
  /\ Filled \in Seq(Blocks) /\ Held \subseteq Blocks
  /\ Target \in Blocks \union {-1} /\ Target \notin Held
  /\ \A i \in DOMAIN Filled : Filled[i] # Target /\ Filled[i] \notin Held
  /\ \A i, j \in DOMAIN Filled : Filled[i] = Filled[j] => i = j

LEMMA FillKeepsPlace == ASSUME OnePlace, Queue!Fill PROVE OnePlace'
<1>1. /\ Target # -1 /\ Target' = -1 /\ Held' = Held
      /\ Filled' = Append(Filled, Target)
  BY DEF Queue!Fill
<1>2. /\ Filled \in Seq(Blocks) /\ Target \in Blocks
      /\ DOMAIN Filled = 1 .. Len(Filled) /\ Len(Filled) \in Nat
  BY <1>1 DEF OnePlace
<1>3. /\ Filled' \in Seq(Blocks) /\ DOMAIN Filled' = 1 .. Len(Filled) + 1
      /\ \A i \in 1 .. Len(Filled) : Filled'[i] = Filled[i]
      /\ Filled'[Len(Filled) + 1] = Target
  BY <1>1, <1>2, AppendProperties
<1>4. -1 \notin Blocks
  BY NumBlocksAssumption DEF Blocks
<1>5. \A i \in DOMAIN Filled' : Filled'[i] # -1 /\ Filled'[i] \notin Held
  BY <1>2, <1>3, <1>4 DEF OnePlace
<1>6. \A i, j \in DOMAIN Filled' : Filled'[i] = Filled'[j] => i = j
  BY <1>2, <1>3 DEF OnePlace
<1>7. -1 \notin Held
  BY <1>4 DEF OnePlace
<1>8. QED
  BY <1>1, <1>3, <1>5, <1>6, <1>7 DEF OnePlace

LEMMA HandKeepsPlace == ASSUME OnePlace, Queue!Hand PROVE OnePlace'
<1> DEFINE h == Head(Filled)
           n == Len(Filled)
<1>1. /\ Filled # <<>> /\ Held' = Held \union {h}
      /\ Filled' = Tail(Filled) /\ Target' = Target
  BY DEF Queue!Hand
<1>2. /\ Filled \in Seq(Blocks) /\ n \in Nat \ {0} /\ h = Filled[1]
      /\ DOMAIN Filled = 1 .. n
  BY <1>1 DEF OnePlace
<1>3. /\ h \in Blocks /\ Filled' \in Seq(Blocks) /\ DOMAIN Filled' = 1 .. n - 1
      /\ \A i \in 1 .. n - 1 : Filled'[i] = Filled[i + 1]
  BY <1>1, <1>2, HeadTailProperties
<1> HIDE DEF h, n
<1>4. h # Target /\ Held' \subseteq Blocks
  BY <1>1, <1>2, <1>3 DEF OnePlace
<1>5. \A i \in DOMAIN Filled' : Filled'[i] # Target /\ Filled'[i] \notin Held'
  BY <1>1, <1>2, <1>3 DEF OnePlace
<1>6. ASSUME NEW i \in DOMAIN Filled', NEW j \in DOMAIN Filled',
             Filled'[i] = Filled'[j]
      PROVE  i = j
  <2>1. i \in 1 .. n - 1 /\ j \in 1 .. n - 1
    BY <1>3
  <2>2. i + 1 \in DOMAIN Filled /\ j + 1 \in DOMAIN Filled
    BY <1>2, <2>1
  <2>3. Filled[i + 1] = Filled[j + 1]
    BY <1>3, <1>6, <2>1
  <2>4. i + 1 = j + 1
    BY <2>2, <2>3 DEF OnePlace
  <2>5. QED
    BY <2>1, <2>4
<1>7. QED
  BY <1>1, <1>3, <1>4, <1>5, <1>6 DEF OnePlace

LEMMA PlaceInductive ==
  ASSUME OnePlace PROVE [Queue!Next]_(Queue!vars) => OnePlace'
<1>1. Queue!Begin => OnePlace'
  BY NumBlocksAssumption DEF Queue!Begin, OnePlace, Blocks
<1>2. Queue!Aim => OnePlace'
  BY DEF Queue!Aim, Queue!Queued, OnePlace
<1>3. Queue!Return => OnePlace'
  BY DEF Queue!Return, OnePlace
<1>4. UNCHANGED Queue!vars => OnePlace'
  BY DEF Queue!vars, OnePlace
<1>5. QED
  BY <1>1, <1>2, <1>3, <1>4, FillKeepsPlace, HandKeepsPlace DEF Queue!Next

(* Every block is free, the target of the bridge, in the queue once, or    *)
(* with the user, and in no two of these places: the promise of BlockQueue *)
(* keeps it so, and thereby the driver does.                               *)
THEOREM EachInOnePlace == ASSUME EveryRunLive PROVE Spec => []OnePlace
<1>1. Queue!Init => OnePlace
  BY NumBlocksAssumption DEF Queue!Init, OnePlace, Blocks
<1>2. QueueSpec => []OnePlace
  BY <1>1, PlaceInductive, PTL DEF QueueSpec, Queue!Spec
<1>3. QED
  BY <1>2, RingIsQueue, PTL
=============================================================================

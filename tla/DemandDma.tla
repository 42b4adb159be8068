----------------------------- MODULE DemandDma -----------------------------
(***************************************************************************)
(* Demand DMA of the SIS1100: the PLX bridge fills a ring of user buffers  *)
(* ("blocks") one after the other, the DMA interrupt hands a full block to *)
(* the user process and starts the next one, the process gives the block   *)
(* back with DEMAND_DMA_MARK.  Four parties work on the ring: the bridge   *)
(* (engine), the interrupt handler with its hook, the interrupt thread of  *)
(* the driver, and the threads of the process that owns the DMA.           *)
(*                                                                         *)
(* Sources: sis1100_ddma_startstop.c, sis1100_ddma_map.c, the DMA part of  *)
(* sis1100_irq.c, the zellvd branches of sis1100_irq_handler.c and         *)
(* sis1100_irq_thread.c.  The remote side is a zellvd for the whole run,   *)
(* the process has reserved the DDMA interrupt (see IrqDelivery for both). *)
(***************************************************************************)
EXTENDS Integers, Sequences, FiniteSets

CONSTANTS
  NumBlocks,    (* dma->numblocks, the blocks of the ring                  *)
  Threads,      (* threads of the process that owns the demand DMA         *)
  Irq,          (* the interrupt handler, as a process                     *)
  Nobody,       (* a mutex nobody holds                                    *)
  SMP,          (* the handler may run beside a process, on another CPU    *)
  Calls,        (* the optional ioctls this process uses, of {"stop",      *)
                (* "map", "wait"}                                          *)
  AbortMayFail, (* the bridge may ignore an abort (EIO of ddma_stop)       *)
  MaxStarts     (* BOUND: how often the process starts the DMA             *)

ASSUME NumBlocksAssumption == NumBlocks \in Nat \ {0}
ASSUME ProcsAssumption == Irq \notin Threads /\ Nobody \notin Threads
ASSUME EnvAssumption == /\ SMP \in BOOLEAN
                        /\ AbortMayFail \in BOOLEAN
                        /\ MaxStarts \in Nat

VARIABLES
  block,      (* dma->block[i].status                                      *)
  writing,    (* dma->writing_block                                        *)
  reading,    (* dma->reading_block, -1 before the first block is read     *)
  isBlocked,  (* dma->is_blocked                                           *)
  status,     (* dma->status                                               *)
  hookOn,     (* sc->plxirq_dma0_hook # 0                                  *)
  engine,     (* DMA channel 0: is it running, into which block            *)
  irqReq,     (* the "done" interrupt of channel 0 is latched              *)
  irqEn,      (* plxirq_dma0 is enabled in INTCSR                          *)
  gotDma0,    (* got_dma0 in sc->got_irqs                                  *)
  command,    (* handlercomm_ddma in sc->handlercommand.command            *)
  worker,     (* the interrupt thread has taken the ddma command           *)
  pending,    (* ZELLVD_DDMA_IRQ in sc->pending_irqs                       *)
  autoack,    (* ZELLVD_DDMA_IRQ in sc->autoack_mask                       *)
  mux,        (* holder of dma->mux                                        *)
  sem,        (* holder of sc->sem_irqinfo                                 *)
  pc,         (* next step of each thread and of the handler               *)
  arg,        (* the block that step works on                              *)
  starts      (* successful calls of ddma_start so far                     *)

ring == <<block, writing, reading, isBlocked>>
chip == <<engine, irqReq, irqEn>>
note == <<command, worker, pending>>
locks == <<mux, sem>>
vars == <<ring, status, hookOn, chip, gotDma0, note, autoack, locks, pc, arg,
          starts>>

Blocks == 0 .. NumBlocks - 1
Procs == Threads \union {Irq}
BlockStatus == {"Xfree", "Xdma", "Xfull", "Xuser"}
StartSteps == {"start_hook", "start_enable", "start_engine", "start_running"}
StopSteps == {"stop_hook", "stop_abort", "stop_ready"}
RestartSteps == {"arm", "enable", "go"}
HookSteps == {"test", "fill", "block", "inform"}
GetSteps == {"ack_clear", "ack_rearm"}
WaitSteps == {"wait_sleep", "wait_ready"}
Steps == {"idle", "mark"} \union StartSteps \union StopSteps
         \union RestartSteps \union HookSteps \union GetSteps \union WaitSteps

(* next_block: the block after b, the first one after the last (and after  *)
(* -1, "none yet").                                                        *)
Succ(b) == IF b + 1 >= NumBlocks THEN 0 ELSE b + 1

(* On one CPU an interrupt handler runs to its end before any thread       *)
(* continues; threads preempt each other between any two steps.            *)
CanRun == SMP \/ pc[Irq] = "idle"

At(p, here) == pc[p] = here /\ (p # Irq => CanRun)
Goto(p, there) == pc' = [pc EXCEPT ![p] = there]
GotoWith(p, there, b) == Goto(p, there) /\ arg' = [arg EXCEPT ![p] = b]

TypeOK ==
  /\ block \in [Blocks -> BlockStatus]
  /\ writing \in Blocks
  /\ reading \in Blocks \union {-1}
  /\ isBlocked \in BOOLEAN
  /\ status \in {"invalid", "ready", "running"}
  /\ hookOn \in BOOLEAN
  /\ engine \in [on : BOOLEAN, at : Blocks]
  /\ irqReq \in BOOLEAN
  /\ irqEn \in BOOLEAN
  /\ gotDma0 \in BOOLEAN
  /\ command \in BOOLEAN
  /\ worker \in BOOLEAN
  /\ pending \in BOOLEAN
  /\ autoack \in BOOLEAN
  /\ mux \in Threads \union {Nobody}
  /\ sem \in Threads \union {Nobody}
  /\ pc \in [Procs -> Steps]
  /\ pc[Irq] \in {"idle"} \union HookSteps \union RestartSteps
  /\ \A t \in Threads : pc[t] \notin HookSteps
  /\ arg \in [Procs -> Blocks]
  /\ starts \in 0 .. MaxStarts

Init ==
  /\ block = [b \in Blocks |-> "Xfree"]
  /\ writing = 0
  /\ reading = -1
  /\ isBlocked = FALSE
  /\ status = "invalid"
  /\ hookOn = FALSE
  /\ engine = [on |-> FALSE, at |-> 0]
  /\ irqReq = FALSE
  /\ irqEn = FALSE
  /\ gotDma0 = FALSE
  /\ command = FALSE
  /\ worker = FALSE
  /\ pending = FALSE
  /\ autoack \in BOOLEAN
  /\ mux = Nobody
  /\ sem = Nobody
  /\ pc = [p \in Procs |-> "idle"]
  /\ arg = [p \in Procs |-> 0]
  /\ starts = 0

-----------------------------------------------------------------------------
(* The bridge.  A chain of descriptors is transferred to its end; then the *)
(* "done" interrupt is latched.                                            *)
EngineDone ==
  /\ engine.on
  /\ engine' = [engine EXCEPT !.on = FALSE]
  /\ irqReq' = TRUE
  /\ UNCHANGED <<ring, status, hookOn, irqEn, gotDma0, note, autoack, locks,
                 pc, arg, starts>>

-----------------------------------------------------------------------------
(* start_dma(block), called by the hook and by ddma_mark: the status under *)
(* dma->spin, the interrupt, the descriptor and the start bit without it.  *)
After(p) == IF p = Irq THEN "inform" ELSE "idle"

Arm(p) ==
  /\ At(p, "arm")
  /\ block' = [block EXCEPT ![arg[p]] = "Xdma"]
  /\ Goto(p, "enable")
  /\ UNCHANGED <<writing, reading, isBlocked, status, hookOn, chip, gotDma0,
                 note, autoack, locks, arg, starts>>

EnableDmaIrq(p) ==
  /\ At(p, "enable")
  /\ irqReq' = FALSE
  /\ irqEn' = TRUE
  /\ Goto(p, "go")
  /\ UNCHANGED <<ring, status, hookOn, engine, gotDma0, note, autoack, locks,
                 arg, starts>>

Go(p) ==
  /\ At(p, "go")
  /\ engine' = [on |-> TRUE, at |-> arg[p]]
  /\ Goto(p, After(p))
  /\ UNCHANGED <<ring, status, hookOn, irqReq, irqEn, gotDma0, note, autoack,
                 locks, arg, starts>>

-----------------------------------------------------------------------------
(* sis1100_intr, DMA channel 0: disable the interrupt, then call the hook  *)
(* or, without a hook, wake who sleeps on local_wait.                      *)
Intr ==
  /\ pc[Irq] = "idle"
  /\ irqReq /\ irqEn
  /\ irqEn' = FALSE
  /\ Goto(Irq, "test")
  /\ UNCHANGED <<ring, status, hookOn, engine, irqReq, gotDma0, note, autoack,
                 locks, arg, starts>>

IntrDispatch ==
  /\ At(Irq, "test")
  /\ IF hookOn
       THEN Goto(Irq, "fill") /\ UNCHANGED gotDma0
       ELSE Goto(Irq, "idle") /\ gotDma0' = TRUE
  /\ UNCHANGED <<ring, status, hookOn, chip, note, autoack, locks, arg, starts>>

(* plxirq_dma0_hook, first section under dma->spin: the block written is   *)
(* full, the next one becomes the writing block, free or not.              *)
HookFillRegardless ==
  LET next == Succ(writing) IN
  /\ At(Irq, "fill")
  /\ block' = [block EXCEPT ![writing] = "Xfull"]
  /\ writing' = next
  /\ GotoWith(Irq, "arm", next)
  /\ UNCHANGED <<reading, isBlocked, status, hookOn, chip, gotDma0, note,
                 autoack, locks, starts>>

HookFillUnwrapped ==
  LET next == Succ(writing)
      used == (next = writing) \/ block[next] # "Xfree"
  IN
  /\ At(Irq, "fill")
  /\ block' = [block EXCEPT ![writing] = "Xfull"]
  /\ writing' = writing + 1
  /\ GotoWith(Irq, IF used THEN "block" ELSE "arm", next)
  /\ UNCHANGED <<reading, isBlocked, status, hookOn, chip, gotDma0, note,
                 autoack, locks, starts>>

HookFill ==
  LET next == Succ(writing)
      used == (next = writing) \/ block[next] # "Xfree"
  IN
  /\ At(Irq, "fill")
  /\ block' = [block EXCEPT ![writing] = "Xfull"]
  /\ writing' = next
  /\ GotoWith(Irq, IF used THEN "block" ELSE "arm", next)
  /\ UNCHANGED <<reading, isBlocked, status, hookOn, chip, gotDma0, note,
                 autoack, locks, starts>>

(* ... second section, when the next block was in use: the DMA is blocked. *)
HookBlockForgotten ==
  /\ At(Irq, "block")
  /\ Goto(Irq, "inform")
  /\ UNCHANGED <<ring, status, hookOn, chip, gotDma0, note, autoack, locks, arg,
                 starts>>

HookBlock ==
  /\ At(Irq, "block")
  /\ isBlocked' = TRUE
  /\ Goto(Irq, "inform")
  /\ UNCHANGED <<block, writing, reading, status, hookOn, chip, gotDma0, note,
                 autoack, locks, arg, starts>>

(* ... and tells the interrupt thread.                                     *)
HookInform ==
  /\ At(Irq, "inform")
  /\ command' = TRUE
  /\ Goto(Irq, "idle")
  /\ UNCHANGED <<ring, status, hookOn, chip, gotDma0, worker, pending, autoack,
                 locks, arg, starts>>

-----------------------------------------------------------------------------
(* sis1100_irq_thread: take the command word, then, under sem_irqinfo,     *)
(* make the DDMA interrupt pending (which wakes the waiting processes).    *)
WorkerTake ==
  /\ CanRun
  /\ command /\ ~worker
  /\ command' = FALSE
  /\ worker' = TRUE
  /\ UNCHANGED <<ring, status, hookOn, chip, gotDma0, pending, autoack, locks,
                 pc, arg, starts>>

WorkerPend ==
  /\ CanRun
  /\ worker
  /\ sem = Nobody
  /\ worker' = FALSE
  /\ pending' = TRUE
  /\ UNCHANGED <<ring, status, hookOn, chip, gotDma0, command, autoack, locks,
                 pc, arg, starts>>

-----------------------------------------------------------------------------
(* sis1100_ddma_map: (un)mapping drops the old ring and, when the process  *)
(* asks for one and it can be mapped, makes a new one.  All under dma->mux.*)
DdmaMap(t) ==
  /\ At(t, "idle")
  /\ mux = Nobody
  /\ status # "running"
  /\ \/ status' = "ready"
     \/ status' = "invalid" /\ "map" \in Calls
  /\ UNCHANGED <<ring, hookOn, chip, gotDma0, note, autoack, locks, pc, arg,
                 starts>>

(* sis1100_ddma_start, under dma->mux: all blocks free, block 0 the first  *)
(* to be written, ...                                                      *)
DdmaStart(t) ==
  /\ At(t, "idle")
  /\ mux = Nobody
  /\ status = "ready"
  /\ starts < MaxStarts
  /\ mux' = t
  /\ block' = [b \in Blocks |-> IF b = 0 THEN "Xdma" ELSE "Xfree"]
  /\ reading' = -1
  /\ isBlocked' = FALSE
  /\ writing' = 0
  /\ starts' = starts + 1
  /\ Goto(t, "start_hook")
  /\ UNCHANGED <<status, hookOn, chip, gotDma0, note, autoack, sem, arg>>

(* ... an old interrupt cleared and the hook installed, ...                *)
StartHook(t) ==
  /\ At(t, "start_hook")
  /\ irqReq' = FALSE
  /\ hookOn' = TRUE
  /\ Goto(t, "start_enable")
  /\ UNCHANGED <<ring, status, engine, irqEn, gotDma0, note, autoack, locks,
                 arg, starts>>

(* ... its interrupt enabled, ...                                          *)
StartEnable(t) ==
  /\ At(t, "start_enable")
  /\ irqEn' = TRUE
  /\ Goto(t, "start_engine")
  /\ UNCHANGED <<ring, status, hookOn, engine, irqReq, gotDma0, note, autoack,
                 locks, arg, starts>>

(* ... the channel started, ...                                            *)
StartEngine(t) ==
  /\ At(t, "start_engine")
  /\ engine' = [on |-> TRUE, at |-> 0]
  /\ Goto(t, "start_running")
  /\ UNCHANGED <<ring, status, hookOn, irqReq, irqEn, gotDma0, note, autoack,
                 locks, arg, starts>>

(* ... and at last the status.                                             *)
StartRunning(t) ==
  /\ At(t, "start_running")
  /\ status' = "running"
  /\ mux' = Nobody
  /\ Goto(t, "idle")
  /\ UNCHANGED <<ring, hookOn, chip, gotDma0, note, autoack, sem, arg, starts>>

-----------------------------------------------------------------------------
(* sis1100_ddma_stop, under dma->mux: disable the interrupt, ...           *)
DdmaStop(t) ==
  /\ At(t, "idle")
  /\ "stop" \in Calls
  /\ mux = Nobody
  /\ status = "running"
  /\ mux' = t
  /\ irqEn' = FALSE
  /\ Goto(t, "stop_hook")
  /\ UNCHANGED <<ring, status, hookOn, engine, irqReq, gotDma0, note, autoack,
                 sem, arg, starts>>

(* ... remove the hook, ...                                                *)
StopHook(t) ==
  /\ At(t, "stop_hook")
  /\ hookOn' = FALSE
  /\ Goto(t, "stop_abort")
  /\ UNCHANGED <<ring, status, chip, gotDma0, note, autoack, locks, arg,
                 starts>>

(* ... abort a channel that is not done; if it ignores the abort the ioctl *)
(* fails with EIO and everything stays as it is by then, ...               *)
StopAbortSkipped(t) ==
  /\ At(t, "stop_abort")
  /\ Goto(t, "stop_ready")
  /\ UNCHANGED <<ring, status, hookOn, chip, gotDma0, note, autoack, locks, arg,
                 starts>>

StopAbort(t) ==
  /\ At(t, "stop_abort")
  /\ \/ /\ engine' = [engine EXCEPT !.on = FALSE]
        /\ irqReq' = (irqReq \/ engine.on)
        /\ Goto(t, "stop_ready")
        /\ UNCHANGED mux
     \/ /\ engine.on /\ AbortMayFail
        /\ mux' = Nobody
        /\ Goto(t, "idle")
        /\ UNCHANGED <<engine, irqReq>>
  /\ UNCHANGED <<ring, status, hookOn, irqEn, gotDma0, note, autoack, sem, arg,
                 starts>>

(* ... and declare the DMA stopped.                                        *)
StopReady(t) ==
  /\ At(t, "stop_ready")
  /\ status' = "ready"
  /\ mux' = Nobody
  /\ Goto(t, "idle")
  /\ UNCHANGED <<ring, hookOn, chip, gotDma0, note, autoack, sem, arg, starts>>

-----------------------------------------------------------------------------
(* sis1100_ddma_wait, under dma->mux: wait for the end of the transfer     *)
(* unless the channel is done already, ...                                 *)
DdmaWait(t) ==
  /\ At(t, "idle")
  /\ "wait" \in Calls
  /\ mux = Nobody
  /\ status = "running"
  /\ mux' = t
  /\ gotDma0' = FALSE
  /\ Goto(t, IF engine.on THEN "wait_sleep" ELSE "wait_ready")
  /\ UNCHANGED <<ring, status, hookOn, chip, note, autoack, sem, arg, starts>>

(* ... sleeping until got_dma0 or a signal (EINTR), ...                    *)
WaitWake(t) ==
  /\ At(t, "wait_sleep")
  /\ \/ gotDma0 /\ Goto(t, "wait_ready") /\ UNCHANGED mux
     \/ Goto(t, "idle") /\ mux' = Nobody
  /\ UNCHANGED <<ring, status, hookOn, chip, gotDma0, note, autoack, sem, arg,
                 starts>>

(* ... then the interrupt is disabled and the DMA declared stopped.        *)
WaitReady(t) ==
  /\ At(t, "wait_ready")
  /\ irqEn' = FALSE
  /\ status' = "ready"
  /\ mux' = Nobody
  /\ Goto(t, "idle")
  /\ UNCHANGED <<ring, hookOn, engine, irqReq, gotDma0, note, autoack, sem, arg,
                 starts>>

-----------------------------------------------------------------------------
(* sis1100_ddma_mark(b): the status is checked without a lock, ...         *)
DdmaMark(t, b) ==
  /\ At(t, "idle")
  /\ status = "running"
  /\ GotoWith(t, "mark", b)
  /\ UNCHANGED <<ring, status, hookOn, chip, gotDma0, note, autoack, locks,
                 starts>>

(* ... the block freed under dma->spin (EINVAL unless the user has it);    *)
(* if the DMA waits for this very block it is restarted.                   *)
MarkFreeAny(t) ==
  LET b == arg[t] IN
  /\ At(t, "mark")
  /\ IF block[b] # "Xuser"
       THEN Goto(t, "idle") /\ UNCHANGED <<block, isBlocked>>
       ELSE /\ block' = [block EXCEPT ![b] = "Xfree"]
            /\ Goto(t, IF isBlocked THEN "arm" ELSE "idle")
            /\ isBlocked' = FALSE
  /\ UNCHANGED <<writing, reading, status, hookOn, chip, gotDma0, note, autoack,
                 locks, arg, starts>>

MarkFreeNoRestart(t) ==
  LET b == arg[t] IN
  /\ At(t, "mark")
  /\ IF block[b] # "Xuser"
       THEN UNCHANGED block
       ELSE block' = [block EXCEPT ![b] = "Xfree"]
  /\ Goto(t, "idle")
  /\ UNCHANGED <<writing, reading, isBlocked, status, hookOn, chip, gotDma0,
                 note, autoack, locks, arg, starts>>

MarkFree(t) ==
  LET b == arg[t]
      restart == isBlocked /\ b = writing
  IN
  /\ At(t, "mark")
  /\ IF block[b] # "Xuser"
       THEN Goto(t, "idle") /\ UNCHANGED <<block, isBlocked>>
       ELSE /\ block' = [block EXCEPT ![b] = "Xfree"]
            /\ Goto(t, IF restart THEN "arm" ELSE "idle")
            /\ isBlocked' = (isBlocked /\ ~restart)
  /\ UNCHANGED <<writing, reading, status, hookOn, chip, gotDma0, note, autoack,
                 locks, arg, starts>>

-----------------------------------------------------------------------------
(* sis1100_irq_get, zellvd branch, under sem_irqinfo: the block after the  *)
(* last one read is given to the user if it is full (vector -1 otherwise). *)
(* With the autoack bit set _sis1100_irq_ack follows under the same mutex. *)
Deliver ==
  LET next == Succ(reading) IN
  IF status = "running" /\ block[next] = "Xfull"
    THEN /\ block' = [block EXCEPT ![next] = "Xuser"]
         /\ reading' = next
    ELSE UNCHANGED <<block, reading>>

IrqGet(t) ==
  /\ At(t, "idle")
  /\ sem = Nobody
  /\ pending
  /\ Deliver
  /\ IF autoack
       THEN sem' = t /\ Goto(t, "ack_clear")
       ELSE UNCHANGED <<sem, pc>>
  /\ UNCHANGED <<writing, isBlocked, status, hookOn, chip, gotDma0, note,
                 autoack, mux, arg, starts>>

(* sis1100_irq_ack: only a pending interrupt is acknowledged, but the look *)
(* at the ring that may set it pending again follows in any case.          *)
IrqAck(t) ==
  /\ At(t, "idle")
  /\ sem = Nobody
  /\ sem' = t
  /\ Goto(t, "ack_clear")
  /\ UNCHANGED <<ring, status, hookOn, chip, gotDma0, note, autoack, mux, arg,
                 starts>>

(* _sis1100_irq_ack: clear the bit, ...                                    *)
AckClear(t) ==
  /\ At(t, "ack_clear")
  /\ pending' = FALSE
  /\ Goto(t, "ack_rearm")
  /\ UNCHANGED <<ring, status, hookOn, chip, gotDma0, command, worker, autoack,
                 locks, arg, starts>>

(* ... and set it again if a further block is full.                        *)
AckRearmForgotten(t) ==
  /\ At(t, "ack_rearm")
  /\ sem' = Nobody
  /\ Goto(t, "idle")
  /\ UNCHANGED <<ring, status, hookOn, chip, gotDma0, note, autoack, mux, arg,
                 starts>>

AckRearm(t) ==
  /\ At(t, "ack_rearm")
  /\ pending' = (pending \/ (/\ status = "running"
                              /\ block[Succ(reading)] = "Xfull"))
  /\ sem' = Nobody
  /\ Goto(t, "idle")
  /\ UNCHANGED <<ring, status, hookOn, chip, gotDma0, command, worker, autoack,
                 mux, arg, starts>>

-----------------------------------------------------------------------------
Start(t) == \/ DdmaStart(t) \/ StartHook(t) \/ StartEnable(t)
            \/ StartEngine(t) \/ StartRunning(t)
Stop(t) == DdmaStop(t) \/ StopHook(t) \/ StopAbort(t) \/ StopReady(t)
Wait(t) == DdmaWait(t) \/ WaitWake(t) \/ WaitReady(t)
Mark(t) == (\E b \in Blocks : DdmaMark(t, b)) \/ MarkFree(t)
Read(t) == IrqGet(t) \/ IrqAck(t) \/ AckClear(t) \/ AckRearm(t)
Restart(p) == Arm(p) \/ EnableDmaIrq(p) \/ Go(p)

Handler == \/ Intr \/ IntrDispatch \/ HookFill \/ HookBlock \/ HookInform
           \/ Restart(Irq)
Worker == WorkerTake \/ WorkerPend
Thread(t) == \/ DdmaMap(t) \/ Start(t) \/ Stop(t) \/ Wait(t) \/ Mark(t)
             \/ Read(t) \/ Restart(t)

Next == EngineDone \/ Handler \/ Worker \/ \E t \in Threads : Thread(t)

Spec == Init /\ [][Next]_vars

(* The scheduler runs every handler, thread and system call that can run;  *)
(* data keep arriving; and the process keeps asking for blocks and gives   *)
(* back the ones it has.                                                   *)
FairSpec ==
  /\ Spec
  /\ WF_vars(EngineDone) /\ WF_vars(Handler) /\ WF_vars(Worker)
  /\ \A t \in Threads :
       /\ WF_vars(\/ StartHook(t) \/ StartEnable(t) \/ StartEngine(t)
                  \/ StartRunning(t) \/ StopHook(t) \/ StopAbort(t)
                  \/ StopReady(t) \/ WaitReady(t) \/ MarkFree(t)
                  \/ AckClear(t) \/ AckRearm(t) \/ Restart(t))
       /\ SF_vars(IrqGet(t))
       /\ \A b \in Blocks : SF_vars(block[b] = "Xuser" /\ DdmaMark(t, b))

-----------------------------------------------------------------------------
(* While the DMA runs the bridge writes only into the one block that is    *)
(* reserved for it, which is the block the interrupt handler will declare  *)
(* full next: never into a block the user reads or has not yet read.       *)
(* Hook, mark and start aim the bridge from three different contexts.      *)
EngineInTarget ==
  status = "running" =>
    /\ engine.on => engine.at = writing /\ block[writing] = "Xdma"
    /\ \A b \in Blocks : block[b] = "Xdma" => b = writing

(* The blocks from the one after the last block read up to the one before  *)
(* the writing block, around the ring.  Both ends equal: none or all.      *)
Unread(b) ==
  LET first == Succ(reading) IN
  CASE first < writing -> first <= b /\ b < writing
    [] first > writing -> first <= b \/ b < writing
    [] OTHER -> block[writing] = "Xfull"

(* The full blocks are exactly the unread ones: reading the ring forward   *)
(* from reading_block, the user meets every block that was filled, in the  *)
(* order in which they were filled, and no other.                          *)
RingInOrder ==
  status = "running" => \A b \in Blocks : block[b] = "Xfull" <=> Unread(b)

(* A full block at the head of the ring is announced: its interrupt is     *)
(* pending, or is on its way through the hook, the command word and the    *)
(* interrupt thread, or the acknowledgement that clears it will look again.*)
Announced ==
  (status = "running" /\ block[Succ(reading)] = "Xfull") =>
    \/ pending \/ command \/ worker
    \/ pc[Irq] \in {"block", "arm", "enable", "go", "inform"}
    \/ \E t \in Threads : pc[t] = "ack_rearm"

(* The bridge stands still only because the DMA is declared blocked or     *)
(* because somebody is about to start it: no interrupt is lost.            *)
NoSilentStop ==
  (status = "running" /\ hookOn /\ mux = Nobody /\ ~engine.on) =>
    \/ isBlocked
    \/ irqReq /\ irqEn
    \/ pc[Irq] \in {"test", "fill", "block"} \union RestartSteps
    \/ \E t \in Threads : pc[t] \in RestartSteps

(* is_blocked says what its comment says, "all buffers are full, DMA is    *)
(* stopped": the block the DMA waits for is not free.                      *)
BlockedMeansFull ==
  (status = "running" /\ isBlocked) =>
    block[writing] \in {"Xfull", "Xuser"} /\ ~engine.on

(* A DMA that is not running (and not being started) does not write into   *)
(* the buffers: ddma_map may unmap them and free the ring.                 *)
StoppedMeansIdle ==
  (status # "running" /\ \A t \in Threads : pc[t] \notin StartSteps) =>
    ~engine.on

(* A full block reaches the user, unless the DMA is stopped first.         *)
FullBlocksAreRead ==
  \A b \in Blocks :
    (status = "running" /\ block[b] = "Xfull") ~>
      (block[b] = "Xuser" \/ status # "running")

(* A blocked DMA goes on after the user has given the block back.          *)
BlockedDmaRestarts ==
  (status = "running" /\ isBlocked) ~> (engine.on \/ status # "running")

(* The ring implements the queue of filled blocks: n full blocks are the n *)
(* blocks after the last one read.                                         *)
FullBlocks == {b \in Blocks : block[b] = "Xfull"}

Target == IF block[writing] = "Xdma" THEN writing ELSE -1
Filled == [i \in 1 .. Cardinality(FullBlocks) |-> (reading + i) % NumBlocks]
Held == {b \in Blocks : block[b] = "Xuser"}

Queue == INSTANCE BlockQueue WITH
  First <- 0, None <- -1, target <- Target, queue <- Filled, held <- Held

(* DMA, interrupt handler and ioctls together deliver every filled block   *)
(* once, in the order of filling, and aim the bridge only at free blocks.  *)
QueueSpec == Queue!Spec
=============================================================================

----------------------------- MODULE Transfers -----------------------------
(***************************************************************************)
(* How read(2), write(2) and pipes move data over the link and learn that  *)
(* it has been moved.  A process holds sem_hw while it sets up a transfer, *)
(* clears the events of the last one, enables its interrupts, starts the   *)
(* hardware and sleeps; the interrupt handler collects events in got_irqs  *)
(* and wakes it.  Loops do not sleep but poll p_balance.                   *)
(*                                                                         *)
(* Sources: sis1100_read_dma_linux.c, sis1100_write_dma_linux.c,           *)
(* sis1100_pipe_linux.c, sis1100_write_loop.c, sis1100_tmp_read.c, the     *)
(* choice between them in sis1100_read_block.c and sis1100_write_block.c,  *)
(* the part of sis1100_irq.c that sets got_irqs.  There is no demand DMA   *)
(* (see DemandDma); what the driver does after a change of the link is     *)
(* shortened (see LinkState).                                              *)
(***************************************************************************)
EXTENDS Integers

CONSTANTS
  Users,      (* processes                                                 *)
  Nobody,     (* a mutex nobody holds                                      *)
  FifoLen,    (* requests of a loop that fit into the send FIFO            *)
  PipeLen,    (* BOUND: requests of a pipe                                 *)
  MaxLosses,  (* BOUND: losses of the link                                 *)
  MaxLeft,    (* BOUND: requests without answer when a pipe begins         *)
  SMP         (* processes go on while an interrupt is pending or handled  *)

ASSUME UsersAssumption == Nobody \notin Users
ASSUME LenAssumption == FifoLen \in Nat \ {0} /\ PipeLen \in Nat \ {0}
                        /\ MaxLosses \in Nat /\ MaxLeft \in Nat
ASSUME SMPAssumption == SMP \in BOOLEAN

VARIABLES
  link,       (* the link is up, ...                                       *)
  losses,     (* ... after so many losses                                  *)
  sr, cr,     (* irqs latched in sr, enabled in cr (the card's inputs and  *)
              (* mailbox, "other", always are)                             *)
  busy,       (* DMA channel 0 is running, ...                             *)
  done,       (* ... its interrupt is latched, ...                         *)
  dmaEn,      (* ... and enabled (plxirq_dma0)                             *)
  req,        (* the DMA transfer that the protocol engine works on        *)
  out,        (* p_balance, requests without answer, ...                   *)
  stuck,      (* ... which will not come                                   *)
  late,       (* a killed write was not confirmed: that may come any time  *)
  got,        (* sc->got_irqs                                              *)
  handler,    (* step of the interrupt handler, ...                        *)
  csr, seen,  (* ... what it has read: of INTCSR, and the status           *)
  known,      (* sc->remote_hw # sis1100_hw_invalid                        *)
  timer,      (* link_up_timer is pending                                  *)
  init,       (* the interrupt thread waits for sem_hw in init_remote      *)
  hw,         (* holder of sc->sem_hw                                      *)
  pc,         (* next step of each process                                 *)
  cc,         (* the variable of write_loop, up to FifoLen                 *)
  left,       (* p_balance when the loop began                             *)
  killed      (* the sleep was ended by a signal                           *)

far == <<link, losses, late>>
chip == <<sr, cr>>
channel == <<busy, done, dmaEn, req>>
balance == <<out, stuck>>
intr == <<handler, csr, seen>>
news == <<known, timer, init>>
locals == <<cc, left, killed>>
vars == <<far, chip, channel, balance, got, intr, news, hw, pc, locals>>

Bits == {"sync", "l_err", "end", "other"}
ReadSteps == {"r_check", "r_go", "r_enable", "r_start", "r_wait", "r_end"}
WriteSteps == {"w_check", "w_enable", "w_clear", "w_start", "w_wait", "w_end"}
PipeSteps == {"p_send", "p_clear", "p_enable", "p_wait", "p_sleep", "p_end"}
LoopSteps == {"l_begin", "l_send", "l_fifo", "l_drain"}
Inside == ReadSteps \union WriteSteps \union PipeSteps \union LoopSteps
LockSteps == {"r_lock", "w_lock", "p_lock", "l_lock"}

Flags ==
  /\ link \in BOOLEAN /\ busy \in BOOLEAN /\ done \in BOOLEAN
  /\ dmaEn \in BOOLEAN /\ stuck \in BOOLEAN /\ late \in BOOLEAN
  /\ known \in BOOLEAN /\ timer \in BOOLEAN /\ init \in BOOLEAN
  /\ killed \in BOOLEAN

Data ==
  /\ losses \in 0 .. MaxLosses
  /\ sr \subseteq Bits /\ cr \subseteq Bits
  /\ req \in {"none", "read", "write", "drained", "lost"}
  /\ out \in Nat /\ cc \in 0 .. FifoLen /\ left \in Nat
  /\ got \subseteq {"dma0", "sync", "l_err", "end"}
  /\ handler \in {"idle", "dma", "take", "status", "change", "store", "clear"}
  /\ csr \subseteq {"dma0", "local"} /\ seen \subseteq Bits \union {"up"}

(* One process at most is inside, and it holds sem_hw.                     *)
Holder ==
  /\ hw \in Users \union {Nobody}
  /\ pc \in [Users -> {"idle"} \union LockSteps \union Inside]
  /\ \A u \in Users : pc[u] \in Inside <=> hw = u

(* Variables have their types, and every path out of a transfer gives      *)
(* sem_hw back.                                                            *)
TypeOK == Flags /\ Data /\ Holder

Init ==
  /\ link = TRUE /\ losses = 0
  /\ sr = {} /\ cr = {"sync", "other"}
  /\ busy = FALSE /\ done = FALSE /\ dmaEn = FALSE /\ req = "none"
  /\ out = 0 /\ stuck = FALSE /\ late = FALSE
  /\ got = {}
  /\ handler = "idle" /\ csr = {} /\ seen = {}
  /\ known = TRUE /\ timer = FALSE /\ init = FALSE
  /\ hw = Nobody
  /\ pc = [u \in Users |-> "idle"]
  /\ cc = 0 /\ left = 0 /\ killed = FALSE

-----------------------------------------------------------------------------
(* The hardware.  Every latch, answer and end of DMA is a step of its own. *)
OtherEvent ==
  /\ sr' = sr \union {"other"}
  /\ UNCHANGED <<far, cr, channel, balance, got, intr, news, hw, pc, locals>>

(* Data of a read arrive to the last word (or to the error confirmation    *)
(* of the remote side): the channel is done.                               *)
ReadDone ==
  /\ req = "read"
  /\ req' = "none" /\ busy' = FALSE /\ done' = TRUE
  /\ UNCHANGED <<far, chip, dmaEn, balance, got, intr, news, hw, pc, locals>>

(* The data of a write have left the channel; then they are confirmed, if  *)
(* anybody is there any more that waits for it.                            *)
Awaited == hw # Nobody /\ pc[hw] \in {"w_wait", "w_end"}

WriteDrained ==
  /\ req = "write"
  /\ req' = IF Awaited THEN "drained" ELSE "none"
  /\ late' = (late \/ ~Awaited)
  /\ busy' = FALSE /\ done' = TRUE
  /\ UNCHANGED <<link, losses, chip, dmaEn, balance, got, intr, news, hw, pc,
                 locals>>

WriteConfirmed ==
  /\ req = "drained"
  /\ req' = "none" /\ sr' = sr \union {"end"}
  /\ UNCHANGED <<far, cr, busy, done, dmaEn, balance, got, intr, news, hw, pc,
                 locals>>

(* The confirmation of a write whose process was killed meanwhile.         *)
LateConfirmed ==
  /\ late
  /\ sr' = sr \union {"end"}
  /\ UNCHANGED <<far, cr, channel, balance, got, intr, news, hw, pc, locals>>

(* The protocol engine gives up (irq_prot_l_err).                          *)
Fails ==
  /\ req \in {"read", "write", "drained"}
  /\ req' = "none" /\ sr' = sr \union {"l_err"}
  /\ UNCHANGED <<far, cr, busy, done, dmaEn, balance, got, intr, news, hw, pc,
                 locals>>

(* A request is answered, the last one of those sent ends the protocol.    *)
Answer ==
  /\ link /\ ~stuck /\ out > 0
  /\ out' = out - 1
  /\ sr' = IF out = 1 THEN sr \union {"end"} ELSE sr
  /\ UNCHANGED <<far, cr, channel, stuck, got, intr, news, hw, pc, locals>>

(* The link is lost, with what was under way, and comes back.              *)
LinkDown ==
  /\ link /\ losses < MaxLosses
  /\ link' = FALSE /\ losses' = losses + 1
  /\ sr' = sr \union {"sync"}
  /\ req' = IF req = "none" THEN "none" ELSE "lost"
  /\ stuck' = (stuck \/ out > 0)
  /\ UNCHANGED <<late, cr, busy, done, dmaEn, out, got, intr, news, hw, pc,
                 locals>>

LinkUp ==
  /\ ~link
  /\ link' = TRUE /\ sr' = sr \union {"sync"}
  /\ UNCHANGED <<losses, late, cr, channel, balance, got, intr, news, hw, pc,
                 locals>>

-----------------------------------------------------------------------------
(* sis1100_intr reads INTCSR once: is DMA channel 0 active, and is a local *)
(* interrupt?                                                              *)
DmaActive == done /\ dmaEn
LocalActive == sr \intersect cr # {}

IntrEnter ==
  /\ handler = "idle"
  /\ DmaActive \/ LocalActive
  /\ csr' = (IF DmaActive THEN {"dma0"} ELSE {})
            \union (IF LocalActive THEN {"local"} ELSE {})
  /\ handler' = IF DmaActive THEN "dma" ELSE "status"
  /\ UNCHANGED <<far, chip, channel, balance, got, seen, news, hw, pc, locals>>

(* wakeup(&sc->local_wait): a pipe looks at p_balance again; who waits for *)
(* an event in got_irqs needs no step to be woken.                         *)
Events == seen \intersect {"sync", "l_err", "end"}

Return ==
  /\ handler' = "idle" /\ csr' = {} /\ seen' = {}
  /\ pc' = [u \in Users |->
              IF pc[u] = "p_sleep" /\ ("dma0" \in csr \/ Events # {})
                THEN "p_wait" ELSE pc[u]]

(* The interrupt of the channel is disabled, then got_dma0 set.            *)
IntrDma ==
  /\ handler = "dma"
  /\ dmaEn' = FALSE
  /\ handler' = "take"
  /\ UNCHANGED <<far, chip, busy, done, req, balance, got, csr, seen, news, hw,
                 pc, locals>>

IntrTake ==
  /\ handler = "take"
  /\ got' = got \union {"dma0"}
  /\ IF "local" \in csr
       THEN handler' = "status" /\ UNCHANGED <<csr, seen, pc>>
       ELSE Return
  /\ UNCHANGED <<far, chip, channel, balance, news, hw, locals>>

(* Of the local interrupts all is read that is latched, enabled or not; a  *)
(* change of the link disables three of them ...                           *)
IntrStatus ==
  /\ handler = "status"
  /\ seen' = sr \union (IF link THEN {"up"} ELSE {})
  /\ handler' = IF "sync" \in sr THEN "change" ELSE "store"
  /\ UNCHANGED <<far, chip, channel, balance, got, csr, news, hw, pc, locals>>

IntrChange ==
  /\ handler = "change"
  /\ cr' = cr \ {"sync", "l_err", "end"}
  /\ handler' = "store"
  /\ UNCHANGED <<far, sr, channel, balance, got, csr, seen, news, hw, pc,
                 locals>>

(* ... and sets the timer; the events are set in got_irqs; ...             *)
IntrStore ==
  /\ handler = "store"
  /\ got' = got \union Events
  /\ known' = (known /\ ("sync" \in seen => "up" \in seen))
  /\ timer' = (timer \/ "sync" \in seen)
  /\ handler' = "clear"
  /\ UNCHANGED <<far, chip, channel, balance, csr, seen, init, hw, pc, locals>>

(* ... the status that was read is cleared; then sleepers are woken.       *)
IntrClear ==
  /\ handler = "clear"
  /\ sr' = sr \ seen
  /\ Return
  /\ UNCHANGED <<far, cr, channel, balance, got, news, hw, locals>>

(* On one CPU an interrupt is taken before any process goes on.            *)
CanRun == SMP \/ (handler = "idle" /\ ~DmaActive /\ ~LocalActive)

-----------------------------------------------------------------------------
(* The interrupt thread, a second after a change: sis1100_synch_handler    *)
(* enables the interrupts again; if the link is up, init_remote follows,   *)
(* which needs sem_hw and empties the FIFO.                                *)
Clear(bits) == sr' = sr \ bits
ClearAndEnable(bits) == Clear(bits) /\ cr' = cr \union bits

SynchHandler ==
  /\ CanRun
  /\ timer /\ ~init
  /\ timer' = FALSE
  /\ ClearAndEnable({"sync", "l_err"})
  /\ init' = link
  /\ UNCHANGED <<far, channel, balance, got, intr, known, hw, pc, locals>>

InitRemote ==
  /\ CanRun
  /\ init /\ hw = Nobody
  /\ init' = FALSE
  /\ known' = (known \/ link)
  /\ out' = 0 /\ stuck' = FALSE
  /\ UNCHANGED <<far, chip, channel, got, intr, timer, hw, pc, locals>>

-----------------------------------------------------------------------------
(* A process: the test of remote_hw, sem_hw, and one word at once.         *)
At(u, here) == pc[u] = here /\ CanRun
Goto(u, there) == pc' = [pc EXCEPT ![u] = there]

Leave(u) ==
  /\ hw' = Nobody
  /\ Goto(u, "idle")
  /\ cc' = 0 /\ left' = 0 /\ killed' = FALSE

Stay == UNCHANGED <<hw, locals>>

Test(u) ==
  /\ At(u, "idle")
  /\ known
  /\ \E l \in LockSteps : Goto(u, l)
  /\ UNCHANGED <<far, chip, channel, balance, got, intr, news, hw, locals>>

Lock(u) ==
  /\ hw = Nobody /\ hw' = u
  /\ \/ At(u, "r_lock") /\ Goto(u, "r_check")
     \/ At(u, "w_lock") /\ Goto(u, "w_check")
     \/ At(u, "p_lock") /\ out <= MaxLeft /\ Goto(u, "p_send")
     \/ At(u, "l_lock") /\ Goto(u, "l_begin")
  /\ UNCHANGED <<far, chip, channel, balance, got, intr, news, locals>>

(* sis1100_tmp_read and the like: one request, whose answer is waited for  *)
(* by polling; its interrupts are latched though nobody wants them.        *)
Word(u) ==
  /\ At(u, "idle")
  /\ known /\ hw = Nobody
  /\ \E bits \in SUBSET {"end", "l_err"} : sr' = sr \union bits
  /\ UNCHANGED <<far, cr, channel, balance, got, intr, news, hw, pc, locals>>

-----------------------------------------------------------------------------
(* _sis1100_read_dma: the channel must be idle; it is armed, ...           *)
ReadCheck(u) ==
  /\ At(u, "r_check")
  /\ IF busy THEN Leave(u) /\ UNCHANGED <<done, balance>>
     ELSE /\ done' = FALSE /\ out' = 0 /\ stuck' = FALSE
          /\ Goto(u, "r_go") /\ Stay
  /\ UNCHANGED <<far, chip, busy, dmaEn, req, got, intr, news>>

(* ... enabled, and got_irqs cleared, ...                                  *)
ReadGo(u) ==
  /\ At(u, "r_go")
  /\ busy' = TRUE /\ got' = {}
  /\ Goto(u, "r_enable")
  /\ UNCHANGED <<far, chip, done, dmaEn, req, balance, intr, news, hw, locals>>

(* ... then the interrupts cleared and enabled ...                         *)
ReadEnable(u) ==
  /\ At(u, "r_enable")
  /\ dmaEn' = TRUE
  /\ ClearAndEnable({"sync", "l_err"})
  /\ Goto(u, "r_start")
  /\ UNCHANGED <<far, busy, done, req, balance, got, intr, news, hw, locals>>

ReadStartClears(u) ==
  /\ At(u, "r_start")
  /\ got' = {}
  /\ req' = IF link THEN "read" ELSE "none"
  /\ sr' = IF link THEN sr ELSE sr \union {"l_err"}
  /\ Goto(u, "r_wait")
  /\ UNCHANGED <<far, cr, busy, done, dmaEn, balance, intr, news, hw, locals>>

(* ... and the request sent; without a link it fails at once.              *)
ReadStart(u) ==
  /\ At(u, "r_start")
  /\ req' = IF link THEN "read" ELSE "none"
  /\ sr' = IF link THEN sr ELSE sr \union {"l_err"}
  /\ Goto(u, "r_wait")
  /\ UNCHANGED <<far, cr, busy, done, dmaEn, balance, got, intr, news, hw,
                 locals>>

(* It sleeps for the end, an error, loss of the link, or SIGKILL; ...      *)
ReadWake(u) ==
  /\ At(u, "r_wait")
  /\ killed' \in BOOLEAN
  /\ killed' \/ got \intersect {"dma0", "sync", "l_err"} # {}
  /\ dmaEn' = FALSE
  /\ cr' = cr \ {"l_err"}
  /\ Goto(u, "r_end")
  /\ UNCHANGED <<far, sr, busy, done, req, balance, got, intr, news, hw, cc,
                 left>>

(* ... unless the DMA has ended it is aborted (which succeeds).  The next  *)
(* chunk follows if this one was complete and prot_error is 0.             *)
ReadEndLeavesDma(u) ==
  /\ At(u, "r_end")
  /\ \/ Leave(u)
     \/ /\ ~killed /\ got \intersect {"dma0", "l_err"} # {}
        /\ Goto(u, "r_check") /\ Stay
  /\ UNCHANGED <<far, chip, channel, balance, got, intr, news>>

ReadEnd(u) ==
  /\ At(u, "r_end")
  /\ IF "dma0" \in got THEN UNCHANGED <<busy, req>>
     ELSE busy' = FALSE /\ req' = "none"
  /\ \/ Leave(u)
     \/ /\ ~killed /\ got \intersect {"dma0", "l_err"} # {}
        /\ Goto(u, "r_check") /\ Stay
  /\ UNCHANGED <<far, chip, done, dmaEn, balance, got, intr, news>>

-----------------------------------------------------------------------------
(* _sis1100_write_dma: a channel that still runs is killed, if it can be;  *)
(* the data are copied; ...                                                *)
WriteCheck(u) ==
  /\ At(u, "w_check")
  /\ \/ /\ busy
        /\ Leave(u)
        /\ UNCHANGED <<busy, done, req, balance>>
     \/ /\ busy' = FALSE /\ req' = IF busy THEN "none" ELSE req
        /\ done' = FALSE /\ out' = 0 /\ stuck' = FALSE
        /\ Goto(u, "w_enable") /\ Stay
  /\ UNCHANGED <<far, chip, dmaEn, got, intr, news>>

(* ... the interrupts are cleared and enabled, ...                         *)
WriteEnable(u) ==
  /\ At(u, "w_enable")
  /\ ClearAndEnable({"sync", "l_err", "end"})
  /\ Goto(u, "w_clear")
  /\ UNCHANGED <<far, channel, balance, got, intr, news, hw, locals>>

(* ... then got_irqs cleared ...                                           *)
WriteClearForgotten(u) ==
  /\ At(u, "w_clear")
  /\ Goto(u, "w_start")
  /\ UNCHANGED <<far, chip, channel, balance, got, intr, news, hw, locals>>

WriteClear(u) ==
  /\ At(u, "w_clear")
  /\ got' = {}
  /\ Goto(u, "w_start")
  /\ UNCHANGED <<far, chip, channel, balance, intr, news, hw, locals>>

(* ... and the channel started.                                            *)
WriteStart(u) ==
  /\ At(u, "w_start")
  /\ busy' = TRUE
  /\ req' = IF link THEN "write" ELSE "none"
  /\ sr' = IF link THEN sr ELSE sr \union {"l_err"}
  /\ Goto(u, "w_wait")
  /\ UNCHANGED <<far, cr, done, dmaEn, balance, got, intr, news, hw, locals>>

(* It sleeps for the confirmation, an error, loss of the link, or SIGKILL. *)
WriteWake(u) ==
  /\ At(u, "w_wait")
  /\ killed' \in BOOLEAN
  /\ killed' \/ got \intersect {"end", "sync", "l_err"} # {}
  /\ cr' = cr \ {"end"}
  /\ Goto(u, "w_end")
  /\ UNCHANGED <<far, sr, channel, balance, got, intr, news, hw, cc, left>>

(* A channel that still runs is an error (and is left running), and what   *)
(* was not confirmed yet is no longer waited for.                          *)
WriteEnd(u) ==
  /\ At(u, "w_end")
  /\ late' = (late \/ req = "drained")
  /\ req' = IF req = "drained" THEN "none" ELSE req
  /\ \/ Leave(u)
     \/ /\ ~killed /\ "sync" \notin got /\ ~busy
        /\ Goto(u, "w_check") /\ Stay
  /\ UNCHANGED <<link, losses, chip, busy, done, dmaEn, balance, got, intr, news>>

-----------------------------------------------------------------------------
(* sis1100_read_pipe and sis1100_read_pipe_seq: the requests are sent, ... *)
PipeSend(u) ==
  /\ At(u, "p_send")
  /\ \E n \in 1 .. PipeLen : out' = IF link THEN out + n ELSE out
  /\ cr' = cr \ {"end"}
  /\ sr' = IF link THEN sr ELSE sr \union {"l_err"}
  /\ Goto(u, "p_clear")
  /\ UNCHANGED <<far, channel, stuck, got, intr, news, hw, locals>>

(* ... got_irqs cleared, ...                                               *)
PipeClear(u) ==
  /\ At(u, "p_clear")
  /\ got' = {}
  /\ Goto(u, "p_enable")
  /\ UNCHANGED <<far, chip, channel, balance, intr, news, hw, locals>>

(* ... the end of the protocol cleared and enabled; ...                    *)
PipeEnable(u) ==
  /\ At(u, "p_enable")
  /\ ClearAndEnable({"end"})
  /\ Goto(u, "p_wait")
  /\ UNCHANGED <<far, channel, balance, got, intr, news, hw, locals>>

(* ... the process sleeps until p_balance is 0, or for a signal.           *)
PipeWaitBlind(u) ==
  /\ At(u, "p_wait")
  /\ Goto(u, "p_sleep")
  /\ UNCHANGED <<far, chip, channel, balance, got, intr, news, hw, locals>>

PipeWait(u) ==
  /\ At(u, "p_wait")
  /\ Goto(u, IF out = 0 THEN "p_end" ELSE "p_sleep")
  /\ UNCHANGED <<far, chip, channel, balance, got, intr, news, hw, locals>>

PipeSignal(u) ==
  /\ At(u, "p_sleep")
  /\ killed' = TRUE
  /\ Goto(u, "p_end")
  /\ UNCHANGED <<far, chip, channel, balance, got, intr, news, hw, cc, left>>

PipeEndHolds(u) ==
  /\ At(u, "p_end")
  /\ cr' = cr \ {"end"}
  /\ Goto(u, "idle")
  /\ UNCHANGED <<far, sr, channel, balance, got, intr, news, hw, locals>>

PipeEnd(u) ==
  /\ At(u, "p_end")
  /\ cr' = cr \ {"end"}
  /\ Leave(u)
  /\ UNCHANGED <<far, sr, channel, balance, got, intr, news>>

-----------------------------------------------------------------------------
(* sis1100_write_loop: word after word is sent, counted in cc, ...         *)
LoopBegin(u) ==
  /\ At(u, "l_begin")
  /\ Clear({"l_err"})
  /\ cc' = 0 /\ left' = out
  /\ Goto(u, "l_send")
  /\ UNCHANGED <<far, cr, channel, balance, got, intr, news, hw, killed>>

NextWord(u) == \E there \in {"l_send", "l_drain"} : Goto(u, there)

LoopSend(u) ==
  /\ At(u, "l_send")
  /\ out' = IF link THEN out + 1 ELSE out
  /\ sr' = IF link THEN sr ELSE sr \union {"l_err"}
  /\ cc' = IF cc < FifoLen THEN cc + 1 ELSE cc
  /\ IF cc + 1 >= FifoLen THEN Goto(u, "l_fifo") ELSE NextWord(u)
  /\ UNCHANGED <<far, cr, channel, stuck, got, intr, news, hw, left, killed>>

(* ... wait_for_fifo: with irq_prot_end latched prot_error is read, which  *)
(* blocks until p_balance is 0 or there is an error; otherwise p_balance   *)
(* is, until the FIFO has room.                                            *)
LoopFifoBlind(u) ==
  /\ At(u, "l_fifo")
  /\ cc' = 0
  /\ NextWord(u)
  /\ UNCHANGED <<far, chip, channel, balance, got, intr, news, hw, left,
                 killed>>

LoopFifo(u) ==
  /\ At(u, "l_fifo")
  /\ IF "end" \in sr
       THEN /\ UNCHANGED cc
            /\ (out = 0 /\ NextWord(u)) \/ Goto(u, "l_drain")
       ELSE /\ cc' = IF out < FifoLen THEN out ELSE FifoLen
            /\ IF out < FifoLen THEN NextWord(u) ELSE UNCHANGED pc
  /\ UNCHANGED <<far, chip, channel, balance, got, intr, news, hw, left,
                 killed>>

(* At the end prot_error is read until p_balance is 0; a timeout clears it.*)
LoopDrain(u) ==
  /\ At(u, "l_drain")
  /\ out = 0 \/ stuck
  /\ out' = 0 /\ stuck' = FALSE
  /\ Leave(u)
  /\ UNCHANGED <<far, chip, channel, got, intr, news>>

-----------------------------------------------------------------------------
Hardware == \/ OtherEvent \/ ReadDone \/ WriteDrained \/ WriteConfirmed
            \/ LateConfirmed \/ Fails \/ Answer \/ LinkDown \/ LinkUp

Handler == \/ IntrEnter \/ IntrDma \/ IntrTake \/ IntrStatus \/ IntrChange
           \/ IntrStore \/ IntrClear

Thread == SynchHandler \/ InitRemote

Read(u) == \/ ReadCheck(u) \/ ReadGo(u) \/ ReadEnable(u) \/ ReadStart(u)
           \/ ReadWake(u) \/ ReadEnd(u)

Write(u) == \/ WriteCheck(u) \/ WriteEnable(u) \/ WriteClear(u)
            \/ WriteStart(u) \/ WriteWake(u) \/ WriteEnd(u)

Pipe(u) == \/ PipeSend(u) \/ PipeClear(u) \/ PipeEnable(u) \/ PipeWait(u)
           \/ PipeSignal(u) \/ PipeEnd(u)

Loop(u) == LoopBegin(u) \/ LoopSend(u) \/ LoopFifo(u) \/ LoopDrain(u)

User(u) == Test(u) \/ Lock(u) \/ Word(u) \/ Read(u) \/ Write(u) \/ Pipe(u)
           \/ Loop(u)

Next == Hardware \/ Handler \/ Thread \/ \E u \in Users : User(u)

Spec == Init /\ [][Next]_vars

(* The hardware ends what it has begun, interrupts are handled and leave   *)
(* time for processes, and a process inside a transfer goes on.  No signal *)
(* comes to its help.  (What leaves pc and cc alone here leaves all alone.) *)
FairSpec ==
  /\ Spec
  /\ WF_req(ReadDone \/ WriteDrained \/ WriteConfirmed \/ Fails)
  /\ WF_out(Answer)
  /\ WF_handler(Handler)
  /\ []<>CanRun
  /\ \A u \in Users :
       SF_<<pc, cc>>(/\ killed' = killed
                     /\ Read(u) \/ Write(u) \/ Pipe(u) \/ Loop(u))

-----------------------------------------------------------------------------
(* A read that is over leaves nothing behind that writes into dmaspace,    *)
(* the buffer that all reads and writes share: ended, failed, cut off by   *)
(* the loss of the link, or killed.  This needs SMP = FALSE: a handler on  *)
(* another CPU may set got_dma0 of a killed read after the next read has   *)
(* cleared got_irqs, which then is not aborted when it is killed too.      *)
NoLateData ==
  req = "read" => hw # Nobody /\ pc[hw] \in {"r_wait", "r_end"}

(* "wait for confirmation": a write that is reported as done has been      *)
(* confirmed by the remote side; no event left over from earlier transfers *)
(* is taken for it, but for the late one of a killed write.  This, too,    *)
(* needs SMP = FALSE.                                                      *)
WriteIsConfirmed ==
  \A u \in Users :
    (pc[u] = "w_end" /\ "end" \in got /\ ~late) => req = "none"

(* A loop never has more requests on the way than the send FIFO takes,     *)
(* besides those that were there when it began.                            *)
FifoSuffices ==
  \A u \in Users : pc[u] \in LoopSteps \ {"l_begin"} => out <= FifoLen + left

(* A read ends, by its data, by an error, or since the link was lost,      *)
(* whenever that happens.                                                  *)
ReadEnds == \A u \in Users : []<>(pc[u] # "r_wait")

(* As long as the link is never lost, every transfer ends.                 *)
Sleeping == {"r_wait", "w_wait", "p_sleep", "l_fifo", "l_drain"}

TransferEnds ==
  \A u \in Users : []<>(pc[u] \notin Sleeping \/ losses > 0)
=============================================================================

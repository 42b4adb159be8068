---------------------------- MODULE IrqDelivery ----------------------------
(***************************************************************************)
(* Interrupts from a VME crate and from the front panel to user processes. *)
(*                                                                         *)
(* A level of the VME bus (or a latched front panel input of the crate)    *)
(* that is enabled in the remote controller rings the doorbell of the PLX  *)
(* chip.  The handler collects the doorbell bits and wakes the interrupt   *)
(* thread, which blocks the level in the controller, fetches the vector    *)
(* from the bus, makes the interrupt pending, sends signals and wakes the  *)
(* waiting processes.  A process that owns the interrupt fetches it        *)
(* (irq_get) and acknowledges it, which enables the level again.  The PCI  *)
(* card has inputs of its own (lemo) and a mailbox, which are reported by  *)
(* its local status register instead of the doorbell.                      *)
(*                                                                         *)
(* Sources: sis1100_irq_handler.c, sis1100_irq_thread.c, sis3100rem_irq.c, *)
(* sis1100_open.c, the doorbell and local parts of sis1100_irq.c,          *)
(* sis1100_lemo_handler.c, sis1100_mbx0_handler.c.  The remote side is an  *)
(* SIS3100 for the whole run (see LinkState for a link that is lost).      *)
(*                                                                         *)
(* An interrupt is its bit number in the masks of the driver; a register   *)
(* or a mask is the set of its bits.  sem_irqinfo and sem_hw are held by   *)
(* the system calls for one action at a time; the thread holds sem_irqinfo *)
(* from "block" to "pend".                                                 *)
(***************************************************************************)
EXTENDS Integers, FiniteSets

CONSTANTS
  Irqs,         (* the interrupts of this crate and card                   *)
  Masks,        (* the sets of them that processes ask for, ...            *)
  AutoMasks,    (* ... to be acknowledged by irq_get, ...                  *)
  Signals,      (* ... with a signal or without (a subset of BOOLEAN)      *)
  Files,        (* open device files, with one thread each                 *)
  Pid           (* Pid[f]: the process that opens f                        *)

ASSUME IrqsAssumption == Irqs \subseteq 0 .. 31
ASSUME MasksAssumption == /\ Masks \subseteq SUBSET Irqs
                          /\ AutoMasks \subseteq SUBSET Irqs
                          /\ Signals \subseteq BOOLEAN

(* The classes of interrupts, sis1100_var.h.                               *)
VmeIrqs == (1 .. 7) \intersect Irqs            (* SIS3100_VME_IRQS         *)
ExtIrqs == (8 .. 15) \intersect Irqs           (* SIS3100_EXT_IRQS         *)
FrontIrqs == {16, 17} \intersect Irqs          (* SIS1100_FRONT_IRQS       *)
Mbx0Irqs == {20} \intersect Irqs               (* SIS1100_MBX0_IRQ         *)
LemoBits == {12, 13}                           (* irq_lemo_in_chg          *)
Mbx0Bit == 10                                  (* irq_mbx0                 *)

(* The bits of the card's status register behind a mask of interrupts.     *)
LocalBits(mask) ==
  {b \in LemoBits : b + 4 \in mask}
  \union {b \in {Mbx0Bit} : Mbx0Irqs \intersect mask # {}}

VARIABLES
  request,    (* VME levels that are asserted on the bus                   *)
  latched,    (* front panel inputs latched in the crate                   *)
  enabled,    (* interrupts enabled in the remote controller               *)
  l2pdbell,   (* doorbell register of the PLX chip                         *)
  sr, cr,     (* local status of the card, and which bits may interrupt    *)
  doorbell,   (* sc->doorbell                                              *)
  lemo,       (* sc->lemo_status                                           *)
  command,    (* sc->handlercommand.command                                *)
  worker,     (* step of the interrupt thread, ...                         *)
  work,       (* ... its command, ...                                      *)
  taken,      (* ... the doorbell bits it took, ...                        *)
  new,        (* ... and its new_irqs                                      *)
  pending,    (* sc->pending_irqs                                          *)
  autoack,    (* sc->autoack_mask                                          *)
  valid,      (* sc->irq_vects[level].valid                                *)
  owned,      (* fd->owned_irqs                                            *)
  sig,        (* fd->sig > 0                                               *)
  told,       (* <<f, i>>: f got a signal since i became pending           *)
  pc,         (* step of the thread that uses the file                     *)
  arg         (* the arguments of its call                                 *)

crate == <<request, latched, enabled>>
card == <<l2pdbell, sr, cr>>
noted == <<doorbell, lemo, command>>
thread == <<worker, work, taken, new>>
info == <<pending, autoack, valid>>
files == <<owned, sig, pc, arg>>
vars == <<crate, card, noted, thread, info, files, told>>

Commands == {"doorbell", "lemo", "mbx0"}
CtlSteps == {"ctl_ack", "ctl_set", "ctl_enable"}
OffSteps == {"off_disable", "off_release"}
FileSteps == {"closed", "idle", "close_free", "wait", "asleep", "get"}
             \union CtlSteps \union OffSteps
NoArg == [mask |-> {}, sig |-> FALSE, auto |-> {}]

(* sem_irqinfo is free unless the interrupt thread is inside.              *)
SemFree == worker \notin {"block", "pend"}

TypeOK ==
  /\ request \subseteq VmeIrqs
  /\ latched \subseteq ExtIrqs
  /\ enabled \subseteq VmeIrqs \union ExtIrqs
  /\ l2pdbell \subseteq VmeIrqs \union ExtIrqs
  /\ sr \subseteq LemoBits \union {Mbx0Bit}
  /\ cr \subseteq LemoBits \union {Mbx0Bit}
  /\ doorbell \subseteq VmeIrqs \union ExtIrqs
  /\ lemo \subseteq LemoBits
  /\ command \subseteq Commands
  /\ worker \in {"idle", "lock", "block", "pend", "signal", "wake"}
  /\ work \subseteq Commands
  /\ taken \subseteq VmeIrqs \union ExtIrqs
  /\ new \subseteq 0 .. 31
  /\ pending \subseteq 0 .. 31
  /\ autoack \subseteq Irqs
  /\ valid \subseteq VmeIrqs
  /\ owned \in [Files -> SUBSET Irqs]
  /\ sig \in [Files -> BOOLEAN]
  /\ told \subseteq Files \X (0 .. 31)
  /\ pc \in [Files -> FileSteps]
  /\ arg \in [Files -> [mask : SUBSET Irqs, sig : BOOLEAN, auto : SUBSET Irqs]]

Init ==
  /\ request = {} /\ latched = {} /\ enabled = {}
  /\ l2pdbell = {} /\ sr = {} /\ cr = {}
  /\ doorbell = {} /\ lemo = {} /\ command = {}
  /\ worker = "idle" /\ work = {} /\ taken = {} /\ new = {}
  /\ pending = {} /\ autoack = {} /\ valid = {}
  /\ owned = [f \in Files |-> {}]
  /\ sig = [f \in Files |-> FALSE]
  /\ told = {}
  /\ pc = [f \in Files |-> "closed"]
  /\ arg = [f \in Files |-> NoArg]

-----------------------------------------------------------------------------
(* The crate and the card.  A device asserts its level until its vector is *)
(* fetched, or longer; an input is latched until the latch is cleared.     *)
Request(i) ==
  /\ i \in VmeIrqs \ request
  /\ request' = request \union {i}
  /\ UNCHANGED <<latched, enabled, card, noted, thread, info, files, told>>

Latch(i) ==
  /\ i \in ExtIrqs \ latched
  /\ latched' = latched \union {i}
  /\ UNCHANGED <<request, enabled, card, noted, thread, info, files, told>>

Ring(i) ==
  /\ i \in (request \union latched) \intersect enabled
  /\ i \notin l2pdbell
  /\ l2pdbell' = l2pdbell \union {i}
  /\ UNCHANGED <<crate, sr, cr, noted, thread, info, files, told>>

LocalEvent(b) ==
  /\ b \in LocalBits(Irqs) \ sr
  /\ sr' = sr \union {b}
  /\ UNCHANGED <<crate, l2pdbell, cr, noted, thread, info, files, told>>

-----------------------------------------------------------------------------
(* sis1100_intr: the doorbell is read and cleared; the local status is     *)
(* read and cleared if an enabled bit of it is set.                        *)
IntrTellsNobody ==
  /\ l2pdbell # {}
  /\ doorbell' = doorbell \union l2pdbell
  /\ l2pdbell' = {}
  /\ UNCHANGED <<crate, sr, cr, lemo, command, thread, info, files, told>>

Intr ==
  LET local == sr \intersect cr # {}
      lemoBits == IF local THEN sr \intersect LemoBits ELSE {}
  IN
  /\ l2pdbell # {} \/ local
  /\ doorbell' = doorbell \union l2pdbell
  /\ l2pdbell' = {}
  /\ sr' = IF local THEN {} ELSE sr
  /\ lemo' = lemo \union lemoBits
  /\ command' = command
                \union {c \in {"doorbell"} : l2pdbell # {}}
                \union {c \in {"lemo"} : lemoBits # {}}
                \union {c \in {"mbx0"} : local /\ Mbx0Bit \in sr}
  /\ UNCHANGED <<crate, cr, thread, info, files, told>>

-----------------------------------------------------------------------------
(* sis1100_irq_thread: take the command word, ...                          *)
WorkerTake ==
  /\ worker = "idle"
  /\ command # {}
  /\ work' = command
  /\ command' = {}
  /\ worker' = "lock"
  /\ UNCHANGED <<crate, card, doorbell, lemo, taken, new, info, files, told>>

(* ... lock sem_irqinfo and take the doorbell bits, ...                    *)
WorkerLock ==
  /\ worker = "lock"
  /\ IF "doorbell" \in work
       THEN taken' = doorbell /\ doorbell' = {}
       ELSE taken' = {} /\ UNCHANGED doorbell
  /\ worker' = "block"
  /\ UNCHANGED <<crate, card, lemo, command, work, new, info, files, told>>

(* ... sis3100rem_irq_handler, under sem_hw: block the interrupts in the   *)
(* controller and fetch the vectors of the levels that are new; the device *)
(* may release its level when its vector is fetched, ...                   *)
WorkerBlock ==
  LET fresh == taken \ pending IN
  /\ worker = "block"
  /\ new' = fresh
  /\ enabled' = enabled \ taken
  /\ latched' = latched \ taken
  /\ valid' = valid \union (fresh \intersect VmeIrqs)
  /\ request' \in {request, request \ fresh}
  /\ worker' = "pend"
  /\ UNCHANGED <<card, noted, work, taken, pending, autoack, files, told>>

(* ... sis1100_lemo_handler: the lemo bits, shifted by 4, masked with      *)
(* "30000", which is a decimal number in the code: bits 4, 5, 8, 10, 12,   *)
(* 13 and 14; ...                                                          *)
LemoMask == {4, 5, 8, 10, 12, 13, 14}
LemoHandler == {b + 4 : b \in lemo} \intersect LemoMask

(* ... everything that was found becomes pending and sem_irqinfo is free,  *)
NewOfLocal ==
  (IF "lemo" \in work THEN LemoHandler \ pending ELSE {})
  \union (IF "mbx0" \in work THEN {20} ELSE {})

WorkerPend ==
  /\ worker = "pend"
  /\ new' = new \union NewOfLocal
  /\ pending' = pending \union new'
  /\ lemo' = IF "lemo" \in work THEN {} ELSE lemo
  /\ worker' = "signal"
  /\ UNCHANGED <<crate, card, doorbell, command, work, taken, autoack, valid,
                 files, told>>

(* ... signals are sent under sem_fdata, ...                               *)
WorkerSignal ==
  /\ worker = "signal"
  /\ told' = told \union
               {p \in Files \X new : sig[p[1]] /\ p[2] \in owned[p[1]]}
  /\ worker' = "wake"
  /\ UNCHANGED <<crate, card, noted, work, taken, new, info, files>>

(* ... and who sleeps in irq_wait is woken.                                *)
WorkerWakesNobody ==
  /\ worker = "wake"
  /\ work' = {} /\ taken' = {} /\ new' = {}
  /\ worker' = "idle"
  /\ UNCHANGED <<crate, card, noted, info, files, told>>

WorkerWake ==
  /\ worker = "wake"
  /\ pc' = [f \in Files |-> IF pc[f] = "asleep" THEN "wait" ELSE pc[f]]
  /\ work' = {} /\ taken' = {} /\ new' = {}
  /\ worker' = "idle"
  /\ UNCHANGED <<crate, card, noted, info, owned, sig, arg, told>>

-----------------------------------------------------------------------------
(* The system calls of a file.  Calls end in "idle".                       *)
Step(f, from, to) == pc[f] = from /\ pc' = [pc EXCEPT ![f] = to]
Call(f, to, a) ==
  /\ Step(f, "idle", to)
  /\ arg' = [arg EXCEPT ![f] = a]
Return(f, from) ==
  /\ Step(f, from, "idle")
  /\ arg' = [arg EXCEPT ![f] = NoArg]

Open(f) ==
  /\ Step(f, "closed", "idle")
  /\ owned' = [owned EXCEPT ![f] = {}]
  /\ sig' = [sig EXCEPT ![f] = FALSE]
  /\ UNCHANGED <<crate, card, noted, thread, info, arg, told>>

(* _sis1100_irq_ack (sis3100rem_irq_ack), under sem_irqinfo: the           *)
(* interrupts are not pending any more and are enabled again.              *)
AckForgetsEnable(irqs) ==
  /\ pending' = pending \ irqs
  /\ told' = {p \in told : p[2] \notin irqs}
  /\ UNCHANGED enabled

AckIrqs(irqs) ==
  /\ pending' = pending \ irqs
  /\ enabled' = enabled \union (irqs \intersect (VmeIrqs \union ExtIrqs))
  /\ told' = {p \in told : p[2] \notin irqs}

(* reserve_irq, under sem_fdata: refused (EBUSY) if another process owns   *)
(* one of the interrupts; the same process may own it by another file.     *)
Conflict(f, mask) ==
  \E g \in Files \ {f} : /\ pc[g] # "closed"
                         /\ owned[g] \intersect mask # {}
                         /\ Pid[g] # Pid[f]

IrqCtlUnchecked(f, mask, s, auto) ==
  /\ owned' = [owned EXCEPT ![f] = @ \union mask]
  /\ Call(f, "ctl_ack", [mask |-> mask, sig |-> s, auto |-> auto])
  /\ UNCHANGED <<crate, card, noted, thread, info, sig, told>>

IrqCtl(f, mask, s, auto) ==
  /\ ~Conflict(f, mask)
  /\ owned' = [owned EXCEPT ![f] = @ \union mask]
  /\ Call(f, "ctl_ack", [mask |-> mask, sig |-> s, auto |-> auto])
  /\ UNCHANGED <<crate, card, noted, thread, info, sig, told>>

(* irq_ctl goes on: the interrupts are acknowledged, whoever they were     *)
(* pending for, ...                                                        *)
CtlAck(f) ==
  /\ Step(f, "ctl_ack", "ctl_set")
  /\ SemFree
  /\ AckIrqs(arg[f].mask)
  /\ UNCHANGED <<request, latched, card, noted, thread, autoack, valid, owned,
                 sig, arg>>

(* ... the signal and the autoack bits are stored, without a lock, ...     *)
CtlSet(f) ==
  /\ Step(f, "ctl_set", "ctl_enable")
  /\ sig' = [sig EXCEPT ![f] = arg[f].sig]
  /\ autoack' = (autoack \ arg[f].mask)
                \union (arg[f].auto \intersect arg[f].mask)
  /\ UNCHANGED <<crate, card, noted, thread, pending, valid, owned, arg, told>>

(* ... and they are enabled: sis3100rem_enable_irqs under sem_hw, with     *)
(* cleared latches, and sis1100_enable_irq, which clears the status bits.  *)
CtlEnable(f) ==
  LET mask == arg[f].mask IN
  /\ Return(f, "ctl_enable")
  /\ enabled' = enabled \union (mask \intersect (VmeIrqs \union ExtIrqs))
  /\ latched' = latched \ mask
  /\ sr' = sr \ LocalBits(mask)
  /\ cr' = cr \union LocalBits(mask)
  /\ UNCHANGED <<request, l2pdbell, noted, thread, info, owned, sig, told>>

(* irq_ctl with signal = 0: no autoack any more, ...                       *)
IrqOff(f, mask) ==
  /\ Call(f, "off_disable", [NoArg EXCEPT !.mask = mask])
  /\ autoack' = autoack \ (owned[f] \intersect mask)
  /\ UNCHANGED <<crate, card, noted, thread, pending, valid, owned, sig, told>>

(* ... the interrupts the file owns disabled (under sem_hw), ...           *)
OffDisable(f) ==
  LET irqs == owned[f] \intersect arg[f].mask IN
  /\ Step(f, "off_disable", "off_release")
  /\ enabled' = enabled \ irqs
  /\ cr' = cr \ LocalBits(irqs)
  /\ UNCHANGED <<request, latched, l2pdbell, sr, noted, thread, info, owned,
                 sig, arg, told>>

(* ... and released (under sem_fdata).                                     *)
OffRelease(f) ==
  /\ Return(f, "off_release")
  /\ owned' = [owned EXCEPT ![f] = @ \ arg[f].mask]
  /\ UNCHANGED <<crate, card, noted, thread, info, sig, told>>

(* sis1100_irq_ack, under sem_irqinfo.                                     *)
IrqAck(f, mask) ==
  /\ pc[f] = "idle"
  /\ SemFree
  /\ AckIrqs(owned[f] \intersect mask \intersect pending)
  /\ UNCHANGED <<request, latched, card, noted, thread, autoack, valid, files>>

(* sis1100_irq_get, under sem_irqinfo: the highest level that is asked for *)
(* and has a valid vector is delivered with its vector; what the file owns *)
(* of the autoack interrupts is acknowledged, asked for or not.            *)
Deliverable(f, mask) ==
  {i \in VmeIrqs : i \in pending \intersect owned[f] \intersect mask
                   /\ i \in valid}

GetIrqs(f, mask) ==
  LET levels == Deliverable(f, mask) IN
  /\ SemFree
  /\ valid' = {i \in valid : ~(i \in levels /\ \A j \in levels : j <= i)}
  /\ AckIrqs(autoack \intersect pending \intersect owned[f])
  /\ UNCHANGED <<request, latched, card, noted, thread, autoack, owned, sig>>

IrqGet(f, mask) ==
  /\ pc[f] = "idle"
  /\ GetIrqs(f, mask)
  /\ UNCHANGED <<pc, arg>>

(* sis1100_irq_wait: wait_event_interruptible on irq_pending, read without *)
(* a lock; woken or interrupted; then irq_get.                             *)
IrqWait(f, mask) ==
  /\ Call(f, "wait", [NoArg EXCEPT !.mask = mask])
  /\ UNCHANGED <<crate, card, noted, thread, info, owned, sig, told>>

WaitCheck(f) ==
  /\ Step(f, "wait", IF pending \intersect owned[f] \intersect arg[f].mask = {}
                       THEN "asleep" ELSE "get")
  /\ UNCHANGED <<crate, card, noted, thread, info, owned, sig, arg, told>>

WaitGet(f) ==
  /\ Return(f, "get")
  /\ GetIrqs(f, arg[f].mask)

Interrupted(f) ==
  /\ Return(f, "asleep")
  /\ UNCHANGED <<crate, card, noted, thread, info, owned, sig, told>>

(* sis1100_release: cleanup_fd disables the VME levels and the inputs of   *)
(* the card that the file owns (the bits of the crate's inputs go to the   *)
(* wrong register), ...                                                    *)
CloseLeavesEnabled(f) ==
  /\ Step(f, "idle", "close_free")
  /\ UNCHANGED <<crate, card, noted, thread, info, owned, sig, arg, told>>

Close(f) ==
  /\ Step(f, "idle", "close_free")
  /\ enabled' = enabled \ (owned[f] \intersect VmeIrqs)
  /\ cr' = cr \ LocalBits(owned[f])
  /\ UNCHANGED <<request, latched, l2pdbell, sr, noted, thread, info, owned,
                 sig, arg, told>>

(* ... then the file is gone (under sem_fdata).                            *)
CloseFree(f) ==
  /\ Step(f, "close_free", "closed")
  /\ owned' = [owned EXCEPT ![f] = {}]
  /\ sig' = [sig EXCEPT ![f] = FALSE]
  /\ told' = {p \in told : p[1] # f}
  /\ UNCHANGED <<crate, card, noted, thread, info, arg>>

-----------------------------------------------------------------------------
Hardware == \/ \E i \in Irqs : Request(i) \/ Latch(i) \/ Ring(i)
            \/ \E b \in LemoBits \union {Mbx0Bit} : LocalEvent(b)

Worker == \/ WorkerTake \/ WorkerLock \/ WorkerBlock \/ WorkerPend
          \/ WorkerSignal \/ WorkerWake

Ctl(f) == \/ \E m \in Masks, s \in Signals, a \in AutoMasks :
                IrqCtl(f, m, s, a)
          \/ CtlAck(f) \/ CtlSet(f) \/ CtlEnable(f)
          \/ \E m \in Masks : IrqOff(f, m)
          \/ OffDisable(f) \/ OffRelease(f)

Fetch(f) == \/ \E m \in Masks : IrqGet(f, m) \/ IrqAck(f, m) \/ IrqWait(f, m)
            \/ WaitCheck(f) \/ WaitGet(f) \/ Interrupted(f)

File(f) == Open(f) \/ Ctl(f) \/ Fetch(f) \/ Close(f) \/ CloseFree(f)

Next == Hardware \/ Intr \/ Worker \/ \E f \in Files : File(f)

Spec == Init /\ [][Next]_vars

(* The crate rings, handler and thread run, a system call goes on.         *)
FairSpec ==
  /\ Spec
  /\ \A i \in Irqs : WF_vars(Ring(i))
  /\ WF_vars(Intr) /\ WF_vars(Worker)
  /\ \A f \in Files : WF_vars(CtlAck(f) \/ CtlSet(f) \/ CtlEnable(f)
                              \/ OffDisable(f) \/ OffRelease(f)
                              \/ WaitCheck(f) \/ WaitGet(f) \/ CloseFree(f))

-----------------------------------------------------------------------------
(* An interrupt is never owned by two processes.                           *)
OwnersExclusive ==
  \A f, g \in Files : owned[f] \intersect owned[g] # {} => Pid[f] = Pid[g]

(* An interrupt of the crate that a process has reserved can still come:   *)
(* it is enabled in the controller, or pending (the acknowledgement will   *)
(* enable it), or the thread is about to make it pending.  Controller and  *)
(* pending_irqs are changed under different mutexes, by the thread and by  *)
(* every file.                                                             *)
ReservedIsAlive ==
  \A f \in Files : pc[f] \in {"idle", "wait", "asleep", "get"} =>
    \A i \in owned[f] \intersect (VmeIrqs \union ExtIrqs) :
      i \in enabled \/ i \in pending \/ (worker = "pend" /\ i \in new)

(* A VME level that nobody has reserved is blocked in the controller: it   *)
(* cannot disturb the machine.                                             *)
UnownedIsBlocked == \A i \in enabled \intersect VmeIrqs :
                      \E f \in Files : i \in owned[f]

(* A process asleep in irq_wait while one of its interrupts is pending is  *)
(* about to be woken: no wakeup is lost between check and sleep.           *)
SleeperIsWoken ==
  \A f \in Files :
    (/\ pc[f] = "asleep"
     /\ pending \intersect owned[f] \intersect arg[f].mask # {})
      => worker \in {"signal", "wake"}

(* A level asserted while a process sleeps for it wakes this process.      *)
LevelWakesSleeper ==
  \A f \in Files, i \in VmeIrqs :
    (/\ pc[f] = "asleep"
     /\ i \in request \intersect enabled
     /\ i \in owned[f] \intersect arg[f].mask)
      ~> pc[f] # "asleep"
=============================================================================

----------------------------- MODULE LinkState -----------------------------
(***************************************************************************)
(* What the driver believes of the far end of the optical link.  A change  *)
(* of the link latches irq_synch_chg; the interrupt handler forgets the    *)
(* remote hardware if the link is down, disables this interrupt and sets a *)
(* timer; a second later the interrupt thread enables it again and, if the *)
(* link is up, asks the remote side who it is.  Processes learn of the     *)
(* change by a signal, or are woken from irq_wait.                         *)
(*                                                                         *)
(* Sources: the irq_synch_chg part of sis1100_irq.c, sis1100_synch_handler *)
(* and link_up_handler, sis1100_init_remote.c, sis1100_irq_thread.c,       *)
(* old_remote_hw in sis1100_irq_handler.c and sis1100_open.c, what DMA     *)
(* transfers do to irq_synch_chg.  Interrupts of the remote side are in    *)
(* IrqDelivery.  Handler, timer, thread and system calls may run on        *)
(* different CPUs.                                                         *)
(***************************************************************************)
EXTENDS Naturals

CONSTANTS
  Remotes,      (* types of remote hardware, of enum sis1100_hw_type       *)
  Invalid,      (* sis1100_hw_invalid                                      *)
  Files,        (* open device files, with one thread each                 *)
  Users,        (* processes that reset the remote side or read and write  *)
                (* by DMA, and do no more                                  *)
  Thread,       (* the interrupt thread                                    *)
  Nobody,       (* a mutex nobody holds                                    *)
  InitMayFail   (* a remote side may not answer, or not be supported       *)

ASSUME RemotesAssumption == Invalid \notin Remotes /\ Remotes # {}
ASSUME ActorsAssumption == /\ Files \intersect Users = {}
                           /\ Thread \notin Files \union Users
                           /\ Nobody \notin Files \union Users
                           /\ Nobody # Thread
ASSUME FailAssumption == InitMayFail \in BOOLEAN

VARIABLES
  link,       (* sr_synch: the optical link is up                          *)
  peer,       (* what is at the far end                                    *)
  swallowed,  (* a transfer has cleared irq_synch_chg before the handler   *)
              (* saw it, and the link has not changed since                *)
  chg,        (* irq_synch_chg latched in sr, ...                          *)
  en,         (* ... enabled in cr                                         *)
  handler,    (* step of the interrupt handler, ...                        *)
  sawUp,      (* ... the link in the status it has read                    *)
  timer,      (* sc->link_up_timer is pending                              *)
  command,    (* sc->handlercommand.command                                *)
  remoteHw,   (* sc->remote_hw                                             *)
  hw,         (* holder of sc->sem_hw                                      *)
  found,      (* the type that the holder of sem_hw has read, Invalid: none *)
  pc,         (* next step of the thread and of each file                  *)
  old,        (* fd->old_remote_hw                                         *)
  shown,      (* the type the process was last told of, by irq_get, or     *)
              (* that it begins with, by open and irq_ctl                  *)
  sig,        (* fd->sig > 0                                               *)
  told        (* a signal was sent since fd->old_remote_hw was set         *)

optics == <<link, peer, swallowed>>
status == <<chg, en>>
intr == <<handler, sawUp>>
files == <<old, shown, sig, told>>
vars == <<optics, status, intr, timer, command, remoteHw, hw, found, pc, files>>

Types == Remotes \union {Invalid}
Actors == Files \union Users \union {Thread}
InitSteps == {"lock", "ident", "set"}
SynchSteps == {"enable", "read"}
GetSteps == {"report", "store"}

TypeOK ==
  /\ link \in BOOLEAN /\ peer \in Remotes /\ swallowed \in BOOLEAN
  /\ chg \in BOOLEAN /\ en \in BOOLEAN
  /\ handler \in {"idle", "note", "end"} /\ sawUp \in BOOLEAN
  /\ timer \in BOOLEAN
  /\ command \subseteq {"up", "down"}
  /\ remoteHw \in Types
  /\ hw \in Actors \union {Nobody}
  /\ found \in Types
  /\ pc \in [Actors -> InitSteps \union SynchSteps \union GetSteps \union
               {"idle", "infoUp", "infoDown", "signal", "wake", "closed",
                "ctl", "wait", "asleep", "get", "tested", "dma"}]
  /\ old \in [Files -> Types]
  /\ shown \in [Files -> Types]
  /\ sig \in [Files -> BOOLEAN]
  /\ told \in [Files -> BOOLEAN]
  /\ \A a \in Actors : pc[a] \in {"ident", "set", "dma"} <=> hw = a
  /\ found # Invalid <=> (hw # Nobody /\ pc[hw] = "set")

(* sis1100_init has called init_remote.                                    *)
Init ==
  /\ link \in BOOLEAN /\ peer \in Remotes /\ swallowed = FALSE
  /\ chg = FALSE /\ en = TRUE
  /\ handler = "idle" /\ sawUp = FALSE
  /\ timer = FALSE
  /\ command = {}
  /\ remoteHw = IF link THEN peer ELSE Invalid
  /\ hw = Nobody
  /\ found = Invalid
  /\ pc = [a \in Actors |-> IF a \in Files THEN "closed" ELSE "idle"]
  /\ old = [f \in Files |-> Invalid]
  /\ shown = [f \in Files |-> Invalid]
  /\ sig = [f \in Files |-> FALSE]
  /\ told = [f \in Files |-> FALSE]

Step(a, from, to) == pc[a] = from /\ pc' = [pc EXCEPT ![a] = to]

-----------------------------------------------------------------------------
(* The link; another crate may be plugged in while it is down.             *)
LinkDown ==
  /\ link
  /\ link' = FALSE /\ chg' = TRUE /\ swallowed' = FALSE
  /\ UNCHANGED <<peer, en, intr, timer, command, remoteHw, hw, found, pc,
                 files>>

LinkUp ==
  /\ ~link
  /\ link' = TRUE /\ chg' = TRUE /\ swallowed' = FALSE
  /\ peer' \in Remotes
  /\ UNCHANGED <<en, intr, timer, command, remoteHw, hw, found, pc, files>>

-----------------------------------------------------------------------------
(* sis1100_intr: read the status.  The handler looks at irq_synch_chg in   *)
(* it even if another local interrupt was the reason, ...                  *)
IntrRead ==
  /\ handler = "idle"
  /\ chg
  /\ handler' = "note" /\ sawUp' = link
  /\ UNCHANGED <<optics, status, timer, command, remoteHw, hw, found, pc,
                 files>>

(* ... disable the interrupt, forget the remote hardware if the link was   *)
(* down, and set the timer (again), ...                                    *)
IntrNoteNoTimer ==
  /\ handler = "note"
  /\ en' = FALSE
  /\ remoteHw' = IF sawUp THEN remoteHw ELSE Invalid
  /\ timer' = (timer \/ sawUp)
  /\ handler' = "end"
  /\ UNCHANGED <<optics, chg, sawUp, command, hw, found, pc, files>>

IntrNote ==
  /\ handler = "note"
  /\ en' = FALSE
  /\ remoteHw' = IF sawUp THEN remoteHw ELSE Invalid
  /\ timer' = TRUE
  /\ handler' = "end"
  /\ UNCHANGED <<optics, chg, sawUp, command, hw, found, pc, files>>

(* ... clear the status that was read, and call the thread if it was down. *)
IntrEnd ==
  /\ handler = "end"
  /\ chg' = FALSE
  /\ command' = IF sawUp THEN command ELSE command \union {"down"}
  /\ handler' = "idle" /\ sawUp' = FALSE
  /\ UNCHANGED <<optics, en, timer, remoteHw, hw, found, pc, files>>

(* sis1100_link_up_handler, one second after the timer was set: the rest   *)
(* of the interrupt handler that set it does not take that long.           *)
LinkUpHandler ==
  /\ timer
  /\ handler # "end"
  /\ timer' = FALSE
  /\ command' = command \union {"up"}
  /\ UNCHANGED <<optics, status, intr, remoteHw, hw, found, pc, files>>

-----------------------------------------------------------------------------
(* sis1100_init_remote by the thread or, as the whole of                   *)
(* SIS1100_REMOTE_RESET, by a process: under sem_hw, ...                   *)
Before(a) == IF a = Thread THEN "lock" ELSE "idle"
After(a) == IF a = Thread THEN "signal" ELSE "idle"

InitLock(a) ==
  /\ Step(a, Before(a), "ident")
  /\ hw = Nobody
  /\ hw' = a
  /\ UNCHANGED <<optics, status, intr, timer, command, remoteHw, found, files>>

(* ... the remote ident is read and the hardware prepared; any error means *)
(* that nothing changes, ...                                               *)
InitIdent(a) ==
  /\ \/ /\ link
        /\ found' = peer
        /\ Step(a, "ident", "set")
        /\ UNCHANGED hw
     \/ /\ ~link \/ InitMayFail
        /\ Step(a, "ident", After(a))
        /\ hw' = Nobody
        /\ UNCHANGED found
  /\ UNCHANGED <<optics, status, intr, timer, command, remoteHw, files>>

(* ... and at last remote_hw is set, whatever it is by then.               *)
InitSet(a) ==
  /\ Step(a, "set", After(a))
  /\ remoteHw' = found
  /\ found' = Invalid
  /\ hw' = Nobody
  /\ UNCHANGED <<optics, status, intr, timer, command, files>>

-----------------------------------------------------------------------------
(* sis1100_irq_thread: take the command word; ...                          *)
ThreadTake ==
  /\ command # {}
  /\ Step(Thread, "idle", IF "up" \in command THEN "infoUp" ELSE "infoDown")
  /\ command' = {}
  /\ UNCHANGED <<optics, status, intr, timer, remoteHw, hw, found, files>>

(* ... take sem_irqinfo, which irq_get may hold; without handlercomm_up it *)
(* is given back with nothing done about the link.                         *)
ThreadInfo ==
  /\ \/ Step(Thread, "infoUp", "enable")
     \/ Step(Thread, "infoDown", "signal")
  /\ \A f \in Files : pc[f] \notin GetSteps
  /\ UNCHANGED <<optics, status, intr, timer, command, remoteHw, hw, found,
                 files>>

(* ... sis1100_synch_handler: sis1100_enable_irq clears the latch and      *)
(* enables the interrupt, ...                                              *)
SynchEnableForgotten ==
  /\ Step(Thread, "enable", "read")
  /\ chg' = FALSE
  /\ UNCHANGED <<optics, en, intr, timer, command, remoteHw, hw, found, files>>

SynchEnable ==
  /\ Step(Thread, "enable", "read")
  /\ chg' = FALSE /\ en' = TRUE
  /\ UNCHANGED <<optics, intr, timer, command, remoteHw, hw, found, files>>

(* ... the status is read; if the link is up, init_remote.                 *)
SynchRead ==
  /\ Step(Thread, "read", IF link THEN "lock" ELSE "signal")
  /\ UNCHANGED <<optics, status, intr, timer, command, remoteHw, hw, found,
                 files>>

(* Signals, under sem_fdata; then the sleepers of irq_wait are woken.      *)
ThreadSignalInsertion ==
  /\ Step(Thread, "signal", "wake")
  /\ told' = [f \in Files |-> told[f] \/ (/\ sig[f] /\ old[f] # remoteHw
                                        /\ remoteHw # Invalid)]
  /\ UNCHANGED <<optics, status, intr, timer, command, remoteHw, hw, found, old,
                 shown, sig>>

ThreadSignal ==
  /\ Step(Thread, "signal", "wake")
  /\ told' = [f \in Files |-> told[f] \/ (sig[f] /\ old[f] # remoteHw)]
  /\ UNCHANGED <<optics, status, intr, timer, command, remoteHw, hw, found, old,
                 shown, sig>>

ThreadWakeNobody ==
  /\ Step(Thread, "wake", "idle")
  /\ UNCHANGED <<optics, status, intr, timer, command, remoteHw, hw, found,
                 files>>

ThreadWake ==
  /\ pc[Thread] = "wake"
  /\ pc' = [a \in Actors |-> IF a = Thread THEN "idle"
                             ELSE IF pc[a] = "asleep" THEN "wait" ELSE pc[a]]
  /\ UNCHANGED <<optics, status, intr, timer, command, remoteHw, hw, found,
                 files>>

-----------------------------------------------------------------------------
(* A file: opened with the remote hardware of the moment, ...              *)
SetOld(f) == /\ old' = [old EXCEPT ![f] = remoteHw]
             /\ told' = [told EXCEPT ![f] = FALSE]

Begin(f) == SetOld(f) /\ shown' = [shown EXCEPT ![f] = remoteHw]

Open(f) ==
  /\ Step(f, "closed", "idle")
  /\ Begin(f)
  /\ sig' = [sig EXCEPT ![f] = FALSE]
  /\ UNCHANGED <<optics, status, intr, timer, command, remoteHw, hw, found>>

(* ... irq_ctl: first the signal, then old_remote_hw, ...                  *)
Ctl(f) ==
  /\ Step(f, "idle", "ctl")
  /\ sig' = [sig EXCEPT ![f] = TRUE]
  /\ UNCHANGED <<optics, status, intr, timer, command, remoteHw, hw, found, old,
                 shown, told>>

CtlOld(f) ==
  /\ Step(f, "ctl", "idle")
  /\ Begin(f)
  /\ UNCHANGED <<optics, status, intr, timer, command, remoteHw, hw, found,
                 sig>>

(* ... irq_wait, by the half of irq_pending that is about the link, which  *)
(* is looked at first and again whenever the sleep ends, ...               *)
IrqWait(f) ==
  /\ \E from \in {"idle", "wait"} :
       Step(f, from, IF old[f] = remoteHw THEN "asleep" ELSE "get")
  /\ UNCHANGED <<optics, status, intr, timer, command, remoteHw, hw, found,
                 files>>

(* ... irq_get, after irq_wait or alone, under sem_irqinfo, which the      *)
(* thread holds from its first handler to its last.  remote_hw, which the  *)
(* interrupt handler and SIS1100_REMOTE_RESET write without sem_irqinfo,   *)
(* is read to see whether it has changed, ...                              *)
SemFree == /\ pc[Thread] \notin SynchSteps \union InitSteps
           /\ \A f \in Files : pc[f] \notin GetSteps

IrqGet(f) ==
  /\ SemFree
  /\ \E from \in {"idle", "get"} :
       Step(f, from, IF old[f] = remoteHw THEN "idle" ELSE "report")
  /\ UNCHANGED <<optics, status, intr, timer, command, remoteHw, hw, found,
                 files>>

(* ... to report it, ...                                                   *)
GetReport(f) ==
  /\ Step(f, "report", "store")
  /\ shown' = [shown EXCEPT ![f] = remoteHw]
  /\ UNCHANGED <<optics, status, intr, timer, command, remoteHw, hw, found, old,
                 sig, told>>

(* ... and once more to remember what was reported; ...                    *)
GetStore(f) ==
  /\ Step(f, "store", "idle")
  /\ SetOld(f)
  /\ UNCHANGED <<optics, status, intr, timer, command, remoteHw, hw, found,
                 shown, sig>>

(* ... a signal that ends the sleep, ...                                   *)
Interrupted(f) ==
  /\ Step(f, "asleep", "idle")
  /\ UNCHANGED <<optics, status, intr, timer, command, remoteHw, hw, found,
                 files>>

(* ... and release.                                                        *)
Close(f) ==
  /\ Step(f, "idle", "closed")
  /\ sig' = [sig EXCEPT ![f] = FALSE]
  /\ told' = [told EXCEPT ![f] = FALSE]
  /\ old' = [old EXCEPT ![f] = Invalid]
  /\ shown' = [shown EXCEPT ![f] = Invalid]
  /\ UNCHANGED <<optics, status, intr, timer, command, remoteHw, hw, found>>

(* read(2) or write(2) by DMA: remote_hw is tested, then sem_hw is taken   *)
(* for all chunks, ...                                                     *)
TransferTest(u) ==
  /\ remoteHw # Invalid
  /\ Step(u, "idle", "tested")
  /\ UNCHANGED <<optics, status, intr, timer, command, remoteHw, hw, found,
                 files>>

TransferLock(u) ==
  /\ Step(u, "tested", "dma")
  /\ hw = Nobody
  /\ hw' = u
  /\ UNCHANGED <<optics, status, intr, timer, command, remoteHw, found, files>>

(* ... each of which starts with sis1100_enable_irq, which clears the      *)
(* latch of irq_synch_chg too.                                             *)
TransferChunk(u) ==
  /\ pc[u] = "dma"
  /\ swallowed' = (swallowed \/ (chg /\ handler = "idle"))
  /\ chg' = FALSE /\ en' = TRUE
  /\ UNCHANGED <<link, peer, intr, timer, command, remoteHw, hw, found, pc,
                 files>>

TransferEnd(u) ==
  /\ Step(u, "dma", "idle")
  /\ hw' = Nobody
  /\ UNCHANGED <<optics, status, intr, timer, command, remoteHw, found, files>>

-----------------------------------------------------------------------------
InitRemote(a) == InitLock(a) \/ InitIdent(a) \/ InitSet(a)

Handler == IntrRead \/ IntrNote \/ IntrEnd \/ LinkUpHandler

Worker == \/ ThreadTake \/ ThreadInfo \/ SynchEnable \/ SynchRead
          \/ ThreadSignal \/ ThreadWake

File(f) == \/ Open(f) \/ Ctl(f) \/ CtlOld(f) \/ IrqWait(f)
           \/ IrqGet(f) \/ GetReport(f) \/ GetStore(f)
           \/ Interrupted(f) \/ Close(f)

User(u) == \/ TransferTest(u) \/ TransferLock(u)
           \/ TransferChunk(u) \/ TransferEnd(u)

Next == \/ LinkDown \/ LinkUp \/ Handler \/ Worker
        \/ \E a \in Users \union {Thread} : InitRemote(a)
        \/ \E f \in Files : File(f)
        \/ \E u \in Users : User(u)

Spec == Init /\ [][Next]_vars

(* An enabled interrupt is handled, the timer expires, irq_get goes on     *)
(* once it holds sem_irqinfo, the thread goes on and is given the mutexes  *)
(* it waits for, and init_remote ends.  That a transfer ends is not        *)
(* assumed: a write that the loss of the link has cut off may sleep, with  *)
(* sem_hw held, until its process is killed.                               *)
FairSpec ==
  /\ Spec
  /\ WF_handler((en /\ IntrRead) \/ IntrNote \/ IntrEnd)
  /\ WF_timer(LinkUpHandler)
  /\ SF_pc(Worker \/ InitRemote(Thread))
  /\ \A f \in Files : WF_pc(GetReport(f) \/ GetStore(f))
  /\ \A u \in Users : WF_pc(InitIdent(u) \/ InitSet(u))

-----------------------------------------------------------------------------
(* Nothing is under way that has to do with the link, ...                  *)
Quiet ==
  /\ ~chg /\ handler = "idle" /\ ~timer /\ command = {}
  /\ pc[Thread] = "idle"
  /\ \A f \in Files : pc[f] # "ctl"
  /\ \A u \in Users : pc[u] \notin InitSteps

(* ... and no transfer has taken the news of its last change away.         *)
Settled == Quiet /\ ~swallowed

(* The driver never goes blind: whenever irq_synch_chg is disabled, the    *)
(* timer or the thread will enable it.  Handler, timer and thread hand the *)
(* duty on while further changes of the link come in.                      *)
NeverBlind ==
  \/ en \/ timer
  \/ "up" \in command
  \/ pc[Thread] \in {"infoUp", "enable"}

(* When all is settled and the link is up, the driver knows who is at the  *)
(* far end, however often the link went up and down and whatever was       *)
(* plugged in meanwhile.                                                   *)
UpIsKnown == Settled /\ link => remoteHw = peer

(* A change between the last two readings of remote_hw in irq_get: the     *)
(* process was shown something else, and the driver will not tell it.      *)
Overwritten(f) == old[f] = remoteHw /\ shown[f] # remoteHw

(* When all is settled and the driver is right about the link, a process   *)
(* that wants signals and was last shown another state has been sent one.  *)
(* The exception is a change that irq_get has overwritten, between its     *)
(* report and its store.                                                   *)
Known == remoteHw = IF link THEN peer ELSE Invalid

ChangeIsSignalled ==
  Settled /\ Known => \A f \in Files :
    sig[f] /\ shown[f] # remoteHw => told[f] \/ Overwritten(f)

(* ... and a process asleep in irq_wait was shown this state: the thread   *)
(* woke it, whatever order check, sleep and change came in.  The exception *)
(* is the same: it may sleep over a change that irq_get has overwritten.   *)
SleeperHasSeen ==
  Settled /\ Known => \A f \in Files :
    pc[f] = "asleep" => shown[f] = remoteHw \/ Overwritten(f)

(* A link that stays up is found: even if it came up while the interrupt   *)
(* was disabled or while an older change was being worked on.  It is not   *)
(* if a transfer has taken the news away, or never gives sem_hw back.      *)
TransfersEnd == \A u \in Users : []<>(pc[u] # "dma")

UpIsFound ==
  <>[](link /\ ~swallowed) /\ TransfersEnd => <>[](remoteHw = peer)

(* The removal of the link is noticed ("inform the user process about ...  *)
(* insertion or removal of the optical link").                             *)
RemovalIsNoticed == Settled /\ ~link => remoteHw = Invalid
=============================================================================

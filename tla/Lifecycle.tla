----------------------------- MODULE Lifecycle -----------------------------
(***************************************************************************)
(* Loading and unloading the module, finding and losing cards, opening and *)
(* closing their files.  The probe of a card acquires what the driver      *)
(* needs one by one; when a step fails, what has been acquired is released *)
(* from a label on.  Meanwhile the interrupt handler, the link timer, the  *)
(* interrupt thread and the files use what is there.                       *)
(*                                                                         *)
(* Sources: sis1100_autoconf_linux.c, sis1100_init.c, sis1100_open.c,      *)
(* sis1100_irq_thread.c (the loop), sis1100_synch_handler.c.  One card is  *)
(* probed or removed at a time and no card is pulled out while the module  *)
(* is in use: probing two at once would race for the unit numbers          *)
(* (autoconf_linux.c:205) and removal would free cards below open files.   *)
(***************************************************************************)
EXTENDS Integers, Sequences

CONSTANTS
  Cards,      (* PCI devices that match sis1100_table                      *)
  NoCard,     (* an empty slot of sis1100_devdata                          *)
  MaxCards,   (* sis1100_MAXCARDS                                          *)
  Minors      (* the minor numbers of one card                             *)

ASSUME CardsAssumption == NoCard \notin Cards
ASSUME MaxCardsAssumption == MaxCards \in Nat \ {0}

VARIABLES
  module,     (* what the module is doing, ...                             *)
  global,     (* ... and what it has registered                            *)
  devdata,    (* sis1100_devdata: the card of each unit                    *)
  nodes,      (* units whose device nodes exist, ...                       *)
  litter,     (* history: ... left by a device_create that failed          *)
  unit,       (* sc->unit of each card                                     *)
  step,       (* where the probe or removal of each card is                *)
  held,       (* what each card has acquired and not released              *)
  todo,       (* what the error exit or the removal has still to release   *)
  files,      (* open files: card and minor                                *)
  timer,      (* cards whose link_up_timer is pending                      *)
  thread,     (* next step of the interrupt thread of each card            *)
  command,    (* cards with a command for the thread                       *)
  stopping,   (* cards whose thread has been asked to stop (kthread_stop)  *)
  unheard,    (* history: ... while it was working                         *)
  failed      (* where the last probe of each card failed                  *)

registry == <<module, global>>
entries == <<nodes, litter>>
units == <<devdata, entries, unit>>
progress == <<step, held, todo, failed>>
stops == <<stopping, unheard>>
running == <<timer, thread, command, stops>>
vars == <<registry, units, progress, files, running>>

Units == 0 .. MaxCards - 1

Resources == {"sc", "thread", "enable", "regions", "plx", "reg", "irq",
              "dmaspace", "card", "cdev", "nodes", "drvdata"}
Stages == {"slot", "sc", "thread", "enable", "regions", "plx", "reg", "irq",
           "mask", "dmaspace", "init", "cdev", "nodes", "drvdata"}
(* Everything but "nodes" is in place from cdev_add on.                    *)
Working == {"sc", "thread", "enable", "regions", "plx", "reg", "irq",
            "dmaspace", "card"}

-----------------------------------------------------------------------------
(* Deviation: the nodes are made before the card is initialised.           *)
FollowingNodesFirst(s) ==
  CASE s = "slot" -> "sc" [] s = "sc" -> "thread" [] s = "thread" -> "enable"
    [] s = "enable" -> "regions" [] s = "regions" -> "plx"
    [] s = "plx" -> "reg" [] s = "reg" -> "irq" [] s = "irq" -> "mask"
    [] s = "mask" -> "dmaspace" [] s = "dmaspace" -> "cdev"
    [] s = "cdev" -> "init" [] s = "init" -> "nodes"
    [] s = "nodes" -> "drvdata"

(* The order of the probe.                                                 *)
Following(s) ==
  CASE s = "slot" -> "sc" [] s = "sc" -> "thread" [] s = "thread" -> "enable"
    [] s = "enable" -> "regions" [] s = "regions" -> "plx"
    [] s = "plx" -> "reg" [] s = "reg" -> "irq" [] s = "irq" -> "mask"
    [] s = "mask" -> "dmaspace" [] s = "dmaspace" -> "init"
    [] s = "init" -> "cdev" [] s = "cdev" -> "nodes"
    [] s = "nodes" -> "drvdata"

(* Deviation: sc is freed before its thread is stopped.                    *)
ErrorExitsScFirst == <<"cdev", "card", "dmaspace", "irq", "plx", "reg",
                       "regions", "enable", "sc", "thread">>

(* The labels at the end of the probe, each falling through to the next.   *)
ErrorExits == <<"cdev", "card", "dmaspace", "irq", "plx", "reg", "regions",
                "enable", "thread", "sc">>

(* Deviation: request_irq fails and jumps one label too early.             *)
ErrorLabelFreesIrq(s) ==
  CASE s = "thread" -> "sc"
    [] s = "enable" -> "thread"
    [] s = "regions" -> "enable"
    [] s \in {"plx", "reg"} -> "plx"
    [] s \in {"irq", "mask", "dmaspace"} -> "irq"
    [] s = "init" -> "dmaspace"
    [] s = "cdev" -> "card"
    [] s = "nodes" -> "cdev"

(* The first thing released when stage s fails.                            *)
ErrorLabel(s) ==
  CASE s = "thread" -> "sc"
    [] s = "enable" -> "thread"
    [] s = "regions" -> "enable"
    [] s \in {"plx", "reg", "irq"} -> "plx"
    [] s \in {"mask", "dmaspace"} -> "irq"
    [] s = "init" -> "dmaspace"
    [] s = "cdev" -> "card"
    [] s = "nodes" -> "cdev"

FromLabel(r) ==
  LET k == CHOOSE i \in 1 .. Len(ErrorExits) : ErrorExits[i] = r
  IN SubSeq(ErrorExits, k, Len(ErrorExits))

(* Deviation: the registers are unmapped before free_irq.                  *)
RemovalUnmapsFirst == <<"nodes", "cdev", "card", "dmaspace", "timer", "plx",
                        "reg", "irq", "regions", "enable", "thread", "sc",
                        "drvdata">>

(* done_sis1100_device.                                                    *)
Removal == <<"nodes", "cdev", "card", "dmaspace", "irq", "timer", "plx",
             "reg", "regions", "enable", "thread", "sc", "drvdata">>

-----------------------------------------------------------------------------
TypeOK ==
  /\ module \in {"out", "loading", "in", "unloading"}
  /\ global \subseteq {"class", "attr", "region", "driver"}
  /\ devdata \in [Units -> Cards \union {NoCard}]
  /\ nodes \subseteq Units
  /\ litter \subseteq Units
  /\ unit \in [Cards -> Units]
  /\ step \in [Cards -> Stages \union {"unbound", "bound", "undo", "remove",
                                       "oops"}]
  /\ held \in [Cards -> SUBSET Resources]
  /\ todo \in [Cards -> Seq(Resources \union {"timer"})]
  /\ files \subseteq Cards \X Minors
  /\ timer \subseteq Cards
  /\ thread \in [Cards -> {"none", "new", "prepare", "ready", "asleep",
                           "test", "work", "gone"}]
  /\ command \subseteq Cards
  /\ stopping \subseteq Cards
  /\ unheard \subseteq stopping
  /\ failed \in [Cards -> Stages \union {"none"}]

Init ==
  /\ module = "out"
  /\ global = {}
  /\ devdata = [u \in Units |-> NoCard]
  /\ nodes = {}
  /\ litter = {}
  /\ unit = [c \in Cards |-> 0]
  /\ step = [c \in Cards |-> "unbound"]
  /\ held = [c \in Cards |-> {}]
  /\ todo = [c \in Cards |-> <<>>]
  /\ files = {}
  /\ timer = {}
  /\ thread = [c \in Cards |-> "none"]
  /\ command = {}
  /\ stopping = {}
  /\ unheard = {}
  /\ failed = [c \in Cards |-> "none"]

-----------------------------------------------------------------------------
(* The module.  It registers a class, its version file, 256 numbers and    *)
(* the PCI driver; every failure unregisters what is there.                *)
ModuleOrder == <<"class", "attr", "region", "driver">>

LoadStart ==
  /\ module = "out"
  /\ module' = "loading"
  /\ UNCHANGED <<global, units, progress, files, running>>

Register ==
  /\ module = "loading"
  /\ \E i \in 1 .. 4 :
       /\ global = {ModuleOrder[j] : j \in 1 .. i - 1}
       /\ global' = global \union {ModuleOrder[i]}
       /\ module' = IF i = 4 THEN "in" ELSE "loading"
  /\ UNCHANGED <<units, progress, files, running>>

(* init_sis1100_module gives up: the labels err_alloc_chrdev .. err.       *)
LoadFail ==
  /\ module = "loading"
  /\ module' = "out" /\ global' = {}
  /\ UNCHANGED <<units, progress, files, running>>

(* The kernel unloads the module only when no file is open;                *)
(* pci_unregister_driver removes the cards one by one.                     *)
Quiet == \A c \in Cards : step[c] \in {"unbound", "bound", "oops"}

UnloadStart ==
  /\ module = "in" /\ files = {} /\ Quiet
  /\ module' = "unloading"
  /\ UNCHANGED <<global, units, progress, files, running>>

UnloadEnd ==
  /\ module = "unloading"
  /\ \A c \in Cards : step[c] = "unbound"
  /\ module' = "out" /\ global' = {}
  /\ UNCHANGED <<units, progress, files, running>>

-----------------------------------------------------------------------------
(* The probe.                                                              *)
Goto(c, s) == step' = [step EXCEPT ![c] = s]

Acquire(c, r) ==
  /\ held' = [held EXCEPT ![c] = @ \union {r}]
  /\ Goto(c, Following(step[c]))

(* res is set and a label is jumped to.                                    *)
Fail(c, s) ==
  /\ Goto(c, "undo")
  /\ todo' = [todo EXCEPT ![c] = FromLabel(ErrorLabel(s))]
  /\ failed' = [failed EXCEPT ![c] = s]
  /\ UNCHANGED held

(* A card appears (or was there when the driver was registered).  BOUND:   *)
(* not again as long as a file of its freed sc is open.                    *)
ProbeStart(c) ==
  /\ module = "in" /\ Quiet /\ step[c] = "unbound"
  /\ \A m \in Minors : <<c, m>> \notin files
  /\ Goto(c, "slot")
  /\ UNCHANGED <<registry, units, held, todo, failed, files, running>>

(* The first free unit; none: -EIO, nothing to release.                    *)
FindUnit(c) ==
  /\ step[c] = "slot"
  /\ IF \E u \in Units : devdata[u] = NoCard
     THEN /\ unit' = [unit EXCEPT ![c] =
                        CHOOSE u \in Units : /\ devdata[u] = NoCard
                                             /\ \A v \in 0 .. u - 1 :
                                                  devdata[v] # NoCard]
          /\ Goto(c, "sc")
     ELSE /\ Goto(c, "unbound")
          /\ UNCHANGED unit
  /\ UNCHANGED <<registry, devdata, entries, held, todo, failed, files,
                 running>>

(* kzalloc and the initialisation of sc: the timer is a new one.           *)
AllocSc(c) ==
  /\ step[c] = "sc"
  /\ \/ /\ Acquire(c, "sc")
        /\ devdata' = [devdata EXCEPT ![unit[c]] = c]
        /\ command' = command \ {c}
        /\ timer' = timer \ {c}
        /\ failed' = [failed EXCEPT ![c] = "none"]
     \/ /\ Goto(c, "unbound")
        /\ UNCHANGED <<devdata, held, command, timer, failed>>
  /\ UNCHANGED <<registry, entries, unit, todo, files, thread, stops>>

(* kthread_create, wake_up_process.                                        *)
StartThread(c) ==
  /\ step[c] = "thread"
  /\ Acquire(c, "thread")
  /\ thread' = [thread EXCEPT ![c] = "new"]
  /\ stopping' = stopping \ {c}
  /\ unheard' = unheard \ {c}
  /\ UNCHANGED <<registry, units, todo, failed, files, timer, command>>

(* pci_enable_device .. request_irq, pci_alloc_consistent, cdev_add.       *)
AcquirePart(c) ==
  /\ step[c] \in {"enable", "regions", "plx", "reg", "irq", "dmaspace", "cdev"}
  /\ Acquire(c, step[c])
  /\ UNCHANGED <<registry, units, todo, failed, files, running>>

SetMask(c) ==
  /\ step[c] = "mask"
  /\ Goto(c, "dmaspace")
  /\ UNCHANGED <<registry, units, held, todo, failed, files, running>>

(* What sis1100_init accepts: a PCI card of known hard- and firmware, new  *)
(* enough, with a register space of 4 kB (here: the classical card).       *)
Firmwares == {<<1, 1, 4>>, <<1, 2, 1>>, <<2, 2, 1>>, <<34, 2, 1>>}

Accepted(fk, hv, fv, maplen) ==
  /\ \E f \in Firmwares : f[1] = fk /\ f[2] = hv /\ fv >= f[3]
  /\ maplen = 4096

(* sis1100_init: after the tests (ENXIO) everything is reset, the FIFO is  *)
(* flushed (EIO when that fails) and the interrupts are enabled.           *)
InitCard(c) ==
  /\ step[c] = "init"
  /\ \E fk \in {1, 34}, hv \in {1, 2}, fv \in {3, 4},
        maplen \in {256, 4096}, flushed \in BOOLEAN :
       IF Accepted(fk, hv, fv, maplen) /\ flushed
       THEN Acquire(c, "card") /\ UNCHANGED <<todo, failed>>
       ELSE Fail(c, "init")
  /\ UNCHANGED <<registry, units, files, running>>

(* device_create, 32 times; it fails when a node exists.  A failure leaves *)
(* the nodes created before it.                                            *)
CreateNodes(c) ==
  /\ step[c] = "nodes" /\ unit[c] \notin nodes
  /\ nodes' = nodes \union {unit[c]}
  /\ \/ Acquire(c, "nodes") /\ UNCHANGED <<litter, todo, failed>>
     \/ Fail(c, "nodes") /\ litter' = litter \union {unit[c]}
  /\ UNCHANGED <<registry, devdata, unit, files, running>>

(* pci_set_drvdata: the probe has succeeded.                               *)
Bind(c) ==
  /\ step[c] = "drvdata"
  /\ held' = [held EXCEPT ![c] = @ \union {"drvdata"}]
  /\ Goto(c, "bound")
  /\ UNCHANGED <<registry, units, todo, failed, files, running>>

(* Any call of the probe may fail.                                         *)
ProbeFail(c) ==
  /\ step[c] \in Stages \ {"slot", "sc", "init", "drvdata"}
  /\ Fail(c, step[c])
  /\ UNCHANGED <<registry, units, files, running>>

-----------------------------------------------------------------------------
(* Error exits and removal.                                                *)

(* done_sis1100_device; without drvdata (see UndoEnd) it dereferences 0.   *)
RemoveStart(c) ==
  /\ module = "unloading" /\ Quiet /\ step[c] = "bound"
  /\ IF "drvdata" \in held[c]
     THEN Goto(c, "remove") /\ todo' = [todo EXCEPT ![c] = Removal]
     ELSE Goto(c, "oops") /\ UNCHANGED todo
  /\ UNCHANGED <<registry, units, held, failed, files, running>>

Releasing(c, r) == todo[c] # <<>> /\ Head(todo[c]) = r

Drop(c) ==
  /\ held' = [held EXCEPT ![c] = @ \ {Head(todo[c])}]
  /\ todo' = [todo EXCEPT ![c] = Tail(@)]
  /\ UNCHANGED <<step, failed>>

(* cdev_del, sis1100_done, pci_free_consistent, free_irq, pci_iounmap (if  *)
(* mapped), pci_release_regions, pci_disable_device, pci_set_drvdata(0).   *)
Release(c) ==
  /\ \E r \in Resources \ {"nodes", "thread", "sc"} : Releasing(c, r)
  /\ Drop(c)
  /\ UNCHANGED <<registry, units, files, running>>

DestroyNodes(c) ==
  /\ Releasing(c, "nodes")
  /\ nodes' = nodes \ {unit[c]}
  /\ Drop(c)
  /\ UNCHANGED <<registry, devdata, litter, unit, files, running>>

(* del_timer_sync.                                                         *)
DeleteTimer(c) ==
  /\ Releasing(c, "timer")
  /\ timer' = timer \ {c}
  /\ Drop(c)
  /\ UNCHANGED <<registry, units, files, thread, command, stops>>

(* Wakes a thread that sleeps or is about to; nothing else happens to one  *)
(* that runs.                                                              *)
Woken(c) ==
  IF thread[c] \in {"ready", "asleep"} THEN [thread EXCEPT ![c] = "test"]
                                       ELSE thread

(* kthread_stop: set the flag, wake, ...  (A thread that works, or has not *)
(* yet set TASK_INTERRUPTIBLE, sleeps after that without another test.)    *)
StopThread(c) ==
  /\ Releasing(c, "thread") /\ c \notin stopping
  /\ stopping' = stopping \union {c}
  /\ unheard' = IF thread[c] \in {"work", "prepare"} THEN unheard \union {c}
                                                    ELSE unheard
  /\ thread' = Woken(c)
  /\ UNCHANGED <<registry, units, progress, files, timer, command>>

(* ... and wait.                                                           *)
ThreadStopped(c) ==
  /\ Releasing(c, "thread") /\ c \in stopping /\ thread[c] = "gone"
  /\ Drop(c)
  /\ UNCHANGED <<registry, units, files, running>>

(* sis1100_devdata[sc->unit] = 0, kfree(sc).                               *)
FreeSc(c) ==
  /\ Releasing(c, "sc")
  /\ devdata' = [devdata EXCEPT ![unit[c]] = NoCard]
  /\ Drop(c)
  /\ UNCHANGED <<registry, entries, unit, files, running>>

(* A probe without usable DMA mask ends with res = 0: the kernel takes the *)
(* card for bound.                                                         *)
ReleaseEnd(c) ==
  /\ step[c] \in {"undo", "remove"} /\ todo[c] = <<>>
  /\ Goto(c, IF step[c] = "undo" /\ failed[c] = "mask" THEN "bound"
                                                       ELSE "unbound")
  /\ UNCHANGED <<registry, units, held, todo, failed, files, running>>

-----------------------------------------------------------------------------
(* Those who use a card.                                                   *)

(* sis1100_intr: a command for the thread, or a change of the link, which  *)
(* starts the timer.                                                       *)
Interrupt(c) ==
  /\ {"irq", "card"} \subseteq held[c]
  /\ \/ /\ command' = command \union {c}
        /\ thread' = Woken(c)
        /\ UNCHANGED timer
     \/ /\ timer' = timer \union {c}
        /\ UNCHANGED <<command, thread>>
  /\ UNCHANGED <<registry, units, progress, files, stops>>

(* sis1100_link_up_handler; the timer of a freed card expires unseen here. *)
LinkUpHandler(c) ==
  /\ c \in timer
  /\ timer' = timer \ {c}
  /\ IF "sc" \in held[c]
     THEN command' = command \union {c} /\ thread' = Woken(c)
     ELSE UNCHANGED <<command, thread>>
  /\ UNCHANGED <<registry, units, progress, files, stops>>

Step(c, from, to) ==
  /\ thread[c] = from
  /\ thread' = [thread EXCEPT ![c] = to]

(* The loop of sis1100_irq_thread.  (The kernel does not start a thread    *)
(* that has been stopped before it ran.)                                   *)
ThreadBegin(c) ==
  /\ Step(c, "new", IF c \in stopping THEN "gone" ELSE "prepare")
  /\ UNCHANGED <<registry, units, progress, files, timer, command, stops>>

(* TASK_INTERRUPTIBLE ...                                                  *)
ThreadPrepare(c) ==
  /\ Step(c, "prepare", "ready")
  /\ UNCHANGED <<registry, units, progress, files, timer, command, stops>>

(* ... schedule() if there is no command ...                               *)
ThreadSchedule(c) ==
  /\ Step(c, "ready", IF c \in command THEN "test" ELSE "asleep")
  /\ UNCHANGED <<registry, units, progress, files, timer, command, stops>>

(* Deviation: the thread does not ask whether it should stop.              *)
ThreadTestNever(c) ==
  /\ Step(c, "test", "work") /\ command' = command \ {c}
  /\ UNCHANGED <<registry, units, progress, files, timer, stops>>

(* ... kthread_should_stop, take the command ...                           *)
ThreadTest(c) ==
  /\ thread[c] = "test"
  /\ IF c \in stopping
     THEN Step(c, "test", "gone") /\ UNCHANGED command
     ELSE Step(c, "test", "work") /\ command' = command \ {c}
  /\ UNCHANGED <<registry, units, progress, files, timer, stops>>

(* ... and carry it out.                                                   *)
ThreadWork(c) ==
  /\ Step(c, "work", "prepare")
  /\ UNCHANGED <<registry, units, progress, files, timer, command, stops>>

Thread(c) ==
  \/ ThreadBegin(c) \/ ThreadPrepare(c) \/ ThreadSchedule(c)
  \/ ThreadTest(c) \/ ThreadWork(c)

(* sis1100_open: nodes of the card work from cdev_add on (those of an      *)
(* earlier load, too).  An open minor is busy.                             *)
Open(c, m) ==
  /\ module = "in" /\ "cdev" \in held[c]
  /\ devdata[unit[c]] = c
  /\ <<c, m>> \notin files
  /\ files' = files \union {<<c, m>>}
  /\ UNCHANGED <<registry, units, progress, running>>

Close(c, m) ==
  /\ <<c, m>> \in files
  /\ files' = files \ {<<c, m>>}
  /\ UNCHANGED <<registry, units, progress, running>>

-----------------------------------------------------------------------------
Probe(c) ==
  \/ FindUnit(c) \/ AllocSc(c) \/ StartThread(c) \/ AcquirePart(c)
  \/ SetMask(c) \/ InitCard(c) \/ CreateNodes(c) \/ Bind(c) \/ ProbeFail(c)

Undo(c) ==
  \/ Release(c) \/ DestroyNodes(c) \/ DeleteTimer(c) \/ StopThread(c)
  \/ ThreadStopped(c) \/ FreeSc(c) \/ ReleaseEnd(c)

Next ==
  \/ LoadStart \/ Register \/ LoadFail \/ UnloadStart \/ UnloadEnd
  \/ \E c \in Cards :
       \/ ProbeStart(c) \/ RemoveStart(c) \/ Probe(c) \/ Undo(c)
       \/ Interrupt(c) \/ LinkUpHandler(c) \/ Thread(c)
       \/ \E m \in Minors : Open(c, m) \/ Close(c, m)

Spec == Init /\ [][Next]_vars

(* Error exits and removals go on, and so does the thread.                 *)
FairSpec ==
  /\ Spec
  /\ \A c \in Cards : WF_vars(Undo(c)) /\ WF_vars(Thread(c))

-----------------------------------------------------------------------------
(* Properties.                                                             *)

(* The card was published, or its interrupts enabled, before the probe     *)
(* failed: files and timer are not waited for (hazards at autoconf_linux.c *)
(* lines 363 and 412).                                                     *)
Late(c) == failed[c] \in {"cdev", "nodes"}

(* As long as the interrupt handler can be called it finds sc and both     *)
(* register spaces, and a pending timer finds sc: the order of request_irq *)
(* and free_irq, of mapping and del_timer_sync on every path.              *)
HandlerSafe ==
  \A c \in Cards :
    /\ "irq" \in held[c] => {"sc", "plx", "reg"} \subseteq held[c]
    /\ c \in timer /\ ~Late(c) => "sc" \in held[c]

(* The thread never runs without its sc, nor works, outside of a removal   *)
(* or error exit, without mapped registers.                                *)
ThreadHasCard ==
  \A c \in Cards :
    /\ thread[c] \notin {"none", "gone"} => "sc" \in held[c]
    /\ thread[c] = "work" /\ step[c] \notin {"undo", "remove"} =>
         {"plx", "reg", "irq", "card"} \subseteq held[c]

(* Each exit releases what it has acquired, nothing else and nothing       *)
(* twice; at its end nothing is held, the unit is free, and every node     *)
(* belongs to a card that has made all of its own; who succeeds has        *)
(* everything, unit and nodes included.  Left behind are, by name: the     *)
(* nodes made before a device_create failed (litter; autoconf_linux.c line *)
(* 385), the link timer of a probe that failed after sis1100_init (Late;   *)
(* line 412).  And a probe without usable DMA mask ends with success and   *)
(* without anything (line 324).                                            *)
AllOrNothing ==
  /\ \A c \in Cards :
       /\ todo[c] # <<>> /\ Head(todo[c]) \notin {"plx", "reg", "timer"} =>
            Head(todo[c]) \in held[c]
       /\ step[c] \in {"unbound", "slot", "oops"} =>
            /\ held[c] = {} /\ thread[c] \in {"none", "gone"}
            /\ c \in timer => Late(c)
       /\ step[c] = "bound" =>
            \/ /\ held[c] = Resources
               /\ devdata[unit[c]] = c /\ unit[c] \in nodes \ litter
            \/ held[c] = {} /\ c \notin timer /\ failed[c] = "mask"
       /\ (\E u \in Units : devdata[u] = c) <=> "sc" \in held[c]
  /\ \A u \in nodes \ litter :
       \E c \in Cards : "nodes" \in held[c] /\ unit[c] = u

(* The card of an open file is there and initialised, and its unit leads   *)
(* to it (unless device_create failed after the file had been opened).     *)
FileHasCard ==
  \A f \in files :
    \/ Late(f[1])
    \/ Working \subseteq held[f[1]] /\ devdata[unit[f[1]]] = f[1]

(* Error exits and removals come to their end, unless kthread_stop came    *)
(* while the thread was working (hazard at irq_thread.c line 169).         *)
ExitEnds ==
  \A c \in Cards :
    step[c] \in {"undo", "remove"} ~>
      step[c] \in {"unbound", "bound"} \/ c \in unheard
=============================================================================

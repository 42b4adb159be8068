------------------------- MODULE IrqDeliveryProofs -------------------------
(***************************************************************************)
(* Proofs about IrqDelivery, for any set of interrupts, masks, files and   *)
(* processes.  Four mutexes and two bit masks in different hands decide    *)
(* whether an interrupt can come: what is owned (sem_fdata), what is       *)
(* enabled (sem_hw), what is pending (sem_irqinfo).  The invariant says    *)
(* for every step of every system call how the three are related.          *)
(***************************************************************************)
EXTENDS IrqDelivery, TLAPS

Remote == VmeIrqs \union ExtIrqs

(* What a file has reserved and is not about to release, ...               *)
Keeps(f) == IF pc[f] = "close_free" THEN {}
            ELSE IF pc[f] = "off_release" THEN owned[f] \ arg[f].mask
            ELSE owned[f]

(* ... and what no system call of the file is working on.                  *)
Settled(f) == IF pc[f] = "close_free" THEN {}
              ELSE IF pc[f] \in CtlSteps \union OffSteps
                THEN owned[f] \ arg[f].mask
              ELSE owned[f]

Alive(i) == i \in enabled \/ i \in pending \/ (worker = "pend" /\ i \in new)

(* The pieces of the invariant: files, controller, delivery, sleepers.     *)
Ownership ==
  /\ OwnersExclusive
  /\ \A f \in Files : pc[f] = "closed" => owned[f] = {}
  /\ \A f \in Files : pc[f] \in CtlSteps => arg[f].mask \subseteq owned[f]

EnabledIsKept ==
  \A i \in enabled \intersect VmeIrqs : \E f \in Files : i \in Keeps(f)

SettledIsAlive ==
  \A f \in Files : \A i \in Settled(f) \intersect Remote : Alive(i)

(* The actions that touch no file, ...                                     *)
Background == Hardware \/ Intr \/ WorkerTake \/ WorkerLock \/ WorkerBlock
              \/ WorkerPend \/ WorkerSignal

(* ... and what a step of a file is.                                       *)
FileStep(f) ==
  \/ Open(f)
  \/ \E m \in Masks, s \in Signals, a \in AutoMasks : IrqCtl(f, m, s, a)
  \/ CtlAck(f) \/ CtlSet(f) \/ CtlEnable(f)
  \/ \E m \in Masks : IrqOff(f, m)
  \/ OffDisable(f) \/ OffRelease(f)
  \/ \E m \in Masks : IrqGet(f, m)
  \/ \E m \in Masks : IrqAck(f, m)
  \/ \E m \in Masks : IrqWait(f, m)
  \/ WaitCheck(f) \/ WaitGet(f) \/ Interrupted(f)
  \/ Close(f) \/ CloseFree(f)

LEMMA NextCases ==
  Next <=> Background \/ WorkerWake \/ \E f \in Files : FileStep(f)
BY DEF Next, Background, Worker, File, Ctl, Fetch, FileStep

-----------------------------------------------------------------------------
(* The type invariant.                                                     *)
LEMMA TypeInit == Init => TypeOK
BY IrqsAssumption DEF Init, TypeOK, FileSteps, NoArg

LEMMA TypeBackground == TypeOK /\ (Background \/ WorkerWake) => TypeOK'
<1> SUFFICES ASSUME TypeOK, Background \/ WorkerWake PROVE TypeOK'
  OBVIOUS
<1> USE DEF TypeOK
<1> HIDE DEF VmeIrqs, ExtIrqs, FileSteps, LemoBits, Mbx0Bit, Commands
<1>a. /\ VmeIrqs \subseteq 0 .. 31 /\ ExtIrqs \subseteq 0 .. 31
      /\ LemoHandler \subseteq 0 .. 31
  BY DEF VmeIrqs, ExtIrqs, LemoHandler, LemoMask
<1>1. CASE Hardware
  BY <1>1 DEF Hardware, Request, Latch, Ring, LocalEvent, LocalBits, crate,
     card, noted, thread, info, files
<1>2. CASE Intr
  BY <1>2 DEF Intr, crate, thread, info, files, Commands
<1>3. CASE WorkerTake
  BY <1>3 DEF WorkerTake, crate, card, info, files
<1>4. CASE WorkerLock
  BY <1>4 DEF WorkerLock, crate, card, info, files
<1>5. CASE WorkerBlock
  BY <1>5, <1>a DEF WorkerBlock, card, noted, files
<1>6. CASE WorkerPend
  BY <1>6, <1>a DEF WorkerPend, NewOfLocal, crate, card, files
<1>7. CASE WorkerSignal
  BY <1>7 DEF WorkerSignal, crate, card, noted, info, files
<1>8. CASE WorkerWake
  BY <1>8 DEF WorkerWake, crate, card, noted, info, FileSteps
<1> QED BY <1>1, <1>2, <1>3, <1>4, <1>5, <1>6, <1>7, <1>8 DEF Background

LEMMA TypeFile == \A f \in Files : TypeOK /\ FileStep(f) => TypeOK'
<1> SUFFICES ASSUME NEW f \in Files, TypeOK, FileStep(f) PROVE TypeOK'
  OBVIOUS
<1> USE DEF TypeOK
<1> USE DEF Step, Call, Return, NoArg, FileSteps, CtlSteps, OffSteps
<1> HIDE DEF VmeIrqs, ExtIrqs, LemoBits, Mbx0Bit, Commands
<1>a. /\ VmeIrqs \subseteq Irqs /\ ExtIrqs \subseteq Irqs
      /\ \A m : LocalBits(m) \subseteq LemoBits \union {Mbx0Bit}
  BY DEF VmeIrqs, ExtIrqs, LocalBits
<1>b. \A m \in Masks : [NoArg EXCEPT !.mask = m]
        \in [mask : SUBSET Irqs, sig : BOOLEAN, auto : SUBSET Irqs]
  BY MasksAssumption
<1>1. CASE Open(f)
  BY <1>1 DEF Open, crate, card, noted, thread, info
<1>2. CASE \E m \in Masks, s \in Signals, a \in AutoMasks : IrqCtl(f, m, s, a)
  BY <1>2, MasksAssumption DEF IrqCtl, crate, card, noted, thread, info
<1>3. CASE CtlAck(f)
  BY <1>3, <1>a DEF CtlAck, AckIrqs, card, noted, thread
<1>4. CASE CtlSet(f)
  BY <1>4 DEF CtlSet, crate, card, noted, thread
<1>5. CASE CtlEnable(f)
  BY <1>5, <1>a DEF CtlEnable, noted, thread, info
<1>6. CASE \E m \in Masks : IrqOff(f, m)
  BY <1>6, <1>b DEF IrqOff, crate, card, noted, thread
<1>7. CASE OffDisable(f)
  BY <1>7, <1>a DEF OffDisable, noted, thread, info
<1>8. CASE OffRelease(f)
  BY <1>8 DEF OffRelease, crate, card, noted, thread, info
<1>9. CASE \E m \in Masks : IrqGet(f, m)
  BY <1>9 DEF IrqGet, GetIrqs, AckIrqs, card, noted, thread
<1>10. CASE \E m \in Masks : IrqAck(f, m)
  BY <1>10 DEF IrqAck, AckIrqs, card, noted, thread, files
<1>11. CASE \E m \in Masks : IrqWait(f, m)
  BY <1>11, <1>b DEF IrqWait, crate, card, noted, thread, info
<1>12. CASE WaitCheck(f)
  BY <1>12 DEF WaitCheck, crate, card, noted, thread, info
<1>13. CASE WaitGet(f)
  BY <1>13 DEF WaitGet, GetIrqs, AckIrqs, card, noted, thread
<1>14. CASE Interrupted(f)
  BY <1>14 DEF Interrupted, crate, card, noted, thread, info
<1>15. CASE Close(f)
  BY <1>15, <1>a DEF Close, noted, thread, info
<1>16. CASE CloseFree(f)
  BY <1>16 DEF CloseFree, crate, card, noted, thread, info
<1> QED
  BY <1>1, <1>2, <1>3, <1>4, <1>5, <1>6, <1>7, <1>8, <1>9, <1>10, <1>11,
     <1>12, <1>13, <1>14, <1>15, <1>16 DEF FileStep

LEMMA TypeInductive == TypeOK /\ [Next]_vars => TypeOK'
<1>1. CASE UNCHANGED vars
  BY <1>1 DEF vars, crate, card, noted, thread, info, files, TypeOK
<1> QED BY <1>1, NextCases, TypeBackground, TypeFile

-----------------------------------------------------------------------------
(* Who owns what.  Only IrqCtl adds to owned_irqs, and it asks the other   *)
(* files first; the mask of its call stays owned until the call is over.   *)
LEMMA OwnershipInit == Init => Ownership
BY DEF Init, Ownership, OwnersExclusive, CtlSteps

LEMMA OwnershipBackground ==
  TypeOK /\ Ownership /\ (Background \/ WorkerWake) => Ownership'
<1> SUFFICES ASSUME TypeOK, Ownership, Background \/ WorkerWake
             PROVE  Ownership'
  OBVIOUS
<1>1. CASE Background
  BY <1>1 DEF Background, Hardware, Request, Latch, Ring, LocalEvent, Intr,
     WorkerTake, WorkerLock, WorkerBlock, WorkerPend, WorkerSignal, files,
     Ownership, OwnersExclusive
<1>2. CASE WorkerWake
  BY <1>2 DEF WorkerWake, TypeOK, Ownership, OwnersExclusive, CtlSteps
<1> QED BY <1>1, <1>2

LEMMA OwnershipFile ==
  \A f \in Files : TypeOK /\ Ownership /\ FileStep(f) => Ownership'
<1> SUFFICES ASSUME NEW f \in Files, TypeOK, Ownership, FileStep(f)
             PROVE  Ownership'
  OBVIOUS
<1> USE DEF TypeOK, Ownership, OwnersExclusive, Step, Call, Return, CtlSteps,
    OffSteps
<1>1. CASE Open(f)
  BY <1>1 DEF Open
<1>2. CASE \E m \in Masks, s \in Signals, a \in AutoMasks : IrqCtl(f, m, s, a)
  <2> PICK m \in Masks, s \in Signals, a \in AutoMasks : IrqCtl(f, m, s, a)
    BY <1>2
  <2>1. OwnersExclusive'
    BY DEF IrqCtl, Conflict
  <2> QED BY <2>1 DEF IrqCtl
<1>3. CASE CtlAck(f)
  BY <1>3 DEF CtlAck
<1>4. CASE CtlSet(f)
  BY <1>4 DEF CtlSet
<1>5. CASE CtlEnable(f)
  BY <1>5 DEF CtlEnable
<1>6. CASE \E m \in Masks : IrqOff(f, m)
  BY <1>6 DEF IrqOff
<1>7. CASE OffDisable(f)
  BY <1>7 DEF OffDisable
<1>8. CASE OffRelease(f)
  BY <1>8 DEF OffRelease
<1>9. CASE \E m \in Masks : IrqGet(f, m)
  BY <1>9 DEF IrqGet, GetIrqs
<1>10. CASE \E m \in Masks : IrqAck(f, m)
  BY <1>10 DEF IrqAck, files
<1>11. CASE \E m \in Masks : IrqWait(f, m)
  BY <1>11 DEF IrqWait
<1>12. CASE WaitCheck(f)
  BY <1>12 DEF WaitCheck
<1>13. CASE WaitGet(f)
  BY <1>13 DEF WaitGet, GetIrqs
<1>14. CASE Interrupted(f)
  BY <1>14 DEF Interrupted
<1>15. CASE Close(f)
  BY <1>15 DEF Close
<1>16. CASE CloseFree(f)
  BY <1>16 DEF CloseFree
<1> QED
  BY <1>1, <1>2, <1>3, <1>4, <1>5, <1>6, <1>7, <1>8, <1>9, <1>10, <1>11,
     <1>12, <1>13, <1>14, <1>15, <1>16 DEF FileStep

LEMMA OwnershipInductive == TypeOK /\ Ownership /\ [Next]_vars => Ownership'
<1>1. CASE UNCHANGED vars
  BY <1>1 DEF vars, files, Ownership, OwnersExclusive
<1> QED BY <1>1, NextCases, OwnershipBackground, OwnershipFile

-----------------------------------------------------------------------------
(* What is enabled.  A step enables only what its file keeps, and a file   *)
(* that stops keeping a level has disabled it.                             *)
LEMMA KeptInit == Init => EnabledIsKept
BY DEF Init, EnabledIsKept

LEMMA KeptBackground ==
  TypeOK /\ EnabledIsKept /\ (Background \/ WorkerWake) => EnabledIsKept'
<1> SUFFICES ASSUME TypeOK, EnabledIsKept, Background \/ WorkerWake
             PROVE  EnabledIsKept'
  OBVIOUS
<1>1. CASE Background
  <2>1. enabled' \subseteq enabled /\ UNCHANGED files
    BY <1>1 DEF Background, Hardware, Request, Latch, Ring, LocalEvent, Intr,
       WorkerTake, WorkerLock, WorkerBlock, WorkerPend, WorkerSignal, crate
  <2> QED BY <2>1 DEF EnabledIsKept, Keeps, files
<1>2. CASE WorkerWake
  <2>1. \A f \in Files : Keeps(f)' = Keeps(f)
    BY <1>2 DEF WorkerWake, TypeOK, Keeps
  <2> QED BY <2>1, <1>2 DEF EnabledIsKept, WorkerWake, crate
<1> QED BY <1>1, <1>2

(* A step of f enables what f keeps afterwards, and what f does not keep   *)
(* afterwards is disabled or was not kept by f before.                     *)
LEMMA KeptByStep ==
  \A f \in Files : TypeOK /\ Ownership /\ FileStep(f) =>
    /\ \A g \in Files \ {f} : Keeps(g)' = Keeps(g)
    /\ (enabled' \ enabled) \intersect VmeIrqs \subseteq Keeps(f)'
    /\ enabled' \intersect VmeIrqs \intersect Keeps(f) \subseteq Keeps(f)'
<1> SUFFICES ASSUME NEW f \in Files, TypeOK, Ownership, FileStep(f)
             PROVE  /\ \A g \in Files \ {f} : Keeps(g)' = Keeps(g)
                    /\ (enabled' \ enabled) \intersect VmeIrqs
                         \subseteq Keeps(f)'
                    /\ enabled' \intersect VmeIrqs \intersect Keeps(f)
                         \subseteq Keeps(f)'
  OBVIOUS
<1> USE DEF TypeOK, Ownership, Keeps, Step, Call, Return, CtlSteps
<1>1. CASE Open(f)
  BY <1>1 DEF Open, crate
<1>2. CASE \E m \in Masks, s \in Signals, a \in AutoMasks : IrqCtl(f, m, s, a)
  BY <1>2 DEF IrqCtl, crate
<1>3. CASE CtlAck(f)
  BY <1>3 DEF CtlAck, AckIrqs
<1>4. CASE CtlSet(f)
  BY <1>4 DEF CtlSet, crate
<1>5. CASE CtlEnable(f)
  BY <1>5 DEF CtlEnable
<1>6. CASE \E m \in Masks : IrqOff(f, m)
  BY <1>6 DEF IrqOff, crate
<1>7. CASE OffDisable(f)
  BY <1>7 DEF OffDisable
<1>8. CASE OffRelease(f)
  BY <1>8 DEF OffRelease, crate
<1>9. CASE \E m \in Masks : IrqGet(f, m)
  BY <1>9 DEF IrqGet, GetIrqs, AckIrqs
<1>10. CASE \E m \in Masks : IrqAck(f, m)
  BY <1>10 DEF IrqAck, AckIrqs, files
<1>11. CASE \E m \in Masks : IrqWait(f, m)
  BY <1>11 DEF IrqWait, crate
<1>12. CASE WaitCheck(f)
  BY <1>12 DEF WaitCheck, crate
<1>13. CASE WaitGet(f)
  BY <1>13 DEF WaitGet, GetIrqs, AckIrqs
<1>14. CASE Interrupted(f)
  BY <1>14 DEF Interrupted, crate
<1>15. CASE Close(f)
  BY <1>15 DEF Close
<1>16. CASE CloseFree(f)
  BY <1>16 DEF CloseFree, crate
<1> QED
  BY <1>1, <1>2, <1>3, <1>4, <1>5, <1>6, <1>7, <1>8, <1>9, <1>10, <1>11,
     <1>12, <1>13, <1>14, <1>15, <1>16 DEF FileStep

LEMMA KeptInductive ==
  TypeOK /\ Ownership /\ EnabledIsKept /\ [Next]_vars => EnabledIsKept'
<1> SUFFICES ASSUME TypeOK, Ownership, EnabledIsKept, [Next]_vars
             PROVE  EnabledIsKept'
  OBVIOUS
<1>1. CASE UNCHANGED vars
  BY <1>1 DEF vars, files, crate, EnabledIsKept, Keeps
<1>2. CASE \E f \in Files : FileStep(f)
  <2> PICK f \in Files : FileStep(f)
    BY <1>2
  <2>1. /\ \A g \in Files \ {f} : Keeps(g)' = Keeps(g)
        /\ (enabled' \ enabled) \intersect VmeIrqs \subseteq Keeps(f)'
        /\ enabled' \intersect VmeIrqs \intersect Keeps(f) \subseteq Keeps(f)'
    BY KeptByStep
  <2> SUFFICES ASSUME NEW i \in enabled' \intersect VmeIrqs
               PROVE  \E g \in Files : i \in Keeps(g)'
    BY DEF EnabledIsKept
  <2>2. CASE i \notin enabled
    BY <2>1, <2>2
  <2>3. CASE i \in enabled
    <3> PICK g \in Files : i \in Keeps(g)
      BY <2>3 DEF EnabledIsKept
    <3> QED BY <2>1
  <2> QED BY <2>2, <2>3
<1> QED BY <1>1, <1>2, NextCases, KeptBackground
-----------------------------------------------------------------------------
(* What is reserved can come.  The thread blocks an interrupt only to make *)
(* it pending, an acknowledgement enables what it clears, and a system     *)
(* call disables only what its own file owns.                              *)
LEMMA AliveInit == Init => SettledIsAlive
BY DEF Init, SettledIsAlive, Settled

LEMMA AliveBackground ==
  TypeOK /\ SettledIsAlive /\ (Background \/ WorkerWake) => SettledIsAlive'
<1> SUFFICES ASSUME TypeOK, SettledIsAlive, Background \/ WorkerWake
             PROVE  SettledIsAlive'
  OBVIOUS
<1>1. CASE Background
  <2>1. UNCHANGED files
    BY <1>1 DEF Background, Hardware, Request, Latch, Ring, LocalEvent, Intr,
       WorkerTake, WorkerLock, WorkerBlock, WorkerPend, WorkerSignal
  <2>2. \A i : Alive(i) => Alive(i)'
    BY <1>1 DEF Background, Hardware, Request, Latch, Ring, LocalEvent, Intr,
       WorkerTake, WorkerLock, WorkerBlock, WorkerPend, WorkerSignal, Alive,
       crate, thread, info
  <2> QED BY <2>1, <2>2 DEF files, SettledIsAlive, Settled
<1>2. CASE WorkerWake
  <2>1. \A f \in Files : Settled(f)' = Settled(f)
    BY <1>2 DEF WorkerWake, TypeOK, Settled, CtlSteps, OffSteps
  <2> QED BY <2>1, <1>2 DEF SettledIsAlive, WorkerWake, crate, info, Alive
<1> QED BY <1>1, <1>2

(* A step of f takes nothing away but what f owns and is working on, and   *)
(* what it stops working on is alive.                                      *)
LEMMA AliveByStep ==
  \A f \in Files : TypeOK /\ Ownership /\ FileStep(f) =>
    /\ \A g \in Files \ {f} : Settled(g)' = Settled(g)
    /\ \A i \in Remote : Alive(i) => Alive(i)' \/ i \in owned[f] \ Settled(f)'
    /\ \A i \in Settled(f)' \intersect Remote : i \in Settled(f) \/ Alive(i)'
<1> SUFFICES
      ASSUME NEW f \in Files, TypeOK, Ownership, FileStep(f)
      PROVE  /\ \A g \in Files \ {f} : Settled(g)' = Settled(g)
             /\ \A i \in Remote :
                  Alive(i) => Alive(i)' \/ i \in owned[f] \ Settled(f)'
             /\ \A i \in Settled(f)' \intersect Remote :
                  i \in Settled(f) \/ Alive(i)'
  OBVIOUS
<1> USE DEF TypeOK, Ownership, Settled, Alive, Remote, Step, Call, Return,
    CtlSteps, OffSteps
<1>1. CASE Open(f)
  BY <1>1 DEF Open, crate, thread, info
<1>2. CASE \E m \in Masks, s \in Signals, a \in AutoMasks : IrqCtl(f, m, s, a)
  BY <1>2 DEF IrqCtl, crate, thread, info
<1>3. CASE CtlAck(f)
  BY <1>3 DEF CtlAck, AckIrqs, thread
<1>4. CASE CtlSet(f)
  BY <1>4 DEF CtlSet, crate, thread
<1>5. CASE CtlEnable(f)
  BY <1>5 DEF CtlEnable, thread, info
<1>6. CASE \E m \in Masks : IrqOff(f, m)
  BY <1>6 DEF IrqOff, crate, thread
<1>7. CASE OffDisable(f)
  BY <1>7 DEF OffDisable, thread, info
<1>8. CASE OffRelease(f)
  BY <1>8 DEF OffRelease, crate, thread, info
<1>9. CASE \E m \in Masks : IrqGet(f, m)
  BY <1>9 DEF IrqGet, GetIrqs, AckIrqs, thread
<1>10. CASE \E m \in Masks : IrqAck(f, m)
  BY <1>10 DEF IrqAck, AckIrqs, thread, files
<1>11. CASE \E m \in Masks : IrqWait(f, m)
  BY <1>11 DEF IrqWait, crate, thread, info
<1>12. CASE WaitCheck(f)
  BY <1>12 DEF WaitCheck, crate, thread, info
<1>13. CASE WaitGet(f)
  BY <1>13 DEF WaitGet, GetIrqs, AckIrqs, thread
<1>14. CASE Interrupted(f)
  BY <1>14 DEF Interrupted, crate, thread, info
<1>15. CASE Close(f)
  BY <1>15 DEF Close, thread, info
<1>16. CASE CloseFree(f)
  BY <1>16 DEF CloseFree, crate, thread, info
<1> QED
  BY <1>1, <1>2, <1>3, <1>4, <1>5, <1>6, <1>7, <1>8, <1>9, <1>10, <1>11,
     <1>12, <1>13, <1>14, <1>15, <1>16 DEF FileStep

LEMMA AliveInductive ==
  ASSUME \A f, g \in Files : Pid[f] = Pid[g] => f = g
  PROVE  TypeOK /\ Ownership /\ SettledIsAlive /\ [Next]_vars => SettledIsAlive'
<1> SUFFICES ASSUME TypeOK, Ownership, SettledIsAlive, [Next]_vars
             PROVE  SettledIsAlive'
  OBVIOUS
<1>1. CASE UNCHANGED vars
  BY <1>1 DEF vars, files, crate, info, thread, SettledIsAlive, Settled, Alive
<1>2. CASE \E f \in Files : FileStep(f)
  <2> PICK f \in Files : FileStep(f)
    BY <1>2
  <2>1. /\ \A g \in Files \ {f} : Settled(g)' = Settled(g)
        /\ \A i \in Remote :
             Alive(i) => Alive(i)' \/ i \in owned[f] \ Settled(f)'
        /\ \A i \in Settled(f)' \intersect Remote :
             i \in Settled(f) \/ Alive(i)'
    BY AliveByStep
  <2> SUFFICES ASSUME NEW g \in Files,
                      NEW i \in Settled(g)' \intersect Remote
               PROVE  Alive(i)'
    BY DEF SettledIsAlive, Remote, VmeIrqs, ExtIrqs
  <2>2. CASE g = f
    BY <2>1, <2>2 DEF SettledIsAlive
  <2>3. CASE g # f
    <3>1. i \in Settled(g) /\ Alive(i)
      BY <2>1, <2>3 DEF SettledIsAlive
    <3>2. i \in owned[g]
      BY <3>1 DEF Settled
    <3>3. i \notin owned[f]
      BY <3>2, <2>3 DEF Ownership, OwnersExclusive
    <3> QED BY <3>1, <3>3, <2>1
  <2> QED BY <2>2, <2>3
<1> QED BY <1>1, <1>2, NextCases, AliveBackground

-----------------------------------------------------------------------------
(* Sleepers.  Only the thread makes interrupts pending, and it wakes who   *)
(* sleeps before it does anything else.                                    *)
LEMMA SleeperBackground ==
  TypeOK /\ SleeperIsWoken /\ (Background \/ WorkerWake) => SleeperIsWoken'
<1> SUFFICES ASSUME TypeOK, SleeperIsWoken, Background \/ WorkerWake
             PROVE  SleeperIsWoken'
  OBVIOUS
<1>1. CASE Background
  BY <1>1 DEF Background, Hardware, Request, Latch, Ring, LocalEvent, Intr,
     WorkerTake, WorkerLock, WorkerBlock, WorkerPend, WorkerSignal, files,
     thread, info, SleeperIsWoken
<1>2. CASE WorkerWake
  BY <1>2 DEF WorkerWake, TypeOK, SleeperIsWoken
<1> QED BY <1>1, <1>2

LEMMA SleeperFile ==
  \A f \in Files : TypeOK /\ SleeperIsWoken /\ FileStep(f) => SleeperIsWoken'
<1> SUFFICES ASSUME NEW f \in Files, TypeOK, SleeperIsWoken, FileStep(f)
             PROVE  SleeperIsWoken'
  OBVIOUS
<1> USE DEF TypeOK, SleeperIsWoken, Step, Call, Return
<1>1. CASE Open(f)
  BY <1>1 DEF Open, crate, thread, info
<1>2. CASE \E m \in Masks, s \in Signals, a \in AutoMasks : IrqCtl(f, m, s, a)
  BY <1>2 DEF IrqCtl, crate, thread, info
<1>3. CASE CtlAck(f)
  BY <1>3 DEF CtlAck, AckIrqs, thread
<1>4. CASE CtlSet(f)
  BY <1>4 DEF CtlSet, crate, thread
<1>5. CASE CtlEnable(f)
  BY <1>5 DEF CtlEnable, thread, info
<1>6. CASE \E m \in Masks : IrqOff(f, m)
  BY <1>6 DEF IrqOff, crate, thread
<1>7. CASE OffDisable(f)
  BY <1>7 DEF OffDisable, thread, info
<1>8. CASE OffRelease(f)
  BY <1>8 DEF OffRelease, crate, thread, info
<1>9. CASE \E m \in Masks : IrqGet(f, m)
  BY <1>9 DEF IrqGet, GetIrqs, AckIrqs, thread
<1>10. CASE \E m \in Masks : IrqAck(f, m)
  BY <1>10 DEF IrqAck, AckIrqs, thread, files
<1>11. CASE \E m \in Masks : IrqWait(f, m)
  BY <1>11 DEF IrqWait, crate, thread, info
<1>12. CASE WaitCheck(f)
  BY <1>12 DEF WaitCheck, crate, thread, info
<1>13. CASE WaitGet(f)
  BY <1>13 DEF WaitGet, GetIrqs, AckIrqs, thread
<1>14. CASE Interrupted(f)
  BY <1>14 DEF Interrupted, crate, thread, info
<1>15. CASE Close(f)
  BY <1>15 DEF Close, thread, info
<1>16. CASE CloseFree(f)
  BY <1>16 DEF CloseFree, crate, thread, info
<1> QED
  BY <1>1, <1>2, <1>3, <1>4, <1>5, <1>6, <1>7, <1>8, <1>9, <1>10, <1>11,
     <1>12, <1>13, <1>14, <1>15, <1>16 DEF FileStep

-----------------------------------------------------------------------------
IInv == TypeOK /\ Ownership /\ EnabledIsKept

LEMMA Invariant == Spec => []IInv
<1>1. Init => IInv
  BY TypeInit, OwnershipInit, KeptInit DEF IInv
<1>2. IInv /\ [Next]_vars => IInv'
  BY TypeInductive, OwnershipInductive, KeptInductive DEF IInv
<1> QED BY <1>1, <1>2, PTL DEF Spec

(* The state of interrupts, thread and files is well formed for ever.      *)
THEOREM TypeCorrect == Spec => []TypeOK
<1>1. IInv => TypeOK
  BY DEF IInv
<1> QED BY <1>1, Invariant, PTL

(* reserve_irq gives an interrupt to one process only, whatever the others *)
(* do with their files meanwhile.                                          *)
THEOREM OneOwner == Spec => []OwnersExclusive
<1>1. IInv => OwnersExclusive
  BY DEF IInv, Ownership
<1> QED BY <1>1, Invariant, PTL

(* A VME level that no file has reserved is blocked in the controller.     *)
THEOREM NoStrayLevel == Spec => []UnownedIsBlocked
<1>1. IInv => UnownedIsBlocked
  BY DEF IInv, EnabledIsKept, UnownedIsBlocked, Keeps
<1> QED BY <1>1, Invariant, PTL

(* No wakeup is lost between the check of irq_wait and its sleep.          *)
THEOREM NoLostWakeup == Spec => []SleeperIsWoken
<1>1. Init => SleeperIsWoken
  BY DEF Init, SleeperIsWoken
<1>2. IInv /\ SleeperIsWoken /\ [Next]_vars => SleeperIsWoken'
  <2>1. SleeperIsWoken /\ UNCHANGED vars => SleeperIsWoken'
    BY DEF vars, files, thread, info, SleeperIsWoken
  <2> QED BY <2>1, NextCases, SleeperBackground, SleeperFile DEF IInv
<1> QED BY <1>1, <1>2, Invariant, PTL DEF Spec

(* If every process opens the device once, a crate interrupt it has        *)
(* reserved is never dead: it is enabled, pending or becoming pending.     *)
THEOREM ReservedStaysAlive ==
  ASSUME \A f, g \in Files : Pid[f] = Pid[g] => f = g
  PROVE  Spec => []ReservedIsAlive
<1>1. Init => SettledIsAlive
  BY AliveInit
<1>2. IInv /\ SettledIsAlive /\ [Next]_vars => SettledIsAlive'
  BY AliveInductive DEF IInv
<1>3. SettledIsAlive => ReservedIsAlive
  BY DEF SettledIsAlive, ReservedIsAlive, Settled, Alive, Remote, CtlSteps,
     OffSteps
<1> QED BY <1>1, <1>2, <1>3, Invariant, PTL DEF Spec
=============================================================================

-------------------------- MODULE LinkStateProofs --------------------------
(***************************************************************************)
(* Proofs about LinkState, for any set of remote types and any number of   *)
(* files and of processes that reset the remote side or transfer data.     *)
(***************************************************************************)
EXTENDS LinkState, TLAPS

(* The thread will look at the link and has not begun to, or will not      *)
(* since a transfer has taken the news away.                               *)
Due == \/ swallowed
       \/ chg \/ handler = "note" \/ timer
       \/ "up" \in command
       \/ pc[Thread] \in {"infoUp", "enable", "read", "lock"}

(* The timer is pending until the handler that set it has ended.           *)
TimerCovers == handler = "end" => timer

(* What init_remote is about to store is right or will be corrected, ...   *)
FoundIsRight == link /\ found # Invalid /\ found # peer => Due

(* ... and so is what it has stored.                                       *)
BeliefIsRight ==
  link => \/ remoteHw = peer \/ Due
          \/ pc[Thread] = "ident"
          \/ pc[Thread] = "set" /\ found = peer

(* Somebody who has not seen the present state will be told: the thread    *)
(* has yet to signal or to wake.                                           *)
WillSignal == \/ Due \/ command # {}
              \/ pc[Thread] \in {"infoDown", "ident", "set", "signal"}
WillWake == WillSignal \/ pc[Thread] = "wake"

SignalIsComing ==
  Known => \A f \in Files : sig[f] /\ old[f] # remoteHw /\ pc[f] # "ctl"
                              => told[f] \/ WillSignal

WakeIsComing ==
  Known => \A f \in Files : pc[f] = "asleep" /\ old[f] # remoteHw => WillWake

IInv == TypeOK /\ TimerCovers /\ NeverBlind

-----------------------------------------------------------------------------
LEMMA TypeInit == Init => TypeOK
BY RemotesAssumption, ActorsAssumption DEF Init, TypeOK, Types, Actors

LEMMA TypeInductive == TypeOK /\ [Next]_vars => TypeOK'
<1> SUFFICES ASSUME TypeOK, [Next]_vars PROVE TypeOK'
  OBVIOUS
<1> USE RemotesAssumption, ActorsAssumption
    DEF TypeOK, Types, Actors, InitSteps, SynchSteps, GetSteps, Step,
    Before, After
<1>1. CASE LinkDown
  BY <1>1 DEF LinkDown, intr, files
<1>2. CASE LinkUp
  BY <1>2 DEF LinkUp, intr, files
<1>3. CASE IntrRead
  BY <1>3 DEF IntrRead, optics, status, files
<1>4. CASE IntrNote
  BY <1>4 DEF IntrNote, optics, files
<1>5. CASE IntrEnd
  BY <1>5 DEF IntrEnd, optics, files
<1>6. CASE LinkUpHandler
  BY <1>6 DEF LinkUpHandler, optics, status, intr, files
<1>7. CASE ThreadTake
  BY <1>7 DEF ThreadTake, optics, status, intr, files
<1>16. CASE ThreadInfo
  BY <1>16 DEF ThreadInfo, optics, status, intr, files
<1>8. CASE SynchEnable
  BY <1>8 DEF SynchEnable, optics, intr, files
<1>9. CASE SynchRead
  BY <1>9 DEF SynchRead, optics, status, intr, files
<1>10. CASE ThreadSignal
  BY <1>10 DEF ThreadSignal, optics, status, intr
<1>11. CASE ThreadWake
  BY <1>11 DEF ThreadWake, optics, status, intr, files
<1>12. ASSUME NEW a \in Users \union {Thread}, InitRemote(a) PROVE TypeOK'
  <2>1. CASE InitLock(a)
    BY <2>1 DEF InitLock, optics, status, intr, files
  <2>2. CASE InitIdent(a)
    BY <2>2 DEF InitIdent, optics, status, intr, files
  <2>3. CASE InitSet(a)
    BY <2>3 DEF InitSet, optics, status, intr, files
  <2> QED BY <1>12, <2>1, <2>2, <2>3 DEF InitRemote
<1>13. ASSUME NEW f \in Files, File(f) PROVE TypeOK'
  <2>1. CASE Open(f)
    BY <2>1 DEF Open, Begin, SetOld, optics, status, intr
  <2>2. CASE Ctl(f)
    BY <2>2 DEF Ctl, optics, status, intr
  <2>3. CASE CtlOld(f)
    BY <2>3 DEF CtlOld, Begin, SetOld, optics, status, intr
  <2>4. CASE IrqWait(f)
    BY <2>4 DEF IrqWait, optics, status, intr, files
  <2>7. CASE GetReport(f)
    BY <2>7 DEF GetReport, optics, status, intr
  <2>9. CASE GetStore(f)
    BY <2>9 DEF GetStore, SetOld, optics, status, intr
  <2>8. CASE Interrupted(f)
    BY <2>8 DEF Interrupted, optics, status, intr, files
  <2>5. CASE IrqGet(f)
    BY <2>5 DEF IrqGet, optics, status, intr, files
  <2>6. CASE Close(f)
    BY <2>6 DEF Close, optics, status, intr
  <2> QED BY <1>13, <2>1, <2>2, <2>3, <2>4, <2>5, <2>6, <2>7, <2>8, <2>9
          DEF File
<1>14. ASSUME NEW u \in Users, User(u) PROVE TypeOK'
  <2>2. CASE TransferTest(u)
    BY <2>2 DEF TransferTest, optics, status, intr, files
  <2>3. CASE TransferLock(u)
    BY <2>3 DEF TransferLock, optics, status, intr, files
  <2>4. CASE TransferChunk(u)
    BY <2>4 DEF TransferChunk, intr, files
  <2>5. CASE TransferEnd(u)
    BY <2>5 DEF TransferEnd, optics, status, intr, files
  <2> QED BY <1>14, <2>2, <2>3, <2>4, <2>5 DEF User
<1>15. CASE UNCHANGED vars
  BY <1>15 DEF vars, optics, status, intr, files
<1> QED
  BY <1>1, <1>2, <1>3, <1>4, <1>5, <1>6, <1>7, <1>8, <1>9, <1>10, <1>11,
     <1>12, <1>13, <1>14, <1>15, <1>16 DEF Next, Handler, Worker

(* What a call of a file leaves alone, ...                                 *)
LEMMA FileFrame ==
  ASSUME TypeOK, NEW f \in Files, File(f)
  PROVE  /\ UNCHANGED <<link, peer, swallowed, chg, en, handler, sawUp, timer,
                        command, remoteHw, hw, found>>
         /\ pc'[Thread] = pc[Thread]
BY ActorsAssumption DEF TypeOK, Actors, Step, File, Open, Ctl, CtlOld, IrqWait,
   IrqGet, GetReport, GetStore, Interrupted, Close, Begin, SetOld, optics, status, intr

(* ... and what a reset or a transfer does: it never disables the          *)
(* interrupt, and takes news away only in the open.                        *)
LEMMA UserFrame ==
  ASSUME TypeOK, TimerCovers, NEW u \in Users, User(u)
  PROVE  /\ UNCHANGED <<link, peer, handler, sawUp, timer, command, remoteHw,
                        found, files>>
         /\ \A a \in Files \union {Thread} : pc'[a] = pc[a]
         /\ en => en'
         /\ Due => Due'
<1> USE ActorsAssumption
    DEF TypeOK, Actors, Step, Due, optics, status, intr, files
<1>1. CASE TransferTest(u)
  BY <1>1 DEF TransferTest
<1>2. CASE TransferLock(u) \/ TransferEnd(u)
  BY <1>2 DEF TransferLock, TransferEnd
<1>3. CASE TransferChunk(u)
  BY <1>3 DEF TransferChunk, TimerCovers
<1> QED BY <1>1, <1>2, <1>3 DEF User

-----------------------------------------------------------------------------
(* The driver never goes blind.                                            *)
LEMMA TimerInductive == TypeOK /\ TimerCovers /\ [Next]_vars => TimerCovers'
<1> SUFFICES ASSUME TypeOK, TimerCovers, [Next]_vars PROVE TimerCovers'
  OBVIOUS
<1>1. CASE LinkDown \/ LinkUp \/ Handler
  BY <1>1 DEF LinkDown, LinkUp, Handler, IntrRead, IntrNote, IntrEnd,
     LinkUpHandler, intr, TimerCovers
<1>2. CASE Worker
  BY <1>2 DEF Worker, ThreadTake, ThreadInfo, SynchEnable, SynchRead, ThreadSignal,
     ThreadWake, intr, TimerCovers
<1>3. ASSUME NEW a \in Users \union {Thread}, InitRemote(a) PROVE TimerCovers'
  BY <1>3 DEF InitRemote, InitLock, InitIdent, InitSet, intr, TimerCovers
<1>4. ASSUME NEW f \in Files, File(f) PROVE TimerCovers'
  BY <1>4, FileFrame DEF TimerCovers
<1>5. ASSUME NEW u \in Users, User(u) PROVE TimerCovers'
  BY <1>5, UserFrame DEF TimerCovers
<1>6. CASE UNCHANGED vars
  BY <1>6 DEF vars, intr, TimerCovers
<1> QED BY <1>1, <1>2, <1>3, <1>4, <1>5, <1>6 DEF Next

LEMMA BlindInductive == TypeOK /\ TimerCovers /\ NeverBlind /\ [Next]_vars => NeverBlind'
<1> SUFFICES ASSUME TypeOK, TimerCovers, NeverBlind, [Next]_vars
             PROVE  NeverBlind'
  OBVIOUS
<1> USE ActorsAssumption DEF TypeOK, NeverBlind, Actors, Step
<1>1. CASE LinkDown \/ LinkUp
  BY <1>1 DEF LinkDown, LinkUp
<1>2. CASE Handler
  BY <1>2 DEF Handler, IntrRead, IntrNote, IntrEnd, LinkUpHandler, status
<1>3. CASE Worker
  BY <1>3 DEF Worker, ThreadTake, ThreadInfo, SynchEnable, SynchRead, ThreadSignal,
     ThreadWake, status
<1>4. ASSUME NEW a \in Users \union {Thread}, InitRemote(a) PROVE NeverBlind'
  BY <1>4 DEF InitRemote, InitLock, InitIdent, InitSet, Before, After, status
<1>5. ASSUME NEW f \in Files, File(f) PROVE NeverBlind'
  BY <1>5, FileFrame
<1>6. ASSUME NEW u \in Users, User(u) PROVE NeverBlind'
  BY <1>6, UserFrame
<1>7. CASE UNCHANGED vars
  BY <1>7 DEF vars, status
<1> QED BY <1>1, <1>2, <1>3, <1>4, <1>5, <1>6, <1>7 DEF Next

LEMMA Invariant == Spec => []IInv
<1>1. Init => IInv
  BY TypeInit DEF Init, IInv, TimerCovers, NeverBlind
<1>2. IInv /\ [Next]_vars => IInv'
  BY TypeInductive, TimerInductive, BlindInductive DEF IInv
<1> QED BY <1>1, <1>2, PTL DEF Spec

(* Link, handler, thread and files stay well formed; sem_hw is held by the *)
(* one that is inside init_remote, and released on its error path.         *)
THEOREM TypeCorrect == Spec => []TypeOK
<1>1. IInv => TypeOK
  BY DEF IInv
<1> QED BY <1>1, Invariant, PTL

(* Whenever the interrupt for link changes is disabled, the timer or the   *)
(* thread is on its way to enable it.                                      *)
THEOREM DriverNeverBlind == Spec => []NeverBlind
<1>1. IInv => NeverBlind
  BY DEF IInv
<1> QED BY <1>1, Invariant, PTL

-----------------------------------------------------------------------------
(* What is believed of a link that is up.                                  *)
LEMMA FoundInductive ==
  IInv /\ FoundIsRight /\ [Next]_vars => FoundIsRight'
<1> SUFFICES ASSUME IInv, FoundIsRight, [Next]_vars PROVE FoundIsRight'
  OBVIOUS
<1> USE RemotesAssumption, ActorsAssumption
    DEF IInv, TypeOK, TimerCovers, FoundIsRight, Due, Actors, Types, Step,
    Before, After
<1>1. CASE LinkDown
  BY <1>1 DEF LinkDown, intr, files
<1>2. CASE LinkUp
  BY <1>2 DEF LinkUp, intr, files
<1>3. CASE IntrRead
  BY <1>3 DEF IntrRead, optics, status, files
<1>4. CASE IntrNote
  BY <1>4 DEF IntrNote, optics, files
<1>5. CASE IntrEnd
  BY <1>5 DEF IntrEnd, optics, files
<1>6. CASE LinkUpHandler
  BY <1>6 DEF LinkUpHandler, optics, status, intr, files
<1>7. CASE ThreadTake \/ ThreadInfo
  BY <1>7 DEF ThreadTake, ThreadInfo, optics, status, intr, files
<1>8. CASE SynchEnable
  BY <1>8 DEF SynchEnable, optics, intr, files
<1>9. CASE SynchRead
  BY <1>9 DEF SynchRead, optics, status, intr, files
<1>10. CASE ThreadSignal
  BY <1>10 DEF ThreadSignal, optics, status, intr
<1>11. CASE ThreadWake
  BY <1>11 DEF ThreadWake, optics, status, intr, files
<1>12. ASSUME NEW a \in Users \union {Thread}, InitRemote(a) PROVE FoundIsRight'
  BY <1>12 DEF InitRemote, InitLock, InitIdent, InitSet, optics, status, intr
<1>13. ASSUME NEW f \in Files, File(f) PROVE FoundIsRight'
  BY <1>13, FileFrame
<1>14. ASSUME NEW u \in Users, User(u) PROVE FoundIsRight'
  BY <1>14, UserFrame
<1>15. CASE UNCHANGED vars
  BY <1>15 DEF vars, optics, status, intr
<1> QED
  BY <1>1, <1>2, <1>3, <1>4, <1>5, <1>6, <1>7, <1>8, <1>9, <1>10, <1>11,
     <1>12, <1>13, <1>14, <1>15 DEF Next, Handler, Worker

LEMMA BeliefInductive ==
  ASSUME ~InitMayFail
  PROVE  IInv /\ FoundIsRight /\ BeliefIsRight /\ [Next]_vars => BeliefIsRight'
<1> SUFFICES ASSUME IInv, FoundIsRight, BeliefIsRight, [Next]_vars
             PROVE  BeliefIsRight'
  OBVIOUS
<1> USE RemotesAssumption, ActorsAssumption
    DEF IInv, TypeOK, TimerCovers, FoundIsRight, BeliefIsRight, Due, Actors,
    Types, Step, Before, After
<1>1. CASE LinkDown
  BY <1>1 DEF LinkDown, intr, files
<1>2. CASE LinkUp
  BY <1>2 DEF LinkUp, intr, files
<1>3. CASE IntrRead
  BY <1>3 DEF IntrRead, optics, status, files
<1>4. CASE IntrNote
  BY <1>4 DEF IntrNote, optics, files
<1>5. CASE IntrEnd
  BY <1>5 DEF IntrEnd, optics, files
<1>6. CASE LinkUpHandler
  BY <1>6 DEF LinkUpHandler, optics, status, intr, files
<1>7. CASE ThreadTake \/ ThreadInfo
  BY <1>7 DEF ThreadTake, ThreadInfo, optics, status, intr, files
<1>8. CASE SynchEnable
  BY <1>8 DEF SynchEnable, optics, intr, files
<1>9. CASE SynchRead
  BY <1>9 DEF SynchRead, optics, status, intr, files
<1>10. CASE ThreadSignal
  BY <1>10 DEF ThreadSignal, optics, status, intr
<1>11. CASE ThreadWake
  BY <1>11 DEF ThreadWake, optics, status, intr, files
<1>12. ASSUME NEW a \in Users \union {Thread}, InitRemote(a) PROVE BeliefIsRight'
  <2>1. CASE InitLock(a)
    BY <2>1 DEF InitLock, optics, status, intr
  <2>2. CASE InitIdent(a)
    BY <2>2 DEF InitIdent, optics, status, intr
  <2>3. CASE InitSet(a)
    BY <2>3 DEF InitSet, optics, status, intr
  <2> QED BY <1>12, <2>1, <2>2, <2>3 DEF InitRemote
<1>13. ASSUME NEW f \in Files, File(f) PROVE BeliefIsRight'
  BY <1>13, FileFrame
<1>14. ASSUME NEW u \in Users, User(u) PROVE BeliefIsRight'
  BY <1>14, UserFrame
<1>15. CASE UNCHANGED vars
  BY <1>15 DEF vars, optics, status, intr
<1> QED
  BY <1>1, <1>2, <1>3, <1>4, <1>5, <1>6, <1>7, <1>8, <1>9, <1>10, <1>11,
     <1>12, <1>13, <1>14, <1>15 DEF Next, Handler, Worker

-----------------------------------------------------------------------------
(* Who has not seen the present state of a link the driver is right about  *)
(* will be woken.                                                          *)
LEMMA WakeInductive ==
  ASSUME ~InitMayFail
  PROVE  IInv /\ FoundIsRight /\ BeliefIsRight /\ WakeIsComing
           /\ [Next]_vars => WakeIsComing'
<1> SUFFICES ASSUME IInv, FoundIsRight, BeliefIsRight, WakeIsComing,
                    [Next]_vars
             PROVE  WakeIsComing'
  OBVIOUS
<1> USE RemotesAssumption, ActorsAssumption
    DEF IInv, TypeOK, TimerCovers, FoundIsRight, BeliefIsRight, Due,
    WillSignal, WillWake, WakeIsComing, Known, Actors, Types, Step,
    Before, After
<1>1. CASE LinkDown
  BY <1>1 DEF LinkDown, intr, files
<1>2. CASE LinkUp
  BY <1>2 DEF LinkUp, intr, files
<1>3. CASE IntrRead
  BY <1>3 DEF IntrRead, optics, status, files
<1>4. CASE IntrNote
  BY <1>4 DEF IntrNote, optics, files
<1>5. CASE IntrEnd
  BY <1>5 DEF IntrEnd, optics, files
<1>6. CASE LinkUpHandler
  BY <1>6 DEF LinkUpHandler, optics, status, intr, files
<1>7. CASE ThreadTake \/ ThreadInfo
  BY <1>7 DEF ThreadTake, ThreadInfo, optics, status, intr, files
<1>8. CASE SynchEnable
  BY <1>8 DEF SynchEnable, optics, intr, files
<1>9. CASE SynchRead
  BY <1>9 DEF SynchRead, optics, status, intr, files
<1>10. CASE ThreadSignal
  BY <1>10 DEF ThreadSignal, optics, status, intr
<1>11. CASE ThreadWake
  BY <1>11 DEF ThreadWake, optics, status, intr, files
<1>12. ASSUME NEW a \in Users \union {Thread}, InitRemote(a) PROVE WakeIsComing'
  <2>1. CASE InitLock(a)
    BY <2>1 DEF InitLock, optics, status, intr, files
  <2>2. CASE InitIdent(a)
    BY <2>2 DEF InitIdent, optics, status, intr, files
  <2>3. CASE InitSet(a)
    BY <2>3 DEF InitSet, optics, status, intr, files
  <2> QED BY <1>12, <2>1, <2>2, <2>3 DEF InitRemote
<1>13. ASSUME NEW f \in Files, File(f) PROVE WakeIsComing'
  <2>1. CASE Open(f)
    BY <2>1 DEF Open, Begin, SetOld, optics, status, intr
  <2>2. CASE Ctl(f)
    BY <2>2 DEF Ctl, optics, status, intr
  <2>3. CASE CtlOld(f)
    BY <2>3 DEF CtlOld, Begin, SetOld, optics, status, intr
  <2>4. CASE IrqWait(f) \/ Interrupted(f)
    BY <2>4 DEF IrqWait, Interrupted, optics, status, intr, files
  <2>5. CASE IrqGet(f) \/ GetReport(f)
    BY <2>5 DEF IrqGet, GetReport, optics, status, intr, files
  <2>6. CASE GetStore(f)
    BY <2>6 DEF GetStore, SetOld, optics, status, intr
  <2>7. CASE Close(f)
    BY <2>7 DEF Close, optics, status, intr
  <2> QED BY <1>13, <2>1, <2>2, <2>3, <2>4, <2>5, <2>6, <2>7 DEF File
<1>14. ASSUME NEW u \in Users, User(u) PROVE WakeIsComing'
  BY <1>14, UserFrame DEF files
<1>15. CASE UNCHANGED vars
  BY <1>15 DEF vars, optics, status, intr, files
<1> QED
  BY <1>1, <1>2, <1>3, <1>4, <1>5, <1>6, <1>7, <1>8, <1>9, <1>10, <1>11,
     <1>12, <1>13, <1>14, <1>15 DEF Next, Handler, Worker

LEMMA SignalInductive ==
  ASSUME ~InitMayFail
  PROVE  IInv /\ FoundIsRight /\ BeliefIsRight /\ SignalIsComing /\ [Next]_vars
           => SignalIsComing'
<1> SUFFICES ASSUME IInv, FoundIsRight, BeliefIsRight, SignalIsComing,
                    [Next]_vars
             PROVE  SignalIsComing'
  OBVIOUS
<1> USE RemotesAssumption, ActorsAssumption
    DEF IInv, TypeOK, TimerCovers, FoundIsRight, BeliefIsRight, Due,
    WillSignal, SignalIsComing, Known, Actors, Types, Step,
    Before, After
<1>1. CASE LinkDown
  BY <1>1 DEF LinkDown, intr, files
<1>2. CASE LinkUp
  BY <1>2 DEF LinkUp, intr, files
<1>3. CASE IntrRead
  BY <1>3 DEF IntrRead, optics, status, files
<1>4. CASE IntrNote
  BY <1>4 DEF IntrNote, optics, files
<1>5. CASE IntrEnd
  BY <1>5 DEF IntrEnd, optics, files
<1>6. CASE LinkUpHandler
  BY <1>6 DEF LinkUpHandler, optics, status, intr, files
<1>7. CASE ThreadTake \/ ThreadInfo
  BY <1>7 DEF ThreadTake, ThreadInfo, optics, status, intr, files
<1>8. CASE SynchEnable
  BY <1>8 DEF SynchEnable, optics, intr, files
<1>9. CASE SynchRead
  BY <1>9 DEF SynchRead, optics, status, intr, files
<1>10. CASE ThreadSignal
  BY <1>10 DEF ThreadSignal, optics, status, intr
<1>11. CASE ThreadWake
  BY <1>11 DEF ThreadWake, optics, status, intr, files
<1>12. ASSUME NEW a \in Users \union {Thread}, InitRemote(a) PROVE SignalIsComing'
  <2>1. CASE InitLock(a)
    BY <2>1 DEF InitLock, optics, status, intr, files
  <2>2. CASE InitIdent(a)
    BY <2>2 DEF InitIdent, optics, status, intr, files
  <2>3. CASE InitSet(a)
    BY <2>3 DEF InitSet, optics, status, intr, files
  <2> QED BY <1>12, <2>1, <2>2, <2>3 DEF InitRemote
<1>13. ASSUME NEW f \in Files, File(f) PROVE SignalIsComing'
  <2>1. CASE Open(f)
    BY <2>1 DEF Open, Begin, SetOld, optics, status, intr
  <2>2. CASE Ctl(f)
    BY <2>2 DEF Ctl, optics, status, intr
  <2>3. CASE CtlOld(f)
    BY <2>3 DEF CtlOld, Begin, SetOld, optics, status, intr
  <2>4. CASE IrqWait(f) \/ Interrupted(f)
    BY <2>4 DEF IrqWait, Interrupted, optics, status, intr, files
  <2>5. CASE IrqGet(f) \/ GetReport(f)
    BY <2>5 DEF IrqGet, GetReport, optics, status, intr, files
  <2>6. CASE GetStore(f)
    BY <2>6 DEF GetStore, SetOld, optics, status, intr
  <2>7. CASE Close(f)
    BY <2>7 DEF Close, optics, status, intr
  <2> QED BY <1>13, <2>1, <2>2, <2>3, <2>4, <2>5, <2>6, <2>7 DEF File
<1>14. ASSUME NEW u \in Users, User(u) PROVE SignalIsComing'
  BY <1>14, UserFrame DEF files
<1>15. CASE UNCHANGED vars
  BY <1>15 DEF vars, optics, status, intr, files
<1> QED
  BY <1>1, <1>2, <1>3, <1>4, <1>5, <1>6, <1>7, <1>8, <1>9, <1>10, <1>11,
     <1>12, <1>13, <1>14, <1>15 DEF Next, Handler, Worker

LEMMA News ==
  ASSUME ~InitMayFail
  PROVE  Spec => [](BeliefIsRight /\ WakeIsComing /\ SignalIsComing)
<1> DEFINE I == FoundIsRight /\ BeliefIsRight /\ WakeIsComing /\ SignalIsComing
<1>1. Init => I
  BY DEF Init, FoundIsRight, BeliefIsRight, WakeIsComing, SignalIsComing,
     Actors
<1>2. IInv /\ I /\ [Next]_vars => I'
  BY FoundInductive, BeliefInductive, WakeInductive, SignalInductive
<1>3. I => BeliefIsRight /\ WakeIsComing /\ SignalIsComing
  OBVIOUS
<1> QED BY <1>1, <1>2, <1>3, Invariant, PTL DEF Spec

(* If the remote side answers, then a link that is up and has settled is   *)
(* known for what it is, however often the link bounced, whatever was      *)
(* plugged in and whoever reset it or transferred data meanwhile, unless   *)
(* a transfer has cleared irq_synch_chg before the handler saw it.         *)
THEOREM SettledUpIsKnown == ASSUME ~InitMayFail PROVE Spec => []UpIsKnown
<1>1. BeliefIsRight => UpIsKnown
  BY DEF BeliefIsRight, UpIsKnown, Settled, Quiet, Due
<1> QED BY <1>1, News, PTL

(* Nobody sleeps in irq_wait over a change of the remote side that it was  *)
(* not shown, unless irq_get has overwritten it between report and store,  *)
THEOREM NobodyOversleeps == ASSUME ~InitMayFail PROVE Spec => []SleeperHasSeen
<1>1. WakeIsComing => SleeperHasSeen
  BY DEF WakeIsComing, SleeperHasSeen, Overwritten, WillWake, WillSignal,
     Settled, Quiet, Due
<1> QED BY <1>1, News, PTL

(* ... and who wants signals has been sent one, with the same exception.   *)
THEOREM EverybodyIsTold == ASSUME ~InitMayFail PROVE Spec => []ChangeIsSignalled
<1>1. SignalIsComing => ChangeIsSignalled
  BY DEF SignalIsComing, ChangeIsSignalled, Overwritten, WillSignal, Settled,
     Quiet, Due
<1> QED BY <1>1, News, PTL
=============================================================================

-------------------------- MODULE TransfersProofs --------------------------
(***************************************************************************)
(* Proofs about Transfers, for any number of processes, any length of the  *)
(* send FIFO and of pipes; on several CPUs only the types, sem_hw and the  *)
(* FIFO, since the handler may there store events of an older transfer.    *)
(***************************************************************************)
EXTENDS Transfers, TLAPS

(* While a read is prepared nothing is left of earlier ones: the channel   *)
(* is armed, its interrupt not latched, got_dma0 not set.  A request that  *)
(* is under way has a reader, who has not been told that it is done.  What *)
(* the handler has read of the channel is still true when it stores it.    *)
ReadIsOwned ==
  /\ req \in {"read", "write"} => busy
  /\ \A u \in Users :
       pc[u] \in {"r_go", "r_enable", "r_start"}
         => ~done /\ req \notin {"read", "write"}
  /\ \A u \in Users :
       pc[u] \in {"r_enable", "r_start"} => busy /\ "dma0" \notin got
  /\ req = "read" => /\ hw # Nobody /\ pc[hw] \in {"r_wait", "r_end"}
                     /\ ~done /\ "dma0" \notin got
  /\ handler \in {"dma", "take"} => done

(* From sis1100_enable_irq of a write to its end nothing but its own       *)
(* confirmation sets irq_prot_end: nobody else has requests on the way.    *)
EndIsOwn ==
  /\ req = "drained" => Awaited
  /\ \A u \in Users :
       /\ pc[u] \in {"w_enable", "w_clear", "w_start", "w_wait", "w_end"}
            => out = 0
       /\ pc[u] \in {"w_clear", "w_start"} /\ ~late => "end" \notin sr
       /\ pc[u] = "w_start" /\ ~late => "end" \notin got
       /\ pc[u] \in {"w_wait", "w_end"} /\ ~late /\ "end" \in sr \union got
            => req = "none"
  /\ handler \in {"change", "store"} /\ "end" \in seen => "end" \in sr

(* cc is never less than what the loop has on the way, unless the FIFO has *)
(* been found empty.                                                       *)
CountIsBound ==
  \A u \in Users :
    /\ pc[u] = "l_send" => out <= cc + left /\ out <= FifoLen - 1 + left
    /\ pc[u] \in {"l_fifo", "l_drain"} => out <= FifoLen + left

-----------------------------------------------------------------------------
LEMMA TypeInit == Init => TypeOK
<1> SUFFICES ASSUME Init PROVE TypeOK
  OBVIOUS
<1>1. Flags
  BY DEF Init, Flags
<1>2. Data
  BY LenAssumption DEF Init, Data, Bits
<1>3. Holder
  BY UsersAssumption
     DEF Init, Holder, Inside, ReadSteps, WriteSteps, PipeSteps, LoopSteps
<1> QED
  BY <1>1, <1>2, <1>3 DEF TypeOK

(* Values: every assignment keeps the type of its variable.                *)
LEMMA ValuesInductive == TypeOK /\ [Next]_vars => Flags' /\ Data'
<1> SUFFICES ASSUME TypeOK, [Next]_vars PROVE Flags' /\ Data'
  OBVIOUS
<1> USE LenAssumption DEF TypeOK, Flags, Data, Bits
<1>1. CASE OtherEvent
  BY <1>1 DEF OtherEvent, far, channel, balance, intr, news, locals
<1>2. CASE ReadDone
  BY <1>2 DEF ReadDone, far, chip, balance, intr, news, locals
<1>3. CASE WriteDrained
  BY <1>3 DEF WriteDrained, chip, balance, intr, news, locals, Awaited
<1>4. CASE WriteConfirmed
  BY <1>4 DEF WriteConfirmed, far, balance, intr, news, locals
<1>5. CASE LateConfirmed
  BY <1>5 DEF LateConfirmed, far, channel, balance, intr, news, locals
<1>6. CASE Fails
  BY <1>6 DEF Fails, far, balance, intr, news, locals
<1>7. CASE Answer
  BY <1>7 DEF Answer, far, channel, intr, news, locals
<1>8. CASE LinkDown
  <2>1. Flags'
    BY <1>8 DEF LinkDown, intr, news, locals
  <2>2. Data'
    BY <1>8 DEF LinkDown, intr, news, locals
  <2> QED
    BY <2>1, <2>2
<1>9. CASE LinkUp
  BY <1>9 DEF LinkUp, channel, balance, intr, news, locals
<1>10. CASE IntrEnter
  BY <1>10 DEF IntrEnter, far, chip, channel, balance, news, locals
<1>40. CASE IntrDma
  BY <1>40 DEF IntrDma, far, chip, balance, news, locals
<1>41. CASE IntrTake
  BY <1>41 DEF IntrTake, Return, far, chip, channel, balance, news, locals
<1>42. CASE IntrStatus
  BY <1>42 DEF IntrStatus, far, chip, channel, balance, news, locals
<1>43. CASE IntrChange
  BY <1>43 DEF IntrChange, far, channel, balance, news, locals
<1>44. CASE IntrStore
  BY <1>44 DEF IntrStore, Events, far, chip, channel, balance, locals
<1>11. CASE IntrClear
  BY <1>11 DEF IntrClear, Return, far, channel, balance, news, locals
<1>12. CASE SynchHandler
  <2>1. Flags'
    BY <1>12 DEF SynchHandler, far, channel, balance, intr, locals,
       ClearAndEnable, Clear
  <2>2. Data'
    BY <1>12 DEF SynchHandler, far, channel, balance, intr, locals,
       ClearAndEnable, Clear
  <2> QED
    BY <2>1, <2>2
<1>13. CASE InitRemote
  BY <1>13 DEF InitRemote, far, chip, channel, intr, locals, CanRun,
       DmaActive, LocalActive
<1>14. ASSUME NEW u \in Users, Test(u) PROVE Flags' /\ Data'
  BY <1>14 DEF Test, far, chip, channel, balance, intr, news, locals, At,
       Goto, CanRun, DmaActive, LocalActive
<1>15. ASSUME NEW u \in Users, Lock(u) PROVE Flags' /\ Data'
  BY <1>15 DEF Lock, far, chip, channel, balance, intr, news, locals, At,
       Goto, CanRun, DmaActive, LocalActive
<1>16. ASSUME NEW u \in Users, Word(u) PROVE Flags' /\ Data'
  BY <1>16 DEF Word, far, channel, balance, intr, news, locals, At, CanRun,
       DmaActive, LocalActive
<1>17. ASSUME NEW u \in Users, ReadCheck(u) PROVE Flags' /\ Data'
  <2>1. Flags'
    BY <1>17 DEF ReadCheck, far, chip, balance, intr, news, At, Goto, Leave,
       Stay, CanRun, DmaActive, LocalActive, locals
  <2>2. Data'
    BY <1>17 DEF ReadCheck, far, chip, balance, intr, news, At, Goto, Leave,
       Stay, CanRun, DmaActive, LocalActive, locals
  <2> QED
    BY <2>1, <2>2
<1>18. ASSUME NEW u \in Users, ReadGo(u) PROVE Flags' /\ Data'
  BY <1>18 DEF ReadGo, far, chip, balance, intr, news, locals, At, Goto,
       CanRun, DmaActive, LocalActive
<1>19. ASSUME NEW u \in Users, ReadEnable(u) PROVE Flags' /\ Data'
  BY <1>19 DEF ReadEnable, far, balance, intr, news, locals, ClearAndEnable,
       At, Goto, Clear, CanRun, DmaActive, LocalActive
<1>20. ASSUME NEW u \in Users, ReadStart(u) PROVE Flags' /\ Data'
  BY <1>20 DEF ReadStart, far, balance, intr, news, locals, At, Goto,
       CanRun, DmaActive, LocalActive
<1>21. ASSUME NEW u \in Users, ReadWake(u) PROVE Flags' /\ Data'
  <2>1. Flags'
    BY <1>21 DEF ReadWake, far, balance, intr, news, At, Goto
  <2>2. Data'
    BY <1>21 DEF ReadWake, far, balance, intr, news, At, Goto
  <2> QED
    BY <2>1, <2>2
<1>22. ASSUME NEW u \in Users, ReadEnd(u) PROVE Flags' /\ Data'
  <2>1. Flags'
    BY <1>22 DEF ReadEnd, far, chip, balance, intr, news, At, Goto, Leave,
       Stay, CanRun, DmaActive, LocalActive, locals
  <2>2. Data'
    BY <1>22 DEF ReadEnd, far, chip, balance, intr, news, At, Goto, Leave,
       Stay, CanRun, DmaActive, LocalActive, locals
  <2> QED
    BY <2>1, <2>2
<1>23. ASSUME NEW u \in Users, WriteCheck(u) PROVE Flags' /\ Data'
  <2>1. Flags'
    BY <1>23 DEF WriteCheck, far, chip, balance, intr, news, At, Goto, Leave,
       Stay, CanRun, DmaActive, LocalActive, locals
  <2>2. Data'
    BY <1>23 DEF WriteCheck, far, chip, balance, intr, news, At, Goto, Leave,
       Stay, CanRun, DmaActive, LocalActive, locals
  <2> QED
    BY <2>1, <2>2
<1>24. ASSUME NEW u \in Users, WriteEnable(u) PROVE Flags' /\ Data'
  BY <1>24 DEF WriteEnable, far, channel, balance, intr, news, locals,
       ClearAndEnable, At, Goto, Clear, CanRun, DmaActive, LocalActive
<1>25. ASSUME NEW u \in Users, WriteClear(u) PROVE Flags' /\ Data'
  BY <1>25 DEF WriteClear, far, chip, channel, balance, intr, news, locals,
       At, Goto, CanRun, DmaActive, LocalActive
<1>26. ASSUME NEW u \in Users, WriteStart(u) PROVE Flags' /\ Data'
  BY <1>26 DEF WriteStart, far, balance, intr, news, locals, At, Goto,
       CanRun, DmaActive, LocalActive
<1>27. ASSUME NEW u \in Users, WriteWake(u) PROVE Flags' /\ Data'
  BY <1>27 DEF WriteWake, far, channel, balance, intr, news, At, Goto,
       CanRun, DmaActive, LocalActive
<1>28. ASSUME NEW u \in Users, WriteEnd(u) PROVE Flags' /\ Data'
  <2>1. Flags'
    BY <1>28 DEF WriteEnd, chip, balance, intr, news, At, Goto, Leave, Stay,
       CanRun, DmaActive, LocalActive, locals
  <2>2. Data'
    BY <1>28 DEF WriteEnd, chip, balance, intr, news, At, Goto, Leave, Stay,
       CanRun, DmaActive, LocalActive, locals
  <2> QED
    BY <2>1, <2>2
<1>29. ASSUME NEW u \in Users, PipeSend(u) PROVE Flags' /\ Data'
  BY <1>29 DEF PipeSend, far, channel, intr, news, locals, At, Goto, CanRun,
       DmaActive, LocalActive
<1>30. ASSUME NEW u \in Users, PipeClear(u) PROVE Flags' /\ Data'
  BY <1>30 DEF PipeClear, far, chip, channel, balance, intr, news, locals,
       At, Goto, CanRun, DmaActive, LocalActive
<1>31. ASSUME NEW u \in Users, PipeEnable(u) PROVE Flags' /\ Data'
  BY <1>31 DEF PipeEnable, far, channel, balance, intr, news, locals,
       ClearAndEnable, At, Goto, Clear, CanRun, DmaActive, LocalActive
<1>32. ASSUME NEW u \in Users, PipeWait(u) PROVE Flags' /\ Data'
  BY <1>32 DEF PipeWait, far, chip, channel, balance, intr, news, locals,
       At, Goto, CanRun, DmaActive, LocalActive
<1>33. ASSUME NEW u \in Users, PipeSignal(u) PROVE Flags' /\ Data'
  BY <1>33 DEF PipeSignal, far, chip, channel, balance, intr, news, At,
       Goto, CanRun, DmaActive, LocalActive
<1>34. ASSUME NEW u \in Users, PipeEnd(u) PROVE Flags' /\ Data'
  <2>1. Flags'
    BY <1>34 DEF PipeEnd, far, channel, balance, intr, news, At, Leave,
       CanRun, DmaActive, LocalActive, Goto
  <2>2. Data'
    BY <1>34 DEF PipeEnd, far, channel, balance, intr, news, At, Leave,
       CanRun, DmaActive, LocalActive, Goto
  <2> QED
    BY <2>1, <2>2
<1>35. ASSUME NEW u \in Users, LoopBegin(u) PROVE Flags' /\ Data'
  BY <1>35 DEF LoopBegin, far, channel, balance, intr, news, Clear, At,
       Goto, CanRun, DmaActive, LocalActive
<1>36. ASSUME NEW u \in Users, LoopSend(u) PROVE Flags' /\ Data'
  BY <1>36 DEF LoopSend, far, channel, intr, news, At, Goto, NextWord,
       CanRun, DmaActive, LocalActive
<1>37. ASSUME NEW u \in Users, LoopFifo(u) PROVE Flags' /\ Data'
  BY <1>37 DEF LoopFifo, far, chip, channel, balance, intr, news, At, Goto,
       NextWord, CanRun, DmaActive, LocalActive
<1>38. ASSUME NEW u \in Users, LoopDrain(u) PROVE Flags' /\ Data'
  <2>1. Flags'
    BY <1>38 DEF LoopDrain, far, chip, channel, intr, news, At, Leave, CanRun,
       DmaActive, LocalActive, Goto
  <2>2. Data'
    BY <1>38 DEF LoopDrain, far, chip, channel, intr, news, At, Leave, CanRun,
       DmaActive, LocalActive, Goto
  <2> QED
    BY <2>1, <2>2
<1>39. CASE UNCHANGED vars
  BY <1>39 DEF vars, far, chip, channel, balance, intr, news, locals
<1> QED
  BY <1>1, <1>2, <1>3, <1>4, <1>5, <1>6, <1>7, <1>8, <1>9, <1>10, <1>11,
       <1>12, <1>13, <1>14, <1>15, <1>16, <1>17, <1>18, <1>19, <1>20, <1>21,
       <1>22, <1>23, <1>24, <1>25, <1>26, <1>27, <1>28, <1>29, <1>30, <1>31,
       <1>32, <1>33, <1>34, <1>35, <1>36, <1>37, <1>38, <1>39, <1>40, <1>41,
       <1>42, <1>43, <1>44
     DEF Next, Hardware, Handler, Thread, User, Read, Write, Pipe, Loop

(* sem_hw: a process that goes inside takes it, one that leaves returns it.*)
LEMMA HolderInductive == TypeOK /\ [Next]_vars => Holder'
<1> SUFFICES ASSUME TypeOK, [Next]_vars PROVE Holder'
  OBVIOUS
<1> USE UsersAssumption
    DEF TypeOK, Holder, Inside, ReadSteps, WriteSteps, PipeSteps, LoopSteps,
        LockSteps
<1>1. CASE OtherEvent
  BY <1>1 DEF OtherEvent, far, channel, balance, intr, news, locals
<1>2. CASE ReadDone
  BY <1>2 DEF ReadDone, far, chip, balance, intr, news, locals
<1>3. CASE WriteDrained
  BY <1>3 DEF WriteDrained, chip, balance, intr, news, locals, Awaited
<1>4. CASE WriteConfirmed
  BY <1>4 DEF WriteConfirmed, far, balance, intr, news, locals
<1>5. CASE LateConfirmed
  BY <1>5 DEF LateConfirmed, far, channel, balance, intr, news, locals
<1>6. CASE Fails
  BY <1>6 DEF Fails, far, balance, intr, news, locals
<1>7. CASE Answer
  BY <1>7 DEF Answer, far, channel, intr, news, locals
<1>8. CASE LinkDown
  BY <1>8 DEF LinkDown, intr, news, locals
<1>9. CASE LinkUp
  BY <1>9 DEF LinkUp, channel, balance, intr, news, locals
<1>10. CASE IntrEnter
  BY <1>10 DEF IntrEnter, far, chip, channel, balance, news, locals
<1>40. CASE IntrDma
  BY <1>40 DEF IntrDma, far, chip, balance, news, locals
<1>41. CASE IntrTake
  BY <1>41 DEF IntrTake, Return, far, chip, channel, balance, news, locals
<1>42. CASE IntrStatus
  BY <1>42 DEF IntrStatus, far, chip, channel, balance, news, locals
<1>43. CASE IntrChange
  BY <1>43 DEF IntrChange, far, channel, balance, news, locals
<1>44. CASE IntrStore
  BY <1>44 DEF IntrStore, Events, far, chip, channel, balance, locals
<1>11. CASE IntrClear
  BY <1>11 DEF IntrClear, Return, far, channel, balance, news, locals
<1>12. CASE SynchHandler
  BY <1>12 DEF SynchHandler, far, channel, balance, intr, locals, CanRun,
       ClearAndEnable, DmaActive, LocalActive, Clear
<1>13. CASE InitRemote
  BY <1>13 DEF InitRemote, far, chip, channel, intr, locals, CanRun,
       DmaActive, LocalActive
<1>14. ASSUME NEW u \in Users, Test(u) PROVE Holder'
  BY <1>14 DEF Test, far, chip, channel, balance, intr, news, locals, At,
       Goto, CanRun, DmaActive, LocalActive
<1>15. ASSUME NEW u \in Users, Lock(u) PROVE Holder'
  BY <1>15 DEF Lock, far, chip, channel, balance, intr, news, locals, At,
       Goto, CanRun, DmaActive, LocalActive
<1>16. ASSUME NEW u \in Users, Word(u) PROVE Holder'
  BY <1>16 DEF Word, far, channel, balance, intr, news, locals, At, CanRun,
       DmaActive, LocalActive
<1>17. ASSUME NEW u \in Users, ReadCheck(u) PROVE Holder'
  BY <1>17 DEF ReadCheck, far, chip, balance, intr, news, At, Goto, Leave,
       Stay, CanRun, DmaActive, LocalActive, locals
<1>18. ASSUME NEW u \in Users, ReadGo(u) PROVE Holder'
  BY <1>18 DEF ReadGo, far, chip, balance, intr, news, locals, At, Goto,
       CanRun, DmaActive, LocalActive
<1>19. ASSUME NEW u \in Users, ReadEnable(u) PROVE Holder'
  BY <1>19 DEF ReadEnable, far, balance, intr, news, locals, ClearAndEnable,
       At, Goto, Clear, CanRun, DmaActive, LocalActive
<1>20. ASSUME NEW u \in Users, ReadStart(u) PROVE Holder'
  BY <1>20 DEF ReadStart, far, balance, intr, news, locals, At, Goto,
       CanRun, DmaActive, LocalActive
<1>21. ASSUME NEW u \in Users, ReadWake(u) PROVE Holder'
  BY <1>21 DEF ReadWake, far, balance, intr, news, At, Goto, CanRun,
       DmaActive, LocalActive
<1>22. ASSUME NEW u \in Users, ReadEnd(u) PROVE Holder'
  BY <1>22 DEF ReadEnd, far, chip, balance, intr, news, At, Goto, Leave,
       Stay, CanRun, DmaActive, LocalActive, locals
<1>23. ASSUME NEW u \in Users, WriteCheck(u) PROVE Holder'
  BY <1>23 DEF WriteCheck, far, chip, balance, intr, news, At, Goto, Leave,
       Stay, CanRun, DmaActive, LocalActive, locals
<1>24. ASSUME NEW u \in Users, WriteEnable(u) PROVE Holder'
  BY <1>24 DEF WriteEnable, far, channel, balance, intr, news, locals,
       ClearAndEnable, At, Goto, Clear, CanRun, DmaActive, LocalActive
<1>25. ASSUME NEW u \in Users, WriteClear(u) PROVE Holder'
  BY <1>25 DEF WriteClear, far, chip, channel, balance, intr, news, locals,
       At, Goto, CanRun, DmaActive, LocalActive
<1>26. ASSUME NEW u \in Users, WriteStart(u) PROVE Holder'
  BY <1>26 DEF WriteStart, far, balance, intr, news, locals, At, Goto,
       CanRun, DmaActive, LocalActive
<1>27. ASSUME NEW u \in Users, WriteWake(u) PROVE Holder'
  BY <1>27 DEF WriteWake, far, channel, balance, intr, news, At, Goto,
       CanRun, DmaActive, LocalActive
<1>28. ASSUME NEW u \in Users, WriteEnd(u) PROVE Holder'
  BY <1>28 DEF WriteEnd, chip, balance, intr, news, At, Goto, Leave, Stay,
       CanRun, DmaActive, LocalActive, locals
<1>29. ASSUME NEW u \in Users, PipeSend(u) PROVE Holder'
  BY <1>29 DEF PipeSend, far, channel, intr, news, locals, At, Goto, CanRun,
       DmaActive, LocalActive
<1>30. ASSUME NEW u \in Users, PipeClear(u) PROVE Holder'
  BY <1>30 DEF PipeClear, far, chip, channel, balance, intr, news, locals,
       At, Goto, CanRun, DmaActive, LocalActive
<1>31. ASSUME NEW u \in Users, PipeEnable(u) PROVE Holder'
  BY <1>31 DEF PipeEnable, far, channel, balance, intr, news, locals,
       ClearAndEnable, At, Goto, Clear, CanRun, DmaActive, LocalActive
<1>32. ASSUME NEW u \in Users, PipeWait(u) PROVE Holder'
  BY <1>32 DEF PipeWait, far, chip, channel, balance, intr, news, locals,
       At, Goto, CanRun, DmaActive, LocalActive
<1>33. ASSUME NEW u \in Users, PipeSignal(u) PROVE Holder'
  BY <1>33 DEF PipeSignal, far, chip, channel, balance, intr, news, At,
       Goto, CanRun, DmaActive, LocalActive
<1>34. ASSUME NEW u \in Users, PipeEnd(u) PROVE Holder'
  BY <1>34 DEF PipeEnd, far, channel, balance, intr, news, At, Leave,
       CanRun, DmaActive, LocalActive, Goto
<1>35. ASSUME NEW u \in Users, LoopBegin(u) PROVE Holder'
  BY <1>35 DEF LoopBegin, far, channel, balance, intr, news, Clear, At,
       Goto, CanRun, DmaActive, LocalActive
<1>36. ASSUME NEW u \in Users, LoopSend(u) PROVE Holder'
  BY <1>36 DEF LoopSend, far, channel, intr, news, At, Goto, NextWord,
       CanRun, DmaActive, LocalActive
<1>37. ASSUME NEW u \in Users, LoopFifo(u) PROVE Holder'
  BY <1>37 DEF LoopFifo, far, chip, channel, balance, intr, news, At, Goto,
       NextWord, CanRun, DmaActive, LocalActive
<1>38. ASSUME NEW u \in Users, LoopDrain(u) PROVE Holder'
  BY <1>38 DEF LoopDrain, far, chip, channel, intr, news, At, Leave, CanRun,
       DmaActive, LocalActive, Goto
<1>39. CASE UNCHANGED vars
  BY <1>39 DEF vars, far, chip, channel, balance, intr, news, locals
<1> QED
  BY <1>1, <1>2, <1>3, <1>4, <1>5, <1>6, <1>7, <1>8, <1>9, <1>10, <1>11,
       <1>12, <1>13, <1>14, <1>15, <1>16, <1>17, <1>18, <1>19, <1>20, <1>21,
       <1>22, <1>23, <1>24, <1>25, <1>26, <1>27, <1>28, <1>29, <1>30, <1>31,
       <1>32, <1>33, <1>34, <1>35, <1>36, <1>37, <1>38, <1>39, <1>40, <1>41,
       <1>42, <1>43, <1>44
     DEF Next, Hardware, Handler, Thread, User, Read, Write, Pipe, Loop


(* Variables keep their types, and no path through a transfer forgets      *)
(* sem_hw or returns it twice.                                             *)
THEOREM TypeCorrect == Spec => []TypeOK
<1>1. TypeOK /\ [Next]_vars => TypeOK'
  BY ValuesInductive, HolderInductive DEF TypeOK
<1> QED
  BY TypeInit, <1>1, PTL DEF Spec

(* On one CPU no process goes on while the handler holds what it has read. *)
LEMMA ReadIsOwnedInductive ==
  ASSUME ~SMP
  PROVE  TypeOK /\ ReadIsOwned /\ [Next]_vars => ReadIsOwned'
<1> SUFFICES ASSUME TypeOK /\ ReadIsOwned, [Next]_vars PROVE ReadIsOwned'
  OBVIOUS
<1> USE UsersAssumption
    DEF TypeOK, Holder, ReadIsOwned, Inside, ReadSteps, WriteSteps,
        PipeSteps, LoopSteps, LockSteps
<1>1. CASE OtherEvent
  BY <1>1 DEF OtherEvent, far, channel, balance, intr, news, locals
<1>2. CASE ReadDone
  BY <1>2 DEF ReadDone, far, chip, balance, intr, news, locals
<1>3. CASE WriteDrained
  BY <1>3 DEF WriteDrained, chip, balance, intr, news, locals, Awaited
<1>4. CASE WriteConfirmed
  BY <1>4 DEF WriteConfirmed, far, balance, intr, news, locals
<1>5. CASE LateConfirmed
  BY <1>5 DEF LateConfirmed, far, channel, balance, intr, news, locals
<1>6. CASE Fails
  BY <1>6 DEF Fails, far, balance, intr, news, locals
<1>7. CASE Answer
  BY <1>7 DEF Answer, far, channel, intr, news, locals
<1>8. CASE LinkDown
  BY <1>8 DEF LinkDown, intr, news, locals
<1>9. CASE LinkUp
  BY <1>9 DEF LinkUp, channel, balance, intr, news, locals
<1>10. CASE IntrEnter
  BY <1>10 DEF IntrEnter, DmaActive, far, chip, channel, balance, news, locals
<1>40. CASE IntrDma
  BY <1>40 DEF IntrDma, far, chip, balance, news, locals
<1>41. CASE IntrTake
  BY <1>41 DEF IntrTake, Return, far, chip, channel, balance, news, locals
<1>42. CASE IntrStatus
  BY <1>42 DEF IntrStatus, far, chip, channel, balance, news, locals
<1>43. CASE IntrChange
  BY <1>43 DEF IntrChange, far, channel, balance, news, locals
<1>44. CASE IntrStore
  BY <1>44 DEF IntrStore, Events, far, chip, channel, balance, locals
<1>11. CASE IntrClear
  BY <1>11 DEF IntrClear, Return, far, channel, balance, news, locals
<1>12. CASE SynchHandler
  BY <1>12 DEF SynchHandler, far, channel, balance, intr, locals, CanRun,
       ClearAndEnable, DmaActive, LocalActive, Clear
<1>13. CASE InitRemote
  BY <1>13 DEF InitRemote, far, chip, channel, intr, locals, CanRun,
       DmaActive, LocalActive
<1>14. ASSUME NEW u \in Users, Test(u) PROVE ReadIsOwned'
  BY <1>14 DEF Test, far, chip, channel, balance, intr, news, locals, At,
       Goto, CanRun, DmaActive, LocalActive
<1>15. ASSUME NEW u \in Users, Lock(u) PROVE ReadIsOwned'
  BY <1>15 DEF Lock, far, chip, channel, balance, intr, news, locals, At,
       Goto, CanRun, DmaActive, LocalActive
<1>16. ASSUME NEW u \in Users, Word(u) PROVE ReadIsOwned'
  BY <1>16 DEF Word, far, channel, balance, intr, news, locals, At, CanRun,
       DmaActive, LocalActive
<1>17. ASSUME NEW u \in Users, ReadCheck(u) PROVE ReadIsOwned'
  BY <1>17 DEF ReadCheck, far, chip, balance, intr, news, At, Goto, Leave,
       Stay, CanRun, DmaActive, LocalActive, locals
<1>18. ASSUME NEW u \in Users, ReadGo(u) PROVE ReadIsOwned'
  BY <1>18 DEF ReadGo, far, chip, balance, intr, news, locals, At, Goto,
       CanRun, DmaActive, LocalActive
<1>19. ASSUME NEW u \in Users, ReadEnable(u) PROVE ReadIsOwned'
  BY <1>19 DEF ReadEnable, far, balance, intr, news, locals, ClearAndEnable,
       At, Goto, Clear, CanRun, DmaActive, LocalActive
<1>20. ASSUME NEW u \in Users, ReadStart(u) PROVE ReadIsOwned'
  BY <1>20 DEF ReadStart, far, balance, intr, news, locals, At, Goto,
       CanRun, DmaActive, LocalActive
<1>21. ASSUME NEW u \in Users, ReadWake(u) PROVE ReadIsOwned'
  BY <1>21 DEF ReadWake, far, balance, intr, news, At, Goto, CanRun,
       DmaActive, LocalActive
<1>22. ASSUME NEW u \in Users, ReadEnd(u) PROVE ReadIsOwned'
  BY <1>22 DEF ReadEnd, far, chip, balance, intr, news, At, Goto, Leave,
       Stay, CanRun, DmaActive, LocalActive, locals
<1>23. ASSUME NEW u \in Users, WriteCheck(u) PROVE ReadIsOwned'
  BY <1>23 DEF WriteCheck, far, chip, balance, intr, news, At, Goto, Leave,
       Stay, CanRun, DmaActive, LocalActive, locals
<1>24. ASSUME NEW u \in Users, WriteEnable(u) PROVE ReadIsOwned'
  BY <1>24 DEF WriteEnable, far, channel, balance, intr, news, locals,
       ClearAndEnable, At, Goto, Clear, CanRun, DmaActive, LocalActive
<1>25. ASSUME NEW u \in Users, WriteClear(u) PROVE ReadIsOwned'
  BY <1>25 DEF WriteClear, far, chip, channel, balance, intr, news, locals,
       At, Goto, CanRun, DmaActive, LocalActive
<1>26. ASSUME NEW u \in Users, WriteStart(u) PROVE ReadIsOwned'
  BY <1>26 DEF WriteStart, far, balance, intr, news, locals, At, Goto,
       CanRun, DmaActive, LocalActive
<1>27. ASSUME NEW u \in Users, WriteWake(u) PROVE ReadIsOwned'
  BY <1>27 DEF WriteWake, far, channel, balance, intr, news, At, Goto,
       CanRun, DmaActive, LocalActive
<1>28. ASSUME NEW u \in Users, WriteEnd(u) PROVE ReadIsOwned'
  BY <1>28 DEF WriteEnd, chip, balance, intr, news, At, Goto, Leave, Stay,
       CanRun, DmaActive, LocalActive, locals
<1>29. ASSUME NEW u \in Users, PipeSend(u) PROVE ReadIsOwned'
  BY <1>29 DEF PipeSend, far, channel, intr, news, locals, At, Goto, CanRun,
       DmaActive, LocalActive
<1>30. ASSUME NEW u \in Users, PipeClear(u) PROVE ReadIsOwned'
  BY <1>30 DEF PipeClear, far, chip, channel, balance, intr, news, locals,
       At, Goto, CanRun, DmaActive, LocalActive
<1>31. ASSUME NEW u \in Users, PipeEnable(u) PROVE ReadIsOwned'
  BY <1>31 DEF PipeEnable, far, channel, balance, intr, news, locals,
       ClearAndEnable, At, Goto, Clear, CanRun, DmaActive, LocalActive
<1>32. ASSUME NEW u \in Users, PipeWait(u) PROVE ReadIsOwned'
  BY <1>32 DEF PipeWait, far, chip, channel, balance, intr, news, locals,
       At, Goto, CanRun, DmaActive, LocalActive
<1>33. ASSUME NEW u \in Users, PipeSignal(u) PROVE ReadIsOwned'
  BY <1>33 DEF PipeSignal, far, chip, channel, balance, intr, news, At,
       Goto, CanRun, DmaActive, LocalActive
<1>34. ASSUME NEW u \in Users, PipeEnd(u) PROVE ReadIsOwned'
  BY <1>34 DEF PipeEnd, far, channel, balance, intr, news, At, Leave,
       CanRun, DmaActive, LocalActive, Goto
<1>35. ASSUME NEW u \in Users, LoopBegin(u) PROVE ReadIsOwned'
  BY <1>35 DEF LoopBegin, far, channel, balance, intr, news, Clear, At,
       Goto, CanRun, DmaActive, LocalActive
<1>36. ASSUME NEW u \in Users, LoopSend(u) PROVE ReadIsOwned'
  BY <1>36 DEF LoopSend, far, channel, intr, news, At, Goto, NextWord,
       CanRun, DmaActive, LocalActive
<1>37. ASSUME NEW u \in Users, LoopFifo(u) PROVE ReadIsOwned'
  BY <1>37 DEF LoopFifo, far, chip, channel, balance, intr, news, At, Goto,
       NextWord, CanRun, DmaActive, LocalActive
<1>38. ASSUME NEW u \in Users, LoopDrain(u) PROVE ReadIsOwned'
  BY <1>38 DEF LoopDrain, far, chip, channel, intr, news, At, Leave, CanRun,
       DmaActive, LocalActive, Goto
<1>39. CASE UNCHANGED vars
  BY <1>39 DEF vars, far, chip, channel, balance, intr, news, locals
<1> QED
  BY <1>1, <1>2, <1>3, <1>4, <1>5, <1>6, <1>7, <1>8, <1>9, <1>10, <1>11,
       <1>12, <1>13, <1>14, <1>15, <1>16, <1>17, <1>18, <1>19, <1>20, <1>21,
       <1>22, <1>23, <1>24, <1>25, <1>26, <1>27, <1>28, <1>29, <1>30, <1>31,
       <1>32, <1>33, <1>34, <1>35, <1>36, <1>37, <1>38, <1>39, <1>40, <1>41,
       <1>42, <1>43, <1>44
     DEF Next, Hardware, Handler, Thread, User, Read, Write, Pipe, Loop

(* While a write is prepared or waits the handler only adds to got_irqs    *)
(* what is in sr; a stale end could come from a request on the way.        *)
LEMMA EndIsOwnInductive ==
  ASSUME ~SMP
  PROVE  TypeOK /\ EndIsOwn /\ [Next]_vars => EndIsOwn'
<1> SUFFICES ASSUME TypeOK /\ EndIsOwn, [Next]_vars PROVE EndIsOwn'
  OBVIOUS
<1> USE UsersAssumption
    DEF TypeOK, Data, Holder, EndIsOwn, Awaited, Inside, ReadSteps, WriteSteps,
        PipeSteps, LoopSteps, LockSteps
<1>1. CASE OtherEvent
  BY <1>1 DEF OtherEvent, far, channel, balance, intr, news, locals
<1>2. CASE ReadDone
  BY <1>2 DEF ReadDone, far, chip, balance, intr, news, locals
<1>3. CASE WriteDrained
  BY <1>3 DEF WriteDrained, chip, balance, intr, news, locals, Awaited
<1>4. CASE WriteConfirmed
  BY <1>4 DEF WriteConfirmed, far, balance, intr, news, locals
<1>5. CASE LateConfirmed
  BY <1>5 DEF LateConfirmed, far, channel, balance, intr, news, locals
<1>6. CASE Fails
  BY <1>6 DEF Fails, far, balance, intr, news, locals
<1>7. CASE Answer
  BY <1>7 DEF Answer, far, channel, intr, news, locals
<1>8. CASE LinkDown
  BY <1>8 DEF LinkDown, intr, news, locals
<1>9. CASE LinkUp
  BY <1>9 DEF LinkUp, channel, balance, intr, news, locals
<1>10. CASE IntrEnter
  BY <1>10 DEF IntrEnter, far, chip, channel, balance, news, locals
<1>40. CASE IntrDma
  BY <1>40 DEF IntrDma, far, chip, balance, news, locals
<1>41. CASE IntrTake
  BY <1>41 DEF IntrTake, Return, far, chip, channel, balance, news, locals
<1>42. CASE IntrStatus
  BY <1>42 DEF IntrStatus, far, chip, channel, balance, news, locals
<1>43. CASE IntrChange
  BY <1>43 DEF IntrChange, far, channel, balance, news, locals
<1>44. CASE IntrStore
  BY <1>44 DEF IntrStore, Events, far, chip, channel, balance, locals
<1>11. CASE IntrClear
  BY <1>11 DEF IntrClear, Return, far, channel, balance, news, locals
<1>12. CASE SynchHandler
  BY <1>12 DEF SynchHandler, far, channel, balance, intr, locals, CanRun,
       ClearAndEnable, DmaActive, LocalActive, Clear
<1>13. CASE InitRemote
  BY <1>13 DEF InitRemote, far, chip, channel, intr, locals, CanRun,
       DmaActive, LocalActive
<1>14. ASSUME NEW u \in Users, Test(u) PROVE EndIsOwn'
  BY <1>14 DEF Test, far, chip, channel, balance, intr, news, locals, At,
       Goto, CanRun, DmaActive, LocalActive
<1>15. ASSUME NEW u \in Users, Lock(u) PROVE EndIsOwn'
  BY <1>15 DEF Lock, far, chip, channel, balance, intr, news, locals, At,
       Goto, CanRun, DmaActive, LocalActive
<1>16. ASSUME NEW u \in Users, Word(u) PROVE EndIsOwn'
  BY <1>16 DEF Word, far, channel, balance, intr, news, locals, At, CanRun,
       DmaActive, LocalActive
<1>17. ASSUME NEW u \in Users, ReadCheck(u) PROVE EndIsOwn'
  BY <1>17 DEF ReadCheck, far, chip, balance, intr, news, At, Goto, Leave,
       Stay, CanRun, DmaActive, LocalActive, locals
<1>18. ASSUME NEW u \in Users, ReadGo(u) PROVE EndIsOwn'
  BY <1>18 DEF ReadGo, far, chip, balance, intr, news, locals, At, Goto,
       CanRun, DmaActive, LocalActive
<1>19. ASSUME NEW u \in Users, ReadEnable(u) PROVE EndIsOwn'
  BY <1>19 DEF ReadEnable, far, balance, intr, news, locals, ClearAndEnable,
       At, Goto, Clear, CanRun, DmaActive, LocalActive
<1>20. ASSUME NEW u \in Users, ReadStart(u) PROVE EndIsOwn'
  BY <1>20 DEF ReadStart, far, balance, intr, news, locals, At, Goto,
       CanRun, DmaActive, LocalActive
<1>21. ASSUME NEW u \in Users, ReadWake(u) PROVE EndIsOwn'
  BY <1>21 DEF ReadWake, far, balance, intr, news, At, Goto, CanRun,
       DmaActive, LocalActive
<1>22. ASSUME NEW u \in Users, ReadEnd(u) PROVE EndIsOwn'
  BY <1>22 DEF ReadEnd, far, chip, balance, intr, news, At, Goto, Leave,
       Stay, CanRun, DmaActive, LocalActive, locals
<1>23. ASSUME NEW u \in Users, WriteCheck(u) PROVE EndIsOwn'
  BY <1>23 DEF WriteCheck, far, chip, balance, intr, news, At, Goto, Leave,
       Stay, CanRun, DmaActive, LocalActive, locals
<1>24. ASSUME NEW u \in Users, WriteEnable(u) PROVE EndIsOwn'
  BY <1>24 DEF WriteEnable, far, channel, balance, intr, news, locals,
       ClearAndEnable, At, Goto, Clear, CanRun, DmaActive, LocalActive
<1>25. ASSUME NEW u \in Users, WriteClear(u) PROVE EndIsOwn'
  BY <1>25 DEF WriteClear, far, chip, channel, balance, intr, news, locals,
       At, Goto, CanRun, DmaActive, LocalActive
<1>26. ASSUME NEW u \in Users, WriteStart(u) PROVE EndIsOwn'
  BY <1>26 DEF WriteStart, far, balance, intr, news, locals, At, Goto,
       CanRun, DmaActive, LocalActive
<1>27. ASSUME NEW u \in Users, WriteWake(u) PROVE EndIsOwn'
  BY <1>27 DEF WriteWake, far, channel, balance, intr, news, At, Goto,
       CanRun, DmaActive, LocalActive
<1>28. ASSUME NEW u \in Users, WriteEnd(u) PROVE EndIsOwn'
  BY <1>28 DEF WriteEnd, chip, balance, intr, news, At, Goto, Leave, Stay,
       CanRun, DmaActive, LocalActive, locals
<1>29. ASSUME NEW u \in Users, PipeSend(u) PROVE EndIsOwn'
  BY <1>29 DEF PipeSend, far, channel, intr, news, locals, At, Goto, CanRun,
       DmaActive, LocalActive
<1>30. ASSUME NEW u \in Users, PipeClear(u) PROVE EndIsOwn'
  BY <1>30 DEF PipeClear, far, chip, channel, balance, intr, news, locals,
       At, Goto, CanRun, DmaActive, LocalActive
<1>31. ASSUME NEW u \in Users, PipeEnable(u) PROVE EndIsOwn'
  BY <1>31 DEF PipeEnable, far, channel, balance, intr, news, locals,
       ClearAndEnable, At, Goto, Clear, CanRun, DmaActive, LocalActive
<1>32. ASSUME NEW u \in Users, PipeWait(u) PROVE EndIsOwn'
  BY <1>32 DEF PipeWait, far, chip, channel, balance, intr, news, locals,
       At, Goto, CanRun, DmaActive, LocalActive
<1>33. ASSUME NEW u \in Users, PipeSignal(u) PROVE EndIsOwn'
  BY <1>33 DEF PipeSignal, far, chip, channel, balance, intr, news, At,
       Goto, CanRun, DmaActive, LocalActive
<1>34. ASSUME NEW u \in Users, PipeEnd(u) PROVE EndIsOwn'
  BY <1>34 DEF PipeEnd, far, channel, balance, intr, news, At, Leave,
       CanRun, DmaActive, LocalActive, Goto
<1>35. ASSUME NEW u \in Users, LoopBegin(u) PROVE EndIsOwn'
  BY <1>35 DEF LoopBegin, far, channel, balance, intr, news, Clear, At,
       Goto, CanRun, DmaActive, LocalActive
<1>36. ASSUME NEW u \in Users, LoopSend(u) PROVE EndIsOwn'
  BY <1>36 DEF LoopSend, far, channel, intr, news, At, Goto, NextWord,
       CanRun, DmaActive, LocalActive
<1>37. ASSUME NEW u \in Users, LoopFifo(u) PROVE EndIsOwn'
  BY <1>37 DEF LoopFifo, far, chip, channel, balance, intr, news, At, Goto,
       NextWord, CanRun, DmaActive, LocalActive
<1>38. ASSUME NEW u \in Users, LoopDrain(u) PROVE EndIsOwn'
  BY <1>38 DEF LoopDrain, far, chip, channel, intr, news, At, Leave, CanRun,
       DmaActive, LocalActive, Goto
<1>39. CASE UNCHANGED vars
  BY <1>39 DEF vars, far, chip, channel, balance, intr, news, locals
<1> QED
  BY <1>1, <1>2, <1>3, <1>4, <1>5, <1>6, <1>7, <1>8, <1>9, <1>10, <1>11,
       <1>12, <1>13, <1>14, <1>15, <1>16, <1>17, <1>18, <1>19, <1>20, <1>21,
       <1>22, <1>23, <1>24, <1>25, <1>26, <1>27, <1>28, <1>29, <1>30, <1>31,
       <1>32, <1>33, <1>34, <1>35, <1>36, <1>37, <1>38, <1>39, <1>40, <1>41,
       <1>42, <1>43, <1>44
     DEF Next, Hardware, Handler, Thread, User, Read, Write, Pipe, Loop

(* Besides the loop itself only answers change p_balance, downwards.       *)
LEMMA CountIsBoundInductive ==
  TypeOK /\ CountIsBound /\ [Next]_vars => CountIsBound'
<1> SUFFICES ASSUME TypeOK /\ CountIsBound, [Next]_vars PROVE CountIsBound'
  OBVIOUS
<1> USE UsersAssumption, LenAssumption
    DEF TypeOK, Data, Holder, CountIsBound, Inside, ReadSteps, WriteSteps,
        PipeSteps, LoopSteps, LockSteps
<1>1. CASE OtherEvent
  BY <1>1 DEF OtherEvent, far, channel, balance, intr, news, locals
<1>2. CASE ReadDone
  BY <1>2 DEF ReadDone, far, chip, balance, intr, news, locals
<1>3. CASE WriteDrained
  BY <1>3 DEF WriteDrained, chip, balance, intr, news, locals, Awaited
<1>4. CASE WriteConfirmed
  BY <1>4 DEF WriteConfirmed, far, balance, intr, news, locals
<1>5. CASE LateConfirmed
  BY <1>5 DEF LateConfirmed, far, channel, balance, intr, news, locals
<1>6. CASE Fails
  BY <1>6 DEF Fails, far, balance, intr, news, locals
<1>7. CASE Answer
  BY <1>7 DEF Answer, far, channel, intr, news, locals
<1>8. CASE LinkDown
  BY <1>8 DEF LinkDown, intr, news, locals
<1>9. CASE LinkUp
  BY <1>9 DEF LinkUp, channel, balance, intr, news, locals
<1>10. CASE IntrEnter
  BY <1>10 DEF IntrEnter, far, chip, channel, balance, news, locals
<1>40. CASE IntrDma
  BY <1>40 DEF IntrDma, far, chip, balance, news, locals
<1>41. CASE IntrTake
  BY <1>41 DEF IntrTake, Return, far, chip, channel, balance, news, locals
<1>42. CASE IntrStatus
  BY <1>42 DEF IntrStatus, far, chip, channel, balance, news, locals
<1>43. CASE IntrChange
  BY <1>43 DEF IntrChange, far, channel, balance, news, locals
<1>44. CASE IntrStore
  BY <1>44 DEF IntrStore, Events, far, chip, channel, balance, locals
<1>11. CASE IntrClear
  BY <1>11 DEF IntrClear, Return, far, channel, balance, news, locals
<1>12. CASE SynchHandler
  BY <1>12 DEF SynchHandler, far, channel, balance, intr, locals, CanRun,
       ClearAndEnable, DmaActive, LocalActive, Clear
<1>13. CASE InitRemote
  BY <1>13 DEF InitRemote, far, chip, channel, intr, locals, CanRun,
       DmaActive, LocalActive
<1>14. ASSUME NEW u \in Users, Test(u) PROVE CountIsBound'
  BY <1>14 DEF Test, far, chip, channel, balance, intr, news, locals, At,
       Goto, CanRun, DmaActive, LocalActive
<1>15. ASSUME NEW u \in Users, Lock(u) PROVE CountIsBound'
  BY <1>15 DEF Lock, far, chip, channel, balance, intr, news, locals, At,
       Goto, CanRun, DmaActive, LocalActive
<1>16. ASSUME NEW u \in Users, Word(u) PROVE CountIsBound'
  BY <1>16 DEF Word, far, channel, balance, intr, news, locals, At, CanRun,
       DmaActive, LocalActive
<1>17. ASSUME NEW u \in Users, ReadCheck(u) PROVE CountIsBound'
  BY <1>17 DEF ReadCheck, far, chip, balance, intr, news, At, Goto, Leave,
       Stay, CanRun, DmaActive, LocalActive, locals
<1>18. ASSUME NEW u \in Users, ReadGo(u) PROVE CountIsBound'
  BY <1>18 DEF ReadGo, far, chip, balance, intr, news, locals, At, Goto,
       CanRun, DmaActive, LocalActive
<1>19. ASSUME NEW u \in Users, ReadEnable(u) PROVE CountIsBound'
  BY <1>19 DEF ReadEnable, far, balance, intr, news, locals, ClearAndEnable,
       At, Goto, Clear, CanRun, DmaActive, LocalActive
<1>20. ASSUME NEW u \in Users, ReadStart(u) PROVE CountIsBound'
  BY <1>20 DEF ReadStart, far, balance, intr, news, locals, At, Goto,
       CanRun, DmaActive, LocalActive
<1>21. ASSUME NEW u \in Users, ReadWake(u) PROVE CountIsBound'
  BY <1>21 DEF ReadWake, far, balance, intr, news, At, Goto, CanRun,
       DmaActive, LocalActive
<1>22. ASSUME NEW u \in Users, ReadEnd(u) PROVE CountIsBound'
  BY <1>22 DEF ReadEnd, far, chip, balance, intr, news, At, Goto, Leave,
       Stay, CanRun, DmaActive, LocalActive, locals
<1>23. ASSUME NEW u \in Users, WriteCheck(u) PROVE CountIsBound'
  BY <1>23 DEF WriteCheck, far, chip, balance, intr, news, At, Goto, Leave,
       Stay, CanRun, DmaActive, LocalActive, locals
<1>24. ASSUME NEW u \in Users, WriteEnable(u) PROVE CountIsBound'
  BY <1>24 DEF WriteEnable, far, channel, balance, intr, news, locals,
       ClearAndEnable, At, Goto, Clear, CanRun, DmaActive, LocalActive
<1>25. ASSUME NEW u \in Users, WriteClear(u) PROVE CountIsBound'
  BY <1>25 DEF WriteClear, far, chip, channel, balance, intr, news, locals,
       At, Goto, CanRun, DmaActive, LocalActive
<1>26. ASSUME NEW u \in Users, WriteStart(u) PROVE CountIsBound'
  BY <1>26 DEF WriteStart, far, balance, intr, news, locals, At, Goto,
       CanRun, DmaActive, LocalActive
<1>27. ASSUME NEW u \in Users, WriteWake(u) PROVE CountIsBound'
  BY <1>27 DEF WriteWake, far, channel, balance, intr, news, At, Goto,
       CanRun, DmaActive, LocalActive
<1>28. ASSUME NEW u \in Users, WriteEnd(u) PROVE CountIsBound'
  BY <1>28 DEF WriteEnd, chip, balance, intr, news, At, Goto, Leave, Stay,
       CanRun, DmaActive, LocalActive, locals
<1>29. ASSUME NEW u \in Users, PipeSend(u) PROVE CountIsBound'
  BY <1>29 DEF PipeSend, far, channel, intr, news, locals, At, Goto, CanRun,
       DmaActive, LocalActive
<1>30. ASSUME NEW u \in Users, PipeClear(u) PROVE CountIsBound'
  BY <1>30 DEF PipeClear, far, chip, channel, balance, intr, news, locals,
       At, Goto, CanRun, DmaActive, LocalActive
<1>31. ASSUME NEW u \in Users, PipeEnable(u) PROVE CountIsBound'
  BY <1>31 DEF PipeEnable, far, channel, balance, intr, news, locals,
       ClearAndEnable, At, Goto, Clear, CanRun, DmaActive, LocalActive
<1>32. ASSUME NEW u \in Users, PipeWait(u) PROVE CountIsBound'
  BY <1>32 DEF PipeWait, far, chip, channel, balance, intr, news, locals,
       At, Goto, CanRun, DmaActive, LocalActive
<1>33. ASSUME NEW u \in Users, PipeSignal(u) PROVE CountIsBound'
  BY <1>33 DEF PipeSignal, far, chip, channel, balance, intr, news, At,
       Goto, CanRun, DmaActive, LocalActive
<1>34. ASSUME NEW u \in Users, PipeEnd(u) PROVE CountIsBound'
  BY <1>34 DEF PipeEnd, far, channel, balance, intr, news, At, Leave,
       CanRun, DmaActive, LocalActive, Goto
<1>35. ASSUME NEW u \in Users, LoopBegin(u) PROVE CountIsBound'
  BY <1>35 DEF LoopBegin, far, channel, balance, intr, news, Clear, At,
       Goto, CanRun, DmaActive, LocalActive
<1>36. ASSUME NEW u \in Users, LoopSend(u) PROVE CountIsBound'
  BY <1>36 DEF LoopSend, far, channel, intr, news, At, Goto, NextWord,
       CanRun, DmaActive, LocalActive
<1>37. ASSUME NEW u \in Users, LoopFifo(u) PROVE CountIsBound'
  BY <1>37 DEF LoopFifo, far, chip, channel, balance, intr, news, At, Goto,
       NextWord, CanRun, DmaActive, LocalActive
<1>38. ASSUME NEW u \in Users, LoopDrain(u) PROVE CountIsBound'
  BY <1>38 DEF LoopDrain, far, chip, channel, intr, news, At, Leave, CanRun,
       DmaActive, LocalActive, Goto
<1>39. CASE UNCHANGED vars
  BY <1>39 DEF vars, far, chip, channel, balance, intr, news, locals
<1> QED
  BY <1>1, <1>2, <1>3, <1>4, <1>5, <1>6, <1>7, <1>8, <1>9, <1>10, <1>11,
       <1>12, <1>13, <1>14, <1>15, <1>16, <1>17, <1>18, <1>19, <1>20, <1>21,
       <1>22, <1>23, <1>24, <1>25, <1>26, <1>27, <1>28, <1>29, <1>30, <1>31,
       <1>32, <1>33, <1>34, <1>35, <1>36, <1>37, <1>38, <1>39, <1>40, <1>41,
       <1>42, <1>43, <1>44
     DEF Next, Hardware, Handler, Thread, User, Read, Write, Pipe, Loop

-----------------------------------------------------------------------------
LEMMA InitiallySafe == Init => ReadIsOwned /\ EndIsOwn /\ CountIsBound
BY DEF Init, ReadIsOwned, EndIsOwn, CountIsBound

(* No data of a read can arrive when its process has gone: reads and       *)
(* writes share one buffer.  On several CPUs got_dma0 of a read that was   *)
(* killed may be set for the next one, which is then not aborted.          *)
THEOREM NoLateDataHolds == ASSUME ~SMP PROVE Spec => []NoLateData
<1>1. TypeOK /\ ReadIsOwned => NoLateData
  BY DEF ReadIsOwned, NoLateData
<1> QED
  BY TypeInit, InitiallySafe, TypeCorrect, ReadIsOwnedInductive, <1>1, PTL
     DEF Spec

(* A write is not taken for confirmed by what earlier transfers have left  *)
(* in the latch or in got_irqs.  On several CPUs it may: the handler may   *)
(* set got_end for a status it has read before the write began.            *)
THEOREM WritesAreConfirmed == ASSUME ~SMP PROVE Spec => []WriteIsConfirmed
<1>1. TypeOK /\ EndIsOwn => WriteIsConfirmed
  BY DEF EndIsOwn, WriteIsConfirmed
<1> QED
  BY TypeInit, InitiallySafe, TypeCorrect, EndIsOwnInductive, <1>1, PTL
     DEF Spec

(* The counter of write_loop keeps the send FIFO from overflowing, for any *)
(* length of it.                                                           *)
THEOREM FifoNeverOverflows == Spec => []FifoSuffices
<1>1. TypeOK /\ CountIsBound => FifoSuffices
  BY LenAssumption
     DEF TypeOK, Data, CountIsBound, FifoSuffices, LoopSteps
<1> QED
  BY TypeInit, InitiallySafe, TypeCorrect, CountIsBoundInductive, <1>1, PTL
     DEF Spec
=============================================================================

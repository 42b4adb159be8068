---------------------------- MODULE CrateProofs ----------------------------
(***************************************************************************)
(* Proofs about Crate, for any files, processes, lines, interrupts and     *)
(* lengths of DSP code, whatever mix of calls is made.                     *)
(***************************************************************************)
EXTENDS Crate, TLAPS

-----------------------------------------------------------------------------
(* The inductive invariant.                                                *)

(* Who is between its first and second access holds sem_hw.                *)
Exclusive ==
  /\ DOMAIN at = Procs
  /\ \A p \in Procs : at[p] \in {"first", "second"} => hw = p

(* The words of a DSP call.                                                *)
DspJob(j) == j = [op |-> j.op, addr |-> j.addr] /\ j.addr \in Addrs

(* What the arguments of the calls may be (w: what is reserved).           *)
Fits(p, j, step, w) ==
  /\ step = "idle" => j.op = "none"
  /\ step = "again" => j.op = "enable"
  /\ j.op = "front" => j.set \intersect j.res = {}
  /\ j.op \in {"load", "read", "wr"} => DspJob(j)
  /\ j.op \in {"ack", "enable"} => p \in Users /\ j.mask \subseteq Irqs
  /\ j.op = "disable" => p \in Users /\ j.mask \subseteq w[p]
  /\ j.op = "handle" => p = Thread

Jobs ==
  /\ DOMAIN job = Procs
  /\ \A p \in Procs : Fits(p, job[p], at[p], want)

MaskOps == {"ack", "enable", "disable", "handle"}

(* What was read is still so when it is written back, or reading it has    *)
(* failed and all LAMs count as lost.                                      *)
ReadIsCurrent(p) ==
  at[p] = "second" =>
    /\ job[p].op \in MaskOps =>
         tmp[p] \subseteq Lams /\ (tmp[p] = lam \/ Lams \subseteq lost)
    /\ job[p].op = "front" => tmp[p] = lit \intersect LocalLines
    /\ job[p].op = "timeouts" => tmp[p].lit = lit \intersect {Led}
    /\ job[p].op = "load" /\ tmp[p] = "ok" => d48 = p
    /\ job[p].op = "read" => tmp[p].lo = d48

Snapshots == DOMAIN tmp = Procs /\ \A p \in Procs : ReadIsCurrent(p)

Wants ==
  /\ DOMAIN want = Users /\ \A u \in Users : want[u] \subseteq Irqs
  /\ lam \subseteq Lams

(* A word of code that was loaded is whole, and was read whole.            *)
Whole ==
  /\ DOMAIN code = Addrs
  /\ \A a \in Addrs : code[a].by = "load" => code[a].hi = code[a].lo
  /\ ~torn

(* The interrupt is sure to be enabled, or to be pending, by this call: a  *)
(* call that has still to look for the remote side (again) may give up.    *)
SeesTo(p, j, step, i) ==
  /\ \/ j.op \in {"ack", "enable"} /\ step # "again"
     \/ j.op = "handle"
  /\ i \in j.mask

Coming(p, i) == SeesTo(p, job[p], at[p], i)

Alive ==
  \A u \in Users : \A i \in want[u] \ (pend \union lost) :
     i \in lam \union ext \/ \E p \in Procs : Coming(p, i)

IInv ==
  Exclusive /\ Jobs /\ Snapshots /\ Wants /\ lit = commanded /\ Whole /\ Alive

-----------------------------------------------------------------------------
LEMMA NobodyIsNone == Nobody \notin Procs /\ Thread \in Procs /\ Thread \notin Users
BY CrateAssumption DEF Procs

LEMMA InitIInv == CrateInit => IInv
<1> SUFFICES ASSUME CrateInit PROVE IInv
  OBVIOUS
<1> USE DEF CrateInit
<1>1. Exclusive
  BY DEF Exclusive
<1>2. Jobs
  BY DEF Jobs, Fits, Off
<1>3. Snapshots
  BY DEF Snapshots, ReadIsCurrent
<1>4. Wants /\ Alive
  BY DEF Wants, Alive
<1>5. Whole
  BY DEF Whole, NoWord
<1> QED BY <1>1, <1>2, <1>3, <1>4, <1>5 DEF IInv

(* A call that starts changes no register.  It keeps the invariant if it   *)
(* sees to every interrupt that from now on is not pending, or is reserved.*)
LEMMA StartKeeps ==
  ASSUME IInv, NEW p \in Procs, NEW j, NEW step \in {"lock", "again"},
         StartAt(p, j, step), Fits(p, j, step, want'),
         UNCHANGED <<hw, irqregs, outputs, dsp>>, lost \subseteq lost', Wants',
         \A u \in Users \ {p} : want'[u] = want[u],
         \A u \in Users : \A i \in want'[u] \ (pend' \union lost') :
            i \in want[u] \ (pend \union lost) \/ SeesTo(p, j, step, i)
  PROVE  IInv'
<1> USE DEF IInv, StartAt, irqregs, outputs, dsp
<1>1. /\ DOMAIN job' = Procs /\ job'[p] = j /\ job[p].op = "none"
      /\ at'[p] = step /\ DOMAIN at' = Procs
      /\ \A q \in Procs \ {p} : job'[q] = job[q] /\ at'[q] = at[q]
  BY DEF Jobs, Fits, Exclusive
<1>2. Exclusive'
  BY <1>1 DEF Exclusive
<1>3. Snapshots'
  <2>1. \A q \in Procs \ {p} : ReadIsCurrent(q)'
    BY <1>1 DEF Snapshots, ReadIsCurrent
  <2>2. ReadIsCurrent(p)'
    BY <1>1 DEF ReadIsCurrent
  <2> QED BY <2>1, <2>2 DEF Snapshots
<1>4. Jobs'
  <2>1. ASSUME NEW q \in Procs \ {p}
        PROVE  Fits(q, job[q], at[q], want)'
    <3>1. job'[q] = job[q] /\ at'[q] = at[q] /\ Fits(q, job[q], at[q], want)
      BY <1>1 DEF Jobs
    <3> QED BY <3>1 DEF Fits
  <2>2. Fits(p, job[p], at[p], want)'
    BY <1>1
  <2> QED BY <1>1, <2>1, <2>2 DEF Jobs
<1>5. Alive'
  <2> SUFFICES ASSUME NEW u \in Users,
                      NEW i \in want'[u] \ (pend' \union lost')
               PROVE  i \in (lam \union ext)' \/ \E q \in Procs : Coming(q, i)'
    BY DEF Alive
  <2>1. CASE SeesTo(p, j, step, i)
    BY <1>1, <2>1 DEF Coming, SeesTo
  <2>2. CASE i \in want[u] \ (pend \union lost)
    <3>1. i \in lam \union ext \/ \E q \in Procs : Coming(q, i)
      BY <2>2 DEF Alive
    <3>2. \A q \in Procs : Coming(q, i) => q # p /\ Coming(q, i)'
      BY <1>1 DEF Coming, SeesTo
    <3> QED BY <3>1, <3>2
  <2> QED BY <2>1, <2>2
<1>6. (lit = commanded)' /\ Whole'
  BY DEF Whole
<1> QED BY <1>2, <1>3, <1>4, <1>5, <1>6

(* The start of a call that has nothing to do with interrupts.             *)
LEMMA StartOther ==
  ASSUME IInv, NEW p \in Procs, NEW j, Start(p, j),
         UNCHANGED <<hw, irqregs, outputs, dsp, want, pend, lost>>,
         Fits(p, j, "lock", want)
  PROVE  IInv'
<1>1. Wants'
  BY DEF IInv, Wants, irqregs
<1> QED BY <1>1, StartKeeps DEF Start

(* pending_irqs changes and no call is made: what is not pending any more  *)
(* is lost.                                                                *)
LEMMA IdleKeeps ==
  ASSUME IInv, UNCHANGED <<hw, procs, irqregs, outputs, dsp>>,
         lost \subseteq lost', Wants',
         \A u \in Users : at[u] # "idle" => want'[u] = want[u],
         \A u \in Users : \A i \in want'[u] \ (pend' \union lost') :
            i \in want[u] \ (pend \union lost)
  PROVE  IInv'
<1> USE DEF IInv, procs, irqregs, outputs, dsp
<1>1. Exclusive' /\ Snapshots' /\ Whole' /\ (lit = commanded)'
  BY DEF Exclusive, Snapshots, ReadIsCurrent, Whole
<1>2. Jobs'
  <2> SUFFICES ASSUME NEW q \in Procs PROVE Fits(q, job[q], at[q], want)'
    BY DEF Jobs
  <2>1. Fits(q, job[q], at[q], want) /\ (q \in Users => at[q] = "idle" \/ want'[q] = want[q])
    BY DEF Jobs
  <2> QED BY <2>1 DEF Fits
<1>3. Alive'
  BY DEF Alive, Coming
<1> QED BY <1>1, <1>2, <1>3

(* _sis1100_irq_ack, for interrupts that are, or become, those of u.       *)
LEMMA AcknowledgeKept ==
  ASSUME IInv, NEW u \in Users, NEW irqs \in SUBSET Irqs,
         NEW then \in {"enable", "none"}, Acknowledge(u, irqs, then),
         UNCHANGED <<hw, irqregs, outputs, dsp>>, Wants',
         \A v \in Users \ {u} : want'[v] = want[v],
         want'[u] = want[u] \union irqs
  PROVE  IInv'
<1> USE DEF Acknowledge
<1>1. u \in Procs /\ lost \subseteq lost' /\ pend' = pend \ irqs
  BY DEF Procs
<1>2. CASE Camac
  <2> DEFINE j == [op |-> "ack", mask |-> irqs, then |-> then]
  <2>1. StartAt(u, j, "lock")
    BY <1>2 DEF Start
  <2>2. Fits(u, j, "lock", want')
    BY DEF Fits
  <2>3. \A v \in Users : \A i \in want'[v] \ (pend' \union lost') :
            i \in want[v] \ (pend \union lost) \/ SeesTo(u, j, "lock", i)
    BY <1>1, <1>2 DEF SeesTo
  <2> HIDE DEF j
  <2> QED BY <1>1, <2>1, <2>2, <2>3, StartKeeps
<1>3. CASE ~Camac
  <2>1. \A v \in Users : \A i \in want'[v] \ (pend' \union lost') :
            i \in want[v] \ (pend \union lost)
    BY <1>1, <1>3
  <2>2. CASE then = "enable"
    <3> DEFINE j == [op |-> "enable", mask |-> irqs]
    <3>1. StartAt(u, j, "again")
      BY <1>3, <2>2
    <3>2. Fits(u, j, "again", want')
      BY DEF Fits
    <3> HIDE DEF j
    <3> QED BY <1>1, <2>1, <3>1, <3>2, StartKeeps
  <2>3. CASE then # "enable"
    <3>1. at[u] = "idle" /\ UNCHANGED procs
      BY <1>3, <2>3
    <3> QED BY <1>1, <2>1, <3>1, IdleKeeps
  <2> QED BY <2>2, <2>3
<1> QED BY <1>2, <1>3

LEMMA BeginKept ==
  ASSUME IInv, Begin
  PROVE  IInv'
<1> USE DEF Begin
<1>1. ASSUME NEW u \in Users, FrontIo(u)
      PROVE  IInv'
  <2>1. PICK l \in Lines \union LocalLines \union {Led}, on \in BOOLEAN :
          Start(u, [op |-> "front", set |-> IF on THEN {l} ELSE {},
                                    res |-> IF on THEN {} ELSE {l}])
    BY <1>1 DEF FrontIo
  <2> DEFINE j == [op |-> "front", set |-> IF on THEN {l} ELSE {},
                                   res |-> IF on THEN {} ELSE {l}]
  <2>2. Fits(u, j, "lock", want)
    BY DEF Fits
  <2>3. Start(u, j) /\ UNCHANGED <<want, pend, lost>> /\ u \in Procs
    BY <1>1, <2>1 DEF FrontIo, WithoutInfo, driver, Procs
  <2> HIDE DEF j
  <2> QED BY <2>2, <2>3, StartOther
<1>2. ASSUME NEW u \in Users, SetTimeouts(u)
      PROVE  IInv'
  <2>1. PICK bits \in SUBSET {1} : Start(u, [op |-> "timeouts", bits |-> bits])
    BY <1>2 DEF SetTimeouts
  <2>2. UNCHANGED <<want, pend, lost>> /\ u \in Procs
    BY <1>2 DEF SetTimeouts, WithoutInfo, driver, Procs
  <2>3. Fits(u, [op |-> "timeouts", bits |-> bits], "lock", want)
    BY DEF Fits
  <2> QED BY <2>1, <2>2, <2>3, StartOther
<1>3. ASSUME NEW u \in Users, IrqCtlOn(u)
      PROVE  IInv'
  <2>1. PICK i \in Irqs \intersect mix :
          /\ Acknowledge(u, {i}, "enable")
          /\ want' = [want EXCEPT ![u] = @ \union {i}]
    BY <1>3 DEF IrqCtlOn
  <2>2. /\ Wants'
        /\ \A v \in Users \ {u} : want'[v] = want[v]
        /\ want'[u] = want[u] \union {i}
    BY <2>1 DEF IInv, Wants, irqregs
  <2>3. {i} \in SUBSET Irqs
    OBVIOUS
  <2> QED BY <2>1, <2>2, <2>3, AcknowledgeKept
<1>4. ASSUME NEW u \in Users, IrqCtlOff(u)
      PROVE  IInv'
  <2>1. UNCHANGED <<pend, lost>> /\ u \in Procs
    BY <1>4 DEF IrqCtlOff, Procs
  <2>2. CASE Camac
    <3>1. PICK i \in want[u] : Start(u, [op |-> "disable", mask |-> {i}])
      BY <1>4, <2>2 DEF IrqCtlOff
    <3>2. want' = want
      BY <1>4, <2>2 DEF IrqCtlOff
    <3>3. Fits(u, [op |-> "disable", mask |-> {i}], "lock", want)
      BY DEF Fits
    <3> QED BY <2>1, <3>1, <3>2, <3>3, StartOther
  <2>3. CASE ~Camac
    <3>1. PICK i \in want[u] : want' = [want EXCEPT ![u] = @ \ {i}]
      BY <1>4, <2>3 DEF IrqCtlOff
    <3>2. at[u] = "idle" /\ UNCHANGED procs
      BY <1>4, <2>3 DEF IrqCtlOff
    <3>3. /\ \A v \in Users : want'[v] \subseteq want[v]
          /\ \A v \in Users \ {u} : want'[v] = want[v]
      BY <3>1 DEF IInv, Wants
    <3>4. Wants'
      BY <3>1, <3>3 DEF IInv, Wants, irqregs
    <3>5. /\ \A v \in Users : at[v] # "idle" => want'[v] = want[v]
          /\ \A v \in Users : \A k \in want'[v] \ (pend' \union lost') :
                k \in want[v] \ (pend \union lost)
      BY <2>1, <3>2, <3>3
    <3> QED BY <2>1, <3>2, <3>4, <3>5, IdleKeeps
  <2> QED BY <2>2, <2>3
<1>5. ASSUME NEW u \in Users, IrqAck(u)
      PROVE  IInv'
  <2> DEFINE irqs == want[u] \intersect pend
  <2>1. Acknowledge(u, irqs, "none") /\ want' = want
    BY <1>5 DEF IrqAck
  <2>2. Wants' /\ irqs \in SUBSET Irqs /\ want[u] = want[u] \union irqs
    BY <2>1 DEF IInv, Wants, irqregs
  <2> HIDE DEF irqs
  <2> QED BY <2>1, <2>2, AcknowledgeKept
<1>6. ASSUME NEW u \in Users, DspCall(u)
      PROVE  IInv'
  <2>1. PICK op \in {"load", "read", "wr"}, dst \in Addrs :
          Start(u, [op |-> op, addr |-> dst])
    BY <1>6 DEF DspCall
  <2>2. UNCHANGED <<want, pend, lost>> /\ u \in Procs
    BY <1>6 DEF DspCall, WithoutInfo, driver, Procs
  <2>3. Fits(u, [op |-> op, addr |-> dst], "lock", want)
    BY DEF DspJob, Fits
  <2> QED BY <2>1, <2>2, <2>3, StartOther
<1>7. ASSUME NEW u \in Users, RemoteReset(u)
      PROVE  IInv'
  <2>1. Start(u, [op |-> "init", reset |-> 2])
    BY <1>7 DEF RemoteReset
  <2>2. UNCHANGED <<want, pend, lost>> /\ u \in Procs
    BY <1>7 DEF RemoteReset, WithoutInfo, driver, Procs
  <2>3. Fits(u, [op |-> "init", reset |-> 2], "lock", want)
    BY DEF Fits
  <2> QED BY <2>1, <2>2, <2>3, StartOther
<1>8. CASE TakeDoorbell
  <2>1. UNCHANGED <<want, pend, lost>> /\ Thread \in Procs
    BY <1>8, NobodyIsNone DEF TakeDoorbell
  <2>2. CASE Camac
    <3> DEFINE j == [op |-> "handle", mask |-> bell]
    <3>1. Start(Thread, j)
      BY <1>8, <2>2 DEF TakeDoorbell
    <3>2. Fits(Thread, j, "lock", want)
      BY DEF Fits
    <3> HIDE DEF j
    <3> QED BY <2>1, <3>1, <3>2, StartOther
  <2>3. CASE ~Camac
    <3>1. UNCHANGED procs
      BY <1>8, <2>3 DEF TakeDoorbell
    <3>2. Wants'
      BY <2>1 DEF IInv, Wants, irqregs
    <3> QED BY <2>1, <3>1, <3>2, IdleKeeps
  <2> QED BY <2>2, <2>3
<1>9. CASE LinkUp
  <2>1. UNCHANGED <<want, pend, lost>> /\ Thread \in Procs
    BY <1>9, NobodyIsNone DEF LinkUp, driver
  <2>2. Start(Thread, [op |-> "relink", reset |-> 0])
    BY <1>9 DEF LinkUp
  <2>3. Fits(Thread, [op |-> "relink", reset |-> 0], "lock", want)
    BY DEF Fits
  <2> QED BY <2>1, <2>2, <2>3, StartOther
<1> QED BY <1>1, <1>2, <1>3, <1>4, <1>5, <1>6, <1>7, <1>8, <1>9

-----------------------------------------------------------------------------
(* irq_ctl gives up only what it does not see to.                          *)
LEMMA AgainKept ==
  ASSUME IInv, NEW p \in Procs, Again(p)
  PROVE  IInv'
<1> USE DEF Again, IInv, driver, irqregs, outputs, dsp
<1>1. /\ at[p] = "again" /\ job[p].op = "enable"
      /\ \/ at' = [at EXCEPT ![p] = "lock"] /\ job' = job
         \/ at' = [at EXCEPT ![p] = "idle"] /\ job' = [job EXCEPT ![p] = Off]
  BY DEF Jobs, Fits
<1>2. /\ DOMAIN at' = Procs /\ DOMAIN job' = Procs
      /\ \/ at'[p] = "lock" /\ job'[p] = job[p]
         \/ at'[p] = "idle" /\ job'[p] = Off
      /\ \A q \in Procs \ {p} : job'[q] = job[q] /\ at'[q] = at[q]
  BY <1>1 DEF Exclusive, Jobs
<1>3. Exclusive'
  BY <1>2 DEF Exclusive
<1>4. Snapshots'
  <2>1. ASSUME NEW q \in Procs PROVE ReadIsCurrent(q)'
    <3>1. CASE q = p
      BY <1>2, <3>1 DEF ReadIsCurrent
    <3>2. CASE q # p
      BY <1>2, <3>2 DEF Snapshots, ReadIsCurrent
    <3> QED BY <3>1, <3>2
  <2> QED BY <2>1 DEF Snapshots
<1>5. Jobs'
  <2>1. \A q \in Procs \ {p} : Fits(q, job[q], at[q], want)'
    BY <1>2 DEF Jobs, Fits
  <2>2. Fits(p, job[p], at[p], want)'
    BY <1>1, <1>2 DEF Jobs, Fits, Off
  <2> QED BY <1>2, <2>1, <2>2 DEF Jobs
<1>6. Wants' /\ Whole' /\ (lit = commanded)'
  BY DEF Wants, Whole
<1>7. Alive'
  <2>1. \A i : \A q \in Procs : Coming(q, i) => q # p /\ Coming(q, i)'
    BY <1>1, <1>2 DEF Coming, SeesTo
  <2> QED BY <2>1 DEF Alive
<1> QED BY <1>3, <1>4, <1>5, <1>6, <1>7

LEMMA LockKept ==
  ASSUME IInv, NEW p \in Procs, Lock(p)
  PROVE  IInv'
<1> USE DEF Lock, IInv, driver, irqregs, outputs, dsp
<1>1. Exclusive'
  BY NobodyIsNone DEF Exclusive
<1>2. Snapshots'
  BY DEF Snapshots, ReadIsCurrent, Exclusive
<1>3. Jobs'
  BY DEF Jobs, Fits, Exclusive
<1>4. Wants' /\ Whole' /\ (lit = commanded)'
  BY DEF Wants, Whole
<1>5. Alive'
  <2>1. \A i : \A q \in Procs : Coming(q, i) => Coming(q, i)'
    BY DEF Coming, SeesTo, Exclusive
  <2> QED BY <2>1 DEF Alive
<1> QED BY <1>1, <1>2, <1>3, <1>4, <1>5

(* The first half of a call changes the registers of the DSP at most.      *)
LEMMA FirstKept ==
  ASSUME IInv, NEW p \in Procs, First(p)
  PROVE  IInv'
<1> USE DEF First, driver, irqregs, outputs
<1>1. /\ at[p] = "first" /\ UNCHANGED <<hw, job, code, torn>>
      /\ \E value : Read(p, value)
      /\ lost \subseteq lost'
  BY DEF Has, Read, ReadLam, ReadLocal, ReadMaster, SendLow, FetchHigh,
         Nothing, dsp
<1>2. PICK value : Read(p, value)
  BY <1>1
<1>3. /\ at' = [at EXCEPT ![p] = "second"] /\ tmp' = [tmp EXCEPT ![p] = value]
      /\ hw = p /\ p \in DOMAIN at /\ p \in DOMAIN tmp
      /\ \A q \in Procs \ {p} : at[q] \notin {"first", "second"}
  BY <1>1, <1>2 DEF Read, IInv, Exclusive, Snapshots
<1>4. Exclusive'
  BY <1>1, <1>3 DEF IInv, Exclusive
<1>5. ReadIsCurrent(p)'
  <2>1. CASE ReadLam(p)
    <3>1. /\ job'[p].op \in MaskOps
          /\ \/ tmp'[p] = lam'
             \/ tmp'[p] \subseteq Lams /\ Lams \subseteq lost'
      BY <1>3, <2>1 DEF ReadLam, Read, Has, MaskOps
    <3>2. lam' \subseteq Lams
      BY DEF IInv, Wants
    <3> QED BY <3>1, <3>2 DEF ReadIsCurrent, MaskOps
  <2>2. CASE ReadLocal(p)
    BY <1>3, <2>2 DEF ReadLocal, Read, Has, ReadIsCurrent, MaskOps
  <2>3. CASE ReadMaster(p)
    BY <1>3, <2>3 DEF ReadMaster, Read, Has, ReadIsCurrent, MaskOps
  <2>4. CASE SendLow(p)
    BY <1>3, <2>4 DEF SendLow, Read, Has, ReadIsCurrent, MaskOps
  <2>5. CASE FetchHigh(p)
    BY <1>3, <2>5 DEF FetchHigh, Read, Has, ReadIsCurrent, MaskOps
  <2>6. CASE Nothing(p)
    BY <1>3, <2>6 DEF Nothing, Read, Has, ReadIsCurrent, MaskOps
  <2> QED BY <2>1, <2>2, <2>3, <2>4, <2>5, <2>6
<1>6. Snapshots'
  <2>1. \A q \in Procs \ {p} : ReadIsCurrent(q)'
    BY <1>3 DEF ReadIsCurrent
  <2> QED BY <1>3, <1>5, <2>1 DEF IInv, Snapshots
<1>7. Jobs'
  BY <1>1, <1>3 DEF IInv, Jobs, Fits
<1>8. Wants' /\ Whole' /\ (lit = commanded)'
  BY <1>1 DEF IInv, Wants, Whole
<1>9. Alive'
  <2>1. \A i : \A q \in Procs : Coming(q, i) => Coming(q, i)'
    BY <1>1, <1>3 DEF Coming, SeesTo
  <2> QED BY <1>1, <2>1 DEF IInv, Alive
<1> QED BY <1>4, <1>6, <1>7, <1>8, <1>9 DEF IInv

-----------------------------------------------------------------------------
(* The second half frees sem_hw, so nobody is between two accesses, and    *)
(* keeps the invariant if what this call has seen to is enabled now.       *)
LeavesTo(p, j, step) ==
  \/ Finish(p) /\ j = Off /\ step = "idle"
  \/ Continue(p, j, step) /\ step \in {"lock", "again"}

LEMMA LeaveKeeps ==
  ASSUME IInv, NEW p \in Procs, at[p] = "second",
         NEW j, NEW step, LeavesTo(p, j, step), Fits(p, j, step, want'),
         Wants', (lit = commanded)', Whole',
         \A u \in Users \ {p} : want'[u] = want[u],
         \A u \in Users : \A i \in want'[u] \ (pend' \union lost') :
            \/ i \in (lam \union ext)'
            \/ /\ i \in want[u] \ (pend \union lost)
               /\ i \notin lam \union ext /\ ~Coming(p, i)
  PROVE  IInv'
<1> USE DEF IInv, LeavesTo, Finish, Continue
<1>1. /\ hw = p /\ job'[p] = j /\ at'[p] = step
      /\ step \in {"idle", "lock", "again"}
      /\ DOMAIN job' = Procs /\ DOMAIN at' = Procs /\ DOMAIN tmp' = Procs
      /\ \A q \in Procs \ {p} : job'[q] = job[q] /\ at'[q] = at[q]
  BY DEF Exclusive, Jobs, Snapshots
<1>2. \A q \in Procs : at'[q] \notin {"first", "second"}
  BY <1>1 DEF Exclusive
<1>3. Exclusive' /\ Snapshots'
  BY <1>1, <1>2 DEF Exclusive, Snapshots, ReadIsCurrent
<1>4. Jobs'
  <2>1. \A q \in Procs \ {p} : Fits(q, job[q], at[q], want)'
    BY <1>1 DEF Jobs, Fits
  <2>2. Fits(p, job[p], at[p], want)'
    BY <1>1
  <2> QED BY <1>1, <2>1, <2>2 DEF Jobs
<1>5. Alive'
  <2> SUFFICES ASSUME NEW u \in Users,
                      NEW i \in want'[u] \ (pend' \union lost'),
                      i \notin (lam \union ext)'
               PROVE  \E q \in Procs : Coming(q, i)'
    BY DEF Alive
  <2>1. PICK q \in Procs : Coming(q, i)
    BY DEF Alive
  <2>2. q # p
    BY <2>1
  <2> QED BY <1>1, <2>1, <2>2 DEF Coming
<1> QED BY <1>3, <1>4, <1>5

(* The end of a call, or of a word, that has nothing to do with            *)
(* interrupts.                                                             *)
LEMMA OtherKeeps ==
  ASSUME IInv, NEW p \in Procs, at[p] = "second",
         job[p].op \notin MaskOps,
         NEW j, NEW step, LeavesTo(p, j, step), Fits(p, j, step, want),
         UNCHANGED <<want, pend, irqregs, lost>>, (lit = commanded)', Whole'
  PROVE  IInv'
<1>1. Wants'
  BY DEF IInv, Wants, irqregs
<1>2. \A i : ~Coming(p, i)
  BY DEF Coming, SeesTo, MaskOps
<1> QED BY <1>1, <1>2, LeaveKeeps DEF irqregs

LEMMA OffFits == \A p, w : Fits(p, Off, "idle", w)
BY DEF Fits, Off

(* sis5100rem_irq_ack, sis5100rem_enable_irqs: the mask as it is now and   *)
(* the new interrupts, unless an access fails.                             *)
LEMMA EnableKept ==
  ASSUME IInv, NEW p \in Procs, EnableIrqs(p), UNCHANGED <<mix, pid>>
  PROVE  IInv'
<1> USE DEF EnableIrqs, Has, driver, outputs, dsp
<1>1. /\ at[p] = "second" /\ job[p].op \in {"ack", "enable"}
      /\ p \in Users /\ job[p].mask \subseteq Irqs
      /\ tmp[p] \subseteq Lams /\ (tmp[p] = lam \/ Lams \subseteq lost)
      /\ lam \subseteq Lams
  BY DEF IInv, Jobs, Fits, Snapshots, ReadIsCurrent, MaskOps, Wants
<1>2. PICK good \in SUBSET {Lams, Exts} :
        LET on == job[p].mask \intersect UNION good
        IN /\ lam' = IF Lams \in good THEN Written(lam, tmp[p] \union (on \intersect Lams))
                     ELSE lam
           /\ ext' = JK(ext, on \intersect Exts, {})
           /\ lost' = (lost \union job[p].mask) \ on
  OBVIOUS
<1> DEFINE on == job[p].mask \intersect UNION good
<1>3. on \subseteq (lam \union ext)' /\ ext \subseteq ext'
  <2>1. \A i \in on : i \in Lams /\ Lams \in good => i \in lam'
    BY <1>2 DEF Written
  <2>2. \A i \in on : i \in Exts => i \in ext'
    BY <1>2 DEF JK
  <2>3. \A i \in on : (i \in Lams /\ Lams \in good) \/ i \in Exts
    OBVIOUS
  <2>4. ext \subseteq ext'
    BY <1>2 DEF JK
  <2> QED BY <2>1, <2>2, <2>3, <2>4
<1>4. lam \subseteq lam' \/ Lams \subseteq lost
  BY <1>1, <1>2 DEF Written
<1>5. lam' \subseteq Lams
  BY <1>1, <1>2 DEF Written
<1>6. \A u \in Users : \A i \in want'[u] \ (pend' \union lost') :
         \/ i \in (lam \union ext)'
         \/ /\ i \in want[u] \ (pend \union lost)
            /\ i \notin lam \union ext /\ ~Coming(p, i)
  <2> SUFFICES ASSUME NEW u \in Users, NEW i \in want[u] \ (pend \union lost'),
                      i \notin (lam \union ext)'
               PROVE  /\ i \in want[u] \ (pend \union lost)
                      /\ i \notin lam \union ext /\ ~Coming(p, i)
    OBVIOUS
  <2>1. i \notin on
    BY <1>3
  <2>2. i \notin lost /\ i \notin job[p].mask
    BY <1>2, <2>1
  <2>3. i \notin lam \union ext
    BY <1>1, <1>3, <1>4, <2>2
  <2>4. ~Coming(p, i)
    BY <2>2 DEF Coming, SeesTo
  <2> QED BY <2>2, <2>3, <2>4
<1>7. Wants' /\ (lit = commanded)' /\ Whole' /\ want' = want
  BY <1>5 DEF IInv, Wants, Whole
<1> HIDE DEF on
<1>8. CASE job[p].op = "ack" /\ job[p].then = "enable"
  <2> DEFINE j == [op |-> "enable", mask |-> job[p].mask]
  <2>1. LeavesTo(p, j, "again")
    BY <1>8 DEF LeavesTo
  <2>2. Fits(p, j, "again", want')
    BY <1>1 DEF Fits
  <2> HIDE DEF j
  <2> QED BY <1>1, <1>6, <1>7, <2>1, <2>2, LeaveKeeps
<1>9. CASE ~(job[p].op = "ack" /\ job[p].then = "enable")
  <2>1. LeavesTo(p, Off, "idle")
    BY <1>9 DEF LeavesTo
  <2> QED BY <1>1, <1>6, <1>7, <2>1, OffFits, LeaveKeeps
<1> QED BY <1>8, <1>9

(* What Block takes out is in the mask, or LAMs have been lost.            *)
LEMMA BlockKeeps ==
  ASSUME IInv, NEW p \in Procs, at[p] = "second",
         job[p].op \in {"disable", "handle"}, Block(p)
  PROVE  /\ lam' \subseteq Lams
         /\ (lam \union ext) \ (job[p].mask \union lost) \subseteq (lam \union ext)'
<1>1. /\ tmp[p] \subseteq Lams /\ (tmp[p] = lam \/ Lams \subseteq lost)
      /\ lam \subseteq Lams
  BY DEF IInv, Snapshots, ReadIsCurrent, MaskOps, Wants
<1>2. lam' = lam \/ lam' = Written(lam, tmp[p] \ job[p].mask)
  BY DEF Block
<1>3. ext \ job[p].mask \subseteq ext'
  BY DEF Block, JK
<1>4. lam' \subseteq Lams
  BY <1>1, <1>2 DEF Written
<1>5. lam \ (job[p].mask \union lost) \subseteq lam'
  BY <1>1, <1>2 DEF Written
<1> QED BY <1>3, <1>4, <1>5

LEMMA DisableKept ==
  ASSUME IInv, NEW p \in Procs, DisableIrqs(p), UNCHANGED <<mix, pid>>
  PROVE  IInv'
<1> USE DEF DisableIrqs, Has, outputs, dsp
<1>1. /\ at[p] = "second" /\ job[p].op = "disable" /\ p \in Users
      /\ LeavesTo(p, Off, "idle")
  BY DEF IInv, Jobs, Fits, LeavesTo
<1>2. /\ want'[p] = want[p] \ job[p].mask /\ DOMAIN want' = Users
      /\ \A u \in Users \ {p} : want'[u] = want[u]
  BY <1>1 DEF IInv, Wants
<1>3. /\ lam' \subseteq Lams
      /\ (lam \union ext) \ (job[p].mask \union lost) \subseteq (lam \union ext)'
  BY <1>1, BlockKeeps
<1>4. Wants'
  BY <1>2, <1>3 DEF IInv, Wants
<1>5. \A u \in Users : \A i \in want'[u] \ (pend' \union lost') :
         \/ i \in (lam \union ext)'
         \/ /\ i \in want[u] \ (pend \union lost)
            /\ i \notin lam \union ext /\ ~Coming(p, i)
  <2> SUFFICES ASSUME NEW u \in Users, NEW i \in want'[u] \ (pend' \union lost'),
                      i \notin (lam \union ext)'
               PROVE  /\ i \in want[u] \ (pend \union lost)
                      /\ i \notin lam \union ext /\ ~Coming(p, i)
    OBVIOUS
  <2>1. i \in want[u] /\ i \notin pend /\ i \notin lost
    BY <1>2
  <2>2. i \notin job[p].mask
    <3>1. CASE u = p
      BY <1>2, <3>1
    <3>2. CASE u # p
      BY <2>1, <3>2 DEF Shared
    <3> QED BY <3>1, <3>2
  <2> QED BY <1>1, <1>3, <2>1, <2>2 DEF Coming, SeesTo
<1>6. (lit = commanded)' /\ Whole'
  BY DEF IInv, Whole
<1> QED BY <1>1, <1>2, <1>4, <1>5, <1>6, OffFits, LeaveKeeps

(* sis5100rem_irq_handler: what it blocks is pending now.                  *)
LEMMA HandlerKept ==
  ASSUME IInv, NEW p \in Procs, IrqHandler(p), UNCHANGED <<mix, pid>>
  PROVE  IInv'
<1> USE DEF IrqHandler, Has, outputs, dsp
<1>1. /\ at[p] = "second" /\ job[p].op = "handle"
      /\ LeavesTo(p, Off, "idle")
  BY DEF LeavesTo
<1>2. /\ lam' \subseteq Lams
      /\ (lam \union ext) \ (job[p].mask \union lost) \subseteq (lam \union ext)'
  BY <1>1, BlockKeeps
<1>3. \A u \in Users : \A i \in want'[u] \ (pend' \union lost') :
         \/ i \in (lam \union ext)'
         \/ /\ i \in want[u] \ (pend \union lost)
            /\ i \notin lam \union ext /\ ~Coming(p, i)
  BY <1>1, <1>2 DEF Coming, SeesTo
<1>4. Wants' /\ (lit = commanded)' /\ Whole'
  BY <1>2 DEF IInv, Wants, Whole
<1> QED BY <1>1, <1>3, <1>4, OffFits, LeaveKeeps

-----------------------------------------------------------------------------
(* Calls that have nothing to do with interrupts.                          *)
LEMMA FrontKept ==
  ASSUME IInv, NEW p \in Procs, FrontWrite(p)
  PROVE  IInv'
<1> USE DEF FrontWrite, Has, driver, irqregs, dsp
<1>1. /\ at[p] = "second" /\ job[p].op = "front" /\ job[p].op \notin MaskOps
      /\ LeavesTo(p, Off, "idle")
  BY DEF LeavesTo, MaskOps
<1>2. /\ tmp[p] = lit \intersect LocalLines
      /\ job[p].set \intersect job[p].res = {} /\ lit = commanded
  BY <1>1 DEF IInv, Snapshots, ReadIsCurrent, Jobs, Fits
<1>3. (lit = commanded)'
  BY <1>2 DEF JK
<1>4. Whole'
  BY DEF IInv, Whole
<1> QED BY <1>1, <1>3, <1>4, OffFits, OtherKeeps

LEMMA TimersKept ==
  ASSUME IInv, NEW p \in Procs, SetTimers(p)
  PROVE  IInv'
<1> USE DEF SetTimers, Has, driver, irqregs, dsp
<1>1. /\ at[p] = "second" /\ job[p].op = "timeouts" /\ job[p].op \notin MaskOps
      /\ LeavesTo(p, Off, "idle")
  BY DEF LeavesTo, MaskOps
<1>2. tmp[p].lit = lit \intersect {Led}
  BY <1>1 DEF IInv, Snapshots, ReadIsCurrent
<1>3. lit' = lit
  BY <1>2 DEF JK
<1>4. Whole' /\ (lit = commanded)'
  BY <1>3 DEF IInv, Whole
<1> QED BY <1>1, <1>4, OffFits, OtherKeeps

(* The words of a DSP call: the next one, or the end.                      *)
LEMMA WordKept ==
  ASSUME IInv, NEW p \in Procs, at[p] = "second",
         job[p].op \in {"load", "read", "wr"},
         NEW ok \in BOOLEAN, NextWord(p, ok),
         UNCHANGED <<driver, irqregs, outputs, lost>>, Whole'
  PROVE  IInv'
<1>1. /\ (lit = commanded)' /\ UNCHANGED <<want, pend>>
      /\ job[p].op \notin MaskOps
  BY DEF IInv, outputs, driver, MaskOps
<1>2. CASE ok /\ job[p].addr + 1 \in Addrs
  <2> DEFINE j == [op |-> job[p].op, addr |-> job[p].addr + 1]
  <2>1. DspJob(job[p])
    BY DEF IInv, Jobs, Fits
  <2>2. j = [job[p] EXCEPT !.addr = @ + 1]
    BY <2>1 DEF DspJob
  <2>3. LeavesTo(p, j, "lock")
    BY <1>2, <2>2 DEF NextWord, LeavesTo
  <2>4. Fits(p, j, "lock", want)
    BY <1>2 DEF Fits, DspJob
  <2> HIDE DEF j
  <2> QED BY <1>1, <2>3, <2>4, OtherKeeps
<1>3. CASE ~(ok /\ job[p].addr + 1 \in Addrs)
  <2>1. LeavesTo(p, Off, "idle")
    BY <1>3 DEF NextWord, LeavesTo
  <2> QED BY <1>1, <2>1, OffFits, OtherKeeps
<1> QED BY <1>2, <1>3

(* write_to_dsp: the register still holds the low half of this load.       *)
LEMMA SendKept ==
  ASSUME IInv, NEW p \in Procs, SendHigh(p)
  PROVE  IInv'
<1> USE DEF SendHigh, Has
<1>1. at[p] = "second" /\ job[p].op = "load" /\ tmp[p] = "ok" => d48 = p
  BY DEF IInv, Snapshots, ReadIsCurrent
<1>2. PICK ok \in BOOLEAN :
        /\ code' = IF ok
                   THEN [code EXCEPT ![job[p].addr] =
                           [hi |-> p, lo |-> d48,
                            by |-> IF tmp[p] = "ok" THEN "load" ELSE "raw"]]
                   ELSE code
        /\ NextWord(p, ok /\ tmp[p] = "ok")
  OBVIOUS
<1>3. Whole'
  BY <1>1, <1>2 DEF IInv, Whole
<1>4. (ok /\ tmp[p] = "ok") \in BOOLEAN
  OBVIOUS
<1> QED BY <1>2, <1>3, <1>4, WordKept

(* read_from_dsp: the register still holds what goes with the high half.   *)
LEMMA FetchKept ==
  ASSUME IInv, NEW p \in Procs, FetchLow(p)
  PROVE  IInv'
<1> USE DEF FetchLow, Has
<1>1. tmp[p].lo = d48
  BY DEF IInv, Snapshots, ReadIsCurrent
<1>2. Whole'
  BY <1>1 DEF IInv, Whole
<1> QED BY <1>2, WordKept

LEMMA WriteKept ==
  ASSUME IInv, NEW p \in Procs, WriteHigh(p)
  PROVE  IInv'
<1> USE DEF WriteHigh, Has
<1>1. Whole'
  BY DEF IInv, Whole
<1> QED BY <1>1, WordKept

(* sis1100_init_remote: either nothing of what is observed changes, or the *)
(* crate is reset, and what was commanded with it.                         *)
LEMMA InitKept ==
  ASSUME IInv, NEW p \in Procs, InitEnd(p)
  PROVE  IInv'
<1> USE DEF InitEnd, Has, dsp
<1>1. /\ at[p] = "second" /\ job[p].op \notin MaskOps
      /\ LeavesTo(p, Off, "idle") /\ UNCHANGED <<want, pend>>
  BY DEF LeavesTo, MaskOps
<1>2. Whole' /\ (lit = commanded)'
  BY DEF IInv, Whole, CrateReset, outputs
<1>3. CASE CrateReset
  <2>1. Wants'
    BY <1>1, <1>3 DEF IInv, Wants, CrateReset
  <2>2. \A u \in Users : want'[u] \subseteq lost'
    BY <1>1, <1>3 DEF IInv, Wants, CrateReset
  <2> QED BY <1>1, <1>2, <2>1, <2>2, OffFits, LeaveKeeps
<1>4. CASE UNCHANGED <<irqregs, outputs, lost>>
  BY <1>1, <1>2, <1>4, OffFits, OtherKeeps
<1> QED BY <1>3, <1>4

LEMMA SecondKept ==
  ASSUME IInv, NEW p \in Procs, Second(p)
  PROVE  IInv'
BY EnableKept, DisableKept, HandlerKept, FrontKept, TimersKept, SendKept,
   FetchKept, WriteKept, InitKept DEF Second

-----------------------------------------------------------------------------
LEMMA OutsideKept == IInv /\ (Ring \/ LinkDown) => IInv'
<1> SUFFICES ASSUME IInv, Ring \/ LinkDown
             PROVE  IInv'
  OBVIOUS
<1>1. UNCHANGED <<hw, procs, irqregs, outputs, dsp, lost, want, pend>>
  BY DEF Ring, LinkDown
<1>2. Wants'
  BY <1>1 DEF IInv, Wants, irqregs
<1> QED BY <1>1, <1>2, IdleKeeps

LEMMA StutterKept == IInv /\ UNCHANGED crateVars => IInv'
<1> SUFFICES ASSUME IInv, UNCHANGED crateVars
             PROVE  IInv'
  OBVIOUS
<1>1. UNCHANGED <<hw, procs, irqregs, outputs, dsp, lost, want, pend>>
  BY DEF crateVars, driver
<1>2. Wants'
  BY <1>1 DEF IInv, Wants, irqregs
<1> QED BY <1>1, <1>2, IdleKeeps

LEMMA IInvInductive == IInv /\ [CrateNext]_crateVars => IInv'
BY BeginKept, AgainKept, LockKept, FirstKept, SecondKept, OutsideKept,
   StutterKept DEF CrateNext

(* sem_hw keeps others out between the two accesses of every call, so what *)
(* was read is still so when it is written back; outputs are as commanded, *)
(* words of the DSP are whole and reserved interrupts are attended to.     *)
THEOREM Invariance == CrateSpec => []IInv
<1>1. CrateInit => IInv
  BY InitIInv
<1>2. IInv /\ [CrateNext]_crateVars => IInv'
  BY IInvInductive
<1> QED BY <1>1, <1>2, PTL DEF CrateSpec

(* No call of front_io is undone by another one, nor by the setting of the *)
(* timeouts, which writes back the LED as it was read.                     *)
THEOREM OutputsStay == CrateSpec => []OutputsAsCommanded
<1>1. IInv => OutputsAsCommanded
  BY DEF IInv, OutputsAsCommanded
<1> QED BY <1>1, Invariance, PTL

(* sis1100_dsp_load and _read never see, or leave, halves of two words.    *)
THEOREM WordsAreWhole == CrateSpec => []DspWordsAreWhole
<1>1. IInv => DspWordsAreWhole
  BY DEF IInv, Whole, DspWordsAreWhole
<1> QED BY <1>1, Invariance, PTL

(* sis1100_irq_ctl, _ack and the thread change the mask of the CAMAC crate *)
(* at once, and still no interrupt that is reserved, and not pending, is   *)
(* left disabled by it.  It speaks of no interrupt that is lost: enabling  *)
(* it has failed or was skipped without a remote side, the mask could not  *)
(* be read, another file of the same process has released it, or the crate *)
(* was reset.                                                              *)
THEOREM ReservedStaysEnabled == CrateSpec => []ReservedIsEnabled
<1>1. ASSUME IInv, NEW u \in Users, NEW i \in want[u] \ (pend \union lost)
      PROVE  Attended(i)
  <2>1. CASE i \in lam \union ext
    BY <2>1 DEF Attended
  <2>2. CASE i \notin lam \union ext
    <3>1. PICK p \in Procs : Coming(p, i)
      BY <1>1, <2>2 DEF IInv, Alive
    <3>2. /\ job[p].op \in {"ack", "enable"} => p \in Users
          /\ job[p].op = "handle" => p = Thread
      BY <1>1 DEF IInv, Jobs, Fits
    <3> QED BY <3>1, <3>2 DEF Attended, Coming, SeesTo
  <2> QED BY <2>1, <2>2
<1>2. IInv => ReservedIsEnabled
  BY <1>1 DEF ReservedIsEnabled
<1> QED BY <1>2, Invariance, PTL
=============================================================================

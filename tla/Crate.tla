------------------------------- MODULE Crate -------------------------------
(***************************************************************************)
(* The registers of the crate, used through several files and by the       *)
(* interrupt thread at once: front panel outputs and LEDs, timeouts of the *)
(* VME controller, LAMs and front panel interrupts of the CAMAC crate,     *)
(* the code of the DSP and the initialisation after a reset or a new link. *)
(* Most calls read a register, change and write it; sem_hw keeps others    *)
(* out between the two, sem_irqinfo protects pending_irqs.  The accesses   *)
(* of the CAMAC interrupts may fail, and nobody looks at their errors.     *)
(*                                                                         *)
(* Sources: sis1100_front_io.c, sis3100rem_front_io.c, sis3100rem_init.c,  *)
(* sis5100rem_irq.c, sis1100_irq_handler.c (ack, ctl), sis1100_dsp.c,      *)
(* sis1100_init_remote.c, *rem_init.c, sis1100_init_sdram.c.  A call is    *)
(* the steps Begin, Lock, First (what it reads) and Second (what it        *)
(* writes); a DSP call repeats the last three for each word, the control   *)
(* of an interrupt does so once (after Again).                             *)
(***************************************************************************)
EXTENDS Integers, FiniteSets

CONSTANTS
  Users,       (* open files of the crate                                  *)
  Pids,        (* BOUND: functions that tell of which process each file is *)
  Thread,      (* the interrupt thread                                     *)
  Nobody,
  Lams,        (* LAM lines in use                                         *)
  Exts,        (* front panel interrupts in use                            *)
  Lines,       (* outputs of the crate, ...                                *)
  LocalLines,  (* ... of the PCI card, ...                                 *)
  Led,         (* ... and the user LED of the VME crate                    *)
  DspAddrs,    (* BOUND: words of the DSP memory                           *)
  Mixes        (* BOUND: calls that are made, and interrupts that are      *)
               (* reserved, in one behaviour                               *)

ASSUME CrateAssumption ==
  /\ {Thread, Nobody} \intersect Users = {} /\ Thread # Nobody
  /\ Led \notin Lines /\ Lines \intersect LocalLines = {}
  /\ Led \notin LocalLines /\ DspAddrs \in Nat

VARIABLES
  mix,         (* the calls and interrupts of this behaviour               *)
  pid,         (* pid of each file                                         *)
  hw,          (* who holds sem_hw                                         *)
  info,        (* who holds sem_irqinfo                                    *)
  job,         (* what the caller with each file, or the thread, does      *)
  at,          (* and its next step                                        *)
  tmp,         (* what it has read                                         *)
  remote,      (* remote_hw                                                *)
  present,     (* dsp_present                                              *)
  pend,        (* pending_irqs                                             *)
  want,        (* owned_irqs of each user                                  *)
  bell,        (* sc->doorbell                                             *)
  lam,         (* register lam_enable                                      *)
  ext,         (* enabled front panel interrupts (in_latch_irq)            *)
  lit,         (* outputs and LEDs that are on (in_out, opt_csr, ...)      *)
  timer,       (* vme_berr_timer of vme_master_sc, as a set of bits        *)
  d48,         (* the low 16 bits that go with the next word of the DSP    *)
  code,        (* the DSP's memory: the halves of each word, how written   *)
  commanded,   (* history: outputs as the last calls left them             *)
  torn,        (* history: a loaded word was read with another's low half  *)
  lost         (* history: interrupts the crate may have lost             *)

procs == <<job, at, tmp>>
driver == <<remote, present, pend, want, bell>>
irqregs == <<lam, ext>>
outputs == <<lit, timer, commanded>>
dsp == <<d48, code, torn>>
crateVars == <<mix, pid, hw, info, procs, driver, irqregs, outputs, dsp, lost>>

Procs == Users \union {Thread}
Addrs == 0 .. DspAddrs - 1
Irqs == Lams \union Exts
Off == [op |-> "none"]
NoWord == [hi |-> Nobody, lo |-> Nobody, by |-> "none"]

(* What is at the other end of the link.  BOUND: it is not exchanged.      *)
Kind == IF "ack" \in mix THEN "camac" ELSE "vme"

CrateInit ==
  /\ mix \in Mixes /\ pid \in Pids
  /\ hw = Nobody /\ info = Nobody
  /\ job = [p \in Procs |-> Off]
  /\ at = [p \in Procs |-> "idle"]
  /\ tmp = [p \in Procs |-> {}]
  /\ remote = Kind
  /\ present = (remote = "vme")
  /\ pend = {} /\ bell = {}
  /\ want = [u \in Users |-> {}]
  /\ lam = {} /\ ext = {}
  /\ lit = {} /\ timer = {} /\ commanded = {}
  /\ d48 = Nobody
  /\ code = [a \in Addrs |-> NoWord]
  /\ torn = FALSE
  /\ lost = {}

-----------------------------------------------------------------------------
(* A call starts.  Those that change pending_irqs take sem_irqinfo first.  *)
StartAt(p, j, step) ==
  /\ at[p] = "idle"
  /\ job' = [job EXCEPT ![p] = j]
  /\ at' = [at EXCEPT ![p] = step]
  /\ UNCHANGED tmp

Start(p, j) == j.op \in mix /\ StartAt(p, j, "lock")

WithoutInfo == UNCHANGED <<info, driver, lost>>

Vme == remote = "vme"
Camac == remote = "camac"

(* sis1100_front_io.  BOUND: one line at a time is switched on or off.     *)
FrontIo(u) ==
  /\ Vme
  /\ \E l \in Lines \union LocalLines \union {Led}, on \in BOOLEAN :
       Start(u, [op |-> "front", set |-> IF on THEN {l} ELSE {},
                                 res |-> IF on THEN {} ELSE {l}])
  /\ WithoutInfo

(* ioctl_3100_timeouts.                                                    *)
SetTimeouts(u) ==
  /\ Vme
  /\ \E bits \in SUBSET {1} : Start(u, [op |-> "timeouts", bits |-> bits])
  /\ WithoutInfo

(* _sis1100_irq_ack: without a remote side nothing is enabled again.       *)
Acknowledge(u, irqs, then) ==
  /\ info = Nobody
  /\ pend' = pend \ irqs
  /\ IF Camac
     THEN /\ Start(u, [op |-> "ack", mask |-> irqs, then |-> then])
          /\ info' = u
          /\ UNCHANGED lost
     ELSE /\ IF then = "enable"
             THEN StartAt(u, [op |-> "enable", mask |-> irqs], "again")
             ELSE at[u] = "idle" /\ UNCHANGED procs
          /\ lost' = lost \union irqs
          /\ UNCHANGED info

(* sis1100_irq_ctl: reserve (not what a file of another process has),      *)
(* acknowledge and enable.                                                 *)
IrqCtlOn(u) ==
  /\ "ack" \in mix
  /\ \E i \in Irqs \intersect mix :
       /\ \A v \in Users \ {u} : i \in want[v] => pid[v] = pid[u]
       /\ Acknowledge(u, {i}, "enable")
       /\ want' = [want EXCEPT ![u] = @ \union {i}]
  /\ UNCHANGED <<remote, present, bell>>

(* Disable and release.                                                    *)
IrqCtlOff(u) ==
  /\ \E i \in want[u] :
       IF Camac
       THEN /\ Start(u, [op |-> "disable", mask |-> {i}])
            /\ UNCHANGED want
       ELSE /\ at[u] = "idle" /\ UNCHANGED procs
            /\ want' = [want EXCEPT ![u] = @ \ {i}]
  /\ UNCHANGED <<info, remote, present, pend, bell, lost>>

(* sis1100_irq_ack.                                                        *)
IrqAck(u) ==
  /\ LET irqs == want[u] \intersect pend
     IN irqs # {} /\ Acknowledge(u, irqs, "none")
  /\ UNCHANGED <<remote, present, want, bell>>

(* sis1100_dsp_load, _read, _wr and _rd of the words from dst on.          *)
DspCall(u) ==
  /\ present
  /\ \E op \in {"load", "read", "wr"}, dst \in Addrs :
       Start(u, [op |-> op, addr |-> dst])
  /\ WithoutInfo

(* The thread takes the doorbell.                                          *)
TakeDoorbell ==
  /\ info = Nobody /\ bell # {} /\ bell' = {}
  /\ IF Camac
     THEN Start(Thread, [op |-> "handle", mask |-> bell]) /\ info' = Thread
     ELSE at[Thread] = "idle" /\ UNCHANGED <<info, procs>>
  /\ UNCHANGED <<remote, present, pend, want, lost>>

(* A reset by the user (2), or the link is up again (0).                   *)
RemoteReset(u) ==
  /\ Start(u, [op |-> "init", reset |-> 2])
  /\ WithoutInfo

LinkUp ==
  /\ info = Nobody
  /\ Start(Thread, [op |-> "relink", reset |-> 0])
  /\ info' = Thread
  /\ UNCHANGED <<driver, lost>>

Begin ==
  /\ \/ \E u \in Users : \/ FrontIo(u) \/ SetTimeouts(u)
                         \/ IrqCtlOn(u) \/ IrqCtlOff(u) \/ IrqAck(u)
                         \/ DspCall(u) \/ RemoteReset(u)
     \/ TakeDoorbell
     \/ LinkUp
  /\ UNCHANGED <<mix, pid, hw, irqregs, outputs, dsp>>

(* The link is lost: irq.c notes it whatever others are doing.             *)
LinkDown ==
  /\ "relink" \in mix
  /\ remote' = "invalid"
  /\ UNCHANGED <<mix, pid, hw, info, procs, present, pend, want, bell,
                 irqregs, outputs, dsp, lost>>

(* irq_ctl looks at remote_hw again before it enables what it has acked.   *)
Again(p) ==
  /\ at[p] = "again"
  /\ IF Camac
     THEN at' = [at EXCEPT ![p] = "lock"] /\ UNCHANGED job
     ELSE at' = [at EXCEPT ![p] = "idle"] /\ job' = [job EXCEPT ![p] = Off]
  /\ UNCHANGED <<mix, pid, hw, info, tmp, driver, irqregs, outputs, dsp, lost>>

(* Deviation: sem_hw is not waited for.                                    *)
LockAnyway(p) ==
  /\ at[p] = "lock"
  /\ hw' = p
  /\ at' = [at EXCEPT ![p] = "first"]
  /\ UNCHANGED <<mix, pid, info, job, tmp, driver, irqregs, outputs, dsp, lost>>

(* mutex_lock(&sc->sem_hw).                                                *)
Lock(p) ==
  /\ at[p] = "lock" /\ hw = Nobody
  /\ hw' = p
  /\ at' = [at EXCEPT ![p] = "first"]
  /\ UNCHANGED <<mix, pid, info, job, tmp, driver, irqregs, outputs, dsp, lost>>

-----------------------------------------------------------------------------
(* First: what is read before anything is written.                         *)
Has(p, step, ops) == at[p] = step /\ job[p].op \in ops

Read(p, value) ==
  /\ at' = [at EXCEPT ![p] = "second"]
  /\ tmp' = [tmp EXCEPT ![p] = value]
  /\ UNCHANGED job

(* If reading fails the mask may be anything, and will be written.         *)
ReadLam(p) ==
  /\ Has(p, "first", {"ack", "enable", "disable", "handle"})
  /\ \/ Read(p, lam) /\ UNCHANGED lost
     \/ \E mask \in SUBSET Lams : Read(p, mask) /\ lost' = lost \union Lams
  /\ UNCHANGED dsp

(* opt_csr.                                                                *)
ReadLocal(p) ==
  /\ Has(p, "first", {"front"})
  /\ Read(p, lit \intersect LocalLines)
  /\ UNCHANGED <<dsp, lost>>

(* vme_master_sc: LED and timer.                                           *)
ReadMaster(p) ==
  /\ Has(p, "first", {"timeouts"})
  /\ Read(p, [lit |-> lit \intersect {Led}, timer |-> timer])
  /\ UNCHANGED <<dsp, lost>>

(* The low half of a word is written to the register d48; a failing write  *)
(* changes nothing but the answer.                                         *)
SendLow(p) ==
  /\ Has(p, "first", {"load"})
  /\ \E ok \in BOOLEAN :
       /\ Read(p, IF ok THEN "ok" ELSE "error")
       /\ d48' = IF ok THEN p ELSE d48
  /\ UNCHANGED <<code, torn, lost>>

(* Reading a word returns the high half and leaves the low one in d48.     *)
FetchHigh(p) ==
  /\ Has(p, "first", {"read"})
  /\ Read(p, code[job[p].addr])
  /\ d48' = code[job[p].addr].lo
  /\ UNCHANGED <<code, torn, lost>>

Nothing(p) ==
  /\ Has(p, "first", {"wr", "init", "relink"})
  /\ Read(p, {})
  /\ UNCHANGED <<dsp, lost>>

First(p) ==
  /\ \/ ReadLam(p) \/ ReadLocal(p) \/ ReadMaster(p)
     \/ SendLow(p) \/ FetchHigh(p) \/ Nothing(p)
  /\ UNCHANGED <<mix, pid, hw, info, driver, irqregs, outputs>>

-----------------------------------------------------------------------------
(* Second: what is written, and sem_hw is free.                            *)
Finish(p) ==
  /\ hw' = Nobody
  /\ job' = [job EXCEPT ![p] = Off]
  /\ at' = [at EXCEPT ![p] = "idle"]
  /\ tmp' = [tmp EXCEPT ![p] = {}]

Continue(p, j, step) ==
  /\ hw' = Nobody
  /\ job' = [job EXCEPT ![p] = j]
  /\ at' = [at EXCEPT ![p] = step]
  /\ tmp' = [tmp EXCEPT ![p] = {}]

(* J/K registers: bits to set and bits to clear.  BOUND: none is both, but *)
(* see SetTimers.                                                          *)
JK(old, set, clear) == (old \ clear) \union set

Written(old, new) == IF new # {} THEN new ELSE old

(* sis5100rem_irq_ack and sis5100rem_enable_irqs.  Writing the LAMs or the *)
(* front panel interrupts may fail.                                        *)
EnableIrqs(p) ==
  /\ Has(p, "second", {"ack", "enable"})
  /\ \E good \in SUBSET {Lams, Exts} :
       LET on == job[p].mask \intersect UNION good
       IN /\ lam' = IF Lams \in good THEN Written(lam, tmp[p] \union (on \intersect Lams))
                    ELSE lam
          /\ ext' = JK(ext, on \intersect Exts, {})
          /\ lost' = (lost \union job[p].mask) \ on
  /\ IF job[p].op = "ack" /\ job[p].then = "enable"
     THEN Continue(p, [op |-> "enable", mask |-> job[p].mask], "again")
     ELSE Finish(p)
  /\ info' = IF job[p].op = "ack" THEN Nobody ELSE info
  /\ UNCHANGED <<driver, outputs, dsp>>

(* Deviation: all LAMs are blocked.                                        *)
BlockAll(p) ==
  /\ lam' = {}
  /\ ext' = JK(ext, {}, job[p].mask \intersect Exts)

(* LAMs that remain are written, unless none does; or writing fails.       *)
Block(p) ==
  /\ lam' \in {lam, Written(lam, tmp[p] \ job[p].mask)}
  /\ ext' \in {ext, JK(ext, {}, job[p].mask \intersect Exts)}

(* Interrupts of p that another file (of the same process) has, too.       *)
Shared(p) == UNION {want[v] : v \in Users \ {p}}

(* sis5100rem_disable_irqs; then release_irq.                              *)
DisableIrqs(p) ==
  /\ Has(p, "second", {"disable"})
  /\ Block(p)
  /\ want' = [want EXCEPT ![p] = @ \ job[p].mask]
  /\ lost' = lost \union (job[p].mask \intersect Shared(p))
  /\ Finish(p)
  /\ UNCHANGED <<info, remote, present, pend, bell, outputs, dsp>>

(* sis5100rem_irq_handler; the thread adds what is new to pending_irqs.    *)
IrqHandler(p) ==
  /\ Has(p, "second", {"handle"})
  /\ Block(p)
  /\ pend' = pend \union job[p].mask
  /\ info' = Nobody
  /\ Finish(p)
  /\ UNCHANGED <<remote, present, want, bell, outputs, dsp, lost>>

(* The card's lines are written as a whole, the crate's by set and clear.  *)
FrontWrite(p) ==
  /\ Has(p, "second", {"front"})
  /\ LET j == job[p]
         local == (tmp[p] \ j.res) \union (j.set \intersect LocalLines)
         remotely == JK(lit \ LocalLines, j.set \ LocalLines, j.res)
     IN lit' = local \union remotely
  /\ commanded' = (commanded \ job[p].res) \union job[p].set
  /\ Finish(p)
  /\ UNCHANGED <<info, driver, irqregs, timer, dsp, lost>>

(* What was read is written again together with the bits of the new time:  *)
(* a bit that is to be set and cleared may end up either way.  Or reading  *)
(* or writing fails.                                                       *)
SetTimers(p) ==
  /\ Has(p, "second", {"timeouts"})
  /\ \/ \E kept \in SUBSET (tmp[p].timer \ job[p].bits) :
          /\ timer' = job[p].bits \union kept
          /\ lit' = JK(lit, tmp[p].lit, {})
     \/ UNCHANGED <<lit, timer>>
  /\ Finish(p)
  /\ UNCHANGED <<info, driver, irqregs, commanded, dsp, lost>>

(* The next word of the same call, or its end.  An error ends it.          *)
NextWord(p, ok) ==
  IF ok /\ job[p].addr + 1 \in Addrs
  THEN Continue(p, [job[p] EXCEPT !.addr = @ + 1], "lock") ELSE Finish(p)

(* Deviation: the error of the low half is forgotten.                     *)
SendHighOnly(p) ==
  /\ Has(p, "second", {"load"})
  /\ \E ok \in BOOLEAN :
       /\ code' = IF ok
                  THEN [code EXCEPT ![job[p].addr] =
                          [hi |-> p, lo |-> d48, by |-> "load"]]
                  ELSE code
       /\ NextWord(p, ok)
  /\ UNCHANGED <<info, driver, irqregs, outputs, d48, torn, lost>>

(* The high half is written to its address; the DSP takes the low half     *)
(* from d48.                                                               *)
SendHigh(p) ==
  /\ Has(p, "second", {"load"})
  /\ \E ok \in BOOLEAN :
       /\ code' = IF ok
                  THEN [code EXCEPT ![job[p].addr] =
                          [hi |-> p, lo |-> d48,
                           by |-> IF tmp[p] = "ok" THEN "load" ELSE "raw"]]
                  ELSE code
       /\ NextWord(p, ok /\ tmp[p] = "ok")
  /\ UNCHANGED <<info, driver, irqregs, outputs, d48, torn, lost>>

FetchLow(p) ==
  /\ Has(p, "second", {"read"})
  /\ \E ok \in BOOLEAN :
       /\ torn' = (torn \/ (ok /\ tmp[p].by = "load" /\ tmp[p].lo # d48))
       /\ NextWord(p, ok)
  /\ UNCHANGED <<info, driver, irqregs, outputs, d48, code, lost>>

(* sis1100_dsp_wr: only the high half.                                     *)
WriteHigh(p) ==
  /\ Has(p, "second", {"wr"})
  /\ code' = [code EXCEPT ![job[p].addr] = [hi |-> p, lo |-> d48, by |-> "raw"]]
  /\ NextWord(p, TRUE)
  /\ UNCHANGED <<info, driver, irqregs, outputs, d48, torn, lost>>

-----------------------------------------------------------------------------
(* sis1100_init_remote.                                                    *)

(* Hardware and firmware versions the init function of each type accepts,  *)
(* and the oldest firmware version; 0: no firmware type is asked for.      *)
Known ==
  {<<"pci", 1, 1, 4>>, <<"pci", 2, 1, 1>>, <<"pci", 2, 2, 1>>,
   <<"vme", 1, 1, 3>>, <<"vme", 2, 1, 1>>, <<"vme", 2, 33, 1>>,
   <<"vme", 2, 2, 1>>, <<"camac", 1, 1, 1>>, <<"camac", 1, 2, 1>>,
   <<"lvd", 1, 1, 1>>, <<"lvd", 2, 1, 17>>, <<"lvd", 3, 1, 1>>}

Supported(ident) ==
  \/ \E k \in Known : /\ <<k[1], k[2], k[3]>> = <<ident.typ, ident.hv, ident.fk>>
                      /\ ident.fv >= k[4]
  \/ ident.typ = "pandapixel" /\ (ident.hv = 1 => ident.fv >= 16)
  \/ ident.typ = "psf4ad"

(* A SIS3100 and the CAMAC controller may have a DSP.                      *)
MayHaveDsp(ident) ==
  ident.typ = "camac" \/ (ident.typ = "vme" /\ ident.hv = 1)

(* The size of the SDRAM, in MByte, by its rows, columns and banks.        *)
RamSize(rcb) ==
  CASE rcb = <<12, 9, 1>> -> 64 [] rcb = <<12, 9, 2>> -> 128
    [] rcb = <<13, 10, 1>> -> 256 [] rcb = <<13, 10, 2>> -> 512
    [] OTHER -> 0

Idents ==
  {[typ |-> Kind, hv |-> hv, fk |-> 1, fv |-> fv] : hv \in {1, 2},
                                                   fv \in {0, 4}}

(* cr_rem_reset, or a write of power_on_reset to the VME controller.       *)
CrateReset ==
  /\ lam' = {} /\ ext' = {} /\ timer' = {}
  /\ lit' = lit \intersect LocalLines
  /\ commanded' = commanded \intersect LocalLines
  /\ lost' = Irqs

InitEnd(p) ==
  /\ Has(p, "second", {"init", "relink"})
  /\ \/ UNCHANGED <<present, remote>>
     \/ \E ident \in Idents, has \in BOOLEAN :
          /\ present' = (Supported(ident) /\ MayHaveDsp(ident) /\ has)
          /\ remote' = IF Supported(ident) THEN Kind ELSE remote
  /\ \/ CrateReset
     \/ job[p].reset = 0 /\ UNCHANGED <<irqregs, outputs, lost>>
  /\ info' = IF p = Thread THEN Nobody ELSE info
  /\ Finish(p)
  /\ UNCHANGED <<pend, want, bell, dsp>>

Second(p) ==
  /\ \/ EnableIrqs(p) \/ DisableIrqs(p) \/ IrqHandler(p)
     \/ FrontWrite(p) \/ SetTimers(p)
     \/ SendHigh(p) \/ FetchLow(p) \/ WriteHigh(p)
     \/ InitEnd(p)
  /\ UNCHANGED <<mix, pid>>

-----------------------------------------------------------------------------
(* External: an enabled interrupt rings the doorbell.                      *)
Ring ==
  /\ \E i \in (lam \union ext) \ bell : bell' = bell \union {i}
  /\ UNCHANGED <<mix, pid, hw, info, procs, remote, present, pend, want,
                 irqregs, outputs, dsp, lost>>

CrateNext ==
  \/ Begin
  \/ \E p \in Procs : Again(p) \/ Lock(p) \/ First(p) \/ Second(p)
  \/ LinkDown \/ Ring

CrateSpec == CrateInit /\ [][CrateNext]_crateVars

-----------------------------------------------------------------------------
(* Properties.                                                             *)

(* While nobody uses the crate every output and LED is as the calls of     *)
(* front_io have left it: neither another front_io, which writes all lines *)
(* of the card, nor the setting of the timeouts, which writes the LED back *)
(* as it was read, undoes one.                                             *)
OutputsAsCommanded == hw = Nobody => lit = commanded

(* A word of DSP code that was loaded without an error, and one that is    *)
(* read back, is never made of halves of two words: other loads, reads and *)
(* single writes use the same register for the low half.                   *)
DspWordsAreWhole ==
  /\ \A a \in Addrs : code[a].by = "load" => code[a].hi = code[a].lo
  /\ ~torn

(* Enabled, or about to be, or just being handled and soon pending.        *)
Attended(i) ==
  \/ i \in lam \union ext
  \/ \E u \in Users : job[u].op \in {"ack", "enable"} /\ i \in job[u].mask
  \/ job[Thread].op = "handle" /\ i \in job[Thread].mask

(* A CAMAC interrupt that is reserved and not pending (so that nobody will *)
(* acknowledge it) is enabled, whatever others do to the same register.    *)
(* Not so, by name (lost), until it is enabled again: one whose enabling   *)
(* has failed or was skipped because there was no remote side; all LAMs    *)
(* after a failed reading of the mask; what another file of the same       *)
(* process has released; and all after a reset of the crate (hazards at    *)
(* sis5100rem_irq.c line 52 and sis3100rem_init.c line 135).  That the     *)
(* last LAM is never blocked does not violate it.                          *)
ReservedIsEnabled ==
  \A u \in Users : \A i \in want[u] \ (pend \union lost) : Attended(i)
=============================================================================

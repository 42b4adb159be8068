------------------------------ MODULE VmeCalls ------------------------------
(***************************************************************************)
(* The library of a user program: each function fills a request, calls     *)
(* ioctl(2) (or lseek(2), read(2), write(2)) and turns what comes back     *)
(* into its own result (sis3100_vme_calls.c, sis5100_camac_calls.c).       *)
(*                                                                         *)
(* A function is a record: the command and the fields of the request that  *)
(* it fills by itself.                                                     *)
(***************************************************************************)
EXTENDS Ioctl32

Word(cmd, am, size) == [cmd |-> cmd, am |-> am, size |-> size]
WordRead(am, size) == Word("VME_READ", am, size)
WordWrite(am, size) == Word("VME_WRITE", am, size)

List(cmd, am, size, fifo) ==
  [cmd |-> cmd, am |-> am, size |-> size, fifo |-> fifo]
BlockRead(am, size) == List("VME_BLOCK_READ", am, size, 0)
FifoRead(am, size) == List("VME_BLOCK_READ", am, size, 1)
BlockWrite(am, size) == List("VME_BLOCK_WRITE", am, size, 0)

(* The requests of a table of functions.                                   *)
Requests(table) == {table[f] : f \in DOMAIN table}

(* Single words.                                                           *)
IackCalls == [vme_IACK_D8_read |-> WordRead(\h4000, 1)]

A16Reads ==
  [vme_A16D8_read |-> WordRead(\h29, 1),
   vme_A16D16_read |-> WordRead(\h29, 2),
   vme_A16D32_read |-> WordRead(\h29, 4)]

A16Writes ==
  [vme_A16D8_write |-> WordWrite(\h29, 1),
   vme_A16D16_write |-> WordWrite(\h29, 2),
   vme_A16D32_write |-> WordWrite(\h29, 4)]

A24Reads ==
  [vme_A24D8_read |-> WordRead(\h39, 1),
   vme_A24D16_read |-> WordRead(\h39, 2),
   vme_A24D32_read |-> WordRead(\h39, 4)]

A24Writes ==
  [vme_A24D8_write |-> WordWrite(\h39, 1),
   vme_A24D16_write |-> WordWrite(\h39, 2),
   vme_A24D32_write |-> WordWrite(\h39, 4)]

A32Reads ==
  [vme_A32D8_read |-> WordRead(\h9, 1),
   vme_A32D16_read |-> WordRead(\h9, 2),
   vme_A32D32_read |-> WordRead(\h9, 4)]

A32Writes ==
  [vme_A32D8_write |-> WordWrite(\h9, 1),
   vme_A32D16_write |-> WordWrite(\h9, 2),
   vme_A32D32_write |-> WordWrite(\h9, 4)]

WordCalls ==
  UNION {Requests(IackCalls), Requests(A16Reads), Requests(A16Writes),
         Requests(A24Reads), Requests(A24Writes), Requests(A32Reads),
         Requests(A32Writes)}

(* Blocks.                                                                 *)
A24BlockReads ==
  [vme_A24DMA_D16_read |-> BlockRead(\h39, 2),
   vme_A24DMA_D32_read |-> BlockRead(\h39, 4),
   vme_A24BLT32_read |-> BlockRead(\h3b, 4),
   vme_A24MBLT64_read |-> BlockRead(\h38, 4),
   vme_A24BLT32FIFO_read |-> FifoRead(\h3b, 4),
   vme_A24MBLT64FIFO_read |-> FifoRead(\h38, 4)]

A24BlockWrites ==
  [vme_A24DMA_D16_write |-> BlockWrite(\h39, 2),
   vme_A24DMA_D32_write |-> BlockWrite(\h39, 4),
   vme_A24BLT32_write |-> BlockWrite(\h3b, 4),
   vme_A24MBLT64_write |-> BlockWrite(\h38, 4)]

A32BlockReads ==
  [vme_A32DMA_D32_read |-> BlockRead(\h9, 4),
   vme_A32BLT32_read |-> BlockRead(\hb, 4),
   vme_A32MBLT64_read |-> BlockRead(\h8, 4),
   vme_A32_2EVME_read |-> BlockRead(\h20, 4)]

A32FifoReads ==
  [vme_A32DMA_D32FIFO_read |-> FifoRead(\h9, 4),
   vme_A32BLT32FIFO_read |-> FifoRead(\hb, 4),
   vme_A32MBLT64FIFO_read |-> FifoRead(\h8, 4),
   vme_A32_2EVMEFIFO_read |-> FifoRead(\h20, 4)]

A32BlockWrites ==
  [vme_A32DMA_D32_write |-> BlockWrite(\h9, 4),
   vme_A32BLT32_write |-> BlockWrite(\hb, 4),
   vme_A32MBLT64_write |-> BlockWrite(\h8, 4)]

BlockCalls ==
  UNION {Requests(A24BlockReads), Requests(A24BlockWrites),
         Requests(A32BlockReads), Requests(A32FifoReads),
         Requests(A32BlockWrites)}

-----------------------------------------------------------------------------
(* What the functions make of the answer.  res: the result of the system   *)
(* call; "512" stands for -ERESTARTSYS, which the driver negates once too  *)
(* often, so that the library takes it for success.                        *)
Failed(res) == res \notin {Ok, "512"}

(* A block: no number at all when the system call fails.                   *)
BlockResult(res, num, error) ==
  IF Failed(res) THEN [value |-> "-1", got |-> 0]
                 ELSE [value |-> error, got |-> num]

(* A word of the crate, a CAMAC function.                                  *)
WordResult(o) == IF Failed(o.res) THEN "-1" ELSE o.d.error

(* Control registers: the protocol error is not looked at.                 *)
ControlResult(o) == IF Failed(o.res) THEN "1" ELSE Ok

(* SYSRESET on, half a second, SYSRESET off (registers written in turn).   *)
SysReset(on, off) ==
  IF ControlResult(on) # Ok \/ ControlResult(off) # Ok THEN "-1" ELSE Ok

(* CAMAC.                                                                  *)
CamacResult(o) == IF o.res # Ok THEN "-1" ELSE o.d.error
=============================================================================

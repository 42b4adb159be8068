------------------------------- MODULE Ioctl -------------------------------
(***************************************************************************)
(* The system calls of an open file: what ioctl(2) tests, which function   *)
(* of the driver it calls and what it changes in the file and the card,    *)
(* for programs of the word length of the kernel (sis1100_ioctl.c) and for *)
(* 32 bit programs on a 64 bit kernel (sis1100_ioctl32_linux.c, which      *)
(* repeats the handlers for structures with pointers and longs).           *)
(*                                                                         *)
(* A handler maps its argument, the file and the card to an outcome.       *)
(* Functions that other modules describe are named in "calls" and answer   *)
(* "ok" or an error.  Permissions are left out (the caller has them).      *)
(***************************************************************************)
EXTENDS Integers

Ok == "ok"

(* d: the argument when the handler ends; it is copied back to the user    *)
(* only when res is Ok.  fn: the function called on the way, or "none".    *)
Outcome(res, d, fn, fd, card) ==
  [res |-> res, d |-> d, calls |-> fn, fd |-> fd, card |-> card]

Answer(d, fd, card) == Outcome(Ok, d, "none", fd, card)
Refuse(e, d, fd, card) == Outcome(e, d, "none", fd, card)
(* The result of the function is the result of the call.                   *)
Forward(fn, reply, d, fd, card) == Outcome(reply, d, fn, fd, card)
(* The result of the function is stored in d.error.                        *)
Report(fn, reply, d, fd, card) ==
  Outcome(Ok, [d EXCEPT !.error = reply], fn, fd, card)

Online(card) == card.hw # "invalid"
New(x, old) == IF x >= 0 THEN x ELSE old

-----------------------------------------------------------------------------
(* Settings of the file and the card.  Arguments: x, y.                    *)
SetVmeSpace(d, fd, card) ==
  IF d.x \notin {1, 2, 4} THEN Refuse("EINVAL", d, fd, card)
  ELSE Answer(d, [fd EXCEPT !.am = d.am, !.size = d.x,
                            !.dmaR = New(d.y, @), !.dmaW = New(d.y, @)],
              [card EXCEPT !.swap = New(d.z, @)])

MinDmaLen(d, fd, card) ==
  Answer([d EXCEPT !.x = fd.dmaR, !.y = fd.dmaW],
         [fd EXCEPT !.dmaR = New(d.x, @), !.dmaW = New(d.y, @)], card)

MinPipeLen(d, fd, card) ==
  Answer([d EXCEPT !.x = fd.pipeR, !.y = fd.pipeW],
         [fd EXCEPT !.pipeR = New(d.x, @), !.pipeW = New(d.y, @)], card)

FifoMode(d, fd, card) ==
  Answer([d EXCEPT !.x = fd.fifo],
         [fd EXCEPT !.fifo = IF d.x >= 0 THEN (IF d.x = 0 THEN 0 ELSE 1)
                                         ELSE @], card)

Swap(d, fd, card) ==
  Answer([d EXCEPT !.x = card.swap], fd, [card EXCEPT !.swap = d.x])

TestFlags(d, fd, card) ==
  Answer([d EXCEPT !.x = card.flags], fd, [card EXCEPT !.flags = d.x])

(* Old timeouts are read, new ones set, under one sem_hw.                  *)
Timeouts(reply, d, fd, card) ==
  IF fd.subdev # "remote" \/ card.hw # "vme" THEN Refuse("ENXIO", d, fd, card)
  ELSE IF reply # Ok THEN Outcome("EIO", d, "timeouts", fd, card)
  ELSE Outcome(Ok, [d EXCEPT !.x = card.timeout], "timeouts", fd,
               [card EXCEPT !.timeout = d.x])

(* Questions.                                                              *)
LastError(d, fd, card) == Answer([d EXCEPT !.x = fd.last], fd, card)
DevType(d, fd, card) == Answer([d EXCEPT !.t = fd.subdev], fd, card)
DriverVersion(d, fd, card) == Answer([d EXCEPT !.t = "version"], fd, card)
Ident(d, fd, card) == Answer([d EXCEPT !.t = card.hw], fd, card)

MapSize(d, fd, card) ==
  Answer([d EXCEPT !.t = CASE fd.subdev = "remote" -> "space 3"
                           [] fd.subdev = "ram" ->
                                IF Online(card) THEN "ram size" ELSE "0"
                           [] fd.subdev = "ctrl" -> "space 2"
                           [] fd.subdev = "dsp" -> "0"], fd, card)

-----------------------------------------------------------------------------
(* Registers.  Offsets count the registers; ctrl files reach the interface *)
(* (CtrlRegs), others the remote side (RemoteRegs); x: offset, y: words.   *)
CtrlRegs == 3
RemoteRegs == 2

CtrlReg(local, remote, reply, d, fd, card) ==
  IF fd.subdev = "ctrl"
  THEN IF d.x \notin 0 .. CtrlRegs - 1 THEN Refuse("EINVAL", d, fd, card)
       ELSE Report(local, Ok, d, fd, card)
  ELSE IF d.x \notin 0 .. RemoteRegs - 1 THEN Refuse("EINVAL", d, fd, card)
  ELSE Report(remote, reply, d, fd, card)

(* A block has to end below the last register: "offset+count*4 & ~max".    *)
BlockFits(d, regs) ==
  d.x \in 0 .. regs - 1 /\ (d.fifo = 1 \/ d.x + d.y \in 0 .. regs - 1)

CtrlBlock(local, remote, reply, d, fd, card) ==
  LET ctrl == fd.subdev = "ctrl" IN
  IF ~ctrl /\ ~Online(card) THEN Refuse("ENXIO", d, fd, card)
  ELSE IF ~BlockFits(d, IF ctrl THEN CtrlRegs ELSE RemoteRegs)
  THEN Refuse("EINVAL", d, fd, card)
  ELSE IF ctrl THEN Report(local, Ok, d, fd, card)
  ELSE Report(remote, reply, d, fd, card)

PlxReg(fn, d, fd, card) == Report(fn, Ok, d, fd, card)

-----------------------------------------------------------------------------
(* Access to the remote side.                                              *)

(* Single words and lists of words: the protocol error is part of d.       *)
Single(fn, reply, d, fd, card) ==
  IF Online(card) THEN Report(fn, reply, d, fd, card)
                  ELSE Refuse("ENXIO", d, fd, card)

Probe(reply, d, fd, card) ==
  IF card.hw # "vme" THEN Refuse("ENXIO", d, fd, card)
  ELSE Outcome(IF reply = Ok THEN Ok ELSE "EIO", d, "tmp_read", fd, card)

(* Blocks: the result is that of read_block and write_block, which store   *)
(* number and error (module Access).                                       *)
Block(fn, reply, d, fd, card) ==
  IF Online(card) THEN Forward(fn, reply, d, fd, card)
                  ELSE Refuse("ENXIO", d, fd, card)

(* Several blocks: the first error ends the list and is reported in d.     *)
SuperBlock(reply, d, fd, card) ==
  IF ~Online(card) THEN Refuse("ENXIO", d, fd, card)
  ELSE Outcome(Ok, [d EXCEPT !.x = IF reply = Ok THEN @ ELSE 0,
                             !.error = reply], "read_block", fd, card)

(* A list of requests answers with the number of bytes (x) and the error.  *)
Pipe(reply, d, fd, card) ==
  IF Online(card)
  THEN Outcome(Ok, [d EXCEPT !.x = IF reply = Ok THEN @ ELSE 0,
                             !.error = reply], "read_pipe", fd, card)
  ELSE Refuse("ENXIO", d, fd, card)

(* CAMAC: Z, C and I answer 0 whatever the crate says.                     *)
CamacCommand(fn, d, fd, card) ==
  IF card.hw # "camac" THEN Refuse("ENXIO", d, fd, card)
  ELSE Outcome(Ok, d, fn, fd, card)

(* x: F & 0x18, divided by 8: 0 reads, 2 writes, 1 and 3 are commands.     *)
Cnaf(reply, d, fd, card) ==
  Report(IF d.x % 4 = 0 THEN "camacread" ELSE "camacwrite",
         reply, d, fd, card)

-----------------------------------------------------------------------------
(* What is handed on to other parts of the driver unchanged.               *)
Elsewhere ==
  {"IRQ_CTL", "IRQ_GET", "IRQ_ACK", "IRQ_WAIT",
   "FRONT_IO", "FRONT_PULSE", "FRONT_LATCH",
   "DSP_LOAD", "DSP_READ", "DSP_RESET", "DSP_START", "DSP_WR", "DSP_RD",
   "DEMAND_DMA_MAP", "DEMAND_DMA_START", "DEMAND_DMA_STOP",
   "DEMAND_DMA_MARK", "DEMAND_DMA_WAIT", "SERIAL_NO",
   "READ_EEPROM", "WRITE_EEPROM", "TRANSPARENT", "JTAG_ENABLE",
   "JTAG_CTRL", "JTAG_PUT", "JTAG_DATA", "JTAG_GET"}

(* Resets, and the size of the EEPROM, answer 0 whatever happens.          *)
AlwaysOk == {"RESET", "REMOTE_RESET", "EEPROM_SIZE"}

Settings == {"SETVMESPACE", "MINDMALEN", "MINPIPELEN", "FIFOMODE", "SWAP",
             "TESTFLAGS", "TIMEOUTS"}
Questions == {"LAST_ERROR", "DEVTYPE", "DRIVERVERSION", "IDENT", "MAPSIZE"}
Registers == {"CTRL_READ", "CTRL_WRITE", "CTRL_READ_BLOCK",
              "CTRL_WRITE_BLOCK", "PLX_READ", "PLX_WRITE"}
Transfers == {"VME_PROBE", "VME_READ", "VME_WRITE", "VME_WRITE_BLIND",
              "VME_BLOCK_READ", "VME_BLOCK_WRITE", "VME_SUPER_BLOCK_READ",
              "PIPE", "WRITE_PIPE"}
Camac == {"CCCZ", "CCCC", "CCCI", "CNAF"}
Commands == Elsewhere \union AlwaysOk \union Settings \union Questions
            \union Registers \union Transfers \union Camac

Setting(c, reply, d, fd, card) ==
  CASE c = "SETVMESPACE" -> SetVmeSpace(d, fd, card)
    [] c = "MINDMALEN" -> MinDmaLen(d, fd, card)
    [] c = "MINPIPELEN" -> MinPipeLen(d, fd, card)
    [] c = "FIFOMODE" -> FifoMode(d, fd, card)
    [] c = "SWAP" -> Swap(d, fd, card)
    [] c = "TESTFLAGS" -> TestFlags(d, fd, card)
    [] c = "TIMEOUTS" -> Timeouts(reply, d, fd, card)

Question(c, d, fd, card) ==
  CASE c = "LAST_ERROR" -> LastError(d, fd, card)
    [] c = "DEVTYPE" -> DevType(d, fd, card)
    [] c = "DRIVERVERSION" -> DriverVersion(d, fd, card)
    [] c = "IDENT" -> Ident(d, fd, card)
    [] c = "MAPSIZE" -> MapSize(d, fd, card)

RegisterCall(c, reply, d, fd, card) ==
  CASE c = "CTRL_READ" ->
         CtrlReg("readreg32", "remote_reg_read", reply, d, fd, card)
    [] c = "CTRL_WRITE" ->
         CtrlReg("writereg32", "remote_reg_write", reply, d, fd, card)
    [] c = "CTRL_READ_BLOCK" ->
         CtrlBlock("pipe_ctrl_read_local", "pipe_ctrl_read_remote",
                   reply, d, fd, card)
    [] c = "CTRL_WRITE_BLOCK" ->
         CtrlBlock("pipe_ctrl_write_local", "pipe_ctrl_write_remote",
                   reply, d, fd, card)
    [] c = "PLX_READ" -> PlxReg("plxreadreg32", d, fd, card)
    [] c = "PLX_WRITE" -> PlxReg("plxwritereg32", d, fd, card)

TransferCall(c, reply, d, fd, card) ==
  CASE c = "VME_PROBE" -> Probe(reply, d, fd, card)
    [] c = "VME_READ" -> Single("tmp_read", reply, d, fd, card)
    [] c = "VME_WRITE" -> Single("tmp_write", reply, d, fd, card)
    [] c = "VME_WRITE_BLIND" -> Single("tmp_write_blind", Ok, d, fd, card)
    [] c = "VME_BLOCK_READ" -> Block("read_block", reply, d, fd, card)
    [] c = "VME_BLOCK_WRITE" -> Block("write_block", reply, d, fd, card)
    [] c = "VME_SUPER_BLOCK_READ" -> SuperBlock(reply, d, fd, card)
    [] c = "PIPE" -> Pipe(reply, d, fd, card)
    [] c = "WRITE_PIPE" -> Single("write_pipe", reply, d, fd, card)

CamacCall(c, reply, d, fd, card) ==
  CASE c = "CCCZ" -> CamacCommand("camacwrite Z", d, fd, card)
    [] c = "CCCC" -> CamacCommand("camacwrite C", d, fd, card)
    [] c = "CCCI" -> CamacCommand("writeremreg I", d, fd, card)
    [] c = "CNAF" -> Cnaf(reply, d, fd, card)

(* _sis1100_ioctl; what it does not know is ENOTTY.                        *)
Native(c, reply, d, fd, card) ==
  CASE c \in Settings -> Setting(c, reply, d, fd, card)
    [] c \in Questions -> Question(c, d, fd, card)
    [] c \in Registers -> RegisterCall(c, reply, d, fd, card)
    [] c \in Transfers -> TransferCall(c, reply, d, fd, card)
    [] c \in Camac -> CamacCall(c, reply, d, fd, card)
    [] c \in Elsewhere -> Forward(c, reply, d, fd, card)
    [] c \in AlwaysOk -> Outcome(Ok, d, c, fd, card)
    [] OTHER -> Refuse("ENOTTY", d, fd, card)
=============================================================================

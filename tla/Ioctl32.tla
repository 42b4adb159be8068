------------------------------ MODULE Ioctl32 ------------------------------
(***************************************************************************)
(* ioctl(2) of 32 bit programs on a 64 bit kernel                          *)
(* (sis1100_ioctl32_linux.c).  The handlers are written a second time for  *)
(* the structures of these programs; a command that has the same number in *)
(* both worlds may be left to the native switch (compat_ioctl).            *)
(***************************************************************************)
EXTENDS Ioctl

SetVmeSpace32(d, fd, card) ==
  IF ~(d.x = 1 \/ d.x = 2 \/ d.x = 4) THEN Refuse("EINVAL", d, fd, card)
  ELSE LET len == IF d.y >= 0 THEN <<d.y, d.y>> ELSE <<fd.dmaR, fd.dmaW>>
       IN Answer(d, [fd EXCEPT !.am = d.am, !.size = d.x,
                               !.dmaR = len[1], !.dmaW = len[2]],
                 [card EXCEPT !.swap = IF d.z >= 0 THEN d.z ELSE @])

(* vme_read, vme_write, vme_write_blind, vme_block_read, vme_block_write,  *)
(* pipe, write_pipe.                                                       *)
Linked32(outcome, d, fd, card) ==
  IF card.hw = "invalid" THEN Refuse("ENXIO", d, fd, card) ELSE outcome

(* The native handler does not look whether the remote side is there.      *)
Ctrl32(local, remote, reply, d, fd, card) ==
  IF fd.subdev = "ctrl"
  THEN IF ~(d.x \in 0 .. CtrlRegs - 1) THEN Refuse("EINVAL", d, fd, card)
       ELSE Report(local, Ok, d, fd, card)
  ELSE IF ~(d.x \in 0 .. RemoteRegs - 1) THEN Refuse("EINVAL", d, fd, card)
  ELSE Linked32(Report(remote, reply, d, fd, card), d, fd, card)

Plx32(fn, d, fd, card) == Outcome(Ok, [d EXCEPT !.error = Ok], fn, fd, card)

(* The number of bytes stays in the local structure.                       *)
Pipe32(reply, d, fd, card) ==
  Linked32(Outcome(Ok, [d EXCEPT !.error = reply], "read_pipe", fd, card),
           d, fd, card)

Ident32(d, fd, card) == Answer([d EXCEPT !.t = card.hw], fd, card)

WritePipe32(reply, d, fd, card) ==
  Linked32(Report("write_pipe", reply, d, fd, card), d, fd, card)

FifoMode32(d, fd, card) ==
  LET new == IF d.x > 0 THEN 1 ELSE IF d.x = 0 THEN 0 ELSE fd.fifo
  IN Answer([d EXCEPT !.x = fd.fifo], [fd EXCEPT !.fifo = new], card)

Info32(t, d, fd, card) == Answer([d EXCEPT !.t = t], fd, card)

MinDmaLen32(d, fd, card) ==
  LET r == IF d.x >= 0 THEN d.x ELSE fd.dmaR
      w == IF d.y >= 0 THEN d.y ELSE fd.dmaW
  IN Answer([d EXCEPT !.x = fd.dmaR, !.y = fd.dmaW],
            [fd EXCEPT !.dmaR = r, !.dmaW = w], card)

Ccci32(d, fd, card) ==
  IF card.hw = "camac" THEN Outcome(Ok, d, "writeremreg I", fd, card)
                       ELSE Refuse("ENXIO", d, fd, card)

(* As if the old value were lost.                                          *)
Swap32Forgets(d, fd, card) == Answer(d, fd, [card EXCEPT !.swap = d.x])

Swap32(d, fd, card) ==
  Answer([d EXCEPT !.x = card.swap], fd, [card EXCEPT !.swap = d.x])

Timeouts32(reply, d, fd, card) ==
  CASE ~(fd.subdev = "remote" /\ card.hw = "vme") ->
         Refuse("ENXIO", d, fd, card)
    [] reply # Ok /\ fd.subdev = "remote" /\ card.hw = "vme" ->
         Outcome("EIO", d, "timeouts", fd, card)
    [] OTHER -> Outcome(Ok, [d EXCEPT !.x = card.timeout], "timeouts", fd,
                        [card EXCEPT !.timeout = d.x])

(* Arguments are converted to the native structure and the function of the *)
(* native switch is called ...                                             *)
Ddma32 == {"DEMAND_DMA_MARK", "DEMAND_DMA_WAIT"}
DdmaMap32 == {"DEMAND_DMA_MAP"}
Eeprom32 == {"READ_EEPROM", "WRITE_EEPROM"}

(* ... except that DSP_READ loads.  DSP_WR and DSP_RD are numbered with    *)
(* the native structure (ioctl32_linux.h), so that a 32 bit program never  *)
(* reaches them.                                                           *)
Dsp32(c, reply, d, fd, card) ==
  Forward(IF c = "DSP_READ" THEN "DSP_LOAD" ELSE c, reply, d, fd, card)

(* Commands whose number in an i386 program no case of either switch has:  *)
(* the argument has another size there and no structure of its own, or     *)
(* another one than ioctl32_linux.h gives it.  DEMAND_DMA_STOP has a case, *)
(* numbered _IOWR with 16 bytes; the program's number is _IOR with 12      *)
(* bytes (sis1100_var.h: a u_int64_t is aligned to 4 on i386).             *)
Unknown32 == {"DSP_WR", "DSP_RD", "VME_SUPER_BLOCK_READ",
              "CTRL_READ_BLOCK", "CTRL_WRITE_BLOCK", "DEMAND_DMA_STOP"}

Block32(fn, reply, d, fd, card) ==
  Linked32(Forward(fn, reply, d, fd, card), d, fd, card)

Vme32(fn, reply, d, fd, card) ==
  Linked32(Report(fn, reply, d, fd, card), d, fd, card)

(* _sis1100_ioctl32.                                                       *)
Compat(c, reply, d, fd, card) ==
  CASE c \in Unknown32 -> Refuse("ENOTTY", d, fd, card)
    [] c = "SETVMESPACE" -> SetVmeSpace32(d, fd, card)
    [] c = "VME_READ" -> Vme32("tmp_read", reply, d, fd, card)
    [] c = "VME_WRITE" -> Vme32("tmp_write", reply, d, fd, card)
    [] c = "VME_WRITE_BLIND" -> Vme32("tmp_write_blind", Ok, d, fd, card)
    [] c = "VME_BLOCK_READ" -> Block32("read_block", reply, d, fd, card)
    [] c = "VME_BLOCK_WRITE" -> Block32("write_block", reply, d, fd, card)
    [] c = "CTRL_READ" ->
         Ctrl32("readreg32", "remote_reg_read", reply, d, fd, card)
    [] c = "CTRL_WRITE" ->
         Ctrl32("writereg32", "remote_reg_write", reply, d, fd, card)
    [] c = "PIPE" -> Pipe32(reply, d, fd, card)
    [] c = "IDENT" -> Ident32(d, fd, card)
    [] c = "FIFOMODE" -> FifoMode32(d, fd, card)
    [] c = "MINDMALEN" -> MinDmaLen32(d, fd, card)
    [] c = "WRITE_PIPE" -> WritePipe32(reply, d, fd, card)
    [] c = "CCCI" -> Ccci32(d, fd, card)
    [] c = "SWAP" -> Swap32(d, fd, card)
    [] c = "TIMEOUTS" -> Timeouts32(reply, d, fd, card)
    [] c \in {"DSP_LOAD", "DSP_READ"} -> Dsp32(c, reply, d, fd, card)
    [] c \in Ddma32 \union DdmaMap32 \union Eeprom32 ->
         Forward(c, reply, d, fd, card)
    [] c = "DEVTYPE" -> Info32(fd.subdev, d, fd, card)
    [] c = "DRIVERVERSION" -> Info32("version", d, fd, card)
    [] c = "PLX_READ" -> Plx32("plxreadreg32", d, fd, card)
    [] c = "PLX_WRITE" -> Plx32("plxwritereg32", d, fd, card)
    [] c = "EEPROM_SIZE" -> Outcome(Ok, d, c, fd, card)
    [] OTHER -> Native(c, reply, d, fd, card)
=============================================================================

------------------------------- MODULE Access -------------------------------
(***************************************************************************)
(* A program moves blocks of words between its memory and the remote side: *)
(* from the function of the library or read(2) and write(2) down to the    *)
(* chunks of DMA, the loops and the pipe, and the count and error on the   *)
(* way back, while the link may be lost and come back and any address may  *)
(* answer with an error.                                                   *)
(*                                                                         *)
(* Sources: sis3100_vme_calls.c, sis5100_camac_calls.c (VmeCalls),         *)
(* sis1100_ioctl.c, sis1100_ioctl32_linux.c (Ioctl, Ioctl32),              *)
(* sis1100_read.c, sis1100_write.c, sis1100_llseek_linux.c,                *)
(* sis1100_read_block.c, sis1100_write_block.c and the ways they choose    *)
(* from.  One process; locks and interrupts are in module Transfers.       *)
(***************************************************************************)
EXTENDS VmeCalls, Sequences, FiniteSets

CONSTANTS
  Hws,        (* kinds of remote sides: "vme", "camac", "lvd"              *)
  Subdevs,    (* the files of the program: "remote", "ram", "ctrl"         *)
  DmaMax,     (* words that fit into the DMA buffer (DMA_MAX / 4)          *)
  MaxNum,     (* BOUND: words of a block                                   *)
  Places,     (* BOUND: addresses of blocks (bytes)                        *)
  Edge,       (* the address 2 GiB                                         *)
  Crossing,   (* blocks of longer words may reach Edge                     *)
  Arguments   (* BOUND: <<command, argument>> of the settings              *)

ASSUME BoundsAssumption == /\ DmaMax \in Nat \ {0} /\ MaxNum \in Nat \ {0}
                           /\ Places \subseteq Nat
ASSUME ArgumentsAssumption ==
  \A a \in Arguments : /\ a[1] \in Settings
                       /\ a[2].x \in Int /\ a[2].y \in Int /\ a[2].z \in Int
ASSUME EdgeAssumption == Edge \in Nat \ {0} /\ Crossing \in BOOLEAN

VARIABLES
  fd,         (* struct sis1100_fdata                                      *)
  card,       (* what the settings change in struct sis1100_softc          *)
  link,       (* the link is up                                            *)
  kind,       (* what is at its other end                                  *)
  cut,        (* the link has been away since the call began               *)
  pos,        (* the position of the file                                  *)
  pc,         (* where the call is                                         *)
  call,       (* its arguments                                             *)
  addr, upos, left,   (* the next address, user word; words to come        *)
  cr,         (* _count_read: not set when a read is aborted               *)
  moved,      (* <<address, user word>> of the words moved so far          *)
  res,        (* error number of the system call                           *)
  err,        (* protocol error                                            *)
  ret         (* what the program has got                                  *)

file == <<fd, pos>>
far == <<link, kind, cut>>
place == <<addr, upos, left>>
result == <<res, err>>
vars == <<file, card, far, pc, call, place, cr, moved, result, ret>>

Errors == {Ok, "bus", "local", "sync", "old"}
Ways == {"dma", "loop", "single", "pipe", "none"}

NoCall == [dir |-> "read", api |-> "lib", size |-> 4, fifo |-> 0, num |-> 0,
           start |-> 0, bad |-> -1, way |-> "none"]

NoAnswer == [value |-> Ok, got |-> 0]

TypeOK ==
  /\ fd.subdev \in Subdevs /\ fd.size \in {1, 2, 4} /\ fd.fifo \in {0, 1}
  /\ {fd.dmaR, fd.dmaW, fd.pipeR, fd.pipeW} \subseteq Nat
  /\ fd.last \in Errors
  /\ card.hw \in Hws \union {"invalid"}
  /\ link \in BOOLEAN /\ kind \in Hws /\ cut \in BOOLEAN /\ pos \in Nat
  /\ pc \in {"idle", "enter", "chunk", "counter", "word", "send", "drain", "pipe",
             "return"}
  /\ call.way \in Ways /\ call.num \in 0 .. MaxNum
  /\ addr \in Nat /\ upos \in Nat /\ left \in -MaxNum .. MaxNum
  /\ cr \in 0 .. MaxNum
  /\ res \in {Ok, "ENXIO", "EIO", "512"} /\ err \in Errors

Init ==
  /\ fd \in [subdev : Subdevs, am : {0}, size : {4}, dmaR : {0},
             dmaW : {0}, pipeR : {0}, pipeW : {0}, fifo : {0}, last : {Ok}]
  /\ kind \in Hws
  /\ card = [hw |-> kind, swap |-> 0, flags |-> 0, timeout |-> 0]
  /\ link = TRUE /\ cut = FALSE /\ pos = 0
  /\ pc = "idle" /\ call = NoCall
  /\ addr = 0 /\ upos = 0 /\ left = 0 /\ cr = 0
  /\ moved = <<>> /\ res = Ok /\ err = Ok
  /\ ret = NoAnswer

-----------------------------------------------------------------------------
(* The link.  BOUND: nothing happens to it while the program looks at the  *)
(* result of a call.                                                       *)
Looking == pc = "idle" /\ call # NoCall

LinkLost ==
  /\ link /\ ~Looking
  /\ link' = FALSE /\ cut' = (pc # "idle")
  /\ UNCHANGED <<file, card, kind, pc, call, place, cr, moved, result, ret>>

(* The interrupt thread forgets the remote side and finds it again.        *)
RemoteGone ==
  /\ ~link /\ card.hw # "invalid" /\ ~Looking
  /\ card' = [card EXCEPT !.hw = "invalid"]
  /\ UNCHANGED <<file, far, pc, call, place, cr, moved, result, ret>>

RemoteBack ==
  /\ ~link /\ card.hw = "invalid" /\ ~Looking
  /\ link' = TRUE
  /\ card' = [card EXCEPT !.hw = kind]
  /\ UNCHANGED <<file, kind, cut, pc, call, place, cr, moved, result, ret>>

-----------------------------------------------------------------------------
(* The program looks at what it has got before it does anything else.      *)
Ready == pc = "idle" /\ call = NoCall

Look ==
  /\ Looking
  /\ call' = NoCall /\ moved' = <<>> /\ ret' = NoAnswer
  /\ res' = Ok /\ err' = Ok /\ cut' = FALSE
  /\ UNCHANGED <<file, card, link, kind, pc, place, cr>>

(* Settings: by a native or by a 32 bit program.                           *)
Set ==
  /\ Ready
  /\ \E a \in Arguments, ioctl \in {"native", "compat"} :
       LET o == IF ioctl = "native"
                THEN Native(a[1], Ok, a[2], fd, card)
                ELSE Compat(a[1], Ok, a[2], fd, card)
       IN fd' = o.fd /\ card' = o.card
  /\ UNCHANGED <<far, pos, pc, call, place, cr, moved, result, ret>>

(* sis1100_llseek; the position is in a file, or is not changed.           *)
Seek ==
  /\ Ready
  /\ \E p \in Places : pos' = p
  /\ UNCHANGED <<fd, card, far, pc, call, place, cr, moved, result, ret>>

-----------------------------------------------------------------------------
(* Calls.                                                                  *)

(* err: what the field of the request happened to contain.                 *)
Start(c) ==
  /\ call' = c /\ pc' = "enter"
  /\ addr' = c.start /\ upos' = 0 /\ left' = c.num
  /\ moved' = <<>> /\ res' = Ok
  /\ cr' \in {0, MaxNum} /\ cut' = ~link
  /\ UNCHANGED <<file, card, link, kind, ret>>

(* A block of words that the addressing of write DMA cannot do rightly.    *)
Crosses(a, num, size) == (a < Edge) # (a + num * size < Edge)

Sound(dir, a, num, size) ==
  Crossing \/ dir = "read" \/ size = 1 \/ ~Crosses(a, num, size)

(* The library.  BOUND: by a file that is not read and written at the same *)
(* time (the position and its last error mean nothing here).               *)
BlockCall ==
  /\ Ready /\ fd.subdev = "remote" /\ pos = 0 /\ fd.last = Ok
  /\ \E q \in BlockCalls, num \in 0 .. MaxNum, a \in Places,
        bad \in -1 .. MaxNum - 1 :
       LET dir == IF q.cmd = "VME_BLOCK_READ" THEN "read" ELSE "write"
       IN /\ bad < num /\ a % q.size = 0 /\ Sound(dir, a, num, q.size)
          /\ Start([dir |-> dir, api |-> "lib", size |-> q.size,
                    fifo |-> q.fifo, num |-> num, start |-> a,
                    bad |-> IF bad = -1 THEN -1 ELSE a + bad * q.size,
                    way |-> "none"])
  /\ err' = "old"

(* read(2) and write(2): the remote file with its settings, the memory of  *)
(* the remote side in words of 4 bytes (am = -1).                          *)
FileCall ==
  /\ Ready /\ fd.subdev \in {"remote", "ram"}
  /\ \E dir \in {"read", "write"}, num \in 0 .. MaxNum,
        bad \in -1 .. MaxNum - 1 :
       LET ram == fd.subdev = "ram"
           size == IF ram THEN 4 ELSE fd.size
       IN /\ bad < num /\ pos \in Places /\ pos % size = 0
          /\ Sound(dir, pos, num, size)
          /\ Start([dir |-> dir, api |-> "file", size |-> size,
                    fifo |-> IF ram THEN 0 ELSE fd.fifo, num |-> num,
                    start |-> pos,
                    bad |-> IF bad = -1 THEN -1 ELSE pos + bad * size,
                    way |-> "none"])
  /\ err' = fd.last

Leave(way, error, e) ==
  /\ call' = [call EXCEPT !.way = way]
  /\ res' = error /\ err' = e /\ pc' = "return"

(* sis1100_read_block and sis1100_write_block (no access is broken).       *)
Threshold(min) == min # 0 /\ call.num >= min

Way ==
  IF call.dir = "read"
  THEN CASE Threshold(fd.dmaR) -> "dma"
         [] ~Threshold(fd.dmaR) /\ Threshold(fd.pipeR) -> "pipe"
         [] OTHER -> IF call.num = 1 THEN "single" ELSE "loop"
  ELSE CASE Threshold(fd.dmaW) -> "dma"
         [] OTHER -> IF call.num = 1 THEN "single" ELSE "loop"

FirstStep(way) ==
  CASE way = "dma" -> "chunk"
    [] way = "pipe" -> "pipe"
    [] way = "single" -> "word"
    [] way = "loop" -> IF call.dir = "read" THEN "word" ELSE "send"

(* ioctl tests the remote side, then the block functions do.               *)
BlockCommand ==
  IF call.dir = "read" THEN "VME_BLOCK_READ" ELSE "VME_BLOCK_WRITE"

NoArgument == [x |-> 0, y |-> 0, z |-> -1, am |-> 0, t |-> "unset",
               fifo |-> 0, error |-> Ok]

Enter ==
  /\ pc = "enter"
  /\ \/ /\ call.api = "lib"
        /\ Native(BlockCommand, Ok, NoArgument, fd, card).res = "ENXIO"
        /\ Leave("none", "ENXIO", err)
     \/ /\ call.num = 0
        /\ call.api = "lib" => Online(card)
        /\ Leave("none", Ok, Ok)
     \/ /\ call.num # 0 /\ call.api = "file" /\ ~Online(card)
        /\ Leave("none", "ENXIO", err)
     \/ /\ call.num # 0 /\ Online(card)
        /\ call' = [call EXCEPT !.way = Way]
        /\ pc' = FirstStep(Way)
        /\ UNCHANGED <<res, err>>
  /\ UNCHANGED <<file, card, far, place, cr, moved, ret>>

-----------------------------------------------------------------------------
(* The address of the i-th word from here, and the words on their way.     *)
Here(i) == IF call.fifo = 1 THEN addr ELSE addr + i * call.size

Words(n) == [i \in 1 .. n |-> <<Here(i - 1), upos + i - 1>>]

(* Words that can be moved before an address answers with an error.        *)
Reach(n) ==
  IF \E i \in 0 .. n - 1 : Here(i) = call.bad
  THEN CHOOSE i \in 0 .. n - 1 :
         /\ Here(i) = call.bad
         /\ \A j \in 0 .. i - 1 : Here(j) # call.bad
  ELSE n

(* The words of a chunk; size_t has no negative numbers.                   *)
Chunk == IF left \in 0 .. DmaMax THEN left ELSE DmaMax

Minimum(a, b) == IF a < b THEN a ELSE b

(* Deviation: data does not go on.                                         *)
AdvanceAddressOnly(cnt) ==
  /\ addr' = IF call.fifo = 1 THEN addr ELSE addr + cnt * call.size
  /\ left' = left - cnt
  /\ UNCHANGED upos

(* A chunk has ended: addr, data and count go on by what was counted.      *)
Advance(cnt) ==
  /\ addr' = IF call.fifo = 1 THEN addr ELSE addr + cnt * call.size
  /\ upos' = upos + cnt
  /\ left' = left - cnt

(* As if the error did not end it.                                         *)
ReadMoreAnyway(cnt, n, e) == left - cnt # 0

(* sis1100_read_dma calls _sis1100_read_dma as long as there is more.      *)
ReadMore(cnt, n, e) == left - cnt # 0 /\ cnt = n /\ e = Ok

(* All words, or as many as came before an error of the remote side.       *)
ReadChunk ==
  /\ pc = "chunk" /\ call.dir = "read" /\ link
  /\ LET n == Chunk
         k == Reach(n)
         e == IF k = n THEN Ok ELSE "bus"
     IN /\ cr' = k /\ err' = e
        /\ moved' = moved \o Words(k)
        /\ Advance(k)
        /\ pc' = IF ReadMore(k, n, e) THEN "chunk" ELSE "return"
  /\ UNCHANGED <<file, card, far, call, res, ret>>

(* The DMA has ended, or an event of an earlier transfer ends it, before   *)
(* all words have come, and prot_error is 0: no error, and nothing more.   *)
ReadChunkShort ==
  /\ pc = "chunk" /\ call.dir = "read"
  /\ \E k \in 0 .. Reach(Chunk) :
       /\ k < Chunk /\ (link \/ k = 0)
       /\ cr' = k
       /\ moved' = moved \o Words(k)
       /\ Advance(k)
  /\ err' = Ok /\ pc' = "return"
  /\ UNCHANGED <<file, card, far, call, res, ret>>

(* An error of the interface (EIO): copied but not counted.                *)
ReadChunkFails ==
  /\ pc = "chunk" /\ call.dir = "read"
  /\ \E k \in 0 .. Reach(Chunk) :
       /\ link \/ k = 0
       /\ cr' = k
       /\ moved' = moved \o Words(k)
  /\ err' = "local" /\ res' = "EIO" /\ pc' = "return"
  /\ UNCHANGED <<file, card, far, call, place, ret>>

(* The link is lost: _count_read has the value of the last chunk (or none  *)
(* at all) and so many words of the buffer are copied and counted.         *)
ReadChunkAborted ==
  /\ pc = "chunk" /\ call.dir = "read"
  /\ link' = FALSE /\ cut' = TRUE
  /\ \E k \in 0 .. Reach(Chunk) :
       /\ link \/ k = 0
       /\ moved' = moved \o Words(Minimum(k, cr))
  /\ Advance(cr)
  /\ err' = "sync" /\ pc' = "return"
  /\ UNCHANGED <<file, card, kind, call, cr, res, ret>>

(* Bit 31 of the address tells DMA from other accesses: not beyond Edge.   *)
WriteClamp ==
  IF Crosses(addr, Chunk, call.size) THEN Edge - addr ELSE Chunk

(* All words are confirmed, or an address has answered with an error.      *)
WriteChunk ==
  /\ pc = "chunk" /\ call.dir = "write" /\ link
  /\ LET n == WriteClamp
         k == Reach(n)
     IN /\ moved' = moved \o Words(k)
        /\ IF k = n
           THEN /\ err' = Ok
                /\ Advance(n)
                /\ pc' = IF left # n THEN "chunk" ELSE "return"
           ELSE /\ err' = "bus" /\ pc' = "counter"
                /\ UNCHANGED place
  /\ UNCHANGED <<file, card, far, call, cr, res, ret>>

(* Then a VME crate is asked how far it came; of others that is not known. *)
(* The error of this remote read is ignored: if the link has been away, it *)
(* may be any number (BOUND: up to MaxNum).                                *)
WrittenInBytes(k) ==
  IF card.hw # "vme" THEN {0} ELSE IF cut THEN 0 .. MaxNum ELSE {k * call.size}

Written(k) ==
  IF card.hw # "vme" THEN {0} ELSE IF cut THEN 0 .. MaxNum ELSE {k}

WriteCounter ==
  /\ pc = "counter"
  /\ \E cnt \in Written(Len(moved) - upos) : Advance(cnt)
  /\ pc' = "return"
  /\ UNCHANGED <<file, card, far, call, cr, moved, result, ret>>

(* Aborted, or an error of the interface.                                  *)
WriteChunkFails ==
  /\ pc = "chunk" /\ call.dir = "write"
  /\ \E k \in 0 .. Reach(WriteClamp) :
       /\ link \/ k = 0
       /\ moved' = moved \o Words(k)
  /\ \/ link /\ link' = FALSE /\ cut' = TRUE /\ err' = "sync"
     \/ UNCHANGED <<link, cut>> /\ err' = "local"
  /\ res' = "EIO" /\ pc' = "return"
  /\ UNCHANGED <<file, card, kind, call, place, cr, ret>>

-----------------------------------------------------------------------------
(* sis1100_read_loop, sis1100_tmp_read, sis1100_tmp_write: word by word,   *)
(* each confirmed; the first error ends it.                                *)
Accepts == link /\ addr # call.bad

WordStep ==
  /\ pc = "word"
  /\ IF Accepts
     THEN /\ moved' = moved \o Words(1)
          /\ Advance(1)
          /\ err' = Ok
          /\ pc' = IF left = 1 THEN "return" ELSE "word"
     ELSE /\ err' = IF link THEN "bus" ELSE "local"
          /\ pc' = "return"
          /\ UNCHANGED <<place, moved>>
  /\ UNCHANGED <<file, card, far, call, cr, res, ret>>

(* sis1100_write_loop: requests are sent as long as the FIFO takes them;   *)
(* an error may be noticed on the way (wait_for_fifo), or when all are     *)
(* out.  err' collects the first one.                                      *)
SendStep ==
  /\ pc = "send"
  /\ LET e == IF Accepts THEN Ok ELSE IF link THEN "bus" ELSE "local"
         first == IF upos = 0 \/ err = Ok THEN e ELSE err
     IN /\ err' = first
        /\ moved' = IF Accepts THEN moved \o Words(1) ELSE moved
        /\ Advance(1)
        /\ \/ left > 1 /\ pc' = "send"
           \/ (left = 1 \/ first # Ok) /\ pc' = "drain"
  /\ UNCHANGED <<file, card, far, call, cr, res, ret>>

(* How many were written before an error is not known: none.               *)
Drain ==
  /\ pc = "drain"
  /\ left' = IF err = Ok THEN 0 ELSE call.num
  /\ pc' = "return"
  /\ UNCHANGED <<file, card, far, call, addr, upos, cr, moved, result, ret>>

(* sis1100_read_pipe_seq: all requests at once.  The count is always that  *)
(* of the request, and the protocol error is not handed on; a signal ends  *)
(* the wait.                                                               *)
PipeStep ==
  /\ pc = "pipe"
  /\ \E k \in 0 .. Reach(left) :
       /\ link \/ k = 0
       /\ moved' = moved \o Words(k)
  /\ res' \in {Ok, "512"}
  /\ left' = 0
  /\ pc' = "return"
  /\ UNCHANGED <<file, card, far, call, addr, upos, cr, err, ret>>

-----------------------------------------------------------------------------
(* The way back: *count_read = orig_count - count.                         *)
Counted == call.num - left

Back == pc' = "idle" /\ addr' = 0 /\ upos' = 0 /\ left' = 0 /\ cr' = 0

(* The library: num and error are copied only if the call succeeds.        *)
LibReturn ==
  /\ pc = "return" /\ call.api = "lib"
  /\ ret' = BlockResult(res, IF res = Ok THEN Counted ELSE call.num,
                        IF res = Ok THEN err ELSE "old")
  /\ Back
  /\ UNCHANGED <<file, card, far, call, moved, result>>

(* read(2), write(2): bytes; the protocol error stays in the file          *)
(* (SIS1100_LAST_ERROR).                                                   *)
FileReturn ==
  /\ pc = "return" /\ call.api = "file"
  /\ ret' = IF Failed(res) THEN [value |-> "-1", got |-> 0]
            ELSE [value |-> Ok, got |-> IF res = Ok THEN Counted ELSE 512]
  /\ pos' = IF res = Ok THEN pos + Counted * call.size ELSE pos
  /\ fd' = [fd EXCEPT !.last = err]
  /\ Back
  /\ UNCHANGED <<card, far, call, moved, result>>

-----------------------------------------------------------------------------
(* Single words and registers: one step each.                              *)
Reply == IF link THEN {Ok, "bus"} ELSE {"local"}

Asks == call' = [NoCall EXCEPT !.api = "word"] /\ UNCHANGED moved

WordCall ==
  /\ Ready
  /\ \E q \in WordCalls, r \in Reply :
       ret' = [value |-> WordResult(Native(q.cmd, r, NoArgument, fd, card)),
               got |-> 0]
  /\ Asks
  /\ UNCHANGED <<file, card, far, pc, place, cr, result>>

CamacFunction ==
  /\ Ready
  /\ \E f \in 0 .. 3, r \in Reply :
       ret' = [value |-> CamacResult(Native("CNAF", r,
                                            [NoArgument EXCEPT !.x = f],
                                            fd, card)),
               got |-> 0]
  /\ Asks
  /\ UNCHANGED <<file, card, far, pc, place, cr, result>>

(* vmesysreset.                                                            *)
ResetCall ==
  /\ Ready
  /\ \E r \in Reply :
       LET o == Native("CTRL_WRITE", r, NoArgument, fd, card)
       IN ret' = [value |-> SysReset(o, o), got |-> 0]
  /\ Asks
  /\ UNCHANGED <<file, card, far, pc, place, cr, result>>

-----------------------------------------------------------------------------
Inside ==
  \/ Enter \/ ReadChunk \/ ReadChunkShort \/ ReadChunkFails
  \/ ReadChunkAborted \/ WriteChunk \/ WriteCounter \/ WriteChunkFails
  \/ WordStep \/ SendStep \/ Drain
  \/ PipeStep \/ LibReturn \/ FileReturn

Next ==
  \/ LinkLost \/ RemoteGone \/ RemoteBack
  \/ Look \/ Set \/ Seek \/ BlockCall \/ FileCall
  \/ WordCall \/ CamacFunction \/ ResetCall
  \/ Inside

Spec == Init /\ [][Next]_vars

(* The driver goes on with a call, and the hardware ends what it was asked *)
(* to do: errors of the interface are not counted on while the link is up. *)
(* Single words, reads by DMA and the reading of the counter end without a *)
(* link too; pipes, loops of writes and writes by DMA are only trusted to  *)
(* go on as long as the link has not been away.                            *)
Ends ==
  \/ Enter \/ ReadChunk \/ WriteCounter \/ WordStep
  \/ LibReturn \/ FileReturn
  \/ ~link /\ ReadChunkFails
  \/ ~cut /\ (WriteChunk \/ SendStep \/ Drain \/ PipeStep)

FairSpec == Spec /\ WF_vars(Ends)
-----------------------------------------------------------------------------
(* Properties.                                                             *)
Answered == pc = "idle" /\ call.way # "none"

(* The words of the call in order: i-th address, i-th place of the buffer. *)
InOrder(n) ==
  moved = [i \in 1 .. n |->
             <<IF call.fifo = 1 THEN call.start
               ELSE call.start + (i - 1) * call.size, i - 1>>]

(* If the library answers 0, then just the words it counts have been moved *)
(* exactly once, each from its address to its place, whatever way they     *)
(* took, in however many chunks; and it counts them all, but for a read by *)
(* DMA that has ended short without an error (ReadChunkShort).  If read(2) *)
(* and write(2) return the full length, every word has been moved, but for *)
(* an aborted read and a guessed count (below).  (The pipe loses errors    *)
(* and is exempt: hazard at pipe_linux.c line 205.)                        *)
Guessed == call.dir = "write" /\ call.way = "dma" /\ cut

SuccessIsComplete ==
  Answered /\ call.way # "pipe" /\ ret.value = Ok =>
    /\ call.api = "lib" =>
         /\ InOrder(ret.got)
         /\ ret.got = call.num \/ (call.dir = "read" /\ call.way = "dma")
    /\ /\ call.api = "file" /\ ret.got = call.num
       /\ err # "sync" /\ ~Guessed
       => InOrder(call.num)

(* No call counts a word that has not been moved in order to its place;    *)
(* nor does the position of the file: behind an interrupted call it is     *)
(* where the words ended.  Exempt are a read aborted by the loss of the    *)
(* link, which counts what is left over from the chunk before (hazard at   *)
(* read_dma_linux.c line 184), and a write by DMA during which the link    *)
(* has been away, whose count may be what a failing remote read has left   *)
(* (write_dma_linux.c line 226).                                           *)
CountIsMoved ==
  /\ Answered /\ call.way # "pipe"
  /\ ~(call.dir = "read" /\ err = "sync")
  /\ ~Guessed
  =>
  /\ ret.got <= Len(moved)
  /\ \A i \in 1 .. ret.got : moved[i] = <<IF call.fifo = 1 THEN call.start
                                          ELSE call.start
                                               + (i - 1) * call.size, i - 1>>
  /\ call.dir = "read" /\ res = Ok => ret.got = Len(moved)

(* An i386 program gets from each command the answer, and has on the file  *)
(* and the card the effect, that a native program has.  Not so, by name    *)
(* (Different): DSP_WR, DSP_RD, VME_SUPER_BLOCK_READ, CTRL_READ_BLOCK,     *)
(* CTRL_WRITE_BLOCK and DEMAND_DMA_STOP, whose numbers are unknown;        *)
(* DSP_READ, which loads; PIPE, whose count is not handed back; remote     *)
(* registers while there is no remote side.                                *)
Asked == [x : {-1, 0, 1, 2, 3}, y : {-1, 2}, z : {-1, 1}, am : {9},
          t : {"unset"}, fifo : {0}, error : {Ok}]

Different ==
  Unknown32 \union {"DSP_READ", "PIPE"}
  \union (IF Online(card) \/ fd.subdev = "ctrl" THEN {}
          ELSE {"CTRL_READ", "CTRL_WRITE"})

SameIn32 ==
  Ready =>
    \A c \in Commands \ Different, d \in Asked, r \in {Ok, "bus"} :
      Native(c, r, d, fd, card) = Compat(c, r, d, fd, card)

(* Every call comes back, whatever happens to the link and however many    *)
(* chunks it takes, but for those that a loss of the link may let sleep or *)
(* spin for ever: pipes, loops of writes and writes by DMA (hazards at     *)
(* pipe_linux.c line 94 and write_dma_linux.c line 172).                   *)
MayHang == cut /\ \/ call.way = "pipe"
                  \/ call.dir = "write" /\ call.way \in {"dma", "loop"}

CallEnds == pc # "idle" ~> pc = "idle" \/ MayHang

(* "because bit31 is used for distinction between DMA and nonDMA we cannot *)
(* cross the 2 GiByte boundary" (write_dma_linux.c, lines 81 and 82): no   *)
(* DMA writes a word beyond the boundary to an address below, nor words    *)
(* that are not the user's.                                                *)
NeverBeyondRequest ==
  call.dir = "write" => \A i \in 1 .. Len(moved) : moved[i][2] < call.num
=============================================================================

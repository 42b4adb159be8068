---------------------------- MODULE AccessProofs ----------------------------
(***************************************************************************)
(* Proofs about Access, for blocks of any length at any address, DMA       *)
(* buffers of any size and any thresholds: what a successful call and a    *)
(* count mean; and about Ioctl and Ioctl32: both switches agree.           *)
(***************************************************************************)
EXTENDS Access, SequenceTheorems, TLAPS

-----------------------------------------------------------------------------
(* The two switches of ioctl, group by group.                              *)
USE DEF Ok

(* The argument of a command has numbers where numbers are looked at.      *)
Numbers(d) == d.x \in Int /\ d.y \in Int /\ d.z \in Int

LEMMA NativeGroups ==
  ASSUME NEW c, NEW r, NEW d, NEW f, NEW k
  PROVE  /\ c \in Settings => Native(c, r, d, f, k) = Setting(c, r, d, f, k)
         /\ c \in Questions => Native(c, r, d, f, k) = Question(c, d, f, k)
         /\ c \in Registers =>
              Native(c, r, d, f, k) = RegisterCall(c, r, d, f, k)
         /\ c \in Transfers =>
              Native(c, r, d, f, k) = TransferCall(c, r, d, f, k)
         /\ c \in Camac => Native(c, r, d, f, k) = CamacCall(c, r, d, f, k)
         /\ c \in Elsewhere => Native(c, r, d, f, k) = Forward(c, r, d, f, k)
         /\ c \in AlwaysOk => Native(c, r, d, f, k) = Outcome(Ok, d, c, f, k)
<1> USE DEF Native, Settings, Questions, Registers, Transfers, Camac,
            Elsewhere, AlwaysOk
<1>1. CASE c \in Settings
  BY <1>1
<1>2. CASE c \in Questions
  BY <1>2
<1>3. CASE c \in Registers
  BY <1>3
<1>4. CASE c \in Transfers
  BY <1>4
<1>5. CASE c \in Camac
  BY <1>5
<1>6. CASE c \in Elsewhere
  BY <1>6
<1>7. CASE c \in AlwaysOk
  BY <1>7
<1> HIDE DEF Native, Settings, Questions, Registers, Transfers, Camac,
             Elsewhere, AlwaysOk
<1>8. QED BY <1>1, <1>2, <1>3, <1>4, <1>5, <1>6, <1>7

LEMMA SettingsSame ==
  ASSUME NEW c \in Settings, NEW r, NEW d, NEW f, NEW k, Numbers(d)
  PROVE  Setting(c, r, d, f, k) = Compat(c, r, d, f, k)
<1> USE DEF Compat, Unknown32, Ddma32, DdmaMap32, Eeprom32
<1>1. CASE c = "SETVMESPACE"
  BY <1>1 DEF Setting, SetVmeSpace, SetVmeSpace32, New, Numbers
<1>2. CASE c = "MINDMALEN"
  BY <1>2 DEF Setting, MinDmaLen, MinDmaLen32, New, Numbers
<1>3. CASE c \in {"MINPIPELEN", "TESTFLAGS"}
  BY <1>3, NativeGroups DEF Settings
<1>4. CASE c = "FIFOMODE"
  BY <1>4 DEF Setting, FifoMode, FifoMode32, Numbers
<1>5. CASE c = "SWAP"
  BY <1>5 DEF Setting, Swap, Swap32
<1>6. CASE c = "TIMEOUTS"
  BY <1>6 DEF Setting, Timeouts, Timeouts32
<1>7. QED BY <1>1, <1>2, <1>3, <1>4, <1>5, <1>6 DEF Settings

LEMMA QuestionsSame ==
  ASSUME NEW c \in Questions, NEW r, NEW d, NEW f, NEW k
  PROVE  Question(c, d, f, k) = Compat(c, r, d, f, k)
<1> USE DEF Compat, Unknown32, Ddma32, DdmaMap32, Eeprom32
<1>1. CASE c \in {"LAST_ERROR", "MAPSIZE"}
  BY <1>1, NativeGroups DEF Questions
<1>2. CASE c = "DEVTYPE"
  BY <1>2 DEF Question, DevType, Info32
<1>3. CASE c = "DRIVERVERSION"
  BY <1>3 DEF Question, DriverVersion, Info32
<1>4. CASE c = "IDENT"
  BY <1>4 DEF Question, Ident, Ident32
<1>5. QED BY <1>1, <1>2, <1>3, <1>4 DEF Questions

LEMMA RegistersSame ==
  ASSUME NEW c \in Registers \ Unknown32, NEW r, NEW d, NEW f, NEW k,
         c \in {"CTRL_READ", "CTRL_WRITE"} => Online(k) \/ f.subdev = "ctrl"
  PROVE  RegisterCall(c, r, d, f, k) = Compat(c, r, d, f, k)
<1> USE DEF Compat, Unknown32, Ddma32, DdmaMap32, Eeprom32
<1>1. CASE c = "CTRL_READ"
  BY <1>1 DEF RegisterCall, CtrlReg, Ctrl32, Linked32, Online
<1>2. CASE c = "CTRL_WRITE"
  BY <1>2 DEF RegisterCall, CtrlReg, Ctrl32, Linked32, Online
<1>3. CASE c = "PLX_READ"
  BY <1>3 DEF RegisterCall, PlxReg, Plx32, Report
<1>4. CASE c = "PLX_WRITE"
  BY <1>4 DEF RegisterCall, PlxReg, Plx32, Report
<1>5. QED BY <1>1, <1>2, <1>3, <1>4 DEF Registers

LEMMA TransfersSame ==
  ASSUME NEW c \in Transfers \ (Unknown32 \union {"PIPE"}), NEW r, NEW d,
         NEW f, NEW k
  PROVE  TransferCall(c, r, d, f, k) = Compat(c, r, d, f, k)
<1> USE DEF Compat, Unknown32, Ddma32, DdmaMap32, Eeprom32, Linked32, Online
<1>1. CASE c = "VME_PROBE"
  BY <1>1, NativeGroups DEF Transfers
<1>2. CASE c \in {"VME_READ", "VME_WRITE", "VME_WRITE_BLIND"}
  BY <1>2 DEF TransferCall, Single, Vme32
<1>3. CASE c \in {"VME_BLOCK_READ", "VME_BLOCK_WRITE"}
  BY <1>3 DEF TransferCall, Block, Block32
<1>4. CASE c = "WRITE_PIPE"
  BY <1>4 DEF TransferCall, Single, WritePipe32
<1>5. QED BY <1>1, <1>2, <1>3, <1>4 DEF Transfers

LEMMA CcciSame ==
  ASSUME NEW d, NEW f, NEW k
  PROVE  CamacCommand("writeremreg I", d, f, k) = Ccci32(d, f, k)
<1>1. CASE k.hw = "camac"
  BY <1>1 DEF CamacCommand, Ccci32
<1>2. CASE k.hw # "camac"
  BY <1>2 DEF CamacCommand, Ccci32
<1>3. QED BY <1>1, <1>2, Zenon

LEMMA OthersSame ==
  ASSUME NEW c \in (Camac \union Elsewhere \union AlwaysOk)
                   \ (Unknown32 \union {"DSP_READ"}),
         NEW r, NEW d, NEW f, NEW k
  PROVE  Native(c, r, d, f, k) = Compat(c, r, d, f, k)
<1> USE DEF Compat, Unknown32, Ddma32, DdmaMap32, Eeprom32
<1>1. CASE c \in Camac
  <2>1. CASE c = "CCCI"
    <3>1. Native(c, r, d, f, k) = CamacCommand("writeremreg I", d, f, k)
      <4>1. Native(c, r, d, f, k) = CamacCall(c, r, d, f, k)
        BY <1>1, NativeGroups
      <4>2. CamacCall("CCCI", r, d, f, k)
              = CamacCommand("writeremreg I", d, f, k)
        BY DEF CamacCall
      <4> HIDE DEF Compat
      <4>3. QED BY <4>1, <4>2, <2>1, Zenon
    <3>2. Compat(c, r, d, f, k) = Ccci32(d, f, k)
      BY <2>1
    <3> HIDE DEF Compat
    <3>3. QED BY <3>1, <3>2, CcciSame, Zenon
  <2>2. CASE c # "CCCI"
    BY <2>2, <1>1 DEF Camac
  <2>3. QED BY <2>1, <2>2
<1>2. CASE c \in Elsewhere
  <2>1. Native(c, r, d, f, k) = Forward(c, r, d, f, k)
    BY <1>2, NativeGroups
  <2>2. Compat(c, r, d, f, k)
          \in {Forward(c, r, d, f, k), Native(c, r, d, f, k)}
    BY <1>2 DEF Elsewhere, Dsp32
  <2>3. QED BY <2>1, <2>2
<1>3. CASE c \in AlwaysOk
  <2>1. CASE c = "EEPROM_SIZE"
    BY <2>1, <1>3, NativeGroups
  <2>2. CASE c # "EEPROM_SIZE"
    BY <2>2, <1>3 DEF AlwaysOk
  <2>3. QED BY <2>1, <2>2
<1>4. QED BY <1>1, <1>2, <1>3

(* The two switches agree on every argument that has numbers.              *)
LEMMA SwitchesAgree ==
  ASSUME NEW c \in Commands \ Different, NEW r, NEW d, Numbers(d)
  PROVE  Native(c, r, d, fd, card) = Compat(c, r, d, fd, card)
<1>1. CASE c \in Settings
  BY <1>1, NativeGroups, SettingsSame
<1>2. CASE c \in Questions
  BY <1>2, NativeGroups, QuestionsSame
<1>3. CASE c \in Registers
  BY <1>3, NativeGroups, RegistersSame DEF Different
<1>4. CASE c \in Transfers
  BY <1>4, NativeGroups, TransfersSame DEF Different
<1>5. CASE c \in Camac \union Elsewhere \union AlwaysOk
  BY <1>5, OthersSame DEF Different
<1>6. QED BY <1>1, <1>2, <1>3, <1>4, <1>5 DEF Commands

LEMMA SameInEveryState == SameIn32
<1>1. \A d \in Asked : Numbers(d)
  <2>1. TAKE d \in Asked
  <2>2. d.x \in {-1, 0, 1, 2, 3} /\ d.y \in {-1, 2} /\ d.z \in {-1, 1}
    BY DEF Asked
  <2>3. QED BY <2>2 DEF Numbers
<1>2. SUFFICES ASSUME NEW c \in Commands \ Different, NEW d \in Asked,
                      NEW r \in {Ok, "bus"}
               PROVE  Native(c, r, d, fd, card) = Compat(c, r, d, fd, card)
  BY DEF SameIn32
<1>3. Numbers(d)
  BY <1>1
<1> HIDE DEF Ok
<1>4. QED BY <1>3, SwitchesAgree

(* An i386 program gets the answers, and has the effects, of a native one, *)
(* but for the commands of Different: the six whose numbers it encodes     *)
(* otherwise, DSP_READ, PIPE, and remote registers without a remote side.  *)
THEOREM SwitchesAlike == Spec => []SameIn32
<1>1. SameIn32
  BY SameInEveryState
<1>2. QED BY <1>1, PTL DEF Spec

-----------------------------------------------------------------------------
(* The inductive invariant.                                                *)
FileFields == {"subdev", "am", "size", "dmaR", "dmaW", "pipeR", "pipeW",
               "fifo", "last"}

FileOK(f) == /\ DOMAIN f = FileFields
             /\ f.size \in {1, 2, 4} /\ f.fifo \in {0, 1}

CallRecords ==
  [dir : {"read", "write"}, api : {"lib", "file", "word"}, size : {1, 2, 4},
   fifo : {0, 1}, num : Nat, start : Nat, bad : Int, way : Ways]

(* Where the i-th word of a call comes from and goes to.                   *)
Item(c, i) == <<IF c.fifo = 1 THEN c.start ELSE c.start + i * c.size, i>>
Items(c, n) == [i \in 1 .. n |-> Item(c, i - 1)]

Types ==
  /\ FileOK(fd)
  /\ call \in CallRecords
  /\ addr \in Int /\ upos \in Int /\ left \in Int /\ cr \in Nat
  /\ moved \in Seq(Int \X Int)

(* The next word is the upos-th, and not all have been moved.              *)
Placed ==
  /\ upos \in Nat /\ left = call.num - upos
  /\ addr = Item(call, upos)[1]
Going == Placed /\ left >= 1 /\ res = Ok

(* Write DMA is started only for blocks it can address.                    *)
CanWrite ==
  call.dir = "write" => Sound(call.dir, call.start, call.num, call.size)

AtEnter ==
  pc = "enter" =>
    /\ moved = <<>> /\ upos = 0 /\ Placed /\ res = Ok
    /\ call.way = "none" /\ call.api # "word"

AtChunk ==
  pc = "chunk" => /\ call.way = "dma"
                  /\ Going
                  /\ moved = Items(call, upos)

(* An error has ended a chunk of a write: it has come as far as this.      *)
AtCounter ==
  pc = "counter" =>
    /\ call.way = "dma" /\ call.dir = "write"
    /\ Going /\ err = "bus"
    /\ \E k \in 0 .. left : moved = Items(call, upos + k)

AtWord ==
  pc = "word" => /\ call.way \in {"single", "loop"}
                 /\ Going
                 /\ moved = Items(call, upos)

AtSend ==
  pc = "send" =>
    /\ call.way = "loop" /\ call.dir = "write"
    /\ Going
    /\ upos = 0 \/ err = Ok => moved = Items(call, upos)

AtDrain ==
  pc = "drain" =>
    /\ call.way = "loop" /\ call.dir = "write" /\ call.num >= 1
    /\ res = Ok
    /\ err = Ok => moved = Items(call, call.num)

(* What a call has to tell: what it counts has been moved; without an      *)
(* error nothing else has, and but for a short read it is all.             *)
CountHolds ==
  ~(call.dir = "read" /\ err = "sync") /\ ~Guessed =>
    /\ Counted \in 0 .. Len(moved)
    /\ \A i \in 1 .. Counted : moved[i] = Item(call, i - 1)
    /\ call.dir = "read" /\ res = Ok => Counted = Len(moved)
AllMoved ==
  res = Ok /\ err = Ok =>
    /\ moved = Items(call, Counted)
    /\ left = 0 \/ (call.dir = "read" /\ call.way = "dma")
NoneLeft ==
  res = Ok /\ left = 0 /\ err # "sync" /\ ~Guessed =>
    moved = Items(call, call.num)

AtReturn ==
  pc = "return" /\ call.way \in {"dma", "single", "loop"} =>
    /\ res \in {Ok, "EIO"}
    /\ CountHolds /\ AllMoved /\ NoneLeft

Busy == pc \notin {"idle", "enter"} => call.api # "word"
PipeReads == call.way = "pipe" => call.dir = "read"
AtPipe == pc = "pipe" => call.way = "pipe" /\ Going

AccessInv ==
  /\ Types
  /\ CanWrite /\ NeverBeyondRequest
  /\ AtEnter /\ AtChunk /\ AtCounter
  /\ AtWord /\ AtSend /\ AtDrain /\ AtPipe /\ AtReturn
  /\ Busy /\ PipeReads
  /\ SuccessIsComplete /\ CountIsMoved

-----------------------------------------------------------------------------
(* The words of a block.                                                   *)
LEMMA ItemHere ==
  ASSUME NEW c \in CallRecords, NEW m \in Nat, NEW i \in Nat
  PROVE  /\ Item(c, m) \in Int \X Int
         /\ Item(c, m)[2] = m
         /\ Item(c, m)[1] \in Int
         /\ Item(c, m + i) =
              <<IF c.fifo = 1 THEN Item(c, m)[1]
                ELSE Item(c, m)[1] + i * c.size, m + i>>
<1>1. c.start \in Nat /\ c.size \in {1, 2, 4}
  BY DEF CallRecords
<1>2. CASE c.size = 1
  BY <1>1, <1>2 DEF Item
<1>3. CASE c.size = 2
  BY <1>1, <1>3 DEF Item
<1>4. CASE c.size = 4
  BY <1>1, <1>4 DEF Item
<1>5. QED BY <1>1, <1>2, <1>3, <1>4

LEMMA WordsAre ==
  ASSUME Types, Placed, NEW n \in Nat
  PROVE  /\ Words(n) = [i \in 1 .. n |-> Item(call, upos + (i - 1))]
         /\ Words(n) \in Seq(Int \X Int) /\ Len(Words(n)) = n
<1>1. ASSUME NEW i \in 1 .. n
      PROVE  /\ <<Here(i - 1), upos + i - 1>> = Item(call, upos + (i - 1))
             /\ <<Here(i - 1), upos + i - 1>> \in Int \X Int
  <2> DEFINE j == i - 1
  <2>1. j \in Nat /\ upos \in Nat /\ call \in CallRecords
    BY DEF Types, Placed
  <2>2. Item(call, upos + j) =
          <<IF call.fifo = 1 THEN addr ELSE addr + j * call.size, upos + j>>
    <3> HIDE DEF j
    <3>1. QED BY <2>1, ItemHere DEF Placed
  <2>3. Item(call, upos + j) = <<Here(j), upos + j>>
    <3> HIDE DEF j
    <3>1. QED BY <2>2 DEF Here
  <2>4. Item(call, upos + j) \in Int \X Int
    <3>1. upos + j \in Nat
      BY <2>1
    <3> HIDE DEF j
    <3>2. QED BY <3>1, <2>1, ItemHere
  <2>5. upos + i - 1 = upos + j
    BY <2>1
  <2>6. QED BY <2>3, <2>4, <2>5
<1>2. Words(n) = [i \in 1 .. n |-> Item(call, upos + (i - 1))]
  BY <1>1 DEF Words
<1>3. \A i \in 1 .. n : Item(call, upos + (i - 1)) \in Int \X Int
  BY <1>1
<1>4. QED BY <1>2, <1>3

LEMMA Joined ==
  ASSUME NEW S, NEW s \in Seq(S), NEW t \in Seq(S)
  PROVE  /\ s \o t \in Seq(S) /\ Len(s \o t) = Len(s) + Len(t)
         /\ \A i \in 1 .. Len(s) + Len(t) :
              (s \o t)[i] = IF i <= Len(s) THEN s[i] ELSE t[i - Len(s)]
BY ConcatProperties

LEMMA Appended ==
  ASSUME Types, Placed, moved = Items(call, upos), NEW n \in Nat
  PROVE  moved \o Words(n) = Items(call, upos + n)
<1>1. /\ Words(n) = [i \in 1 .. n |-> Item(call, upos + (i - 1))]
      /\ Words(n) \in Seq(Int \X Int) /\ Len(Words(n)) = n
  BY WordsAre
<1>2. moved \in Seq(Int \X Int) /\ upos \in Nat
  BY DEF Types, Placed
<1>3. Len(moved) = upos
  BY <1>2 DEF Items
<1> DEFINE all == moved \o Words(n)
<1>4. /\ all \in Seq(Int \X Int) /\ Len(all) = upos + n
      /\ \A i \in 1 .. upos + n :
           all[i] = IF i <= upos THEN moved[i] ELSE Words(n)[i - upos]
  <2> DEFINE w == Words(n)
  <2>1. w \in Seq(Int \X Int) /\ Len(w) = n
    BY <1>1
  <2> HIDE DEF w
  <2>2. /\ moved \o w \in Seq(Int \X Int)
        /\ Len(moved \o w) = Len(moved) + Len(w)
        /\ \A i \in 1 .. Len(moved) + Len(w) :
             (moved \o w)[i] = IF i <= Len(moved) THEN moved[i]
                              ELSE w[i - Len(moved)]
    BY <1>2, <2>1, Joined
  <2>3. QED BY <2>1, <2>2, <1>3 DEF w
<1>5. ASSUME NEW i \in 1 .. upos + n
      PROVE  all[i] = Item(call, i - 1)
  <2>1. CASE i <= upos
    BY <2>1, <1>2, <1>4 DEF Items
  <2>2. CASE ~(i <= upos)
    <3>1. i - upos \in 1 .. n /\ upos + ((i - upos) - 1) = i - 1
      BY <2>2, <1>2
    <3>2. Words(n)[i - upos] = Item(call, upos + ((i - upos) - 1))
      BY <3>1, <1>1
    <3>3. QED BY <3>1, <3>2, <2>2, <1>4
  <2>3. QED BY <2>1, <2>2
<1> HIDE DEF all
<1>6. all = [i \in 1 .. upos + n |-> all[i]]
  BY <1>4
<1>7. all = Items(call, upos + n)
  BY <1>5, <1>6 DEF Items
<1>8. QED BY <1>7 DEF all

LEMMA ReachBounds ==
  ASSUME Types, NEW n \in Nat
  PROVE  Reach(n) \in 0 .. n
<1>1. CASE \E i \in 0 .. n - 1 : Here(i) = call.bad
  <2> DEFINE First(i) == /\ Here(i) = call.bad
                         /\ \A j \in 0 .. i - 1 : Here(j) # call.bad
  <2>1. \E i \in 0 .. n - 1 : First(i)
    <3>1. PICK i \in 0 .. n - 1 : Here(i) = call.bad
      BY <1>1
    <3>2. CASE call.fifo = 1
      <4>1. 0 \in 0 .. n - 1 /\ First(0)
        BY <3>1, <3>2 DEF Here
      <4>2. QED BY <4>1
    <3>3. CASE call.fifo # 1
      <4>1. call.size \in {1, 2, 4} /\ addr \in Int
        BY DEF Types, CallRecords
      <4>2. ASSUME NEW j \in 0 .. i - 1
            PROVE  Here(j) # Here(i)
        <5>1. CASE call.size = 1
          BY <5>1, <4>1, <3>3 DEF Here
        <5>2. CASE call.size = 2
          BY <5>2, <4>1, <3>3 DEF Here
        <5>3. CASE call.size = 4
          BY <5>3, <4>1, <3>3 DEF Here
        <5>4. QED BY <5>1, <5>2, <5>3, <4>1
      <4>3. First(i)
        BY <3>1, <4>2
      <4>4. QED BY <4>3
    <3>4. QED BY <3>2, <3>3
  <2>2. Reach(n) = CHOOSE i \in 0 .. n - 1 : First(i)
    BY <1>1 DEF Reach
  <2> HIDE DEF First
  <2>3. Reach(n) \in 0 .. n - 1
    BY <2>1, <2>2
  <2>4. QED BY <2>3
<1>2. CASE ~\E i \in 0 .. n - 1 : Here(i) = call.bad
  BY <1>2 DEF Reach
<1>3. QED BY <1>1, <1>2

LEMMA ChunkBounds ==
  ASSUME left \in Nat, left >= 1
  PROVE  Chunk \in 1 .. left
BY BoundsAssumption DEF Chunk

LEMMA ClampBounds ==
  ASSUME ~Crossing, Types, CanWrite, Going, call.dir = "write"
  PROVE  WriteClamp \in 1 .. left
<1>1. /\ call.size \in {1, 2, 4} /\ call.num \in Nat /\ call.start \in Nat
      /\ call.fifo \in {0, 1}
  BY DEF Types, CallRecords
<1>2. /\ addr = IF call.fifo = 1 THEN call.start
                ELSE call.start + upos * call.size
      /\ upos \in Nat /\ left = call.num - upos /\ left >= 1 /\ left \in Nat
      /\ Edge \in Nat
  BY <1>1, EdgeAssumption DEF Going, Placed, Item
<1>3. Chunk \in 1 .. left
  BY <1>2, ChunkBounds
<1>4. call.size = 1 \/ ~Crosses(call.start, call.num, call.size)
  BY DEF CanWrite, Sound
<1>5. CASE call.size = 1
  <2>1. Crosses(addr, Chunk, 1) => Edge - addr \in 1 .. Chunk
    BY <1>5, <1>1, <1>2, <1>3 DEF Crosses
  <2>2. QED BY <2>1, <1>5, <1>2, <1>3 DEF WriteClamp
<1>6. CASE call.size = 2
  <2>1. ~Crosses(addr, Chunk, call.size)
    BY <1>6, <1>1, <1>2, <1>3, <1>4 DEF Crosses
  <2>2. QED BY <2>1, <1>3 DEF WriteClamp
<1>7. CASE call.size = 4
  <2>1. ~Crosses(addr, Chunk, call.size)
    BY <1>7, <1>1, <1>2, <1>3, <1>4 DEF Crosses
  <2>2. QED BY <2>1, <1>3 DEF WriteClamp
<1>8. QED BY <1>1, <1>5, <1>6, <1>7

-----------------------------------------------------------------------------
(* Settings keep the file a file.                                          *)
LEMMA SettingsKeep ==
  ASSUME NEW c \in Settings, NEW r, NEW d, NEW f, NEW k, Numbers(d), FileOK(f)
  PROVE  FileOK(Setting(c, r, d, f, k).fd)
<1> USE DEF Setting, FileOK, FileFields, Answer, Refuse, Outcome, New, Numbers
<1>1. CASE c = "SETVMESPACE"
  BY <1>1 DEF SetVmeSpace
<1>2. CASE c = "MINDMALEN"
  BY <1>2 DEF MinDmaLen
<1>3. CASE c = "MINPIPELEN"
  BY <1>3 DEF MinPipeLen
<1>4. CASE c = "FIFOMODE"
  BY <1>4 DEF FifoMode
<1>5. CASE c = "SWAP"
  BY <1>5 DEF Swap
<1>6. CASE c = "TESTFLAGS"
  BY <1>6 DEF TestFlags
<1>7. CASE c = "TIMEOUTS"
  BY <1>7 DEF Timeouts
<1>8. QED BY <1>1, <1>2, <1>3, <1>4, <1>5, <1>6, <1>7 DEF Settings

LEMMA BlockRequests ==
  ASSUME NEW q \in BlockCalls
  PROVE  q.size \in {2, 4} /\ q.fifo \in {0, 1}
<1> USE DEF Requests, List
<1>1. CASE q \in Requests(A24BlockReads)
  BY <1>1 DEF A24BlockReads, BlockRead, FifoRead
<1>2. CASE q \in Requests(A24BlockWrites)
  BY <1>2 DEF A24BlockWrites, BlockWrite
<1>3. CASE q \in Requests(A32BlockReads)
  BY <1>3 DEF A32BlockReads, BlockRead
<1>4. CASE q \in Requests(A32FifoReads)
  BY <1>4 DEF A32FifoReads, FifoRead
<1>5. CASE q \in Requests(A32BlockWrites)
  BY <1>5 DEF A32BlockWrites, BlockWrite
<1> HIDE DEF Requests, List
<1>6. QED BY <1>1, <1>2, <1>3, <1>4, <1>5 DEF BlockCalls

-----------------------------------------------------------------------------
(* Each step keeps the invariant.  Nothing of the call changes:            *)
LEMMA KeptAside ==
  ASSUME AccessInv, FileOK(fd)',
         UNCHANGED <<pc, call, addr, upos, left, cr, moved, res, err, ret>>,
         cut => cut' \/ call.way = "none"
  PROVE  AccessInv'
<1>1. Types'
  BY DEF AccessInv, Types
<1>2. (Placed => Placed') /\ (Going => Going')
  BY DEF Placed, Going, Item
<1>3. CanWrite' /\ NeverBeyondRequest'
  BY DEF AccessInv, CanWrite, NeverBeyondRequest, Sound, Crosses
<1>4. /\ AtEnter' /\ AtChunk' /\ AtCounter'
      /\ AtWord' /\ AtSend' /\ AtDrain' /\ AtPipe'
  BY <1>2 DEF AccessInv, AtEnter, AtChunk, AtCounter, AtWord, AtSend, AtDrain,
              AtPipe, Items, Item
<1>5. AtReturn'
  BY DEF AccessInv, AtReturn, CountHolds, AllMoved, NoneLeft, Counted, Items,
         Item, Guessed
<1>6. Busy' /\ PipeReads'
  BY DEF AccessInv, Busy, PipeReads
<1>7. SuccessIsComplete' /\ CountIsMoved'
  BY DEF AccessInv, SuccessIsComplete, CountIsMoved, Answered, InOrder, Guessed
<1>8. QED BY <1>1, <1>3, <1>4, <1>5, <1>6, <1>7 DEF AccessInv

(* No block is on its way:                                                 *)
LEMMA KeptIdle ==
  ASSUME Types', pc' = "idle", call'.way = "none", call'.dir = "read"
  PROVE  AccessInv'
BY DEF AccessInv, CanWrite, Sound, NeverBeyondRequest, AtEnter, AtChunk,
       AtCounter, AtWord, AtSend, AtDrain, AtPipe, AtReturn, Busy, PipeReads, SuccessIsComplete,
       CountIsMoved, Answered

LEMMA NoCallRecord == NoCall \in CallRecords
BY DEF NoCall, CallRecords, Ways

LEMMA KeptByInit == Init => AccessInv
<1> SUFFICES ASSUME Init PROVE AccessInv
  OBVIOUS
<1>1. Types
  BY NoCallRecord DEF Init, Types, FileOK, FileFields
<1>2. QED BY <1>1 DEF Init, NoCall, AccessInv, CanWrite, Sound,
       NeverBeyondRequest, AtEnter, AtChunk, AtCounter, AtWord,
       AtSend, AtDrain, AtPipe, AtReturn, Busy, PipeReads, SuccessIsComplete,
       CountIsMoved, Answered

LEMMA KeptByOutside ==
  ASSUME AccessInv, LinkLost \/ RemoteGone \/ RemoteBack \/ Seek
  PROVE  AccessInv'
<1>1. UNCHANGED <<fd, pc, call, addr, upos, left, cr, moved, res, err, ret>>
  BY DEF LinkLost, RemoteGone, RemoteBack, Seek, file, far, place, result
<1>2. FileOK(fd)'
  BY <1>1 DEF AccessInv, Types
<1>3. cut => cut' \/ call.way = "none"
  <2>1. CASE LinkLost
    <3>1. cut' = (pc # "idle") /\ (pc = "idle" => call = NoCall)
      BY <2>1 DEF LinkLost, Looking
    <3>2. CASE pc = "idle"
      BY <3>1, <3>2 DEF NoCall
    <3>3. CASE pc # "idle"
      BY <3>1, <3>3
    <3>4. QED BY <3>2, <3>3
  <2>2. CASE RemoteGone \/ RemoteBack \/ Seek
    <3>1. cut' = cut
      BY <2>2 DEF RemoteGone, RemoteBack, Seek, far
    <3>2. QED BY <3>1
  <2>3. QED BY <2>1, <2>2
<1>4. QED BY <1>1, <1>2, <1>3, KeptAside

LEMMA KeptBySet ==
  ASSUME AccessInv, Set
  PROVE  AccessInv'
<1>1. UNCHANGED <<pc, call, addr, upos, left, cr, moved, res, err, ret, cut>>
  BY DEF Set, place, result, far
<1>2. PICK a \in Arguments, ioctl \in {"native", "compat"} :
        fd' = IF ioctl = "native" THEN Native(a[1], Ok, a[2], fd, card).fd
              ELSE Compat(a[1], Ok, a[2], fd, card).fd
  BY DEF Set
<1>3. a[1] \in Settings /\ Numbers(a[2])
  BY ArgumentsAssumption DEF Numbers
<1>4. /\ Native(a[1], Ok, a[2], fd, card) = Setting(a[1], Ok, a[2], fd, card)
      /\ Setting(a[1], Ok, a[2], fd, card) = Compat(a[1], Ok, a[2], fd, card)
  BY <1>3, NativeGroups, SettingsSame
<1>5. FileOK(Setting(a[1], Ok, a[2], fd, card).fd)
  BY <1>3, SettingsKeep DEF AccessInv, Types
<1>6. FileOK(fd)'
  BY <1>2, <1>4, <1>5
<1>7. QED BY <1>1, <1>6, KeptAside

LEMMA KeptByWords ==
  ASSUME AccessInv, Look \/ WordCall \/ CamacFunction \/ ResetCall
  PROVE  AccessInv'
<1> DEFINE w == [NoCall EXCEPT !.api = "word"]
<1>1. /\ UNCHANGED <<fd, addr, upos, left, cr>>
      /\ pc' = "idle"
      /\ call' = NoCall \/ call' = w
      /\ moved' = <<>> \/ moved' = moved
  BY DEF Look, Looking, WordCall, CamacFunction, ResetCall, Ready, Asks, file,
         place
<1>2. /\ w \in CallRecords /\ w.way = "none" /\ w.dir = "read"
      /\ NoCall.way = "none" /\ NoCall.dir = "read"
  BY DEF NoCall, CallRecords, Ways
<1> HIDE DEF w
<1>3. Types'
  <2>1. call' \in CallRecords
    BY <1>1, <1>2, NoCallRecord
  <2> moved' \in Seq(Int \X Int)
    <3>1. moved \in Seq(Int \X Int)
      BY DEF AccessInv, Types
    <3>2. <<>> \in Seq(Int \X Int)
      OBVIOUS
    <3>3. CASE moved' = <<>>
      BY <3>2, <3>3
    <3>4. CASE moved' = moved
      BY <3>1, <3>4
    <3>5. QED BY <3>3, <3>4, <1>1
  <2>2. QED BY <2>1, <1>1 DEF AccessInv, Types, FileOK
<1>4. call'.way = "none" /\ call'.dir = "read"
  BY <1>1, <1>2
<1>5. QED BY <1>1, <1>3, <1>4, KeptIdle

LEMMA KeptByStart ==
  ASSUME AccessInv, NEW c \in CallRecords, Start(c),
         c.way = "none", c.api # "word",
         Sound(c.dir, c.start, c.num, c.size)
  PROVE  AccessInv'
<1>1. Types'
  BY BoundsAssumption DEF Start, AccessInv, Types, FileOK, file, CallRecords
<1>2. Placed'
  BY DEF Start, Placed, Item, CallRecords
<1>3. CanWrite' /\ NeverBeyondRequest'
  BY DEF Start, CanWrite, NeverBeyondRequest, Sound, Crosses
<1>4. AtEnter'
  BY <1>2 DEF Start, AtEnter
<1>5. QED BY <1>1, <1>3, <1>4 DEF Start, AccessInv, AtChunk, AtCounter,
       AtWord, AtSend, AtDrain, AtPipe, AtReturn, Busy, PipeReads, SuccessIsComplete,
       CountIsMoved, Answered

LEMMA KeptByBlockCall ==
  ASSUME AccessInv, BlockCall
  PROVE  AccessInv'
<1>1. PICK q \in BlockCalls, num \in 0 .. MaxNum, a \in Places,
        bad \in -1 .. MaxNum - 1 :
        LET dir == IF q.cmd = "VME_BLOCK_READ" THEN "read" ELSE "write"
        IN /\ Sound(dir, a, num, q.size)
           /\ Start([dir |-> dir, api |-> "lib", size |-> q.size,
                     fifo |-> q.fifo, num |-> num, start |-> a,
                     bad |-> IF bad = -1 THEN -1 ELSE a + bad * q.size,
                     way |-> "none"])
  BY DEF BlockCall
<1> DEFINE dir == IF q.cmd = "VME_BLOCK_READ" THEN "read" ELSE "write"
           b == IF bad = -1 THEN -1 ELSE a + bad * q.size
           c == [dir |-> dir, api |-> "lib", size |-> q.size,
                 fifo |-> q.fifo, num |-> num, start |-> a,
                 bad |-> b, way |-> "none"]
<1>2. q.size \in {2, 4} /\ q.fifo \in {0, 1}
  BY BlockRequests
<1>3. b \in Int
  BY <1>2, BoundsAssumption
<1>4. dir \in {"read", "write"}
  OBVIOUS
<1>5. Sound(dir, a, num, q.size) /\ Start(c)
  BY <1>1
<1> HIDE DEF dir, b
<1>6. c \in CallRecords
  BY <1>2, <1>3, <1>4, BoundsAssumption DEF CallRecords, Ways
<1>7. c.way = "none" /\ c.api # "word" /\ Sound(c.dir, c.start, c.num, c.size)
  BY <1>5
<1> HIDE DEF c
<1>8. QED BY <1>5, <1>6, <1>7, KeptByStart

LEMMA KeptByFileCall ==
  ASSUME AccessInv, FileCall
  PROVE  AccessInv'
<1> DEFINE ram == fd.subdev = "ram"
           size == IF ram THEN 4 ELSE fd.size
           fifo == IF ram THEN 0 ELSE fd.fifo
<1>1. PICK dir \in {"read", "write"}, num \in 0 .. MaxNum,
        bad \in -1 .. MaxNum - 1 :
          /\ pos \in Places
          /\ Sound(dir, pos, num, size)
          /\ Start([dir |-> dir, api |-> "file", size |-> size,
                    fifo |-> fifo, num |-> num, start |-> pos,
                    bad |-> IF bad = -1 THEN -1 ELSE pos + bad * size,
                    way |-> "none"])
  BY DEF FileCall
<1> DEFINE b == IF bad = -1 THEN -1 ELSE pos + bad * size
           c == [dir |-> dir, api |-> "file", size |-> size,
                 fifo |-> fifo, num |-> num, start |-> pos,
                 bad |-> b, way |-> "none"]
<1>2. size \in {1, 2, 4} /\ fifo \in {0, 1}
  BY DEF AccessInv, Types, FileOK
<1>5. Sound(dir, pos, num, size) /\ Start(c)
  BY <1>1
<1> HIDE DEF size, fifo
<1>3. b \in Int
  BY <1>1, <1>2, BoundsAssumption
<1> HIDE DEF b
<1>6. c \in CallRecords
  BY <1>1, <1>2, <1>3, BoundsAssumption DEF CallRecords, Ways
<1>7. c.way = "none" /\ c.api # "word" /\ Sound(c.dir, c.start, c.num, c.size)
  BY <1>5
<1> HIDE DEF c
<1>8. QED BY <1>5, <1>6, <1>7, KeptByStart

-----------------------------------------------------------------------------
(* The steps of the driver.                                                *)
LEMMA ItemsAre ==
  ASSUME NEW c \in CallRecords, NEW n \in Nat
  PROVE  /\ Items(c, n) \in Seq(Int \X Int) /\ Len(Items(c, n)) = n
         /\ \A i \in 1 .. n : /\ Items(c, n)[i] = Item(c, i - 1)
                              /\ Items(c, n)[i][2] = i - 1
<1>1. ASSUME NEW i \in 1 .. n
      PROVE  Item(c, i - 1) \in Int \X Int /\ Item(c, i - 1)[2] = i - 1
  <2>1. i - 1 \in Nat
    OBVIOUS
  <2>2. QED BY <2>1, ItemHere
<1>2. QED BY <1>1 DEF Items

LEMMA Advanced ==
  ASSUME Types, call' = call, NEW n \in Nat, Advance(n)
  PROVE  /\ addr' \in Int /\ upos' = upos + n /\ left' = left - n
         /\ upos' \in Int /\ left' \in Int
         /\ Placed => Placed'
<1>1. call \in CallRecords /\ addr \in Int /\ upos \in Int /\ left \in Int
  BY DEF Types
<1>2. n * call.size \in Int
  <2>1. CASE call.size = 1
    BY <2>1
  <2>2. CASE call.size = 2
    BY <2>2
  <2>3. CASE call.size = 4
    BY <2>3
  <2>4. QED BY <1>1, <2>1, <2>2, <2>3 DEF CallRecords
<1>3. addr' \in Int /\ upos' = upos + n /\ left' = left - n
  BY <1>1, <1>2 DEF Advance
<1>4. ASSUME Placed
      PROVE  Placed'
  <2>1. upos \in Nat /\ left = call.num - upos /\ addr = Item(call, upos)[1]
    BY <1>4 DEF Placed
  <2>2. Item(call, upos + n) =
          <<IF call.fifo = 1 THEN addr ELSE addr + n * call.size, upos + n>>
    BY <1>1, <2>1, ItemHere
  <2>3. addr' = Item(call, upos')[1]
    BY <2>2, <1>3 DEF Advance
  <2>4. call.num \in Nat
    BY <1>1 DEF CallRecords
  <2>5. QED BY <1>3, <2>1, <2>3, <2>4 DEF Placed
<1>5. QED BY <1>1, <1>3, <1>4

LEMMA KeptInside ==
  ASSUME AccessInv, Types', call' = call, call.api # "word",
         pc' \notin {"idle", "enter"}, NeverBeyondRequest',
         AtChunk', AtCounter', AtWord', AtSend', AtDrain', AtPipe', AtReturn'
  PROVE  AccessInv'
BY DEF AccessInv, CanWrite, Sound, Crosses, AtEnter, Busy, PipeReads,
       SuccessIsComplete, CountIsMoved, Answered

LEMMA KeptAtReturn ==
  ASSUME AccessInv, Types', call' = call, pc \notin {"idle", "enter"},
         pc' = "return", NeverBeyondRequest', AtReturn'
  PROVE  AccessInv'
<1>1. call.api # "word"
  BY DEF AccessInv, Busy
<1>2. /\ AtChunk' /\ AtCounter'
      /\ AtWord' /\ AtSend' /\ AtDrain' /\ AtPipe'
  BY DEF AtChunk, AtCounter, AtWord, AtSend, AtDrain, AtPipe
<1>3. QED BY <1>1, <1>2, KeptInside

(* So many words in order are not too many.                                *)
LEMMA Within ==
  ASSUME call \in CallRecords, call' = call,
         NEW m \in Nat, m <= call.num, moved' = Items(call, m)
  PROVE  NeverBeyondRequest' /\ moved' \in Seq(Int \X Int)
<1>1. /\ Items(call, m) \in Seq(Int \X Int) /\ Len(Items(call, m)) = m
      /\ \A i \in 1 .. m : Items(call, m)[i][2] = i - 1
  BY ItemsAre
<1>2. call.num \in Nat
  BY DEF CallRecords
<1> DEFINE s == Items(call, m)
<1> HIDE DEF s
<1>3. s \in Seq(Int \X Int) /\ Len(s) = m /\ \A i \in 1 .. m : s[i][2] = i - 1
  BY <1>1 DEF s
<1>4. moved' = s
  BY DEF s
<1>5. ASSUME NEW i \in 1 .. Len(s)
      PROVE  s[i][2] < call.num
  <2>1. i \in 1 .. m /\ s[i][2] = i - 1
    BY <1>3
  <2> QED BY <2>1, <1>2
<1>6. NeverBeyondRequest'
  BY <1>4, <1>5 DEF NeverBeyondRequest
<1>7. QED BY <1>3, <1>4, <1>6

(* What is counted lies within what has been moved.                        *)
LEMMA Counts ==
  ASSUME call \in CallRecords, call' = call,
         NEW m \in Nat, moved' = Items(call, m),
         NEW n \in 0 .. m, left' = call.num - n,
         call.dir = "read" /\ res' = Ok => n = m
  PROVE  CountHolds'
<1> DEFINE s == Items(call, m)
<1>1. s \in Seq(Int \X Int) /\ Len(s) = m
      /\ \A i \in 1 .. m : s[i] = Item(call, i - 1)
  BY ItemsAre
<1>2. call.num \in Nat
  BY DEF CallRecords
<1> HIDE DEF s
<1>3. moved' = s
  BY DEF s
<1>4. Counted' = n
  BY <1>2 DEF Counted
<1>5. n \in 0 .. Len(s) /\ \A i \in 1 .. n : s[i] = Item(call, i - 1)
  BY <1>1
<1>6. call.dir = "read" /\ res' = Ok => n = Len(s)
  BY <1>1
<1>7. QED BY <1>3, <1>4, <1>5, <1>6 DEF CountHolds

(* So much has been moved and is counted, and it is all or a short read.   *)
LEMMA Ended ==
  ASSUME call \in CallRecords, call' = call, res' = Ok,
         NEW m \in Nat, moved' = Items(call, m), left' = call.num - m,
         left' = 0 \/ err' # Ok \/ (call.dir = "read" /\ call.way = "dma")
  PROVE  AtReturn'
<1>1. call.num \in Nat
  BY DEF CallRecords
<1>2. m \in 0 .. m
  OBVIOUS
<1>3. CountHolds'
  BY <1>2, Counts
<1>4. Counted' = m /\ (left' = 0 => m = call.num)
  BY <1>1 DEF Counted
<1>5. AllMoved' /\ NoneLeft'
  BY <1>4 DEF AllMoved, NoneLeft, Items, Item
<1>6. QED BY <1>3, <1>5 DEF AtReturn

LEMMA EnterSets ==
  ASSUME call \in CallRecords, NEW w \in Ways, NEW c,
         c = [call EXCEPT !.way = w]
  PROVE  /\ c \in CallRecords /\ c.way = w
         /\ c.dir = call.dir /\ c.api = call.api /\ c.size = call.size
         /\ c.fifo = call.fifo /\ c.num = call.num /\ c.start = call.start
BY DEF CallRecords

LEMMA KeptByEnter ==
  ASSUME AccessInv, Enter
  PROVE  AccessInv'
<1>1. /\ UNCHANGED <<fd, addr, upos, left, cr, moved>>
      /\ pc = "enter"
  BY DEF Enter, file, place
<1>2. /\ moved = <<>> /\ upos = 0 /\ Placed /\ res = Ok
      /\ call.way = "none" /\ call.api # "word" /\ call \in CallRecords
  BY <1>1 DEF AccessInv, AtEnter, Types
<1>3. PICK w \in Ways : call' = [call EXCEPT !.way = w]
                       /\ \/ w = "none" /\ pc' = "return"
                          \/ /\ w = Way /\ pc' = FirstStep(w)
                             /\ call.num # 0 /\ res' = res
  BY DEF Enter, Leave, Way, Ways
<1>4. /\ call' \in CallRecords /\ call'.way = w
      /\ call'.dir = call.dir /\ call'.api = call.api /\ call'.size = call.size
      /\ call'.fifo = call.fifo /\ call'.num = call.num
      /\ call'.start = call.start
  BY <1>2, <1>3, EnterSets
<1>5. Types'
  BY <1>1, <1>4 DEF AccessInv, Types, FileOK
<1>6. CanWrite'
  BY <1>4 DEF AccessInv, CanWrite, Sound, Crosses
<1>7. NeverBeyondRequest'
  BY <1>1, <1>2, <1>4 DEF NeverBeyondRequest
<1>8. CASE w = "none"
  <2>1. pc' = "return"
    BY <1>3, <1>8 DEF Way
  <2>2. QED BY <1>2, <1>4, <1>5, <1>6, <1>7, <1>8, <2>1
         DEF AccessInv, AtEnter, AtChunk, AtCounter, AtWord, AtSend, AtDrain,
             AtPipe, AtReturn, Busy, PipeReads, SuccessIsComplete, CountIsMoved,
             Answered
<1>9. CASE w # "none"
  <2>1. w = Way /\ pc' = FirstStep(w) /\ call.num # 0 /\ res' = Ok
    BY <1>2, <1>3, <1>9
  <2>2. /\ w \in {"dma", "pipe", "single", "loop"}
        /\ w = "pipe" => call.dir = "read"
    BY <2>1 DEF Way
  <2>3. /\ pc' = "chunk" <=> w = "dma"
        /\ pc' = "pipe" <=> w = "pipe"
        /\ pc' = "word" => w \in {"single", "loop"}
        /\ pc' = "send" => w = "loop" /\ call.dir # "read"
        /\ pc' \in {"chunk", "pipe", "word", "send"}
    BY <2>1, <2>2 DEF FirstStep
  <2>4. Going'
    BY <1>1, <1>2, <1>4, <2>1 DEF Going, Placed, Item, CallRecords
  <2>5. moved' = Items(call', upos')
    BY <1>1, <1>2 DEF Items
  <2>6. call'.dir \in {"read", "write"}
    BY <1>4 DEF CallRecords
  <2>7. AtChunk' /\ AtWord' /\ AtSend' /\ AtPipe'
    BY <1>4, <2>3, <2>4, <2>5, <2>6 DEF AtChunk, AtWord, AtSend, AtPipe
  <2>8. QED BY <1>2, <1>4, <1>5, <1>6, <1>7, <2>2, <2>3, <2>7
         DEF AccessInv, AtEnter, AtCounter, AtDrain, AtReturn, Busy, PipeReads,
             SuccessIsComplete, CountIsMoved, Answered
<1>10. QED BY <1>8, <1>9

(* A block of DMA before its next chunk.                                   *)
LEMMA BeforeChunk ==
  ASSUME AccessInv, pc = "chunk"
  PROVE  /\ Types /\ CanWrite /\ Going /\ Placed /\ res = Ok
         /\ moved = Items(call, upos) /\ call.way = "dma"
         /\ upos \in Nat /\ left \in Nat /\ left >= 1 /\ left = call.num - upos
         /\ call.num \in Nat /\ call \in CallRecords
         /\ Chunk \in 1 .. left
<1>1. /\ Types /\ CanWrite /\ Going /\ moved = Items(call, upos)
      /\ call.way = "dma"
  BY DEF AccessInv, AtChunk
<1>2. /\ Placed /\ res = Ok /\ upos \in Nat /\ left >= 1
      /\ left = call.num - upos
  BY <1>1 DEF Going, Placed
<1>3. call.num \in Nat /\ call \in CallRecords
  BY <1>1 DEF Types, CallRecords
<1>4. left \in Nat
  BY <1>2, <1>3
<1>5. QED BY <1>1, <1>2, <1>3, <1>4, ChunkBounds

LEMMA KeptByReadChunk ==
  ASSUME AccessInv, ReadChunk
  PROVE  AccessInv'
<1> DEFINE n == Chunk
           k == Reach(n)
           e == IF k = n THEN Ok ELSE "bus"
<1>1. /\ pc = "chunk" /\ call.dir = "read"
      /\ cr' = k /\ err' = e
      /\ moved' = moved \o Words(k)
      /\ Advance(k)
      /\ pc' = IF left - k # 0 /\ k = n /\ e = Ok THEN "chunk" ELSE "return"
      /\ UNCHANGED <<fd, call, res>>
  BY DEF ReadChunk, ReadMore, file
<1>2. /\ Types /\ Placed /\ res = Ok
      /\ moved = Items(call, upos) /\ call.way = "dma"
      /\ upos \in Nat /\ left \in Nat /\ left >= 1 /\ left = call.num - upos
      /\ call.num \in Nat /\ call \in CallRecords
      /\ n \in 1 .. left
  BY <1>1, BeforeChunk
<1>3. k \in 0 .. n
  BY <1>2, ReachBounds
<1>4. e = Ok <=> k = n
  OBVIOUS
<1> HIDE DEF n, k, e
<1>5. moved' = Items(call, upos + k)
  <2>1. k \in Nat
    BY <1>2, <1>3
  <2>2. moved \o Words(k) = Items(call, upos + k)
    BY <1>2, <2>1, Appended
  <2>3. QED BY <1>1, <2>2
<1>6. /\ addr' \in Int /\ upos' = upos + k /\ left' = left - k /\ Placed'
  BY <1>1, <1>2, <1>3, Advanced
<1>7. NeverBeyondRequest' /\ moved' \in Seq(Int \X Int)
  <2> DEFINE m == upos + k
  <2>1. m \in Nat /\ m <= call.num
    BY <1>2, <1>3
  <2>2. moved' = Items(call, m)
    BY <1>5
  <2> HIDE DEF m
  <2>3. QED BY <2>1, <2>2, <1>1, <1>2, Within
<1>8. Types'
  BY <1>1, <1>2, <1>3, <1>6, <1>7 DEF Types, FileOK
<1>9. CASE pc' = "return"
  <2>1. upos + k \in Nat /\ left' = call.num - (upos + k)
    BY <1>2, <1>3, <1>6
  <2>2. res' = Ok /\ call'.dir = "read" /\ call'.way = "dma" /\ call' = call
    BY <1>1, <1>2
  <2>3. AtReturn'
    BY <2>1, <2>2, <1>2, <1>5, Ended
  <2>4. QED BY <1>1, <1>7, <1>8, <1>9, <2>3, KeptAtReturn
<1>10. CASE pc' = "chunk"
  <2>1. left' >= 1
    <3>1. left - k # 0
      BY <1>1, <1>10
    <3>2. QED BY <3>1, <1>2, <1>3, <1>6
  <2>2. AtChunk'
    BY <1>1, <1>2, <1>5, <1>6, <2>1 DEF AtChunk, Going
  <2>3. call.api # "word"
    BY <1>1 DEF AccessInv, Busy
  <2>4. /\ AtCounter' /\ AtWord' /\ AtSend' /\ AtDrain' /\ AtPipe'
        /\ AtReturn'
    BY <1>10 DEF AtCounter, AtWord, AtSend, AtDrain, AtPipe, AtReturn
  <2>5. QED BY <1>1, <1>7, <1>8, <1>10, <2>2, <2>3, <2>4, KeptInside
<1>11. QED BY <1>1, <1>9, <1>10

LEMMA KeptByReadChunkShort ==
  ASSUME AccessInv, ReadChunkShort
  PROVE  AccessInv'
<1> DEFINE n == Chunk
<1>1. /\ pc = "chunk" /\ call.dir = "read"
      /\ pc' = "return" /\ UNCHANGED <<fd, call, res>>
  BY DEF ReadChunkShort, file
<1>2. PICK k \in 0 .. Reach(n) :
        cr' = k /\ moved' = moved \o Words(k) /\ Advance(k)
  BY DEF ReadChunkShort
<1>3. /\ Types /\ Placed /\ res = Ok
      /\ moved = Items(call, upos) /\ call.way = "dma"
      /\ upos \in Nat /\ left \in Nat /\ left = call.num - upos
      /\ call.num \in Nat /\ call \in CallRecords
      /\ n \in 1 .. left
  BY <1>1, BeforeChunk
<1> HIDE DEF n
<1>4. Reach(n) \in 0 .. n
  BY <1>3, ReachBounds
<1> DEFINE m == upos + k
<1>5. k \in Nat /\ m \in Nat /\ m <= call.num
  BY <1>3, <1>4
<1>6. moved' = Items(call, m)
  BY <1>2, <1>3, <1>5, Appended
<1>7. /\ addr' \in Int /\ upos' \in Int /\ left' \in Int
      /\ left' = left - k
  BY <1>1, <1>2, <1>3, <1>5, Advanced
<1>8. left' = call.num - m
  BY <1>3, <1>5, <1>7
<1> HIDE DEF m
<1>9. NeverBeyondRequest' /\ moved' \in Seq(Int \X Int)
  BY <1>1, <1>3, <1>5, <1>6, Within
<1>10. Types'
  BY <1>1, <1>2, <1>3, <1>5, <1>7, <1>9 DEF Types, FileOK
<1>11. AtReturn'
  BY <1>1, <1>3, <1>5, <1>6, <1>8, Ended
<1>12. QED BY <1>1, <1>9, <1>10, <1>11, KeptAtReturn

(* A chunk is given up: nothing of it is counted.                          *)
LEMMA KeptByFailure ==
  ASSUME AccessInv, pc = "chunk", pc' = "return", res' = "EIO", cr' \in Nat,
         UNCHANGED <<fd, call, addr, upos, left>>,
         NEW k \in 0 .. left, moved' = moved \o Words(k)
  PROVE  AccessInv'
<1>1. /\ Types /\ Placed
      /\ moved = Items(call, upos)
      /\ upos \in Nat /\ left \in Nat /\ left = call.num - upos
      /\ call.num \in Nat /\ call \in CallRecords
  BY BeforeChunk
<1> DEFINE m == upos + k
<1>2. /\ k \in Nat /\ m \in Nat /\ m <= call.num /\ upos \in 0 .. m
      /\ left' = call.num - upos
  <2>1. left' = call.num - upos
    BY <1>1
  <2>2. k \in Nat /\ k <= call.num - upos
    BY <1>1
  <2>3. upos \in Nat /\ call.num \in Nat
    BY <1>1
  <2>4. m \in Nat /\ m <= call.num
    BY <2>2, <2>3
  <2>5. upos \in 0 .. m
    BY <2>2, <2>3
  <2>6. QED BY <2>1, <2>2, <2>4, <2>5
<1>3. moved' = Items(call, m)
  BY <1>1, <1>2, Appended
<1> HIDE DEF m
<1>4. NeverBeyondRequest' /\ moved' \in Seq(Int \X Int)
  BY <1>1, <1>2, <1>3, Within
<1>5. Types'
  BY <1>1, <1>4 DEF Types, FileOK
<1>6. CountHolds'
  BY <1>1, <1>2, <1>3, Counts
<1>7. AtReturn'
  BY <1>6 DEF AtReturn, AllMoved, NoneLeft
<1>8. QED BY <1>4, <1>5, <1>7, KeptAtReturn

LEMMA KeptByReadChunkFails ==
  ASSUME AccessInv, ReadChunkFails
  PROVE  AccessInv'
<1>1. PICK k \in 0 .. Reach(Chunk) : cr' = k /\ moved' = moved \o Words(k)
  BY DEF ReadChunkFails
<1>2. /\ pc = "chunk" /\ pc' = "return" /\ res' = "EIO"
      /\ UNCHANGED <<fd, call, addr, upos, left>>
  BY DEF ReadChunkFails, file, place
<1>3. Types /\ left \in Nat /\ Chunk \in 1 .. left
  BY <1>2, BeforeChunk
<1> DEFINE n == Chunk
<1>4. n \in Nat /\ n <= left
  BY <1>3
<1>5. Reach(n) \in 0 .. n
  BY <1>3, <1>4, ReachBounds
<1>6. k \in 0 .. left /\ cr' \in Nat
  BY <1>1, <1>3, <1>4, <1>5
<1>7. QED BY <1>1, <1>2, <1>6, KeptByFailure

LEMMA KeptByReadChunkAborted ==
  ASSUME AccessInv, ReadChunkAborted
  PROVE  AccessInv'
<1>1. PICK k \in 0 .. Reach(Chunk) :
        moved' = moved \o Words(Minimum(k, cr))
  BY DEF ReadChunkAborted
<1>2. /\ pc = "chunk" /\ pc' = "return" /\ call.dir = "read"
      /\ err' = "sync"
      /\ Advance(cr)
      /\ UNCHANGED <<fd, call, cr, res>>
  BY DEF ReadChunkAborted, file
<1>3. /\ Types /\ Placed /\ res = Ok /\ left \in Nat /\ Chunk \in 1 .. left
      /\ cr \in Nat
  BY <1>2, BeforeChunk DEF Types
<1>4. Reach(Chunk) \in 0 .. Chunk
  <2> DEFINE n == Chunk
  <2>1. n \in Nat
    BY <1>3
  <2> HIDE DEF n
  <2>2. Reach(n) \in 0 .. n
    BY <1>3, <2>1, ReachBounds
  <2>3. QED BY <2>2 DEF n
<1>5. Minimum(k, cr) \in Nat
  BY <1>3, <1>4 DEF Minimum
<1> DEFINE w == Words(Minimum(k, cr))
<1>6. w \in Seq(Int \X Int)
  BY <1>3, <1>5, WordsAre
<1> HIDE DEF w
<1>7. moved' \in Seq(Int \X Int)
  <2>1. moved \in Seq(Int \X Int) /\ moved' = moved \o w
    BY <1>1, <1>3 DEF Types, w
  <2>2. QED BY <2>1, <1>6, Joined
<1>8. addr' \in Int /\ upos' \in Int /\ left' \in Int
  BY <1>2, <1>3, Advanced
<1>9. Types'
  BY <1>2, <1>3, <1>7, <1>8 DEF Types, FileOK
<1>10. NeverBeyondRequest' /\ AtReturn'
  BY <1>2, <1>3 DEF NeverBeyondRequest, AtReturn, CountHolds, AllMoved,
                    NoneLeft
<1>11. QED BY <1>2, <1>9, <1>10, KeptAtReturn

LEMMA KeptByWriteChunk ==
  ASSUME ~Crossing, AccessInv, WriteChunk
  PROVE  AccessInv'
<1> DEFINE n == WriteClamp
           k == Reach(n)
<1>1. /\ pc = "chunk" /\ call.dir = "write"
      /\ moved' = moved \o Words(k)
      /\ IF k = n THEN /\ err' = Ok
                       /\ Advance(n)
                       /\ pc' = IF left # n THEN "chunk" ELSE "return"
         ELSE err' = "bus" /\ pc' = "counter" /\ UNCHANGED <<addr, upos, left>>
      /\ UNCHANGED <<fd, call, cr, res>>
  BY DEF WriteChunk, file, place
<1>2. /\ Types /\ Placed /\ res = Ok /\ CanWrite /\ Going
      /\ moved = Items(call, upos) /\ call.way = "dma"
      /\ upos \in Nat /\ left \in Nat /\ left >= 1 /\ left = call.num - upos
      /\ call.num \in Nat /\ call \in CallRecords
  BY <1>1, BeforeChunk
<1>3. n \in 1 .. left
  BY <1>1, <1>2, ClampBounds
<1> HIDE DEF n
<1>4. k \in 0 .. n
  BY <1>2, <1>3, ReachBounds
<1> HIDE DEF k
<1> DEFINE m == upos + k
<1>5. k \in Nat /\ k \in 0 .. left /\ m \in Nat /\ m <= call.num
  BY <1>2, <1>3, <1>4
<1>6. moved' = Items(call, m)
  BY <1>1, <1>2, <1>5, Appended
<1>7. m = upos + k
  OBVIOUS
<1> HIDE DEF m
<1>8. NeverBeyondRequest' /\ moved' \in Seq(Int \X Int)
  BY <1>1, <1>2, <1>5, <1>6, Within
<1>9. call.api # "word"
  BY <1>1 DEF AccessInv, Busy
<1>10. CASE k = n
  <2>1. /\ addr' \in Int /\ upos' = upos + n /\ left' = left - n /\ Placed'
        /\ upos' \in Int /\ left' \in Int
    BY <1>1, <1>2, <1>3, <1>10, Advanced
  <2>2. Types'
    BY <1>1, <1>2, <1>8, <2>1 DEF Types, FileOK
  <2>3. upos' = m /\ left' = call.num - m
    BY <1>2, <1>3, <1>7, <1>10, <2>1
  <2>4. CASE left = n
    <3>1. pc' = "return" /\ left' = 0
      BY <1>1, <1>2, <1>10, <2>1, <2>4
    <3>2. AtReturn'
      BY <1>1, <1>2, <1>5, <1>6, <2>3, <3>1, Ended
    <3>3. QED BY <3>1, <3>2, <1>1, <1>8, <2>2, KeptAtReturn
  <2>5. CASE left # n
    <3>1. pc' = "chunk" /\ left' >= 1
      BY <1>1, <1>2, <1>3, <1>10, <2>1, <2>5
    <3>2. AtChunk'
      BY <3>1, <1>1, <1>2, <1>6, <2>1, <2>3 DEF AtChunk, Going
    <3>3. /\ AtCounter' /\ AtWord' /\ AtSend' /\ AtDrain' /\ AtPipe'
          /\ AtReturn'
      BY <3>1 DEF AtCounter, AtWord, AtSend, AtDrain, AtPipe, AtReturn
    <3>4. QED BY <3>1, <3>2, <3>3, <1>1, <1>8, <1>9, <2>2, KeptInside
  <2>6. QED BY <2>4, <2>5
<1>11. CASE k # n
  <2>1. /\ err' = "bus" /\ pc' = "counter" /\ UNCHANGED <<addr, upos, left>>
    BY <1>1, <1>11
  <2>2. Types'
    BY <1>1, <1>2, <1>8, <2>1 DEF Types, FileOK
  <2>3. Placed'
    BY <1>1, <1>2, <2>1 DEF Placed, Item
  <2>4. moved' = Items(call, upos + k)
    BY <1>6, <1>7
  <2>5. moved' = Items(call', upos' + k) /\ k \in 0 .. left'
    BY <2>4, <2>1, <1>1, <1>5
  <2>6. AtCounter'
    BY <2>1, <2>3, <2>5, <1>1, <1>2 DEF AtCounter, Going
  <2>7. /\ AtChunk' /\ AtWord' /\ AtSend' /\ AtDrain' /\ AtPipe'
        /\ AtReturn'
    BY <2>1 DEF AtChunk, AtWord, AtSend, AtDrain, AtPipe, AtReturn
  <2>8. QED BY <2>1, <2>2, <2>6, <2>7, <1>1, <1>8, <1>9, KeptInside
<1>12. QED BY <1>10, <1>11

(* The counter is read: right if the link has not been away.               *)
LEMMA KeptByWriteCounter ==
  ASSUME AccessInv, WriteCounter
  PROVE  AccessInv'
<1>1. /\ pc = "counter" /\ pc' = "return"
      /\ UNCHANGED <<fd, call, cr, moved, res, err, cut>>
  BY DEF WriteCounter, file, result, far
<1>2. PICK cnt \in Written(Len(moved) - upos) : Advance(cnt)
  BY DEF WriteCounter
<1>3. /\ Types /\ Placed /\ res = Ok /\ err = "bus"
      /\ call.way = "dma" /\ call.dir = "write"
      /\ upos \in Nat /\ left \in Nat /\ left = call.num - upos
      /\ call.num \in Nat /\ call \in CallRecords
  BY <1>1 DEF AccessInv, AtCounter, Going, Placed, Types, CallRecords
<1>4. PICK k \in 0 .. left : moved = Items(call, upos + k)
  BY <1>1 DEF AccessInv, AtCounter
<1> DEFINE m == upos + k
<1>5. m \in Nat /\ m <= call.num /\ k \in Nat
  BY <1>3
<1>6. moved = Items(call, m) /\ m = upos + k
  BY <1>4
<1> HIDE DEF m
<1>7. Len(moved) = m
  BY <1>3, <1>5, <1>6, ItemsAre
<1>8. Len(moved) - upos = k
  BY <1>3, <1>5, <1>6, <1>7
<1>9. cnt \in Nat /\ (~cut => cnt = 0 \/ cnt = k)
  BY <1>2, <1>5, <1>8, BoundsAssumption DEF Written
<1>10. /\ addr' \in Int /\ upos' = upos + cnt /\ left' = left - cnt
       /\ upos' \in Int /\ left' \in Int
  BY <1>1, <1>2, <1>3, <1>9, Advanced
<1>11. Types'
  BY <1>1, <1>3, <1>10 DEF Types, FileOK
<1>12. NeverBeyondRequest'
  BY <1>1 DEF AccessInv, NeverBeyondRequest
<1>13. cut => Guessed'
  BY <1>1, <1>3 DEF Guessed
<1>14. CountHolds' /\ NoneLeft'
  <2>1. CASE Guessed'
    BY <2>1 DEF CountHolds, NoneLeft
  <2>2. CASE ~Guessed'
    <3> DEFINE c == upos + cnt
    <3>1. cnt = 0 \/ cnt = k
      BY <2>2, <1>9, <1>13
    <3>2. c \in 0 .. m /\ left' = call.num - c
      BY <3>1, <1>3, <1>5, <1>6, <1>10
    <3>3. left' = 0 => m = call.num
      BY <3>2, <1>3, <1>5
    <3> HIDE DEF c
    <3>4. moved' = Items(call, m)
      BY <1>1, <1>6
    <3>5. CountHolds'
      BY <3>2, <3>4, <1>1, <1>3, <1>5, Counts
    <3>6. NoneLeft'
      BY <3>3, <3>4, <1>1 DEF NoneLeft, Items, Item
    <3>7. QED BY <3>5, <3>6
  <2>3. QED BY <2>1, <2>2
<1>15. AtReturn'
  BY <1>1, <1>3, <1>14 DEF AtReturn, AllMoved
<1>16. QED BY <1>1, <1>11, <1>12, <1>15, KeptAtReturn

LEMMA KeptByWriteChunkFails ==
  ASSUME ~Crossing, AccessInv, WriteChunkFails
  PROVE  AccessInv'
<1>1. PICK k \in 0 .. Reach(WriteClamp) : moved' = moved \o Words(k)
  BY DEF WriteChunkFails
<1>2. /\ pc = "chunk" /\ pc' = "return" /\ res' = "EIO" /\ call.dir = "write"
      /\ UNCHANGED <<fd, call, addr, upos, left, cr>>
  BY DEF WriteChunkFails, file, place
<1>3. Types /\ CanWrite /\ Going /\ left \in Nat /\ cr \in Nat
  BY <1>2, BeforeChunk DEF Types
<1> DEFINE n == WriteClamp
<1>4. n \in 1 .. left
  BY <1>2, <1>3, ClampBounds
<1>5. k \in 0 .. Reach(n)
  BY <1>1
<1> HIDE DEF n
<1>6. Reach(n) \in 0 .. n
  BY <1>3, <1>4, ReachBounds
<1>7. k \in 0 .. left /\ cr' \in Nat
  BY <1>2, <1>3, <1>4, <1>5, <1>6
<1>8. QED BY <1>1, <1>2, <1>7, KeptByFailure

LEMMA KeptByWordStep ==
  ASSUME AccessInv, WordStep
  PROVE  AccessInv'
<1>1. /\ pc = "word" /\ pc' \in {"word", "return"}
      /\ UNCHANGED <<fd, call, cr, res>>
  BY DEF WordStep, file
<1>2. /\ Types /\ Going /\ Placed /\ res = Ok
      /\ moved = Items(call, upos) /\ call.way \in {"single", "loop"}
      /\ upos \in Nat /\ left >= 1 /\ left = call.num - upos
      /\ call.num \in Nat /\ call \in CallRecords /\ cr \in Nat
  BY <1>1 DEF AccessInv, AtWord, Types, Going, Placed, CallRecords
<1>3. CASE Accepts
  <2>1. /\ moved' = moved \o Words(1) /\ Advance(1) /\ err' = Ok
        /\ pc' = "return" <=> left = 1
    BY <1>3 DEF WordStep
  <2>2. /\ addr' \in Int /\ upos' = upos + 1 /\ left' = left - 1 /\ Placed'
    BY <1>1, <1>2, <2>1, Advanced
  <2> DEFINE m == upos + 1
  <2>3. m \in Nat /\ m <= call.num /\ left' = call.num - m /\ upos' = m
    BY <1>2, <2>2
  <2>4. moved' = Items(call, m)
    BY <1>2, <2>1, Appended
  <2> HIDE DEF m
  <2>5. NeverBeyondRequest' /\ moved' \in Seq(Int \X Int)
    BY <1>1, <1>2, <2>3, <2>4, Within
  <2>6. Types'
    BY <1>1, <1>2, <2>2, <2>3, <2>5 DEF Types, FileOK
  <2>7. CASE left = 1
    <3>1. left' = 0
      BY <2>7, <1>2, <2>2
    <3>2. AtReturn'
      BY <3>1, <1>1, <1>2, <2>3, <2>4, Ended
    <3>3. QED BY <3>2, <1>1, <2>1, <2>5, <2>6, <2>7, KeptAtReturn
  <2>8. CASE left # 1
    <3>1. pc' = "word" /\ left' >= 1
      BY <2>8, <1>1, <1>2, <2>1, <2>2
    <3>2. AtWord'
      BY <3>1, <1>1, <1>2, <2>2, <2>3, <2>4 DEF AtWord, Going
    <3>3. call.api # "word"
      BY <1>1 DEF AccessInv, Busy
    <3>4. /\ AtChunk' /\ AtCounter' /\ AtSend' /\ AtDrain' /\ AtPipe'
          /\ AtReturn'
      BY <3>1 DEF AtChunk, AtCounter, AtSend, AtDrain, AtPipe, AtReturn
    <3>5. QED BY <3>1, <3>2, <3>3, <3>4, <1>1, <2>5, <2>6, KeptInside
  <2>9. QED BY <2>7, <2>8
<1>4. CASE ~Accepts
  <2>1. /\ err' # Ok /\ pc' = "return"
        /\ UNCHANGED <<addr, upos, left, moved>>
    BY <1>4 DEF WordStep, place
  <2>2. NeverBeyondRequest'
    BY <1>1, <2>1 DEF AccessInv, NeverBeyondRequest
  <2>3. Types'
    BY <1>1, <1>2, <2>1 DEF Types, FileOK
  <2>4. upos \in 0 .. upos /\ left' = call.num - upos
        /\ moved' = Items(call, upos)
    BY <1>2, <2>1
  <2>5. CountHolds'
    BY <2>4, <1>1, <1>2, Counts
  <2>6. left' # 0
    BY <1>2, <2>1
  <2>7. AtReturn'
    BY <2>1, <2>5, <2>6, <1>1, <1>2 DEF AtReturn, AllMoved, NoneLeft
  <2>8. QED BY <2>1, <2>2, <2>3, <2>7, <1>1, KeptAtReturn
<1>5. QED BY <1>3, <1>4

(* A request of a loop is sent; an error is noticed on the way or later.   *)
LEMMA KeptBySendStep ==
  ASSUME AccessInv, SendStep
  PROVE  AccessInv'
<1> DEFINE e == IF Accepts THEN Ok ELSE IF link THEN "bus" ELSE "local"
           first == IF upos = 0 \/ err = Ok THEN e ELSE err
           w == Words(1)
<1>1. /\ pc = "send" /\ err' = first
      /\ Advance(1)
      /\ Accepts => moved' = moved \o w
      /\ ~Accepts => moved' = moved
      /\ \/ left > 1 /\ pc' = "send"
         \/ (left = 1 \/ first # Ok) /\ pc' = "drain"
      /\ UNCHANGED <<fd, call, cr, res>>
  BY DEF SendStep, file
<1>2. /\ Types /\ Going /\ Placed /\ res = Ok
      /\ call.way = "loop" /\ call.dir = "write"
      /\ upos \in Nat /\ left >= 1 /\ left = call.num - upos
      /\ call.num \in Nat /\ call \in CallRecords /\ cr \in Nat
      /\ moved \in Seq(Int \X Int) /\ upos < call.num
      /\ upos = 0 \/ err = Ok => moved = Items(call, upos)
  BY <1>1 DEF AccessInv, AtSend, Types, Going, Placed, CallRecords
<1>3. first = Ok => Accepts /\ (upos = 0 \/ err = Ok)
  OBVIOUS
<1> HIDE DEF first
<1>4. /\ addr' \in Int /\ upos' = upos + 1 /\ left' = left - 1 /\ Placed'
      /\ upos' \in Int /\ left' \in Int
  BY <1>1, <1>2, Advanced
<1>5. /\ w \in Seq(Int \X Int) /\ Len(w) = 1 /\ w[1][2] = upos
  <2>1. w = [i \in 1 .. 1 |-> Item(call, upos + (i - 1))]
        /\ w \in Seq(Int \X Int) /\ Len(w) = 1
    BY <1>2, WordsAre
  <2>2. w[1] = Item(call, upos)
    BY <2>1, <1>2
  <2>3. Item(call, upos)[2] = upos
    BY <1>2, ItemHere
  <2>4. QED BY <2>1, <2>2, <2>3
<1>6. first = Ok => moved' = Items(call, upos + 1)
  <2>1. SUFFICES ASSUME first = Ok
                 PROVE  moved \o w = Items(call, upos + 1)
    BY <1>1, <1>3
  <2>2. moved = Items(call, upos)
    BY <2>1, <1>2, <1>3
  <2>3. QED BY <2>2, <1>2, Appended
<1> HIDE DEF w
<1>7. moved' \in Seq(Int \X Int) /\ NeverBeyondRequest'
  <2>1. \A i \in 1 .. Len(moved) : moved[i][2] < call.num
    BY <1>2 DEF AccessInv, NeverBeyondRequest
  <2>2. CASE Accepts
    <3> DEFINE all == moved \o w
    <3>1. /\ all \in Seq(Int \X Int) /\ Len(all) = Len(moved) + Len(w)
          /\ \A i \in 1 .. Len(moved) + Len(w) :
               all[i] = IF i <= Len(moved) THEN moved[i] ELSE w[i - Len(moved)]
      BY <1>2, <1>5, Joined
    <3>2. moved' = all
      BY <1>1, <2>2
    <3> HIDE DEF all
    <3>3. Len(moved) \in Nat
      BY <1>2
    <3>4. ASSUME NEW i \in 1 .. Len(all)
          PROVE  all[i][2] < call.num
      <4>1. CASE i <= Len(moved)
        <5>1. i \in 1 .. Len(moved) /\ all[i] = moved[i]
          BY <4>1, <3>1, <3>3, <1>5
        <5>2. QED BY <5>1, <2>1
      <4>2. CASE ~(i <= Len(moved))
        <5>1. i - Len(moved) = 1
          BY <4>2, <3>1, <3>3, <1>5
        <5>2. all[i] = w[1]
          BY <5>1, <4>2, <3>1, <1>5
        <5>3. QED BY <5>2, <1>2, <1>5
      <4>3. QED BY <4>1, <4>2
    <3>5. NeverBeyondRequest'
      BY <3>2, <3>4, <1>1 DEF NeverBeyondRequest
    <3>6. QED BY <3>1, <3>2, <3>5
  <2>3. CASE ~Accepts
    BY <2>1, <2>3, <1>1, <1>2 DEF NeverBeyondRequest
  <2>4. QED BY <2>2, <2>3
<1>8. Types'
  BY <1>1, <1>2, <1>4, <1>7 DEF Types, FileOK
<1>9. call.api # "word"
  BY <1>1 DEF AccessInv, Busy
<1>10. CASE left > 1 /\ pc' = "send"
  <2>1. left' >= 1
    BY <1>10, <1>2, <1>4
  <2>2. upos' # 0
    BY <1>2, <1>4
  <2>3. AtSend'
    BY <2>1, <2>2, <1>1, <1>2, <1>4, <1>6 DEF AtSend, Going
  <2>4. /\ AtChunk' /\ AtCounter' /\ AtWord' /\ AtDrain' /\ AtPipe'
        /\ AtReturn'
    BY <1>10 DEF AtChunk, AtCounter, AtWord, AtDrain, AtPipe, AtReturn
  <2>5. QED BY <2>3, <2>4, <1>1, <1>7, <1>8, <1>9, <1>10, KeptInside
<1>11. CASE (left = 1 \/ first # Ok) /\ pc' = "drain"
  <2>1. first = Ok => moved' = Items(call, call.num)
    <3>1. left = 1 => upos + 1 = call.num
      BY <1>2
    <3>2. QED BY <3>1, <1>6, <1>11
  <2>2. call.num >= 1
    BY <1>2
  <2>3. AtDrain'
    BY <2>1, <2>2, <1>1, <1>2 DEF AtDrain
  <2>4. /\ AtChunk' /\ AtCounter' /\ AtWord' /\ AtSend' /\ AtPipe'
        /\ AtReturn'
    BY <1>11 DEF AtChunk, AtCounter, AtWord, AtSend, AtPipe, AtReturn
  <2>5. QED BY <2>3, <2>4, <1>1, <1>7, <1>8, <1>9, <1>11, KeptInside
<1>12. QED BY <1>1, <1>10, <1>11

LEMMA KeptByDrain ==
  ASSUME AccessInv, Drain
  PROVE  AccessInv'
<1>1. /\ pc = "drain" /\ pc' = "return"
      /\ err = Ok => left' = 0
      /\ err # Ok => left' = call.num
      /\ UNCHANGED <<fd, call, addr, upos, cr, moved, res, err>>
  BY DEF Drain, file, result
<1>2. /\ Types /\ call \in CallRecords /\ call.num \in Nat /\ call.num >= 1
      /\ call.dir = "write" /\ call.way = "loop" /\ res = Ok
      /\ err = Ok => moved = Items(call, call.num)
  BY <1>1 DEF AccessInv, AtDrain, Types, CallRecords
<1>3. NeverBeyondRequest'
  BY <1>1 DEF AccessInv, NeverBeyondRequest
<1>4. Types'
  BY <1>1, <1>2 DEF Types, FileOK
<1>5. CASE err = Ok
  <2>1. /\ moved' = Items(call, call.num) /\ left' = call.num - call.num
        /\ left' = 0
    BY <1>1, <1>2, <1>5
  <2>2. AtReturn'
    BY <2>1, <1>1, <1>2, Ended
  <2>3. QED BY <2>2, <1>1, <1>3, <1>4, KeptAtReturn
<1>6. CASE err # Ok
  <2>1. Counted' = 0
    BY <1>1, <1>2, <1>6 DEF Counted
  <2>2. Len(moved) \in Nat
    BY <1>2 DEF Types
  <2>3. CountHolds'
    BY <2>1, <2>2, <1>1, <1>2 DEF CountHolds
  <2>4. left' # 0 /\ err' # Ok
    BY <1>1, <1>2, <1>6
  <2>5. AtReturn'
    BY <2>3, <2>4, <1>1, <1>2 DEF AtReturn, AllMoved, NoneLeft
  <2>6. QED BY <2>5, <1>1, <1>3, <1>4, KeptAtReturn
<1>7. QED BY <1>5, <1>6

LEMMA KeptByPipeStep ==
  ASSUME AccessInv, PipeStep
  PROVE  AccessInv'
<1>1. PICK k \in 0 .. Reach(left) : moved' = moved \o Words(k)
  BY DEF PipeStep
<1>2. /\ pc = "pipe" /\ pc' = "return" /\ left' = 0
      /\ UNCHANGED <<fd, call, addr, upos, cr>>
  BY DEF PipeStep, file
<1>3. /\ Types /\ call.way = "pipe" /\ call.dir = "read"
      /\ Placed /\ left \in Nat /\ cr \in Nat
      /\ moved \in Seq(Int \X Int) /\ upos \in Nat
  BY <1>2 DEF AccessInv, AtPipe, PipeReads, Types, Going, Placed, CallRecords
<1>4. k \in Nat
  <2>1. Reach(left) \in 0 .. left
    BY <1>3, ReachBounds
  <2>2. QED BY <2>1, <1>3
<1> DEFINE w == Words(k)
<1>5. w \in Seq(Int \X Int)
  BY <1>3, <1>4, WordsAre
<1>6. moved' = moved \o w
  BY <1>1
<1> HIDE DEF w
<1>7. moved' \in Seq(Int \X Int)
  BY <1>3, <1>5, <1>6, Joined
<1>8. Types'
  BY <1>2, <1>3, <1>7 DEF Types, FileOK
<1>9. NeverBeyondRequest' /\ AtReturn'
  BY <1>2, <1>3 DEF NeverBeyondRequest, AtReturn
<1>10. QED BY <1>2, <1>8, <1>9, KeptAtReturn

(* What the program gets.                                                  *)
LEMMA KeptByAnswer ==
  ASSUME AccessInv, LibReturn \/ FileReturn
  PROVE  AccessInv'
<1>1. /\ pc = "return" /\ pc' = "idle"
      /\ addr' = 0 /\ upos' = 0 /\ left' = 0 /\ cr' = 0
      /\ UNCHANGED <<call, moved, res, err, cut>>
      /\ call.api \in {"lib", "file"}
  BY DEF LibReturn, FileReturn, Back, result, far
<1>2. FileOK(fd)'
  BY DEF AccessInv, Types, FileOK, FileFields, LibReturn, FileReturn, file
<1>3. Types'
  BY <1>1, <1>2 DEF AccessInv, Types
<1>4. CanWrite' /\ NeverBeyondRequest' /\ PipeReads'
  BY <1>1 DEF AccessInv, CanWrite, NeverBeyondRequest, PipeReads, Sound,
              Crosses
<1>5. /\ AtEnter' /\ AtChunk' /\ AtCounter' /\ AtWord' /\ AtSend'
      /\ AtDrain' /\ AtPipe' /\ AtReturn' /\ Busy'
  BY <1>1 DEF AtEnter, AtChunk, AtCounter, AtWord, AtSend, AtDrain, AtPipe,
              AtReturn, Busy
<1>6. CASE call.way \in {"none", "pipe"}
  BY <1>1, <1>3, <1>4, <1>5, <1>6 DEF AccessInv, SuccessIsComplete,
     CountIsMoved, Answered
<1>7. CASE call.way \notin {"none", "pipe"}
  <2>1. /\ res \in {Ok, "EIO"}
        /\ CountHolds /\ AllMoved /\ NoneLeft
        /\ call \in CallRecords /\ moved \in Seq(Int \X Int) /\ left \in Int
    BY <1>1, <1>7 DEF AccessInv, AtReturn, Types, CallRecords, Ways
  <2>2. call.num \in Nat /\ Counted = call.num - left
    BY <2>1 DEF CallRecords, Counted
  <2>3. /\ res = Ok => ret'.got = Counted
        /\ res # Ok => ret'.got = 0 /\ ret'.value # Ok
        /\ ret'.value = Ok /\ call.api = "lib" => err = Ok
    BY <2>1, <1>1 DEF LibReturn, FileReturn, BlockResult, Failed
  <2>4. SuccessIsComplete'
    <3>1. ASSUME call.api = "lib", ret'.value = Ok
          PROVE  /\ moved = Items(call, ret'.got)
                 /\ \/ ret'.got = call.num
                    \/ call.dir = "read" /\ call.way = "dma"
      <4>1. res = Ok /\ err = Ok /\ ret'.got = Counted
        BY <3>1, <2>1, <2>3
      <4>2. left = 0 => ret'.got = call.num
        BY <4>1, <2>2
      <4>3. QED BY <4>1, <4>2, <2>1 DEF AllMoved
    <3>2. ASSUME ret'.value = Ok, ret'.got = call.num, err # "sync", ~Guessed
          PROVE  moved = Items(call, call.num)
      <4>1. res = Ok /\ left = 0
        BY <3>2, <2>1, <2>2, <2>3
      <4>2. QED BY <4>1, <3>2, <2>1 DEF NoneLeft
    <3>3. /\ InOrder(call.num)' <=> moved = Items(call, call.num)
          /\ InOrder(ret.got)' <=> moved = Items(call, ret'.got)
      BY <1>1 DEF InOrder, Items, Item
    <3>4. Guessed' = Guessed
      BY <1>1 DEF Guessed
    <3>5. QED BY <3>1, <3>2, <3>3, <3>4, <1>1 DEF SuccessIsComplete
  <2>5. CountIsMoved'
    <3>1. Len(moved) \in Nat
      BY <2>1
    <3>2. ASSUME ~(call.dir = "read" /\ err = "sync"), ~Guessed
          PROVE  /\ ret'.got <= Len(moved)
                 /\ \A i \in 1 .. ret'.got : moved[i] = Item(call, i - 1)
                 /\ call.dir = "read" /\ res = Ok => ret'.got = Len(moved)
      <4>1. CASE res = Ok
        BY <4>1, <3>1, <3>2, <2>1, <2>3 DEF CountHolds
      <4>2. CASE res # Ok
        BY <4>2, <3>1, <2>3
      <4>3. QED BY <4>1, <4>2
    <3>3. Guessed' = Guessed
      BY <1>1 DEF Guessed
    <3>4. QED BY <3>2, <3>3, <1>1 DEF CountIsMoved, Item
  <2>6. QED BY <2>4, <2>5, <1>3, <1>4, <1>5 DEF AccessInv
<1>8. QED BY <1>6, <1>7

LEMMA KeptByStutter ==
  ASSUME AccessInv, UNCHANGED vars
  PROVE  AccessInv'
<1>1. UNCHANGED <<fd, pc, call, addr, upos, left, cr, moved, res, err, ret, cut>>
  BY DEF vars, file, place, result, far
<1>2. FileOK(fd)'
  BY <1>1 DEF AccessInv, Types
<1>3. QED BY <1>1, <1>2, KeptAside

(* Where a call is, what it has moved so far and what it has yet to tell   *)
(* fit together in every state, unless blocks reach the boundary of DMA.   *)
THEOREM AccessHolds ==
  ASSUME ~Crossing
  PROVE  Spec => []AccessInv
<1>1. Init => AccessInv
  BY KeptByInit
<1>2. AccessInv /\ [Next]_vars => AccessInv'
  <2> SUFFICES ASSUME AccessInv, [Next]_vars
               PROVE  AccessInv'
    OBVIOUS
  <2>1. CASE LinkLost \/ RemoteGone \/ RemoteBack \/ Seek
    BY <2>1, KeptByOutside
  <2>2. CASE Set
    BY <2>2, KeptBySet
  <2>3. CASE Look \/ WordCall \/ CamacFunction \/ ResetCall
    BY <2>3, KeptByWords
  <2>4. CASE BlockCall
    BY <2>4, KeptByBlockCall
  <2>5. CASE FileCall
    BY <2>5, KeptByFileCall
  <2>6. CASE Enter
    BY <2>6, KeptByEnter
  <2>7. CASE ReadChunk
    BY <2>7, KeptByReadChunk
  <2>8. CASE ReadChunkFails
    BY <2>8, KeptByReadChunkFails
  <2>9. CASE ReadChunkAborted
    BY <2>9, KeptByReadChunkAborted
  <2>10. CASE WriteChunk
    BY <2>10, KeptByWriteChunk
  <2>11. CASE WriteChunkFails
    BY <2>11, KeptByWriteChunkFails
  <2>12. CASE WordStep
    BY <2>12, KeptByWordStep
  <2>13. CASE SendStep
    BY <2>13, KeptBySendStep
  <2>14. CASE Drain
    BY <2>14, KeptByDrain
  <2>15. CASE PipeStep
    BY <2>15, KeptByPipeStep
  <2>16. CASE LibReturn \/ FileReturn
    BY <2>16, KeptByAnswer
  <2>17. CASE UNCHANGED vars
    BY <2>17, KeptByStutter
  <2>18. CASE ReadChunkShort
    BY <2>18, KeptByReadChunkShort
  <2>19. CASE WriteCounter
    BY <2>19, KeptByWriteCounter
  <2>20. QED
    BY <2>1, <2>2, <2>3, <2>4, <2>5, <2>6, <2>7, <2>8, <2>9, <2>10, <2>11,
       <2>12, <2>13, <2>14, <2>15, <2>16, <2>17, <2>18, <2>19
       DEF Next, Inside
<1>3. QED BY <1>1, <1>2, PTL DEF Spec

(* Of a block that the library answers with success just the words it      *)
(* counts have been moved, each from its address to its place, whatever    *)
(* way and chunks it took; only a read by DMA may count fewer than asked   *)
(* for.  The exemptions are those that SuccessIsComplete names.            *)
THEOREM SuccessMeansComplete ==
  ASSUME ~Crossing
  PROVE  Spec => []SuccessIsComplete
<1>1. AccessInv => SuccessIsComplete
  BY DEF AccessInv
<1>2. QED BY <1>1, AccessHolds, PTL

(* What a call counts has been moved, in order; exempt are aborted reads,  *)
(* pipes, and writes by DMA during which the link has been away.           *)
THEOREM CountMeansMoved ==
  ASSUME ~Crossing
  PROVE  Spec => []CountIsMoved
<1>1. AccessInv => CountIsMoved
  BY DEF AccessInv
<1>2. QED BY <1>1, AccessHolds, PTL

(* Unless a block reaches the boundary of DMA, no word is written that is  *)
(* not the user's: what run access_boundary shows is the only exception.   *)
THEOREM NoWriteBeyond ==
  ASSUME ~Crossing
  PROVE  Spec => []NeverBeyondRequest
<1>1. AccessInv => NeverBeyondRequest
  BY DEF AccessInv
<1>2. QED BY <1>1, AccessHolds, PTL
=============================================================================

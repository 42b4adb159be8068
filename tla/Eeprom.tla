------------------------------- MODULE Eeprom -------------------------------
(***************************************************************************)
(* Reading and writing the configuration EEPROM of the PCI card.  Commands *)
(* are shifted out bit by bit through the CNTRL register of the PLX chip;  *)
(* the chip (external) writes only while writing is enabled, and answers a *)
(* read with two words at once.                                            *)
(*                                                                         *)
(* Sources: sis1100_eeprom.c.  sem_hw is held during a call, so calls come *)
(* one after the other.  The clock and select lines and their delays are   *)
(* left out: a command is the number that has been shifted out between     *)
(* eeprom_start_cmd and eeprom_end_cmd.                                    *)
(***************************************************************************)
EXTENDS Integers, Sequences

CONSTANTS
  AddrLen,     (* sc->eeprom_addr_len; here also the width of u_int8_t     *)
  Words,       (* what a word of the EEPROM may be                         *)
  MaxWords     (* BOUND: words of one call                                 *)

(* The number of words of a call is a u_int8_t, too.                       *)
ASSUME EepromAssumption == /\ AddrLen \in Nat /\ AddrLen >= 2
                           /\ MaxWords \in 0 .. 2 ^ AddrLen - 1

(* Facts of arithmetic that the provers do not know.                       *)
ASSUME PowersOfTwo == /\ 2 ^ (AddrLen - 2) \in Nat \ {0}
                      /\ 2 ^ AddrLen = 4 * 2 ^ (AddrLen - 2)
                      /\ 2 ^ (AddrLen + 2) \in Nat \ {0}

VARIABLES
  mem,         (* contents of the EEPROM                                   *)
  wen,         (* the EEPROM accepts writing                               *)
  ecall,       (* the call that holds sem_hw: what, where, what is left    *)
  cache,       (* the last two words read, and from where                  *)
  before,      (* history: mem at the start of the call                    *)
  last,        (* history: the last call and its answer                    *)
  spoilt       (* history: a write failed, none has succeeded since        *)

eepromVars == <<mem, wen, ecall, cache, before, last, spoilt>>

Size == 2 ^ AddrLen
Addresses == 0 .. Size - 1
NoCall == [op |-> "none", step |-> "none", from |-> 0, addr |-> 0,
           todo |-> <<>>, got |-> <<>>, clean |-> TRUE]
NoCache == [addr |-> -1, words |-> <<>>]
NoAnswer == [call |-> [op |-> "none", from |-> 0, clean |-> TRUE],
             res |-> "none", data |-> <<>>]

EepromInit ==
  /\ mem \in [Addresses -> Words]
  /\ wen = FALSE
  /\ ecall = NoCall
  /\ cache = NoCache
  /\ before = mem
  /\ last = NoAnswer
  /\ spoilt = FALSE

-----------------------------------------------------------------------------
(* eeprom_put_bits: appends the low n bits of bits.                        *)
PutBits(sent, bits, n) == sent * 2 ^ n + (bits % 2 ^ n)

WriteEnable == PutBits(PutBits(0, 3, 4), 0, AddrLen - 2)
WriteDisable == PutBits(0, 0, AddrLen + 2)
WriteWord(addr) == PutBits(PutBits(0, 1, 2), addr, AddrLen)
ReadWord(addr) == PutBits(PutBits(0, 2, 2), addr, AddrLen)

(* What the chip makes of a command: two bits of operation, an address.    *)
Operation(sent) ==
  LET op == sent \div Size  a == sent % Size
  IN IF op = 1 THEN "write"
     ELSE IF op = 2 THEN "read"
     ELSE IF op = 0 /\ a \div 2 ^ (AddrLen - 2) = 3 THEN "enable"
     ELSE IF op = 0 /\ a \div 2 ^ (AddrLen - 2) = 0 THEN "disable"
     ELSE "other"

(* The chip takes a command, and a word to write with it.                  *)
ChipTakes(sent, word) ==
  /\ wen' = CASE Operation(sent) = "enable" -> TRUE
              [] Operation(sent) = "disable" -> FALSE
              [] OTHER -> wen
  /\ mem' = IF Operation(sent) = "write" /\ wen
            THEN [mem EXCEPT ![sent % Size] = word] ELSE mem

AnyWord == CHOOSE w \in Words : TRUE

-----------------------------------------------------------------------------
(* Known chips (PLX 9054 and 9056) have 8 address bits; else EIO.  Bad     *)
(* addresses of the user: EFAULT.  A read starts without cache.            *)
Call(op, addr, words) ==
  /\ ecall = NoCall
  /\ ecall' = [NoCall EXCEPT !.op = op, !.from = addr, !.addr = addr,
                             !.todo = words,
                             !.got = IF op = "write" THEN words ELSE <<>>,
                             !.step = IF op = "write" THEN "enable" ELSE "word"]
  /\ before' = mem
  /\ last' = NoAnswer
  /\ UNCHANGED <<mem, wen, cache, spoilt>>

Answer(res) ==
  /\ ecall' = NoCall
  /\ cache' = NoCache
  /\ last' = [call |-> [op |-> ecall.op, from |-> ecall.from,
                         clean |-> ecall.clean],
              res |-> res, data |-> ecall.got]
  /\ spoilt' = IF ecall.op = "write" THEN res # "ok" ELSE spoilt

EnableWrites ==
  /\ ecall.step = "enable"
  /\ ChipTakes(WriteEnable, AnyWord)
  /\ ecall' = [ecall EXCEPT !.step = "word"]
  /\ UNCHANGED <<cache, before, last, spoilt>>

(* addr++ of a u_int8_t.                                                   *)
NextAddress(addr) == (addr + 1) % Size

(* The next word of sis1100_write_eeprom_: eeprom_cmd_write_word ...       *)
WriteNext ==
  /\ ecall.op = "write" /\ ecall.step = "word" /\ ecall.todo # <<>>
  /\ ChipTakes(WriteWord(ecall.addr), Head(ecall.todo))
  /\ ecall' = [ecall EXCEPT !.step = "wait"]
  /\ UNCHANGED <<cache, before, last, spoilt>>

(* ... and eeprom_wait_prog, which may run out of time.                    *)
WaitProg ==
  /\ ecall.step = "wait"
  /\ \/ /\ ecall' = [ecall EXCEPT !.step = "word", !.todo = Tail(@),
                                  !.addr = NextAddress(@)]
        /\ UNCHANGED <<cache, last, spoilt>>
     \/ Answer("EIO")
  /\ UNCHANGED <<mem, wen, before>>

DisableWrites ==
  /\ ecall.op = "write" /\ ecall.step = "word" /\ ecall.todo = <<>>
  /\ ChipTakes(WriteDisable, AnyWord)
  /\ Answer("ok")
  /\ UNCHANGED before

-----------------------------------------------------------------------------
(* eeprom_cmd_read_word: two words, or EIO (which nobody looks at) and the *)
(* variable keeps what it had.                                             *)
Even(addr) == addr - (addr % 2)

(* Deviation: an odd word is always taken from the pair that was read.     *)
CachedIfOdd(addr) == addr % 2 = 1

Cached(addr) == cache.addr + 1 = addr /\ addr % 2 = 1

ReadPair(addr, good) ==
  [addr |-> Even(addr),
   words |-> IF good /\ Operation(ReadWord(Even(addr))) = "read"
             THEN <<mem[Even(addr)], mem[Even(addr) + 1]>> ELSE cache.words]

(* The next word of sis1100_read_eeprom_.                                  *)
ReadNext ==
  /\ ecall.op = "read" /\ ecall.todo # <<>>
  /\ \E good \in BOOLEAN :
       /\ Cached(ecall.addr) => good
       /\ cache' = IF Cached(ecall.addr) THEN cache
                                         ELSE ReadPair(ecall.addr, good)
       /\ ecall' = [ecall EXCEPT
            !.todo = Tail(@), !.addr = NextAddress(@),
            !.clean = @ /\ good,
            !.got = Append(@, IF cache'.words = <<>> THEN AnyWord
                              ELSE cache'.words[1 + (ecall.addr % 2)])]
  /\ UNCHANGED <<mem, wen, before, last, spoilt>>

ReadEnd ==
  /\ ecall.op = "read" /\ ecall.todo = <<>>
  /\ Answer("ok")
  /\ UNCHANGED <<mem, wen, before>>

EepromNext ==
  \/ \E addr \in Addresses, n \in 0 .. MaxWords :
       \E op \in {"read", "write"}, words \in [1 .. n -> Words] :
         Call(op, addr, words)
  \/ EnableWrites \/ WriteNext \/ WaitProg \/ DisableWrites
  \/ ReadNext \/ ReadEnd

EepromSpec == EepromInit /\ [][EepromNext]_eepromVars

-----------------------------------------------------------------------------
(* The place of the i-th word of a call.                                   *)
Place(call, i) == (call.from + i - 1) % Size

(* Between calls: writing is disabled again (unless a write has failed,    *)
(* see the hazard at eeprom.c line 236).  A write that reported success    *)
(* has written just its words, across the end of the EEPROM, too; a read   *)
(* returns what is there, with the pair of words it keeps, unless the chip *)
(* did not answer, which is not reported (hazard at eeprom.c line 265).    *)
EepromHonest ==
  ecall = NoCall =>
    /\ wen => spoilt
    /\ last.call.op = "write" /\ last.res = "ok" =>
         \A a \in Addresses :
           mem[a] = IF \E i \in 1 .. Len(last.data) : Place(last.call, i) = a
                    THEN last.data[CHOOSE i \in 1 .. Len(last.data) :
                                     Place(last.call, i) = a]
                    ELSE before[a]
    /\ last.call.op = "read" /\ last.call.clean =>
         \A i \in 1 .. Len(last.data) : last.data[i] = mem[Place(last.call, i)]
=============================================================================

----------------------------- MODULE BlockQueue -----------------------------
(***************************************************************************)
(* What demand DMA promises its user, without ring indices, interrupts or  *)
(* registers: every block is in exactly one place - free, the target of    *)
(* the bridge, in the queue of filled blocks, or held by the user - and    *)
(* filled blocks are delivered once each, in the order they were filled.   *)
(* DemandDma implements it (see there: Queue).                             *)
(***************************************************************************)
EXTENDS Naturals, Sequences

CONSTANTS Blocks,  (* the buffers                                          *)
          First,   (* the one a new run begins with                        *)
          None     (* no target                                            *)

VARIABLES target,  (* block the bridge is to fill                          *)
          queue,   (* filled blocks, oldest first                          *)
          held     (* blocks the user works on                             *)

vars == <<target, queue, held>>

Queued == {queue[i] : i \in DOMAIN queue}

Init == target = None /\ queue = <<>> /\ held = {}

(* A new run: whatever was filled before is forgotten. *)
Begin == target' = First /\ queue' = <<>> /\ held' = {}

(* The target is full. *)
Fill ==
  /\ target # None
  /\ queue' = Append(queue, target)
  /\ target' = None
  /\ UNCHANGED held

(* A free block becomes the target. *)
Aim ==
  /\ target = None
  /\ target' \in Blocks \ (Queued \union held)
  /\ UNCHANGED <<queue, held>>

(* The oldest filled block is given to the user ... *)
Hand ==
  /\ queue # <<>>
  /\ held' = held \union {Head(queue)}
  /\ queue' = Tail(queue)
  /\ UNCHANGED target

(* ... who gives back any block he has. *)
Return ==
  /\ \E b \in held : held' = held \ {b}
  /\ UNCHANGED <<target, queue>>

Next == Begin \/ Fill \/ Aim \/ Hand \/ Return

Spec == Init /\ [][Next]_vars
=============================================================================

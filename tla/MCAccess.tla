------------------------------ MODULE MCAccess ------------------------------
(* Instances of Access for TLC. *)
EXTENDS Access

Set1(c, x, y) == <<c, [NoArgument EXCEPT !.x = x, !.y = y]>>

(* Thresholds of DMA and pipe on and off, FIFO mode, word length, ...      *)
SomeArguments ==
  {Set1("MINDMALEN", 2, 2), Set1("MINDMALEN", 0, 0),
   Set1("MINPIPELEN", 3, -1), Set1("FIFOMODE", 1, -1),
   Set1("SETVMESPACE", 1, -1)}
BothKinds == {"vme", "lvd"}
SomeSubdevs == {"remote", "ram"}
=============================================================================

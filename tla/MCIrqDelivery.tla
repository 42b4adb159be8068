--------------------------- MODULE MCIrqDelivery ---------------------------
(* Instances of IrqDelivery: who opens which file, which masks are used.   *)
EXTENDS IrqDelivery, TLC

CONSTANTS f1, f2

TwoProcesses == f1 :> "p1" @@ f2 :> "p2"
OneProcess == f1 :> "p1"
EachOne == {{i} : i \in Irqs}
OnlyAll == {Irqs}
NoneOrAll == {{}, Irqs}
AllOrOne == EachOne \union {Irqs}
=============================================================================

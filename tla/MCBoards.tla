------------------------------ MODULE MCBoards ------------------------------
(* The three modules about single devices of the boards, one at a time:    *)
(* they have no variable in common.                                        *)
EXTENDS DmaMap, Eeprom, Crate, TLC

VARIABLE part      (* the module whose steps are taken                     *)

SomeMixes ==
  {{"front", "timeouts", "init"}, {"load", "read", "wr", "init"}}
  \union {{"ack", "disable", "handle"} \union irqs : irqs \in {Lams, Exts}}
  \union {{"ack", "handle", "relink"} \union Lams}
  \union {{"ack", "handle", CHOOSE l \in Lams : TRUE} \union Exts}

(* Each file of a process of its own, and all of one process.              *)
SomePids == {[u \in Users |-> u], [u \in Users |-> Thread]}

(* Neither files nor LAM lines are told apart.                             *)
Symmetry == Permutations(Users) \union Permutations(Lams)

others(p) ==
  /\ p # "map" => UNCHANGED mapVars
  /\ p # "eeprom" => UNCHANGED eepromVars
  /\ p # "crate" => UNCHANGED crateVars
  /\ UNCHANGED part

Init ==
  /\ part \in {"map", "eeprom", "crate"}
  /\ MapInit /\ EepromInit /\ CrateInit
  /\ part # "map" => owner = CHOOSE f \in MapFiles : TRUE
  /\ part # "eeprom" => mem = [a \in Addresses |-> AnyWord]
  /\ part # "crate" => mix = CHOOSE m \in Mixes : TRUE
  /\ "disable" \notin mix => pid = [u \in Users |-> u]
  /\ part # "crate" => pid = CHOOSE f \in Pids : TRUE

Next ==
  /\ \/ part = "map" /\ MapNext
     \/ part = "eeprom" /\ EepromNext
     \/ part = "crate" /\ CrateNext
  /\ others(part)

Spec == Init /\ [][Next]_<<mapVars, eepromVars, crateVars, part>>
=============================================================================

-------------------------- MODULE LifecycleProofs --------------------------
(***************************************************************************)
(* Proofs about Lifecycle, for any number of cards, units and minors.      *)
(***************************************************************************)
EXTENDS Lifecycle, SequenceTheorems, WellFoundedInduction, TLAPS

(* What each stage of the probe finds acquired: the order of the probe,    *)
(* read backwards.                                                         *)
StageRank(s) ==
  CASE s \in {"slot", "sc"} -> 0 [] s = "thread" -> 1 [] s = "enable" -> 2
    [] s = "regions" -> 3 [] s = "plx" -> 4 [] s = "reg" -> 5 [] s = "irq" -> 6
    [] s \in {"mask", "dmaspace"} -> 7 [] s = "init" -> 8 [] s = "cdev" -> 9
    [] s = "nodes" -> 10 [] s = "drvdata" -> 11

ProbeRank(r) ==
  CASE r = "sc" -> 1 [] r = "thread" -> 2 [] r = "enable" -> 3
    [] r = "regions" -> 4 [] r = "plx" -> 5 [] r = "reg" -> 6
    [] r = "irq" -> 7 [] r = "dmaspace" -> 8 [] r = "card" -> 9
    [] r = "cdev" -> 10 [] r = "nodes" -> 11 [] r = "drvdata" -> 12

(* The place of a resource in the exits, counted from their ends.          *)
ErrorRank(r) ==
  CASE r = "sc" -> 1 [] r = "thread" -> 2 [] r = "enable" -> 3
    [] r = "regions" -> 4 [] r = "reg" -> 5 [] r = "plx" -> 6
    [] r = "irq" -> 7 [] r = "dmaspace" -> 8 [] r = "card" -> 9
    [] r = "cdev" -> 10 [] OTHER -> 11

RemovalRank(r) ==
  CASE r = "drvdata" -> 1 [] r = "sc" -> 2 [] r = "thread" -> 3
    [] r = "enable" -> 4 [] r = "regions" -> 5 [] r = "reg" -> 6
    [] r = "plx" -> 7 [] r = "timer" -> 8 [] r = "irq" -> 9
    [] r = "dmaspace" -> 10 [] r = "card" -> 11 [] r = "cdev" -> 12
    [] OTHER -> 13

(* s is what is left of the exit L.                                        *)
LastOf(s, L) ==
  /\ Len(s) <= Len(L)
  /\ \A i \in 1 .. Len(s) : s[i] = L[Len(L) - Len(s) + i]

-----------------------------------------------------------------------------
(* The inductive invariant, one card at a time.                            *)
Probing(c) ==
  step[c] \in Stages =>
    /\ todo[c] = <<>>
    /\ \A r \in Resources : r \in held[c] <=> ProbeRank(r) <= StageRank(step[c])

Undoing(c) ==
  step[c] = "undo" =>
    /\ LastOf(todo[c], ErrorExits)
    /\ \A r \in Resources :
         /\ r \in held[c] => ErrorRank(r) <= Len(todo[c])
         /\ ErrorRank(r) <= Len(todo[c]) /\ r \notin {"plx", "reg"} =>
              r \in held[c]
    /\ "irq" \in held[c] => "plx" \in held[c] /\ "reg" \in held[c]
    /\ "card" \in held[c] => Late(c)

Removing(c) ==
  step[c] = "remove" =>
    /\ LastOf(todo[c], Removal)
    /\ \A r \in Resources : r \in held[c] <=> RemovalRank(r) <= Len(todo[c])

Resting(c) ==
  /\ step[c] \in {"unbound", "oops", "bound"} => todo[c] = <<>>
  /\ step[c] \in {"unbound", "oops"} => held[c] = {}
  /\ step[c] = "bound" => \/ held[c] = Resources
                          \/ held[c] = {} /\ failed[c] = "mask"

(* Before a card is initialised nothing stirs; and a timer is pending      *)
(* after that only until it is deleted.                                    *)
Before == {"thread", "enable", "regions", "plx", "reg", "irq", "mask",
           "dmaspace", "init"}

Silent(c) ==
  step[c] \in Before =>
    c \notin timer /\ c \notin command /\ thread[c] \notin {"test", "work"}

TimerKnown(c) ==
  c \in timer => \/ Late(c)
                 \/ "card" \in held[c]
                 \/ step[c] = "remove" /\ Len(todo[c]) >= RemovalRank("timer")

ThreadHeld(c) == thread[c] \notin {"none", "gone"} => "thread" \in held[c]

Opened(c) ==
  \A m \in Minors :
    <<c, m>> \in files =>
      /\ step[c] \notin Before \union {"slot", "sc", "cdev"}
      /\ Late(c) \/ Working \subseteq held[c]

(* The unit of a card is its own from the moment it is stored to the       *)
(* moment sc is freed.                                                     *)
Housed(c) ==
  /\ "sc" \in held[c] => devdata[unit[c]] = c
  /\ \A u \in Units : devdata[u] = c => "sc" \in held[c] /\ u = unit[c]
  /\ step[c] = "sc" => devdata[unit[c]] = NoCard

Order(c) == Probing(c) /\ Undoing(c) /\ Removing(c) /\ Resting(c)
Users(c) == Silent(c) /\ TimerKnown(c) /\ ThreadHeld(c)
CardInv(c) == Order(c) /\ Users(c) /\ Opened(c) /\ Housed(c)

(* One card at a time, and only while the module is there.                 *)
Still(c) == step[c] \in {"unbound", "bound", "oops"}

OneAtATime ==
  /\ \A c, d \in Cards : c = d \/ Still(c) \/ Still(d)
  /\ \A c \in Cards : step[c] = "remove" => module = "unloading"
  /\ \A c \in Cards : ~Still(c) /\ step[c] # "remove" => module = "in"
  /\ module = "unloading" => files = {}

(* A node belongs to a card that has made all of its own, or was left by a *)
(* failing device_create.                                                  *)
NodesOwned ==
  /\ litter \subseteq nodes
  /\ \A u \in nodes \ litter : \E c \in Cards : "nodes" \in held[c] /\ unit[c] = u
  /\ \A c \in Cards : "nodes" \in held[c] => unit[c] \in nodes \ litter

IInv ==
  /\ TypeOK
  /\ OneAtATime
  /\ NodesOwned
  /\ \A c \in Cards : CardInv(c)

-----------------------------------------------------------------------------
(* Lemmas about the operators.                                             *)
LEMMA ExitsTyped ==
  /\ ErrorExits \in Seq(Resources) /\ Len(ErrorExits) = 10
  /\ \A i \in 1 .. 10 : ErrorExits[i] \in Resources
  /\ Removal \in Seq(Resources \union {"timer"}) /\ Len(Removal) = 13
BY DEF ErrorExits, Removal, Resources

LEMMA ErrorExitsRanked == \A i \in 1 .. 10 : ErrorRank(ErrorExits[i]) = 11 - i
BY DEF ErrorExits, ErrorRank

LEMMA RemovalRanked == \A i \in 1 .. 13 : RemovalRank(Removal[i]) = 14 - i
BY DEF Removal, RemovalRank

(* What is left of an exit when its first resource is released.            *)
LEMMA LastOfTail ==
  ASSUME NEW S, NEW L \in Seq(S), NEW s \in Seq(S), s # <<>>, LastOf(s, L)
  PROVE  /\ LastOf(Tail(s), L)
         /\ Tail(s) \in Seq(S)
         /\ Len(Tail(s)) = Len(s) - 1
         /\ Len(s) \in 1 .. Len(L)
         /\ Head(s) = L[Len(L) - Len(s) + 1]
BY HeadTailProperties DEF LastOf

Failing == {"thread", "enable", "regions", "plx", "reg", "irq", "mask",
            "dmaspace", "init", "cdev", "nodes"}

(* The exit that the failure of stage s begins.                            *)
LEMMA ExitOfStage ==
  ASSUME NEW s \in Failing
  PROVE  /\ FromLabel(ErrorLabel(s)) \in Seq(Resources)
         /\ LastOf(FromLabel(ErrorLabel(s)), ErrorExits)
         /\ Len(FromLabel(ErrorLabel(s))) = ErrorRank(ErrorLabel(s))
<1> DEFINE r == ErrorLabel(s)
           k == CHOOSE i \in 1 .. Len(ErrorExits) : ErrorExits[i] = r
           e == SubSeq(ErrorExits, k, Len(ErrorExits))
<1>1. \E i \in 1 .. 10 : ErrorExits[i] = r
  <2>1. r \in {"cdev", "card", "dmaspace", "irq", "plx", "reg", "regions",
              "enable", "thread", "sc"}
    BY DEF ErrorLabel, Failing
  <2> HIDE DEF r
  <2> QED BY <2>1 DEF ErrorExits
<1>2. k \in 1 .. 10 /\ ErrorExits[k] = r
  BY <1>1, ExitsTyped
<1>3. ErrorRank(r) = 11 - k
  <2> HIDE DEF k, r
  <2>1. ErrorRank(ErrorExits[k]) = 11 - k
    BY <1>2, ErrorExitsRanked
  <2> QED BY <1>2, <2>1
<1>4. /\ e \in Seq(Resources)
      /\ Len(e) = 11 - k
      /\ \A i \in 1 .. Len(e) : e[i] = ErrorExits[k + i - 1]
  <2> HIDE DEF k
  <2>1. \A i \in k .. 10 : ErrorExits[i] \in Resources
    BY <1>2, ExitsTyped
  <2>2. e = SubSeq(ErrorExits, k, 10)
    BY ExitsTyped
  <2>3. /\ SubSeq(ErrorExits, k, 10) \in Seq(Resources)
        /\ Len(SubSeq(ErrorExits, k, 10)) = IF k <= 10 THEN 10 - k + 1 ELSE 0
        /\ \A i \in 1 .. 10 - k + 1 :
             SubSeq(ErrorExits, k, 10)[i] = ErrorExits[k + i - 1]
    BY <1>2, <2>1, SubSeqProperties
  <2> HIDE DEF e
  <2> QED BY <1>2, <2>2, <2>3
<1>5. FromLabel(ErrorLabel(s)) = e
  BY DEF FromLabel
<1> HIDE DEF e, k
<1>6. LastOf(e, ErrorExits)
  BY <1>2, <1>4, ExitsTyped DEF LastOf
<1>7. Len(e) = ErrorRank(ErrorLabel(s))
  BY <1>3, <1>4
<1> QED BY <1>4, <1>5, <1>6, <1>7

(* There is a first free unit when there is a free one.                    *)
LEMMA FirstUnit ==
  ASSUME TypeOK, \E u \in Units : devdata[u] = NoCard
  PROVE  \E u \in Units : /\ devdata[u] = NoCard
                         /\ \A v \in 0 .. u - 1 : devdata[v] # NoCard
<1> DEFINE T == {u \in Units : devdata[u] = NoCard}
<1>1. T \subseteq Nat /\ T # {}
  BY MaxCardsAssumption DEF Units
<1>2. PICK u \in T : \A v \in T : ~(<<v, u>> \in OpToRel(<, Nat))
  BY <1>1, NatLessThanWellFounded, WFMin
<1>3. \A v \in T : ~(v < u)
  BY <1>1, <1>2 DEF OpToRel
<1>4. \A v \in 0 .. u - 1 : v \in Units
  BY MaxCardsAssumption DEF Units
<1> QED BY <1>3, <1>4, MaxCardsAssumption DEF Units

-----------------------------------------------------------------------------
LEMMA TypeInit == Init => TypeOK
BY MaxCardsAssumption DEF Init, TypeOK, Units

LEMMA TypeInductive == TypeOK /\ [Next]_vars => TypeOK'
<1> SUFFICES ASSUME TypeOK, [Next]_vars PROVE TypeOK'
  OBVIOUS
<1> USE DEF TypeOK, units, entries, progress, running, stops, registry
<1>1. CASE LoadStart \/ Register \/ LoadFail \/ UnloadStart \/ UnloadEnd
  <2>1. CASE Register
    BY <2>1 DEF Register, ModuleOrder
  <2> QED BY <1>1, <2>1 DEF LoadStart, LoadFail, UnloadStart, UnloadEnd
<1>2. ASSUME NEW c \in Cards,
             ProbeStart(c) \/ RemoveStart(c) \/ Interrupt(c) \/ LinkUpHandler(c)
      PROVE  TypeOK'
  <2>1. CASE ProbeStart(c)
    BY <2>1 DEF ProbeStart, Goto, Stages
  <2>2. CASE RemoveStart(c)
    <3>1. CASE "drvdata" \in held[c]
      <4>1. /\ step' = [step EXCEPT ![c] = "remove"]
            /\ todo' = [todo EXCEPT ![c] = Removal]
            /\ UNCHANGED <<registry, units, held, failed, files, running>>
        BY <2>2, <3>1 DEF RemoveStart, Goto
      <4> QED BY <4>1, ExitsTyped
    <3>2. CASE "drvdata" \notin held[c]
      BY <2>2, <3>2 DEF RemoveStart, Goto
    <3> QED BY <3>1, <3>2
  <2>3. CASE Interrupt(c)
    BY <2>3 DEF Interrupt, Woken
  <2>4. CASE LinkUpHandler(c)
    BY <2>4 DEF LinkUpHandler, Woken
  <2> QED BY <1>2, <2>1, <2>2, <2>3, <2>4
<1>3. ASSUME NEW c \in Cards, Thread(c) PROVE TypeOK'
  BY <1>3 DEF Thread, ThreadBegin, ThreadPrepare, ThreadSchedule, ThreadTest,
              ThreadWork, Step
<1>4. ASSUME NEW c \in Cards, NEW m \in Minors, Open(c, m) \/ Close(c, m)
      PROVE  TypeOK'
  <2>1. files' \subseteq Cards \X Minors
    BY <1>4 DEF Open, Close
  <2>2. UNCHANGED <<registry, units, progress, running>>
    BY <1>4 DEF Open, Close
  <2> QED BY <2>1, <2>2
<1>5. ASSUME NEW c \in Cards, Probe(c) PROVE TypeOK'
  <2>1. CASE FindUnit(c)
    <3>1. unit' \in [Cards -> Units]
      <4>1. CASE \E u \in Units : devdata[u] = NoCard
        <5> DEFINE F(u) == devdata[u] = NoCard
                           /\ \A v \in 0 .. u - 1 : devdata[v] # NoCard
        <5>1. (CHOOSE u \in Units : F(u)) \in Units
          BY <4>1, FirstUnit
        <5>2. unit' = [unit EXCEPT ![c] = CHOOSE u \in Units : F(u)]
          BY <2>1, <4>1 DEF FindUnit
        <5> HIDE DEF F
        <5> QED BY <5>1, <5>2
      <4>2. CASE ~ \E u \in Units : devdata[u] = NoCard
        BY <2>1, <4>2 DEF FindUnit
      <4> QED BY <4>1, <4>2
    <3>2. /\ step' = [step EXCEPT ![c] = "sc"] \/ step' = [step EXCEPT ![c] = "unbound"]
          /\ UNCHANGED <<registry, devdata, entries, held, todo, failed, files,
                         running>>
      BY <2>1 DEF FindUnit, Goto
    <3>3. step' \in [Cards -> Stages \union {"unbound", "bound", "undo",
                                             "remove", "oops"}]
      BY <3>2 DEF Stages
    <3> QED BY <3>1, <3>2, <3>3
  <2>2. CASE AllocSc(c)
    <3>1. /\ step' = [step EXCEPT ![c] = "thread"] \/ step' = [step EXCEPT ![c] = "unbound"]
          /\ held' = [held EXCEPT ![c] = @ \union {"sc"}] \/ held' = held
      BY <2>2 DEF AllocSc, Acquire, Goto, Following
    <3>2. /\ devdata' = [devdata EXCEPT ![unit[c]] = c] \/ devdata' = devdata
          /\ failed' = [failed EXCEPT ![c] = "none"] \/ failed' = failed
          /\ timer' \subseteq timer /\ command' \subseteq command
          /\ UNCHANGED <<registry, entries, unit, todo, files, thread, stops>>
      BY <2>2 DEF AllocSc
    <3>3. step' \in [Cards -> Stages \union {"unbound", "bound", "undo",
                                             "remove", "oops"}]
      BY <3>1 DEF Stages
    <3>5. held' \in [Cards -> SUBSET Resources]
      <4>1. "sc" \in Resources
        BY DEF Resources
      <4>2. held[c] \union {"sc"} \in SUBSET Resources
        BY <4>1
      <4> QED BY <3>1, <4>2
    <3>4. /\ devdata' \in [Units -> Cards \union {NoCard}]
          /\ failed' \in [Cards -> Stages \union {"none"}]
      <4>1. /\ devdata \in [Units -> Cards \union {NoCard}]
            /\ failed \in [Cards -> Stages \union {"none"}]
            /\ "none" \in Stages \union {"none"}
        OBVIOUS
      <4>2. /\ devdata' = [devdata EXCEPT ![unit[c]] = c] \/ devdata' = devdata
            /\ failed' = [failed EXCEPT ![c] = "none"] \/ failed' = failed
        BY <3>2
      <4> HIDE DEF units, entries, progress, running, stops, registry, TypeOK
      <4> QED BY <4>1, <4>2
    <3>6. /\ nodes' = nodes /\ litter' = litter /\ unit' = unit
          /\ module' = module /\ global' = global
          /\ todo' = todo /\ files' = files /\ thread' = thread
          /\ stopping' = stopping /\ unheard' = unheard
          /\ timer' \subseteq timer /\ command' \subseteq command
      BY <3>2
    <3> HIDE DEF units, entries, progress, running, stops, registry
    <3> QED BY <3>3, <3>4, <3>5, <3>6
  <2>3. CASE StartThread(c)
    BY <2>3 DEF StartThread, Acquire, Goto, Following, Stages, Resources
  <2>4. CASE AcquirePart(c)
    BY <2>4 DEF AcquirePart, Acquire, Goto, Following, Stages, Resources
  <2>5. CASE SetMask(c)
    BY <2>5 DEF SetMask, Goto, Stages
  <2>10. CASE Bind(c)
    BY <2>10 DEF Bind, Goto, Resources
  <2>6. ASSUME NEW s \in Failing, Fail(c, s)
        PROVE  /\ step' \in [Cards -> Stages \union {"unbound", "bound", "undo",
                                                    "remove", "oops"}]
               /\ todo' \in [Cards -> Seq(Resources \union {"timer"})]
               /\ failed' \in [Cards -> Stages \union {"none"}]
               /\ held' = held
    <3>1. FromLabel(ErrorLabel(s)) \in Seq(Resources \union {"timer"})
      BY ExitOfStage
    <3>2. s \in Stages
      BY DEF Failing, Stages
    <3> HIDE DEF units, progress, running, stops, registry
    <3> QED BY <2>6, <3>1, <3>2 DEF Fail, Goto
  <2>7. CASE InitCard(c)
    <3>1. CASE Acquire(c, "card") /\ UNCHANGED <<todo, failed>>
      BY <2>7, <3>1 DEF InitCard, Acquire, Goto, Following, Stages, Resources
    <3>2. CASE Fail(c, "init")
      BY <2>6, <2>7, <3>2 DEF InitCard, Failing
    <3> QED BY <2>7, <3>1, <3>2 DEF InitCard
  <2>8. CASE CreateNodes(c)
    <3>1. CASE Acquire(c, "nodes") /\ UNCHANGED <<litter, todo, failed>>
      BY <2>8, <3>1 DEF CreateNodes, Acquire, Goto, Following, Stages, Resources
    <3>2. CASE Fail(c, "nodes")
      BY <2>6, <2>8, <3>2 DEF CreateNodes, Failing
    <3> QED BY <2>8, <3>1, <3>2 DEF CreateNodes
  <2>9. CASE ProbeFail(c)
    <3>1. step[c] \in Failing /\ Fail(c, step[c])
      BY <2>9 DEF ProbeFail, Failing, Stages
    <3> QED BY <2>6, <2>9, <3>1 DEF ProbeFail
  <2> QED BY <1>5, <2>1, <2>2, <2>3, <2>4, <2>5, <2>7, <2>8, <2>9,
            <2>10 DEF Probe
<1>6. ASSUME NEW c \in Cards, Undo(c) PROVE TypeOK'
  <2>1. ASSUME todo[c] # <<>>, Drop(c)
        PROVE  /\ step' = step /\ failed' = failed
               /\ held' \in [Cards -> SUBSET Resources]
               /\ todo' \in [Cards -> Seq(Resources \union {"timer"})]
    <3>1. Tail(todo[c]) \in Seq(Resources \union {"timer"})
      BY <2>1, HeadTailProperties
    <3> QED BY <2>1, <3>1 DEF Drop
  <2>2. CASE Release(c)
    BY <2>1, <2>2 DEF Release, Releasing
  <2>3. CASE DestroyNodes(c)
    BY <2>1, <2>3 DEF DestroyNodes, Releasing
  <2>4. CASE DeleteTimer(c)
    BY <2>1, <2>4 DEF DeleteTimer, Releasing
  <2>5. CASE StopThread(c)
    BY <2>5 DEF StopThread, Woken
  <2>6. CASE ThreadStopped(c)
    BY <2>1, <2>6 DEF ThreadStopped, Releasing
  <2>7. CASE FreeSc(c)
    BY <2>1, <2>7 DEF FreeSc, Releasing
  <2>8. CASE ReleaseEnd(c)
    BY <2>8 DEF ReleaseEnd, Goto
  <2> QED BY <1>6, <2>2, <2>3, <2>4, <2>5, <2>6, <2>7, <2>8 DEF Undo
<1>7. CASE UNCHANGED vars
  BY <1>7 DEF vars
<1> QED BY <1>1, <1>2, <1>3, <1>4, <1>5, <1>6, <1>7 DEF Next

-----------------------------------------------------------------------------
(* A step of one card leaves the state of another alone.                   *)
Same(d) ==
  /\ step'[d] = step[d] /\ held'[d] = held[d] /\ todo'[d] = todo[d]
  /\ failed'[d] = failed[d] /\ thread'[d] = thread[d] /\ unit'[d] = unit[d]
  /\ d \in timer' <=> d \in timer
  /\ d \in command' <=> d \in command
  /\ \A m \in Minors : <<d, m>> \in files' <=> <<d, m>> \in files
  /\ \A u \in Units : devdata'[u] = d <=> devdata[u] = d
  /\ step[d] = "sc" => devdata'[unit[d]] = devdata[unit[d]]

LEMMA SameKeeps ==
  ASSUME TypeOK, NEW d \in Cards, CardInv(d), Same(d)
  PROVE  CardInv(d)'
<1>1. unit[d] \in Units
  BY DEF TypeOK
<1>2. Order(d)'
  BY DEF CardInv, Order, Same, Probing, Undoing, Removing, Resting, Late
<1>3. Users(d)'
  BY DEF CardInv, Users, Same, Silent, TimerKnown, ThreadHeld, Late
<1>4. Opened(d)'
  BY DEF CardInv, Opened, Same, Late
<1>5. Housed(d)'
  BY <1>1 DEF CardInv, Housed, Same
<1> QED BY <1>2, <1>3, <1>4, <1>5 DEF CardInv

(* An exit releases its resources in its order.                            *)
LEMMA HeadOfExit ==
  ASSUME TypeOK, NEW c \in Cards, CardInv(c), todo[c] # <<>>
  PROVE  /\ step[c] \in {"undo", "remove"}
         /\ Len(todo[c]) \in Nat \ {0}
         /\ Len(Tail(todo[c])) = Len(todo[c]) - 1
         /\ step[c] = "undo" =>
              /\ LastOf(Tail(todo[c]), ErrorExits)
              /\ Head(todo[c]) \in Resources
              /\ ErrorRank(Head(todo[c])) = Len(todo[c])
         /\ step[c] = "remove" =>
              /\ LastOf(Tail(todo[c]), Removal)
              /\ Head(todo[c]) \in Resources \union {"timer"}
              /\ RemovalRank(Head(todo[c])) = Len(todo[c])
<1> DEFINE S == Resources \union {"timer"}
<1>1. todo[c] \in Seq(S)
  BY DEF TypeOK
<1>2. step[c] \in {"undo", "remove"}
  BY DEF TypeOK, CardInv, Order, Probing, Resting
<1>3. Len(todo[c]) \in Nat \ {0} /\ Len(Tail(todo[c])) = Len(todo[c]) - 1
  BY <1>1, HeadTailProperties
<1>4. ASSUME step[c] = "undo"
      PROVE  /\ LastOf(Tail(todo[c]), ErrorExits)
             /\ Head(todo[c]) \in Resources
             /\ ErrorRank(Head(todo[c])) = Len(todo[c])
  <2>1. LastOf(todo[c], ErrorExits) /\ ErrorExits \in Seq(S)
    BY <1>4, ExitsTyped DEF CardInv, Order, Undoing
  <2>2. /\ LastOf(Tail(todo[c]), ErrorExits)
        /\ Len(todo[c]) \in 1 .. Len(ErrorExits)
        /\ Head(todo[c]) = ErrorExits[Len(ErrorExits) - Len(todo[c]) + 1]
    BY <1>1, <2>1, LastOfTail
  <2>3. PICK k \in 1 .. 10 : k = 11 - Len(todo[c]) /\ Head(todo[c]) = ErrorExits[k]
    <3>1. Len(ErrorExits) = 10
      BY ExitsTyped
    <3>2. Len(todo[c]) \in 1 .. 10 /\ Head(todo[c]) = ErrorExits[11 - Len(todo[c])]
      BY <2>2, <3>1
    <3>3. 11 - Len(todo[c]) \in 1 .. 10
      <4>1. \A n \in 1 .. 10 : 11 - n \in 1 .. 10
        OBVIOUS
      <4> QED BY <3>2, <4>1, Zenon
    <3> WITNESS 11 - Len(todo[c]) \in 1 .. 10
    <3> QED BY <3>2
  <2>4. ErrorExits[k] \in Resources /\ ErrorRank(ErrorExits[k]) = 11 - k
    BY ExitsTyped, ErrorExitsRanked
  <2>5. ErrorRank(Head(todo[c])) = Len(todo[c])
    BY <2>3, <2>4, <1>3
  <2> QED BY <2>2, <2>3, <2>4, <2>5
<1>5. ASSUME step[c] = "remove"
      PROVE  /\ LastOf(Tail(todo[c]), Removal)
             /\ Head(todo[c]) \in Resources \union {"timer"}
             /\ RemovalRank(Head(todo[c])) = Len(todo[c])
  <2>1. LastOf(todo[c], Removal) /\ Removal \in Seq(S)
    BY <1>5, ExitsTyped DEF CardInv, Order, Removing
  <2>2. /\ LastOf(Tail(todo[c]), Removal)
        /\ Len(todo[c]) \in 1 .. Len(Removal)
        /\ Head(todo[c]) = Removal[Len(Removal) - Len(todo[c]) + 1]
    BY <1>1, <2>1, LastOfTail
  <2>3. PICK k \in 1 .. 13 : k = 14 - Len(todo[c]) /\ Head(todo[c]) = Removal[k]
    <3>1. Len(Removal) = 13
      BY ExitsTyped
    <3>2. Len(todo[c]) \in 1 .. 13 /\ Head(todo[c]) = Removal[14 - Len(todo[c])]
      BY <2>2, <3>1
    <3>3. 14 - Len(todo[c]) \in 1 .. 13
      <4>1. \A n \in 1 .. 13 : 14 - n \in 1 .. 13
        OBVIOUS
      <4> QED BY <3>2, <4>1, Zenon
    <3> WITNESS 14 - Len(todo[c]) \in 1 .. 13
    <3> QED BY <3>2
  <2>4. Head(todo[c]) \in Resources \union {"timer"}
    BY <1>1, HeadTailProperties
  <2>5. RemovalRank(Removal[k]) = 14 - k
    BY RemovalRanked
  <2>6. RemovalRank(Head(todo[c])) = Len(todo[c])
    BY <2>3, <2>5, <1>3
  <2> QED BY <2>2, <2>4, <2>6
<1> QED BY <1>2, <1>3, <1>4, <1>5

(* All steps but those of the module as a whole.                           *)
CardStep(c) ==
  \/ ProbeStart(c) \/ RemoveStart(c) \/ Probe(c) \/ Undo(c)
  \/ Interrupt(c) \/ LinkUpHandler(c) \/ Thread(c)
  \/ \E m \in Minors : Open(c, m) \/ Close(c, m)

LEMMA OthersSame ==
  ASSUME TypeOK, OneAtATime, NEW c \in Cards, CardInv(c), CardStep(c),
         NEW d \in Cards, d # c
  PROVE  Same(d)
<1> USE DEF TypeOK, units, progress, running, stops
<1>1. CASE ProbeStart(c) \/ RemoveStart(c)
  BY <1>1 DEF ProbeStart, RemoveStart, Goto, Same
<1>2. CASE Interrupt(c) \/ LinkUpHandler(c)
  BY <1>2 DEF Interrupt, LinkUpHandler, Woken, Same
<1>3. CASE Thread(c)
  BY <1>3 DEF Thread, ThreadBegin, ThreadPrepare, ThreadSchedule, ThreadTest,
              ThreadWork, Step, Same
<1>4. ASSUME NEW m \in Minors, Open(c, m) \/ Close(c, m) PROVE Same(d)
  BY <1>4 DEF Open, Close, Same
<1>5. CASE Probe(c)
  <2>1. CASE FindUnit(c)
    BY <2>1 DEF FindUnit, Goto, Same
  <2>2. CASE AllocSc(c)
    <3>1. step[d] # "sc" /\ devdata[unit[c]] = NoCard
      BY <2>2 DEF AllocSc, OneAtATime, Still, CardInv, Housed
    <3>2. \A u \in Units : devdata'[u] = d <=> devdata[u] = d
      BY <2>2, <3>1, CardsAssumption DEF AllocSc
    <3>3. /\ step'[d] = step[d] /\ held'[d] = held[d] /\ failed'[d] = failed[d]
          /\ d \in timer' <=> d \in timer
          /\ d \in command' <=> d \in command
          /\ UNCHANGED <<registry, entries, unit, todo, files, thread, stops>>
      BY <2>2 DEF AllocSc, Acquire, Goto
    <3> QED BY <3>1, <3>2, <3>3 DEF Same
  <2>3. CASE StartThread(c)
    BY <2>3 DEF StartThread, Acquire, Goto, Same
  <2>4. CASE AcquirePart(c)
    BY <2>4 DEF AcquirePart, Acquire, Goto, Same
  <2>5. CASE SetMask(c) \/ Bind(c)
    BY <2>5 DEF SetMask, Bind, Goto, Same
  <2>6. ASSUME NEW s, (Acquire(c, s) /\ UNCHANGED <<todo, failed>>) \/ Fail(c, s)
        PROVE  /\ step'[d] = step[d] /\ held'[d] = held[d]
               /\ todo'[d] = todo[d] /\ failed'[d] = failed[d]
    BY <2>6 DEF Acquire, Fail, Goto
  <2>7. CASE InitCard(c) \/ CreateNodes(c) \/ ProbeFail(c)
    <3>1. /\ step'[d] = step[d] /\ held'[d] = held[d]
          /\ todo'[d] = todo[d] /\ failed'[d] = failed[d]
      <4>1. CASE InitCard(c)
        <5>1. \/ Acquire(c, "card") /\ UNCHANGED <<todo, failed>>
              \/ Fail(c, "init")
          BY <4>1 DEF InitCard
        <5> QED BY <2>6, <5>1
      <4>2. CASE CreateNodes(c)
        BY <2>6, <4>2 DEF CreateNodes
      <4>3. CASE ProbeFail(c)
        BY <2>6, <4>3 DEF ProbeFail
      <4> QED BY <2>7, <4>1, <4>2, <4>3
    <3>2. UNCHANGED <<registry, devdata, unit, files, running>>
      BY <2>7 DEF InitCard, CreateNodes, ProbeFail
    <3> QED BY <3>1, <3>2 DEF Same
  <2> QED BY <1>5, <2>1, <2>2, <2>3, <2>4, <2>5, <2>7 DEF Probe
<1>6. CASE Undo(c)
  <2>1. ASSUME Drop(c)
        PROVE  /\ step' = step /\ failed' = failed
               /\ held'[d] = held[d] /\ todo'[d] = todo[d]
    BY <2>1 DEF Drop
  <2>2. CASE Release(c) \/ DestroyNodes(c)
    BY <2>1, <2>2 DEF Release, DestroyNodes, Same
  <2>3. CASE DeleteTimer(c) \/ ThreadStopped(c)
    BY <2>1, <2>3 DEF DeleteTimer, ThreadStopped, Same
  <2>4. CASE StopThread(c)
    BY <2>4 DEF StopThread, Woken, Same
  <2>5. CASE FreeSc(c)
    <3>1. step[d] # "sc" /\ devdata[unit[c]] = c
      <4>1. todo[c] # <<>> /\ Head(todo[c]) = "sc"
        BY <2>5 DEF FreeSc, Releasing
      <4>2. step[c] \in {"undo", "remove"}
        BY <4>1, HeadOfExit
      <4>3. "sc" \in held[c]
        <5>1. CASE step[c] = "undo"
          <6>1. ErrorRank("sc") = Len(todo[c]) /\ ErrorRank("sc") = 1
            BY <4>1, <5>1, HeadOfExit DEF ErrorRank
          <6> QED BY <5>1, <6>1 DEF CardInv, Order, Undoing, Resources
        <5>2. CASE step[c] = "remove"
          <6>1. RemovalRank("sc") = Len(todo[c]) /\ RemovalRank("sc") = 2
            BY <4>1, <5>2, HeadOfExit DEF RemovalRank
          <6> QED BY <5>2, <6>1 DEF CardInv, Order, Removing, Resources
        <5> QED BY <4>2, <5>1, <5>2
      <4> QED BY <4>2, <4>3 DEF OneAtATime, Still, CardInv, Housed
    <3>2. \A u \in Units : devdata'[u] = d <=> devdata[u] = d
      BY <2>5, <3>1, CardsAssumption DEF FreeSc
    <3> QED BY <2>1, <2>5, <3>1, <3>2 DEF FreeSc, Same
  <2>6. CASE ReleaseEnd(c)
    BY <2>6 DEF ReleaseEnd, Goto, Same
  <2> QED BY <1>6, <2>2, <2>3, <2>4, <2>5, <2>6 DEF Undo
<1> QED BY <1>1, <1>2, <1>3, <1>4, <1>5, <1>6 DEF CardStep

-----------------------------------------------------------------------------
(* The probe: every step acquires what the next one expects, ...           *)
Acquiring == {"sc", "thread", "enable", "regions", "plx", "reg", "irq",
              "dmaspace", "init", "cdev", "nodes"}

LEMMA StageRanks ==
  /\ StageRank("sc") = 0 /\ StageRank("thread") = 1 /\ StageRank("enable") = 2
  /\ StageRank("regions") = 3 /\ StageRank("plx") = 4 /\ StageRank("reg") = 5
  /\ StageRank("irq") = 6 /\ StageRank("mask") = 7 /\ StageRank("dmaspace") = 7
  /\ StageRank("init") = 8 /\ StageRank("cdev") = 9 /\ StageRank("nodes") = 10
  /\ StageRank("drvdata") = 11 /\ StageRank("slot") = 0
BY DEF StageRank

LEMMA Followings ==
  /\ Following("sc") = "thread" /\ Following("thread") = "enable"
  /\ Following("enable") = "regions" /\ Following("regions") = "plx"
  /\ Following("plx") = "reg" /\ Following("reg") = "irq"
  /\ Following("irq") = "mask" /\ Following("dmaspace") = "init"
  /\ Following("init") = "cdev" /\ Following("cdev") = "nodes"
  /\ Following("nodes") = "drvdata"
BY DEF Following

LEMMA StagesRanked ==
  \A s \in Acquiring : /\ StageRank(s) \in Nat
                       /\ StageRank(Following(s)) = StageRank(s) + 1
BY StageRanks, Followings DEF Acquiring

LEMMA AcquireOrder ==
  ASSUME TypeOK, NEW c \in Cards, CardInv(c), step[c] \in Acquiring,
         NEW r, r = IF step[c] = "init" THEN "card" ELSE step[c],
         Acquire(c, r), todo'[c] = todo[c]
  PROVE  /\ Order(c)'
         /\ step'[c] = Following(step[c])
         /\ held'[c] = held[c] \union {r}
<1>1. /\ step'[c] = Following(step[c])
      /\ held'[c] = held[c] \union {r}
  BY DEF Acquire, Goto, TypeOK
<1>2. step'[c] \in Stages /\ step[c] \in Stages
  BY <1>1 DEF Following, Acquiring, Stages
<1>3. \A x \in Resources : ProbeRank(x) <= StageRank(step'[c]) <=>
                             ProbeRank(x) <= StageRank(step[c]) \/ x = r
  <2>1. /\ StageRank(step[c]) \in Nat /\ r \in Resources
        /\ StageRank(step'[c]) = StageRank(step[c]) + 1
        /\ ProbeRank(r) = StageRank(step[c]) + 1
    <3>1. /\ StageRank(step[c]) \in Nat
          /\ StageRank(Following(step[c])) = StageRank(step[c]) + 1
      BY StagesRanked
    <3>2. r \in Resources
      BY DEF Acquiring, Resources
    <3>3. ProbeRank(r) = StageRank(step[c]) + 1
      <4>1. CASE step[c] = "init"
        BY <4>1 DEF ProbeRank, StageRank
      <4>2. CASE step[c] # "init"
        BY <4>2 DEF Acquiring, ProbeRank, StageRank
      <4> QED BY <4>1, <4>2
    <3> QED BY <1>1, <3>1, <3>2, <3>3
  <2>2. \A x, y \in Resources :
          ProbeRank(x) \in Nat /\ (ProbeRank(x) = ProbeRank(y) => x = y)
    BY DEF Resources, ProbeRank
  <2> HIDE DEF ProbeRank, StageRank
  <2>3. \A x \in Resources : x = r <=> ProbeRank(x) = StageRank(step[c]) + 1
    BY <2>1, <2>2
  <2>4. \A x \in Resources : ProbeRank(x) \in Nat
    BY <2>2
  <2> QED BY <2>1, <2>3, <2>4
<1>4. Probing(c)'
  BY <1>1, <1>2, <1>3 DEF CardInv, Order, Probing
<1> QED BY <1>1, <1>2, <1>4 DEF Order, Undoing, Removing, Resting, Stages

(* ... and the exit of a failed one is the one for what is held.           *)
LEMMA FailOrder ==
  ASSUME TypeOK, NEW c \in Cards, CardInv(c), step[c] \in Failing,
         Fail(c, step[c])
  PROVE  /\ Order(c)'
         /\ step'[c] = "undo" /\ held'[c] = held[c] /\ failed'[c] = step[c]
<1> DEFINE e == FromLabel(ErrorLabel(step[c]))
<1>1. /\ step'[c] = "undo" /\ held'[c] = held[c] /\ failed'[c] = step[c]
      /\ todo'[c] = e
  BY DEF Fail, Goto, TypeOK
<1>2. LastOf(e, ErrorExits) /\ Len(e) = ErrorRank(ErrorLabel(step[c]))
  BY ExitOfStage
<1> HIDE DEF e
<1>3. \A x \in Resources : x \in held[c] <=> ProbeRank(x) <= StageRank(step[c])
  BY DEF CardInv, Order, Probing, Failing, Stages
<1>4. \A x \in Resources :
        /\ ProbeRank(x) <= StageRank(step[c]) =>
             ErrorRank(x) <= ErrorRank(ErrorLabel(step[c]))
        /\ ErrorRank(x) <= ErrorRank(ErrorLabel(step[c])) /\ x \notin {"plx", "reg"}
             => ProbeRank(x) <= StageRank(step[c])
  BY DEF Failing, Resources, ProbeRank, StageRank, ErrorRank, ErrorLabel
<1>5. /\ "irq" \in held[c] => "plx" \in held[c] /\ "reg" \in held[c]
      /\ "card" \in held[c] => step[c] \in {"cdev", "nodes"}
  <2>1. \A x \in {"irq", "plx", "reg", "card"} : x \in Resources
    BY DEF Resources
  <2>2. /\ "irq" \in held[c] <=> 7 <= StageRank(step[c])
        /\ "plx" \in held[c] <=> 5 <= StageRank(step[c])
        /\ "reg" \in held[c] <=> 6 <= StageRank(step[c])
        /\ "card" \in held[c] <=> 9 <= StageRank(step[c])
    BY <1>3, <2>1 DEF ProbeRank
  <2>3. /\ StageRank(step[c]) \in Nat
        /\ 9 <= StageRank(step[c]) => step[c] \in {"cdev", "nodes"}
    <3>1. \A s \in Failing : /\ StageRank(s) \in Nat
                             /\ 9 <= StageRank(s) => s \in {"cdev", "nodes"}
      BY StageRanks DEF Failing
    <3> QED BY <3>1
  <2> QED BY <2>2, <2>3
<1>6. Undoing(c)'
  BY <1>1, <1>2, <1>3, <1>4, <1>5 DEF Undoing, Late
<1> QED BY <1>1, <1>6 DEF Order, Probing, Removing, Resting, Stages

LEMMA AcquireKept ==
  ASSUME TypeOK, NEW c \in Cards, CardInv(c),
         step[c] \in Acquiring \ {"sc", "thread"},
         NEW r, r = IF step[c] = "init" THEN "card" ELSE step[c],
         Acquire(c, r), UNCHANGED <<devdata, unit, todo, failed, files, running>>
  PROVE  CardInv(c)'
<1>1. /\ Order(c)'
      /\ step'[c] = Following(step[c])
      /\ held'[c] = held[c] \union {r}
  BY AcquireOrder
<1>2. /\ step'[c] \in Stages \ {"slot", "sc", "thread"}
      /\ step'[c] \in Before => step[c] \in Before
      /\ step'[c] = "cdev" => step[c] \in Before
  BY <1>1, Followings DEF Acquiring, Stages, Before
<1>3. Users(c)'
  BY <1>1, <1>2 DEF CardInv, Users, Silent, TimerKnown, ThreadHeld, Late,
                    Acquiring, running, stops
<1>4. Opened(c)'
  BY <1>1, <1>2 DEF CardInv, Opened, Late
<1>5. "sc" \in held[c]
  <2>1. StageRank(step[c]) >= 1 /\ step[c] \in Stages /\ "sc" \in Resources
    BY StageRanks DEF Acquiring, Stages, Resources
  <2> QED BY <2>1 DEF CardInv, Order, Probing, ProbeRank
<1>6. Housed(c)'
  BY <1>1, <1>2, <1>5 DEF CardInv, Housed
<1> QED BY <1>1, <1>3, <1>4, <1>6 DEF CardInv

LEMMA FailKept ==
  ASSUME TypeOK, NEW c \in Cards, CardInv(c), step[c] \in Failing,
         Fail(c, step[c]), UNCHANGED <<devdata, unit, files, running>>
  PROVE  CardInv(c)'
<1>1. /\ Order(c)'
      /\ step'[c] = "undo" /\ held'[c] = held[c] /\ failed'[c] = step[c]
  BY FailOrder
<1>2. step[c] \in Before \/ Late(c)'
  BY <1>1 DEF Failing, Before, Late
<1>3. "card" \in held[c] => Late(c)'
  BY <1>1 DEF Order, Undoing
<1>4. Users(c)'
  BY <1>1, <1>2 DEF CardInv, Users, Silent, TimerKnown, ThreadHeld, Before,
                    running, stops
<1>5. Opened(c)'
  BY <1>1, <1>2 DEF CardInv, Opened, Before
<1>6. Housed(c)'
  BY <1>1 DEF CardInv, Housed
<1> QED BY <1>1, <1>4, <1>5, <1>6 DEF CardInv

LEMMA ProbeKept ==
  ASSUME TypeOK, OneAtATime, NEW c \in Cards, CardInv(c),
         ProbeStart(c) \/ Probe(c)
  PROVE  CardInv(c)'
<1> USE DEF units, progress
<1>1. CASE ProbeStart(c)
  <2>1. step[c] = "unbound" /\ step'[c] = "slot"
    BY <1>1 DEF ProbeStart, Goto, TypeOK
  <2>2. UNCHANGED <<devdata, unit, held, todo, failed, files, running>>
    BY <1>1 DEF ProbeStart
  <2>3. held[c] = {} /\ todo[c] = <<>>
    BY <2>1 DEF CardInv, Order, Resting
  <2>4. Order(c)'
    <3>1. \A x \in Resources : ~(ProbeRank(x) <= 0)
      BY DEF Resources, ProbeRank
    <3> QED BY <2>1, <2>2, <2>3, <3>1, StageRanks
            DEF Order, Probing, Undoing, Removing, Resting
  <2>5. Users(c)'
    BY <2>1, <2>2 DEF CardInv, Users, Silent, TimerKnown, ThreadHeld, Late,
                      running, stops, Before
  <2>6. Opened(c)'
    BY <1>1, <2>2 DEF ProbeStart, Opened
  <2>7. Housed(c)'
    BY <2>1, <2>2 DEF CardInv, Housed
  <2> QED BY <2>4, <2>5, <2>6, <2>7 DEF CardInv
<1>2. CASE FindUnit(c)
  <2>1. step[c] = "slot" /\ held[c] = {} /\ todo[c] = <<>>
    <3>1. \A x \in Resources : ~(ProbeRank(x) <= 0)
      BY DEF Resources, ProbeRank
    <3>2. step[c] = "slot"
      BY <1>2 DEF FindUnit
    <3> QED BY <3>1, <3>2, StageRanks DEF CardInv, Order, Probing, TypeOK, Stages
  <2>2. /\ UNCHANGED <<devdata, held, todo, failed, files, running>>
        /\ \/ step'[c] = "sc" /\ devdata[unit'[c]] = NoCard
           \/ step'[c] = "unbound"
    <3>1. CASE \E u \in Units : devdata[u] = NoCard
      <4> DEFINE F(u) == devdata[u] = NoCard
                         /\ \A v \in 0 .. u - 1 : devdata[v] # NoCard
      <4>1. F(CHOOSE u \in Units : F(u))
        BY <3>1, FirstUnit
      <4>2. unit' = [unit EXCEPT ![c] = CHOOSE u \in Units : F(u)]
        BY <1>2, <3>1 DEF FindUnit
      <4>3. F(unit'[c])
        <5> HIDE DEF F
        <5> QED BY <4>1, <4>2 DEF TypeOK
      <4> QED BY <1>2, <3>1, <4>3 DEF FindUnit, Goto, TypeOK
    <3>2. CASE ~ \E u \in Units : devdata[u] = NoCard
      BY <1>2, <3>2 DEF FindUnit, Goto, TypeOK
    <3> QED BY <3>1, <3>2
  <2>3. Order(c)'
    <3>1. \A x \in Resources : ~(ProbeRank(x) <= 0)
      BY DEF Resources, ProbeRank
    <3> QED BY <2>1, <2>2, <3>1, StageRanks
            DEF Order, Probing, Undoing, Removing, Resting, Stages
  <2>4. Users(c)' /\ Opened(c)'
    BY <2>1, <2>2 DEF CardInv, Users, Silent, TimerKnown, ThreadHeld, Late,
                      running, stops, Before, Opened
  <2>5. Housed(c)'
    BY <2>1, <2>2 DEF CardInv, Housed
  <2> QED BY <2>3, <2>4, <2>5 DEF CardInv
<1>3. CASE AllocSc(c)
  <2>1. step[c] = "sc" /\ held[c] = {} /\ todo[c] = <<>>
    <3>1. \A x \in Resources : ~(ProbeRank(x) <= 0)
      BY DEF Resources, ProbeRank
    <3>2. step[c] = "sc"
      BY <1>3 DEF AllocSc
    <3> QED BY <3>1, <3>2, StageRanks DEF CardInv, Order, Probing, TypeOK, Stages
  <2>2. \A m \in Minors : <<c, m>> \notin files /\ <<c, m>> \notin files'
    BY <1>3, <2>1 DEF AllocSc, CardInv, Opened
  <2>3. unit[c] \in Units /\ devdata[unit[c]] = NoCard
        /\ \A u \in Units : devdata[u] # c
    BY <2>1 DEF CardInv, Housed, TypeOK
  <2>4. thread[c] \in {"none", "gone"} /\ thread' = thread
    BY <1>3, <2>1 DEF AllocSc, CardInv, Users, ThreadHeld
  <2>5. CASE Acquire(c, "sc") /\ step'[c] # "unbound"
    <3>1. /\ Order(c)' /\ step'[c] = "thread" /\ held'[c] = {"sc"}
      BY <1>3, <2>1, <2>5, AcquireOrder, Followings DEF AllocSc, Acquiring
    <3>2. /\ devdata' = [devdata EXCEPT ![unit[c]] = c] /\ unit' = unit
          /\ c \notin command' /\ c \notin timer'
      BY <1>3, <2>5 DEF AllocSc, Goto, TypeOK
    <3>3. Users(c)'
      BY <2>4, <3>1, <3>2 DEF Users, Silent, TimerKnown, ThreadHeld
    <3>4. Opened(c)'
      BY <2>2 DEF Opened
    <3>5. Housed(c)'
      BY <2>3, <3>1, <3>2 DEF Housed, TypeOK
    <3> QED BY <3>1, <3>3, <3>4, <3>5 DEF CardInv
  <2>6. CASE Goto(c, "unbound") /\ UNCHANGED <<devdata, held, command, timer, failed>>
    <3>1. /\ step'[c] = "unbound" /\ held'[c] = {} /\ todo'[c] = <<>>
          /\ unit' = unit
      BY <1>3, <2>1, <2>6 DEF AllocSc, Goto, TypeOK
    <3>2. Order(c)'
      BY <3>1 DEF Order, Probing, Undoing, Removing, Resting, Stages
    <3>3. Users(c)'
      BY <2>1, <2>4, <2>6, <3>1 DEF CardInv, Users, Silent, TimerKnown,
                                    ThreadHeld, Late, Before
    <3>4. Opened(c)'
      BY <2>2 DEF Opened
    <3>5. Housed(c)'
      BY <2>3, <2>6, <3>1 DEF Housed
    <3> QED BY <3>2, <3>3, <3>4, <3>5 DEF CardInv
  <2>7. Acquire(c, "sc") => step'[c] # "unbound"
    BY <2>1, Followings DEF Acquire, Goto, TypeOK
  <2> QED BY <1>3, <2>5, <2>6, <2>7 DEF AllocSc
<1>4. CASE StartThread(c)
  <2>1. step[c] = "thread" /\ Acquire(c, "thread")
    BY <1>4 DEF StartThread
  <2>2. /\ Order(c)' /\ step'[c] = "enable"
        /\ held'[c] = held[c] \union {"thread"}
    BY <1>4, <2>1, AcquireOrder, Followings DEF StartThread, Acquiring
  <2>3. /\ thread'[c] = "new"
        /\ UNCHANGED <<devdata, unit, failed, files, timer, command>>
    BY <1>4 DEF StartThread, TypeOK
  <2>4. Users(c)'
    BY <2>1, <2>2, <2>3 DEF CardInv, Users, Silent, TimerKnown, ThreadHeld,
                            Before
  <2>5. Opened(c)'
    BY <2>1, <2>2, <2>3 DEF CardInv, Opened, Before
  <2>6. Housed(c)'
    <3>1. "sc" \in held[c]
      BY <2>1, StageRanks DEF CardInv, Order, Probing, ProbeRank, Stages, Resources
    <3> QED BY <2>2, <2>3, <3>1 DEF CardInv, Housed
  <2> QED BY <2>2, <2>4, <2>5, <2>6 DEF CardInv
<1>5. CASE AcquirePart(c)
  BY <1>5, AcquireKept DEF AcquirePart, Acquiring
<1>6. CASE SetMask(c)
  <2>1. /\ step[c] = "mask" /\ step'[c] = "dmaspace"
        /\ UNCHANGED <<devdata, unit, held, todo, failed, files, running>>
    BY <1>6 DEF SetMask, Goto, TypeOK
  <2>2. Order(c)'
    BY <2>1, StageRanks DEF CardInv, Order, Probing, Undoing, Removing, Resting,
                            Stages
  <2>3. Users(c)' /\ Opened(c)' /\ Housed(c)'
    BY <2>1 DEF CardInv, Users, Silent, TimerKnown, ThreadHeld, Late, Opened,
                Housed, running, stops, Before
  <2> QED BY <2>2, <2>3 DEF CardInv
<1>7. CASE Bind(c)
  <2>1. /\ step[c] = "drvdata" /\ step'[c] = "bound"
        /\ held'[c] = held[c] \union {"drvdata"}
        /\ UNCHANGED <<devdata, unit, todo, failed, files, running>>
    BY <1>7 DEF Bind, Goto, TypeOK
  <2>2. held'[c] = Resources /\ todo[c] = <<>> /\ "sc" \in held[c]
    <3>1. \A x \in Resources : ProbeRank(x) <= 11 \/ x = "drvdata"
      BY DEF Resources, ProbeRank
    <3>2. /\ todo[c] = <<>>
          /\ \A x \in Resources : x \in held[c] <=> ProbeRank(x) <= 11
      BY <2>1, StageRanks DEF CardInv, Order, Probing, Stages
    <3>3. held[c] \subseteq Resources /\ {"sc", "drvdata"} \subseteq Resources
      BY DEF TypeOK, Resources
    <3>4. held'[c] = Resources
      BY <2>1, <3>1, <3>2, <3>3
    <3> QED BY <3>1, <3>2, <3>3, <3>4
  <2>3. Order(c)'
    BY <2>1, <2>2 DEF Order, Probing, Undoing, Removing, Resting, Stages
  <2>4. Users(c)' /\ Opened(c)' /\ Housed(c)'
    BY <2>1, <2>2 DEF CardInv, Users, Silent, TimerKnown, ThreadHeld, Late,
                      Opened, Housed, running, stops, Before
  <2> QED BY <2>3, <2>4 DEF CardInv
<1>8. CASE InitCard(c)
  <2>1. CASE Acquire(c, "card") /\ UNCHANGED <<todo, failed>>
    BY <1>8, <2>1, AcquireKept DEF InitCard, Acquiring
  <2>2. CASE Fail(c, "init")
    BY <1>8, <2>2, FailKept DEF InitCard, Failing
  <2> QED BY <1>8, <2>1, <2>2 DEF InitCard
<1>9. CASE CreateNodes(c)
  <2>1. CASE Acquire(c, "nodes") /\ UNCHANGED <<litter, todo, failed>>
    BY <1>9, <2>1, AcquireKept DEF CreateNodes, Acquiring
  <2>2. CASE Fail(c, "nodes")
    BY <1>9, <2>2, FailKept DEF CreateNodes, Failing
  <2> QED BY <1>9, <2>1, <2>2 DEF CreateNodes
<1>10. CASE ProbeFail(c)
  BY <1>10, FailKept DEF ProbeFail, Failing, Stages
<1> QED BY <1>1, <1>2, <1>3, <1>4, <1>5, <1>6, <1>7, <1>8, <1>9, <1>10 DEF Probe

-----------------------------------------------------------------------------
(* The exits: what is released is what the order of the exit says.         *)
LEMMA ErrorRanks ==
  /\ \A x, y \in Resources \ {"nodes", "drvdata"} :
       ErrorRank(x) = ErrorRank(y) => x = y
  /\ \A x \in Resources : ErrorRank(x) \in 1 .. 11
  /\ ErrorRank("nodes") = 11 /\ ErrorRank("drvdata") = 11
BY DEF ErrorRank, Resources

LEMMA RemovalRankTable ==
  /\ RemovalRank("drvdata") = 1 /\ RemovalRank("sc") = 2
  /\ RemovalRank("thread") = 3 /\ RemovalRank("enable") = 4
  /\ RemovalRank("regions") = 5 /\ RemovalRank("reg") = 6
  /\ RemovalRank("plx") = 7 /\ RemovalRank("timer") = 8
  /\ RemovalRank("irq") = 9 /\ RemovalRank("dmaspace") = 10
  /\ RemovalRank("card") = 11 /\ RemovalRank("cdev") = 12
  /\ RemovalRank("nodes") = 13
BY DEF RemovalRank

LEMMA RemovalRanks ==
  /\ \A x, y \in Resources \union {"timer"} :
       RemovalRank(x) = RemovalRank(y) => x = y
  /\ \A x \in Resources \union {"timer"} : RemovalRank(x) \in 1 .. 13
<1>1. \A x, y \in Resources \union {"timer"} :
        RemovalRank(x) = RemovalRank(y) => x = y
  BY RemovalRankTable DEF Resources
<1>2. \A x \in Resources \union {"timer"} : RemovalRank(x) \in 1 .. 13
  BY RemovalRankTable DEF Resources
<1> QED BY <1>1, <1>2

LEMMA DropOrder ==
  ASSUME TypeOK, NEW c \in Cards, CardInv(c), todo[c] # <<>>, Drop(c)
  PROVE  /\ Order(c)'
         /\ step' = step /\ failed' = failed
         /\ held'[c] = held[c] \ {Head(todo[c])}
         /\ Len(todo'[c]) = Len(todo[c]) - 1
<1> DEFINE r == Head(todo[c])
           n == Len(todo[c])
<1>1. /\ step' = step /\ failed' = failed
      /\ held'[c] = held[c] \ {r}
      /\ todo'[c] = Tail(todo[c])
  BY DEF Drop, TypeOK
<1>2. /\ step[c] \in {"undo", "remove"}
      /\ n \in Nat \ {0} /\ Len(todo'[c]) = n - 1
  BY <1>1, HeadOfExit
<1>3. CASE step[c] = "undo"
  <2>1. /\ LastOf(todo'[c], ErrorExits) /\ r \in Resources
        /\ ErrorRank(r) = n /\ n <= 10
    <3>1. n <= 10
      BY <1>3, ExitsTyped DEF CardInv, Order, Undoing, LastOf
    <3> QED BY <1>1, <1>3, <3>1, HeadOfExit
  <2> HIDE DEF r, n
  <2>2. \A x \in Resources : ErrorRank(x) <= n - 1 <=> ErrorRank(x) <= n /\ x # r
    BY <1>2, <2>1, ErrorRanks
  <2>3. \A x \in Resources :
          /\ x \in held[c] => ErrorRank(x) <= n
          /\ ErrorRank(x) <= n /\ x \notin {"plx", "reg"} => x \in held[c]
    BY <1>3 DEF CardInv, Order, Undoing, n
  <2>4. "irq" \in held'[c] => "plx" \in held'[c] /\ "reg" \in held'[c]
    <3>1. /\ ErrorRank("irq") = 7 /\ ErrorRank("plx") = 6 /\ ErrorRank("reg") = 5
          /\ "irq" \in Resources
      BY DEF ErrorRank, Resources
    <3>2. "irq" \in held[c] => "plx" \in held[c] /\ "reg" \in held[c]
      BY <1>3 DEF CardInv, Order, Undoing
    <3>3. "irq" \in held'[c] => n >= 7 /\ r # "plx" /\ r # "reg"
      BY <1>1, <1>2, <2>1, <2>3, <3>1
    <3> QED BY <1>1, <3>2, <3>3
  <2>5. "card" \in held'[c] => Late(c)'
    BY <1>1, <1>3 DEF CardInv, Order, Undoing, Late
  <2>6. Undoing(c)'
    BY <1>1, <1>2, <2>1, <2>2, <2>3, <2>4, <2>5 DEF Undoing
  <2> QED BY <1>1, <1>2, <1>3, <2>6
          DEF Order, Probing, Removing, Resting, Stages, r, n
<1>4. CASE step[c] = "remove"
  <2>1. /\ LastOf(todo'[c], Removal) /\ r \in Resources \union {"timer"}
        /\ RemovalRank(r) = n
    BY <1>1, <1>4, HeadOfExit
  <2> HIDE DEF r, n
  <2>2. \A x \in Resources : RemovalRank(x) <= n - 1 <=> RemovalRank(x) <= n /\ x # r
    BY <1>2, <2>1, RemovalRanks
  <2>3. \A x \in Resources : x \in held[c] <=> RemovalRank(x) <= n
    BY <1>4 DEF CardInv, Order, Removing, n
  <2>4. Removing(c)'
    BY <1>1, <1>2, <2>1, <2>2, <2>3 DEF Removing
  <2> QED BY <1>1, <1>2, <1>4, <2>4
          DEF Order, Probing, Undoing, Resting, Stages, r, n
<1> QED BY <1>1, <1>2, <1>3, <1>4

(* Nothing is opened on the way out.                                       *)
LEMMA OpenedOnExit ==
  ASSUME TypeOK, OneAtATime, NEW c \in Cards, CardInv(c),
         step[c] \in {"undo", "remove"}, NEW m \in Minors, <<c, m>> \in files
  PROVE  Late(c)
<1>1. step[c] = "undo"
  BY DEF OneAtATime
<1>2. Late(c) \/ "card" \in held[c]
  BY DEF CardInv, Opened, Working
<1> QED BY <1>1, <1>2 DEF CardInv, Order, Undoing

(* Releasing anything but the thread, the timer and sc.                    *)
LEMMA DropKept ==
  ASSUME TypeOK, OneAtATime, NEW c \in Cards, CardInv(c), todo[c] # <<>>, Drop(c),
         Head(todo[c]) = "thread" => thread[c] = "gone",
         Head(todo[c]) = "timer" => c \notin timer',
         Head(todo[c]) = "sc" => \A u \in Units : devdata'[u] # c,
         Head(todo[c]) # "sc" => devdata' = devdata,
         unit' = unit, files' = files, thread' = thread, timer' \subseteq timer
  PROVE  CardInv(c)'
<1>1. /\ Order(c)' /\ step' = step /\ failed' = failed
      /\ held'[c] = held[c] \ {Head(todo[c])}
      /\ Len(todo'[c]) = Len(todo[c]) - 1
  BY DropOrder
<1>2. step[c] \in {"undo", "remove"} /\ Len(todo[c]) \in Nat \ {0}
  BY HeadOfExit
<1>3. TimerKnown(c)'
  <2> SUFFICES ASSUME c \in timer', ~Late(c)
               PROVE  \/ "card" \in held'[c]
                      \/ step[c] = "remove" /\ Len(todo'[c]) >= RemovalRank("timer")
    BY <1>1 DEF TimerKnown, Late
  <2>1. \/ "card" \in held[c]
        \/ step[c] = "remove" /\ Len(todo[c]) >= RemovalRank("timer")
    BY DEF CardInv, Users, TimerKnown
  <2>2. step[c] = "remove"
    BY <1>2, <2>1 DEF CardInv, Order, Undoing
  <2>3. RemovalRank(Head(todo[c])) = Len(todo[c]) /\ Head(todo[c]) # "timer"
    BY <2>2, HeadOfExit
  <2>4. RemovalRank("timer") = 8 /\ RemovalRank("card") = 11
    BY DEF RemovalRank
  <2>5. CASE "card" \in held[c]
    <3>1. CASE Head(todo[c]) = "card"
      BY <1>1, <1>2, <2>2, <2>3, <2>4, <3>1
    <3>2. CASE Head(todo[c]) # "card"
      BY <1>1, <2>5, <3>2
    <3> QED BY <3>1, <3>2
  <2>6. CASE Len(todo[c]) >= RemovalRank("timer")
    <3>1. Head(todo[c]) \in Resources \union {"timer"}
      BY <2>2, HeadOfExit
    <3>2. Len(todo[c]) # 8
      BY <2>3, <2>4, <3>1, RemovalRanks
    <3>3. Len(todo[c]) - 1 >= 8
      <4>1. \A n \in Nat \ {0} : n >= 8 /\ n # 8 => n - 1 >= 8
        OBVIOUS
      <4>2. Len(todo[c]) >= 8
        BY <2>4, <2>6
      <4> QED BY <1>2, <3>2, <4>1, <4>2, Zenon
    <3>4. Len(todo'[c]) >= RemovalRank("timer")
      BY <1>1, <2>4, <3>3, Zenon
    <3> QED BY <2>2, <3>4
  <2> QED BY <2>1, <2>5, <2>6
<1>4. Silent(c)' /\ ThreadHeld(c)'
  BY <1>1, <1>2 DEF CardInv, Users, Silent, ThreadHeld, Before
<1>5. Opened(c)'
  BY <1>1, <1>2, OpenedOnExit DEF Opened, Late, Before
<1>6. Housed(c)'
  BY <1>1, <1>2 DEF CardInv, Housed
<1> QED BY <1>1, <1>3, <1>4, <1>5, <1>6 DEF CardInv, Users

LEMMA UndoKept ==
  ASSUME TypeOK, OneAtATime, NEW c \in Cards, CardInv(c), RemoveStart(c) \/ Undo(c)
  PROVE  CardInv(c)'
<1> USE DEF units, progress, running, stops
<1>1. CASE RemoveStart(c)
  <2>1. /\ step[c] = "bound"
        /\ UNCHANGED <<devdata, unit, held, failed, files, thread, timer, command>>
    BY <1>1 DEF RemoveStart
  <2>2. CASE "drvdata" \in held[c]
    <3>1. /\ step'[c] = "remove" /\ todo'[c] = Removal /\ held[c] = Resources
      BY <1>1, <2>1, <2>2 DEF RemoveStart, Goto, TypeOK, CardInv, Order, Resting
    <3>2. Removing(c)'
      <4>1. LastOf(Removal, Removal)
        BY ExitsTyped DEF LastOf
      <4>2. \A x \in Resources : RemovalRank(x) <= 13
        BY RemovalRanks
      <4> QED BY <2>1, <3>1, <4>1, <4>2, ExitsTyped DEF Removing
    <3>3. Order(c)'
      BY <3>1, <3>2 DEF Order, Probing, Undoing, Resting, Stages
    <3>4. Users(c)' /\ Opened(c)' /\ Housed(c)'
      BY <2>1, <3>1 DEF CardInv, Users, Silent, TimerKnown, ThreadHeld, Late,
                        Opened, Housed, Before, Resources
    <3> QED BY <3>3, <3>4 DEF CardInv
  <2>3. CASE "drvdata" \notin held[c]
    <3>1. /\ step'[c] = "oops" /\ todo'[c] = todo[c] /\ todo[c] = <<>>
          /\ held[c] = {}
      BY <1>1, <2>1, <2>3 DEF RemoveStart, Goto, TypeOK, CardInv, Order,
                              Resting, Resources
    <3>2. Order(c)'
      BY <2>1, <3>1 DEF Order, Probing, Undoing, Removing, Resting, Stages
    <3>3. Users(c)' /\ Opened(c)' /\ Housed(c)'
      BY <2>1, <3>1 DEF CardInv, Users, Silent, TimerKnown, ThreadHeld, Late,
                        Opened, Housed, Before
    <3> QED BY <3>2, <3>3 DEF CardInv
  <2> QED BY <2>2, <2>3
<1>2. CASE Release(c)
  <2>1. /\ todo[c] # <<>> /\ Drop(c)
        /\ Head(todo[c]) \notin {"thread", "timer", "sc"}
    BY <1>2 DEF Release, Releasing, Resources
  <2> QED BY <1>2, <2>1, DropKept DEF Release
<1>3. CASE DestroyNodes(c)
  BY <1>3, DropKept DEF DestroyNodes, Releasing
<1>4. CASE DeleteTimer(c)
  BY <1>4, DropKept DEF DeleteTimer, Releasing
<1>5. CASE StopThread(c)
  <2>1. step[c] \in {"undo", "remove"}
    BY <1>5, HeadOfExit DEF StopThread, Releasing
  <2>2. UNCHANGED <<devdata, unit, step, held, todo, failed, files, timer, command>>
    BY <1>5 DEF StopThread
  <2>3. thread'[c] = thread[c] \/ thread[c] \in {"ready", "asleep"}
    BY <1>5 DEF StopThread, Woken
  <2>4. Users(c)'
    BY <2>1, <2>2, <2>3 DEF CardInv, Users, Silent, TimerKnown, ThreadHeld, Late,
                            Before
  <2>5. Order(c)' /\ Opened(c)' /\ Housed(c)'
    BY <2>2 DEF CardInv, Order, Probing, Undoing, Removing, Resting, Opened,
                Housed, Late
  <2> QED BY <2>4, <2>5 DEF CardInv
<1>6. CASE ThreadStopped(c)
  BY <1>6, DropKept DEF ThreadStopped, Releasing
<1>7. CASE FreeSc(c)
  <2>1. \A u \in Units : devdata'[u] # c
    <3>1. \A u \in Units : devdata[u] = c => u = unit[c]
      BY DEF CardInv, Housed
    <3> QED BY <1>7, <3>1, CardsAssumption DEF FreeSc, TypeOK
  <2> QED BY <1>7, <2>1, DropKept DEF FreeSc, Releasing
<1>8. CASE ReleaseEnd(c)
  <2>1. /\ step[c] \in {"undo", "remove"} /\ todo[c] = <<>> /\ Len(todo[c]) = 0
        /\ \/ step'[c] = "bound" /\ failed[c] = "mask"
           \/ step'[c] = "unbound"
        /\ UNCHANGED <<devdata, unit, held, todo, failed, files, thread, timer,
                       command>>
    BY <1>8 DEF ReleaseEnd, Goto, TypeOK
  <2>2. held[c] = {}
    <3>1. \A x \in Resources : x \notin held[c]
      BY <2>1, ErrorRanks, RemovalRanks DEF CardInv, Order, Undoing, Removing
    <3> QED BY <3>1 DEF TypeOK
  <2>3. Order(c)'
    BY <2>1, <2>2 DEF Order, Probing, Undoing, Removing, Resting, Stages
  <2>4. Users(c)'
    BY <2>1, <2>2 DEF CardInv, Users, Silent, TimerKnown, ThreadHeld, Late,
                      Before, RemovalRank
  <2>5. Opened(c)' /\ Housed(c)'
    BY <2>1, <2>2 DEF CardInv, Opened, Housed, Late, Before
  <2> QED BY <2>3, <2>4, <2>5 DEF CardInv
<1> QED BY <1>1, <1>2, <1>3, <1>4, <1>5, <1>6, <1>7, <1>8 DEF Undo

(* Those who use the card.                                                 *)
LEMMA UseKept ==
  ASSUME TypeOK, OneAtATime, NEW c \in Cards, CardInv(c),
         \/ Interrupt(c) \/ LinkUpHandler(c) \/ Thread(c)
         \/ \E m \in Minors : Open(c, m) \/ Close(c, m)
  PROVE  CardInv(c)'
<1> USE DEF units, progress, running, stops
<1>1. UNCHANGED <<devdata, unit, step, held, todo, failed>>
  BY DEF Interrupt, LinkUpHandler, Thread, ThreadBegin, ThreadPrepare,
         ThreadSchedule, ThreadTest, ThreadWork, Open, Close
<1>2. Order(c)' /\ Housed(c)'
  BY <1>1 DEF CardInv, Order, Probing, Undoing, Removing, Resting, Housed, Late
<1>3. "card" \in held[c] => step[c] \notin Before
  BY StageRanks DEF CardInv, Order, Probing, ProbeRank, Before, Stages, Resources
<1>4. CASE Interrupt(c)
  <2>1. "card" \in held[c] /\ files' = files
    BY <1>4 DEF Interrupt
  <2>2. thread'[c] = thread[c] \/ thread[c] \in {"ready", "asleep"}
    BY <1>4 DEF Interrupt, Woken
  <2>3. Users(c)'
    BY <1>1, <1>3, <2>1, <2>2 DEF CardInv, Users, Silent, TimerKnown, ThreadHeld
  <2> QED BY <1>1, <1>2, <2>1, <2>3 DEF CardInv, Opened, Late
<1>5. CASE LinkUpHandler(c)
  <2>1. c \in timer /\ timer' \subseteq timer /\ files' = files
    BY <1>5 DEF LinkUpHandler
  <2>2. thread'[c] = thread[c] \/ thread[c] \in {"ready", "asleep"}
    BY <1>5 DEF LinkUpHandler, Woken
  <2>3. Users(c)'
    BY <1>1, <2>1, <2>2 DEF CardInv, Users, Silent, TimerKnown, ThreadHeld, Late
  <2> QED BY <1>1, <1>2, <2>1, <2>3 DEF CardInv, Opened, Late
<1>6. CASE Thread(c)
  <2>1. timer' = timer /\ command' \subseteq command /\ files' = files
    BY <1>6 DEF Thread, ThreadBegin, ThreadPrepare, ThreadSchedule, ThreadTest,
                ThreadWork
  <2>2. /\ thread[c] \notin {"none", "gone"}
        /\ thread'[c] \in {"test", "work"} =>
             c \in command \/ thread[c] = "test"
    BY <1>6 DEF Thread, ThreadBegin, ThreadPrepare, ThreadSchedule, ThreadTest,
                ThreadWork, Step, TypeOK
  <2>3. Users(c)'
    BY <1>1, <2>1, <2>2 DEF CardInv, Users, Silent, TimerKnown, ThreadHeld, Late
  <2> QED BY <1>1, <1>2, <2>1, <2>3 DEF CardInv, Opened, Late
<1>7. ASSUME NEW m \in Minors, Open(c, m) PROVE CardInv(c)'
  <2>1. /\ module = "in" /\ "cdev" \in held[c] /\ files' = files \union {<<c, m>>}
        /\ UNCHANGED <<timer, command, thread>>
    BY <1>7 DEF Open
  <2>2. Users(c)'
    BY <1>1, <2>1 DEF CardInv, Users, Silent, TimerKnown, ThreadHeld, Late
  <2>3. /\ step[c] \notin Before \union {"slot", "sc", "cdev"}
        /\ Late(c) \/ Working \subseteq held[c]
    <3>1. CASE step[c] \in Stages
      <4>1. \A x \in Resources : x \in held[c] <=> ProbeRank(x) <= StageRank(step[c])
        BY <3>1 DEF CardInv, Order, Probing
      <4>2. StageRank(step[c]) >= 10
        BY <2>1, <4>1 DEF ProbeRank, Resources
      <4>3. step[c] \in {"nodes", "drvdata"}
        BY <3>1, <4>2, StageRanks DEF Stages
      <4>4. \A x \in Working : x \in Resources /\ ProbeRank(x) <= 9
        BY DEF Working, Resources, ProbeRank
      <4>5. Working \subseteq held[c]
        BY <4>1, <4>3, <4>4, StageRanks DEF ProbeRank, Resources
      <4> QED BY <4>3, <4>5 DEF Before
    <3>2. CASE step[c] = "undo"
      <4>1. Len(todo[c]) >= 10
        BY <2>1, <3>2 DEF CardInv, Order, Undoing, ErrorRank, Resources
      <4>2. "card" \in held[c]
        BY <3>2, <4>1 DEF CardInv, Order, Undoing, ErrorRank, Resources
      <4> QED BY <3>2, <4>2 DEF CardInv, Order, Undoing, Before
    <3>3. CASE step[c] \in {"unbound", "oops", "bound"}
      <4>1. held[c] = Resources
        BY <2>1, <3>3 DEF CardInv, Order, Resting
      <4> QED BY <3>3, <4>1 DEF Before, Working, Resources
    <3>4. step[c] # "remove"
      BY <2>1 DEF OneAtATime
    <3> QED BY <3>1, <3>2, <3>3, <3>4 DEF TypeOK
  <2>4. Opened(c)'
    BY <1>1, <2>1, <2>3 DEF CardInv, Opened, Late
  <2> QED BY <1>2, <2>2, <2>4 DEF CardInv
<1>8. ASSUME NEW m \in Minors, Close(c, m) PROVE CardInv(c)'
  <2>1. files' \subseteq files /\ UNCHANGED <<timer, command, thread>>
    BY <1>8 DEF Close
  <2>2. Users(c)' /\ Opened(c)'
    BY <1>1, <2>1 DEF CardInv, Users, Silent, TimerKnown, ThreadHeld, Late, Opened
  <2> QED BY <1>2, <2>2 DEF CardInv
<1> QED BY <1>4, <1>5, <1>6, <1>7, <1>8

(* Where a probe and an exit can lead.                                     *)
LEMMA ProbeLeads ==
  ASSUME TypeOK, NEW c \in Cards, CardInv(c), Probe(c)
  PROVE  /\ step[c] \in Stages
         /\ step'[c] \in Stages \union {"unbound", "undo", "bound"}
         /\ module' = module /\ files' = files
<1> USE DEF registry
<1>1. CASE FindUnit(c) \/ AllocSc(c)
  BY <1>1 DEF FindUnit, AllocSc, Acquire, Goto, Following, Stages, TypeOK
<1>2. ASSUME step[c] \in Acquiring, NEW r, Acquire(c, r)
      PROVE  step'[c] \in Stages
  BY <1>2, Followings DEF Acquire, Goto, Acquiring, Stages, TypeOK
<1>3. ASSUME NEW s, Fail(c, s) PROVE step'[c] = "undo"
  BY <1>3 DEF Fail, Goto, TypeOK
<1>4. CASE StartThread(c) \/ AcquirePart(c)
  BY <1>2, <1>4 DEF StartThread, AcquirePart, Acquiring, Stages
<1>5. CASE SetMask(c) \/ Bind(c)
  BY <1>5 DEF SetMask, Bind, Goto, Stages, TypeOK
<1>6. CASE InitCard(c) \/ CreateNodes(c) \/ ProbeFail(c)
  <2>1. /\ step[c] \in Failing /\ module' = module /\ files' = files
        /\ \/ step[c] \in Acquiring /\ \E r : Acquire(c, r)
           \/ \E s : Fail(c, s)
    BY <1>6 DEF InitCard, CreateNodes, ProbeFail, Failing, Acquiring, Stages
  <2> QED BY <1>2, <1>3, <2>1 DEF Failing, Stages
<1> QED BY <1>1, <1>4, <1>5, <1>6 DEF Probe

LEMMA UndoLeads ==
  ASSUME TypeOK, NEW c \in Cards, CardInv(c), Undo(c)
  PROVE  /\ step[c] \in {"undo", "remove"}
         /\ step'[c] = step[c] \/ step'[c] \in {"unbound", "bound"}
         /\ module' = module /\ files' = files
<1> USE DEF registry, progress
<1>1. CASE ReleaseEnd(c)
  BY <1>1 DEF ReleaseEnd, Goto, TypeOK
<1>2. CASE StopThread(c)
  BY <1>2, HeadOfExit DEF StopThread, Releasing
<1>3. CASE ~ReleaseEnd(c) /\ ~StopThread(c)
  <2>1. todo[c] # <<>> /\ Drop(c) /\ module' = module /\ files' = files
    BY <1>3 DEF Undo, Release, DestroyNodes, DeleteTimer, ThreadStopped, FreeSc,
                Releasing
  <2> QED BY <2>1, HeadOfExit DEF Drop
<1> QED BY <1>1, <1>2, <1>3

(* No second probe, exit or removal begins.                                *)
LEMMA AloneKept ==
  ASSUME TypeOK, OneAtATime, NEW c \in Cards, CardInv(c), CardStep(c)
  PROVE  OneAtATime'
<1> USE DEF registry, progress
<1>1. \A d \in Cards : d # c => step'[d] = step[d]
  BY OthersSame DEF Same
<1>2. CASE ProbeStart(c)
  <2>1. /\ module = "in" /\ module' = module /\ files' = files
        /\ \A d \in Cards : Still(d)
        /\ step'[c] = "slot"
    BY <1>2 DEF ProbeStart, Quiet, Still, Goto, TypeOK
  <2> QED BY <1>1, <2>1 DEF OneAtATime, Still
<1>3. CASE RemoveStart(c)
  <2>1. /\ module = "unloading" /\ module' = module /\ files' = files
        /\ \A d \in Cards : Still(d)
        /\ step'[c] \in {"remove", "oops"}
    BY <1>3 DEF RemoveStart, Quiet, Still, Goto, TypeOK
  <2> QED BY <1>1, <2>1 DEF OneAtATime, Still
<1>4. CASE Probe(c)
  BY <1>1, <1>4, ProbeLeads DEF OneAtATime, Still, Stages
<1>5. CASE Undo(c)
  BY <1>1, <1>5, UndoLeads DEF OneAtATime, Still
<1>6. CASE Interrupt(c) \/ LinkUpHandler(c)
  BY <1>6 DEF Interrupt, LinkUpHandler, OneAtATime, Still
<1>7. CASE Thread(c)
  BY <1>7 DEF Thread, ThreadBegin, ThreadPrepare, ThreadSchedule, ThreadTest,
              ThreadWork, OneAtATime, Still
<1>8. CASE \E m \in Minors : Open(c, m) \/ Close(c, m)
  BY <1>8 DEF Open, Close, OneAtATime, Still
<1> QED BY <1>2, <1>3, <1>4, <1>5, <1>6, <1>7, <1>8 DEF CardStep

-----------------------------------------------------------------------------
(* Who has made its nodes has sc.                                          *)
LEMMA NodesNeedSc ==
  ASSUME TypeOK, NEW c \in Cards, CardInv(c), "nodes" \in held[c]
  PROVE  "sc" \in held[c]
<1> USE DEF CardInv, Order
<1>1. CASE step[c] \in Stages
  BY <1>1, StageRanks DEF Probing, ProbeRank, Resources, Stages
<1>2. CASE step[c] = "undo"
  BY <1>2, ExitsTyped DEF Undoing, ErrorRank, Resources, LastOf
<1>3. CASE step[c] = "remove"
  <2>1. Len(todo[c]) \in Nat
    BY DEF TypeOK
  <2> QED BY <1>3, <2>1 DEF Removing, RemovalRank, Resources
<1>4. CASE step[c] \in {"unbound", "oops", "bound"}
  BY <1>4 DEF Resting, Resources
<1>5. step[c] \in Stages \union {"unbound", "bound", "undo", "remove", "oops"}
  BY DEF TypeOK
<1> HIDE DEF CardInv, Order
<1> QED BY <1>1, <1>2, <1>3, <1>4, <1>5

(* The nodes: only CreateNodes and DestroyNodes touch them.                *)
LEMMA NodesSame ==
  ASSUME NodesOwned, nodes' = nodes, litter' = litter,
         \A d \in Cards : /\ "nodes" \in held'[d] <=> "nodes" \in held[d]
                          /\ "nodes" \in held[d] => unit'[d] = unit[d]
  PROVE  NodesOwned'
<1>1. (litter \subseteq nodes)'
  BY DEF NodesOwned
<1>2. ASSUME NEW u \in nodes' \ litter'
      PROVE  \E c \in Cards : "nodes" \in held'[c] /\ unit'[c] = u
  <2>1. PICK c \in Cards : "nodes" \in held[c] /\ unit[c] = u
    BY <1>2 DEF NodesOwned
  <2> QED BY <2>1
<1>3. ASSUME NEW c \in Cards, "nodes" \in held'[c]
      PROVE  unit'[c] \in nodes' \ litter'
  BY <1>3 DEF NodesOwned
<1> QED BY <1>1, <1>2, <1>3 DEF NodesOwned

LEMMA NodesProbe ==
  ASSUME TypeOK, NodesOwned, NEW c \in Cards, CardInv(c), Probe(c)
  PROVE  NodesOwned'
<1> USE DEF TypeOK, units, entries, progress
<1>1. CASE FindUnit(c)
  <2>1. "nodes" \notin held[c]
    <3>1. step[c] = "slot" /\ StageRank("slot") = 0 /\ ProbeRank("nodes") = 11
      BY <1>1, StageRanks DEF FindUnit, ProbeRank
    <3> QED BY <3>1 DEF CardInv, Order, Probing, Stages, Resources
  <2>2. /\ nodes' = nodes /\ litter' = litter /\ held' = held
        /\ \A d \in Cards : d # c => unit'[d] = unit[d]
    BY <1>1 DEF FindUnit
  <2> QED BY <2>1, <2>2, NodesSame
<1>2. ASSUME NEW r, r # "nodes", Acquire(c, r)
      PROVE  \A d \in Cards : "nodes" \in held'[d] <=> "nodes" \in held[d]
  BY <1>2 DEF Acquire
<1>3. CASE AllocSc(c) \/ StartThread(c) \/ AcquirePart(c)
  <2>1. \/ held' = held
        \/ \E r : r # "nodes" /\ Acquire(c, r)
    BY <1>3 DEF AllocSc, StartThread, AcquirePart
  <2>2. nodes' = nodes /\ litter' = litter /\ unit' = unit
    BY <1>3 DEF AllocSc, StartThread, AcquirePart
  <2> QED BY <1>2, <2>1, <2>2, NodesSame
<1>4. CASE SetMask(c) \/ InitCard(c) \/ ProbeFail(c)
  <2>1. \/ held' = held
        \/ Acquire(c, "card")
    BY <1>4 DEF SetMask, InitCard, ProbeFail, Fail
  <2>2. nodes' = nodes /\ litter' = litter /\ unit' = unit
    BY <1>4 DEF SetMask, InitCard, ProbeFail
  <2> QED BY <1>2, <2>1, <2>2, NodesSame
<1>5. CASE Bind(c)
  BY <1>5, NodesSame DEF Bind
<1>6. CASE CreateNodes(c)
  <2>1. /\ unit[c] \notin nodes /\ nodes' = nodes \union {unit[c]}
        /\ unit' = unit
    BY <1>6 DEF CreateNodes
  <2>2. \A d \in Cards : "nodes" \in held[d] => unit[d] # unit[c]
    BY <2>1 DEF NodesOwned
  <2>3. CASE Acquire(c, "nodes") /\ UNCHANGED <<litter, todo, failed>>
    <3>1. /\ "nodes" \in held'[c] /\ litter' = litter
          /\ \A d \in Cards \ {c} : held'[d] = held[d]
      BY <2>3 DEF Acquire
    <3> QED BY <2>1, <2>2, <3>1 DEF NodesOwned
  <2>4. CASE Fail(c, "nodes") /\ litter' = litter \union {unit[c]}
    <3>1. held' = held
      BY <2>4 DEF Fail
    <3> QED BY <2>1, <2>2, <2>4, <3>1 DEF NodesOwned
  <2> QED BY <1>6, <2>3, <2>4 DEF CreateNodes
<1> QED BY <1>1, <1>3, <1>4, <1>5, <1>6 DEF Probe

LEMMA NodesUndo ==
  ASSUME TypeOK, NodesOwned, \A d \in Cards : CardInv(d), NEW c \in Cards,
         Undo(c)
  PROVE  NodesOwned'
<1> USE DEF TypeOK, units, entries, progress
<1>1. CASE DestroyNodes(c)
  <2>1. todo[c] # <<>> /\ Head(todo[c]) = "nodes"
    BY <1>1 DEF DestroyNodes, Releasing
  <2>2. step[c] = "remove" /\ Len(todo[c]) = 13
    <3>1. /\ step[c] \in {"undo", "remove"}
          /\ step[c] = "undo" => /\ LastOf(todo[c], ErrorExits)
                                 /\ ErrorRank("nodes") = Len(todo[c])
          /\ step[c] = "remove" => RemovalRank("nodes") = Len(todo[c])
      BY <2>1, HeadOfExit DEF CardInv, Order, Undoing
    <3>2. step[c] # "undo"
      <4>1. ErrorRank("nodes") = 11 /\ Len(ErrorExits) = 10
        BY ExitsTyped DEF ErrorRank
      <4>2. LastOf(todo[c], ErrorExits) => Len(todo[c]) <= Len(ErrorExits)
        BY DEF LastOf
      <4> QED BY <3>1, <4>1, <4>2
    <3> QED BY <3>1, <3>2 DEF RemovalRank
  <2>3. "nodes" \in held[c] /\ "sc" \in held[c]
    <3>1. \A r \in Resources : r \in held[c] <=> RemovalRank(r) <= 13
      BY <2>2 DEF CardInv, Order, Removing
    <3> QED BY <3>1 DEF RemovalRank, Resources
  <2>4. ASSUME NEW d \in Cards, d # c, "nodes" \in held[d]
        PROVE  unit[d] # unit[c]
    <3>1. "sc" \in held[d]
      BY <2>4, NodesNeedSc
    <3> QED BY <2>3, <2>4, <3>1 DEF CardInv, Housed
  <2>5. /\ nodes' = nodes \ {unit[c]} /\ litter' = litter /\ unit' = unit
        /\ held' = [held EXCEPT ![c] = @ \ {"nodes"}]
    BY <1>1, <2>1 DEF DestroyNodes, Drop
  <2>6. unit[c] \notin litter
    BY <2>3 DEF NodesOwned
  <2>7. /\ "nodes" \notin held'[c]
        /\ \A d \in Cards \ {c} : held'[d] = held[d]
    BY <2>5
  <2> QED BY <2>4, <2>5, <2>6, <2>7 DEF NodesOwned
<1>2. CASE Release(c) \/ DeleteTimer(c) \/ ThreadStopped(c) \/ FreeSc(c)
  <2>1. Drop(c) /\ Head(todo[c]) # "nodes"
    BY <1>2 DEF Release, DeleteTimer, ThreadStopped, FreeSc, Releasing
  <2>2. \A d \in Cards : "nodes" \in held'[d] <=> "nodes" \in held[d]
    BY <2>1 DEF Drop
  <2>3. nodes' = nodes /\ litter' = litter /\ unit' = unit
    BY <1>2 DEF Release, DeleteTimer, ThreadStopped, FreeSc
  <2> QED BY <2>2, <2>3, NodesSame
<1>3. CASE StopThread(c) \/ ReleaseEnd(c)
  BY <1>3, NodesSame DEF StopThread, ReleaseEnd
<1> QED BY <1>1, <1>2, <1>3 DEF Undo

LEMMA NodesKept ==
  ASSUME TypeOK, NodesOwned, \A d \in Cards : CardInv(d), NEW c \in Cards,
         CardStep(c)
  PROVE  NodesOwned'
<1> USE DEF units, entries, progress
<1>1. CASE ProbeStart(c) \/ RemoveStart(c) \/ Interrupt(c) \/ LinkUpHandler(c)
  BY <1>1, NodesSame DEF ProbeStart, RemoveStart, Interrupt, LinkUpHandler
<1>2. CASE Thread(c)
  BY <1>2, NodesSame DEF Thread, ThreadBegin, ThreadPrepare, ThreadSchedule,
                         ThreadTest, ThreadWork
<1>3. CASE \E m \in Minors : Open(c, m) \/ Close(c, m)
  BY <1>3, NodesSame DEF Open, Close
<1> QED BY <1>1, <1>2, <1>3, NodesProbe, NodesUndo DEF CardStep

-----------------------------------------------------------------------------
LEMMA InitIInv == Init => IInv
<1> SUFFICES ASSUME Init PROVE IInv
  OBVIOUS
<1>1. TypeOK
  BY TypeInit
<1>2. OneAtATime
  BY DEF Init, OneAtATime, Still
<1>4. NodesOwned
  BY DEF Init, NodesOwned
<1>3. ASSUME NEW c \in Cards PROVE CardInv(c)
  BY CardsAssumption
     DEF Init, CardInv, Order, Probing, Undoing, Removing, Resting, Stages, Users,
         Silent, TimerKnown, ThreadHeld, Opened, Housed, Before
<1> QED BY <1>1, <1>2, <1>3, <1>4 DEF IInv

(* The module as a whole changes nothing of the cards.                     *)
LEMMA ModuleKept ==
  ASSUME IInv, TypeOK',
         LoadStart \/ Register \/ LoadFail \/ UnloadStart \/ UnloadEnd
  PROVE  IInv'
<1>1. UNCHANGED <<units, progress, files, running>>
  BY DEF LoadStart, Register, LoadFail, UnloadStart, UnloadEnd
<1>2. \A c \in Cards : CardInv(c)'
  BY <1>1, SameKeeps DEF IInv, Same, units, progress, running, stops
<1>3. OneAtATime'
  BY <1>1 DEF IInv, OneAtATime, Still, LoadStart, Register, LoadFail, UnloadStart,
              UnloadEnd, Quiet, progress
<1>4. NodesOwned'
  BY <1>1, NodesSame DEF IInv, units, entries, progress
<1> QED BY <1>2, <1>3, <1>4 DEF IInv

LEMMA IInvInductive == IInv /\ [Next]_vars => IInv'
<1> SUFFICES ASSUME IInv, [Next]_vars PROVE IInv'
  OBVIOUS
<1>1. TypeOK'
  BY TypeInductive DEF IInv
<1>2. CASE LoadStart \/ Register \/ LoadFail \/ UnloadStart \/ UnloadEnd
  BY <1>1, <1>2, ModuleKept
<1>3. ASSUME NEW c \in Cards, CardStep(c) PROVE IInv'
  <2>1. CardInv(c)'
    BY <1>3, ProbeKept, UndoKept, UseKept DEF IInv, CardStep
  <2>2. ASSUME NEW d \in Cards, d # c PROVE CardInv(d)'
    BY <1>3, <2>2, OthersSame, SameKeeps DEF IInv
  <2>3. OneAtATime'
    BY <1>3, AloneKept DEF IInv
  <2>4. NodesOwned'
    BY <1>3, NodesKept DEF IInv
  <2> QED BY <1>1, <2>1, <2>2, <2>3, <2>4 DEF IInv
<1>4. CASE UNCHANGED vars
  <2>1. OneAtATime'
    BY <1>4 DEF IInv, OneAtATime, Still, vars, registry, progress
  <2>2. \A c \in Cards : CardInv(c)'
    BY <1>4, SameKeeps DEF IInv, Same, vars, units, progress, running, stops
  <2>3. NodesOwned'
    BY <1>4, NodesSame DEF IInv, vars, units, entries, progress
  <2> QED BY <1>1, <2>1, <2>2, <2>3 DEF IInv
<1> QED BY <1>2, <1>3, <1>4 DEF Next, CardStep

(* The variables have their types: no exit of the probe or removal leads   *)
(* outside of its labels, no card to a unit that does not exist.           *)
THEOREM TypeCorrect == Spec => []TypeOK
<1> QED BY TypeInit, TypeInductive, PTL DEF Spec

(* Every card is where its probe or exit says, one card at a time: the     *)
(* invariant from which the other theorems follow.                         *)
THEOREM Invariance == Spec => []IInv
<1> QED BY InitIInv, IInvInductive, PTL DEF Spec

(* What is held implies what it needs, on every path.                      *)
LEMMA HeldTogether ==
  ASSUME IInv, NEW c \in Cards
  PROVE  /\ "irq" \in held[c] => {"sc", "plx", "reg"} \subseteq held[c]
         /\ "card" \in held[c] => "sc" \in held[c]
         /\ "thread" \in held[c] => "sc" \in held[c]
<1> USE DEF IInv, CardInv, Order
<1>1. CASE step[c] \in Stages
  <2>1. \A x \in Resources : x \in held[c] <=> ProbeRank(x) <= StageRank(step[c])
    BY <1>1 DEF Probing
  <2>2. StageRank(step[c]) \in Nat
    BY <1>1, StageRanks DEF Stages
  <2> QED BY <2>1, <2>2 DEF ProbeRank, Resources
<1>2. CASE step[c] = "undo"
  <2>1. \A x \in {"irq", "card", "thread"} : x \in held[c] => Len(todo[c]) >= 1
    BY <1>2 DEF Undoing, ErrorRank, Resources
  <2>2. Len(todo[c]) >= 1 => "sc" \in held[c]
    BY <1>2 DEF Undoing, ErrorRank, Resources
  <2> QED BY <1>2, <2>1, <2>2 DEF Undoing
<1>3. CASE step[c] = "remove"
  <2>1. \A x \in Resources : x \in held[c] <=> RemovalRank(x) <= Len(todo[c])
    BY <1>3 DEF Removing
  <2>2. Len(todo[c]) \in Nat
    BY DEF TypeOK
  <2> QED BY <2>1, <2>2, RemovalRankTable DEF Resources
<1>4. CASE step[c] \in {"unbound", "oops", "bound"}
  BY <1>4 DEF Resting, Resources
<1> QED BY <1>1, <1>2, <1>3, <1>4 DEF TypeOK

(* The interrupt handler finds sc and both register spaces as long as it   *)
(* can be called (sis1100_autoconf_linux.c: the order of request_irq,      *)
(* free_irq, the mappings and del_timer_sync).                             *)
THEOREM HandlersAreSafe == Spec => []HandlerSafe
<1>1. IInv => HandlerSafe
  <2> SUFFICES ASSUME IInv, NEW c \in Cards
               PROVE  /\ "irq" \in held[c] => {"sc", "plx", "reg"} \subseteq held[c]
                      /\ c \in timer /\ ~Late(c) => "sc" \in held[c]
    BY DEF HandlerSafe
  <2>1. ASSUME step[c] = "remove", Len(todo[c]) >= RemovalRank("timer")
        PROVE  "sc" \in held[c]
    <3>1. "sc" \in held[c] <=> RemovalRank("sc") <= Len(todo[c])
      BY <2>1 DEF IInv, CardInv, Order, Removing, Resources
    <3>2. Len(todo[c]) \in Nat
      BY DEF IInv, TypeOK
    <3> QED BY <2>1, <3>1, <3>2, RemovalRankTable
  <2>2. c \in timer /\ ~Late(c) => "sc" \in held[c]
    BY <2>1, HeldTogether DEF IInv, CardInv, Users, TimerKnown
  <2> QED BY <2>2, HeldTogether
<1> QED BY Invariance, <1>1, PTL

(* The thread of a card has its sc, and mapped registers when it works     *)
(* (sis1100_irq_thread.c; kthread_stop comes late in every exit).          *)
THEOREM ThreadsHaveCards == Spec => []ThreadHasCard
<1>1. IInv => ThreadHasCard
  <2> SUFFICES ASSUME IInv, NEW c \in Cards
               PROVE  /\ thread[c] \notin {"none", "gone"} => "sc" \in held[c]
                      /\ thread[c] = "work" /\ step[c] \notin {"undo", "remove"} =>
                           {"plx", "reg", "irq", "card"} \subseteq held[c]
    BY DEF ThreadHasCard
  <2>1. thread[c] \notin {"none", "gone"} => "thread" \in held[c]
    BY DEF IInv, CardInv, Users, ThreadHeld
  <2>2. ASSUME thread[c] = "work", step[c] \notin {"undo", "remove"}
        PROVE  {"plx", "reg", "irq", "card"} \subseteq held[c]
    <3>1. step[c] \notin Before /\ "thread" \in held[c]
      BY <2>1, <2>2 DEF IInv, CardInv, Users, Silent
    <3>2. CASE step[c] \in Stages
      <4>1. \A x \in Resources :
              x \in held[c] <=> ProbeRank(x) <= StageRank(step[c])
        BY <3>2 DEF IInv, CardInv, Order, Probing
      <4>2. StageRank(step[c]) >= 2
        BY <3>1, <4>1 DEF ProbeRank, Resources
      <4>3. StageRank(step[c]) >= 9
        BY <3>1, <3>2, <4>2, StageRanks DEF Stages, Before
      <4> QED BY <3>2, <4>1, <4>3, StageRanks DEF ProbeRank, Resources, Stages
    <3>3. CASE step[c] \in {"unbound", "oops", "bound"}
      BY <3>1, <3>3 DEF IInv, CardInv, Order, Resting, Resources
    <3> QED BY <2>2, <3>2, <3>3 DEF IInv, TypeOK
  <2> QED BY <2>1, <2>2, HeldTogether
<1> QED BY Invariance, <1>1, PTL

(* Each exit releases what its card has, and nothing twice; at its end     *)
(* nothing is left but the nodes of a device_create that failed and the    *)
(* timer of a probe that failed late; a bound card has everything          *)
(* (sis1100_linux_init and its labels, done_sis1100_device).               *)
THEOREM AllOrNothingIsKept == Spec => []AllOrNothing
<1>1. IInv => AllOrNothing
  <2> SUFFICES ASSUME IInv PROVE AllOrNothing
    OBVIOUS
  <2> USE DEF IInv, CardInv, Order
  <2>1. ASSUME NEW c \in Cards
        PROVE
        /\ todo[c] # <<>> /\ Head(todo[c]) \notin {"plx", "reg", "timer"} =>
             Head(todo[c]) \in held[c]
        /\ step[c] \in {"unbound", "slot", "oops"} =>
             /\ held[c] = {} /\ thread[c] \in {"none", "gone"}
             /\ c \in timer => Late(c)
        /\ step[c] = "bound" =>
             \/ /\ held[c] = Resources
                /\ devdata[unit[c]] = c /\ unit[c] \in nodes \ litter
             \/ held[c] = {} /\ c \notin timer /\ failed[c] = "mask"
        /\ (\E u \in Units : devdata[u] = c) <=> "sc" \in held[c]
    <3>1. ASSUME todo[c] # <<>>, Head(todo[c]) \notin {"plx", "reg", "timer"}
          PROVE  Head(todo[c]) \in held[c]
      <4>1. CASE step[c] = "undo"
        <5>1. Head(todo[c]) \in Resources /\ ErrorRank(Head(todo[c])) <= Len(todo[c])
          BY <3>1, <4>1, HeadOfExit
        <5> QED BY <3>1, <4>1, <5>1 DEF Undoing
      <4>2. CASE step[c] = "remove"
        <5>1. Head(todo[c]) \in Resources /\ RemovalRank(Head(todo[c])) <= Len(todo[c])
          BY <3>1, <4>2, HeadOfExit
        <5> QED BY <4>2, <5>1 DEF Removing
      <4> QED BY <3>1, <4>1, <4>2, HeadOfExit
    <3>2. step[c] \in {"unbound", "slot", "oops"} => held[c] = {}
      <4>1. step[c] = "slot" => \A x \in Resources : x \notin held[c]
        BY StageRanks DEF Probing, Stages, ProbeRank, Resources
      <4> QED BY <4>1 DEF Resting, TypeOK
    <3>3. step[c] \in {"unbound", "slot", "oops"} => thread[c] \in {"none", "gone"}
      BY <3>2 DEF Users, ThreadHeld
    <3>4. step[c] # "remove" /\ held[c] = {} /\ c \in timer => Late(c)
      BY DEF Users, TimerKnown
    <3>5. unit[c] \in Units
      BY DEF TypeOK
    <3>6. (\E u \in Units : devdata[u] = c) <=> "sc" \in held[c]
      BY <3>5 DEF Housed
    <3>7. step[c] = "bound" =>
            \/ /\ held[c] = Resources
               /\ devdata[unit[c]] = c /\ unit[c] \in nodes \ litter
            \/ held[c] = {} /\ c \notin timer /\ failed[c] = "mask"
      BY <3>4 DEF Resting, Housed, Resources, NodesOwned, Late
    <3> QED BY <3>1, <3>2, <3>3, <3>4, <3>6, <3>7
  <2>2. \A u \in nodes \ litter :
          \E c \in Cards : "nodes" \in held[c] /\ unit[c] = u
    BY DEF NodesOwned
  <2> QED BY <2>1, <2>2 DEF AllOrNothing
<1> QED BY Invariance, <1>1, PTL

(* An open file leads to an initialised card (cdev_add, sis1100_open, the  *)
(* use count of the module), unless the probe of the card failed after it  *)
(* had published the card (Late): the files opened in that window keep a   *)
(* freed sc.                                                               *)
THEOREM FilesHaveCards == Spec => []FileHasCard
<1>1. IInv => FileHasCard
  <2> SUFFICES ASSUME IInv, NEW f \in files
               PROVE  \/ Late(f[1])
                      \/ Working \subseteq held[f[1]] /\ devdata[unit[f[1]]] = f[1]
    BY DEF FileHasCard
  <2>1. PICK c \in Cards, m \in Minors : f = <<c, m>>
    BY DEF IInv, TypeOK
  <2>2. Late(c) \/ Working \subseteq held[c]
    BY <2>1 DEF IInv, CardInv, Opened
  <2>3. "sc" \in held[c] => devdata[unit[c]] = c
    BY DEF IInv, CardInv, Housed
  <2> QED BY <2>1, <2>2, <2>3 DEF Working
<1> QED BY Invariance, <1>1, PTL
=============================================================================

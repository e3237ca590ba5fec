---------------------------- MODULE NetConfig_proofs ----------------------------
(***************************************************************************)
(* The interfaces of a NetConfig, for every set of failing calls and every *)
(* number of calls of init.                                                *)
(***************************************************************************)
EXTENDS NetConfig, TLAPS

(***************************************************************************)
(* The types, and that a stage of init belongs to a method under way.      *)
(***************************************************************************)
TypeInv ==
  /\ held \subseteq Interfaces
  /\ objects \in [Interfaces -> Nat]
  /\ com \in Nat /\ abandoned \in Nat /\ inits \in Nat
  /\ method \in Methods \cup {"none"}
  /\ stage \in 0 .. 8
  /\ stage # 0 => ~is_init_ /\ method # "none"

\* What init has got when it comes to a stage.
Got(s) == {p \in Interfaces : \E i \in 1 .. (s - 1) : p \in Stages[i].gets}

(***************************************************************************)
(* The interfaces got before a stage are held at it, those of a finished   *)
(* init all.  What is held is an object not yet released, of an            *)
(* initialised COM.                                                        *)
(***************************************************************************)
HeldInv ==
  /\ stage # 0 => Got(stage) \subseteq held
  /\ is_init_ => held = Interfaces
  /\ method # "none" /\ stage = 0 => is_init_
  /\ held # {} => com > 0
  /\ \A p \in held : objects[p] > 0

(***************************************************************************)
(* COM is initialised once for every init that got that far, failed or     *)
(* not.  As long as none has failed later, init finds nothing held.        *)
(***************************************************************************)
CountInv ==
  /\ com = abandoned + (IF is_init_ \/ stage > 1 THEN 1 ELSE 0)
  /\ abandoned = 0 =>
       /\ ~is_init_ => held = (IF stage = 0 THEN {} ELSE Got(stage))
       /\ \A p \in Interfaces : objects[p] = (IF p \in held THEN 1 ELSE 0)

(***************************************************************************)
(* The inductive invariant.                                                *)
(***************************************************************************)
IInv == TypeInv /\ HeldInv /\ CountInv

-----------------------------------------------------------------------------
\* There are eight stages, and no interface is got at two of them.
LEMMA StageFacts ==
  /\ Len(Stages) = 8 /\ DOMAIN Stages = 1 .. 8
  /\ \A s \in 1 .. 8 : Stages[s].gets \subseteq Interfaces
  /\ Stages[1].gets = {}
  /\ \A s, t \in 1 .. 8 : Stages[s].gets \cap Stages[t].gets # {} => s = t
  /\ \A p \in Interfaces : \E s \in 1 .. 8 : p \in Stages[s].gets
<1>1. /\ Len(Stages) = 8 /\ DOMAIN Stages = 1 .. 8
      /\ Stages[1].gets = {} /\ Stages[2].gets = {"p_instance_"}
      /\ Stages[3].gets = {"p_service_"} /\ Stages[4].gets = {}
      /\ Stages[5].gets = {"p_enum_"} /\ Stages[6].gets = {"p_obj_"}
      /\ Stages[7].gets = {} /\ Stages[8].gets = {"p_config"}
  BY DEF Stages
<1> QED
  BY <1>1 DEF Interfaces

\* What has been got grows stage by stage, from nothing to all.
LEMMA GotFacts ==
  /\ Got(1) = {} /\ Got(2) = {} /\ Got(9) = Interfaces
  /\ \A s \in 1 .. 8 : /\ Got(s + 1) = Got(s) \cup Stages[s].gets
                       /\ Got(s) \cap Stages[s].gets = {}
<1>1. Got(1) = {} /\ Got(2) = {}
  BY StageFacts DEF Got
<1>2. Got(9) = Interfaces
  BY StageFacts DEF Got
<1>3. ASSUME NEW s \in 1 .. 8
      PROVE  Got(s + 1) = Got(s) \cup Stages[s].gets /\ Got(s) \cap Stages[s].gets = {}
  <2>1. \A i : i \in 1 .. ((s + 1) - 1) <=> i \in 1 .. (s - 1) \/ i = s
    OBVIOUS
  <2>2. \A i \in 1 .. (s - 1) : i \in 1 .. 8 /\ i # s
    OBVIOUS
  <2> QED
    BY <2>1, <2>2, StageFacts DEF Got
<1> QED
  BY <1>1, <1>2, <1>3

\* A new NetConfig satisfies the invariant.
LEMMA InitIInv == Init => IInv
BY DEF Init, IInv, TypeInv, HeldInv, CountInv

\* A stage that succeeds gets what init then holds.
LEMMA InitStageStep == IInv /\ InitStage => IInv'
<1> SUFFICES ASSUME IInv, InitStage PROVE IInv'
  OBVIOUS
<1>1. /\ stage \in 1 .. 8 /\ ~is_init_ /\ method # "none"
      /\ held \subseteq Interfaces /\ objects \in [Interfaces -> Nat]
      /\ com \in Nat /\ abandoned \in Nat /\ inits \in Nat
      /\ Stages[stage].gets \subseteq Interfaces
  BY StageFacts DEF IInv, TypeInv, InitStage
<1>2. /\ held' = held \cup Stages[stage].gets
      /\ \A p \in Interfaces :
           objects'[p] = objects[p] + (IF p \in Stages[stage].gets THEN 1 ELSE 0)
      /\ objects' \in [Interfaces -> Nat]
  BY <1>1 DEF InitStage
<1>3. IF stage = 8 THEN is_init_' /\ stage' = 0 ELSE ~is_init_' /\ stage' = stage + 1
  <2>1. is_init_' <=> stage = 8
    BY StageFacts DEF InitStage
  <2>2. stage' = (stage + 1) % 9
    BY StageFacts DEF InitStage
  <2>3. stage' = (IF stage = 8 THEN 0 ELSE stage + 1)
    BY <1>1, <2>2
  <2> QED
    BY <2>1, <2>3
<1>4. /\ com' = com + (IF stage = 1 THEN 1 ELSE 0)
      /\ method' = method /\ abandoned' = abandoned /\ inits' \in Nat
  BY <1>1 DEF InitStage
<1>5. /\ Got(stage + 1) = Got(stage) \cup Stages[stage].gets
      /\ Got(stage) \cap Stages[stage].gets = {}
      /\ Got(9) = Interfaces /\ Got(1) = {}
  BY <1>1, GotFacts
<1>6. Got(stage) \subseteq held /\ (held # {} => com > 0) /\ \A p \in held : objects[p] > 0
  BY <1>1 DEF IInv, HeldInv
<1>7. com = abandoned + (IF stage > 1 THEN 1 ELSE 0)
  BY <1>1 DEF IInv, CountInv
<1>8. TypeInv'
  <2>1. stage' \in 0 .. 8 /\ (stage' # 0 => ~is_init_')
    BY <1>1, <1>3
  <2>2. method' \in Methods \cup {"none"} /\ method' # "none"
    BY <1>1, <1>4 DEF IInv, TypeInv
  <2>3. com' \in Nat /\ abandoned' \in Nat
    BY <1>1, <1>4
  <2>4. held' \subseteq Interfaces
    BY <1>1, <1>2
  <2> QED
    BY <1>2, <1>4, <2>1, <2>2, <2>3, <2>4 DEF TypeInv
<1>9. HeldInv'
  <2>1. Got(stage + 1) \subseteq held'
    BY <1>2, <1>5, <1>6
  <2>2. is_init_' => held' = Interfaces
    BY <1>1, <1>2, <1>3, <1>5, <2>1
  <2>3. \A p \in held' : objects'[p] > 0
    BY <1>1, <1>2, <1>6
  <2>4. com' > 0
    BY <1>1, <1>4, <1>7
  <2> QED
    BY <1>1, <1>3, <1>4, <2>1, <2>2, <2>3, <2>4 DEF HeldInv
<1>10. CountInv'
  <2>1. com' = abandoned' + (IF is_init_' \/ stage' > 1 THEN 1 ELSE 0)
    BY <1>1, <1>3, <1>4, <1>7
  <2>2. ASSUME abandoned' = 0
        PROVE  /\ held' = Got(stage + 1)
               /\ \A p \in Interfaces : objects'[p] = (IF p \in held' THEN 1 ELSE 0)
    <3>1. held = Got(stage) /\ \A p \in Interfaces : objects[p] = (IF p \in held THEN 1 ELSE 0)
      BY <1>1, <1>4, <2>2 DEF IInv, CountInv
    <3> QED
      BY <1>2, <1>5, <3>1
  <2> QED
    BY <1>1, <1>3, <2>1, <2>2 DEF CountInv
<1> QED
  BY <1>8, <1>9, <1>10 DEF IInv

\* A stage that fails leaves what is held, or less.
LEMMA InitStageFailsStep == IInv /\ InitStageFails => IInv'
<1> SUFFICES ASSUME IInv, InitStageFails PROVE IInv'
  OBVIOUS
<1>1. /\ stage \in 1 .. 8 /\ ~is_init_ /\ ~is_init_'
      /\ stage' = 0 /\ method' = "none"
      /\ objects' = objects /\ com' = com /\ inits' = inits
      /\ abandoned' = abandoned + (IF stage = 1 THEN 0 ELSE 1)
  BY StageFacts DEF IInv, TypeInv, InitStageFails
<1>2. held' \subseteq held /\ (stage = 1 => held' = held)
  BY StageFacts DEF InitStageFails
<1>3. TypeInv'
  BY <1>1, <1>2 DEF IInv, TypeInv
<1>4. HeldInv'
  BY <1>1, <1>2 DEF IInv, HeldInv
<1>5. CountInv'
  <2>1. com \in Nat /\ abandoned \in Nat /\ com = abandoned + (IF stage > 1 THEN 1 ELSE 0)
    BY <1>1 DEF IInv, TypeInv, CountInv
  <2>2. com' = abandoned'
    BY <1>1, <2>1
  <2>3. ASSUME abandoned' = 0
        PROVE  held' = {} /\ \A p \in Interfaces : objects'[p] = (IF p \in held' THEN 1 ELSE 0)
    <3>1. stage = 1 /\ abandoned = 0
      BY <1>1, <2>1, <2>3
    <3> QED
      BY <1>1, <1>2, <3>1, GotFacts DEF IInv, CountInv
  <2> QED
    BY <1>1, <2>1, <2>2, <2>3 DEF CountInv
<1> QED
  BY <1>3, <1>4, <1>5 DEF IInv

\* clear gives back what is held, and the COM of the init that got it.
LEMMA ClearStep == IInv /\ Clear => IInv'
<1> SUFFICES ASSUME IInv, Clear PROVE IInv'
  OBVIOUS
<1>1. /\ held' = {} /\ ~is_init_' /\ method' = "none" /\ stage' = 0 /\ stage = 0
      /\ com' = (IF is_init_ THEN com - 1 ELSE com)
      /\ abandoned' = abandoned /\ inits' = inits
  BY DEF Clear, Idle, call, IInv, TypeInv
<1>2. /\ com \in Nat /\ abandoned \in Nat /\ objects \in [Interfaces -> Nat]
      /\ com = abandoned + (IF is_init_ THEN 1 ELSE 0)
      /\ \A p \in held : objects[p] > 0
  BY <1>1 DEF IInv, TypeInv, CountInv, HeldInv
<1>3. com' = abandoned
  BY <1>1, <1>2
<1>4. /\ objects' \in [Interfaces -> Nat]
      /\ \A p \in Interfaces : objects'[p] = (IF p \in held THEN objects[p] - 1 ELSE objects[p])
  BY <1>2 DEF Clear
<1>5. TypeInv' /\ HeldInv'
  BY <1>1, <1>2, <1>3, <1>4 DEF IInv, TypeInv, HeldInv
<1>6. CountInv'
  <2>1. ASSUME abandoned = 0 PROVE \A p \in Interfaces : objects'[p] = 0
    BY <1>4, <2>1 DEF IInv, CountInv
  <2> QED
    BY <1>1, <1>2, <1>3, <2>1 DEF CountInv
<1> QED
  BY <1>5, <1>6 DEF IInv

\* The other steps leave the interfaces alone: a call begins, with init unless
\* it has been done, and a method ends or goes on.
LEMMA MethodStep ==
  ASSUME IInv,
         \/ \E m \in Methods, gateway \in BOOLEAN : Call(m, gateway)
         \/ \E accepted \in BOOLEAN : Execute(accepted)
         \/ GetMethodFails
         \/ UNCHANGED vars
  PROVE  IInv'
<1>1. UNCHANGED <<held, objects, com, inits, abandoned>> /\ (is_init_' <=> is_init_)
  BY DEF Call, Execute, GetMethodFails, vars, interfaces
<1>2. \/ stage = 0 /\ stage' = 0 /\ method' \in Methods \cup {"none"} /\ (method' # "none" => is_init_)
      \/ stage = 0 /\ stage' = 1 /\ method' \in Methods /\ ~is_init_
      \/ stage' = stage /\ method' = method
  BY DEF Call, Execute, GetMethodFails, vars, Idle, IInv, TypeInv, HeldInv, Methods
<1>3. \A m \in Methods : m # "none"
  BY DEF Methods
<1>4. TypeInv'
  BY <1>1, <1>2, <1>3 DEF IInv, TypeInv
<1>5. HeldInv'
  BY <1>1, <1>2, GotFacts DEF IInv, HeldInv, Got
<1>6. CountInv'
  <2>1. /\ com' = abandoned' + (IF is_init_ \/ stage > 1 THEN 1 ELSE 0)
        /\ stage' > 1 <=> stage > 1
    BY <1>1, <1>2 DEF IInv, CountInv
  <2>2. ASSUME abandoned' = 0
        PROVE  /\ ~is_init_ => held' = (IF stage' = 0 THEN {} ELSE Got(stage'))
               /\ \A p \in Interfaces : objects'[p] = (IF p \in held' THEN 1 ELSE 0)
    <3>1. /\ ~is_init_ => held = (IF stage = 0 THEN {} ELSE Got(stage))
          /\ \A p \in Interfaces : objects[p] = (IF p \in held THEN 1 ELSE 0)
      BY <1>1, <2>2 DEF IInv, CountInv
    <3> QED
      BY <1>1, <1>2, <3>1, GotFacts
  <2> QED
    BY <1>1, <2>1, <2>2 DEF CountInv
<1> QED
  BY <1>4, <1>5, <1>6 DEF IInv

-----------------------------------------------------------------------------
\* The inductive invariant holds in whatever order the methods are called and
\* whatever fails.
THEOREM ConfigInvariance == Spec => []IInv
<1>1. IInv /\ [Next]_vars => IInv'
  BY InitStageStep, InitStageFailsStep, ClearStep, MethodStep DEF Next
<1> QED
  BY <1>1, InitIInv, PTL DEF Spec

\* A method follows no null pointer that init should have set, and clear
\* releases no interface twice and none of a COM that is gone.
THEOREM InterfacesStayLive == Spec => []InterfacesAreLive
<1>1. IInv => InterfacesAreLive
  BY DEF IInv, HeldInv, InterfacesAreLive
<1> QED
  BY <1>1, ConfigInvariance, PTL

\* Only an init that fails half way loses anything: its COM, and the objects a
\* further init overwrites.
THEOREM OnlyFailedInitsLose == Spec => []LossNeedsFailedInit
<1>1. IInv => LossNeedsFailedInit
  BY DEF IInv, CountInv, LossNeedsFailedInit
<1> QED
  BY <1>1, ConfigInvariance, PTL
=============================================================================

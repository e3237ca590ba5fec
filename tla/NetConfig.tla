------------------------------- MODULE NetConfig -------------------------------
(***************************************************************************)
(* The COM interfaces of a NetConfig: init gets them one after the other   *)
(* and may fail at each, every method calls init first, clear gives them   *)
(* back.  Whoever uses it calls the methods in any order; ConfigIp calls   *)
(* set_key, set_ip_config, set_dns and the destructor, which is clear, and *)
(* a new NetConfig is like a cleared one.  What the methods do to the      *)
(* adapter is in PoeAdapters.                                              *)
(***************************************************************************)
EXTENDS Integers, Sequences, FiniteSets

CONSTANTS
  FailingCalls,   \* the calls of COM and WMI that may fail
  MaxInits        \* bound: the calls of CoInitializeEx

Interfaces == {"p_instance_", "p_service_", "p_enum_", "p_obj_", "p_config"}

\* What init does, in order: a call, and the interface it gets.
Stages ==
  << [call |-> "CoInitializeEx", gets |-> {}],
     [call |-> "CoCreateInstance", gets |-> {"p_instance_"}],
     [call |-> "ConnectServer", gets |-> {"p_service_"}],
     [call |-> "CoSetProxyBlanket", gets |-> {}],
     [call |-> "ExecQuery", gets |-> {"p_enum_"}],
     [call |-> "Next", gets |-> {"p_obj_"}],
     [call |-> "Get", gets |-> {}],
     [call |-> "GetObject", gets |-> {"p_config"}] >>

Calls == {Stages[i].call : i \in DOMAIN Stages} \cup {"GetMethod", "ExecMethod"}
Methods == {"EnableDHCP", "EnableStatic", "SetGateways", "SetDNSServerSearchOrder"}

ASSUME NetConfigAssumption ==
  /\ FailingCalls \subseteq Calls
  /\ MaxInits \in Nat

VARIABLES
  is_init_,
  held,         \* the interfaces whose pointer is not null
  objects,      \* of each interface, the objects got and not yet released
  com,          \* how often COM is initialised on this thread
  method,       \* the WMI method a call is on its way to, or "none"
  gatewayNext,  \* set_ip_config goes on with set_gateway
  stage,        \* the stage init is at, or 0
  crashed,      \* a null pointer has been followed
  inits,        \* the calls of CoInitializeEx
  abandoned     \* history: the inits that failed after CoInitializeEx

vars == <<is_init_, held, objects, com, method, gatewayNext, stage, crashed, inits, abandoned>>
interfaces == <<held, objects>>
call == <<method, gatewayNext, stage>>

Init ==
  /\ is_init_ = FALSE
  /\ held = {}
  /\ objects = [p \in Interfaces |-> 0]
  /\ com = 0
  /\ method = "none" /\ gatewayNext = FALSE /\ stage = 0
  /\ crashed = FALSE
  /\ inits = 0 /\ abandoned = 0

Idle == method = "none" /\ ~crashed

-----------------------------------------------------------------------------
\* enable_dhcp, set_ip_config of two and of three arguments, set_gateway,
\* set_dns and set_auto_dns: init first, unless it has been done.
Call(m, gateway) ==
  /\ Idle
  /\ gateway => m = "EnableStatic"
  /\ method' = m /\ gatewayNext' = gateway
  /\ IF is_init_ THEN stage' = 0 ELSE stage' = 1
  /\ UNCHANGED <<is_init_, interfaces, com, crashed, inits, abandoned>>

\* A stage that succeeds.  An interface whose pointer was held already is
\* overwritten, and its object never released.
InitStage ==
  /\ stage \in DOMAIN Stages
  /\ stage = 1 => inits < MaxInits
  /\ held' = held \cup Stages[stage].gets
  /\ objects' = [p \in Interfaces |-> objects[p] + (IF p \in Stages[stage].gets THEN 1 ELSE 0)]
  /\ IF stage = 1 THEN com' = com + 1 /\ inits' = inits + 1 ELSE UNCHANGED <<com, inits>>
  /\ is_init_' = (stage = Len(Stages))
  /\ stage' = (stage + 1) % (Len(Stages) + 1)
  /\ UNCHANGED <<method, gatewayNext, crashed, abandoned>>

\* A stage that fails, or finds no adapter: init and the method return false,
\* with what has been got so far.  The pointer of the failed call is left as it
\* was, or set to null.
InitStageFails ==
  /\ stage \in DOMAIN Stages /\ Stages[stage].call \in FailingCalls
  /\ \E lost \in SUBSET Stages[stage].gets : held' = held \ lost
  /\ stage' = 0 /\ method' = "none" /\ gatewayNext' = FALSE
  /\ abandoned' = abandoned + (IF stage = 1 THEN 0 ELSE 1)
  /\ UNCHANGED <<is_init_, objects, com, crashed, inits>>

\* The parameters of the method and exec_method, which balance their own
\* objects.  When EnableStatic is accepted, set_ip_config of three arguments
\* goes on with set_gateway.
Execute(accepted) ==
  /\ method # "none" /\ stage = 0
  /\ ~accepted => "ExecMethod" \in FailingCalls
  /\ IF accepted /\ gatewayNext THEN method' = "SetGateways" ELSE method' = "none"
  /\ gatewayNext' = FALSE
  /\ UNCHANGED <<is_init_, interfaces, com, stage, crashed, inits, abandoned>>

\* GetMethod fails, or SpawnInstance, and the pointer it should have set is
\* followed all the same.  (EnableDHCP has no parameters.)
GetMethodFails ==
  /\ method \notin {"none", "EnableDHCP"} /\ stage = 0
  /\ "GetMethod" \in FailingCalls
  /\ method' = "none" /\ gatewayNext' = FALSE
  /\ crashed' = TRUE
  /\ UNCHANGED <<is_init_, interfaces, com, stage, inits, abandoned>>

-----------------------------------------------------------------------------
\* Slips: a pointer is not set to null; an interface is not released.
ClearKeepsPointer ==
  /\ Idle
  /\ held' = held \cap {"p_obj_"}
  /\ objects' = [p \in Interfaces |-> IF p \in held THEN objects[p] - 1 ELSE objects[p]]
  /\ com' = IF is_init_ THEN com - 1 ELSE com
  /\ is_init_' = FALSE
  /\ UNCHANGED <<call, crashed, inits, abandoned>>

ClearForgetsInterface ==
  /\ Idle
  /\ held' = {}
  /\ objects' = [p \in Interfaces |-> IF p \in held \ {"p_enum_"} THEN objects[p] - 1 ELSE objects[p]]
  /\ com' = IF is_init_ THEN com - 1 ELSE com
  /\ is_init_' = FALSE
  /\ UNCHANGED <<call, crashed, inits, abandoned>>

\* clear, as called by set_key and by the destructor.
Clear ==
  /\ Idle
  /\ held' = {}
  /\ objects' = [p \in Interfaces |-> IF p \in held THEN objects[p] - 1 ELSE objects[p]]
  /\ com' = IF is_init_ THEN com - 1 ELSE com
  /\ is_init_' = FALSE
  /\ UNCHANGED <<call, crashed, inits, abandoned>>

Next ==
  \/ \E m \in Methods, gateway \in BOOLEAN : Call(m, gateway)
  \/ InitStage \/ InitStageFails
  \/ \E accepted \in BOOLEAN : Execute(accepted)
  \/ GetMethodFails
  \/ Clear

Spec == Init /\ [][Next]_vars

-----------------------------------------------------------------------------
(***************************************************************************)
(* Properties.                                                             *)
(***************************************************************************)

\* A method runs with every interface at hand, and a pointer that is not null
\* points to an object that has not been released, of a COM that has not been
\* uninitialised: clear releases neither twice nor too late, also when an
\* init stopped half way and was begun again from the start.
InterfacesAreLive ==
  /\ method # "none" /\ stage = 0 => is_init_ /\ held = Interfaces
  /\ \A p \in held : objects[p] > 0 /\ com > 0

\* What is got is given back but for the inits that failed half way: each
\* leaves COM initialised once more than it will be uninitialised, and as long
\* as none did, a cleared NetConfig has left no object behind.
LossNeedsFailedInit ==
  /\ stage = 0 => com = abandoned + (IF is_init_ THEN 1 ELSE 0)
  /\ abandoned = 0 => \A p \in Interfaces : objects[p] = (IF p \in held THEN 1 ELSE 0)
=============================================================================

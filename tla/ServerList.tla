------------------------------ MODULE ServerList ------------------------------
(***************************************************************************)
(* dhcp_server_list_ of a PoeDhcpSeverImpl under its API: one caller makes *)
(* the calls in any order, where the program of Service makes them in one. *)
(* ConfigPoeAdapter replaces the servers without stopping them; what it    *)
(* does to the adapters is in PoeAdapters.                                 *)
(***************************************************************************)
EXTENDS Naturals, Sequences, ServerThread

CONSTANTS
  N,                \* the most servers ConfigPoeAdapter makes
  SocketFailures    \* the socket calls that may fail

ASSUME ServerListAssumption ==
  /\ N \in Nat
  /\ SocketFailures \subseteq SocketCalls

VARIABLES
  lives,      \* the server threads, flags and sockets of dhcp_server_list_
  pc,         \* the call under way: "idle" for none, "start", "rejoin" in it,
              \* "stop", "join" in it; or "destroyed", or "undefined" once a
              \* server has been destroyed that its thread goes on to use
  k,          \* the server the call is at
  deleting,   \* the destructor has been called
  starts,     \* history: the calls of StartDhcpServers since ConfigPoeAdapter,
              \* 2 for more than one
  stopped,    \* history: StopDhcpServers has returned, and no server has been
              \* started since
  refused     \* history: the system has refused a server of the list its
              \* address or the broadcast option

histories == <<starts, stopped, refused>>
vars == <<lives, pc, k, deleting, histories>>

Servers == 1 .. Len(lives)

Init ==
  /\ lives = <<>>
  /\ pc = "idle" /\ k = 1
  /\ deleting = FALSE
  /\ starts = 0 /\ stopped = FALSE /\ refused = FALSE

SetLife(s, life) == lives' = [lives EXCEPT ![s] = life]

\* Where it goes when the list is cleared: the servers and their sockets are
\* destroyed, and their threads are not stopped.
Cleared(place) == IF \E s \in Servers : ThreadAlive(lives[s]) THEN "undefined" ELSE place

-----------------------------------------------------------------------------
ConfigPoeAdapter ==
  /\ pc = "idle"
  /\ pc' = Cleared("idle")
  /\ \E n \in 0 .. N : lives' = [s \in 1 .. n |-> NewServer]
  /\ starts' = 0 /\ refused' = FALSE
  /\ UNCHANGED <<k, deleting, stopped>>

\* StartDhcpServers, server by server as in Service.
StartDhcpServers ==
  /\ pc = "idle"
  /\ pc' = "start" /\ k' = 1
  /\ starts' = IF starts = 0 THEN 1 ELSE 2
  /\ stopped' = FALSE
  /\ UNCHANGED <<lives, deleting, refused>>

InitServer ==
  /\ \/ CanBind(lives[k]) /\ SetLife(k, Started(lives[k])) /\ UNCHANGED refused
     \/ /\ \E life \in FailedInits(lives[k], SocketFailures) : SetLife(k, life)
        /\ refused' = (refused \/ CanBind(lives[k]))
  /\ pc' = "start" /\ k' = k + 1
  /\ UNCHANGED <<deleting, starts, stopped>>

StartServer ==
  /\ pc = "start" /\ k \in Servers /\ ~lives[k].starting_
  /\ InitServer

\* A slip: a server that runs is left alone.
RestartLeavesRunning ==
  /\ pc = "start" /\ k \in Servers /\ lives[k].starting_
  /\ k' = k + 1
  /\ UNCHANGED <<lives, pc, deleting, histories>>

RestartServer ==
  /\ pc = "start" /\ k \in Servers /\ lives[k].starting_
  /\ SetLife(k, StopRequested(lives[k]))
  /\ pc' = "rejoin"
  /\ UNCHANGED <<k, deleting, histories>>

RejoinServer ==
  /\ pc = "rejoin" /\ Joined(lives[k])
  /\ InitServer

StartReturns ==
  /\ pc = "start" /\ k > Len(lives)
  /\ pc' = "idle" /\ k' = 1
  /\ UNCHANGED <<lives, deleting, histories>>

\* StopDhcpServers, by the caller or by the destructor.
StopDhcpServers ==
  /\ pc = "idle"
  /\ pc' = "stop" /\ k' = 1
  /\ deleting' \in BOOLEAN
  /\ UNCHANGED <<lives, histories>>

StopServer ==
  /\ pc = "stop" /\ k \in Servers
  /\ SetLife(k, StopRequested(lives[k]))
  /\ IF lives[k].thread_ = "null"
     THEN k' = k + 1 /\ pc' = pc
     ELSE k' = k /\ pc' = "join"
  /\ UNCHANGED <<deleting, histories>>

JoinServer ==
  /\ pc = "join" /\ Joined(lives[k])
  /\ pc' = "stop" /\ k' = k + 1
  /\ UNCHANGED <<lives, deleting, histories>>

StopReturns ==
  /\ pc = "stop" /\ k > Len(lives)
  /\ pc' = IF deleting THEN Cleared("destroyed") ELSE "idle"
  /\ k' = 1 /\ stopped' = TRUE
  /\ UNCHANGED <<lives, deleting, starts, refused>>

-----------------------------------------------------------------------------
\* The thread of server s: at its loop, with a datagram or an error code
\* received, or left by an exception.
CheckStarting(s) ==
  lives[s].thread_ = "loop" /\ SetLife(s, LoopChecked(lives[s]))

Receive(s) ==
  lives[s].thread_ = "receiving" /\ SetLife(s, BackToLoop(lives[s]))

SocketThrows(s) ==
  /\ lives[s].thread_ = "receiving"
  /\ {"receiveBytes", "sendTo"} \cap SocketFailures # {}
  /\ SetLife(s, ThreadDies(lives[s]))

-----------------------------------------------------------------------------
Caller ==
  \/ ConfigPoeAdapter
  \/ StartDhcpServers \/ StartServer \/ RestartServer \/ RejoinServer \/ StartReturns
  \/ StopDhcpServers \/ StopServer \/ JoinServer \/ StopReturns

Thread(s) ==
  /\ pc \notin {"destroyed", "undefined"}
  /\ CheckStarting(s) \/ Receive(s) \/ SocketThrows(s)
  /\ UNCHANGED <<pc, k, deleting, histories>>

Next == Caller \/ \E s \in Servers : Thread(s)

Spec == Init /\ [][Next]_vars

-----------------------------------------------------------------------------
(***************************************************************************)
(* Properties.                                                             *)
(***************************************************************************)

\* ConfigPoeAdapter destroys a server under its thread only when servers have
\* been started and not stopped since, and the destructor never does: the
\* StopDhcpServers before ConfigPoeAdapter, as StartDhcpServer has it, is
\* enough, whatever was called, and failed, before.
StopBeforeConfigIsEnough ==
  pc = "undefined" => ~stopped

\* When the system refuses no bind and no broadcast option, the calls since
\* ConfigPoeAdapter tell whether the servers run: all do after the first
\* StartDhcpServers, none after a second one or StopDhcpServers; the second
\* stops them for good, and only ConfigPoeAdapter, which makes new ones, gets
\* servers to serve again.
StartedOnceMeansRunning ==
  pc = "idle" /\ ~refused =>
    \A s \in Servers : IsRunning(lives[s]) <=> starts = 1 /\ ~stopped
=============================================================================

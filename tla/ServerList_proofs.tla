--------------------------- MODULE ServerList_proofs ---------------------------
(***************************************************************************)
(* The invariants of ServerList for every number of servers and every      *)
(* failure of the sockets.                                                 *)
(***************************************************************************)
EXTENDS ServerList, TLAPS

FlagTypes == {deleting, stopped, refused} \subseteq BOOLEAN

(***************************************************************************)
(* The types, and that a call waits for a server of the list.              *)
(***************************************************************************)
ListTypes ==
  /\ lives \in Seq(Life)
  /\ pc \in {"idle", "start", "rejoin", "stop", "join", "destroyed", "undefined"}
  /\ k \in Nat \ {0}
  /\ starts \in 0 .. 2
  /\ pc \in {"rejoin", "join"} => k \in Servers
  /\ FlagTypes

(***************************************************************************)
(* StopDhcpServers leaves no thread behind it, and from its return to the  *)
(* next StartDhcpServers there is none.                                    *)
(***************************************************************************)
QuietInv ==
  /\ pc \in {"start", "rejoin"} => ~stopped
  /\ pc \in {"stop", "join"} => \A s \in Servers : s < k => ~ThreadAlive(lives[s])
  /\ stopped => pc # "undefined" /\ \A s \in Servers : ~ThreadAlive(lives[s])

Behind == {s \in Servers : s < k}

NoneRuns(S) == \A s \in S : ~IsRunning(lives[s])

(***************************************************************************)
(* Where nothing has been refused: a server is new, or its socket is bound *)
(* and it has had its thread.  The first StartDhcpServers goes from new    *)
(* servers to running ones, a further call leaves servers behind it that   *)
(* do not run and cannot start again.                                      *)
(***************************************************************************)
RunInv ==
  ~refused =>
    /\ \A s \in Servers : IF lives[s].thread_ = "null" THEN lives[s] = NewServer
                          ELSE lives[s].dhcp_socket_ = "bound"
    /\ starts = 0 =>
         pc \notin {"start", "rejoin"} /\ \A s \in Servers : lives[s] = NewServer
    /\ starts = 1 /\ pc \in {"start", "rejoin"} =>
         /\ pc = "start"
         /\ \A s \in Servers : IF s < k THEN IsRunning(lives[s]) ELSE lives[s] = NewServer
    /\ starts = 2 \/ (starts = 1 /\ pc \notin {"start", "rejoin"}) =>
         \A s \in Servers : lives[s].thread_ # "null"
    /\ starts = 1 /\ pc = "idle" /\ ~stopped => \A s \in Servers : IsRunning(lives[s])
    /\ starts = 2 => NoneRuns(IF pc \in {"start", "rejoin"} THEN Behind ELSE Servers)
    /\ stopped => NoneRuns(Servers)
    /\ pc \in {"stop", "join", "rejoin"} => NoneRuns(Behind)
    /\ pc \in {"join", "rejoin"} => ~IsRunning(lives[k])

(***************************************************************************)
(* The inductive invariant.                                                *)
(***************************************************************************)
ListInv == ListTypes /\ QuietInv /\ RunInv

-----------------------------------------------------------------------------
\* SetLife changes one server.
LEMMA SetLifeFacts ==
  ASSUME lives \in Seq(Life), NEW s \in Servers, NEW life \in Life, SetLife(s, life)
  PROVE  /\ lives' \in Seq(Life) /\ Len(lives') = Len(lives)
         /\ lives'[s] = life
         /\ \A t \in Servers : t # s => lives'[t] = lives[t]
BY DEF SetLife, Servers

\* What a thread does to its server: it ends or goes on, and leaves the flag
\* and the socket alone.
LEMMA ThreadFacts ==
  ASSUME lives \in Seq(Life), NEW s \in Servers, Thread(s)
  PROVE  /\ lives' \in Seq(Life) /\ Len(lives') = Len(lives)
         /\ \A t \in Servers :
              /\ IsRunning(lives'[t]) <=> IsRunning(lives[t])
              /\ lives'[t].dhcp_socket_ = lives[t].dhcp_socket_
              /\ lives'[t].thread_ = "null" <=> lives[t].thread_ = "null"
              /\ ThreadAlive(lives'[t]) => ThreadAlive(lives[t])
              /\ lives[t].thread_ = "null" => lives'[t] = lives[t]
<1>1. lives[s] \in Life
  BY DEF Servers
<1>2. ThreadAlive(lives[s]) /\ lives[s].thread_ # "null"
  BY DEF Thread, CheckStarting, Receive, SocketThrows, ThreadAlive
<1>3. PICK life \in {LoopChecked(lives[s]), BackToLoop(lives[s]), ThreadDies(lives[s])} :
        SetLife(s, life)
  BY DEF Thread, CheckStarting, Receive, SocketThrows
<1>4. /\ life \in Life /\ life.thread_ # "null"
      /\ life.starting_ = lives[s].starting_ /\ life.dhcp_socket_ = lives[s].dhcp_socket_
  BY <1>1, <1>3 DEF Life, LoopChecked, BackToLoop, ThreadDies
<1>5. /\ lives' \in Seq(Life) /\ Len(lives') = Len(lives) /\ lives'[s] = life
      /\ \A t \in Servers : t # s => lives'[t] = lives[t]
  BY <1>3, <1>4, SetLifeFacts
<1> QED
  BY <1>2, <1>4, <1>5 DEF IsRunning

\* InitServer starts a server that has no socket, or leaves it without its
\* thread.  It is refused by the system only where it could bind.
LEMMA InitServerFacts ==
  ASSUME ListTypes, InitServer, k \in Servers
  PROVE  /\ lives' \in Seq(Life) /\ Len(lives') = Len(lives)
         /\ \A t \in Servers : t # k => lives'[t] = lives[t]
         /\ \/ CanBind(lives[k]) /\ lives'[k] = Started(lives[k]) /\ refused' = refused
            \/ ~CanBind(lives[k]) /\ lives'[k] = lives[k] /\ refused' = refused
            \/ CanBind(lives[k]) /\ refused'
<1>1. lives \in Seq(Life) /\ lives[k] \in Life
  BY DEF ListTypes, Servers
<1>2. CASE CanBind(lives[k]) /\ SetLife(k, Started(lives[k])) /\ UNCHANGED refused
  <2>1. Started(lives[k]) \in Life
    BY DEF Started, Life
  <2> QED
    BY <1>1, <1>2, <2>1, SetLifeFacts
<1>3. CASE /\ \E life \in FailedInits(lives[k], SocketFailures) : SetLife(k, life)
           /\ refused' = (refused \/ CanBind(lives[k]))
  <2>1. PICK life \in FailedInits(lives[k], SocketFailures) : SetLife(k, life)
    BY <1>3
  <2>2. life \in Life /\ (~CanBind(lives[k]) => life = lives[k])
    BY <1>1, <2>1 DEF FailedInits, Life
  <2>3. refused \in BOOLEAN
    BY DEF ListTypes, FlagTypes
  <2>4. /\ lives' \in Seq(Life) /\ Len(lives') = Len(lives) /\ lives'[k] = life
        /\ \A t \in Servers : t # k => lives'[t] = lives[t]
    BY <1>1, <2>1, <2>2, SetLifeFacts
  <2> QED
    BY <1>3, <2>2, <2>3, <2>4
<1> QED
  BY <1>2, <1>3 DEF InitServer

\* A stop asks one server, which keeps its thread and its socket.
LEMMA StopRequestedFacts ==
  ASSUME ListTypes, k \in Servers, SetLife(k, StopRequested(lives[k]))
  PROVE  /\ lives' \in Seq(Life) /\ Len(lives') = Len(lives)
         /\ \A t \in Servers : t # k => lives'[t] = lives[t]
         /\ lives'[k].thread_ = lives[k].thread_
         /\ lives'[k].dhcp_socket_ = lives[k].dhcp_socket_
         /\ lives[k].thread_ # "null" => ~IsRunning(lives'[k])
         /\ lives[k].thread_ = "null" => lives'[k] = lives[k]
<1>1. lives \in Seq(Life) /\ lives[k] \in Life
  BY DEF ListTypes, Servers
<1>2. /\ StopRequested(lives[k]) \in Life
      /\ StopRequested(lives[k]).thread_ = lives[k].thread_
      /\ StopRequested(lives[k]).dhcp_socket_ = lives[k].dhcp_socket_
      /\ lives[k].thread_ # "null" => ~StopRequested(lives[k]).starting_
      /\ lives[k].thread_ = "null" => StopRequested(lives[k]) = lives[k]
  BY <1>1 DEF StopRequested, Life
<1>3. /\ lives' \in Seq(Life) /\ Len(lives') = Len(lives) /\ lives'[k] = StopRequested(lives[k])
      /\ \A t \in Servers : t # k => lives'[t] = lives[t]
  BY <1>1, <1>2, SetLifeFacts
<1> QED
  BY <1>2, <1>3 DEF IsRunning

\* ConfigPoeAdapter makes new servers, of no thread.
LEMMA NewServersFacts ==
  ASSUME ConfigPoeAdapter
  PROVE  /\ lives' \in Seq(Life)
         /\ \A s \in Servers' : lives'[s] = NewServer
         /\ ~ThreadAlive(NewServer) /\ ~IsRunning(NewServer) /\ NewServer.thread_ = "null"
<1>1. PICK n \in 0 .. N : lives' = [s \in 1 .. n |-> NewServer]
  BY DEF ConfigPoeAdapter
<1>2. NewServer \in Life
  BY DEF NewServer, Life
<1>3. n \in Nat
  BY ServerListAssumption
<1>4. lives' \in Seq(Life) /\ Len(lives') = n
  BY <1>1, <1>2, <1>3
<1> QED
  BY <1>1, <1>4 DEF Servers, NewServer, ThreadAlive, IsRunning

-----------------------------------------------------------------------------
\* An empty list satisfies the invariant.
LEMMA InitListInv == Init => ListInv
<1> SUFFICES ASSUME Init PROVE ListInv
  OBVIOUS
<1>1. lives \in Seq(Life) /\ Servers = {}
  BY DEF Init, Servers
<1>2. FlagTypes
  BY Zenon DEF Init, FlagTypes
<1> QED
  BY <1>1, <1>2 DEF Init, ListInv, ListTypes, QuietInv, RunInv, NoneRuns, Behind

\* Every step keeps the flags Booleans.
LEMMA FlagTypesStep == FlagTypes /\ [Next]_vars => FlagTypes'
BY Zenon DEF FlagTypes, Next, Caller, ConfigPoeAdapter, StartDhcpServers, StartServer, RestartServer,
             RejoinServer, InitServer, StartReturns, StopDhcpServers, StopServer, JoinServer,
             StopReturns, Thread, vars, histories

\* Every step keeps the types.
LEMMA ListTypesStep == ListTypes /\ [Next]_vars => ListTypes'
<1> SUFFICES ASSUME ListTypes, [Next]_vars PROVE ListTypes'
  OBVIOUS
<1>1. FlagTypes'
  BY FlagTypesStep DEF ListTypes
<1> USE <1>1 DEF ListTypes
<1>2. CASE ConfigPoeAdapter
  <2>1. pc' \in {"idle", "undefined"} /\ k' = k /\ starts' = 0
    BY <1>2 DEF ConfigPoeAdapter, Cleared
  <2> QED
    BY <1>2, <2>1, NewServersFacts
<1>3. ASSUME InitServer, k \in Servers PROVE ListTypes'
  BY <1>3, InitServerFacts DEF InitServer
<1>4. CASE StartServer \/ RejoinServer
  BY <1>3, <1>4 DEF StartServer, RejoinServer
<1>5. CASE RestartServer \/ StopServer
  BY <1>5, StopRequestedFacts DEF RestartServer, StopServer, Servers, histories
<1>6. CASE StartDhcpServers \/ StartReturns \/ StopDhcpServers
  BY <1>6 DEF StartDhcpServers, StartReturns, StopDhcpServers, histories
<1>7. CASE JoinServer
  BY <1>7 DEF JoinServer, Servers, histories
<1>8. CASE StopReturns
  <2>1. /\ pc' \in {"idle", "destroyed", "undefined"}
        /\ k' = 1 /\ lives' = lives /\ starts' = starts
    BY <1>8 DEF StopReturns, Cleared
  <2> QED
    BY <2>1
<1>9. ASSUME NEW s \in Servers, Thread(s) PROVE ListTypes'
  BY <1>9, ThreadFacts DEF Thread, Servers, histories
<1>10. CASE UNCHANGED vars
  BY <1>10 DEF vars, histories, Servers
<1> QED
  BY <1>2, <1>4, <1>5, <1>6, <1>7, <1>8, <1>9, <1>10 DEF Next, Caller

\* Every step keeps the threads where they may be.
LEMMA QuietStep == ListTypes /\ QuietInv /\ [Next]_vars => QuietInv'
<1> SUFFICES ASSUME ListTypes, QuietInv, [Next]_vars PROVE QuietInv'
  OBVIOUS
<1> USE DEF QuietInv
<1>1. CASE ConfigPoeAdapter
  BY <1>1, NewServersFacts DEF ConfigPoeAdapter, Cleared
<1>2. CASE StartServer \/ RejoinServer
  BY <1>2 DEF StartServer, RejoinServer, InitServer
<1>3. CASE RestartServer
  BY <1>3 DEF RestartServer, histories
<1>4. CASE StopServer
  <2>1. \A s \in Servers : ThreadAlive(lives'[s]) <=> ThreadAlive(lives[s])
    BY <1>4, StopRequestedFacts DEF StopServer, ThreadAlive
  <2>2. Servers' = Servers
    BY <1>4, StopRequestedFacts DEF StopServer, Servers
  <2>3. k' = k \/ (k' = k + 1 /\ ~ThreadAlive(lives[k]))
    BY <1>4 DEF StopServer, ThreadAlive
  <2> QED
    BY <1>4, <2>1, <2>2, <2>3 DEF StopServer, Servers, ListTypes, histories
<1>5. CASE JoinServer
  BY <1>5 DEF JoinServer, Joined, Servers, ListTypes, histories
<1>6. CASE StartDhcpServers \/ StartReturns \/ StopDhcpServers
  BY <1>6 DEF StartDhcpServers, StartReturns, StopDhcpServers, Servers, histories
<1>7. CASE StopReturns
  <2>1. \A s \in Servers : ~ThreadAlive(lives[s])
    BY <1>7 DEF StopReturns, Servers, ListTypes
  <2> QED
    BY <1>7, <2>1 DEF StopReturns, Cleared, Servers
<1>8. ASSUME NEW s \in Servers, Thread(s) PROVE QuietInv'
  <2>1. lives \in Seq(Life)
    BY DEF ListTypes
  <2> QED
    BY <1>8, <2>1, ThreadFacts DEF Thread, Servers, histories
<1>9. CASE UNCHANGED vars
  BY <1>9 DEF vars, histories, Servers
<1> QED
  BY <1>1, <1>2, <1>3, <1>4, <1>5, <1>6, <1>7, <1>8, <1>9 DEF Next, Caller

\* InitServer, where nothing is refused, starts the new server it is at, and
\* leaves one whose socket is bound alone.
LEMMA InitServerRuns ==
  ASSUME ListTypes, RunInv, InitServer, k \in Servers, pc \in {"start", "rejoin"},
         ~IsRunning(lives[k]), ~stopped
  PROVE  RunInv'
<1> SUFFICES ASSUME ~refused' PROVE RunInv'
  BY DEF RunInv
<1>1. ~refused
  BY DEF InitServer
<1>2. /\ Len(lives') = Len(lives) /\ Servers' = Servers
      /\ \A t \in Servers : t # k => lives'[t] = lives[t]
  BY InitServerFacts DEF Servers
<1>3. pc' = "start" /\ k' = k + 1 /\ starts' = starts /\ stopped' = stopped
  BY DEF InitServer
<1>4. k \in Nat /\ \A s \in Servers : s \in Nat
  BY DEF ListTypes, Servers
<1>5. \A s \in Servers : s < k' <=> s < k \/ s = k
  BY <1>3, <1>4
<1>6. CASE starts = 1
  <2>1. lives[k] = NewServer /\ pc = "start"
    BY <1>1, <1>6 DEF RunInv
  <2>2. lives'[k] = Started(lives[k])
    BY <1>1, <2>1, InitServerFacts DEF CanBind, NewServer
  <2>3. /\ IsRunning(lives'[k]) /\ lives'[k].thread_ # "null"
        /\ lives'[k].dhcp_socket_ = "bound"
    BY <2>2 DEF Started, IsRunning
  <2>4. \A s \in Servers' : IF lives'[s].thread_ = "null" THEN lives'[s] = NewServer
                            ELSE lives'[s].dhcp_socket_ = "bound"
    BY <1>1, <1>2, <2>3 DEF RunInv
  <2>5. \A s \in Servers' : IF s < k' THEN IsRunning(lives'[s]) ELSE lives'[s] = NewServer
    <3>1. \A s \in Servers : IF s < k THEN IsRunning(lives[s]) ELSE lives[s] = NewServer
      BY <1>1, <1>6 DEF RunInv
    <3> QED
      BY <1>2, <1>5, <2>3, <3>1
  <2> QED
    BY <1>3, <1>6, <2>4, <2>5 DEF RunInv
<1>7. CASE starts = 2
  <2>1. lives[k].dhcp_socket_ = "bound"
    BY <1>1, <1>7 DEF RunInv
  <2>2. lives'[k] = lives[k]
    BY <2>1, InitServerFacts DEF CanBind
  <2>3. \A s \in Servers : lives'[s] = lives[s]
    BY <1>2, <2>2
  <2>4. NoneRuns(Behind)'
    <3>1. \A s \in Servers : s < k => ~IsRunning(lives[s])
      BY <1>1, <1>7 DEF RunInv, NoneRuns, Behind
    <3> QED
      BY <1>2, <1>5, <2>3, <3>1 DEF NoneRuns, Behind
  <2>5. \A s \in Servers' : lives'[s].thread_ # "null" /\ lives'[s].dhcp_socket_ = "bound"
    BY <1>1, <1>2, <1>7, <2>3 DEF RunInv
  <2> QED
    BY <1>3, <1>7, <2>4, <2>5 DEF RunInv
<1>8. starts \in {1, 2}
  BY <1>1 DEF RunInv, ListTypes
<1> QED
  BY <1>6, <1>7, <1>8

\* Every step keeps count of the servers that run.
LEMMA RunStep == ListTypes /\ QuietInv /\ RunInv /\ [Next]_vars => RunInv'
<1> SUFFICES ASSUME ListTypes, QuietInv, RunInv, [Next]_vars PROVE RunInv'
  OBVIOUS
<1>1. lives \in Seq(Life) /\ k \in Nat /\ \A s \in Servers : s \in Nat
  BY DEF ListTypes, Servers
<1>2. CASE ConfigPoeAdapter
  <2>1. pc' \in {"idle", "undefined"} /\ starts' = 0
    BY <1>2 DEF ConfigPoeAdapter, Cleared
  <2> QED
    BY <1>2, <2>1, NewServersFacts DEF RunInv, NoneRuns
<1>3. CASE StartDhcpServers
  BY <1>1, <1>3 DEF StartDhcpServers, RunInv, NoneRuns, Behind, Servers, ListTypes
<1>4. CASE StartServer
  BY <1>4, InitServerRuns DEF StartServer, IsRunning, QuietInv
<1>5. CASE RestartServer
  <2>1. Servers' = Servers
    BY <1>5, StopRequestedFacts DEF RestartServer, Servers
  <2> QED
    BY <1>1, <1>5, <2>1, StopRequestedFacts
       DEF RestartServer, RunInv, NoneRuns, Behind, histories, QuietInv, NewServer, IsRunning, ListTypes
<1>6. CASE RejoinServer
  <2>1. k \in Servers
    BY <1>6 DEF RejoinServer, ListTypes
  <2>2. CASE refused
    BY <1>6, <2>2 DEF RejoinServer, InitServer, RunInv
  <2>3. CASE ~refused
    <3>1. ~IsRunning(lives[k])
      BY <1>6, <2>3 DEF RejoinServer, RunInv
    <3> QED
      BY <1>6, <2>1, <3>1, InitServerRuns DEF RejoinServer, QuietInv
  <2> QED
    BY <2>2, <2>3
<1>7. CASE StartReturns
  <2>1. pc = "start" /\ pc' = "idle" /\ UNCHANGED <<lives, histories>> /\ Servers' = Servers
    BY <1>7 DEF StartReturns, Servers
  <2>2. \A s \in Servers : s < k
    BY <1>1, <1>7 DEF StartReturns, Servers
  <2>3. Behind = Servers
    BY <2>2 DEF Behind
  <2>4. ~refused => starts \in {1, 2}
    BY <2>1 DEF RunInv, ListTypes
  <2>5. ~refused /\ starts = 1 =>
          \A s \in Servers : IsRunning(lives[s]) /\ lives[s].thread_ # "null"
    BY <2>1, <2>2 DEF RunInv, NewServer, IsRunning
  <2> QED
    BY <2>1, <2>3, <2>4, <2>5 DEF RunInv, NoneRuns, histories, QuietInv
<1>8. CASE StopDhcpServers
  BY <1>1, <1>8 DEF StopDhcpServers, RunInv, NoneRuns, Behind, Servers, histories
<1>9. CASE StopServer
  <2>1. Servers' = Servers
    BY <1>9, StopRequestedFacts DEF StopServer, Servers
  <2>2. ASSUME NEW s \in Servers, ~IsRunning(lives[s]) PROVE ~IsRunning(lives'[s])
    BY <1>9, <2>2, StopRequestedFacts DEF StopServer, IsRunning
  <2> QED
    BY <1>1, <1>9, <2>1, <2>2, StopRequestedFacts
       DEF StopServer, RunInv, NoneRuns, Behind, histories, NewServer, IsRunning, ListTypes
<1>10. CASE JoinServer
  BY <1>1, <1>10 DEF JoinServer, RunInv, NoneRuns, Behind, Servers, histories, ListTypes
<1>11. CASE StopReturns
  BY <1>1, <1>11 DEF StopReturns, Cleared, RunInv, NoneRuns, Behind, Servers, ListTypes
<1>12. ASSUME NEW s \in Servers, Thread(s) PROVE RunInv'
  <2>1. Servers' = Servers
    BY <1>1, <1>12, ThreadFacts DEF Servers
  <2> QED
    BY <1>1, <1>12, <2>1, ThreadFacts
       DEF Thread, RunInv, NoneRuns, Behind, histories, NewServer, ListTypes
<1>13. CASE UNCHANGED vars
  BY <1>13 DEF vars, histories, Servers, RunInv, NoneRuns, Behind
<1> QED
  BY <1>2, <1>3, <1>4, <1>5, <1>6, <1>7, <1>8, <1>9, <1>10, <1>11, <1>12, <1>13
     DEF Next, Caller

-----------------------------------------------------------------------------
\* The inductive invariant holds whatever is called in whatever order.
THEOREM ListInvariance == Spec => []ListInv
<1>1. ListInv /\ [Next]_vars => ListInv'
  BY ListTypesStep, QuietStep, RunStep DEF ListInv
<1> QED
  BY <1>1, InitListInv, PTL DEF Spec

\* ConfigPoeAdapter destroys a server under its thread only where the servers
\* have been started and not stopped since.
THEOREM StopBeforeConfig == Spec => []StopBeforeConfigIsEnough
<1>1. ListInv => StopBeforeConfigIsEnough
  BY DEF ListInv, QuietInv, StopBeforeConfigIsEnough
<1> QED
  BY <1>1, ListInvariance, PTL

\* The servers that are not refused anything run after the first
\* StartDhcpServers since ConfigPoeAdapter, and at no other time.
THEOREM ServersStartOnce == Spec => []StartedOnceMeansRunning
<1>1. ListInv => StartedOnceMeansRunning
  <2> SUFFICES ASSUME ListInv, pc = "idle", ~refused, NEW s \in Servers
               PROVE  IsRunning(lives[s]) <=> starts = 1 /\ ~stopped
    BY DEF StartedOnceMeansRunning
  <2>1. starts \in {0, 1, 2}
    BY DEF ListInv, ListTypes
  <2>2. CASE starts = 0
    BY <2>2 DEF ListInv, RunInv, NewServer, IsRunning
  <2>3. CASE starts \in {1, 2}
    BY <2>3 DEF ListInv, RunInv, NoneRuns
  <2> QED
    BY <2>1, <2>2, <2>3
<1> QED
  BY <1>1, ListInvariance, PTL
=============================================================================

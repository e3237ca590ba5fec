---------------------------- MODULE Service_proofs ----------------------------
(***************************************************************************)
(* The invariants of Service for every number of servers and every failure *)
(* of the sockets.                                                         *)
(***************************************************************************)
EXTENDS Service, TLAPS

(***************************************************************************)
(* The types, and where the loops over dhcp_server_list_ are: no further   *)
(* than one server after the last.                                         *)
(***************************************************************************)
ServiceTypes ==
  /\ pc \in {"register", "report", "raise", "start", "rejoin", "while", "stop", "join",
             "returned"}
  /\ process \in {"up", "stopping", "joining", "destroyed", "gone"}
  /\ lives \in Seq(Life)
  /\ k \in Nat \ {0} /\ e \in Nat \ {0}
  /\ pc \in {"register", "report", "raise"} => lives = <<>> /\ k = 1
  /\ pc = "start" => k <= Len(lives) + 1
  /\ pc \in {"rejoin", "join"} => k \in Servers
  /\ process = "joining" => e \in Servers
  /\ process = "up" => e = 1

(***************************************************************************)
(* ServiceMain, once it stops the servers, leaves no thread behind it, and *)
(* no thread is created any more.                                          *)
(***************************************************************************)
QuietBehind ==
  /\ pc \in {"stop", "join"} => \A s \in Servers : s < k => ~ThreadAlive(lives[s])
  /\ pc = "returned" => \A s \in Servers : ~ThreadAlive(lives[s])

(***************************************************************************)
(* The exit of a service told to stop while it waited leaves no thread     *)
(* behind it: ServiceMain has left StartDhcpServer for good.               *)
(***************************************************************************)
ExitQuiet ==
  toldAt = "while" =>
    /\ pc \in {"while", "stop", "join", "returned"}
    /\ process \in {"stopping", "joining"} =>
         \A s \in Servers : s < e => ~ThreadAlive(lives[s])
    /\ process = "destroyed" => \A s \in Servers : ~ThreadAlive(lives[s])

(***************************************************************************)
(* Until the exit, ret tells whether the server just dealt with runs, and  *)
(* StartDhcpServer is left by the last.                                    *)
(***************************************************************************)
RetTells ==
  process = "up" =>
    /\ pc \in {"register", "report", "raise"} => ~ret
    /\ pc = "start" /\ ret => k > 1 /\ IsRunning(lives[k - 1])
    /\ pc = "while" => lives # <<>> /\ IsRunning(lives[Len(lives)])

(***************************************************************************)
(* Where nothing has been refused there is one round, unless there are no  *)
(* servers: those behind it run, those before it are new.                  *)
(***************************************************************************)
FirstRound ==
  process = "up" /\ ~refused =>
    /\ pc # "rejoin"
    /\ pc = "start" =>
         /\ \A s \in Servers : IF s < k THEN IsRunning(lives[s]) ELSE lives[s] = NewServer
         /\ k > 1 => ret
    /\ pc = "while" => \A s \in Servers : IsRunning(lives[s])

(***************************************************************************)
(* The inductive invariant.                                                *)
(***************************************************************************)
ServiceInv == ServiceTypes /\ QuietBehind /\ ExitQuiet /\ RetTells /\ FirstRound

-----------------------------------------------------------------------------
\* SetLife changes one server.
LEMMA SetLifeFacts ==
  ASSUME lives \in Seq(Life), NEW s \in Servers, NEW life \in Life, SetLife(s, life)
  PROVE  /\ lives' \in Seq(Life) /\ Len(lives') = Len(lives) /\ Servers' = Servers
         /\ lives'[s] = life
         /\ \A t \in Servers : t # s => lives'[t] = lives[t]
BY DEF SetLife, Servers

\* The step of a thread.
Runs(s) == ThreadStep(s) /\ (CheckStarting(s) \/ Receive(s) \/ SocketThrows(s))

\* What a thread does to its server: it ends or goes on, and leaves the flag
\* alone.
LEMMA ThreadFacts ==
  ASSUME lives \in Seq(Life), NEW s, Runs(s)
  PROVE  /\ lives' \in Seq(Life) /\ Len(lives') = Len(lives) /\ Servers' = Servers
         /\ \A t \in Servers :
              /\ IsRunning(lives'[t]) <=> IsRunning(lives[t])
              /\ ThreadAlive(lives'[t]) => ThreadAlive(lives[t])
              /\ lives[t].thread_ = "null" => lives'[t] = lives[t]
<1>1. s \in Servers /\ lives[s] \in Life
  BY DEF Runs, ThreadStep, Servers
<1>2. ThreadAlive(lives[s]) /\ lives[s].thread_ # "null"
  BY DEF Runs, CheckStarting, Receive, SocketThrows, ThreadAlive
<1>3. PICK life \in {LoopChecked(lives[s]), BackToLoop(lives[s]), ThreadDies(lives[s])} :
        SetLife(s, life)
  BY DEF Runs, CheckStarting, Receive, SocketThrows
<1>4. life \in Life /\ life.starting_ = lives[s].starting_
  BY <1>1, <1>3 DEF Life, LoopChecked, BackToLoop, ThreadDies
<1>5. /\ lives' \in Seq(Life) /\ Len(lives') = Len(lives) /\ Servers' = Servers
      /\ lives'[s] = life /\ \A t \in Servers : t # s => lives'[t] = lives[t]
  BY <1>1, <1>3, <1>4, SetLifeFacts
<1> QED
  BY <1>2, <1>4, <1>5 DEF IsRunning

\* InitServer starts a server that has no socket, or leaves it without a new
\* thread.  It is refused by the system only where it could bind.
LEMMA InitServerFacts ==
  ASSUME lives \in Seq(Life), k \in Servers, InitServer
  PROVE  /\ lives' \in Seq(Life) /\ Len(lives') = Len(lives) /\ Servers' = Servers
         /\ \A t \in Servers : t # k => lives'[t] = lives[t]
         /\ ret' <=> IsRunning(lives'[k])
         /\ \/ CanBind(lives[k]) /\ lives'[k] = Started(lives[k]) /\ (refused' <=> refused)
            \/ ~CanBind(lives[k]) /\ lives'[k] = lives[k] /\ (refused' <=> refused)
            \/ CanBind(lives[k]) /\ refused'
<1>1. lives[k] \in Life
  BY DEF Servers
<1>2. CASE CanBind(lives[k]) /\ SetLife(k, Started(lives[k])) /\ UNCHANGED refused
  <2>1. Started(lives[k]) \in Life
    BY DEF Started, Life
  <2> QED
    BY <1>2, <2>1, SetLifeFacts DEF InitServer
<1>3. CASE /\ \E life \in FailedInits(lives[k], SocketFailures) : SetLife(k, life)
           /\ refused' = (refused \/ CanBind(lives[k]))
  <2>1. PICK life \in FailedInits(lives[k], SocketFailures) : SetLife(k, life)
    BY <1>3
  <2>2. life \in Life /\ (~CanBind(lives[k]) => life = lives[k])
    BY <1>1, <2>1 DEF FailedInits, Life
  <2>3. /\ lives' \in Seq(Life) /\ Len(lives') = Len(lives) /\ Servers' = Servers
        /\ lives'[k] = life /\ \A t \in Servers : t # k => lives'[t] = lives[t]
    BY <2>1, <2>2, SetLifeFacts
  <2> QED
    BY <1>3, <2>2, <2>3 DEF InitServer
<1> QED
  BY <1>2, <1>3 DEF InitServer

\* A stop, of ServiceMain or of the exit, asks one server, which keeps its
\* thread.
LEMMA StopRequestedFacts ==
  ASSUME lives \in Seq(Life), NEW s \in Servers, SetLife(s, StopRequested(lives[s]))
  PROVE  /\ lives' \in Seq(Life) /\ Len(lives') = Len(lives) /\ Servers' = Servers
         /\ \A t \in Servers : t # s => lives'[t] = lives[t]
         /\ \A t \in Servers : ThreadAlive(lives'[t]) <=> ThreadAlive(lives[t])
<1>1. lives[s] \in Life
  BY DEF Servers
<1>2. StopRequested(lives[s]) \in Life /\ StopRequested(lives[s]).thread_ = lives[s].thread_
  BY <1>1 DEF StopRequested, Life
<1>3. /\ lives' \in Seq(Life) /\ Len(lives') = Len(lives) /\ Servers' = Servers
      /\ lives'[s] = StopRequested(lives[s])
      /\ \A t \in Servers : t # s => lives'[t] = lives[t]
  BY <1>2, SetLifeFacts
<1> QED
  BY <1>2, <1>3 DEF ThreadAlive

\* ConfigPoeAdapter, in RaiseBrun, makes new servers.
LEMMA NewServersFacts ==
  ASSUME RaiseBrun
  PROVE  lives' \in Seq(Life) /\ \A s \in Servers' : lives'[s] = NewServer
<1>1. PICK n \in 0 .. N : lives' = [s \in 1 .. n |-> NewServer]
  BY DEF RaiseBrun, MakeServers
<1>2. NewServer \in Life
  BY DEF NewServer, Life
<1>3. n \in Nat
  BY ServiceAssumption
<1>4. lives' \in Seq(Life) /\ Len(lives') = n
  BY <1>1, <1>2, <1>3
<1> QED
  BY <1>1, <1>4 DEF Servers

-----------------------------------------------------------------------------
\* A service just started satisfies the invariant.
LEMMA InitServiceInv == Init => ServiceInv
<1> SUFFICES ASSUME Init PROVE ServiceInv
  OBVIOUS
<1>1. lives \in Seq(Life)
  BY DEF Init
<1> QED
  BY <1>1 DEF Init, ServiceInv, ServiceTypes, QuietBehind, ExitQuiet, RetTells, FirstRound

\* The steps, one by one; those of ServiceMain are taken while the servers are
\* there, and leave the exit where it is.
LEMMA NextIs ==
  [Next]_vars =>
    \/ MainStep /\ \/ RegisterServiceCtrlHandler \/ ReportRunning \/ RaiseBrun
                   \/ StartServer \/ RestartServer \/ RejoinServer \/ AllStarted
                   \/ LeaveWhile \/ StopServer \/ JoinServer \/ ServiceMainReturns
    \/ CtrlHandler \/ MainReturns \/ ExitStopsServer \/ ExitJoinsServer
    \/ ExitDestroysServers \/ ProcessEnds
    \/ \E s : Runs(s)
    \/ UNCHANGED vars
BY DEF Next, MainStep, ServiceMain, Exit, Runs

\* Every step keeps the types.
LEMMA ServiceTypesStep == ServiceTypes /\ [Next]_vars => ServiceTypes'
<1> SUFFICES ASSUME ServiceTypes, [Next]_vars PROVE ServiceTypes'
  OBVIOUS
<1> USE DEF ServiceTypes
<1>1. lives \in Seq(Life)
  OBVIOUS
<1>2. ASSUME MainStep PROVE process' = process /\ e' = e /\ process \in {"up", "stopping", "joining"}
  BY <1>2 DEF MainStep, exitVars, Intact
<1>3. CASE MainStep /\ RaiseBrun
  BY <1>2, <1>3, NewServersFacts DEF RaiseBrun, MakeServers, Servers
<1>4. CASE MainStep /\ (StartServer \/ RejoinServer)
  BY <1>1, <1>2, <1>4, InitServerFacts DEF StartServer, RejoinServer, InitServer, Servers
<1>5. CASE MainStep /\ (RestartServer \/ StopServer)
  BY <1>1, <1>2, <1>5, StopRequestedFacts DEF RestartServer, StopServer
<1>6. CASE MainStep /\ (RegisterServiceCtrlHandler \/ ReportRunning \/ AllStarted \/ LeaveWhile
                        \/ JoinServer \/ ServiceMainReturns)
  BY <1>2, <1>6 DEF RegisterServiceCtrlHandler, ReportRunning, AllStarted, LeaveWhile, JoinServer,
                    ServiceMainReturns, Servers
<1>7. CASE CtrlHandler \/ MainReturns \/ ExitJoinsServer \/ ExitDestroysServers \/ ProcessEnds
  BY <1>7 DEF CtrlHandler, MainReturns, ExitJoinsServer, ExitDestroysServers, ProcessEnds,
              mainVars, exitVars, Servers
<1>8. CASE ExitStopsServer
  BY <1>1, <1>8, StopRequestedFacts DEF ExitStopsServer, mainVars, Servers
<1>9. ASSUME NEW s, Runs(s) PROVE ServiceTypes'
  BY <1>1, <1>9, ThreadFacts DEF Runs, ThreadStep, mainVars, exitVars
<1>10. CASE UNCHANGED vars
  BY <1>10 DEF vars, mainVars, exitVars, Servers
<1> QED
  BY <1>3, <1>4, <1>5, <1>6, <1>7, <1>8, <1>9, <1>10, NextIs

\* Once ServiceMain has left StartDhcpServer, no step creates a thread.
LEMMA NoNewThreads ==
  ASSUME ServiceTypes, [Next]_vars, pc \in {"while", "stop", "join", "returned"}
  PROVE  /\ pc' \in {"while", "stop", "join", "returned"}
         /\ Servers' = Servers
         /\ \A s \in Servers : ThreadAlive(lives'[s]) => ThreadAlive(lives[s])
<1>1. lives \in Seq(Life)
  BY DEF ServiceTypes
<1>2. CASE MainStep /\ (LeaveWhile \/ JoinServer \/ ServiceMainReturns)
  BY <1>2 DEF LeaveWhile, JoinServer, ServiceMainReturns, Servers
<1>3. CASE MainStep /\ StopServer
  BY <1>1, <1>3, StopRequestedFacts DEF StopServer
<1>4. CASE CtrlHandler \/ MainReturns \/ ExitJoinsServer \/ ExitDestroysServers \/ ProcessEnds
  BY <1>4 DEF CtrlHandler, MainReturns, ExitJoinsServer, ExitDestroysServers, ProcessEnds,
              mainVars, Servers
<1>5. CASE ExitStopsServer
  BY <1>1, <1>5, StopRequestedFacts DEF ExitStopsServer, mainVars
<1>6. ASSUME NEW s, Runs(s)
      PROVE  pc' = pc /\ Servers' = Servers
             /\ \A t \in Servers : ThreadAlive(lives'[t]) => ThreadAlive(lives[t])
  BY <1>1, <1>6, ThreadFacts DEF Runs, ThreadStep, mainVars
<1>7. CASE UNCHANGED vars
  BY <1>7 DEF vars, mainVars, Servers
<1> QED
  BY <1>2, <1>3, <1>4, <1>5, <1>6, <1>7, NextIs
     DEF RegisterServiceCtrlHandler, ReportRunning, RaiseBrun, StartServer, RestartServer,
         RejoinServer, AllStarted

\* Every step keeps the threads behind ServiceMain ended.
LEMMA QuietStep == ServiceTypes /\ QuietBehind /\ [Next]_vars => QuietBehind'
<1> SUFFICES ASSUME ServiceTypes, QuietBehind, [Next]_vars PROVE QuietBehind'
  OBVIOUS
<1>1. /\ lives \in Seq(Life) /\ k \in Nat \ {0} /\ \A s \in Servers : s \in Nat /\ s <= Len(lives)
      /\ Len(lives) \in Nat
  BY DEF ServiceTypes, Servers
<1>2. ASSUME pc \in {"while", "stop", "join", "returned"}, pc' = pc, k' = k PROVE QuietBehind'
  BY <1>2, NoNewThreads DEF QuietBehind
<1>3. ASSUME ~MainStep PROVE pc' = pc /\ k' = k
  BY <1>3, NextIs
     DEF CtrlHandler, MainReturns, ExitStopsServer, ExitJoinsServer, ExitDestroysServers,
         ProcessEnds, Runs, ThreadStep, mainVars, vars
<1>4. CASE ~MainStep
  BY <1>2, <1>3, <1>4 DEF QuietBehind, ServiceTypes
<1>5. CASE MainStep /\ RegisterServiceCtrlHandler
  BY <1>5 DEF RegisterServiceCtrlHandler, QuietBehind, ServiceTypes, Servers
<1>6. CASE MainStep /\ (ReportRunning \/ RaiseBrun \/ StartServer \/ RestartServer \/ RejoinServer
                        \/ AllStarted)
  BY <1>6 DEF ReportRunning, RaiseBrun, StartServer, RestartServer, RejoinServer, AllStarted,
              InitServer, QuietBehind
<1>7. CASE MainStep /\ LeaveWhile
  BY <1>1, <1>7 DEF LeaveWhile, QuietBehind, Servers
<1>8. CASE MainStep /\ StopServer
  <2>1. /\ pc = "stop" /\ pc' \in {"stop", "join"} /\ Servers' = Servers
        /\ \A s \in Servers : ThreadAlive(lives'[s]) => ThreadAlive(lives[s])
    BY <1>8, NoNewThreads DEF StopServer
  <2>2. k' = k \/ (k' = k + 1 /\ ~ThreadAlive(lives[k]))
    BY <1>8 DEF StopServer, ThreadAlive
  <2> QED
    BY <1>1, <2>1, <2>2 DEF QuietBehind
<1>9. CASE MainStep /\ JoinServer
  <2>1. /\ pc = "join" /\ pc' = "stop" /\ k' = k + 1 /\ Servers' = Servers /\ lives' = lives
        /\ ~ThreadAlive(lives[k])
    BY <1>9 DEF JoinServer, Joined, Servers
  <2> QED
    BY <1>1, <2>1 DEF QuietBehind
<1>10. CASE MainStep /\ ServiceMainReturns
  BY <1>1, <1>10 DEF ServiceMainReturns, QuietBehind, Servers
<1> QED
  BY <1>4, <1>5, <1>6, <1>7, <1>8, <1>9, <1>10, NextIs DEF MainStep, ServiceMain

\* Every step keeps the threads behind the exit ended.
LEMMA ExitStep == ServiceTypes /\ ExitQuiet /\ [Next]_vars => ExitQuiet'
<1> SUFFICES ASSUME ServiceTypes, ExitQuiet, [Next]_vars, toldAt' = "while" PROVE ExitQuiet'
  BY DEF ExitQuiet
<1>1. /\ lives \in Seq(Life) /\ e \in Nat \ {0} /\ \A s \in Servers : s \in Nat /\ s <= Len(lives)
      /\ Len(lives) \in Nat
  BY DEF ServiceTypes, Servers
<1>2. toldAt = "while" \/ (CtrlHandler /\ pc = "while")
  BY NextIs
     DEF MainStep, CtrlHandler, MainReturns, ExitStopsServer, ExitJoinsServer,
         ExitDestroysServers, ProcessEnds, Runs, ThreadStep, vars
<1>3. /\ pc' \in {"while", "stop", "join", "returned"} /\ Servers' = Servers
      /\ \A s \in Servers : ThreadAlive(lives'[s]) => ThreadAlive(lives[s])
  BY <1>2, NoNewThreads DEF ExitQuiet
<1>4. CASE CtrlHandler
  BY <1>3, <1>4 DEF CtrlHandler, exitVars, ExitQuiet
<1>5. CASE ~CtrlHandler /\ UNCHANGED exitVars
  BY <1>2, <1>3, <1>5 DEF exitVars, ExitQuiet
<1>6. CASE MainReturns
  <2>1. process' = "stopping" /\ e' = 1
    BY <1>6 DEF MainReturns, ServiceTypes
  <2>2. \A s \in Servers : ~(s < 1)
    BY DEF Servers
  <2> QED
    BY <1>3, <2>1, <2>2 DEF ExitQuiet
<1>7. CASE ExitStopsServer
  <2>1. e' = e \/ (e' = e + 1 /\ ~ThreadAlive(lives[e]))
    BY <1>7 DEF ExitStopsServer, ThreadAlive
  <2>2. process = "stopping" /\ process' \in {"stopping", "joining"} /\ toldAt = "while"
    BY <1>7 DEF ExitStopsServer
  <2> QED
    BY <1>1, <1>3, <2>1, <2>2 DEF ExitQuiet
<1>8. CASE ExitJoinsServer
  <2>1. /\ process = "joining" /\ process' = "stopping" /\ e' = e + 1 /\ toldAt = "while"
        /\ ~ThreadAlive(lives[e])
    BY <1>8 DEF ExitJoinsServer, Joined
  <2> QED
    BY <1>1, <1>3, <2>1 DEF ExitQuiet
<1>9. CASE ExitDestroysServers
  <2>1. \A s \in Servers : s < e
    BY <1>1, <1>9 DEF ExitDestroysServers
  <2> QED
    BY <1>3, <1>9, <2>1 DEF ExitDestroysServers, ExitQuiet
<1>10. CASE ProcessEnds
  BY <1>3, <1>10 DEF ProcessEnds, ExitQuiet
<1> QED
  BY <1>4, <1>5, <1>6, <1>7, <1>8, <1>9, <1>10, NextIs
     DEF MainStep, Runs, ThreadStep, vars

\* Until the exit, only ServiceMain and the threads act on the servers.
LEMMA BeforeTheExit ==
  ASSUME [Next]_vars, process' = "up"
  PROVE  /\ process = "up"
         /\ \/ MainStep
            \/ \E s : Runs(s)
            \/ UNCHANGED <<pc, k, ret, lives, refused>>
BY NextIs DEF CtrlHandler, MainReturns, ExitStopsServer, ExitJoinsServer, ExitDestroysServers,
              ProcessEnds, MainStep, Runs, ThreadStep, mainVars, exitVars, vars

\* Every step keeps ret true to the server it is of.
LEMMA RetStep == ServiceTypes /\ RetTells /\ [Next]_vars => RetTells'
<1> SUFFICES ASSUME ServiceTypes, RetTells, [Next]_vars, process' = "up" PROVE RetTells'
  BY DEF RetTells
<1>1. /\ process = "up" /\ lives \in Seq(Life) /\ k \in Nat \ {0} /\ Len(lives) \in Nat
      /\ \A s \in Servers : s \in Nat
  BY BeforeTheExit DEF ServiceTypes, Servers
<1>2. CASE MainStep /\ (RegisterServiceCtrlHandler \/ ReportRunning \/ RaiseBrun)
  BY <1>1, <1>2 DEF RegisterServiceCtrlHandler, ReportRunning, RaiseBrun, RetTells
<1>3. CASE MainStep /\ (StartServer \/ RejoinServer)
  <2>1. k \in Servers /\ InitServer
    BY <1>3 DEF StartServer, RejoinServer, ServiceTypes
  <2>2. pc' = "start" /\ k' = k + 1 /\ (ret' <=> IsRunning(lives'[k]))
    BY <1>1, <2>1, InitServerFacts DEF InitServer
  <2> QED
    BY <1>1, <2>2 DEF RetTells
<1>4. CASE MainStep /\ AllStarted
  <2>1. ~ret' /\ pc' \in {"start", "while"} /\ lives' = lives
    BY <1>4 DEF AllStarted
  <2>2. CASE ret
    <3>1. k > Len(lives) /\ k <= Len(lives) + 1 /\ k > 1 /\ IsRunning(lives[k - 1])
      BY <1>1, <1>4, <2>2 DEF AllStarted, ServiceTypes, RetTells
    <3>2. Len(lives) = k - 1 /\ Len(lives) # 0
      BY <1>1, <3>1
    <3> QED
      BY <1>1, <2>1, <3>1, <3>2 DEF RetTells
  <2>3. CASE ~ret
    BY <1>4, <2>1, <2>3 DEF AllStarted, RetTells
  <2> QED
    BY <2>2, <2>3
<1>5. CASE MainStep /\ (RestartServer \/ LeaveWhile \/ StopServer \/ JoinServer \/ ServiceMainReturns)
  BY <1>5 DEF RestartServer, LeaveWhile, StopServer, JoinServer, ServiceMainReturns, RetTells
<1>6. ASSUME NEW s, Runs(s) PROVE RetTells'
  <2>1. /\ pc' = pc /\ k' = k /\ (ret' <=> ret) /\ Len(lives') = Len(lives) /\ Servers' = Servers
        /\ lives' \in Seq(Life)
        /\ \A t \in Servers : IsRunning(lives'[t]) <=> IsRunning(lives[t])
    BY <1>1, <1>6, ThreadFacts DEF Runs, ThreadStep, mainVars
  <2>2. CASE pc = "start" /\ ret
    <3>1. k - 1 \in Servers /\ k > 1 /\ IsRunning(lives[k - 1])
      BY <1>1, <2>2 DEF ServiceTypes, RetTells, Servers
    <3> QED
      BY <2>1, <2>2, <3>1 DEF RetTells
  <2>3. CASE pc = "while"
    <3>1. Len(lives) \in Servers /\ IsRunning(lives[Len(lives)])
      BY <1>1, <2>3 DEF RetTells, Servers
    <3>2. lives' # <<>>
      BY <1>1, <2>1, <3>1 DEF Servers
    <3> QED
      BY <2>1, <2>3, <3>1, <3>2 DEF RetTells
  <2>4. CASE pc \in {"register", "report", "raise"}
    BY <1>1, <2>1, <2>4 DEF RetTells
  <2> QED
    BY <2>1, <2>2, <2>3, <2>4 DEF RetTells
<1>7. CASE UNCHANGED <<pc, k, ret, lives, refused>>
  BY <1>1, <1>7 DEF RetTells
<1> QED
  BY <1>2, <1>3, <1>4, <1>5, <1>6, <1>7, BeforeTheExit, NextIs DEF MainStep, ServiceMain

\* Every step keeps the first round the last, where nothing is refused.
LEMMA RoundStep == ServiceTypes /\ RetTells /\ FirstRound /\ [Next]_vars => FirstRound'
<1> SUFFICES ASSUME ServiceTypes, RetTells, FirstRound, [Next]_vars, process' = "up", ~refused'
             PROVE  FirstRound'
  BY DEF FirstRound
<1>1. /\ process = "up" /\ lives \in Seq(Life) /\ k \in Nat \ {0} /\ Len(lives) \in Nat
      /\ \A s \in Servers : s \in Nat /\ s <= Len(lives)
  BY BeforeTheExit DEF ServiceTypes, Servers
<1>2. ~refused
  BY BeforeTheExit, NextIs
     DEF MainStep, ServiceMain, RegisterServiceCtrlHandler, ReportRunning, RaiseBrun, StartServer,
         RestartServer, RejoinServer, InitServer, AllStarted, LeaveWhile, StopServer, JoinServer,
         ServiceMainReturns, Runs, ThreadStep
<1>3. CASE MainStep /\ (RegisterServiceCtrlHandler \/ ReportRunning)
  BY <1>3 DEF RegisterServiceCtrlHandler, ReportRunning, FirstRound
<1>4. CASE MainStep /\ RaiseBrun
  <2>1. pc' = "start" /\ k' = 1
    BY <1>4 DEF RaiseBrun, MakeServers, ServiceTypes
  <2>2. \A s \in Servers' : lives'[s] = NewServer /\ ~(s < 1)
    BY <1>4, NewServersFacts DEF Servers
  <2> QED
    BY <2>1, <2>2 DEF FirstRound
<1>5. CASE MainStep /\ StartServer
  <2>1. k \in Servers /\ InitServer /\ pc = "start" /\ ~lives[k].starting_
    BY <1>5 DEF StartServer
  <2>2. lives[k] = NewServer /\ \A s \in Servers : s < k => IsRunning(lives[s])
    BY <1>1, <1>2, <2>1 DEF FirstRound, IsRunning
  <2>3. /\ lives'[k] = Started(lives[k]) /\ Servers' = Servers /\ (ret' <=> IsRunning(lives'[k]))
        /\ \A s \in Servers : s # k => lives'[s] = lives[s]
    BY <1>1, <2>1, <2>2, InitServerFacts DEF CanBind, NewServer
  <2>4. IsRunning(lives'[k]) /\ ret'
    BY <2>3 DEF IsRunning, Started
  <2>5. pc' = "start" /\ k' = k + 1 /\ \A s \in Servers : s < k' <=> s < k \/ s = k
    BY <1>1, <2>1 DEF InitServer
  <2>6. \A s \in Servers : ~(s < k) => lives[s] = NewServer
    BY <1>1, <1>2, <2>1 DEF FirstRound
  <2> QED
    BY <2>2, <2>3, <2>4, <2>5, <2>6 DEF FirstRound
<1>6. CASE MainStep /\ RestartServer
  <2>1. lives[k] = NewServer
    BY <1>1, <1>2, <1>6 DEF RestartServer, FirstRound
  <2> QED
    BY <1>6, <2>1 DEF RestartServer, NewServer
<1>7. CASE MainStep /\ RejoinServer
  BY <1>1, <1>2, <1>7 DEF RejoinServer, FirstRound
<1>8. CASE MainStep /\ AllStarted
  <2>1. pc = "start" /\ k > Len(lives) /\ lives' = lives /\ Servers' = Servers /\ k' = 1
    BY <1>8 DEF AllStarted, Servers
  <2>2. \A s \in Servers : s < k
    BY <1>1, <2>1
  <2>3. \A s \in Servers : IsRunning(lives[s])
    BY <1>1, <1>2, <2>1, <2>2 DEF FirstRound
  <2>4. CASE ret
    <3>1. pc' = "while"
      BY <1>8, <2>4 DEF AllStarted
    <3> QED
      BY <2>1, <2>3, <3>1 DEF FirstRound
  <2>5. CASE ~ret
    <3>1. pc' = "start"
      BY <1>8, <2>5 DEF AllStarted
    <3>2. ~(k > 1)
      BY <1>1, <1>2, <2>1, <2>5 DEF FirstRound
    <3>3. Servers = {}
      BY <1>1, <2>1, <3>2 DEF Servers
    <3> QED
      BY <2>1, <3>1, <3>3 DEF FirstRound
  <2> QED
    BY <2>4, <2>5
<1>9. CASE MainStep /\ (LeaveWhile \/ StopServer \/ JoinServer \/ ServiceMainReturns)
  BY <1>9 DEF LeaveWhile, StopServer, JoinServer, ServiceMainReturns, FirstRound
<1>10. ASSUME NEW s, Runs(s) PROVE FirstRound'
  <2>1. /\ pc' = pc /\ k' = k /\ (ret' <=> ret) /\ Servers' = Servers
        /\ \A t \in Servers : IsRunning(lives'[t]) <=> IsRunning(lives[t])
        /\ \A t \in Servers : lives[t] = NewServer => lives'[t] = NewServer
    BY <1>1, <1>10, ThreadFacts DEF Runs, ThreadStep, mainVars, NewServer
  <2> QED
    BY <1>1, <1>2, <2>1 DEF FirstRound
<1>11. CASE UNCHANGED <<pc, k, ret, lives, refused>>
  BY <1>1, <1>2, <1>11 DEF FirstRound, Servers
<1> QED
  BY <1>3, <1>4, <1>5, <1>6, <1>7, <1>8, <1>9, <1>10, <1>11, BeforeTheExit, NextIs
     DEF MainStep, ServiceMain

-----------------------------------------------------------------------------
\* The inductive invariant holds whenever the control comes and whatever the
\* system refuses.
THEOREM ServiceInvariance == Spec => []ServiceInv
<1>1. ServiceInv /\ [Next]_vars => ServiceInv'
  BY ServiceTypesStep, QuietStep, ExitStep, RetStep, RoundStep DEF ServiceInv
<1> QED
  BY <1>1, InitServiceInv, PTL DEF Spec

\* ServiceMain returns with the thread of every server ended.
THEOREM ReturnIsQuiet == Spec => []ReturnMeansQuiet
<1>1. ServiceInv => ReturnMeansQuiet
  BY DEF ServiceInv, QuietBehind, ReturnMeansQuiet
<1> QED
  BY <1>1, ServiceInvariance, PTL

\* The exit of a service told to stop while it waits destroys no server whose
\* thread lives, though ServiceMain stops the same servers at the same time.
THEOREM ExitIsQuiet == Spec => []DestroyedMeansQuiet
<1>1. ServiceInv => DestroyedMeansQuiet
  BY DEF ServiceInv, ExitQuiet, DestroyedMeansQuiet
<1> QED
  BY <1>1, ServiceInvariance, PTL

\* StartDhcpServer does not return with the last server down.
THEOREM LastServerRuns == Spec => []WaitingMeansLastRunning
<1>1. ServiceInv => WaitingMeansLastRunning
  BY DEF ServiceInv, RetTells, WaitingMeansLastRunning
<1> QED
  BY <1>1, ServiceInvariance, PTL

\* Unless the system refuses something, the service waits with every server
\* started.
THEOREM AllServersRun == Spec => []WaitingMeansAllRunning
<1>1. ServiceInv => WaitingMeansAllRunning
  BY DEF ServiceInv, FirstRound, WaitingMeansAllRunning
<1> QED
  BY <1>1, ServiceInvariance, PTL
=============================================================================

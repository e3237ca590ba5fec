-------------------------------- MODULE Service --------------------------------
(***************************************************************************)
(* The Windows service of demo/main.cc over the DhcpServers of a           *)
(* PoeDhcpSeverImpl: ServiceMain starts them, waits to be told to stop and *)
(* stops them; CtrlHandler, on main's thread (the control dispatcher's),   *)
(* tells it and reports the service stopped, upon which main returns and   *)
(* the exit of the process destroys the PoeDhcpSeverImpl, whose destructor *)
(* stops the servers as well; each server has its own thread.  What the    *)
(* servers answer is in DhcpServer; here a datagram is just received.      *)
(***************************************************************************)
EXTENDS Naturals, Sequences, ServerThread

CONSTANTS
  N,                \* the most servers ConfigPoeAdapter makes, one for each PoE port
  SocketFailures    \* the socket calls that may fail

ASSUME ServiceAssumption ==
  /\ N \in Nat
  /\ SocketFailures \subseteq SocketCalls

VARIABLES
  pc,          \* where ServiceMain is
  k,           \* the server its loops over dhcp_server_list_ are at
  ret,         \* ret of StartDhcpServers
  brun,
  reported,    \* the state last reported to the service control manager
  lives,       \* dhcp_server_list_: starting_, thread_ and dhcp_socket_ of each
  process,     \* "up", in the exit of main "stopping" or "joining" a server,
               \* "destroyed" when the list is no more, at last "gone"
  e,           \* the server the exit's loop over dhcp_server_list_ is at
  toldAt,      \* history: where ServiceMain was when the control came
  refused      \* history: the system has refused a socket its address or
               \* the broadcast option

mainVars == <<pc, k, ret, brun>>
exitVars == <<process, e>>
vars == <<mainVars, reported, lives, exitVars, toldAt, refused>>

Servers == 1 .. Len(lives)

Init ==
  /\ pc = "register"
  /\ k = 1
  /\ ret = FALSE
  /\ brun = FALSE
  /\ reported = "START_PENDING"
  /\ lives = <<>>
  /\ process = "up"
  /\ e = 1
  /\ toldAt = "nowhere"
  /\ refused = FALSE

SetLife(s, life) == lives' = [lives EXCEPT ![s] = life]

-----------------------------------------------------------------------------
(***************************************************************************)
(* ServiceMain.                                                            *)
(***************************************************************************)

RegisterServiceCtrlHandler ==
  /\ pc = "register"
  /\ pc' \in {"report", "returned"}
  /\ UNCHANGED <<k, ret, brun, reported, lives, refused>>

\* From here on CtrlHandler may be called.
ReportRunning ==
  /\ pc = "report"
  /\ reported' = "RUNNING"
  /\ pc' = "raise"
  /\ UNCHANGED <<k, ret, brun, lives, refused>>

\* StartDhcpServer up to its loop: the PoeDhcpSeverImpl, StopDhcpServers on its
\* empty list and ConfigPoeAdapter, which makes the servers: none when there is
\* no PoE adapter.
MakeServers == \E n \in 0 .. N : lives' = [s \in 1 .. n |-> NewServer]

\* brun = true, and the call of StartDhcpServer.
RaiseBrun ==
  /\ pc = "raise"
  /\ brun' = TRUE
  /\ pc' = "start"
  /\ MakeServers
  /\ UNCHANGED <<k, ret, reported, refused>>

\* A slip: ret remembers any success, not the last.
InitServerRetAny ==
  /\ \/ CanBind(lives[k]) /\ SetLife(k, Started(lives[k]))
     \/ \E life \in FailedInits(lives[k], SocketFailures) : SetLife(k, life)
  /\ ret' = (ret \/ IsRunning(lives'[k]))
  /\ k' = k + 1
  /\ pc' = "start"
  /\ UNCHANGED <<brun, reported, refused>>

\* The end of Start for server k, and ret = IsRunning().
InitServer ==
  /\ \/ CanBind(lives[k]) /\ SetLife(k, Started(lives[k])) /\ UNCHANGED refused
     \/ /\ \E life \in FailedInits(lives[k], SocketFailures) : SetLife(k, life)
        /\ refused' = (refused \/ CanBind(lives[k]))
  /\ ret' = IsRunning(lives'[k])
  /\ k' = k + 1
  /\ pc' = "start"
  /\ UNCHANGED <<brun, reported>>

StartServer ==
  /\ pc = "start" /\ k \in Servers /\ ~lives[k].starting_
  /\ InitServer

\* A server that runs already is stopped first, and not started again.
RestartServer ==
  /\ pc = "start" /\ k \in Servers /\ lives[k].starting_
  /\ SetLife(k, StopRequested(lives[k]))
  /\ pc' = "rejoin"
  /\ UNCHANGED <<k, ret, brun, reported, refused>>

RejoinServer ==
  /\ pc = "rejoin" /\ Joined(lives[k])
  /\ InitServer

\* A slip: do ... while (ret).
AllStartedInverted ==
  /\ pc = "start" /\ k > Len(lives)
  /\ IF ret THEN pc' = "start" ELSE pc' = "while"
  /\ k' = 1 /\ ret' = FALSE
  /\ UNCHANGED <<brun, reported, lives, refused>>

\* StartDhcpServers returns ret; do ... while (!ret).
AllStarted ==
  /\ pc = "start" /\ k > Len(lives)
  /\ IF ret THEN pc' = "while" ELSE pc' = "start"
  /\ k' = 1 /\ ret' = FALSE
  /\ UNCHANGED <<brun, reported, lives, refused>>

\* while (brun), and StopDhcpServer when it is left.
LeaveWhile ==
  /\ pc = "while" /\ ~brun
  /\ pc' = "stop" /\ k' = 1
  /\ UNCHANGED <<ret, brun, reported, lives, refused>>

StopServer ==
  /\ pc = "stop" /\ k \in Servers
  /\ SetLife(k, StopRequested(lives[k]))
  /\ IF lives[k].thread_ = "null"
     THEN k' = k + 1 /\ pc' = pc
     ELSE k' = k /\ pc' = "join"
  /\ UNCHANGED <<ret, brun, reported, refused>>

JoinServer ==
  /\ pc = "join" /\ Joined(lives[k])
  /\ pc' = "stop" /\ k' = k + 1
  /\ UNCHANGED <<ret, brun, reported, lives, refused>>

ServiceMainReturns ==
  /\ pc = "stop" /\ k > Len(lives)
  /\ pc' = "returned"
  /\ UNCHANGED <<k, ret, brun, reported, lives, refused>>

-----------------------------------------------------------------------------
(***************************************************************************)
(* CtrlHandler, for a stop or a shutdown, and the exit: the dispatcher     *)
(* returns to main when the service is reported stopped, and main returns  *)
(* with ServiceMain and the servers' threads still there.  The destructor  *)
(* of poe_dhcp_server then stops one server after the other.               *)
(***************************************************************************)
CtrlHandler ==
  /\ process = "up"
  /\ reported = "RUNNING"
  /\ brun' = FALSE
  /\ reported' = "STOPPED"
  /\ toldAt' = pc
  /\ UNCHANGED <<pc, k, ret, lives, exitVars, refused>>

MainReturns ==
  /\ process = "up" /\ reported = "STOPPED"
  /\ process' = "stopping"
  /\ UNCHANGED <<mainVars, reported, lives, e, toldAt, refused>>

\* A slip: the exit stops the servers but does not wait for them.
ExitStopsServerUnjoined ==
  /\ process = "stopping" /\ e \in Servers
  /\ SetLife(e, StopRequested(lives[e]))
  /\ process' = process /\ e' = e + 1
  /\ UNCHANGED <<mainVars, reported, toldAt, refused>>

\* ~PoeDhcpSeverImpl: StopDhcpServers, as ServiceMain calls it.
ExitStopsServer ==
  /\ process = "stopping" /\ e \in Servers
  /\ SetLife(e, StopRequested(lives[e]))
  /\ IF lives[e].thread_ = "null"
     THEN process' = process /\ e' = e + 1
     ELSE process' = "joining" /\ e' = e
  /\ UNCHANGED <<mainVars, reported, toldAt, refused>>

ExitJoinsServer ==
  /\ process = "joining" /\ Joined(lives[e])
  /\ process' = "stopping" /\ e' = e + 1
  /\ UNCHANGED <<mainVars, reported, lives, toldAt, refused>>

\* The list is destroyed, with the servers as they are.
ExitDestroysServers ==
  /\ process = "stopping" /\ e > Len(lives)
  /\ process' = "destroyed"
  /\ UNCHANGED <<mainVars, reported, lives, e, toldAt, refused>>

ProcessEnds ==
  /\ process = "destroyed"
  /\ process' = "gone"
  /\ UNCHANGED <<mainVars, reported, lives, e, toldAt, refused>>

Exit ==
  \/ MainReturns \/ ExitStopsServer \/ ExitJoinsServer \/ ExitDestroysServers
  \/ ProcessEnds

-----------------------------------------------------------------------------
(***************************************************************************)
(* The thread of server s.                                                 *)
(***************************************************************************)
CheckStarting(s) ==
  /\ lives[s].thread_ = "loop"
  /\ SetLife(s, LoopChecked(lives[s]))

Receive(s) ==
  /\ lives[s].thread_ = "receiving"
  /\ SetLife(s, BackToLoop(lives[s]))

SocketThrows(s) ==
  /\ lives[s].thread_ = "receiving"
  /\ {"receiveBytes", "sendTo"} \cap SocketFailures # {}
  /\ SetLife(s, ThreadDies(lives[s]))

-----------------------------------------------------------------------------
ServiceMain ==
  \/ RegisterServiceCtrlHandler \/ ReportRunning \/ RaiseBrun
  \/ StartServer \/ RestartServer \/ RejoinServer \/ AllStarted
  \/ LeaveWhile \/ StopServer \/ JoinServer \/ ServiceMainReturns

\* The servers are there: once they are destroyed, ServiceMain and the threads
\* would use what is no more.  What such a step does is undefined; here the
\* behaviour only goes on to the end of the process, which is due next.
Intact == process \in {"up", "stopping", "joining"}

MainStep == Intact /\ ServiceMain /\ UNCHANGED <<exitVars, toldAt>>

ThreadStep(s) ==
  /\ Intact /\ s \in Servers
  /\ UNCHANGED <<mainVars, reported, exitVars, toldAt, refused>>

Next ==
  \/ MainStep
  \/ CtrlHandler
  \/ Exit
  \/ \E s \in 1 .. N : \/ ThreadStep(s) /\ CheckStarting(s)
                       \/ ThreadStep(s) /\ Receive(s)
                       \/ ThreadStep(s) /\ SocketThrows(s)

\* ServiceMain, the exit and the threads run on whenever they wait for nothing.
\* No datagram, no control and no failure need ever come.
Fairness ==
  /\ WF_vars(MainStep)
  /\ WF_vars(Exit)
  /\ \A s \in 1 .. N : WF_vars(ThreadStep(s) /\ CheckStarting(s))

Spec == Init /\ [][Next]_vars /\ Fairness

-----------------------------------------------------------------------------
(***************************************************************************)
(* Properties.                                                             *)
(***************************************************************************)

\* When ServiceMain returns, every server's thread has ended, those of the
\* servers the loop of StartDhcpServer left behind included.
ReturnMeansQuiet ==
  pc = "returned" => \A s \in Servers : ~ThreadAlive(lives[s])

\* A service told to stop while it waits destroys no server whose thread
\* lives, though ServiceMain and the exit stop the same servers at the same
\* time and neither waits for the other.  (Told while it starts its servers,
\* it may: ServiceMain starts a server the exit has passed already.)
DestroyedMeansQuiet ==
  toldAt = "while" /\ process = "destroyed" => \A s \in Servers : ~ThreadAlive(lives[s])

\* Unless the system refuses a socket its address or the broadcast option, the
\* service gets to its waiting loop with every server started, though
\* StartDhcpServers looks only at the last: none has been stopped by a second
\* round.
WaitingMeansAllRunning ==
  pc = "while" /\ process = "up" /\ ~refused => \A s \in Servers : IsRunning(lives[s])

\* StartDhcpServer does not return with the last server down, and not without
\* servers.  (With an earlier one down it may: ret is overwritten, and a
\* further round stops for good the servers that had started.)
WaitingMeansLastRunning ==
  pc = "while" /\ process = "up" => lives # <<>> /\ IsRunning(lives[Len(lives)])

\* The datagrams keep coming at every server.
Traffic == \A s \in 1 .. N : WF_vars(ThreadStep(s) /\ Receive(s))

\* The system does not refuse the last server's address for ever, and its
\* broadcast option never: with the option refused the socket stays bound, and
\* no later round of StartDhcpServers can bind it again.
LastBinds ==
  /\ SF_vars(/\ k = Len(lives) /\ k > 0 /\ CanBind(lives[k])
             /\ MainStep /\ StartServer /\ IsRunning(lives'[k]))
  /\ [](lives # <<>> =>
          LET last == lives[Len(lives)] IN last.thread_ = "null" => CanBind(last))

\* With traffic, and if the last server's bind succeeds some day,
\* StartDhcpServer returns when there are servers: a round that stops a
\* running server waits for the server's next datagram only.
StartReturns ==
  Traffic /\ LastBinds => (pc = "start" /\ lives # <<>> ~> pc = "while" \/ process # "up")

\* With traffic a service told to stop ends, wherever ServiceMain is: the exit
\* waits for the servers' threads and not for ServiceMain, which may have
\* missed the control (it came before brun = true) or be in the retry loop of
\* StartDhcpServer, for ever if there is no PoE adapter.
StopEndsProcess ==
  Traffic => (reported = "STOPPED" ~> process = "gone")
=============================================================================

----------------------------- MODULE ServerThread -----------------------------
(***************************************************************************)
(* The life of one DhcpServer: its flag starting_, its thread and its      *)
(* socket, and what Start, Stop and run do to them.  The operators are     *)
(* shared by DhcpServer, which has one server and its messages, and by     *)
(* Service, which has several servers and no messages.                     *)
(*                                                                         *)
(* thread_ is where the thread is: "null" before the first one, "loop" at  *)
(* the while of run or on its way back to it, "receiving" in receiveBytes, *)
(* which has no timeout, "finished" when run has returned or has been left *)
(* by an exception (Poco catches it, and clears nothing).                  *)
(*                                                                         *)
(* dhcp_socket_ is never closed while the server lives: InitServer makes   *)
(* the new DatagramSocket before reset destroys the old one, so while the  *)
(* old one is bound the bind of the new one to the same address and port   *)
(* is refused.                                                             *)
(***************************************************************************)

Life == [starting_ : BOOLEAN,
         thread_ : {"null", "loop", "receiving", "finished"},
         dhcp_socket_ : {"null", "bound"}]

\* The calls on a socket that throw a Poco exception when they fail.
SocketCalls == {"bind", "setBroadcast", "receiveBytes", "sendTo"}

NewServer == [starting_ |-> FALSE, thread_ |-> "null", dhcp_socket_ |-> "null"]

IsRunning(life) == life.starting_
ThreadAlive(life) == life.thread_ \in {"loop", "receiving"}

-----------------------------------------------------------------------------
\* Slips: Stop leaves starting_ as it is; it does not wait for the thread; the
\* old socket is closed before the new one is bound.
StopForgetsFlag(life) == life
JoinedAtOnce(life) == TRUE
CanBindAgain(life) == TRUE

\* Stop, up to the join, which returns when Joined.
StopRequested(life) ==
  IF life.thread_ = "null" THEN life ELSE [life EXCEPT !.starting_ = FALSE]

Joined(life) == ~ThreadAlive(life)

\* InitServer can succeed.
CanBind(life) == life.dhcp_socket_ = "null"

\* Start after a successful InitServer.
Started(life) == [starting_ |-> TRUE, thread_ |-> "loop", dhcp_socket_ |-> "bound"]

\* InitServer without success, when the socket calls of the set failing may
\* fail: the bind refused, by the server's own socket or by the system, or
\* setBroadcast refused on the socket just bound.
FailedInits(life, failing) ==
  {l \in {life} : ~CanBind(life) \/ "bind" \in failing}
    \cup {l \in {[life EXCEPT !.dhcp_socket_ = "bound"]} :
            CanBind(life) /\ "setBroadcast" \in failing}

-----------------------------------------------------------------------------
\* A slip: the loop runs for ever.
LoopUnchecked(life) == [life EXCEPT !.thread_ = "receiving"]

\* The while of run: one more datagram, or out.
LoopChecked(life) ==
  [life EXCEPT !.thread_ = IF life.starting_ THEN "receiving" ELSE "finished"]

\* A datagram, or an error code, is dealt with; continue.
BackToLoop(life) == [life EXCEPT !.thread_ = "loop"]

\* receiveBytes or sendTo throws: run is left, starting_ stays.
ThreadDies(life) == [life EXCEPT !.thread_ = "finished"]
=============================================================================

------------------------------ MODULE ModbusTcp ------------------------------
(***************************************************************************)
(* The threads and sockets of libmodbus-tcp over the launches of the       *)
(* activity in one process.  Each launch runs android_main, which starts a *)
(* server thread, sleeps, starts a client thread and polls until Android   *)
(* destroys the activity; join_all() is commented out, so both threads     *)
(* live on and meet those of the next launch.                              *)
(*                                                                         *)
(* A server opens a listening socket, accepts one connection and serves it *)
(* until it is closed; the listening socket is closed only by an accept    *)
(* that fails.  What a client asks for is module ModbusClient; here a test *)
(* is Requests requests, and a request is answered or times out.           *)
(***************************************************************************)
EXTENDS Naturals, Sequences

CONSTANTS
  MaxLaunches,  \* bound on the launches of the activity
  Requests,     \* how many requests the client makes
  BacklogMax    \* connections the kernel keeps for a listen(1)

ASSUME ModbusTcpAssumption ==
  /\ MaxLaunches \in Nat /\ Requests \in Nat \ {0} /\ BacklogMax \in Nat \ {0}

Launches == 1 .. MaxLaunches
Nobody == 0

VARIABLES
  mainPc,        \* the android_main of the latest launch
  launched,      \* how many launches there have been
  serverPc, clientPc,
  listener,      \* the launch whose server opened the listening socket
  backlog,       \* the clients whose connections wait in it
  serving,       \* per server: the client it has accepted
  inbox,         \* per client: what is under way on its connection
  closed,        \* per client: it has closed its connection
  left, fails,   \* per client: requests to make, and those that failed
  serverReport, clientReport

main == <<mainPc, launched>>
servers == <<serverPc, serving, serverReport>>
clients == <<clientPc, closed, left, fails, clientReport>>
vars == <<main, servers, clients, listener, backlog, inbox>>

Init ==
  /\ mainPc = "none" /\ launched = 0
  /\ serverPc = [l \in Launches |-> "idle"]
  /\ clientPc = [l \in Launches |-> "idle"]
  /\ listener = Nobody /\ backlog = <<>>
  /\ serving = [l \in Launches |-> Nobody]
  /\ inbox = [l \in Launches |-> "empty"]
  /\ closed = [l \in Launches |-> FALSE]
  /\ left = [l \in Launches |-> Requests]
  /\ fails = [l \in Launches |-> 0]
  /\ serverReport = [l \in Launches |-> "none"]
  /\ clientReport = [l \in Launches |-> "none"]

ServerGoto(l, from, to) ==
  /\ serverPc[l] = from /\ serverPc' = [serverPc EXCEPT ![l] = to]
  /\ UNCHANGED <<main, clients>>
(* The connection of a client is in the backlog, or some server has it.     *)
Waits(l) == \E i \in DOMAIN backlog : backlog[i] = l
Served(l) == \E k \in Launches : serving[k] = l

ClientGoto(l, from, to) ==
  /\ clientPc[l] = from /\ clientPc' = [clientPc EXCEPT ![l] = to]
  /\ UNCHANGED <<main, servers, listener>>

-----------------------------------------------------------------------------
(* android_main.  The glue waits for it before the activity is gone.        *)

Launch ==
  /\ mainPc = "none" /\ mainPc' = "start_sleep"
  /\ launched < MaxLaunches /\ launched' = launched + 1
  /\ serverPc' = [serverPc EXCEPT ![launched + 1] = "mapping"]
  /\ UNCHANGED <<serving, serverReport, clients, listener, backlog, inbox>>

StartClient ==
  /\ mainPc = "start_sleep" /\ mainPc' = "poll"
  /\ clientPc' = [clientPc EXCEPT ![launched] = "connect"]
  /\ UNCHANGED <<launched, servers, closed, left, fails, clientReport,
                 listener, backlog, inbox>>

Destroy ==
  /\ mainPc = "poll" /\ mainPc' = "none"
  /\ UNCHANGED <<launched, servers, clients, listener, backlog, inbox>>

-----------------------------------------------------------------------------
(* The server thread of a launch. *)

NewMapping(l) ==
  /\ ServerGoto(l, "mapping", "listen")
  /\ UNCHANGED <<serving, serverReport, listener, backlog, inbox>>

MappingFails(l) ==
  /\ ServerGoto(l, "mapping", "done")
  /\ serverReport' = [serverReport EXCEPT ![l] = "start failed"]
  /\ UNCHANGED <<serving, listener, backlog, inbox>>

(* Plausible bug, Listen: a second server takes over the port               *)
(* (SO_REUSEPORT).                                                          *)
ListenTakesOver(l) ==
  /\ ServerGoto(l, "listen", "accept")
  /\ listener' = l
  /\ UNCHANGED <<serving, serverReport, backlog, inbox>>

Listen(l) ==
  /\ ServerGoto(l, "listen", "accept")
  /\ listener = Nobody /\ listener' = l
  /\ UNCHANGED <<serving, serverReport, backlog, inbox>>

(* The port is taken, by the server of another launch or by some other      *)
(* program, or there is no socket to be had.  Nobody looks at the result;   *)
(* the accept on no socket fails, unseen as well.                           *)
ListenFails(l) ==
  /\ ServerGoto(l, "listen", "receive")
  /\ UNCHANGED <<serving, serverReport, listener, backlog, inbox>>

Accept(l) ==
  /\ ServerGoto(l, "accept", "receive")
  /\ backlog # <<>> /\ backlog' = Tail(backlog)
  /\ serving' = [serving EXCEPT ![l] = Head(backlog)]
  /\ UNCHANGED <<serverReport, listener, inbox>>

Reply(l) ==
  /\ ServerGoto(l, "receive", "receive")
  /\ serving[l] # Nobody /\ inbox[serving[l]] = "request"
  /\ inbox' = [inbox EXCEPT ![serving[l]] = "answer"]
  /\ UNCHANGED <<serving, serverReport, listener, backlog>>

(* Plausible bug, AcceptFails: the server starts over with a new socket.    *)
AcceptFailsRetries(l) ==
  /\ ServerGoto(l, "accept", "listen")
  /\ listener' = Nobody /\ backlog' = <<>>
  /\ UNCHANGED <<serving, serverReport, inbox>>

(* Nobody looks at this result either.  libmodbus closes the listening      *)
(* socket of an accept that fails; the system resets what waits in it.      *)
AcceptFails(l) ==
  /\ ServerGoto(l, "accept", "receive")
  /\ listener' = Nobody /\ backlog' = <<>>
  /\ UNCHANGED <<serving, serverReport, inbox>>

(* Plausible bug, QuitLoop: the server goes back to its accept. *)
QuitLoopAccepts(l) ==
  /\ ServerGoto(l, "receive", "accept")
  /\ serving[l] # Nobody /\ closed[serving[l]]
  /\ UNCHANGED <<serving, serverReport, listener, backlog, inbox>>

(* The connection has been closed.  The cleanup closes it on this side and  *)
(* leaves the listening socket open.                                        *)
QuitLoop(l) ==
  /\ ServerGoto(l, "receive", "done")
  /\ serving[l] # Nobody /\ closed[serving[l]]
  /\ serverReport' = [serverReport EXCEPT ![l] = "test OK"]
  /\ UNCHANGED <<serving, listener, backlog, inbox>>

(* There is no connection.  What modbus_receive does then depends on the    *)
(* version of libmodbus: it fails, or it waits for ever.                    *)
QuitUnserved(l) ==
  /\ ServerGoto(l, "receive", "done")
  /\ serving[l] = Nobody
  /\ serverReport' = [serverReport EXCEPT ![l] = "test OK"]
  /\ UNCHANGED <<serving, listener, backlog, inbox>>

(* What the server thread does if nothing but its listen fails. *)
ServerRuns(l) ==
  \/ NewMapping(l) \/ MappingFails(l) \/ Listen(l) \/ ListenFails(l)
  \/ Accept(l) \/ Reply(l) \/ QuitLoop(l)

ServerStep(l) == ServerRuns(l) \/ AcceptFails(l) \/ QuitUnserved(l)

-----------------------------------------------------------------------------
(* The client thread of a launch. *)

Connect(l) ==
  /\ ClientGoto(l, "connect", "ask")
  /\ listener # Nobody /\ Len(backlog) < BacklogMax
  /\ backlog' = Append(backlog, l)
  /\ UNCHANGED <<closed, left, fails, clientReport, inbox>>

(* Nobody listens, or the backlog is full and the handshake times out. *)
ConnectFails(l) ==
  /\ ClientGoto(l, "connect", "done")
  /\ listener = Nobody \/ Len(backlog) >= BacklogMax
  /\ clientReport' = [clientReport EXCEPT ![l] = "start failed"]
  /\ UNCHANGED <<closed, left, fails, backlog, inbox>>

Ask(l) ==
  /\ ClientGoto(l, "ask", "wait")
  /\ left[l] > 0
  /\ inbox' = [inbox EXCEPT ![l] = "request"]
  /\ UNCHANGED <<closed, left, fails, clientReport, backlog>>

Answered(l) ==
  /\ ClientGoto(l, "wait", "ask")
  /\ inbox[l] = "answer" /\ inbox' = [inbox EXCEPT ![l] = "empty"]
  /\ left' = [left EXCEPT ![l] = @ - 1]
  /\ UNCHANGED <<closed, fails, clientReport, backlog>>

(* A runnable server accepts and answers within libmodbus's timeout; no one *)
(* answers on a connection left in the backlog of a socket whose server has *)
(* moved on, or lost with a socket that was closed.                         *)
Orphaned(l) == ~Served(l) /\ (Waits(l) => serverPc[listener] # "accept")

(* Plausible bugs, TimedOut: the failure is not counted or is counted       *)
(* twice, and the client waits for an answer without limit.                 *)
TimedOutUncounted(l) ==
  /\ ClientGoto(l, "wait", "ask")
  /\ Orphaned(l)
  /\ left' = [left EXCEPT ![l] = @ - 1]
  /\ UNCHANGED <<closed, fails, clientReport, backlog, inbox>>
TimedOutTwice(l) ==
  /\ ClientGoto(l, "wait", "ask")
  /\ Orphaned(l)
  /\ left' = [left EXCEPT ![l] = @ - 1]
  /\ fails' = [fails EXCEPT ![l] = @ + 2]
  /\ UNCHANGED <<closed, clientReport, backlog, inbox>>
TimedOutNever(l) ==
  /\ ClientGoto(l, "wait", "wait")
  /\ Orphaned(l)
  /\ UNCHANGED <<closed, left, fails, clientReport, backlog, inbox>>

TimedOut(l) ==
  /\ ClientGoto(l, "wait", "ask")
  /\ Orphaned(l)
  /\ left' = [left EXCEPT ![l] = @ - 1]
  /\ fails' = [fails EXCEPT ![l] = @ + 1]
  /\ UNCHANGED <<closed, clientReport, backlog, inbox>>

Report(l) ==
  clientReport' =
    [clientReport EXCEPT ![l] = IF fails[l] = 0 THEN "test OK" ELSE "test failed"]

(* Plausible bug, Close: modbus_close is forgotten. *)
CloseForgotten(l) ==
  /\ ClientGoto(l, "ask", "done")
  /\ left[l] = 0
  /\ Report(l)
  /\ UNCHANGED <<closed, left, fails, backlog, inbox>>

Close(l) ==
  /\ ClientGoto(l, "ask", "done")
  /\ left[l] = 0
  /\ closed' = [closed EXCEPT ![l] = TRUE]
  /\ Report(l)
  /\ UNCHANGED <<left, fails, backlog, inbox>>

ClientStep(l) ==
  \/ Connect(l) \/ ConnectFails(l) \/ Ask(l) \/ Answered(l) \/ TimedOut(l)
  \/ Close(l)

-----------------------------------------------------------------------------
(* A server may wait in accept for ever, or in modbus_receive. *)
Quiet ==
  /\ mainPc = "none" /\ launched = MaxLaunches
  /\ \A l \in Launches :
       /\ clientPc[l] = "done"
       /\ \/ serverPc[l] \in {"accept", "done"}
          \/ serverPc[l] = "receive" /\ serving[l] = Nobody
  /\ backlog # <<>> => serverPc[listener] = "done"
  /\ UNCHANGED vars

Next ==
  \/ Launch \/ StartClient \/ Destroy
  \/ \E l \in Launches : ServerStep(l) \/ ClientStep(l)
  \/ Quiet

Spec == Init /\ [][Next]_vars

(* A runnable thread runs in the end; a blocking call owes nothing until    *)
(* what it waits for is there, and an accept or a receive need not fail.    *)
Fairness ==
  \A l \in Launches : WF_vars(ServerRuns(l)) /\ WF_vars(ClientStep(l))
FairSpec == Spec /\ Fairness
-----------------------------------------------------------------------------
(* Properties. *)

(* The variables keep the values the program can give them; a connection is *)
(* in the backlog or with one server, never with two.                       *)
TypeOK ==
  /\ mainPc \in {"none", "start_sleep", "poll"} /\ launched \in 0 .. MaxLaunches
  /\ serverPc \in [Launches -> {"idle", "mapping", "listen", "accept", "receive", "done"}]
  /\ clientPc \in [Launches -> {"idle", "connect", "ask", "wait", "done"}]
  /\ listener \in 0 .. launched /\ backlog \in Seq(Launches)
  /\ serving \in [Launches -> 0 .. MaxLaunches]
  /\ inbox \in [Launches -> {"empty", "request", "answer"}]
  /\ left \in [Launches -> 0 .. Requests] /\ fails \in [Launches -> 0 .. Requests]
  /\ closed \in [Launches -> BOOLEAN]
  /\ serverReport \in [Launches -> {"none", "start failed", "test OK"}]
  /\ clientReport \in [Launches -> {"none", "start failed", "test failed", "test OK"}]
  /\ \A k, l \in Launches : serving[k] = serving[l] /\ k # l => serving[k] = Nobody
  /\ \A l \in Launches : ~Waits(serving[l])

(* "client : test OK" is logged only by a client that some server served,   *)
(* be it the server of an earlier launch.                                   *)
ClientOkMeansServed ==
  \A l \in Launches :
    clientReport[l] = "test OK" => \E k \in Launches : serving[k] = l

(* The listen or the accept of a server has failed, which nobody noticed.   *)
FailedUnseen(k) ==
  /\ serving[k] = Nobody /\ serverPc[k] \in {"receive", "done"}
  /\ serverReport[k] # "start failed"

(* A client whose test fails has lost its connection to another client that *)
(* a server took first, or to a failure no server has noticed; however slow *)
(* the server of its own launch is, that alone fails no test.               *)
ClientFailsForCause ==
  \A l \in Launches : clientReport[l] = "test failed" =>
    \E k \in Launches : serving[k] \notin {Nobody, l} \/ FailedUnseen(k)

(* A connection that lost a request while it waited in the backlog is never *)
(* accepted later: a client is served in full or loses all its requests, so *)
(* with ClientOkMeansServed its report tells which.                         *)
ServedNeverFails ==
  \A l \in Launches : serving[l] # Nobody => fails[serving[l]] = 0

(* Each client thread ends and reports, also one that connects to a socket  *)
(* an earlier launch has left behind.  A thread runs once and the launches  *)
(* are bounded, so that none is under way again and again means that all    *)
(* come to their end.                                                       *)
ClientReports ==
  []<>(\A l \in Launches : clientPc[l] # "idle" => clientReport[l] # "none")

(* A server that has accepted a client ends and reports.                    *)
ServedServerReports ==
  []<>(\A l \in Launches : serving[l] # Nobody => serverReport[l] # "none")

(* All launches together have one session: a server that has the port keeps *)
(* it after its end, unless its accept fails, and serves one client.        *)
Session == INSTANCE SingleSession WITH
  owner <- listener, verdict <- clientReport,
  client <- IF listener = Nobody THEN Nobody ELSE serving[listener]
ImplementsSession == Session!Spec
=============================================================================

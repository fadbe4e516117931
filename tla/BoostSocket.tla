---------------------------- MODULE BoostSocket -----------------------------
(***************************************************************************)
(* boost-socket: android_main starts a server thread and, after a sleep, a *)
(* client thread, and at the end stops both io_services, clears run and    *)
(* sleeps once more instead of joining.  run and the io_services are       *)
(* locals of android_main, so the threads should be done when it returns.  *)
(*                                                                         *)
(* The server is an acceptor with one accept outstanding; a connection     *)
(* that has been accepted is in a handler of the queue of the io_service   *)
(* until run() comes to it.  The client asks, reads the answer and sleeps, *)
(* over and over.                                                          *)
(*                                                                         *)
(* Timers are those of module GlesEngineTimed: a thread is due for its     *)
(* next step, which takes up to MaxDelay, and a sleep adds its length.     *)
(***************************************************************************)
EXTENDS Naturals

CONSTANTS
  Conns,         \* connections of the client, used again when both ends are done
  None,
  MaxDelay,      \* the longest a runnable thread takes for one step
  StartTimeout,  \* SERVER_START_TIMEOUT
  StopTimeout,   \* SERVER_STOP_TIMEOUT
  ClientCycle    \* CLIENT_CYCLE_TIMEOUT

(* The program's 450, 350 and 100 satisfy this for a MaxDelay up to 41 ms. *)
ASSUME BoostSocketAssumption ==
  /\ Conns # {} /\ None \notin Conns
  /\ MaxDelay \in Nat \ {0}
  /\ ClientCycle \in Nat
  /\ StartTimeout \in Nat /\ StartTimeout > MaxDelay
  /\ StopTimeout \in Nat /\ StopTimeout > ClientCycle + 6 * MaxDelay

VARIABLES
  mainPc, serverPc, clientPc,
  run,        \* the flag the client loop reads
  stopped,    \* server_io_service.stop() has been called
  listening,  \* the acceptor is open
  accepting,  \* an async_accept is outstanding
  accepted,   \* the connection of a completed accept whose handler has not run
  serving,    \* the connection handle_accept is working on
  peer,       \* per connection: where the server's end of it is
  answered,   \* per connection: the message has been sent
  asking,     \* the client's connection
  reply,      \* how the client's last cycle ended
  mainDue, serverDue, clientDue

pcs == <<mainPc, serverPc, clientPc>>
io == <<run, stopped, listening, accepting, accepted, serving, peer, answered>>
client == <<asking, reply>>
timers == <<mainDue, serverDue, clientDue>>
vars == <<pcs, io, client, timers>>

MainPcs == {"start_server", "start_sleep", "poll", "stop_server", "clear_run",
            "stop_sleep", "returned"}
ServerPcs == {"idle", "construct", "loop", "reactor", "write", "close",
              "start_accept", "leave", "done"}
ClientPcs == {"idle", "while", "connect", "read", "sleep", "done"}

Init ==
  /\ mainPc = "start_server" /\ serverPc = "idle" /\ clientPc = "idle"
  /\ run = TRUE /\ stopped = FALSE
  /\ listening = FALSE /\ accepting = FALSE
  /\ accepted = None /\ serving = None
  /\ peer = [c \in Conns |-> "none"] /\ answered = [c \in Conns |-> FALSE]
  /\ asking = None /\ reply = "none"
  /\ mainDue = MaxDelay /\ serverDue = MaxDelay /\ clientDue = MaxDelay

(* Plausible bug, MainAllowance: android_main starts the client at once. *)
MainAllowanceNoStart(pc) ==
  MaxDelay + (CASE pc = "stop_sleep" -> StopTimeout [] OTHER -> 0)

MainAllowance(pc) ==
  MaxDelay + (CASE pc = "start_sleep" -> StartTimeout
                [] pc = "stop_sleep" -> StopTimeout
                [] OTHER -> 0)
ClientAllowance(pc) == MaxDelay + (IF pc = "sleep" THEN ClientCycle ELSE 0)

MainGoto(from, to) ==
  /\ mainPc = from /\ mainPc' = to /\ mainDue <= MaxDelay
  /\ mainDue' = MainAllowance(to) /\ UNCHANGED <<serverDue, clientDue, client>>
ServerGoto(from, to) ==
  /\ serverPc = from /\ serverPc' = to /\ serverDue <= MaxDelay
  /\ serverDue' = MaxDelay
  /\ UNCHANGED <<mainPc, clientPc, mainDue, clientDue, client>>
ClientGoto(from, to) ==
  /\ clientPc = from /\ clientPc' = to /\ clientDue <= MaxDelay
  /\ clientDue' = ClientAllowance(to)
  /\ UNCHANGED <<mainPc, serverPc, mainDue, serverDue>>

(* Plausible bugs, each a replacement for the definition its comment names. *)

(* ClearRun: the flag stays up. *)
ClearRunForgotten ==
  /\ MainGoto("clear_run", "stop_sleep")
  /\ UNCHANGED <<serverPc, clientPc, io>>

(* Write: the socket is closed before the message is written. *)
WriteAfterClose ==
  /\ ServerGoto("write", "close")
  /\ peer' = [peer EXCEPT ![serving] = "closed"]
  /\ UNCHANGED <<run, stopped, listening, accepting, accepted, serving, answered>>

(* StartAccept: handle_accept does not accept again. *)
StartAcceptForgotten ==
  /\ ServerGoto("start_accept", "loop")
  /\ UNCHANGED io

(* Leave: the fields are reset in the wrong order. *)
LeaveHalfOpen ==
  /\ ServerGoto("leave", "done")
  /\ listening' = accepting /\ accepting' = None
  /\ UNCHANGED <<run, stopped, accepted, serving, peer, answered>>

(* Where an accept or a read has nothing to return yet, the thread waits. *)
Waiting == {c \in Conns : peer[c] = "backlog"}
ReadBlocks == clientPc = "read" /\ peer[asking] # "closed" /\ ~answered[asking]
ReactorBlocks == serverPc = "reactor" /\ Waiting = {} /\ ~stopped

-----------------------------------------------------------------------------
(* The application thread. *)

StartServer ==
  /\ MainGoto("start_server", "start_sleep")
  /\ serverPc' = "construct"
  /\ UNCHANGED <<clientPc, io>>

StartClient ==
  /\ MainGoto("start_sleep", "poll")
  /\ clientPc' = "while"
  /\ UNCHANGED <<serverPc, io>>

(* destroyRequested is set.  Nothing runs client_io_service, and the client *)
(* only makes blocking calls, so stopping it changes nothing.               *)
StopClientIo ==
  /\ MainGoto("poll", "stop_server")
  /\ UNCHANGED <<serverPc, clientPc, io>>

StopServerIo ==
  /\ MainGoto("stop_server", "clear_run")
  /\ stopped' = TRUE
  /\ UNCHANGED <<serverPc, clientPc, run, listening, accepting, accepted, serving,
                 peer, answered>>

ClearRun ==
  /\ MainGoto("clear_run", "stop_sleep")
  /\ run' = FALSE
  /\ UNCHANGED <<serverPc, clientPc, stopped, listening, accepting, accepted,
                 serving, peer, answered>>

(* Its locals go: the threads are detached, and server_io_service destroys  *)
(* the handler in its queue with the connection it holds.                   *)
Return ==
  /\ MainGoto("stop_sleep", "returned")
  /\ accepted' = None
  /\ peer' = [c \in Conns |-> IF c = accepted THEN "closed" ELSE peer[c]]
  /\ UNCHANGED <<serverPc, clientPc, run, stopped, listening, accepting,
                 serving, answered>>

MainStep ==
  StartServer \/ StartClient \/ StopClientIo \/ StopServerIo \/ ClearRun \/ Return

-----------------------------------------------------------------------------
(* The server thread. *)

(* The constructor of async_tcp_server: bind, listen, start_accept. *)
Construct ==
  /\ ServerGoto("construct", "loop")
  /\ listening' = TRUE /\ accepting' = TRUE
  /\ UNCHANGED <<run, stopped, accepted, serving, peer, answered>>

(* The port is still in use: the constructor throws, the thread ends. *)
ConstructFails ==
  /\ ServerGoto("construct", "done")
  /\ UNCHANGED io

(* io_service::run looks at its stopped flag before it takes a handler or   *)
(* goes to the reactor.                                                     *)
RunReturns ==
  /\ stopped
  /\ ServerGoto("loop", "leave")
  /\ UNCHANGED io

(* handle_accept; with an error it would only accept again. *)
HandleAccept ==
  /\ ~stopped /\ accepted # None
  /\ ServerGoto("loop", "write")
  /\ serving' = accepted /\ accepted' = None
  /\ UNCHANGED <<run, stopped, listening, accepting, peer, answered>>

ToReactor ==
  /\ ~stopped /\ accepted = None
  /\ ServerGoto("loop", "reactor")
  /\ UNCHANGED io

(* The outstanding accept takes a connection; its handler is queued. *)
ReactorAccepts ==
  /\ ServerGoto("reactor", "loop")
  /\ accepting /\ accepting' = FALSE
  /\ \E c \in Waiting :
       /\ peer' = [peer EXCEPT ![c] = "accepted"]
       /\ accepted' = c
  /\ UNCHANGED <<run, stopped, listening, serving, answered>>

ReactorInterrupted ==
  /\ stopped
  /\ ServerGoto("reactor", "loop")
  /\ UNCHANGED io

(* tcp_connection::start: async_write sends at once what the socket takes,  *)
(* and the socket of a new connection takes the whole message.              *)
Write ==
  /\ ServerGoto("write", "close")
  /\ answered' = [answered EXCEPT ![serving] = TRUE]
  /\ UNCHANGED <<run, stopped, listening, accepting, accepted, serving, peer>>

(* Plausible bug, Close: the handler accepts again without closing. *)
CloseForgotten ==
  /\ ServerGoto("close", "start_accept")
  /\ serving' = None
  /\ UNCHANGED <<run, stopped, listening, accepting, accepted, peer, answered>>

Close ==
  /\ ServerGoto("close", "start_accept")
  /\ peer' = [peer EXCEPT ![serving] = "closed"] /\ serving' = None
  /\ UNCHANGED <<run, stopped, listening, accepting, accepted, answered>>

(* start_accept tries at once, then waits for the reactor. *)
StartAccept ==
  /\ ServerGoto("start_accept", "loop")
  /\ \/ /\ Waiting = {}
        /\ accepting' = TRUE
        /\ UNCHANGED <<accepted, peer>>
     \/ /\ \E c \in Waiting :
             /\ peer' = [peer EXCEPT ![c] = "accepted"]
             /\ accepted' = c
        /\ UNCHANGED accepting
  /\ UNCHANGED <<run, stopped, listening, serving, answered>>

(* The destructor of async_tcp_server closes the acceptor; connections      *)
(* nobody has accepted are reset.                                           *)
Leave ==
  /\ ServerGoto("leave", "done")
  /\ listening' = FALSE /\ accepting' = FALSE
  /\ peer' = [c \in Conns |-> IF peer[c] = "backlog" THEN "closed" ELSE peer[c]]
  /\ UNCHANGED <<run, stopped, accepted, serving, answered>>

ServerStep ==
  \/ Construct \/ ConstructFails \/ RunReturns \/ HandleAccept \/ ToReactor
  \/ ReactorAccepts \/ ReactorInterrupted \/ Write \/ Close \/ StartAccept
  \/ Leave

-----------------------------------------------------------------------------
(* The client thread. *)

TestRun ==
  /\ \/ run /\ ClientGoto("while", "connect")
     \/ ~run /\ ClientGoto("while", "done")
  /\ UNCHANGED <<io, client>>

Connect ==
  /\ listening
  /\ ClientGoto("connect", "read")
  /\ \E c \in Conns :
       /\ peer[c] \in {"none", "closed"}
       /\ asking' = c
       /\ peer' = [peer EXCEPT ![c] = "backlog"]
       /\ answered' = [answered EXCEPT ![c] = FALSE]
  /\ UNCHANGED <<run, stopped, listening, accepting, accepted, serving, reply>>

(* client_cycle_fun throws, and the exception ends the loop. *)
ConnectRefused ==
  /\ ~listening
  /\ ClientGoto("connect", "done")
  /\ reply' = "refused"
  /\ UNCHANGED <<io, asking>>

(* read_some returns the message, or an error nobody looks at; the socket   *)
(* is destroyed on the way out.                                             *)
Read ==
  /\ ~ReadBlocks
  /\ ClientGoto("read", "sleep")
  /\ reply' = IF answered[asking] THEN "message" ELSE "nothing"
  /\ asking' = None
  /\ UNCHANGED io

Wake ==
  /\ ClientGoto("sleep", "while")
  /\ UNCHANGED <<io, client>>

ClientStep == TestRun \/ Connect \/ ConnectRefused \/ Read \/ Wake

-----------------------------------------------------------------------------
(* In these states a thread's time does not run. *)
MainIdle == mainPc \in {"poll", "returned"}
ServerIdle == serverPc \in {"idle", "done"} \/ ReactorBlocks
ClientIdle == clientPc \in {"idle", "done"} \/ ReadBlocks

Tick ==
  /\ ~(mainPc = "returned" /\ ServerIdle /\ ClientIdle)
  /\ MainIdle \/ mainDue > 0
  /\ ServerIdle \/ serverDue > 0
  /\ ClientIdle \/ clientDue > 0
  /\ mainDue' = IF MainIdle THEN mainDue ELSE mainDue - 1
  /\ serverDue' = IF ServerIdle THEN MaxDelay ELSE serverDue - 1
  /\ clientDue' = IF ClientIdle THEN MaxDelay ELSE clientDue - 1
  /\ UNCHANGED <<pcs, io, client>>

Ended ==
  /\ mainPc = "returned" /\ serverPc = "done" /\ clientPc = "done"
  /\ UNCHANGED vars

Next == MainStep \/ ServerStep \/ ClientStep \/ Tick \/ Ended

Spec == Init /\ [][Next]_vars

(* Time goes on, and so, by the timers, do the threads that can.  Nothing   *)
(* obliges Android to destroy the activity: the poll owes no step.          *)
Fairness ==
  /\ WF_vars(MainStep /\ mainPc # "poll")
  /\ WF_vars(ServerStep \/ ClientStep \/ Tick)
FairSpec == Spec /\ Fairness
-----------------------------------------------------------------------------
(* Properties. *)

(* The variables keep the values the program can give them.                 *)
TypeOK ==
  /\ mainPc \in MainPcs /\ serverPc \in ServerPcs /\ clientPc \in ClientPcs
  /\ run \in BOOLEAN /\ stopped \in BOOLEAN
  /\ listening \in BOOLEAN /\ accepting \in BOOLEAN
  /\ accepted \in Conns \cup {None} /\ serving \in Conns \cup {None}
  /\ asking \in Conns \cup {None}
  /\ peer \in [Conns -> {"none", "backlog", "accepted", "closed"}]
  /\ answered \in [Conns -> BOOLEAN]
  /\ reply \in {"none", "message", "nothing", "refused"}
  /\ mainDue \in Nat /\ serverDue \in 0 .. MaxDelay /\ clientDue \in Nat

(* A refused connection ends the client for good, with no retry.  The sleep *)
(* before the client starts is long enough for that not to happen to a      *)
(* server that could bind its port and has not been stopped.                *)
ClientFindsServer == reply = "refused" => stopped \/ serverPc = "done"

(* handle_accept closes the socket straight after async_write: the client   *)
(* still reads the message, unless the server has been stopped meanwhile.   *)
MessageArrives == reply = "nothing" => stopped

(* When android_main has slept long enough to return, its two threads are   *)
(* done with its locals, but for a client whose connection was accepted and *)
(* whose handler stop() kept from running.                                  *)
StopSleepOver == mainPc = "stop_sleep" /\ mainDue <= MaxDelay
OnlyStrandedClient ==
  StopSleepOver => /\ serverPc = "done"
                   /\ clientPc = "done" \/ (clientPc = "read" /\ asking = accepted)

(* The server keeps what module AnswerServer promises of each connection.   *)
Conversation(c) ==
  IF peer[c] \in {"none", "closed"} THEN "free"
  ELSE IF answered[c] THEN "answered" ELSE "open"
Server ==
  INSTANCE AnswerServer WITH conn <- [c \in Conns |-> Conversation(c)], down <- stopped
ImplementsServer == Server!Spec

(* The server goes on accepting: a client that has connected is answered,   *)
(* each time round, as long as the server is not stopped.                   *)
ClientAnswered == clientPc = "read" ~> (clientPc # "read" \/ stopped)
=============================================================================

------------------------- MODULE BoostSocketProofs --------------------------
(* Safety of BoostSocket, for every length of its sleeps that the           *)
(* assumption allows.                                                       *)
EXTENDS BoostSocket, TLAPS

(* The program counters of the three threads and the two flags agree.       *)
Threads ==
  /\ serverPc = "idle" <=> mainPc = "start_server"
  /\ clientPc = "idle" <=> mainPc \in {"start_server", "start_sleep"}
  /\ stopped <=> mainPc \in {"clear_run", "stop_sleep", "returned"}
  /\ run <=> mainPc \notin {"stop_sleep", "returned"}
  /\ serverPc = "leave" => stopped

(* The server's fields follow from its control point: it has the connection *)
(* it works on in serving, and one that waits for its handler in accepted.  *)
Holds ==
  /\ listening <=> serverPc \notin {"idle", "construct", "done"}
  /\ serving # None <=> serverPc \in {"write", "close"}
  /\ accepted # None => serverPc \in {"loop", "leave", "done"}
  /\ \A c \in Conns :
       /\ peer[c] = "accepted" <=> c \in {accepted, serving}
       /\ peer[c] = "backlog" => listening
       /\ answered[c] /\ peer[c] \in {"backlog", "accepted"}
            <=> c = serving /\ serverPc = "close"

(* The client in read_some has a connection; unanswered, it is closed only  *)
(* by a server that was stopped.  A connection not yet answered is the one  *)
(* the client is reading from.                                              *)
Asks ==
  /\ asking # None <=> clientPc = "read"
  /\ clientPc = "read" => /\ peer[asking] # "none"
                          /\ peer[asking] = "closed" /\ ~answered[asking] => stopped
  /\ \A c \in Conns :
       peer[c] \in {"backlog", "accepted"} /\ ~answered[c] => c = asking

(* The server is ready before the sleep that stands for it is over.         *)
StartInTime ==
  /\ serverPc = "idle" => serverDue = MaxDelay
  /\ serverPc = "construct" => mainPc = "start_sleep" /\ mainDue = serverDue + StartTimeout
  /\ clientPc # "sleep" => clientDue <= MaxDelay
  /\ clientPc = "sleep" => clientDue <= MaxDelay + ClientCycle

(* While android_main sleeps at the end, what is left of the sleep exceeds  *)
(* what the stopped server needs, by the steps to its end ...               *)
SleepLeft == mainDue - MaxDelay
ServerInTime ==
  mainPc = "stop_sleep" =>
    /\ serverPc = "leave" => serverDue < SleepLeft
    /\ serverPc = "loop" => serverDue + MaxDelay < SleepLeft
    /\ serverPc \in {"start_accept", "reactor"} => serverDue + 2 * MaxDelay < SleepLeft
    /\ serverPc = "close" => serverDue + 3 * MaxDelay < SleepLeft
    /\ serverPc = "write" => serverDue + 4 * MaxDelay < SleepLeft

(* ... and what the client needs, which may have to wait for the server     *)
(* first, unless its connection is or will be left in accepted.             *)
FromRead == 3 * MaxDelay + ClientCycle
ClientInTime ==
  mainPc = "stop_sleep" =>
    /\ clientPc = "while" => clientDue < SleepLeft
    /\ clientPc = "sleep" => clientDue + MaxDelay < SleepLeft
    /\ clientPc = "read" /\ ~ReadBlocks => clientDue + FromRead - MaxDelay < SleepLeft
    /\ clientPc = "connect" =>
         /\ clientDue + 2 * MaxDelay + FromRead < SleepLeft
         /\ serverPc = "reactor" => serverDue + 2 * MaxDelay + FromRead < SleepLeft
    /\ ReadBlocks =>
         /\ serverPc = "write" => serverDue + FromRead < SleepLeft
         /\ peer[asking] = "backlog" =>
              /\ serverPc = "leave" => serverDue + FromRead < SleepLeft
              /\ serverPc = "loop" => serverDue + MaxDelay + FromRead < SleepLeft
              /\ serverPc = "reactor" => serverDue + 2 * MaxDelay + FromRead < SleepLeft

(* A client is refused by a server that never came up or is gone, and finds *)
(* its connection closed by one that was stopped.                           *)
Replies ==
  /\ reply = "nothing" => stopped
  /\ reply = "refused" => stopped \/ serverPc = "done"

Inv ==
  /\ TypeOK /\ Threads /\ Holds /\ Asks /\ Replies
  /\ StartInTime /\ ServerInTime /\ ClientInTime

(* The invariant holds when android_main begins. *)
LEMMA InitInv == Init => Inv
<1> SUFFICES ASSUME Init PROVE Inv
    OBVIOUS
<1> USE BoostSocketAssumption DEF Init
<1>1. /\ run \in BOOLEAN /\ stopped \in BOOLEAN
      /\ listening \in BOOLEAN /\ accepting \in BOOLEAN
      OBVIOUS
<1>2. answered \in [Conns -> BOOLEAN]  OBVIOUS
<1>3. TypeOK  BY <1>1, <1>2 DEF TypeOK, MainPcs, ServerPcs, ClientPcs
<1>4. Threads /\ Holds /\ Asks /\ Replies  BY DEF Threads, Holds, Asks, Replies
<1>5. StartInTime /\ ServerInTime /\ ClientInTime
      BY DEF StartInTime, ServerInTime, ClientInTime, ReadBlocks
<1> QED  BY <1>3, <1>4, <1>5 DEF Inv

(* Every step keeps the types. *)
LEMMA TypesStep ==
  ASSUME TypeOK, Threads, Holds, Asks, [Next]_vars
  PROVE  TypeOK'
<1> USE BoostSocketAssumption DEF TypeOK, Holds, Asks, io, client, Waiting, MainPcs, ServerPcs, ClientPcs,
                                  MainAllowance, ClientAllowance
<1>1. CASE StartServer  BY <1>1 DEF StartServer, MainGoto
<1>2. CASE StartClient  BY <1>2 DEF StartClient, MainGoto
<1>3. CASE StopClientIo  BY <1>3 DEF StopClientIo, MainGoto
<1>4. CASE StopServerIo  BY <1>4 DEF StopServerIo, MainGoto
<1>5. CASE ClearRun
  <2>1. run' \in BOOLEAN  BY <1>5 DEF ClearRun, MainGoto
  <2> QED  BY <1>5, <2>1 DEF ClearRun, MainGoto
<1>6. CASE Return  BY <1>6 DEF Return, MainGoto
<1>7. CASE Construct  BY <1>7 DEF Construct, ServerGoto
<1>8. CASE ConstructFails  BY <1>8 DEF ConstructFails, ServerGoto
<1>9. CASE RunReturns  BY <1>9 DEF RunReturns, ServerGoto
<1>10. CASE HandleAccept  BY <1>10 DEF HandleAccept, ServerGoto
<1>11. CASE ToReactor  BY <1>11 DEF ToReactor, ServerGoto
<1>12. CASE ReactorAccepts
  <2>1. accepting' \in BOOLEAN  BY <1>12 DEF ReactorAccepts, ServerGoto
  <2> QED  BY <1>12, <2>1 DEF ReactorAccepts, ServerGoto
<1>13. CASE ReactorInterrupted  BY <1>13 DEF ReactorInterrupted, ServerGoto
<1>14. CASE Write  BY <1>14 DEF Write, ServerGoto
<1>15. CASE Close  BY <1>15 DEF Close, ServerGoto
<1>16. CASE StartAccept
  <2>1. accepting' \in BOOLEAN  BY <1>16 DEF StartAccept, ServerGoto
  <2> QED  BY <1>16, <2>1 DEF StartAccept, ServerGoto
<1>17. CASE Leave
  <2>1. listening' \in BOOLEAN /\ accepting' \in BOOLEAN  BY <1>17 DEF Leave, ServerGoto
  <2> QED  BY <1>17, <2>1 DEF Leave, ServerGoto
<1>18. CASE TestRun  BY <1>18 DEF TestRun, ClientGoto
<1>19. CASE Connect  BY <1>19 DEF Connect, ClientGoto
<1>20. CASE ConnectRefused  BY <1>20 DEF ConnectRefused, ClientGoto
<1>21. CASE Read  BY <1>21 DEF Read, ClientGoto
<1>22. CASE Wake  BY <1>22 DEF Wake, ClientGoto
<1>23. CASE Tick  BY <1>23 DEF Tick, pcs, MainIdle, ServerIdle, ClientIdle
<1>24. CASE UNCHANGED vars  BY <1>24 DEF vars, pcs, timers
<1> QED
    BY <1>1, <1>2, <1>3, <1>4, <1>5, <1>6, <1>7, <1>8, <1>9, <1>10, <1>11, <1>12,
       <1>13, <1>14, <1>15, <1>16, <1>17, <1>18, <1>19, <1>20, <1>21, <1>22, <1>23, <1>24
       DEF Next, MainStep, ServerStep, ClientStep, Ended

(* Every step keeps the control points in order. *)
LEMMA ThreadsStep ==
  ASSUME TypeOK, Threads, [Next]_vars
  PROVE  Threads'
<1> USE BoostSocketAssumption DEF TypeOK, Threads, io, client
<1>1. CASE StartServer  BY <1>1 DEF StartServer, MainGoto
<1>2. CASE StartClient  BY <1>2 DEF StartClient, MainGoto
<1>3. CASE StopClientIo  BY <1>3 DEF StopClientIo, MainGoto
<1>4. CASE StopServerIo  BY <1>4 DEF StopServerIo, MainGoto
<1>5. CASE ClearRun  BY <1>5 DEF ClearRun, MainGoto
<1>6. CASE Return  BY <1>6 DEF Return, MainGoto
<1>7. CASE Construct  BY <1>7 DEF Construct, ServerGoto
<1>8. CASE ConstructFails  BY <1>8 DEF ConstructFails, ServerGoto
<1>9. CASE RunReturns  BY <1>9 DEF RunReturns, ServerGoto
<1>10. CASE HandleAccept  BY <1>10 DEF HandleAccept, ServerGoto
<1>11. CASE ToReactor  BY <1>11 DEF ToReactor, ServerGoto
<1>12. CASE ReactorAccepts  BY <1>12 DEF ReactorAccepts, ServerGoto
<1>13. CASE ReactorInterrupted  BY <1>13 DEF ReactorInterrupted, ServerGoto
<1>14. CASE Write  BY <1>14 DEF Write, ServerGoto
<1>15. CASE Close  BY <1>15 DEF Close, ServerGoto
<1>16. CASE StartAccept  BY <1>16 DEF StartAccept, ServerGoto
<1>17. CASE Leave  BY <1>17 DEF Leave, ServerGoto
<1>18. CASE TestRun  BY <1>18 DEF TestRun, ClientGoto
<1>19. CASE Connect  BY <1>19 DEF Connect, ClientGoto
<1>20. CASE ConnectRefused  BY <1>20 DEF ConnectRefused, ClientGoto
<1>21. CASE Read  BY <1>21 DEF Read, ClientGoto
<1>22. CASE Wake  BY <1>22 DEF Wake, ClientGoto
<1>23. CASE Tick  BY <1>23 DEF Tick, pcs, MainIdle, ServerIdle, ClientIdle
<1>24. CASE UNCHANGED vars  BY <1>24 DEF vars, pcs, timers
<1> QED
    BY <1>1, <1>2, <1>3, <1>4, <1>5, <1>6, <1>7, <1>8, <1>9, <1>10, <1>11, <1>12,
       <1>13, <1>14, <1>15, <1>16, <1>17, <1>18, <1>19, <1>20, <1>21, <1>22, <1>23, <1>24
       DEF Next, MainStep, ServerStep, ClientStep, Ended

(* Every step keeps the server's fields in line with its control point. *)
LEMMA HoldsStep ==
  ASSUME TypeOK, Threads, Holds, Asks, [Next]_vars
  PROVE  Holds'
<1> USE BoostSocketAssumption DEF TypeOK, Threads, Holds, Asks, io, client, Waiting
<1>1. CASE StartServer  BY <1>1 DEF StartServer, MainGoto
<1>2. CASE StartClient  BY <1>2 DEF StartClient, MainGoto
<1>3. CASE StopClientIo  BY <1>3 DEF StopClientIo, MainGoto
<1>4. CASE StopServerIo  BY <1>4 DEF StopServerIo, MainGoto
<1>5. CASE ClearRun  BY <1>5 DEF ClearRun, MainGoto
<1>6. CASE Return  BY <1>6 DEF Return, MainGoto
<1>7. CASE Construct  BY <1>7 DEF Construct, ServerGoto
<1>8. CASE ConstructFails  BY <1>8 DEF ConstructFails, ServerGoto
<1>9. CASE RunReturns  BY <1>9 DEF RunReturns, ServerGoto
<1>10. CASE HandleAccept  BY <1>10 DEF HandleAccept, ServerGoto
<1>11. CASE ToReactor  BY <1>11 DEF ToReactor, ServerGoto
<1>12. CASE ReactorAccepts  BY <1>12 DEF ReactorAccepts, ServerGoto
<1>13. CASE ReactorInterrupted  BY <1>13 DEF ReactorInterrupted, ServerGoto
<1>14. CASE Write  BY <1>14 DEF Write, ServerGoto
<1>15. CASE Close  BY <1>15 DEF Close, ServerGoto
<1>16. CASE StartAccept  BY <1>16 DEF StartAccept, ServerGoto
<1>17. CASE Leave  BY <1>17 DEF Leave, ServerGoto
<1>18. CASE TestRun  BY <1>18 DEF TestRun, ClientGoto
<1>19. CASE Connect  BY <1>19 DEF Connect, ClientGoto
<1>20. CASE ConnectRefused  BY <1>20 DEF ConnectRefused, ClientGoto
<1>21. CASE Read  BY <1>21 DEF Read, ClientGoto
<1>22. CASE Wake  BY <1>22 DEF Wake, ClientGoto
<1>23. CASE Tick  BY <1>23 DEF Tick, pcs, MainIdle, ServerIdle, ClientIdle
<1>24. CASE UNCHANGED vars  BY <1>24 DEF vars, pcs, timers
<1> QED
    BY <1>1, <1>2, <1>3, <1>4, <1>5, <1>6, <1>7, <1>8, <1>9, <1>10, <1>11, <1>12,
       <1>13, <1>14, <1>15, <1>16, <1>17, <1>18, <1>19, <1>20, <1>21, <1>22, <1>23, <1>24
       DEF Next, MainStep, ServerStep, ClientStep, Ended

(* Every step keeps what the client knows of its connection. *)
LEMMA AsksStep ==
  ASSUME TypeOK, Threads, Holds, Asks, [Next]_vars
  PROVE  Asks'
<1> USE BoostSocketAssumption DEF TypeOK, Threads, Holds, Asks, io, client, Waiting,
                                  ReadBlocks
<1>1. CASE StartServer  BY <1>1 DEF StartServer, MainGoto
<1>2. CASE StartClient  BY <1>2 DEF StartClient, MainGoto
<1>3. CASE StopClientIo  BY <1>3 DEF StopClientIo, MainGoto
<1>4. CASE StopServerIo  BY <1>4 DEF StopServerIo, MainGoto
<1>5. CASE ClearRun  BY <1>5 DEF ClearRun, MainGoto
<1>6. CASE Return  BY <1>6 DEF Return, MainGoto
<1>7. CASE Construct  BY <1>7 DEF Construct, ServerGoto
<1>8. CASE ConstructFails  BY <1>8 DEF ConstructFails, ServerGoto
<1>9. CASE RunReturns  BY <1>9 DEF RunReturns, ServerGoto
<1>10. CASE HandleAccept  BY <1>10 DEF HandleAccept, ServerGoto
<1>11. CASE ToReactor  BY <1>11 DEF ToReactor, ServerGoto
<1>12. CASE ReactorAccepts  BY <1>12 DEF ReactorAccepts, ServerGoto
<1>13. CASE ReactorInterrupted  BY <1>13 DEF ReactorInterrupted, ServerGoto
<1>14. CASE Write  BY <1>14 DEF Write, ServerGoto
<1>15. CASE Close  BY <1>15 DEF Close, ServerGoto
<1>16. CASE StartAccept  BY <1>16 DEF StartAccept, ServerGoto
<1>17. CASE Leave  BY <1>17 DEF Leave, ServerGoto
<1>18. CASE TestRun  BY <1>18 DEF TestRun, ClientGoto
<1>19. CASE Connect  BY <1>19 DEF Connect, ClientGoto
<1>20. CASE ConnectRefused  BY <1>20 DEF ConnectRefused, ClientGoto
<1>21. CASE Read  BY <1>21 DEF Read, ClientGoto
<1>22. CASE Wake  BY <1>22 DEF Wake, ClientGoto
<1>23. CASE Tick  BY <1>23 DEF Tick, pcs, MainIdle, ServerIdle, ClientIdle
<1>24. CASE UNCHANGED vars  BY <1>24 DEF vars, pcs, timers
<1> QED
    BY <1>1, <1>2, <1>3, <1>4, <1>5, <1>6, <1>7, <1>8, <1>9, <1>10, <1>11, <1>12,
       <1>13, <1>14, <1>15, <1>16, <1>17, <1>18, <1>19, <1>20, <1>21, <1>22, <1>23, <1>24
       DEF Next, MainStep, ServerStep, ClientStep, Ended

(* Every step keeps the reasons of the client's failures. *)
LEMMA RepliesStep ==
  ASSUME TypeOK, Threads, Holds, Asks, Replies, StartInTime, [Next]_vars
  PROVE  Replies'
<1> USE BoostSocketAssumption DEF TypeOK, Threads, Holds, Asks, Replies, StartInTime, io,
                                  client, Waiting, ReadBlocks
<1>1. CASE StartServer  BY <1>1 DEF StartServer, MainGoto
<1>2. CASE StartClient  BY <1>2 DEF StartClient, MainGoto
<1>3. CASE StopClientIo  BY <1>3 DEF StopClientIo, MainGoto
<1>4. CASE StopServerIo  BY <1>4 DEF StopServerIo, MainGoto
<1>5. CASE ClearRun  BY <1>5 DEF ClearRun, MainGoto
<1>6. CASE Return  BY <1>6 DEF Return, MainGoto
<1>7. CASE Construct  BY <1>7 DEF Construct, ServerGoto
<1>8. CASE ConstructFails  BY <1>8 DEF ConstructFails, ServerGoto
<1>9. CASE RunReturns  BY <1>9 DEF RunReturns, ServerGoto
<1>10. CASE HandleAccept  BY <1>10 DEF HandleAccept, ServerGoto
<1>11. CASE ToReactor  BY <1>11 DEF ToReactor, ServerGoto
<1>12. CASE ReactorAccepts  BY <1>12 DEF ReactorAccepts, ServerGoto
<1>13. CASE ReactorInterrupted  BY <1>13 DEF ReactorInterrupted, ServerGoto
<1>14. CASE Write  BY <1>14 DEF Write, ServerGoto
<1>15. CASE Close  BY <1>15 DEF Close, ServerGoto
<1>16. CASE StartAccept  BY <1>16 DEF StartAccept, ServerGoto
<1>17. CASE Leave  BY <1>17 DEF Leave, ServerGoto
<1>18. CASE TestRun  BY <1>18 DEF TestRun, ClientGoto
<1>19. CASE Connect  BY <1>19 DEF Connect, ClientGoto
<1>20. CASE ConnectRefused  BY <1>20 DEF ConnectRefused, ClientGoto
<1>21. CASE Read  BY <1>21 DEF Read, ClientGoto
<1>22. CASE Wake  BY <1>22 DEF Wake, ClientGoto
<1>23. CASE Tick  BY <1>23 DEF Tick, pcs, MainIdle, ServerIdle, ClientIdle
<1>24. CASE UNCHANGED vars  BY <1>24 DEF vars, pcs, timers
<1> QED
    BY <1>1, <1>2, <1>3, <1>4, <1>5, <1>6, <1>7, <1>8, <1>9, <1>10, <1>11, <1>12,
       <1>13, <1>14, <1>15, <1>16, <1>17, <1>18, <1>19, <1>20, <1>21, <1>22, <1>23, <1>24
       DEF Next, MainStep, ServerStep, ClientStep, Ended

(* Every step keeps the server ahead of the end of the first sleep. *)
LEMMA StartInTimeStep ==
  ASSUME TypeOK, Threads, StartInTime, [Next]_vars
  PROVE  StartInTime'
<1> USE BoostSocketAssumption DEF TypeOK, Threads, StartInTime, io, client, MainAllowance,
                                  ClientAllowance, ReactorBlocks
<1>1. CASE StartServer  BY <1>1 DEF StartServer, MainGoto
<1>2. CASE StartClient  BY <1>2 DEF StartClient, MainGoto
<1>3. CASE StopClientIo  BY <1>3 DEF StopClientIo, MainGoto
<1>4. CASE StopServerIo  BY <1>4 DEF StopServerIo, MainGoto
<1>5. CASE ClearRun  BY <1>5 DEF ClearRun, MainGoto
<1>6. CASE Return  BY <1>6 DEF Return, MainGoto
<1>7. CASE Construct  BY <1>7 DEF Construct, ServerGoto
<1>8. CASE ConstructFails  BY <1>8 DEF ConstructFails, ServerGoto
<1>9. CASE RunReturns  BY <1>9 DEF RunReturns, ServerGoto
<1>10. CASE HandleAccept  BY <1>10 DEF HandleAccept, ServerGoto
<1>11. CASE ToReactor  BY <1>11 DEF ToReactor, ServerGoto
<1>12. CASE ReactorAccepts  BY <1>12 DEF ReactorAccepts, ServerGoto
<1>13. CASE ReactorInterrupted  BY <1>13 DEF ReactorInterrupted, ServerGoto
<1>14. CASE Write  BY <1>14 DEF Write, ServerGoto
<1>15. CASE Close  BY <1>15 DEF Close, ServerGoto
<1>16. CASE StartAccept  BY <1>16 DEF StartAccept, ServerGoto
<1>17. CASE Leave  BY <1>17 DEF Leave, ServerGoto
<1>18. CASE TestRun  BY <1>18 DEF TestRun, ClientGoto
<1>19. CASE Connect  BY <1>19 DEF Connect, ClientGoto
<1>20. CASE ConnectRefused  BY <1>20 DEF ConnectRefused, ClientGoto
<1>21. CASE Read  BY <1>21 DEF Read, ClientGoto
<1>22. CASE Wake  BY <1>22 DEF Wake, ClientGoto
<1>23. CASE Tick  BY <1>23 DEF Tick, pcs, MainIdle, ServerIdle, ClientIdle
<1>24. CASE UNCHANGED vars  BY <1>24 DEF vars, pcs, timers
<1> QED
    BY <1>1, <1>2, <1>3, <1>4, <1>5, <1>6, <1>7, <1>8, <1>9, <1>10, <1>11, <1>12,
       <1>13, <1>14, <1>15, <1>16, <1>17, <1>18, <1>19, <1>20, <1>21, <1>22, <1>23, <1>24
       DEF Next, MainStep, ServerStep, ClientStep, Ended

(* Every step keeps the stopped server ahead of the end of the last sleep. *)
LEMMA ServerInTimeStep ==
  ASSUME TypeOK, Threads, Holds, StartInTime, ServerInTime, [Next]_vars
  PROVE  ServerInTime'
<1> USE BoostSocketAssumption DEF TypeOK, Threads, StartInTime, ServerInTime, SleepLeft, io,
                                  client, MainAllowance, ReactorBlocks
<1>1. CASE StartServer  BY <1>1 DEF StartServer, MainGoto
<1>2. CASE StartClient  BY <1>2 DEF StartClient, MainGoto
<1>3. CASE StopClientIo  BY <1>3 DEF StopClientIo, MainGoto
<1>4. CASE StopServerIo  BY <1>4 DEF StopServerIo, MainGoto
<1>5. CASE ClearRun  BY <1>5 DEF ClearRun, MainGoto
<1>6. CASE Return  BY <1>6 DEF Return, MainGoto
<1>7. CASE Construct  BY <1>7 DEF Construct, ServerGoto
<1>8. CASE ConstructFails  BY <1>8 DEF ConstructFails, ServerGoto
<1>9. CASE RunReturns  BY <1>9 DEF RunReturns, ServerGoto
<1>10. CASE HandleAccept  BY <1>10 DEF HandleAccept, ServerGoto
<1>11. CASE ToReactor  BY <1>11 DEF ToReactor, ServerGoto
<1>12. CASE ReactorAccepts  BY <1>12 DEF ReactorAccepts, ServerGoto
<1>13. CASE ReactorInterrupted  BY <1>13 DEF ReactorInterrupted, ServerGoto
<1>14. CASE Write  BY <1>14 DEF Write, ServerGoto
<1>15. CASE Close  BY <1>15 DEF Close, ServerGoto
<1>16. CASE StartAccept  BY <1>16 DEF StartAccept, ServerGoto
<1>17. CASE Leave  BY <1>17 DEF Leave, ServerGoto
<1>18. CASE TestRun  BY <1>18 DEF TestRun, ClientGoto
<1>19. CASE Connect  BY <1>19 DEF Connect, ClientGoto
<1>20. CASE ConnectRefused  BY <1>20 DEF ConnectRefused, ClientGoto
<1>21. CASE Read  BY <1>21 DEF Read, ClientGoto
<1>22. CASE Wake  BY <1>22 DEF Wake, ClientGoto
<1>23. CASE Tick  BY <1>23 DEF Tick, pcs, MainIdle, ServerIdle, ClientIdle
<1>24. CASE UNCHANGED vars  BY <1>24 DEF vars, pcs, timers
<1> QED
    BY <1>1, <1>2, <1>3, <1>4, <1>5, <1>6, <1>7, <1>8, <1>9, <1>10, <1>11, <1>12,
       <1>13, <1>14, <1>15, <1>16, <1>17, <1>18, <1>19, <1>20, <1>21, <1>22, <1>23, <1>24
       DEF Next, MainStep, ServerStep, ClientStep, Ended

(* Every step keeps the client ahead of it, too. *)
LEMMA ClientInTimeStep ==
  ASSUME TypeOK, Threads, Holds, Asks, StartInTime, ClientInTime, [Next]_vars
  PROVE  ClientInTime'
<1> USE BoostSocketAssumption DEF TypeOK, Threads, Holds, Asks, StartInTime, ClientInTime,
                                  FromRead, SleepLeft, io, client, MainAllowance, ClientAllowance,
                                  ReactorBlocks, ReadBlocks, Waiting
<1>1. CASE StartServer  BY <1>1 DEF StartServer, MainGoto
<1>2. CASE StartClient  BY <1>2 DEF StartClient, MainGoto
<1>3. CASE StopClientIo  BY <1>3 DEF StopClientIo, MainGoto
<1>4. CASE StopServerIo  BY <1>4 DEF StopServerIo, MainGoto
<1>5. CASE ClearRun  BY <1>5 DEF ClearRun, MainGoto
<1>6. CASE Return  BY <1>6 DEF Return, MainGoto
<1>7. CASE Construct  BY <1>7 DEF Construct, ServerGoto
<1>8. CASE ConstructFails  BY <1>8 DEF ConstructFails, ServerGoto
<1>9. CASE RunReturns  BY <1>9 DEF RunReturns, ServerGoto
<1>10. CASE HandleAccept  BY <1>10 DEF HandleAccept, ServerGoto
<1>11. CASE ToReactor  BY <1>11 DEF ToReactor, ServerGoto
<1>12. CASE ReactorAccepts  BY <1>12 DEF ReactorAccepts, ServerGoto
<1>13. CASE ReactorInterrupted  BY <1>13 DEF ReactorInterrupted, ServerGoto
<1>14. CASE Write  BY <1>14 DEF Write, ServerGoto
<1>15. CASE Close  BY <1>15 DEF Close, ServerGoto
<1>16. CASE StartAccept  BY <1>16 DEF StartAccept, ServerGoto
<1>17. CASE Leave  BY <1>17 DEF Leave, ServerGoto
<1>18. CASE TestRun  BY <1>18 DEF TestRun, ClientGoto
<1>19. CASE Connect  BY <1>19 DEF Connect, ClientGoto
<1>20. CASE ConnectRefused  BY <1>20 DEF ConnectRefused, ClientGoto
<1>21. CASE Read  BY <1>21 DEF Read, ClientGoto
<1>22. CASE Wake  BY <1>22 DEF Wake, ClientGoto
<1>23. CASE Tick  BY <1>23 DEF Tick, pcs, MainIdle, ServerIdle, ClientIdle
<1>24. CASE UNCHANGED vars  BY <1>24 DEF vars, pcs, timers
<1> QED
    BY <1>1, <1>2, <1>3, <1>4, <1>5, <1>6, <1>7, <1>8, <1>9, <1>10, <1>11, <1>12,
       <1>13, <1>14, <1>15, <1>16, <1>17, <1>18, <1>19, <1>20, <1>21, <1>22, <1>23, <1>24
       DEF Next, MainStep, ServerStep, ClientStep, Ended

(* Each step keeps the invariant. *)
LEMMA NextInv == Inv /\ [Next]_vars => Inv'
BY TypesStep, ThreadsStep, HoldsStep, AsksStep, RepliesStep, StartInTimeStep,
   ServerInTimeStep, ClientInTimeStep DEF Inv

(* The invariant holds in every state. *)
LEMMA SpecInv == Spec => []Inv
BY InitInv, NextInv, PTL DEF Spec

(* The variables keep their types. *)
THEOREM TypeCorrect == Spec => []TypeOK
<1>1. Inv => TypeOK  BY DEF Inv
<1> QED  BY <1>1, SpecInv, PTL

(* The client is refused only by a server that could not bind its port or   *)
(* was stopped, for every start-up sleep longer than one step.              *)
THEOREM ClientFindsServerHolds == Spec => []ClientFindsServer
<1>1. Inv => ClientFindsServer  BY DEF Inv, Replies, ClientFindsServer
<1> QED  BY <1>1, SpecInv, PTL

(* The client reads the message although the socket is closed at once.      *)
THEOREM MessageArrivesHolds == Spec => []MessageArrives
<1>1. Inv => MessageArrives  BY DEF Inv, Replies, MessageArrives
<1> QED  BY <1>1, SpecInv, PTL

(* The last sleep outlasts both threads but for a stranded client.          *)
THEOREM OnlyStrandedClientHolds == Spec => []OnlyStrandedClient
<1>1. ASSUME Inv, StopSleepOver
      PROVE  serverPc = "done" /\ (clientPc = "done" \/ (clientPc = "read" /\ asking = accepted))
  <2> USE BoostSocketAssumption DEF Inv, TypeOK, StopSleepOver, SleepLeft
  <2>1. serverPc = "done"
        BY <1>1 DEF ServerInTime, Threads, StartInTime, ServerPcs
  <2>2. clientPc \in {"read", "done"}
        BY <1>1 DEF ClientInTime, FromRead, Threads, ClientPcs
  <2>3. CASE clientPc = "read"
    <3>1. ReadBlocks  BY <1>1, <2>3 DEF ClientInTime, FromRead
    <3>2. peer[asking] = "accepted"
          BY <1>1, <2>1, <2>3, <3>1 DEF ReadBlocks, Holds, Asks
    <3> QED  BY <1>1, <2>1, <2>3, <3>2 DEF Holds, Asks
  <2> QED  BY <2>1, <2>2, <2>3
<1>2. Inv => OnlyStrandedClient  BY <1>1 DEF OnlyStrandedClient
<1> QED  BY <1>2, SpecInv, PTL

(* A step that keeps each conversation and the stop flag is a stutter of    *)
(* AnswerServer.                                                            *)
LEMMA Stutters ==
  ASSUME \A c \in Conns : Conversation(c)' = Conversation(c), stopped' = stopped
  PROVE  [Server!ServerNext]_<<[c \in Conns |-> Conversation(c)], stopped>>
OBVIOUS

(* Each step is one of AnswerServer or a stutter. *)
LEMMA NextServer ==
  ASSUME Inv, [Next]_vars
  PROVE  [Server!ServerNext]_<<[c \in Conns |-> Conversation(c)], stopped>>
<1> USE BoostSocketAssumption DEF Inv, TypeOK
<1>1. CASE StopServerIo
  <2>1. stopped' = TRUE /\ UNCHANGED <<peer, answered>>  BY <1>1 DEF StopServerIo
  <2> QED  BY <2>1 DEF Conversation, Server!ServerNext, Server!Stop
<1>2. CASE Connect
  <2>1. PICK c \in Conns :
          /\ peer[c] \in {"none", "closed"} /\ UNCHANGED stopped
          /\ peer' = [peer EXCEPT ![c] = "backlog"]
          /\ answered' = [answered EXCEPT ![c] = FALSE]
        BY <1>2 DEF Connect
  <2>2. Server!Connect(c)  BY <2>1 DEF Conversation, Server!Connect
  <2> QED  BY <2>2 DEF Server!ServerNext
<1>3. CASE Write
  <2>1. /\ serving \in Conns /\ peer[serving] = "accepted" /\ ~answered[serving]
        /\ answered' = [answered EXCEPT ![serving] = TRUE]
        /\ UNCHANGED <<peer, stopped>>
        BY <1>3 DEF Write, ServerGoto, Holds
  <2>2. \A d \in Conns : Conversation(d) # "answered"
        BY <1>3 DEF Write, ServerGoto, Holds, Conversation
  <2>3. Server!Answer(serving)
        BY <2>1, <2>2 DEF Conversation, Server!Answer
  <2> QED  BY <2>1, <2>3 DEF Server!ServerNext
<1>4. CASE Close
  <2>1. /\ serving \in Conns /\ peer[serving] = "accepted" /\ answered[serving]
        /\ peer' = [peer EXCEPT ![serving] = "closed"]
        /\ UNCHANGED <<answered, stopped>>
        BY <1>4 DEF Close, ServerGoto, Holds
  <2>2. Server!Close(serving)  BY <2>1 DEF Conversation, Server!Close
  <2> QED  BY <2>1, <2>2 DEF Server!ServerNext
<1>5. CASE Return \/ Leave
  <2> DEFINE lost == {c \in Conns : peer[c] # "closed" /\ peer'[c] = "closed"}
  <2>1. stopped /\ UNCHANGED <<stopped, answered>>
        BY <1>5 DEF Return, Leave, MainGoto, ServerGoto, Threads
  <2>2. \A c \in lost : Conversation(c) = "open"
        BY <1>5 DEF Return, Leave, MainGoto, ServerGoto, Holds, Conversation
  <2>3. \A c \in Conns : Conversation(c)' = IF c \in lost THEN "free" ELSE Conversation(c)
        BY <1>5, <2>1 DEF Return, Leave, Conversation
  <2>4. lost \in SUBSET {c \in Conns : [d \in Conns |-> Conversation(d)][c] = "open"}
        BY <2>2
  <2>5. Server!Abandon
    <3> HIDE DEF lost
    <3> QED  BY <2>1, <2>3, <2>4 DEF Server!Abandon
  <2> QED  BY <2>5 DEF Server!ServerNext
<1>6. CASE ReactorAccepts \/ StartAccept
  <2>1. \A c \in Conns : Conversation(c)' = Conversation(c) /\ stopped' = stopped
        BY <1>6 DEF ReactorAccepts, StartAccept, Waiting, Conversation
  <2> QED  BY <2>1, Stutters
<1>7. CASE UNCHANGED <<peer, answered, stopped>>
      BY <1>7, Stutters DEF Conversation
<1>8. CASE Tick \/ UNCHANGED vars
      BY <1>8, <1>7 DEF Tick, vars, io
<1>9. CASE StartServer \/ StartClient \/ StopClientIo \/ ClearRun
      BY <1>9, <1>7 DEF StartServer, StartClient, StopClientIo, ClearRun, io
<1>10. CASE Construct \/ ConstructFails \/ RunReturns \/ HandleAccept \/ ToReactor
            \/ ReactorInterrupted
      BY <1>10, <1>7 DEF Construct, ConstructFails, RunReturns, HandleAccept, ToReactor,
         ReactorInterrupted, io
<1>11. CASE TestRun \/ ConnectRefused \/ Read \/ Wake
      BY <1>11, <1>7 DEF TestRun, ConnectRefused, Read, Wake, io
<1> QED
    BY <1>1, <1>2, <1>3, <1>4, <1>5, <1>6, <1>8, <1>9, <1>10, <1>11
       DEF Next, MainStep, ServerStep, ClientStep, Ended

(* The server answers each connection once and closes it, one at a time,    *)
(* and abandons none before it is stopped: it implements AnswerServer.      *)
THEOREM SpecImplementsServer == Spec => ImplementsServer
<1>1. Init => Server!ServerInit  BY DEF Init, Server!ServerInit, Conversation
<1> QED  BY <1>1, SpecInv, NextServer, PTL DEF Spec, ImplementsServer, Server!Spec

(* The lengths in the code are among those BoostSocketAssumption allows, as *)
(* long as no step of a thread takes more than 41 milliseconds.             *)
LEMMA ProgramSleepsFit ==
  ASSUME StartTimeout = 450, StopTimeout = 350, ClientCycle = 100, MaxDelay \in 1 .. 41
  PROVE  StartTimeout > MaxDelay /\ StopTimeout > ClientCycle + 6 * MaxDelay
OBVIOUS

(* What AnswerServer means for the connections: the server has answered one *)
(* at a time, and one that goes without an answer goes because the server   *)
(* was stopped.                                                             *)
OneAnswered ==
  \A c, d \in Conns :
    Conversation(c) = "answered" /\ Conversation(d) = "answered" => c = d
DroppedByStop ==
  \A c \in Conns : Conversation(c) = "open" /\ Conversation(c)' = "free" => stopped

(* Until handle_accept has closed a connection it answers no other.         *)
THEOREM OneAnsweredHolds == Spec => []OneAnswered
<1>1. Inv => OneAnswered  BY DEF Inv, TypeOK, Holds, Conversation, OneAnswered
<1> QED  BY <1>1, SpecInv, PTL

(* No accepted connection is lost while the server runs.                    *)
THEOREM DroppedByStopHolds == Spec => [][DroppedByStop]_vars
<1>1. ASSUME [Server!ServerNext]_<<[c \in Conns |-> Conversation(c)], stopped>>
      PROVE  DroppedByStop
  <2> DEFINE conn == [c \in Conns |-> Conversation(c)]
  <2>1. conn' = [c \in Conns |-> Conversation(c)']
        OBVIOUS
  <2> SUFFICES ASSUME NEW c \in Conns, conn[c] = "open", conn'[c] = "free"
               PROVE  stopped
      BY <2>1 DEF DroppedByStop
  <2> HIDE DEF conn
  <2>2. conn' # conn
        OBVIOUS
  <2>3. Server!ServerNext
        BY <1>1, <2>2 DEF conn
  <2> QED
      BY <2>3 DEF conn, Server!ServerNext, Server!Connect, Server!Answer, Server!Close,
         Server!Stop, Server!Abandon
<1>2. Inv /\ [Next]_vars => [DroppedByStop]_vars  BY <1>1, NextServer
<1> QED  BY <1>2, SpecInv, PTL DEF Spec
=============================================================================

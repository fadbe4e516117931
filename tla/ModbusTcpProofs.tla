-------------------------- MODULE ModbusTcpProofs ---------------------------
(* Safety of ModbusTcp, for any number of launches and requests and any     *)
(* backlog.                                                                 *)
EXTENDS ModbusTcp, SequenceTheorems, TLAPS

(* TypeOK in four parts. *)
PcTypes ==
  /\ mainPc \in {"none", "start_sleep", "poll"} /\ launched \in 0 .. MaxLaunches
  /\ serverPc \in [Launches -> {"idle", "mapping", "listen", "accept", "receive", "done"}]
  /\ clientPc \in [Launches -> {"idle", "connect", "ask", "wait", "done"}]
CountTypes ==
  /\ inbox \in [Launches -> {"empty", "request", "answer"}]
  /\ left \in [Launches -> 0 .. Requests] /\ fails \in [Launches -> 0 .. Requests]
  /\ closed \in [Launches -> BOOLEAN]
  /\ serverReport \in [Launches -> {"none", "start failed", "test OK"}]
  /\ clientReport \in [Launches -> {"none", "start failed", "test failed", "test OK"}]
SocketTypes ==
  /\ listener \in 0 .. launched /\ backlog \in Seq(Launches)
  /\ serving \in [Launches -> 0 .. MaxLaunches]
OneServer ==
  /\ \A k, l \in Launches : serving[k] = serving[l] /\ k # l => serving[k] = Nobody
  /\ \A l \in Launches : ~Waits(serving[l])

(* A thread is idle until its launch has started it. *)
Started ==
  /\ mainPc = "start_sleep" => launched # 0 /\ clientPc[launched] = "idle"
  /\ \A l \in Launches : /\ serverPc[l] = "idle" <=> l > launched
                         /\ l > launched => clientPc[l] = "idle"

(* Only a connected client waits in the backlog, once, or is served.        *)
Queued ==
  /\ \A i, j \in DOMAIN backlog : backlog[i] = backlog[j] => i = j
  /\ \A l \in Launches :
       clientPc[l] \in {"idle", "connect"} => ~Waits(l) /\ ~Served(l)

(* An answer comes from a server that serves the client, so the requests    *)
(* that neither failed nor are still to be made were served.                *)
Counted ==
  \A l \in Launches :
    /\ left[l] + fails[l] <= Requests
    /\ clientPc[l] = "wait" => left[l] > 0
    /\ inbox[l] = "answer" \/ left[l] + fails[l] < Requests => Served(l)

(* The socket is that of a server which is past listening, and a server that *)
(* accepts has it.                                                          *)
Listens ==
  \A l \in Launches :
    /\ serverPc[l] \in {"idle", "mapping", "listen"} => listener # l /\ serving[l] = Nobody
    /\ serverPc[l] = "accept" => listener = l /\ serving[l] = Nobody
    /\ serverReport[l] # "none" => serverPc[l] = "done"

(* Who waits has a socket to wait in, and has lost nothing while its server *)
(* still accepts.                                                           *)
Unaccepted ==
  /\ \A m \in Launches :
       /\ clientPc[m] \in {"idle", "connect"} => fails[m] = 0
       /\ Waits(m) => listener # Nobody
  /\ \A k, m \in Launches : serverPc[k] = "accept" /\ Waits(m) => fails[m] = 0

(* Who has the port waits for a client or has taken one.                    *)
PortUsed == listener # Nobody => \/ serverPc[listener] = "accept"
                                 \/ serving[listener] # Nobody

(* Another client has been taken, or a failure has gone unnoticed.          *)
Cause(l) ==
  \E k \in Launches : serving[k] \notin {Nobody, l} \/ FailedUnseen(k)

(* A connection is lost, and then requests on it, for no other reason.      *)
LostForCause ==
  \A l \in Launches :
    \/ clientPc[l] \in {"ask", "wait"} /\ ~Waits(l) /\ ~Served(l)
    \/ fails[l] # 0
    \/ clientReport[l] = "test failed"
    => Cause(l)

Inv ==
  /\ TypeOK /\ Started /\ Queued /\ Counted /\ Listens /\ Unaccepted
  /\ ClientOkMeansServed /\ ServedNeverFails /\ PortUsed /\ LostForCause

(* What Append and Tail do to the elements of a sequence. *)
LEMMA AppendFacts ==
  ASSUME NEW S, NEW s \in Seq(S), NEW e \in S
  PROVE  /\ Append(s, e) \in Seq(S) /\ DOMAIN s = 1 .. Len(s) /\ Len(s) \in Nat
         /\ DOMAIN Append(s, e) = 1 .. (Len(s) + 1)
         /\ Append(s, e)[Len(s) + 1] = e
         /\ \A i \in 1 .. Len(s) : Append(s, e)[i] = s[i]
  OBVIOUS

(* Head and Tail of a sequence that is not empty. *)
LEMMA TailFacts ==
  ASSUME NEW S, NEW s \in Seq(S), s # <<>>
  PROVE  /\ Tail(s) \in Seq(S) /\ DOMAIN s = 1 .. Len(s) /\ Len(s) \in Nat \ {0}
         /\ DOMAIN Tail(s) = 1 .. (Len(s) - 1)
         /\ Head(s) = s[1] /\ s[1] \in S
         /\ \A i \in 1 .. (Len(s) - 1) : Tail(s)[i] = s[i + 1]
  OBVIOUS

(* A request that is still to be made can fail within the count. *)
LEMMA FailureFits ==
  ASSUME NEW a \in 0 .. Requests, NEW b \in 0 .. Requests, a > 0, a + b <= Requests
  PROVE  a - 1 \in 0 .. Requests /\ b + 1 \in 0 .. Requests
  BY ModbusTcpAssumption

(* Every step keeps the types of the program counters. *)
LEMMA PcStep ==
  ASSUME PcTypes,
         [Next]_vars
  PROVE  PcTypes'
<1> USE ModbusTcpAssumption DEF Launches, Nobody, PcTypes
<1>1. CASE Launch  BY <1>1 DEF Launch, clients, servers
<1>2. CASE StartClient  BY <1>2 DEF StartClient, clients, servers
<1>3. CASE Destroy  BY <1>3 DEF Destroy, clients, servers
<1>4. ASSUME NEW l \in Launches, NewMapping(l)  PROVE PcTypes'
      BY <1>4 DEF NewMapping, ServerGoto, main, clients
<1>5. ASSUME NEW l \in Launches, MappingFails(l)  PROVE PcTypes'
      BY <1>5 DEF MappingFails, ServerGoto, main, clients
<1>6. ASSUME NEW l \in Launches, Listen(l)  PROVE PcTypes'
      BY <1>6 DEF Listen, ServerGoto, main, clients
<1>7. ASSUME NEW l \in Launches, ListenFails(l)  PROVE PcTypes'
      BY <1>7 DEF ListenFails, ServerGoto, main, clients
<1>8. ASSUME NEW l \in Launches, Accept(l)  PROVE PcTypes'
      BY <1>8 DEF Accept, ServerGoto, main, clients
<1>9. ASSUME NEW l \in Launches, Reply(l)  PROVE PcTypes'
      BY <1>9 DEF Reply, ServerGoto, main, clients
<1>10. ASSUME NEW l \in Launches, QuitLoop(l)  PROVE PcTypes'
      BY <1>10 DEF QuitLoop, ServerGoto, main, clients
<1>11. ASSUME NEW l \in Launches, Connect(l)  PROVE PcTypes'
      BY <1>11 DEF Connect, ClientGoto, main, servers
<1>12. ASSUME NEW l \in Launches, ConnectFails(l)  PROVE PcTypes'
      BY <1>12 DEF ConnectFails, ClientGoto, main, servers
<1>13. ASSUME NEW l \in Launches, Ask(l)  PROVE PcTypes'
      BY <1>13 DEF Ask, ClientGoto, main, servers
<1>14. ASSUME NEW l \in Launches, Answered(l)  PROVE PcTypes'
      BY <1>14 DEF Answered, ClientGoto, main, servers
<1>15. ASSUME NEW l \in Launches, TimedOut(l)  PROVE PcTypes'
      BY <1>15 DEF TimedOut, ClientGoto, main, servers
<1>16. ASSUME NEW l \in Launches, Close(l)  PROVE PcTypes'
      BY <1>16 DEF Close, ClientGoto, main, servers
<1>17. CASE UNCHANGED vars
    BY <1>17 DEF vars, main, servers, clients
<1>18. ASSUME NEW l \in Launches, AcceptFails(l)  PROVE PcTypes'
      BY <1>18 DEF AcceptFails, ServerGoto, main, clients
<1>19. ASSUME NEW l \in Launches, QuitUnserved(l)  PROVE PcTypes'
      BY <1>19 DEF QuitUnserved, ServerGoto, main, clients
<1> QED
    BY <1>1, <1>2, <1>3, <1>4, <1>5, <1>6, <1>7, <1>8,
       <1>9, <1>10, <1>11, <1>12, <1>13, <1>14, <1>15, <1>16, <1>17,
       <1>18, <1>19
       DEF Next, ServerStep, ServerRuns, ClientStep, Quiet

(* Every step keeps threads idle until they are started. *)
LEMMA StartedStep ==
  ASSUME PcTypes, Started,
         [Next]_vars
  PROVE  Started'
<1> USE ModbusTcpAssumption DEF Launches, Nobody, PcTypes, Started
<1>1. CASE Launch  BY <1>1 DEF Launch, clients, servers
<1>2. CASE StartClient  BY <1>2 DEF StartClient, clients, servers
<1>3. CASE Destroy  BY <1>3 DEF Destroy, clients, servers
<1>4. ASSUME NEW l \in Launches, NewMapping(l)  PROVE Started'
      BY <1>4 DEF NewMapping, ServerGoto, main, clients
<1>5. ASSUME NEW l \in Launches, MappingFails(l)  PROVE Started'
      BY <1>5 DEF MappingFails, ServerGoto, main, clients
<1>6. ASSUME NEW l \in Launches, Listen(l)  PROVE Started'
      BY <1>6 DEF Listen, ServerGoto, main, clients
<1>7. ASSUME NEW l \in Launches, ListenFails(l)  PROVE Started'
      BY <1>7 DEF ListenFails, ServerGoto, main, clients
<1>8. ASSUME NEW l \in Launches, Accept(l)  PROVE Started'
      BY <1>8 DEF Accept, ServerGoto, main, clients
<1>9. ASSUME NEW l \in Launches, Reply(l)  PROVE Started'
      BY <1>9 DEF Reply, ServerGoto, main, clients
<1>10. ASSUME NEW l \in Launches, QuitLoop(l)  PROVE Started'
      BY <1>10 DEF QuitLoop, ServerGoto, main, clients
<1>11. ASSUME NEW l \in Launches, Connect(l)  PROVE Started'
      BY <1>11 DEF Connect, ClientGoto, main, servers
<1>12. ASSUME NEW l \in Launches, ConnectFails(l)  PROVE Started'

  <2>1. clientPc' = [clientPc EXCEPT ![l] = "done"] /\ clientPc[l] = "connect"
    BY <1>12 DEF ConnectFails, ClientGoto, servers
  <2>2. UNCHANGED <<main, serverPc>>
    BY <1>12 DEF ConnectFails, ClientGoto, servers
  <2> QED  BY <2>1, <2>2 DEF main
<1>13. ASSUME NEW l \in Launches, Ask(l)  PROVE Started'
      BY <1>13 DEF Ask, ClientGoto, main, servers
<1>14. ASSUME NEW l \in Launches, Answered(l)  PROVE Started'
      BY <1>14 DEF Answered, ClientGoto, main, servers
<1>15. ASSUME NEW l \in Launches, TimedOut(l)  PROVE Started'
      BY <1>15 DEF TimedOut, ClientGoto, main, servers
<1>16. ASSUME NEW l \in Launches, Close(l)  PROVE Started'
      BY <1>16 DEF Close, ClientGoto, main, servers
<1>17. CASE UNCHANGED vars
    BY <1>17 DEF vars, main, servers, clients
<1>18. ASSUME NEW l \in Launches, AcceptFails(l)  PROVE Started'
      BY <1>18 DEF AcceptFails, ServerGoto, main, clients
<1>19. ASSUME NEW l \in Launches, QuitUnserved(l)  PROVE Started'
      BY <1>19 DEF QuitUnserved, ServerGoto, main, clients
<1> QED
    BY <1>1, <1>2, <1>3, <1>4, <1>5, <1>6, <1>7, <1>8,
       <1>9, <1>10, <1>11, <1>12, <1>13, <1>14, <1>15, <1>16, <1>17,
       <1>18, <1>19
       DEF Next, ServerStep, ServerRuns, ClientStep, Quiet

(* Every step keeps the types of requests and reports. *)
LEMMA CountTypesStep ==
  ASSUME CountTypes, Counted,
         [Next]_vars
  PROVE  CountTypes'
<1> USE ModbusTcpAssumption DEF Launches, Nobody, CountTypes, Counted, Report
<1>1. CASE Launch  BY <1>1 DEF Launch, clients, servers
<1>2. CASE StartClient  BY <1>2 DEF StartClient, clients, servers
<1>3. CASE Destroy  BY <1>3 DEF Destroy, clients, servers
<1>4. ASSUME NEW l \in Launches, NewMapping(l)  PROVE CountTypes'
      BY <1>4 DEF NewMapping, ServerGoto, main, clients
<1>5. ASSUME NEW l \in Launches, MappingFails(l)  PROVE CountTypes'
      BY <1>5 DEF MappingFails, ServerGoto, main, clients
<1>6. ASSUME NEW l \in Launches, Listen(l)  PROVE CountTypes'
      BY <1>6 DEF Listen, ServerGoto, main, clients
<1>7. ASSUME NEW l \in Launches, ListenFails(l)  PROVE CountTypes'
      BY <1>7 DEF ListenFails, ServerGoto, main, clients
<1>8. ASSUME NEW l \in Launches, Accept(l)  PROVE CountTypes'
      BY <1>8 DEF Accept, ServerGoto, main, clients
<1>9. ASSUME NEW l \in Launches, Reply(l)  PROVE CountTypes'
      BY <1>9 DEF Reply, ServerGoto, main, clients
<1>10. ASSUME NEW l \in Launches, QuitLoop(l)  PROVE CountTypes'
      BY <1>10 DEF QuitLoop, ServerGoto, main, clients
<1>11. ASSUME NEW l \in Launches, Connect(l)  PROVE CountTypes'
      BY <1>11 DEF Connect, ClientGoto, main, servers
<1>12. ASSUME NEW l \in Launches, ConnectFails(l)  PROVE CountTypes'
      BY <1>12 DEF ConnectFails, ClientGoto, main, servers
<1>13. ASSUME NEW l \in Launches, Ask(l)  PROVE CountTypes'
      BY <1>13 DEF Ask, ClientGoto, main, servers
<1>14. ASSUME NEW l \in Launches, Answered(l)  PROVE CountTypes'
  <2>1. /\ inbox' \in [Launches -> {"empty", "request", "answer"}]
        /\ UNCHANGED <<closed, serverReport, clientReport>>
    BY <1>14 DEF Answered, ClientGoto, main, servers
  <2>2. clientPc[l] = "wait" /\ left' = [left EXCEPT ![l] = left[l] - 1]
    BY <1>14 DEF Answered, ClientGoto, main, servers
  <2>3. left[l] \in 0 .. Requests /\ fails[l] \in 0 .. Requests
    OBVIOUS
  <2>4. left[l] > 0 /\ left[l] + fails[l] <= Requests
    BY <2>2
  <2>5. left[l] - 1 \in 0 .. Requests /\ fails[l] + 1 \in 0 .. Requests
    BY <2>3, <2>4, FailureFits
  <2>6. left' \in [Launches -> 0 .. Requests]
    BY <2>2, <2>5
  <2>7. fails' \in [Launches -> 0 .. Requests]
    BY <1>14, <2>5 DEF Answered, ClientGoto, main, servers
  <2> QED  BY <2>1, <2>6, <2>7
<1>15. ASSUME NEW l \in Launches, TimedOut(l)  PROVE CountTypes'
  <2>1. /\ inbox' \in [Launches -> {"empty", "request", "answer"}]
        /\ UNCHANGED <<closed, serverReport, clientReport>>
    BY <1>15 DEF TimedOut, ClientGoto, main, servers
  <2>2. clientPc[l] = "wait" /\ left' = [left EXCEPT ![l] = left[l] - 1]
    BY <1>15 DEF TimedOut, ClientGoto, main, servers
  <2>3. left[l] \in 0 .. Requests /\ fails[l] \in 0 .. Requests
    OBVIOUS
  <2>4. left[l] > 0 /\ left[l] + fails[l] <= Requests
    BY <2>2
  <2>5. left[l] - 1 \in 0 .. Requests /\ fails[l] + 1 \in 0 .. Requests
    BY <2>3, <2>4, FailureFits
  <2>6. left' \in [Launches -> 0 .. Requests]
    BY <2>2, <2>5
  <2>7. fails' \in [Launches -> 0 .. Requests]
    BY <1>15, <2>5 DEF TimedOut, ClientGoto, main, servers
  <2> QED  BY <2>1, <2>6, <2>7
<1>16. ASSUME NEW l \in Launches, Close(l)  PROVE CountTypes'
      BY <1>16 DEF Close, ClientGoto, main, servers
<1>17. CASE UNCHANGED vars
    BY <1>17 DEF vars, main, servers, clients
<1>18. ASSUME NEW l \in Launches, AcceptFails(l)  PROVE CountTypes'
      BY <1>18 DEF AcceptFails, ServerGoto, main, clients
<1>19. ASSUME NEW l \in Launches, QuitUnserved(l)  PROVE CountTypes'
      BY <1>19 DEF QuitUnserved, ServerGoto, main, clients
<1> QED
    BY <1>1, <1>2, <1>3, <1>4, <1>5, <1>6, <1>7, <1>8,
       <1>9, <1>10, <1>11, <1>12, <1>13, <1>14, <1>15, <1>16, <1>17,
       <1>18, <1>19
       DEF Next, ServerStep, ServerRuns, ClientStep, Quiet

(* Only the server that accepts changes whom it serves. *)
LEMMA ServingStays ==
  ASSUME PcTypes, SocketTypes, [Next]_vars, NEW k \in Launches, serverPc[k] # "accept"
  PROVE  serving'[k] = serving[k]
<1>1. CASE \E l \in Launches : Accept(l)
  <2>1. PICK l \in Launches : Accept(l)  BY <1>1
  <2>2. l # k  BY <2>1 DEF Accept, ServerGoto
  <2> QED  BY <2>1, <2>2 DEF Accept, SocketTypes
<1>2. CASE ~\E l \in Launches : Accept(l)
  <2>1. serving' = serving
    BY <1>2 DEF Next, ServerStep, ServerRuns, ClientStep, Quiet, vars, main, servers,
          clients, ServerGoto, ClientGoto, Launch, StartClient, Destroy, NewMapping,
          MappingFails, Listen, ListenFails, Reply, QuitLoop, AcceptFails,
          QuitUnserved, Connect, ConnectFails, Ask, Answered, TimedOut, Close
  <2> QED  BY <2>1
<1> QED  BY <1>1, <1>2

(* A client that is served stays the one its server serves. *)
LEMMA ServedStays ==
  ASSUME PcTypes, SocketTypes, Listens, [Next]_vars, NEW m \in Launches, Served(m)
  PROVE  Served(m)'
<1>1. PICK k \in Launches : serving[k] = m  BY DEF Served
<1>2. serverPc[k] # "accept"
  BY <1>1, ModbusTcpAssumption DEF Listens, Launches, Nobody
<1>3. serving'[k] = m  BY <1>1, <1>2, ServingStays
<1> QED  BY <1>3 DEF Served

(* Every step keeps the count of the requests. *)
LEMMA CountedStep ==
  ASSUME PcTypes, CountTypes, SocketTypes, Listens, Counted,
         [Next]_vars
  PROVE  Counted'
<1>0. \A m \in Launches : Served(m) => Served(m)'  BY ServedStays
<1>1. CASE Launch  BY <1>0, <1>1, ModbusTcpAssumption
         DEF Launch, clients, servers, Launches, Nobody,
             PcTypes, CountTypes, Counted
<1>2. CASE StartClient  BY <1>0, <1>2, ModbusTcpAssumption
         DEF StartClient, clients, servers, Launches, Nobody,
             PcTypes, CountTypes, Counted
<1>3. CASE Destroy  BY <1>0, <1>3, ModbusTcpAssumption
         DEF Destroy, clients, servers, Launches, Nobody,
             PcTypes, CountTypes, Counted
<1>4. ASSUME NEW l \in Launches, NewMapping(l)  PROVE Counted'
      BY <1>0, <1>4, ModbusTcpAssumption
         DEF NewMapping, ServerGoto, main, clients, Launches, Nobody,
             PcTypes, CountTypes, Counted
<1>5. ASSUME NEW l \in Launches, MappingFails(l)  PROVE Counted'
      BY <1>0, <1>5, ModbusTcpAssumption
         DEF MappingFails, ServerGoto, main, clients, Launches, Nobody,
             PcTypes, CountTypes, Counted
<1>6. ASSUME NEW l \in Launches, Listen(l)  PROVE Counted'
      BY <1>0, <1>6, ModbusTcpAssumption
         DEF Listen, ServerGoto, main, clients, Launches, Nobody,
             PcTypes, CountTypes, Counted
<1>7. ASSUME NEW l \in Launches, ListenFails(l)  PROVE Counted'
      BY <1>0, <1>7, ModbusTcpAssumption
         DEF ListenFails, ServerGoto, main, clients, Launches, Nobody,
             PcTypes, CountTypes, Counted
<1>8. ASSUME NEW l \in Launches, Accept(l)  PROVE Counted'
      BY <1>0, <1>8, ModbusTcpAssumption
         DEF Accept, ServerGoto, main, clients, Launches, Nobody,
             PcTypes, CountTypes, Counted
<1>9. ASSUME NEW l \in Launches, Reply(l)  PROVE Counted'
  <2>1. Served(serving[l])  BY DEF Served
  <2> QED  BY <1>9, <2>1, <1>0, ModbusTcpAssumption
           DEF Reply, ServerGoto, main, clients, PcTypes, CountTypes, Counted, SocketTypes, Launches
<1>10. ASSUME NEW l \in Launches, QuitLoop(l)  PROVE Counted'
      BY <1>0, <1>10, ModbusTcpAssumption
         DEF QuitLoop, ServerGoto, main, clients, Launches, Nobody,
             PcTypes, CountTypes, Counted
<1>11. ASSUME NEW l \in Launches, Connect(l)  PROVE Counted'
      BY <1>0, <1>11, ModbusTcpAssumption
         DEF Connect, ClientGoto, main, servers, Launches, Nobody,
             PcTypes, CountTypes, Counted
<1>12. ASSUME NEW l \in Launches, ConnectFails(l)  PROVE Counted'
      BY <1>0, <1>12, ModbusTcpAssumption
         DEF ConnectFails, ClientGoto, main, servers, Launches, Nobody,
             PcTypes, CountTypes, Counted
<1>13. ASSUME NEW l \in Launches, Ask(l)  PROVE Counted'
      BY <1>0, <1>13, ModbusTcpAssumption
         DEF Ask, ClientGoto, main, servers, Launches, Nobody,
             PcTypes, CountTypes, Counted
<1>14. ASSUME NEW l \in Launches, Answered(l)  PROVE Counted'
  <2>1. /\ left' = [left EXCEPT ![l] = left[l] - 1] /\ serving' = serving
        /\ clientPc' = [clientPc EXCEPT ![l] = "ask"]
        /\ inbox' = [inbox EXCEPT ![l] = "empty"] /\ inbox[l] = "answer"
        /\ fails' = fails
    BY <1>14 DEF Answered, ClientGoto, main, servers
  <2>2. SUFFICES ASSUME NEW m \in Launches
        PROVE  /\ left'[m] + fails'[m] <= Requests
               /\ clientPc'[m] = "wait" => left'[m] > 0
               /\ inbox'[m] = "answer" \/ left'[m] + fails'[m] < Requests => Served(m)'
    BY DEF Counted
  <2>3. left[m] \in 0 .. Requests /\ fails[m] \in 0 .. Requests
    BY DEF CountTypes
  <2>4. /\ left[m] + fails[m] <= Requests
        /\ clientPc[m] = "wait" => left[m] > 0
        /\ inbox[m] = "answer" \/ left[m] + fails[m] < Requests => Served(m)'
    BY <1>0 DEF Counted
  <2>5. CASE m = l
    <3>1. left'[m] = left[m] - 1 /\ clientPc'[m] = "ask"
      BY <2>1, <2>5 DEF CountTypes, PcTypes
    <3>2. Served(m)' /\ fails'[m] = fails[m]
      BY <1>0, <2>1, <2>4, <2>5 DEF CountTypes
    <3>3. left'[m] + fails'[m] = left[m] - 1 + fails[m]
      BY <2>3, <3>1, <3>2
    <3>4. left'[m] + fails'[m] <= Requests
      BY <2>3, <2>4, <3>3, ModbusTcpAssumption
    <3> QED  BY <2>4, <3>1, <3>2, <3>3, <3>4
  <2>6. CASE m # l
    <3>1. /\ left'[m] = left[m] /\ fails'[m] = fails[m]
          /\ inbox'[m] = inbox[m] /\ clientPc'[m] = clientPc[m]
      BY <2>1, <2>6 DEF CountTypes, PcTypes
    <3> QED  BY <2>4, <3>1
  <2> QED  BY <2>5, <2>6
<1>15. ASSUME NEW l \in Launches, TimedOut(l)  PROVE Counted'
  <2>1. /\ left' = [left EXCEPT ![l] = left[l] - 1] /\ serving' = serving
        /\ clientPc' = [clientPc EXCEPT ![l] = "ask"]
        /\ fails' = [fails EXCEPT ![l] = fails[l] + 1] /\ inbox' = inbox
    BY <1>15 DEF TimedOut, ClientGoto, main, servers
  <2>2. SUFFICES ASSUME NEW m \in Launches
        PROVE  /\ left'[m] + fails'[m] <= Requests
               /\ clientPc'[m] = "wait" => left'[m] > 0
               /\ inbox'[m] = "answer" \/ left'[m] + fails'[m] < Requests => Served(m)'
    BY DEF Counted
  <2>3. left[m] \in 0 .. Requests /\ fails[m] \in 0 .. Requests
    BY DEF CountTypes
  <2>4. /\ left[m] + fails[m] <= Requests
        /\ clientPc[m] = "wait" => left[m] > 0
        /\ inbox[m] = "answer" \/ left[m] + fails[m] < Requests => Served(m)'
    BY <1>0 DEF Counted
  <2>5. CASE m = l
    <3>1. left'[m] = left[m] - 1 /\ clientPc'[m] = "ask"
      BY <2>1, <2>5 DEF CountTypes, PcTypes
    <3>2. inbox'[m] = inbox[m] /\ fails'[m] = fails[m] + 1
      BY <1>0, <2>1, <2>4, <2>5 DEF CountTypes
    <3>3. left'[m] + fails'[m] = left[m] + fails[m]
      BY <2>3, <3>1, <3>2
    <3>4. left'[m] + fails'[m] <= Requests
      BY <2>3, <2>4, <3>3, ModbusTcpAssumption
    <3> QED  BY <2>4, <3>1, <3>2, <3>3, <3>4
  <2>6. CASE m # l
    <3>1. /\ left'[m] = left[m] /\ fails'[m] = fails[m]
          /\ inbox'[m] = inbox[m] /\ clientPc'[m] = clientPc[m]
      BY <2>1, <2>6 DEF CountTypes, PcTypes
    <3> QED  BY <2>4, <3>1
  <2> QED  BY <2>5, <2>6
<1>16. ASSUME NEW l \in Launches, Close(l)  PROVE Counted'
      BY <1>0, <1>16, ModbusTcpAssumption
         DEF Close, ClientGoto, main, servers, Launches, Nobody,
             PcTypes, CountTypes, Counted
<1>17. CASE UNCHANGED vars
    BY <1>0, <1>17 DEF vars, main, servers, clients, PcTypes, CountTypes, Counted
<1>18. ASSUME NEW l \in Launches, AcceptFails(l)  PROVE Counted'
      BY <1>0, <1>18, ModbusTcpAssumption
         DEF AcceptFails, ServerGoto, main, clients, Launches, Nobody,
             PcTypes, CountTypes, Counted
<1>19. ASSUME NEW l \in Launches, QuitUnserved(l)  PROVE Counted'
      BY <1>0, <1>19, ModbusTcpAssumption
         DEF QuitUnserved, ServerGoto, main, clients, Launches, Nobody,
             PcTypes, CountTypes, Counted
<1> QED
    BY <1>1, <1>2, <1>3, <1>4, <1>5, <1>6, <1>7, <1>8,
       <1>9, <1>10, <1>11, <1>12, <1>13, <1>14, <1>15, <1>16, <1>17,
       <1>18, <1>19
       DEF Next, ServerStep, ServerRuns, ClientStep, Quiet

(* Every step keeps the socket with a server that is past listening. *)
LEMMA ListensStep ==
  ASSUME PcTypes, CountTypes, SocketTypes, Started, Listens,
         [Next]_vars
  PROVE  Listens'
<1>1. CASE Launch

  <2>1. SUFFICES ASSUME NEW m \in Launches  PROVE 
           /\ serverPc'[m] \in {"idle", "mapping", "listen"}
                => listener' # m /\ serving'[m] = Nobody
           /\ serverPc'[m] = "accept" => listener' = m /\ serving'[m] = Nobody
           /\ serverReport'[m] # "none" => serverPc'[m] = "done"
    BY DEF Listens
  <2>2. /\ serverPc' = [serverPc EXCEPT ![launched + 1] = "mapping"]
        /\ UNCHANGED <<listener, serving, serverReport>>
    BY <1>1 DEF Launch, clients, servers
  <2>3. /\ serverPc[m] \in {"idle", "mapping", "listen"}
             => listener # m /\ serving[m] = Nobody
        /\ serverPc[m] = "accept" => listener = m /\ serving[m] = Nobody
        /\ serverReport[m] # "none" => serverPc[m] = "done"
    BY <2>1 DEF Listens
  <2>4. CASE m = launched + 1
    <3>1. serverPc[m] = "idle"  BY <2>1, <2>4 DEF Started, PcTypes
    <3>2. serverPc'[m] = "mapping"  BY <2>2, <2>4 DEF PcTypes
    <3> QED  BY <2>2, <2>3, <3>1, <3>2
  <2>5. CASE m # launched + 1
    <3>1. serverPc'[m] = serverPc[m] /\ serving'[m] = serving[m]
      BY <2>2, <2>5 DEF PcTypes, SocketTypes
    <3> QED  BY <2>2, <2>3, <2>5, <3>1, ModbusTcpAssumption DEF Launches, Nobody
  <2> QED  BY <2>4, <2>5
<1>2. CASE StartClient  BY <1>2, ModbusTcpAssumption
         DEF StartClient, clients, servers, Launches, Nobody,
             PcTypes, CountTypes, SocketTypes, Listens
<1>3. CASE Destroy  BY <1>3, ModbusTcpAssumption
         DEF Destroy, clients, servers, Launches, Nobody,
             PcTypes, CountTypes, SocketTypes, Listens
<1>4. ASSUME NEW l \in Launches, NewMapping(l)  PROVE Listens'
      BY <1>4, ModbusTcpAssumption
         DEF NewMapping, ServerGoto, main, clients, Launches, Nobody,
             PcTypes, CountTypes, SocketTypes, Listens
<1>5. ASSUME NEW l \in Launches, MappingFails(l)  PROVE Listens'
      BY <1>5, ModbusTcpAssumption
         DEF MappingFails, ServerGoto, main, clients, Launches, Nobody,
             PcTypes, CountTypes, SocketTypes, Listens
<1>6. ASSUME NEW l \in Launches, Listen(l)  PROVE Listens'
  <2>1. SUFFICES ASSUME NEW m \in Launches  PROVE 
           /\ serverPc'[m] \in {"idle", "mapping", "listen"}
                => listener' # m /\ serving'[m] = Nobody
           /\ serverPc'[m] = "accept" => listener' = m /\ serving'[m] = Nobody
           /\ serverReport'[m] # "none" => serverPc'[m] = "done"
    BY DEF Listens
  <2>2. /\ serverPc' = [serverPc EXCEPT ![l] = "accept"] /\ serverPc[l] = "listen"
        /\ listener = Nobody /\ listener' = l /\ UNCHANGED <<serving, serverReport>>
    BY <1>6 DEF Listen, ServerGoto, main, clients
  <2>3. /\ serverPc[m] \in {"idle", "mapping", "listen"}
             => listener # m /\ serving[m] = Nobody
        /\ serverPc[m] = "accept" => listener = m /\ serving[m] = Nobody
        /\ serverReport[m] # "none" => serverPc[m] = "done"
    BY <2>1 DEF Listens
  <2>4. CASE m = l
    BY <2>2, <2>3, <2>4 DEF PcTypes
  <2>5. CASE m # l
    <3>1. serverPc'[m] = serverPc[m] /\ serving'[m] = serving[m]
      BY <2>2, <2>5 DEF PcTypes, SocketTypes
    <3> QED  BY <2>2, <2>3, <2>5, <3>1, ModbusTcpAssumption DEF Launches, Nobody
  <2> QED  BY <2>4, <2>5
<1>7. ASSUME NEW l \in Launches, ListenFails(l)  PROVE Listens'
      BY <1>7, ModbusTcpAssumption
         DEF ListenFails, ServerGoto, main, clients, Launches, Nobody,
             PcTypes, CountTypes, SocketTypes, Listens
<1>8. ASSUME NEW l \in Launches, Accept(l)  PROVE Listens'
  <2>1. SUFFICES ASSUME NEW m \in Launches  PROVE 
           /\ serverPc'[m] \in {"idle", "mapping", "listen"}
                => listener' # m /\ serving'[m] = Nobody
           /\ serverPc'[m] = "accept" => listener' = m /\ serving'[m] = Nobody
           /\ serverReport'[m] # "none" => serverPc'[m] = "done"
    BY DEF Listens
  <2>2. /\ serverPc' = [serverPc EXCEPT ![l] = "receive"] /\ serverPc[l] = "accept"
        /\ serving' = [serving EXCEPT ![l] = Head(backlog)]
        /\ UNCHANGED <<listener, serverReport>>
    BY <1>8 DEF Accept, ServerGoto, main, clients
  <2>3. /\ serverPc[m] \in {"idle", "mapping", "listen"}
             => listener # m /\ serving[m] = Nobody
        /\ serverPc[m] = "accept" => listener = m /\ serving[m] = Nobody
        /\ serverReport[m] # "none" => serverPc[m] = "done"
    BY <2>1 DEF Listens
  <2>4. CASE m = l
    <3>1. Head(backlog) \in Launches  BY <1>8, TailFacts DEF Accept, SocketTypes
    <3>2. serving'[m] # Nobody /\ serverPc'[m] = "receive"
      BY <2>2, <2>4, <3>1 DEF SocketTypes, PcTypes, Launches, Nobody
    <3> QED  BY <2>2, <2>3, <2>4, <3>2
  <2>5. CASE m # l
    <3>1. serverPc'[m] = serverPc[m] /\ serving'[m] = serving[m]
      BY <2>2, <2>5 DEF PcTypes, SocketTypes
    <3> QED  BY <2>2, <2>3, <2>5, <3>1, ModbusTcpAssumption DEF Launches, Nobody
  <2> QED  BY <2>4, <2>5
<1>9. ASSUME NEW l \in Launches, Reply(l)  PROVE Listens'
      BY <1>9, ModbusTcpAssumption
         DEF Reply, ServerGoto, main, clients, Launches, Nobody,
             PcTypes, CountTypes, SocketTypes, Listens
<1>10. ASSUME NEW l \in Launches, QuitLoop(l)  PROVE Listens'
      BY <1>10, ModbusTcpAssumption
         DEF QuitLoop, ServerGoto, main, clients, Launches, Nobody,
             PcTypes, CountTypes, SocketTypes, Listens
<1>11. ASSUME NEW l \in Launches, Connect(l)  PROVE Listens'
      BY <1>11, ModbusTcpAssumption
         DEF Connect, ClientGoto, main, servers, Launches, Nobody,
             PcTypes, CountTypes, SocketTypes, Listens
<1>12. ASSUME NEW l \in Launches, ConnectFails(l)  PROVE Listens'
      BY <1>12, ModbusTcpAssumption
         DEF ConnectFails, ClientGoto, main, servers, Launches, Nobody,
             PcTypes, CountTypes, SocketTypes, Listens
<1>13. ASSUME NEW l \in Launches, Ask(l)  PROVE Listens'
      BY <1>13, ModbusTcpAssumption
         DEF Ask, ClientGoto, main, servers, Launches, Nobody,
             PcTypes, CountTypes, SocketTypes, Listens
<1>14. ASSUME NEW l \in Launches, Answered(l)  PROVE Listens'
      BY <1>14, ModbusTcpAssumption
         DEF Answered, ClientGoto, main, servers, Launches, Nobody,
             PcTypes, CountTypes, SocketTypes, Listens
<1>15. ASSUME NEW l \in Launches, TimedOut(l)  PROVE Listens'
      BY <1>15, ModbusTcpAssumption
         DEF TimedOut, ClientGoto, main, servers, Launches, Nobody,
             PcTypes, CountTypes, SocketTypes, Listens
<1>16. ASSUME NEW l \in Launches, Close(l)  PROVE Listens'
      BY <1>16, ModbusTcpAssumption
         DEF Close, ClientGoto, main, servers, Launches, Nobody,
             PcTypes, CountTypes, SocketTypes, Listens
<1>17. CASE UNCHANGED vars
    BY <1>17 DEF vars, main, servers, clients, PcTypes, CountTypes, SocketTypes, Listens
<1>18. ASSUME NEW l \in Launches, AcceptFails(l)  PROVE Listens'
  <2>1. /\ serverPc' = [serverPc EXCEPT ![l] = "receive"] /\ serverPc[l] = "accept"
        /\ listener' = Nobody /\ UNCHANGED <<serving, serverReport>>
    BY <1>18 DEF AcceptFails, ServerGoto
  <2>2. listener = l /\ serverReport[l] = "none"
    BY <2>1 DEF Listens
  <2>3. \A m \in Launches \ {l} : serverPc'[m] = serverPc[m] /\ serverPc[m] # "accept"
    BY <2>1, <2>2 DEF Listens, PcTypes
  <2>4. serverPc'[l] = "receive"
    BY <2>1 DEF PcTypes
  <2>5. SUFFICES ASSUME NEW m \in Launches  PROVE
           /\ serverPc'[m] \in {"idle", "mapping", "listen"}
                => listener' # m /\ serving'[m] = Nobody
           /\ serverPc'[m] = "accept" => listener' = m /\ serving'[m] = Nobody
           /\ serverReport'[m] # "none" => serverPc'[m] = "done"
    BY DEF Listens
  <2>6. CASE m = l
    BY <2>1, <2>2, <2>4, <2>6
  <2>7. CASE m # l
    <3>1. Nobody # m  BY DEF Launches, Nobody
    <3> QED  BY <2>1, <2>3, <2>7, <3>1 DEF Listens
  <2> QED  BY <2>6, <2>7
<1>19. ASSUME NEW l \in Launches, QuitUnserved(l)  PROVE Listens'
      BY <1>19, ModbusTcpAssumption
         DEF QuitUnserved, ServerGoto, main, clients, Launches, Nobody,
             PcTypes, CountTypes, SocketTypes, Listens
<1> QED
    BY <1>1, <1>2, <1>3, <1>4, <1>5, <1>6, <1>7, <1>8,
       <1>9, <1>10, <1>11, <1>12, <1>13, <1>14, <1>15, <1>16, <1>17,
       <1>18, <1>19
       DEF Next, ServerStep, ServerRuns, ClientStep, Quiet

(* Every step keeps the types of the sockets. *)
LEMMA SocketTypesStep ==
  ASSUME PcTypes, SocketTypes, Started,
         [Next]_vars
  PROVE  SocketTypes'
<1>1. CASE Launch  BY <1>1, ModbusTcpAssumption
         DEF Launch, clients, servers, Launches, Nobody,
             PcTypes, SocketTypes, Started
<1>2. CASE StartClient  BY <1>2, ModbusTcpAssumption
         DEF StartClient, clients, servers, Launches, Nobody,
             PcTypes, SocketTypes, Started
<1>3. CASE Destroy  BY <1>3, ModbusTcpAssumption
         DEF Destroy, clients, servers, Launches, Nobody,
             PcTypes, SocketTypes, Started
<1>4. ASSUME NEW l \in Launches, NewMapping(l)  PROVE SocketTypes'
      BY <1>4, ModbusTcpAssumption
         DEF NewMapping, ServerGoto, main, clients, Launches, Nobody,
             PcTypes, SocketTypes, Started
<1>5. ASSUME NEW l \in Launches, MappingFails(l)  PROVE SocketTypes'
      BY <1>5, ModbusTcpAssumption
         DEF MappingFails, ServerGoto, main, clients, Launches, Nobody,
             PcTypes, SocketTypes, Started
<1>6. ASSUME NEW l \in Launches, Listen(l)  PROVE SocketTypes'
      BY <1>6, ModbusTcpAssumption
         DEF Listen, ServerGoto, main, clients, Launches, Nobody,
             PcTypes, SocketTypes, Started
<1>7. ASSUME NEW l \in Launches, ListenFails(l)  PROVE SocketTypes'
      BY <1>7, ModbusTcpAssumption
         DEF ListenFails, ServerGoto, main, clients, Launches, Nobody,
             PcTypes, SocketTypes, Started
<1>8. ASSUME NEW l \in Launches, Accept(l)  PROVE SocketTypes'
  <2>1. Head(backlog) \in Launches /\ backlog' \in Seq(Launches)
    BY <1>8, TailFacts DEF Accept, ServerGoto, main, clients, SocketTypes
  <2> QED  BY <1>8, <2>1, ModbusTcpAssumption DEF Accept, ServerGoto, main, clients, SocketTypes, Launches
<1>9. ASSUME NEW l \in Launches, Reply(l)  PROVE SocketTypes'
      BY <1>9, ModbusTcpAssumption
         DEF Reply, ServerGoto, main, clients, Launches, Nobody,
             PcTypes, SocketTypes, Started
<1>10. ASSUME NEW l \in Launches, QuitLoop(l)  PROVE SocketTypes'
      BY <1>10, ModbusTcpAssumption
         DEF QuitLoop, ServerGoto, main, clients, Launches, Nobody,
             PcTypes, SocketTypes, Started
<1>11. ASSUME NEW l \in Launches, Connect(l)  PROVE SocketTypes'
  <2>1. backlog' \in Seq(Launches)
    BY <1>11, AppendFacts DEF Connect, ClientGoto, main, servers, SocketTypes
  <2> QED  BY <1>11, <2>1 DEF Connect, ClientGoto, main, servers, SocketTypes
<1>12. ASSUME NEW l \in Launches, ConnectFails(l)  PROVE SocketTypes'
      BY <1>12, ModbusTcpAssumption
         DEF ConnectFails, ClientGoto, main, servers, Launches, Nobody,
             PcTypes, SocketTypes, Started
<1>13. ASSUME NEW l \in Launches, Ask(l)  PROVE SocketTypes'
      BY <1>13, ModbusTcpAssumption
         DEF Ask, ClientGoto, main, servers, Launches, Nobody,
             PcTypes, SocketTypes, Started
<1>14. ASSUME NEW l \in Launches, Answered(l)  PROVE SocketTypes'
      BY <1>14, ModbusTcpAssumption
         DEF Answered, ClientGoto, main, servers, Launches, Nobody,
             PcTypes, SocketTypes, Started
<1>15. ASSUME NEW l \in Launches, TimedOut(l)  PROVE SocketTypes'
      BY <1>15, ModbusTcpAssumption
         DEF TimedOut, ClientGoto, main, servers, Launches, Nobody,
             PcTypes, SocketTypes, Started
<1>16. ASSUME NEW l \in Launches, Close(l)  PROVE SocketTypes'
      BY <1>16, ModbusTcpAssumption
         DEF Close, ClientGoto, main, servers, Launches, Nobody,
             PcTypes, SocketTypes, Started
<1>17. CASE UNCHANGED vars
    BY <1>17 DEF vars, main, servers, clients, PcTypes, SocketTypes, Started
<1>18. ASSUME NEW l \in Launches, AcceptFails(l)  PROVE SocketTypes'
      BY <1>18, ModbusTcpAssumption
         DEF AcceptFails, ServerGoto, main, clients, Launches, Nobody,
             PcTypes, SocketTypes, Started
<1>19. ASSUME NEW l \in Launches, QuitUnserved(l)  PROVE SocketTypes'
      BY <1>19, ModbusTcpAssumption
         DEF QuitUnserved, ServerGoto, main, clients, Launches, Nobody,
             PcTypes, SocketTypes, Started
<1> QED
    BY <1>1, <1>2, <1>3, <1>4, <1>5, <1>6, <1>7, <1>8,
       <1>9, <1>10, <1>11, <1>12, <1>13, <1>14, <1>15, <1>16, <1>17,
       <1>18, <1>19
       DEF Next, ServerStep, ServerRuns, ClientStep, Quiet

(* Every step keeps a client that has not connected out of the backlog. *)
LEMMA QueuedStep ==
  ASSUME PcTypes, SocketTypes, Started, Queued,
         [Next]_vars
  PROVE  Queued'
<1>1. CASE Launch  BY <1>1, ModbusTcpAssumption
         DEF Launch, clients, servers, Launches, Nobody,
             PcTypes, Queued, Waits, Served
<1>2. CASE StartClient  BY <1>2, ModbusTcpAssumption
         DEF StartClient, clients, servers, PcTypes, Started, Queued, Waits, Served, Launches
<1>3. CASE Destroy  BY <1>3, ModbusTcpAssumption
         DEF Destroy, clients, servers, Launches, Nobody,
             PcTypes, Queued, Waits, Served
<1>4. ASSUME NEW l \in Launches, NewMapping(l)  PROVE Queued'
      BY <1>4, ModbusTcpAssumption
         DEF NewMapping, ServerGoto, main, clients, Launches, Nobody,
             PcTypes, Queued, Waits, Served
<1>5. ASSUME NEW l \in Launches, MappingFails(l)  PROVE Queued'
      BY <1>5, ModbusTcpAssumption
         DEF MappingFails, ServerGoto, main, clients, Launches, Nobody,
             PcTypes, Queued, Waits, Served
<1>6. ASSUME NEW l \in Launches, Listen(l)  PROVE Queued'
      BY <1>6, ModbusTcpAssumption
         DEF Listen, ServerGoto, main, clients, Launches, Nobody,
             PcTypes, Queued, Waits, Served
<1>7. ASSUME NEW l \in Launches, ListenFails(l)  PROVE Queued'
      BY <1>7, ModbusTcpAssumption
         DEF ListenFails, ServerGoto, main, clients, Launches, Nobody,
             PcTypes, Queued, Waits, Served
<1>8. ASSUME NEW l \in Launches, Accept(l)  PROVE Queued'
  <2>1. /\ DOMAIN backlog = 1 .. Len(backlog) /\ DOMAIN backlog' = 1 .. (Len(backlog) - 1)
        /\ Head(backlog) = backlog[1] /\ Head(backlog) \in Launches
        /\ Len(backlog) \in Nat \ {0}
        /\ \A i \in 1 .. (Len(backlog) - 1) : backlog'[i] = backlog[i + 1]
    BY <1>8, TailFacts DEF Accept, ServerGoto, main, clients, SocketTypes
  <2>2. \A m \in Launches : Waits(m)' => Waits(m) /\ m # Head(backlog)
    BY <2>1 DEF Waits, Queued
  <2>3. Waits(Head(backlog))
    BY <2>1 DEF Waits
  <2>4. \A i, j \in DOMAIN backlog' : backlog'[i] = backlog'[j] => i = j
    BY <2>1 DEF Queued
  <2>5. \A m \in Launches : Served(m)' => Served(m) \/ m = Head(backlog)
    BY <1>8 DEF Accept, ServerGoto, main, clients, SocketTypes, Served
  <2> QED  BY <1>8, <2>2, <2>3, <2>4, <2>5 DEF Accept, ServerGoto, main, clients, Queued
<1>9. ASSUME NEW l \in Launches, Reply(l)  PROVE Queued'
      BY <1>9, ModbusTcpAssumption
         DEF Reply, ServerGoto, main, clients, Launches, Nobody,
             PcTypes, Queued, Waits, Served
<1>10. ASSUME NEW l \in Launches, QuitLoop(l)  PROVE Queued'
      BY <1>10, ModbusTcpAssumption
         DEF QuitLoop, ServerGoto, main, clients, Launches, Nobody,
             PcTypes, Queued, Waits, Served
<1>11. ASSUME NEW l \in Launches, Connect(l)  PROVE Queued'
  <2>1. /\ DOMAIN backlog = 1 .. Len(backlog) /\ DOMAIN backlog' = 1 .. (Len(backlog) + 1)
        /\ backlog'[Len(backlog) + 1] = l /\ Len(backlog) \in Nat
        /\ \A i \in 1 .. Len(backlog) : backlog'[i] = backlog[i]
    BY <1>11, AppendFacts DEF Connect, ClientGoto, main, servers, SocketTypes
  <2>2. ~Waits(l) /\ ~Served(l)
    BY <1>11 DEF Connect, ClientGoto, main, servers, Queued
  <2>3. \A i, j \in DOMAIN backlog' : backlog'[i] = backlog'[j] => i = j
    BY <2>1, <2>2 DEF Queued, Waits
  <2>4. \A m \in Launches : clientPc'[m] \in {"idle", "connect"} => ~Waits(m)' /\ ~Served(m)'
    <3>1. SUFFICES ASSUME NEW m \in Launches, clientPc'[m] \in {"idle", "connect"}
          PROVE  ~Waits(m)' /\ ~Served(m)'
      OBVIOUS
    <3>2. m # l /\ clientPc[m] = clientPc'[m] /\ serving' = serving
      BY <1>11, <3>1 DEF Connect, ClientGoto, main, servers, PcTypes
    <3>3. ~Waits(m) /\ ~Served(m)  BY <3>1, <3>2 DEF Queued
    <3> QED  BY <2>1, <3>2, <3>3 DEF Waits, Served
  <2> QED  BY <2>3, <2>4 DEF Queued
<1>12. ASSUME NEW l \in Launches, ConnectFails(l)  PROVE Queued'
      BY <1>12, ModbusTcpAssumption
         DEF ConnectFails, ClientGoto, main, servers, Launches, Nobody,
             PcTypes, Queued, Waits, Served
<1>13. ASSUME NEW l \in Launches, Ask(l)  PROVE Queued'
      BY <1>13, ModbusTcpAssumption
         DEF Ask, ClientGoto, main, servers, Launches, Nobody,
             PcTypes, Queued, Waits, Served
<1>14. ASSUME NEW l \in Launches, Answered(l)  PROVE Queued'
      BY <1>14, ModbusTcpAssumption
         DEF Answered, ClientGoto, main, servers, Launches, Nobody,
             PcTypes, Queued, Waits, Served
<1>15. ASSUME NEW l \in Launches, TimedOut(l)  PROVE Queued'
      BY <1>15, ModbusTcpAssumption
         DEF TimedOut, ClientGoto, main, servers, Launches, Nobody,
             PcTypes, Queued, Waits, Served
<1>16. ASSUME NEW l \in Launches, Close(l)  PROVE Queued'
      BY <1>16, ModbusTcpAssumption
         DEF Close, ClientGoto, main, servers, Launches, Nobody,
             PcTypes, Queued, Waits, Served
<1>17. CASE UNCHANGED vars
    BY <1>17 DEF vars, main, servers, clients, PcTypes, Queued, Waits, Served
<1>18. ASSUME NEW l \in Launches, AcceptFails(l)  PROVE Queued'
      BY <1>18, ModbusTcpAssumption
         DEF AcceptFails, ServerGoto, main, clients, Launches, Nobody,
             PcTypes, Queued, Waits, Served
<1>19. ASSUME NEW l \in Launches, QuitUnserved(l)  PROVE Queued'
      BY <1>19, ModbusTcpAssumption
         DEF QuitUnserved, ServerGoto, main, clients, Launches, Nobody,
             PcTypes, Queued, Waits, Served
<1> QED
    BY <1>1, <1>2, <1>3, <1>4, <1>5, <1>6, <1>7, <1>8,
       <1>9, <1>10, <1>11, <1>12, <1>13, <1>14, <1>15, <1>16, <1>17,
       <1>18, <1>19
       DEF Next, ServerStep, ServerRuns, ClientStep, Quiet

(* Every step keeps a connection with one server or in the backlog. *)
LEMMA OneServerStep ==
  ASSUME PcTypes, SocketTypes, Queued, OneServer,
         [Next]_vars
  PROVE  OneServer'
<1>1. CASE Launch  BY <1>1, ModbusTcpAssumption
         DEF Launch, clients, servers, Launches, Nobody,
             OneServer, Waits
<1>2. CASE StartClient  BY <1>2, ModbusTcpAssumption
         DEF StartClient, clients, servers, Launches, Nobody,
             OneServer, Waits
<1>3. CASE Destroy  BY <1>3, ModbusTcpAssumption
         DEF Destroy, clients, servers, Launches, Nobody,
             OneServer, Waits
<1>4. ASSUME NEW l \in Launches, NewMapping(l)  PROVE OneServer'
      BY <1>4, ModbusTcpAssumption
         DEF NewMapping, ServerGoto, main, clients, Launches, Nobody,
             OneServer, Waits
<1>5. ASSUME NEW l \in Launches, MappingFails(l)  PROVE OneServer'
      BY <1>5, ModbusTcpAssumption
         DEF MappingFails, ServerGoto, main, clients, Launches, Nobody,
             OneServer, Waits
<1>6. ASSUME NEW l \in Launches, Listen(l)  PROVE OneServer'
      BY <1>6, ModbusTcpAssumption
         DEF Listen, ServerGoto, main, clients, Launches, Nobody,
             OneServer, Waits
<1>7. ASSUME NEW l \in Launches, ListenFails(l)  PROVE OneServer'
      BY <1>7, ModbusTcpAssumption
         DEF ListenFails, ServerGoto, main, clients, Launches, Nobody,
             OneServer, Waits
<1>8. ASSUME NEW l \in Launches, Accept(l)  PROVE OneServer'
  <2>1. /\ DOMAIN backlog = 1 .. Len(backlog) /\ DOMAIN backlog' = 1 .. (Len(backlog) - 1)
        /\ Head(backlog) = backlog[1] /\ Head(backlog) \in Launches
        /\ Len(backlog) \in Nat \ {0}
        /\ \A i \in 1 .. (Len(backlog) - 1) : backlog'[i] = backlog[i + 1]
    BY <1>8, TailFacts DEF Accept, ServerGoto, main, clients, SocketTypes
  <2>2. \A m \in Launches : Waits(m)' => Waits(m) /\ m # Head(backlog)
    BY <2>1 DEF Waits, Queued
  <2>3. Waits(Head(backlog))
    BY <2>1 DEF Waits
  <2>4. \A m \in Launches : serving'[m] = IF m = l THEN Head(backlog) ELSE serving[m]
    BY <1>8 DEF Accept, ServerGoto, main, clients, SocketTypes
  <2>5. \A m \in Launches : serving[m] # Head(backlog)
    BY <2>3 DEF OneServer
  <2>6. \A j, k \in Launches : serving'[j] = serving'[k] /\ j # k => serving'[j] = Nobody
    BY <2>4, <2>5 DEF OneServer
  <2>7. \A m \in Launches : ~Waits(serving[m])'
    <3>1. SUFFICES ASSUME NEW m \in Launches, NEW i \in DOMAIN backlog', backlog'[i] = serving'[m]
          PROVE  FALSE
      BY DEF Waits
    <3>2. backlog[i + 1] = serving'[m] /\ i + 1 \in DOMAIN backlog /\ i + 1 # 1
      BY <2>1, <3>1
    <3>3. serving'[m] # Head(backlog)  BY <2>1, <3>2 DEF Queued
    <3>4. serving'[m] = serving[m]  BY <2>4, <3>3
    <3> QED  BY <3>2, <3>4 DEF OneServer, Waits
  <2> QED  BY <2>6, <2>7 DEF OneServer
<1>9. ASSUME NEW l \in Launches, Reply(l)  PROVE OneServer'
      BY <1>9, ModbusTcpAssumption
         DEF Reply, ServerGoto, main, clients, Launches, Nobody,
             OneServer, Waits
<1>10. ASSUME NEW l \in Launches, QuitLoop(l)  PROVE OneServer'
      BY <1>10, ModbusTcpAssumption
         DEF QuitLoop, ServerGoto, main, clients, Launches, Nobody,
             OneServer, Waits
<1>11. ASSUME NEW l \in Launches, Connect(l)  PROVE OneServer'
  <2>1. /\ DOMAIN backlog = 1 .. Len(backlog) /\ DOMAIN backlog' = 1 .. (Len(backlog) + 1)
        /\ backlog'[Len(backlog) + 1] = l /\ Len(backlog) \in Nat
        /\ \A i \in 1 .. Len(backlog) : backlog'[i] = backlog[i]
    BY <1>11, AppendFacts DEF Connect, ClientGoto, main, servers, SocketTypes
  <2>2. ~Waits(l) /\ ~Served(l)
    BY <1>11 DEF Connect, ClientGoto, main, servers, Queued
  <2>3. serving' = serving  BY <1>11 DEF Connect, ClientGoto, main, servers
  <2>4. \A m \in Launches : serving[m] # l  BY <2>2 DEF Served
  <2> QED  BY <2>1, <2>3, <2>4 DEF OneServer, Waits
<1>12. ASSUME NEW l \in Launches, ConnectFails(l)  PROVE OneServer'
      BY <1>12, ModbusTcpAssumption
         DEF ConnectFails, ClientGoto, main, servers, Launches, Nobody,
             OneServer, Waits
<1>13. ASSUME NEW l \in Launches, Ask(l)  PROVE OneServer'
      BY <1>13, ModbusTcpAssumption
         DEF Ask, ClientGoto, main, servers, Launches, Nobody,
             OneServer, Waits
<1>14. ASSUME NEW l \in Launches, Answered(l)  PROVE OneServer'
      BY <1>14, ModbusTcpAssumption
         DEF Answered, ClientGoto, main, servers, Launches, Nobody,
             OneServer, Waits
<1>15. ASSUME NEW l \in Launches, TimedOut(l)  PROVE OneServer'
      BY <1>15, ModbusTcpAssumption
         DEF TimedOut, ClientGoto, main, servers, Launches, Nobody,
             OneServer, Waits
<1>16. ASSUME NEW l \in Launches, Close(l)  PROVE OneServer'
      BY <1>16, ModbusTcpAssumption
         DEF Close, ClientGoto, main, servers, Launches, Nobody,
             OneServer, Waits
<1>17. CASE UNCHANGED vars
    BY <1>17 DEF vars, main, servers, clients, OneServer, Waits
<1>18. ASSUME NEW l \in Launches, AcceptFails(l)  PROVE OneServer'
      BY <1>18, ModbusTcpAssumption
         DEF AcceptFails, ServerGoto, main, clients, Launches, Nobody,
             OneServer, Waits
<1>19. ASSUME NEW l \in Launches, QuitUnserved(l)  PROVE OneServer'
      BY <1>19, ModbusTcpAssumption
         DEF QuitUnserved, ServerGoto, main, clients, Launches, Nobody,
             OneServer, Waits
<1> QED
    BY <1>1, <1>2, <1>3, <1>4, <1>5, <1>6, <1>7, <1>8,
       <1>9, <1>10, <1>11, <1>12, <1>13, <1>14, <1>15, <1>16, <1>17,
       <1>18, <1>19
       DEF Next, ServerStep, ServerRuns, ClientStep, Quiet

(* Every step keeps a successful client a served one. *)
LEMMA ClientOkStep ==
  ASSUME PcTypes, CountTypes, SocketTypes, Listens, Counted, ClientOkMeansServed,
         [Next]_vars
  PROVE  ClientOkMeansServed'
<1>0. \A m \in Launches : Served(m) => Served(m)'  BY ServedStays
<1>1. CASE Launch  BY <1>1, ModbusTcpAssumption
         DEF Launch, clients, servers, Launches, Nobody,
             CountTypes, ClientOkMeansServed
<1>2. CASE StartClient  BY <1>2, ModbusTcpAssumption
         DEF StartClient, clients, servers, Launches, Nobody,
             CountTypes, ClientOkMeansServed
<1>3. CASE Destroy  BY <1>3, ModbusTcpAssumption
         DEF Destroy, clients, servers, Launches, Nobody,
             CountTypes, ClientOkMeansServed
<1>4. ASSUME NEW l \in Launches, NewMapping(l)  PROVE ClientOkMeansServed'
      BY <1>4, ModbusTcpAssumption
         DEF NewMapping, ServerGoto, main, clients, Launches, Nobody,
             CountTypes, ClientOkMeansServed
<1>5. ASSUME NEW l \in Launches, MappingFails(l)  PROVE ClientOkMeansServed'
      BY <1>5, ModbusTcpAssumption
         DEF MappingFails, ServerGoto, main, clients, Launches, Nobody,
             CountTypes, ClientOkMeansServed
<1>6. ASSUME NEW l \in Launches, Listen(l)  PROVE ClientOkMeansServed'
      BY <1>6, ModbusTcpAssumption
         DEF Listen, ServerGoto, main, clients, Launches, Nobody,
             CountTypes, ClientOkMeansServed
<1>7. ASSUME NEW l \in Launches, ListenFails(l)  PROVE ClientOkMeansServed'
      BY <1>7, ModbusTcpAssumption
         DEF ListenFails, ServerGoto, main, clients, Launches, Nobody,
             CountTypes, ClientOkMeansServed
<1>8. ASSUME NEW l \in Launches, Accept(l)  PROVE ClientOkMeansServed'
      BY <1>0, <1>8 DEF Accept, ServerGoto, main, clients, ClientOkMeansServed, Served
<1>9. ASSUME NEW l \in Launches, Reply(l)  PROVE ClientOkMeansServed'
      BY <1>9, ModbusTcpAssumption
         DEF Reply, ServerGoto, main, clients, Launches, Nobody,
             CountTypes, ClientOkMeansServed
<1>10. ASSUME NEW l \in Launches, QuitLoop(l)  PROVE ClientOkMeansServed'
      BY <1>10, ModbusTcpAssumption
         DEF QuitLoop, ServerGoto, main, clients, Launches, Nobody,
             CountTypes, ClientOkMeansServed
<1>11. ASSUME NEW l \in Launches, Connect(l)  PROVE ClientOkMeansServed'
      BY <1>11, ModbusTcpAssumption
         DEF Connect, ClientGoto, main, servers, Launches, Nobody,
             CountTypes, ClientOkMeansServed
<1>12. ASSUME NEW l \in Launches, ConnectFails(l)  PROVE ClientOkMeansServed'
      BY <1>12, ModbusTcpAssumption
         DEF ConnectFails, ClientGoto, main, servers, Launches, Nobody,
             CountTypes, ClientOkMeansServed
<1>13. ASSUME NEW l \in Launches, Ask(l)  PROVE ClientOkMeansServed'
      BY <1>13, ModbusTcpAssumption
         DEF Ask, ClientGoto, main, servers, Launches, Nobody,
             CountTypes, ClientOkMeansServed
<1>14. ASSUME NEW l \in Launches, Answered(l)  PROVE ClientOkMeansServed'
      BY <1>14, ModbusTcpAssumption
         DEF Answered, ClientGoto, main, servers, Launches, Nobody,
             CountTypes, ClientOkMeansServed
<1>15. ASSUME NEW l \in Launches, TimedOut(l)  PROVE ClientOkMeansServed'
      BY <1>15, ModbusTcpAssumption
         DEF TimedOut, ClientGoto, main, servers, Launches, Nobody,
             CountTypes, ClientOkMeansServed
<1>16. ASSUME NEW l \in Launches, Close(l)  PROVE ClientOkMeansServed'
  <2>1. left[l] = 0 /\ fails[l] \in 0 .. Requests
    BY <1>16 DEF Close, ClientGoto, main, servers, CountTypes
  <2>2. fails[l] = 0 => Served(l)
    BY <2>1, ModbusTcpAssumption DEF Counted
  <2> QED  BY <1>0, <1>16, <2>2 DEF Close, ClientGoto, main, servers, Report, CountTypes, ClientOkMeansServed, Served
<1>17. CASE UNCHANGED vars
    BY <1>17 DEF vars, main, servers, clients, CountTypes, ClientOkMeansServed
<1>18. ASSUME NEW l \in Launches, AcceptFails(l)  PROVE ClientOkMeansServed'
      BY <1>18, ModbusTcpAssumption
         DEF AcceptFails, ServerGoto, main, clients, Launches, Nobody,
             CountTypes, ClientOkMeansServed
<1>19. ASSUME NEW l \in Launches, QuitUnserved(l)  PROVE ClientOkMeansServed'
      BY <1>19, ModbusTcpAssumption
         DEF QuitUnserved, ServerGoto, main, clients, Launches, Nobody,
             CountTypes, ClientOkMeansServed
<1> QED
    BY <1>1, <1>2, <1>3, <1>4, <1>5, <1>6, <1>7, <1>8,
       <1>9, <1>10, <1>11, <1>12, <1>13, <1>14, <1>15, <1>16, <1>17,
       <1>18, <1>19
       DEF Next, ServerStep, ServerRuns, ClientStep, Quiet

(* Every step keeps a client that has lost a request from an accept. *)
LEMMA UnacceptedStep ==
  ASSUME PcTypes, CountTypes, SocketTypes, Queued, Started, Listens, Unaccepted,
         [Next]_vars
  PROVE  Unaccepted'
<1>1. CASE Launch  BY <1>1, ModbusTcpAssumption
         DEF Launch, clients, servers, Launches, Nobody,
             PcTypes, Waits, Unaccepted
<1>2. CASE StartClient  BY <1>2, ModbusTcpAssumption
         DEF StartClient, clients, servers, PcTypes, Started, Unaccepted, Waits, Launches
<1>3. CASE Destroy  BY <1>3, ModbusTcpAssumption
         DEF Destroy, clients, servers, Launches, Nobody,
             PcTypes, Waits, Unaccepted
<1>4. ASSUME NEW l \in Launches, NewMapping(l)  PROVE Unaccepted'
      BY <1>4, ModbusTcpAssumption
         DEF NewMapping, ServerGoto, main, clients, Launches, Nobody,
             PcTypes, Waits, Unaccepted
<1>5. ASSUME NEW l \in Launches, MappingFails(l)  PROVE Unaccepted'
      BY <1>5, ModbusTcpAssumption
         DEF MappingFails, ServerGoto, main, clients, Launches, Nobody,
             PcTypes, Waits, Unaccepted
<1>6. ASSUME NEW l \in Launches, Listen(l)  PROVE Unaccepted'
      BY <1>6, ModbusTcpAssumption
         DEF Listen, ServerGoto, main, clients, Launches, Nobody,
             PcTypes, Waits, Unaccepted
<1>7. ASSUME NEW l \in Launches, ListenFails(l)  PROVE Unaccepted'
      BY <1>7, ModbusTcpAssumption
         DEF ListenFails, ServerGoto, main, clients, Launches, Nobody,
             PcTypes, Waits, Unaccepted
<1>8. ASSUME NEW l \in Launches, Accept(l)  PROVE Unaccepted'
  <2>1. /\ DOMAIN backlog = 1 .. Len(backlog) /\ DOMAIN backlog' = 1 .. (Len(backlog) - 1)
        /\ Head(backlog) = backlog[1] /\ Head(backlog) \in Launches
        /\ Len(backlog) \in Nat \ {0}
        /\ \A i \in 1 .. (Len(backlog) - 1) : backlog'[i] = backlog[i + 1]
    BY <1>8, TailFacts DEF Accept, ServerGoto, main, clients, SocketTypes
  <2>2. \A m \in Launches : Waits(m)' => Waits(m) /\ m # Head(backlog)
    BY <2>1 DEF Waits, Queued
  <2>3. Waits(Head(backlog))
    BY <2>1 DEF Waits
  <2>4. UNCHANGED <<fails, clientPc, listener>>
    BY <1>8 DEF Accept, ServerGoto, main, clients
  <2>5. \A k \in Launches : serverPc'[k] = "accept" => serverPc[k] = "accept"
    BY <1>8 DEF Accept, ServerGoto, main, clients, PcTypes
  <2> QED  BY <2>2, <2>4, <2>5 DEF Unaccepted
<1>9. ASSUME NEW l \in Launches, Reply(l)  PROVE Unaccepted'
      BY <1>9, ModbusTcpAssumption
         DEF Reply, ServerGoto, main, clients, Launches, Nobody,
             PcTypes, Waits, Unaccepted
<1>10. ASSUME NEW l \in Launches, QuitLoop(l)  PROVE Unaccepted'
      BY <1>10, ModbusTcpAssumption
         DEF QuitLoop, ServerGoto, main, clients, Launches, Nobody,
             PcTypes, Waits, Unaccepted
<1>11. ASSUME NEW l \in Launches, Connect(l)  PROVE Unaccepted'
  <2>1. /\ DOMAIN backlog = 1 .. Len(backlog) /\ DOMAIN backlog' = 1 .. (Len(backlog) + 1)
        /\ backlog'[Len(backlog) + 1] = l /\ Len(backlog) \in Nat
        /\ \A i \in 1 .. Len(backlog) : backlog'[i] = backlog[i]
    BY <1>11, AppendFacts DEF Connect, ClientGoto, main, servers, SocketTypes
  <2>2. ~Waits(l) /\ ~Served(l)
    BY <1>11 DEF Connect, ClientGoto, main, servers, Queued
  <2>3. \A m \in Launches : Waits(m)' => Waits(m) \/ m = l
    BY <2>1 DEF Waits
  <2>4. fails[l] = 0 /\ UNCHANGED <<fails, serverPc, listener>> /\ listener # Nobody
    BY <1>11 DEF Connect, ClientGoto, main, servers, Unaccepted
  <2>5. \A m \in Launches : clientPc'[m] \in {"idle", "connect"} => clientPc[m] = clientPc'[m]
    BY <1>11 DEF Connect, ClientGoto, main, servers, PcTypes
  <2> QED  BY <2>3, <2>4, <2>5 DEF Unaccepted
<1>12. ASSUME NEW l \in Launches, ConnectFails(l)  PROVE Unaccepted'
      BY <1>12, ModbusTcpAssumption
         DEF ConnectFails, ClientGoto, main, servers, Launches, Nobody,
             PcTypes, Waits, Unaccepted
<1>13. ASSUME NEW l \in Launches, Ask(l)  PROVE Unaccepted'
      BY <1>13, ModbusTcpAssumption
         DEF Ask, ClientGoto, main, servers, Launches, Nobody,
             PcTypes, Waits, Unaccepted
<1>14. ASSUME NEW l \in Launches, Answered(l)  PROVE Unaccepted'
      BY <1>14, ModbusTcpAssumption
         DEF Answered, ClientGoto, main, servers, Launches, Nobody,
             PcTypes, Waits, Unaccepted
<1>15. ASSUME NEW l \in Launches, TimedOut(l)  PROVE Unaccepted'
  <2>1. /\ UNCHANGED <<serverPc, listener, backlog>>
        /\ Waits(l) => serverPc[listener] # "accept"
        /\ fails' = [fails EXCEPT ![l] = fails[l] + 1]
        /\ clientPc[l] = "wait" /\ clientPc' = [clientPc EXCEPT ![l] = "ask"]
    BY <1>15 DEF TimedOut, ClientGoto, main, servers, Orphaned
  <2>2. \A k, m \in Launches : serverPc[k] = "accept" /\ Waits(m) => fails'[m] = 0
    <3>1. SUFFICES ASSUME NEW k \in Launches, NEW m \in Launches,
                          serverPc[k] = "accept", Waits(m)
          PROVE  fails'[m] = 0
      OBVIOUS
    <3>2. listener = k /\ fails[m] = 0
      BY <3>1 DEF Listens, Unaccepted
    <3>3. m # l
      BY <2>1, <3>1, <3>2
    <3> QED  BY <2>1, <3>2, <3>3 DEF CountTypes
  <2>3. \A m \in Launches : clientPc'[m] \in {"idle", "connect"} => fails'[m] = fails[m] /\ clientPc[m] = clientPc'[m]
    BY <2>1 DEF PcTypes, CountTypes
  <2> QED  BY <2>1, <2>2, <2>3 DEF Unaccepted, Waits
<1>16. ASSUME NEW l \in Launches, Close(l)  PROVE Unaccepted'
      BY <1>16, ModbusTcpAssumption
         DEF Close, ClientGoto, main, servers, Launches, Nobody,
             PcTypes, Waits, Unaccepted
<1>17. CASE UNCHANGED vars
    BY <1>17 DEF vars, main, servers, clients, PcTypes, Waits, Unaccepted
<1>18. ASSUME NEW l \in Launches, AcceptFails(l)  PROVE Unaccepted'
      BY <1>18, ModbusTcpAssumption
         DEF AcceptFails, ServerGoto, main, clients, Launches, Nobody,
             PcTypes, Waits, Unaccepted
<1>19. ASSUME NEW l \in Launches, QuitUnserved(l)  PROVE Unaccepted'
  <2>1. /\ UNCHANGED <<fails, clientPc, listener, backlog>>
        /\ \A k \in Launches : serverPc'[k] = "accept" => serverPc[k] = "accept"
    BY <1>19 DEF QuitUnserved, ServerGoto, clients, PcTypes
  <2> QED  BY <2>1 DEF Unaccepted, Waits
<1> QED
    BY <1>1, <1>2, <1>3, <1>4, <1>5, <1>6, <1>7, <1>8,
       <1>9, <1>10, <1>11, <1>12, <1>13, <1>14, <1>15, <1>16, <1>17,
       <1>18, <1>19
       DEF Next, ServerStep, ServerRuns, ClientStep, Quiet

(* Every step keeps a served client from losing a request. *)
LEMMA ServedStep ==
  ASSUME PcTypes, CountTypes, SocketTypes, Queued, OneServer, Unaccepted, ServedNeverFails,
         [Next]_vars
  PROVE  ServedNeverFails'
<1>1. CASE Launch  BY <1>1, ModbusTcpAssumption
         DEF Launch, clients, servers, Launches, Nobody,
             SocketTypes, ServedNeverFails
<1>2. CASE StartClient  BY <1>2, ModbusTcpAssumption
         DEF StartClient, clients, servers, Launches, Nobody,
             SocketTypes, ServedNeverFails
<1>3. CASE Destroy  BY <1>3, ModbusTcpAssumption
         DEF Destroy, clients, servers, Launches, Nobody,
             SocketTypes, ServedNeverFails
<1>4. ASSUME NEW l \in Launches, NewMapping(l)  PROVE ServedNeverFails'
      BY <1>4, ModbusTcpAssumption
         DEF NewMapping, ServerGoto, main, clients, Launches, Nobody,
             SocketTypes, ServedNeverFails
<1>5. ASSUME NEW l \in Launches, MappingFails(l)  PROVE ServedNeverFails'
      BY <1>5, ModbusTcpAssumption
         DEF MappingFails, ServerGoto, main, clients, Launches, Nobody,
             SocketTypes, ServedNeverFails
<1>6. ASSUME NEW l \in Launches, Listen(l)  PROVE ServedNeverFails'
      BY <1>6, ModbusTcpAssumption
         DEF Listen, ServerGoto, main, clients, Launches, Nobody,
             SocketTypes, ServedNeverFails
<1>7. ASSUME NEW l \in Launches, ListenFails(l)  PROVE ServedNeverFails'
      BY <1>7, ModbusTcpAssumption
         DEF ListenFails, ServerGoto, main, clients, Launches, Nobody,
             SocketTypes, ServedNeverFails
<1>8. ASSUME NEW l \in Launches, Accept(l)  PROVE ServedNeverFails'
  <2>1. /\ DOMAIN backlog = 1 .. Len(backlog) /\ DOMAIN backlog' = 1 .. (Len(backlog) - 1)
        /\ Head(backlog) = backlog[1] /\ Head(backlog) \in Launches
        /\ Len(backlog) \in Nat \ {0}
        /\ \A i \in 1 .. (Len(backlog) - 1) : backlog'[i] = backlog[i + 1]
    BY <1>8, TailFacts DEF Accept, ServerGoto, main, clients, SocketTypes
  <2>2. \A m \in Launches : Waits(m)' => Waits(m) /\ m # Head(backlog)
    BY <2>1 DEF Waits, Queued
  <2>3. Waits(Head(backlog))
    BY <2>1 DEF Waits
  <2>4. fails[Head(backlog)] = 0
    BY <1>8, <2>1, <2>3 DEF Accept, ServerGoto, main, clients, Unaccepted
  <2> QED  BY <1>8, <2>4 DEF Accept, ServerGoto, main, clients, SocketTypes, ServedNeverFails
<1>9. ASSUME NEW l \in Launches, Reply(l)  PROVE ServedNeverFails'
      BY <1>9, ModbusTcpAssumption
         DEF Reply, ServerGoto, main, clients, Launches, Nobody,
             SocketTypes, ServedNeverFails
<1>10. ASSUME NEW l \in Launches, QuitLoop(l)  PROVE ServedNeverFails'
      BY <1>10, ModbusTcpAssumption
         DEF QuitLoop, ServerGoto, main, clients, Launches, Nobody,
             SocketTypes, ServedNeverFails
<1>11. ASSUME NEW l \in Launches, Connect(l)  PROVE ServedNeverFails'
      BY <1>11, ModbusTcpAssumption
         DEF Connect, ClientGoto, main, servers, Launches, Nobody,
             SocketTypes, ServedNeverFails
<1>12. ASSUME NEW l \in Launches, ConnectFails(l)  PROVE ServedNeverFails'
      BY <1>12, ModbusTcpAssumption
         DEF ConnectFails, ClientGoto, main, servers, Launches, Nobody,
             SocketTypes, ServedNeverFails
<1>13. ASSUME NEW l \in Launches, Ask(l)  PROVE ServedNeverFails'
      BY <1>13, ModbusTcpAssumption
         DEF Ask, ClientGoto, main, servers, Launches, Nobody,
             SocketTypes, ServedNeverFails
<1>14. ASSUME NEW l \in Launches, Answered(l)  PROVE ServedNeverFails'
      BY <1>14, ModbusTcpAssumption
         DEF Answered, ClientGoto, main, servers, Launches, Nobody,
             SocketTypes, ServedNeverFails
<1>15. ASSUME NEW l \in Launches, TimedOut(l)  PROVE ServedNeverFails'
  <2>1. ~Served(l) /\ serving' = serving /\ fails' = [fails EXCEPT ![l] = fails[l] + 1]
    BY <1>15 DEF TimedOut, ClientGoto, main, servers, Orphaned
  <2>2. \A k \in Launches : serving[k] # l
    BY <2>1 DEF Served
  <2>3. \A m \in Launches : m # l => fails'[m] = fails[m]
    BY <2>1 DEF CountTypes
  <2>4. \A k \in Launches : serving[k] # Nobody => serving[k] \in Launches
    BY ModbusTcpAssumption DEF SocketTypes, Launches, Nobody
  <2> QED  BY <2>1, <2>2, <2>3, <2>4 DEF ServedNeverFails
<1>16. ASSUME NEW l \in Launches, Close(l)  PROVE ServedNeverFails'
      BY <1>16, ModbusTcpAssumption
         DEF Close, ClientGoto, main, servers, Launches, Nobody,
             SocketTypes, ServedNeverFails
<1>17. CASE UNCHANGED vars
    BY <1>17 DEF vars, main, servers, clients, SocketTypes, ServedNeverFails
<1>18. ASSUME NEW l \in Launches, AcceptFails(l)  PROVE ServedNeverFails'
      BY <1>18, ModbusTcpAssumption
         DEF AcceptFails, ServerGoto, main, clients, Launches, Nobody,
             SocketTypes, ServedNeverFails
<1>19. ASSUME NEW l \in Launches, QuitUnserved(l)  PROVE ServedNeverFails'
      BY <1>19, ModbusTcpAssumption
         DEF QuitUnserved, ServerGoto, main, clients, Launches, Nobody,
             SocketTypes, ServedNeverFails
<1> QED
    BY <1>1, <1>2, <1>3, <1>4, <1>5, <1>6, <1>7, <1>8,
       <1>9, <1>10, <1>11, <1>12, <1>13, <1>14, <1>15, <1>16, <1>17,
       <1>18, <1>19
       DEF Next, ServerStep, ServerRuns, ClientStep, Quiet

(* The server of the next launch has not started. *)
LEMMA StartedIdle ==
  ASSUME PcTypes, Started, launched < MaxLaunches
  PROVE  serverPc[launched + 1] = "idle"
<1>1. launched + 1 \in Launches /\ launched + 1 > launched
  BY ModbusTcpAssumption DEF PcTypes, Launches
<1> QED  BY <1>1 DEF Started

(* Every step keeps the port with a server that uses it. *)
LEMMA PortUsedStep ==
  ASSUME PcTypes, SocketTypes, Started, Listens, PortUsed, [Next]_vars
  PROVE  PortUsed'
<1>0. listener # Nobody => listener \in Launches
  BY ModbusTcpAssumption DEF SocketTypes, PcTypes, Launches, Nobody
<1>1. ASSUME NEW l \in Launches, Listen(l)  PROVE PortUsed'
  BY <1>1 DEF Listen, ServerGoto, PcTypes, PortUsed
<1>2. ASSUME NEW l \in Launches, Accept(l)  PROVE PortUsed'
  <2>1. /\ listener = l /\ listener' = l
        /\ serving' = [serving EXCEPT ![l] = Head(backlog)]
    BY <1>2 DEF Accept, ServerGoto, Listens
  <2>2. Head(backlog) \in Launches
    BY <1>2, TailFacts DEF Accept, SocketTypes
  <2>3. serving'[l] # Nobody
    BY <2>1, <2>2 DEF SocketTypes, Launches, Nobody
  <2> QED  BY <2>1, <2>3 DEF PortUsed
<1>3. ASSUME NEW l \in Launches, AcceptFails(l)  PROVE PortUsed'
  BY <1>3 DEF AcceptFails, PortUsed
<1>4. CASE /\ UNCHANGED <<serving, listener>>
           /\ \A k \in Launches : serverPc[k] = "accept" => serverPc'[k] = "accept"
  BY <1>0, <1>4 DEF PortUsed
<1>5. ASSUME ~\E l \in Launches : Listen(l) \/ Accept(l) \/ AcceptFails(l)
      PROVE  UNCHANGED <<serving, listener>>
  BY <1>5 DEF Next, ServerStep, ServerRuns, ClientStep, Quiet, vars, main, servers,
     clients, ServerGoto, ClientGoto, Launch, StartClient, Destroy, NewMapping,
     MappingFails, ListenFails, Reply, QuitLoop, QuitUnserved, Connect, ConnectFails,
     Ask, Answered, TimedOut, Close
<1>6. ASSUME ~\E l \in Launches : Listen(l) \/ Accept(l) \/ AcceptFails(l),
             NEW k \in Launches, serverPc[k] = "accept"
      PROVE  serverPc'[k] = "accept"
  <2>1. CASE Launch
    <3>1. k # launched + 1
      BY <1>6, <2>1, StartedIdle DEF Launch
    <3> QED  BY <1>6, <2>1, <3>1 DEF Launch, PcTypes
  <2>2. CASE ~Launch
    BY <1>6, <2>2 DEF PcTypes, Next, ServerStep, ServerRuns, ClientStep, Quiet, vars,
       main, servers, clients, ServerGoto, ClientGoto, StartClient, Destroy, NewMapping,
       MappingFails, ListenFails, Reply, QuitLoop, QuitUnserved, Connect, ConnectFails,
       Ask, Answered, TimedOut, Close
  <2> QED  BY <2>1, <2>2
<1> QED  BY <1>1, <1>2, <1>3, <1>4, <1>5, <1>6

(* A connection leaves the backlog for a server, or is lost with the socket. *)
LEMMA WaitsOn ==
  ASSUME PcTypes, SocketTypes, [Next]_vars, NEW m \in Launches, Waits(m),
         ~\E l \in Launches : AcceptFails(l)
  PROVE  Waits(m)' \/ Served(m)'
<1>0. PICK i \in DOMAIN backlog : backlog[i] = m  BY DEF Waits
<1>1. ASSUME NEW l \in Launches, Accept(l)  PROVE Waits(m)' \/ Served(m)'
  <2>1. /\ DOMAIN backlog = 1 .. Len(backlog) /\ DOMAIN backlog' = 1 .. (Len(backlog) - 1)
        /\ Head(backlog) = backlog[1] /\ Len(backlog) \in Nat \ {0}
        /\ \A j \in 1 .. (Len(backlog) - 1) : backlog'[j] = backlog[j + 1]
    BY <1>1, TailFacts DEF Accept, SocketTypes
  <2>2. CASE i = 1
    BY <1>0, <1>1, <2>1, <2>2 DEF Accept, SocketTypes, Served
  <2>3. CASE i # 1
    <3>1. i - 1 \in DOMAIN backlog' /\ backlog'[i - 1] = m
      BY <1>0, <2>1, <2>3
    <3> QED  BY <3>1 DEF Waits
  <2> QED  BY <2>2, <2>3
<1>2. ASSUME NEW l \in Launches, Connect(l)  PROVE Waits(m)'
  <2>1. /\ DOMAIN backlog = 1 .. Len(backlog) /\ DOMAIN backlog' = 1 .. (Len(backlog) + 1)
        /\ \A j \in 1 .. Len(backlog) : backlog'[j] = backlog[j]
        /\ Len(backlog) \in Nat
    BY <1>2, AppendFacts DEF Connect, SocketTypes
  <2>2. i \in DOMAIN backlog' /\ backlog'[i] = m
    BY <1>0, <2>1
  <2> QED  BY <2>2 DEF Waits
<1>3. CASE UNCHANGED backlog
  BY <1>3 DEF Waits
<1>4. UNCHANGED backlog \/ \E l \in Launches : Accept(l) \/ Connect(l)
  BY DEF Next, ServerStep, ServerRuns, ClientStep, Quiet, vars, main, servers, clients,
     ServerGoto, ClientGoto, Launch, StartClient, Destroy, NewMapping, MappingFails,
     Listen, ListenFails, Reply, QuitLoop, QuitUnserved, ConnectFails, Ask, Answered,
     TimedOut, Close
<1> QED  BY <1>1, <1>2, <1>3, <1>4

(* A failure that went unnoticed is never noticed. *)
LEMMA FailedStays ==
  ASSUME PcTypes, CountTypes, SocketTypes, Started, [Next]_vars,
         NEW k \in Launches, FailedUnseen(k)
  PROVE  FailedUnseen(k)'
<1>1. /\ serving[k] = Nobody /\ serverPc[k] \in {"receive", "done"}
      /\ serverReport[k] # "start failed"
  BY DEF FailedUnseen
<1>2. serving'[k] = Nobody
  BY <1>1, ServingStays
<1>3. serverPc'[k] \in {"receive", "done"} /\ serverReport'[k] # "start failed"
  <2>1. CASE Launch
    <3>1. k # launched + 1
      BY <1>1, <2>1, StartedIdle DEF Launch
    <3> QED  BY <1>1, <2>1, <3>1 DEF Launch, PcTypes
  <2>2. CASE \E l \in Launches : ServerStep(l)
    <3>1. PICK l \in Launches : ServerStep(l)
      BY <2>2
    <3>2. CASE l = k
      BY <1>1, <3>1, <3>2 DEF PcTypes, CountTypes, ServerStep, ServerRuns, ServerGoto,
         NewMapping, MappingFails, Listen, ListenFails, Accept, Reply, QuitLoop,
         AcceptFails, QuitUnserved
    <3>3. CASE l # k
      BY <1>1, <3>1, <3>3 DEF PcTypes, CountTypes, ServerStep, ServerRuns, ServerGoto,
         NewMapping, MappingFails, Listen, ListenFails, Accept, Reply, QuitLoop,
         AcceptFails, QuitUnserved
    <3> QED  BY <3>2, <3>3
  <2>3. CASE UNCHANGED <<serverPc, serverReport>>
    BY <1>1, <2>3
  <2>4. \/ Launch \/ UNCHANGED <<serverPc, serverReport>>
        \/ \E l \in Launches : ServerStep(l)
    BY DEF Next, ClientStep, Quiet, vars, servers, ClientGoto, StartClient, Destroy,
       Connect, ConnectFails, Ask, Answered, TimedOut, Close
  <2> QED  BY <2>1, <2>2, <2>3, <2>4
<1> QED  BY <1>2, <1>3 DEF FailedUnseen

(* A cause stays one. *)
LEMMA CauseStays ==
  ASSUME PcTypes, CountTypes, SocketTypes, Started, Listens, [Next]_vars,
         NEW l \in Launches, Cause(l)
  PROVE  Cause(l)'
<1>1. PICK k \in Launches : serving[k] \notin {Nobody, l} \/ FailedUnseen(k)
  BY DEF Cause
<1>2. CASE serving[k] \notin {Nobody, l}
  <2>1. serving'[k] = serving[k]
    BY <1>2, ServingStays DEF Listens
  <2> QED  BY <1>2, <2>1 DEF Cause, Nobody
<1>3. CASE FailedUnseen(k)
  BY <1>3, FailedStays DEF Cause
<1> QED  BY <1>1, <1>2, <1>3

(* Every step keeps a client from a loss without a cause. *)
LEMMA LostStep ==
  ASSUME PcTypes, CountTypes, SocketTypes, Started, Listens, Unaccepted, PortUsed,
         LostForCause, [Next]_vars
  PROVE  LostForCause'
<1> SUFFICES ASSUME NEW l \in Launches,
                    \/ clientPc'[l] \in {"ask", "wait"} /\ ~Waits(l)' /\ ~Served(l)'
                    \/ fails'[l] # 0
                    \/ clientReport'[l] = "test failed"
             PROVE  Cause(l)'
  BY DEF LostForCause
<1>0. Cause(l) => Cause(l)'
  BY CauseStays
<1>1. ASSUME NEW k \in Launches, AcceptFails(k)  PROVE Cause(l)'
  <2>1. /\ serverPc[k] = "accept" /\ serverPc' = [serverPc EXCEPT ![k] = "receive"]
        /\ UNCHANGED <<serving, serverReport>>
    BY <1>1 DEF AcceptFails, ServerGoto
  <2>2. serving[k] = Nobody /\ serverReport[k] = "none"
    BY <2>1 DEF Listens
  <2>3. FailedUnseen(k)'
    BY <2>1, <2>2 DEF FailedUnseen, PcTypes
  <2> QED  BY <2>3 DEF Cause
<1>2. CASE TimedOut(l)
  <2>1. clientPc[l] = "wait" /\ ~Served(l) /\ (Waits(l) => serverPc[listener] # "accept")
    BY <1>2 DEF TimedOut, ClientGoto, Orphaned
  <2>2. CASE ~Waits(l)
    BY <1>0, <2>1, <2>2 DEF LostForCause
  <2>3. CASE Waits(l)
    <3>1. listener # Nobody /\ listener \in Launches
      <4>1. listener # Nobody
        BY <2>3 DEF Unaccepted
      <4>2. listener \in 0 .. launched /\ launched \in 0 .. MaxLaunches
        BY DEF SocketTypes, PcTypes
      <4> QED  BY ONLY <4>1, <4>2, ModbusTcpAssumption DEF Launches, Nobody
    <3>2. serving[listener] \notin {Nobody, l}
      BY <2>1, <2>3, <3>1 DEF PortUsed, Served
    <3> QED  BY <1>0, <3>1, <3>2 DEF Cause
  <2> QED  BY <2>2, <2>3
<1>3. CASE Close(l)
  <2>1. /\ clientPc'[l] = "done" /\ fails'[l] = fails[l]
        /\ clientReport'[l] = "test failed" => fails[l] # 0
    BY <1>3 DEF Close, ClientGoto, Report, PcTypes, CountTypes
  <2> QED  BY <1>0, <2>1 DEF LostForCause
<1>4. CASE ~TimedOut(l) /\ ~Close(l) /\ ~\E k \in Launches : AcceptFails(k)
  <2>1. fails'[l] = fails[l]
    <3>1. ASSUME NEW m \in Launches, TimedOut(m)  PROVE fails'[l] = fails[l]
      BY <1>4, <3>1 DEF TimedOut, CountTypes
    <3>2. UNCHANGED fails \/ \E m \in Launches : TimedOut(m)
      BY DEF Next, ServerStep, ServerRuns, ClientStep, Quiet, vars, main, servers,
         clients, ServerGoto, ClientGoto, Launch, StartClient, Destroy, NewMapping,
         MappingFails, Listen, ListenFails, Accept, Reply, QuitLoop, AcceptFails,
         QuitUnserved, Connect, ConnectFails, Ask, Answered, Close
    <3> QED  BY <3>1, <3>2
  <2>2. clientReport'[l] = "test failed" => clientReport[l] = "test failed"
    <3>1. ASSUME NEW m \in Launches, Close(m)
          PROVE  clientReport'[l] = clientReport[l]
      BY <1>4, <3>1 DEF Close, Report, CountTypes
    <3>2. ASSUME NEW m \in Launches, ConnectFails(m), clientReport'[l] = "test failed"
          PROVE  clientReport[l] = "test failed"
      BY <3>2 DEF ConnectFails, CountTypes
    <3>3. UNCHANGED clientReport \/ \E m \in Launches : Close(m) \/ ConnectFails(m)
      BY DEF Next, ServerStep, ServerRuns, ClientStep, Quiet, vars, main, servers,
         clients, ServerGoto, ClientGoto, Launch, StartClient, Destroy, NewMapping,
         MappingFails, Listen, ListenFails, Accept, Reply, QuitLoop, AcceptFails,
         QuitUnserved, Connect, Ask, Answered, TimedOut
    <3> QED  BY <3>1, <3>2, <3>3
  <2>3. ASSUME clientPc'[l] \in {"ask", "wait"}, ~Waits(l)', ~Served(l)'
        PROVE  Cause(l)
    <3>1. ~Waits(l) /\ ~Served(l)
      BY <1>4, <2>3, WaitsOn, ServedStays
    <3>2. ~Connect(l)
      <4>1. ASSUME Connect(l)  PROVE Waits(l)'
        <5>1. backlog \in Seq(Launches) /\ backlog' = Append(backlog, l)
          BY <4>1 DEF Connect, SocketTypes
        <5>2. /\ DOMAIN backlog' = 1 .. (Len(backlog) + 1) /\ Len(backlog) \in Nat
              /\ backlog'[Len(backlog) + 1] = l
          BY ONLY <5>1, AppendFacts, l \in Launches
        <5>3. Len(backlog) + 1 \in DOMAIN backlog'
          BY ONLY <5>2
        <5> QED  BY <5>2, <5>3 DEF Waits
      <4> QED  BY <2>3, <4>1
    <3>3. clientPc[l] \in {"ask", "wait"}
      <4>1. ASSUME NEW m \in Launches, ClientStep(m)
            PROVE  clientPc[l] \in {"ask", "wait"}
        <5>1. CASE m = l
          BY <2>3, <3>2, <4>1, <5>1
             DEF PcTypes, ClientStep, ClientGoto, ConnectFails, Ask, Answered, TimedOut,
                 Close
        <5>2. CASE m # l
          BY <2>3, <4>1, <5>2
             DEF PcTypes, ClientStep, ClientGoto, Connect, ConnectFails, Ask, Answered,
                 TimedOut, Close
        <5> QED  BY <5>1, <5>2
      <4>2. CASE StartClient
        BY <2>3, <4>2 DEF StartClient, PcTypes
      <4>3. CASE UNCHANGED clientPc
        BY <2>3, <4>3
      <4>4. \/ StartClient \/ UNCHANGED clientPc
            \/ \E m \in Launches : ClientStep(m)
        BY DEF Next, ServerStep, ServerRuns, Quiet, vars, clients, ServerGoto, Launch,
           Destroy, NewMapping, MappingFails, Listen, ListenFails, Accept, Reply,
           QuitLoop, AcceptFails, QuitUnserved
      <4> QED  BY <4>1, <4>2, <4>3, <4>4
    <3> QED  BY <3>1, <3>3 DEF LostForCause
  <2> QED  BY <1>0, <2>1, <2>2, <2>3 DEF LostForCause
<1> QED  BY <1>1, <1>2, <1>3, <1>4

-----------------------------------------------------------------------------
(* The types of PcTypes, CountTypes, SocketTypes and OneServer are TypeOK.  *)
LEMMA TypesAreParts ==
  TypeOK <=> PcTypes /\ CountTypes /\ SocketTypes /\ OneServer
<1> QED  BY DEF TypeOK, PcTypes, CountTypes, SocketTypes, OneServer, Waits

(* The invariant holds of a new process. *)
LEMMA InitInv == Init => Inv
<1> SUFFICES ASSUME Init  PROVE Inv
  OBVIOUS
<1> USE ModbusTcpAssumption DEF Init, Launches, Nobody
<1>1. PcTypes  BY DEF PcTypes
<1>2. CountTypes  BY DEF CountTypes
<1>3. SocketTypes  BY DEF SocketTypes
<1>4. OneServer  BY DEF OneServer, Waits
<1>5. Started  BY DEF Started
<1>6. Queued  BY DEF Queued, Waits, Served
<1>7. Counted  BY DEF Counted
<1>8. Listens  BY DEF Listens
<1>9. Unaccepted  BY DEF Unaccepted, Waits
<1>10. ClientOkMeansServed /\ ServedNeverFails
  BY DEF ClientOkMeansServed, ServedNeverFails
<1>11. PortUsed /\ LostForCause
  BY DEF PortUsed, LostForCause
<1> QED
  BY <1>1, <1>2, <1>3, <1>4, <1>5, <1>6, <1>7, <1>8, <1>9, <1>10, <1>11,
     TypesAreParts DEF Inv

(* Every step keeps the invariant. *)
LEMMA NextInv == Inv /\ [Next]_vars => Inv'
<1> SUFFICES ASSUME Inv, [Next]_vars  PROVE Inv'
  OBVIOUS
<1>1. /\ PcTypes /\ CountTypes /\ SocketTypes /\ OneServer
      /\ Started /\ Queued /\ Counted /\ Listens /\ Unaccepted
      /\ ClientOkMeansServed /\ ServedNeverFails /\ PortUsed /\ LostForCause
  BY TypesAreParts DEF Inv
<1>2. PcTypes' /\ CountTypes' /\ SocketTypes' /\ OneServer'
  BY <1>1, PcStep, CountTypesStep, SocketTypesStep, OneServerStep
<1>3. Started' /\ Queued' /\ Counted' /\ Listens'
  BY <1>1, StartedStep, QueuedStep, CountedStep, ListensStep
<1>4. Unaccepted' /\ ClientOkMeansServed' /\ ServedNeverFails'
  BY <1>1, UnacceptedStep, ClientOkStep, ServedStep
<1>5. TypeOK'
  BY <1>2 DEF TypeOK, PcTypes, CountTypes, SocketTypes, OneServer, Waits
<1>6. PortUsed' /\ LostForCause'
  BY <1>1, PortUsedStep, LostStep
<1> QED  BY <1>3, <1>4, <1>5, <1>6 DEF Inv

(* Inv holds throughout. *)
LEMMA SpecInv == Spec => []Inv
<1> QED  BY InitInv, NextInv, PTL DEF Spec

(* The threads, requests, sockets and reports of all launches keep their    *)
(* types, and a connection is in the backlog or with one server.            *)
THEOREM TypeCorrect == Spec => []TypeOK
<1>1. Inv => TypeOK  BY DEF Inv
<1> QED  BY <1>1, SpecInv, PTL

(* A client logs "test OK" only if a server served it. *)
THEOREM ClientOkMeansServedHolds == Spec => []ClientOkMeansServed
<1>1. Inv => ClientOkMeansServed  BY DEF Inv
<1> QED  BY <1>1, SpecInv, PTL

(* A test fails only after another client was taken or a failure of listen  *)
(* or accept went unnoticed.                                                *)
THEOREM ClientFailsForCauseHolds == Spec => []ClientFailsForCause
<1>1. Inv => ClientFailsForCause
  BY DEF Inv, LostForCause, Cause, ClientFailsForCause
<1> QED  BY <1>1, SpecInv, PTL

(* No server accepts a client that has already lost a request. *)
THEOREM ServedNeverFailsHolds == Spec => []ServedNeverFails
<1>1. Inv => ServedNeverFails  BY DEF Inv
<1> QED  BY <1>1, SpecInv, PTL

-----------------------------------------------------------------------------
(* One session for all launches. *)

(* Only the server that has the port serves anyone.                         *)
ServesListening == \A l \in Launches : serving[l] # Nobody => listener = l

(* Who has reported is done; if it is still in the backlog, it has made all *)
(* of its requests.                                                         *)
Reported ==
  \A l \in Launches : clientReport[l] # "none" =>
    clientPc[l] = "done" /\ (Waits(l) => left[l] = 0)

(* At most one client of all launches logs "client : test OK".              *)
OneClientOk ==
  \A k, l \in Launches :
    clientReport[k] = "test OK" /\ clientReport[l] = "test OK" => k = l

(* The port is given once, and an accept is made by the server that has it. *)
LEMMA ServesListeningStep ==
  ASSUME Inv, ServesListening, [Next]_vars
  PROVE  ServesListening'
<1> USE ModbusTcpAssumption DEF Launches, Nobody
<1>0. /\ serving \in [Launches -> 0 .. MaxLaunches]
      /\ \A l \in Launches : serverPc[l] = "accept" => listener = l
      BY DEF Inv, TypeOK, Listens
<1>1. ASSUME NEW l \in Launches, Accept(l)  PROVE ServesListening'
  <2>1. listener = l /\ listener' = listener
        BY <1>0, <1>1 DEF Accept, ServerGoto
  <2>2. \A k \in Launches : k # l => serving'[k] = serving[k]
        BY <1>0, <1>1 DEF Accept
  <2> QED  BY <2>1, <2>2 DEF ServesListening
<1>2. ASSUME NEW l \in Launches, Listen(l)  PROVE ServesListening'
  <2>1. \A k \in Launches : serving[k] = Nobody
        BY <1>2 DEF Listen, ServesListening
  <2> QED  BY <1>2, <2>1 DEF Listen, ServesListening
<1>3. ASSUME NEW l \in Launches, AcceptFails(l)  PROVE ServesListening'
  <2>1. serverPc[l] = "accept" /\ serving' = serving
        BY <1>3 DEF AcceptFails, ServerGoto
  <2>2. listener = l /\ serving[l] = Nobody
        BY <2>1 DEF Inv, Listens
  <2> QED  BY <2>1, <2>2 DEF ServesListening
<1>4. CASE UNCHANGED <<serving, listener>>
      BY <1>4 DEF ServesListening
<1>5. \/ UNCHANGED <<serving, listener>>
      \/ \E l \in Launches : Accept(l) \/ Listen(l) \/ AcceptFails(l)
      BY DEF Next, ServerStep, ServerRuns, ClientStep, Quiet, vars, main, servers, clients,
         ServerGoto, ClientGoto, Launch, StartClient, Destroy, NewMapping, MappingFails,
         ListenFails, Reply, QuitLoop, QuitUnserved, Connect, ConnectFails, Ask, Answered,
         TimedOut, Close
<1> QED  BY <1>1, <1>2, <1>3, <1>4, <1>5

(* Who is in the backlog after a step was there before, or has just         *)
(* connected.                                                               *)
LEMMA WaitsStep ==
  ASSUME Inv, [Next]_vars, NEW m \in Launches, Waits(m)'
  PROVE  Waits(m) \/ Connect(m)
<1>0. backlog \in Seq(Launches)
      BY DEF Inv, TypeOK
<1>1. ASSUME NEW l \in Launches, Accept(l)  PROVE Waits(m)
  <2>1. backlog # <<>> /\ backlog' = Tail(backlog)
        BY <1>1 DEF Accept
  <2>2. /\ DOMAIN backlog = 1 .. Len(backlog) /\ Len(backlog) \in Nat
        /\ DOMAIN backlog' = 1 .. (Len(backlog) - 1)
        /\ \A i \in 1 .. (Len(backlog) - 1) : backlog'[i] = backlog[i + 1]
        BY <1>0, <2>1, TailFacts
  <2>3. PICK i \in DOMAIN backlog' : backlog'[i] = m
        BY DEF Waits
  <2>4. i + 1 \in DOMAIN backlog /\ backlog[i + 1] = m
        BY <2>2, <2>3
  <2> QED  BY <2>4 DEF Waits
<1>2. ASSUME NEW l \in Launches, Connect(l)  PROVE Waits(m) \/ Connect(m)
  <2>1. backlog' = Append(backlog, l)
        BY <1>2 DEF Connect
  <2>2. /\ DOMAIN backlog = 1 .. Len(backlog) /\ Len(backlog) \in Nat
        /\ DOMAIN backlog' = 1 .. (Len(backlog) + 1)
        /\ backlog'[Len(backlog) + 1] = l
        /\ \A i \in 1 .. Len(backlog) : backlog'[i] = backlog[i]
        BY <1>0, <2>1, AppendFacts
  <2>3. PICK i \in DOMAIN backlog' : backlog'[i] = m
        BY DEF Waits
  <2>4. CASE i = Len(backlog) + 1
        BY <1>2, <2>2, <2>3, <2>4
  <2>5. CASE i # Len(backlog) + 1
    <3>1. i \in DOMAIN backlog /\ backlog[i] = m
          BY <2>2, <2>3, <2>5
    <3> QED  BY <3>1 DEF Waits
  <2> QED  BY <2>4, <2>5
<1>3. CASE UNCHANGED backlog
      BY <1>3 DEF Waits
<1>4. ASSUME NEW l \in Launches, AcceptFails(l)  PROVE FALSE
  <2>1. DOMAIN backlog' = {}
        BY <1>4 DEF AcceptFails
  <2> QED  BY <2>1 DEF Waits
<1>5. \/ UNCHANGED backlog
      \/ \E l \in Launches : Accept(l) \/ Connect(l) \/ AcceptFails(l)
      BY DEF Next, ServerStep, ServerRuns, ClientStep, Quiet, vars, main, servers, clients,
         ServerGoto, ClientGoto, Launch, StartClient, Destroy, NewMapping, MappingFails,
         Listen, ListenFails, Reply, QuitLoop, QuitUnserved, ConnectFails, Ask,
         Answered, TimedOut, Close
<1> QED  BY <1>1, <1>2, <1>3, <1>4, <1>5

(* A client reports once, at its end.                                       *)
LEMMA ReportedStep ==
  ASSUME Inv, Reported, [Next]_vars
  PROVE  Reported'
<1> SUFFICES ASSUME NEW m \in Launches, clientReport'[m] # "none"
             PROVE  clientPc'[m] = "done" /\ (Waits(m)' => left'[m] = 0)
    BY DEF Reported
<1>0. /\ clientPc \in [Launches -> {"idle", "connect", "ask", "wait", "done"}]
      /\ clientReport \in [Launches -> {"none", "start failed", "test failed", "test OK"}]
      /\ left \in [Launches -> 0 .. Requests]
      /\ clientReport[m] # "none" => clientPc[m] = "done" /\ (Waits(m) => left[m] = 0)
      BY DEF Inv, TypeOK, Reported
<1>1. CASE Close(m)
      BY <1>0, <1>1 DEF Close, ClientGoto
<1>2. CASE ConnectFails(m)
  <2>1. ~Waits(m) /\ UNCHANGED backlog
        BY <1>2 DEF ConnectFails, ClientGoto, Inv, Queued
  <2>2. ~Waits(m)'
        BY <2>1 DEF Waits
  <2> QED  BY <1>0, <1>2, <2>2 DEF ConnectFails, ClientGoto
<1>3. CASE ~Close(m) /\ ~ConnectFails(m)
  <2>1. clientReport'[m] = clientReport[m]
    <3>1. ASSUME NEW l \in Launches, Close(l) \/ ConnectFails(l)
          PROVE  clientReport'[m] = clientReport[m]
          BY <1>0, <1>3, <3>1 DEF Close, ConnectFails, Report
    <3>2. UNCHANGED clientReport \/ \E l \in Launches : Close(l) \/ ConnectFails(l)
          BY DEF Next, ServerStep, ServerRuns, ClientStep, Quiet, vars, main, servers, clients,
             ServerGoto, ClientGoto, Launch, StartClient, Destroy, NewMapping,
             MappingFails, Listen, ListenFails, Accept, Reply, QuitLoop,
             AcceptFails, QuitUnserved, Connect, Ask, Answered, TimedOut
    <3> QED  BY <3>1, <3>2
  <2>2. clientPc[m] = "done" /\ (Waits(m) => left[m] = 0)
        BY <1>0, <2>1
  <2>3. clientPc'[m] = "done" /\ left'[m] = left[m]
    <3>1. mainPc = "start_sleep" => m # launched
          BY <2>2 DEF Inv, Started
    <3> QED
        BY <1>0, <2>2, <3>1 DEF Next, ServerStep, ServerRuns, ClientStep, Quiet, vars, main,
           servers, clients, ServerGoto, ClientGoto, Launch, StartClient, Destroy,
           NewMapping, MappingFails, Listen, ListenFails, Accept, Reply,
           QuitLoop, AcceptFails, QuitUnserved, Connect, Close, ConnectFails, Ask, Answered, TimedOut
  <2>4. ~Connect(m)
        BY <2>2 DEF Connect, ClientGoto
  <2> QED  BY <2>2, <2>3, <2>4, WaitsStep
<1> QED  BY <1>1, <1>2, <1>3

(* A client that a server takes from the backlog has not reported.          *)
LEMMA AcceptedIsNew ==
  ASSUME Inv, Reported, NEW l \in Launches, Accept(l)
  PROVE  /\ Head(backlog) \in Launches
         /\ clientReport[Head(backlog)] = "none"
<1>0. backlog \in Seq(Launches) /\ backlog # <<>> /\ serverPc[l] = "accept"
      BY DEF Inv, TypeOK, Accept, ServerGoto
<1>1. Head(backlog) \in Launches /\ Waits(Head(backlog))
      BY <1>0, TailFacts DEF Waits
<1> DEFINE m == Head(backlog)
<1>2. ~Served(m)
      BY <1>1 DEF Inv, TypeOK, Waits, Served
<1>3. fails[m] = 0
      BY <1>0, <1>1 DEF Inv, Unaccepted
<1> HIDE DEF m
<1>4. left[m] # 0
  <2>1. left[m] + fails[m] < Requests => Served(m)
        BY <1>1 DEF Inv, Counted, m
  <2> QED  BY <1>2, <1>3, <2>1, ModbusTcpAssumption
<1> QED  BY <1>1, <1>4 DEF Reported, m

(* Nobody is not a launch.                                                  *)
LEMMA NobodyIsNone == Nobody \notin Launches
<1> QED  BY ModbusTcpAssumption DEF Nobody, Launches

(* The client of the session. *)
SessionClient == IF listener = Nobody THEN Nobody ELSE serving[listener]

(* What a step of a thread does to the session.                             *)
LEMMA NextSession ==
  ASSUME Inv, ServesListening, Reported, [Next]_vars
  PROVE  [Session!SessionNext]_<<listener, SessionClient, clientReport>>
<1>0. /\ DOMAIN serving = Launches
      /\ clientReport \in [Launches -> {"none", "start failed", "test failed", "test OK"}]
      /\ listener # Nobody => listener \in Launches
      /\ Nobody \notin Launches
  <2>1. listener \in 0 .. launched /\ launched \in 0 .. MaxLaunches
        BY DEF Inv, TypeOK
  <2>2. listener # Nobody => listener \in Launches
        BY <2>1, ModbusTcpAssumption DEF Launches, Nobody
  <2> QED  BY <2>2, NobodyIsNone DEF Inv, TypeOK
<1>1. ASSUME NEW l \in Launches, Listen(l)
      PROVE  Session!Own(l)
  <2>1. listener = Nobody /\ listener' = l /\ serving[l] = Nobody
        BY <1>1 DEF Listen, ServerGoto, Inv, Listens
  <2>2. UNCHANGED <<serving, clientReport>>
        BY <1>1 DEF Listen, ServerGoto, clients
  <2> QED  BY <2>1, <2>2 DEF Session!Own, SessionClient
<1>2. ASSUME NEW l \in Launches, Accept(l)
      PROVE  Session!Take(Head(backlog)) /\ Head(backlog) \in Launches
  <2>1. listener = l /\ serving[l] = Nobody /\ UNCHANGED <<listener, clientReport>>
        BY <1>2 DEF Accept, ServerGoto, clients, Inv, Listens
  <2>2. serving' = [serving EXCEPT ![l] = Head(backlog)]
        BY <1>2 DEF Accept
  <2>3. SessionClient = Nobody /\ SessionClient' = Head(backlog)
        BY <1>0, <2>1, <2>2 DEF SessionClient
  <2> QED
      BY <1>0, <1>2, <2>1, <2>3, AcceptedIsNew DEF Session!Take, SessionClient
<1>3. ASSUME NEW l \in Launches, ConnectFails(l)
      PROVE  Session!Conclude(l)
  <2>1. clientReport[l] = "none" /\ ~Served(l)
        BY <1>3 DEF ConnectFails, ClientGoto, Reported, Inv, Queued
  <2>2. SessionClient # l
        BY <1>0, <2>1 DEF SessionClient, Served
  <2>3. /\ clientReport' = [clientReport EXCEPT ![l] = "start failed"]
        /\ UNCHANGED <<listener, serving>>
        BY <1>3 DEF ConnectFails, ClientGoto, servers
  <2> QED  BY <2>1, <2>2, <2>3 DEF Session!Conclude, SessionClient
<1>4. ASSUME NEW l \in Launches, Close(l)
      PROVE  Session!Conclude(l)
  <2>1. clientReport[l] = "none" /\ left[l] = 0 /\ UNCHANGED <<listener, serving>>
        BY <1>4 DEF Close, ClientGoto, Reported, servers
  <2>2. CASE fails[l] = 0
    <3>1. Served(l)
      <4>1. left[l] + fails[l] < Requests
            BY <2>1, <2>2, ModbusTcpAssumption
      <4> QED  BY <4>1 DEF Inv, Counted
    <3>2. SessionClient = l
          BY <1>0, <3>1 DEF Served, ServesListening, SessionClient
    <3>3. clientReport' = [clientReport EXCEPT ![l] = "test OK"]
          BY <1>4, <2>2 DEF Close, Report
    <3> QED  BY <2>1, <3>2, <3>3 DEF Session!Conclude, SessionClient
  <2>3. CASE fails[l] # 0
    <3>1. SessionClient # l
          BY <1>0, <2>3 DEF Inv, ServedNeverFails, SessionClient
    <3>2. clientReport' = [clientReport EXCEPT ![l] = "test failed"]
          BY <1>4, <2>3 DEF Close, Report
    <3> QED  BY <2>1, <3>1, <3>2 DEF Session!Conclude, SessionClient
  <2> QED  BY <2>2, <2>3
<1>5. \/ UNCHANGED <<listener, serving, clientReport>>
      \/ \E l \in Launches : \/ Listen(l) \/ Accept(l) \/ AcceptFails(l)
                             \/ ConnectFails(l) \/ Close(l)
      BY DEF Next, ServerStep, ServerRuns, ClientStep, Quiet, vars, main, servers, clients,
         ServerGoto, ClientGoto, Launch, StartClient, Destroy, NewMapping, MappingFails,
         ListenFails, Reply, QuitLoop, QuitUnserved, Connect, Ask, Answered, TimedOut
<1>6. CASE UNCHANGED <<listener, serving, clientReport>>
      BY <1>6 DEF SessionClient
<1>7. ASSUME NEW l \in Launches, AcceptFails(l)
      PROVE  Session!GiveUp
  <2>1. listener = l /\ serving[l] = Nobody /\ listener' = Nobody
        BY <1>7 DEF AcceptFails, ServerGoto, Inv, Listens
  <2>2. UNCHANGED <<serving, clientReport>>
        BY <1>7 DEF AcceptFails, ServerGoto, clients
  <2> QED  BY <1>0, <2>1, <2>2 DEF Session!GiveUp, SessionClient
<1> QED  BY <1>1, <1>2, <1>3, <1>4, <1>5, <1>6, <1>7 DEF Session!SessionNext

(* The invariant of the session holds throughout.                           *)
LEMMA SessionInv == Spec => [](ServesListening /\ Reported)
<1>1. Init => ServesListening /\ Reported
      BY DEF Init, ServesListening, Reported
<1>2. Inv /\ (ServesListening /\ Reported) /\ [Next]_vars => (ServesListening /\ Reported)'
      BY ServesListeningStep, ReportedStep
<1> QED  BY <1>1, <1>2, SpecInv, PTL DEF Spec

(* Whatever the launches of one process do, and in whatever order their     *)
(* threads run, it amounts to one server with one client.                   *)
THEOREM SpecImplementsSession == Spec => ImplementsSession
<1>1. Init => Session!SessionInit
      BY DEF Init, Session!SessionInit
<1>2. Inv /\ (ServesListening /\ Reported) /\ [Next]_vars
        => [Session!SessionNext]_(Session!session)
      BY NextSession DEF Session!session, SessionClient
<1> QED
    BY <1>1, <1>2, SpecInv, SessionInv, PTL DEF Spec, ImplementsSession, Session!Spec

(* "client : test OK" is logged once in the life of the process, however    *)
(* often the activity is launched.                                          *)
THEOREM OneClientOkHolds == Spec => []OneClientOk
<1>1. Inv /\ (ServesListening /\ Reported) => OneClientOk
  <2> SUFFICES ASSUME Inv, ServesListening,
                      NEW k \in Launches, NEW l \in Launches,
                      clientReport[k] = "test OK", clientReport[l] = "test OK"
               PROVE  k = l
      BY DEF OneClientOk
  <2>1. PICK a \in Launches : serving[a] = k
        BY DEF Inv, ClientOkMeansServed
  <2>2. PICK b \in Launches : serving[b] = l
        BY DEF Inv, ClientOkMeansServed
  <2>3. k # Nobody /\ l # Nobody
        BY NobodyIsNone
  <2>4. a = b
        BY <2>1, <2>2, <2>3 DEF ServesListening
  <2> QED  BY <2>1, <2>2, <2>4
<1> QED  BY <1>1, SpecInv, SessionInv, PTL
=============================================================================

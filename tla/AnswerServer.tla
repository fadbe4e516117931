---------------------------- MODULE AnswerServer ----------------------------
(***************************************************************************)
(* What async_tcp_server promises, seen from its connections: each one is  *)
(* answered once and then closed, one at a time, and until the server is   *)
(* stopped none is closed without an answer.                               *)
(***************************************************************************)
CONSTANT Conns

VARIABLES
  conn,  \* per connection: free, open or answered
  down   \* the server has been stopped

ServerInit == conn = [c \in Conns |-> "free"] /\ down = FALSE

Connect(c) ==
  /\ conn[c] = "free" /\ conn' = [conn EXCEPT ![c] = "open"]
  /\ UNCHANGED down

Answer(c) ==
  /\ conn[c] = "open" /\ conn' = [conn EXCEPT ![c] = "answered"]
  /\ \A d \in Conns : conn[d] # "answered"
  /\ UNCHANGED down

Close(c) ==
  /\ conn[c] = "answered" /\ conn' = [conn EXCEPT ![c] = "free"]
  /\ UNCHANGED down

Stop == down' = TRUE /\ UNCHANGED conn

(* Connections a stopped server abandons, all at once. *)
Abandon ==
  /\ down /\ UNCHANGED down
  /\ \E lost \in SUBSET {c \in Conns : conn[c] = "open"} :
       conn' = [c \in Conns |-> IF c \in lost THEN "free" ELSE conn[c]]

ServerNext ==
  \/ \E c \in Conns : Connect(c) \/ Answer(c) \/ Close(c)
  \/ Stop
  \/ Abandon

Spec == ServerInit /\ [][ServerNext]_<<conn, down>>
=============================================================================

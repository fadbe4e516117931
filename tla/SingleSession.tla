--------------------------- MODULE SingleSession ---------------------------
(***************************************************************************)
(* What all the launches of libmodbus-tcp in one process amount to: the    *)
(* port goes to one server at a time, and to one for good once that server *)
(* has taken a client; the test of this client is the only one that can    *)
(* succeed.                                                                *)
(***************************************************************************)
CONSTANTS Launches, Nobody

VARIABLES
  owner,   \* whose server has the port
  client,  \* whom it has taken
  verdict  \* per client: what it has reported

session == <<owner, client, verdict>>

SessionInit ==
  /\ owner = Nobody /\ client = Nobody
  /\ verdict = [l \in Launches |-> "none"]

Own(l) ==
  /\ owner = Nobody /\ owner' = l
  /\ UNCHANGED <<client, verdict>>

GiveUp ==
  /\ owner # Nobody /\ client = Nobody
  /\ owner' = Nobody
  /\ UNCHANGED <<client, verdict>>

Take(l) ==
  /\ owner # Nobody /\ client = Nobody
  /\ verdict[l] = "none"
  /\ client' = l
  /\ UNCHANGED <<owner, verdict>>

Conclude(l) ==
  /\ verdict[l] = "none"
  /\ \E v \in IF client = l THEN {"test OK"} ELSE {"start failed", "test failed"} :
       verdict' = [verdict EXCEPT ![l] = v]
  /\ UNCHANGED <<owner, client>>

SessionNext == GiveUp \/ \E l \in Launches : Own(l) \/ Take(l) \/ Conclude(l)

Spec == SessionInit /\ [][SessionNext]_session
=============================================================================

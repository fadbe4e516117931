------------------------- MODULE ActivityLifecycle --------------------------
(***************************************************************************)
(* Android's side of the two Java programs, flashlight and vibrator: the   *)
(* callbacks of their only activity.  Each callback runs to its end on the *)
(* main looper before the next begins, and no two overlap.  What Android   *)
(* may do is the order: an activity comes and goes from the screen, is     *)
(* destroyed while it is off it and created again with its saved state,    *)
(* and one that is finishing may be stopped and destroyed only after the   *)
(* next instance has been created and shown.  The process may be killed.   *)
(***************************************************************************)
EXTENDS Naturals

CONSTANT MaxInstances  \* bound on the instances that are ever created

ASSUME LifecycleAssumption == MaxInstances \in Nat

Instances == 1 .. MaxInstances
Nobody == 0

VARIABLES
  created,    \* how many instances there have been
  stage,      \* per instance: the callback that was last
  finishing,  \* per instance: the user has left it for good
  kept        \* the instance whose saved state Android keeps, or Nobody

lifecycle == <<created, stage, finishing, kept>>

Stages == {"none", "resumed", "paused", "stopped", "destroyed"}

LifecycleInit ==
  /\ created = 0
  /\ stage = [i \in Instances |-> "none"]
  /\ finishing = [i \in Instances |-> FALSE]
  /\ kept = Nobody

Shown(i) == stage[i] \in {"resumed", "paused"}

MoveTo(i, from, to) ==
  /\ stage[i] = from /\ stage' = [stage EXCEPT ![i] = to]
  /\ UNCHANGED created

(* onCreate, onStart and onResume in one message; source is the instance    *)
(* whose saved state the new one is given.                                  *)
Create(source) ==
  /\ created < MaxInstances /\ created' = created + 1
  /\ \A i \in 1 .. created :
       stage[i] = "destroyed" \/ (finishing[i] /\ stage[i] # "resumed")
  /\ source \in {kept, Nobody} /\ kept' = Nobody
  /\ stage' = [stage EXCEPT ![created + 1] = "resumed"]
  /\ UNCHANGED finishing

Pause(i) == MoveTo(i, "resumed", "paused") /\ UNCHANGED <<finishing, kept>>

Resume(i) ==
  /\ ~finishing[i] /\ MoveTo(i, "paused", "resumed")
  /\ UNCHANGED <<finishing, kept>>

Finish(i) ==
  /\ stage[i] \in {"paused", "stopped"} /\ ~finishing[i]
  /\ finishing' = [finishing EXCEPT ![i] = TRUE]
  /\ kept' = Nobody
  /\ UNCHANGED <<created, stage>>

(* onSaveInstanceState, unless it is finishing, and onStop. *)
Stop(i) ==
  /\ MoveTo(i, "paused", "stopped")
  /\ kept' = IF finishing[i] THEN kept ELSE i
  /\ UNCHANGED finishing

(* onRestart, onStart and onResume. *)
Restart(i) ==
  /\ ~finishing[i] /\ MoveTo(i, "stopped", "resumed")
  /\ kept' = Nobody
  /\ UNCHANGED finishing

Destroy(i) == MoveTo(i, "stopped", "destroyed") /\ UNCHANGED <<finishing, kept>>

Kill ==
  /\ \E i \in 1 .. created : stage[i] # "destroyed"
  /\ stage' = [i \in Instances |-> IF i <= created THEN "destroyed" ELSE "none"]
  /\ UNCHANGED <<created, finishing, kept>>

Gone == created = MaxInstances /\ \A i \in Instances : stage[i] = "destroyed"

LifecycleTypeOK ==
  /\ created \in 0 .. MaxInstances /\ kept \in 0 .. created
  /\ stage \in [Instances -> Stages] /\ finishing \in [Instances -> BOOLEAN]
  /\ \A i \in Instances : stage[i] = "none" <=> i > created
=============================================================================

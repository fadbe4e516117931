------------------------------ MODULE Vibrator ------------------------------
(***************************************************************************)
(* vibrator: one activity with a toggle button.  m_enabled lives and dies  *)
(* with the instance; the toggle has an id, so its state is saved and      *)
(* given to the next instance.  The vibrator service keeps the repeating   *)
(* patterns of each instance by a token of its own and drops them all when *)
(* the screen goes off.                                                    *)
(***************************************************************************)
EXTENDS ActivityLifecycle

VARIABLES
  m_enabled,    \* per instance
  toggle,       \* per instance: the button is checked
  hasVibrator,  \* the device has one; where asking throws, TRUE as well
  repeating,    \* the instances whose pattern the service repeats
  shot,         \* the instance of the single vibration under way, or Nobody
  silenced,     \* those whose pattern the service has dropped
  restoredOn    \* those created with a saved state that was checked

service == <<repeating, shot, silenced>>
view == <<m_enabled, toggle, restoredOn>>
vars == <<lifecycle, hasVibrator, service, view>>

Init ==
  /\ LifecycleInit
  /\ m_enabled = [i \in Instances |-> FALSE]
  /\ toggle = [i \in Instances |-> FALSE]
  /\ hasVibrator \in BOOLEAN
  /\ repeating = {} /\ shot = Nobody
  /\ silenced = {} /\ restoredOn = {}

(* vibrate(pattern, 0) of an instance's m_vibrator: it ends what is playing *)
(* and is played again after any single vibration.                          *)
Vibro(i) ==
  /\ repeating' = repeating \cup {i} /\ silenced' = silenced \ {i}
  /\ shot' = Nobody

(* Plausible bug, Cancel: all instances share a token. *)
CancelAll(i) ==
  /\ repeating' = {} /\ silenced' = silenced \ {i}
  /\ shot' = Nobody

Cancel(i) ==
  /\ repeating' = repeating \ {i} /\ silenced' = silenced \ {i}
  /\ shot' = IF shot = i THEN Nobody ELSE shot

(* vibrate(100); onRestoreInstanceState follows before the activity shows.  *)
OnCreate ==
  /\ \E source \in {kept, Nobody} :
       /\ Create(source)
       /\ IF source # Nobody /\ toggle[source]
            THEN /\ toggle' = [toggle EXCEPT ![created + 1] = TRUE]
                 /\ restoredOn' = restoredOn \cup {created + 1}
            ELSE UNCHANGED <<toggle, restoredOn>>
  /\ shot' = created + 1
  /\ UNCHANGED <<hasVibrator, repeating, silenced, m_enabled>>

(* Plausible bug, OnClick: onCreate goes on where there is no vibrator. *)
OnClickAnyway(i) ==
  /\ stage[i] = "resumed"
  /\ toggle' = [toggle EXCEPT ![i] = ~@]
  /\ IF m_enabled[i] THEN Cancel(i) ELSE Vibro(i)
  /\ m_enabled' = [m_enabled EXCEPT ![i] = ~@]
  /\ UNCHANGED <<lifecycle, hasVibrator, restoredOn>>

(* The button toggles itself and calls the listener.  Where there is no     *)
(* vibrator, onCreate has disabled the button and set no listener.          *)
OnClick(i) ==
  /\ stage[i] = "resumed" /\ hasVibrator
  /\ toggle' = [toggle EXCEPT ![i] = ~@]
  /\ IF m_enabled[i] THEN Cancel(i) ELSE Vibro(i)
  /\ m_enabled' = [m_enabled EXCEPT ![i] = ~@]
  /\ UNCHANGED <<lifecycle, hasVibrator, restoredOn>>

(* Plausible bugs, OnStop: the vibration is left to onDestroy; it is ended  *)
(* for good.                                                                *)
OnStopForgotten(i) == Stop(i) /\ UNCHANGED <<hasVibrator, service, view>>
OnStopForGood(i) ==
  /\ Stop(i) /\ Cancel(i)
  /\ m_enabled' = [m_enabled EXCEPT ![i] = FALSE]
  /\ UNCHANGED <<hasVibrator, toggle, restoredOn>>

OnStop(i) == Stop(i) /\ Cancel(i) /\ UNCHANGED <<hasVibrator, view>>

OnRestart(i) ==
  /\ Restart(i)
  /\ IF m_enabled[i] THEN Vibro(i) ELSE UNCHANGED service
  /\ UNCHANGED <<hasVibrator, view>>

OnDestroy(i) == Destroy(i) /\ Cancel(i) /\ UNCHANGED <<hasVibrator, view>>

(* Not in the program: the callbacks it does not have, and the service.     *)
NoCallback(i) ==
  (Pause(i) \/ Resume(i) \/ Finish(i)) /\ UNCHANGED <<hasVibrator, service, view>>

ShotEnds ==
  /\ shot # Nobody /\ shot' = Nobody
  /\ UNCHANGED <<lifecycle, hasVibrator, repeating, silenced, view>>

ScreenOff ==
  /\ repeating' = {} /\ shot' = Nobody
  /\ silenced' = silenced \cup repeating
  /\ UNCHANGED <<lifecycle, hasVibrator, view>>

Killed ==
  /\ Kill
  /\ repeating' = {} /\ shot' = Nobody /\ silenced' = {}
  /\ UNCHANGED <<hasVibrator, view>>

AllOver == Gone /\ UNCHANGED vars

Callback(i) ==
  OnClick(i) \/ OnStop(i) \/ OnRestart(i) \/ OnDestroy(i) \/ NoCallback(i)

Next ==
  \/ OnCreate
  \/ \E i \in Instances : Callback(i)
  \/ ShotEnds \/ ScreenOff \/ Killed \/ AllOver

Spec == Init /\ [][Next]_vars
-----------------------------------------------------------------------------
(* Properties. *)

(* The variables keep the values the program can give them; nothing is      *)
(* enabled on a device without a vibrator.                                  *)
TypeOK ==
  /\ LifecycleTypeOK
  /\ m_enabled \in [Instances -> BOOLEAN] /\ toggle \in [Instances -> BOOLEAN]
  /\ hasVibrator \in BOOLEAN
  /\ repeating \subseteq Instances /\ silenced \subseteq Instances
  /\ restoredOn \subseteq 1 .. created
  /\ shot \in 0 .. created
  /\ ~hasVibrator => \A i \in Instances : ~m_enabled[i] /\ i \notin repeating

(* Whatever order the callbacks of successive instances come in, the device *)
(* vibrates only for an instance that is shown, and goes on only if that    *)
(* instance is enabled.                                                     *)
VibratesOnlyWhileShown ==
  /\ \A i \in repeating : Shown(i) /\ m_enabled[i]
  /\ shot # Nobody => Shown(shot)

(* An instance that is shown and enabled vibrates, after any restart and    *)
(* beside an older one that is being stopped, unless the screen has been    *)
(* off since without an onRestart to start the pattern again.               *)
EnabledVibrates ==
  \A i \in Instances : Shown(i) /\ m_enabled[i] => i \in repeating \cup silenced

(* The button shows m_enabled for the whole life of an instance, except     *)
(* that one created from a checked button shows the opposite for the whole  *)
(* of its life: m_enabled is not saved.                                     *)
ToggleTellsEnabled ==
  \A i \in 1 .. created : i \in restoredOn <=> ~(toggle[i] <=> m_enabled[i])
=============================================================================

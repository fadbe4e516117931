----------------------------- MODULE Flashlight -----------------------------
(***************************************************************************)
(* flashlight: one activity with a button that lights the camera's torch.  *)
(* The fields of MainActivity are per instance; the camera is one for the  *)
(* device, and Camera.open throws while anybody has it.  enableFlash       *)
(* swallows every exception and skips what comes after it: a lamp that     *)
(* could not be lit, or put out, leaves m_enabled and the picture on the   *)
(* button as if it were, and a stopPreview that throws skips the release.  *)
(***************************************************************************)
EXTENDS ActivityLifecycle

VARIABLES
  m_camera,   \* per instance: the field, and whether release() was called
  m_enabled,  \* per instance: what the user has asked for
  image,      \* per instance: the picture on the button
  holder,     \* who has the camera: an instance, Nobody or OtherApp
  lit,        \* the torch of an instance that has the camera is on
  cut         \* per instance: what an exception cut short in the last call of
              \* enableFlash, unless that had no open camera to put out

camera == <<holder, lit, m_camera, cut>>
button == <<m_enabled, image>>
vars == <<lifecycle, camera, button>>

OtherApp == MaxInstances + 1
Cuts == {"no", "lighting", "putting out"}

Init ==
  /\ LifecycleInit
  /\ m_camera = [i \in Instances |-> "null"]
  /\ m_enabled = [i \in Instances |-> FALSE]
  /\ image = [i \in Instances |-> "off"]
  /\ holder = Nobody /\ lit = FALSE
  /\ cut = [i \in Instances |-> "no"]

CutShort(i, what) == cut' = [cut EXCEPT ![i] = what]

(* enableFlash(true): open may throw; so may, with the camera open, the     *)
(* calls that follow it, before or after the torch is on.                   *)
LightUp(i) ==
  \/ CutShort(i, "lighting") /\ UNCHANGED <<holder, lit, m_camera>>
  \/ /\ holder = Nobody /\ holder' = i
     /\ m_camera' = [m_camera EXCEPT ![i] = "open"]
     /\ \/ lit' = TRUE /\ CutShort(i, "no")
        \/ lit' \in BOOLEAN /\ CutShort(i, "lighting")

(* Plausible bugs, PutOut: the preview is stopped and the field dropped or  *)
(* kept, but the camera is not released.                                    *)
PutOutDropped(i) ==
  /\ m_camera' = [m_camera EXCEPT ![i] = "null"]
  /\ lit' = (lit /\ m_camera[i] # "open")
  /\ CutShort(i, "no")
  /\ UNCHANGED holder
PutOutUnreleased(i) ==
  /\ lit' = (lit /\ m_camera[i] # "open")
  /\ CutShort(i, "no")
  /\ UNCHANGED <<holder, m_camera>>

(* enableFlash(false): stopPreview throws on a camera that is null or       *)
(* released, and may throw on an open one, with the torch off by then or    *)
(* not; either way nothing is released.                                     *)
PutOut(i) ==
  \/ /\ m_camera[i] = "open"
     /\ m_camera' = [m_camera EXCEPT ![i] = "released"]
     /\ holder' = Nobody /\ lit' = FALSE
     /\ CutShort(i, "no")
  \/ /\ m_camera[i] = "open"
     /\ lit' \in {lit, FALSE}
     /\ CutShort(i, "putting out")
     /\ UNCHANGED <<m_camera, holder>>
  \/ /\ m_camera[i] # "open"
     /\ CutShort(i, "no")
     /\ UNCHANGED <<m_camera, holder, lit>>

OnCreate == (\E source \in {kept, Nobody} : Create(source)) /\ UNCHANGED <<camera, button>>

(* Plausible bug, OnClick: enableFlash comes before m_enabled changes. *)
OnClickSwapped(i) ==
  /\ stage[i] = "resumed"
  /\ m_enabled' = [m_enabled EXCEPT ![i] = ~@]
  /\ image' = [image EXCEPT ![i] = IF m_enabled'[i] THEN "on" ELSE "off"]
  /\ IF m_enabled[i] THEN LightUp(i) ELSE PutOut(i)
  /\ UNCHANGED lifecycle

OnClick(i) ==
  /\ stage[i] = "resumed"
  /\ m_enabled' = [m_enabled EXCEPT ![i] = ~@]
  /\ image' = [image EXCEPT ![i] = IF m_enabled'[i] THEN "on" ELSE "off"]
  /\ IF m_enabled'[i] THEN LightUp(i) ELSE PutOut(i)
  /\ UNCHANGED lifecycle

(* Plausible bug, OnStop: the lamp is left to onDestroy. *)
OnStopForgotten(i) == Stop(i) /\ UNCHANGED <<camera, button>>

OnStop(i) == Stop(i) /\ PutOut(i) /\ UNCHANGED button

OnRestart(i) ==
  /\ Restart(i)
  /\ IF m_enabled[i] THEN LightUp(i) ELSE UNCHANGED camera
  /\ UNCHANGED button

OnDestroy(i) == Destroy(i) /\ PutOut(i) /\ UNCHANGED button

(* Not in the program: no callback of its own for these, the system takes   *)
(* the camera back from a process that is gone and from a Camera object     *)
(* that is collected with its activity, and others use it too.              *)
NoCallback(i) == (Pause(i) \/ Resume(i) \/ Finish(i)) /\ UNCHANGED <<camera, button>>

Killed ==
  /\ Kill
  /\ m_camera' = [i \in Instances |-> "null"]
  /\ holder' = IF holder = OtherApp THEN OtherApp ELSE Nobody
  /\ lit' = FALSE
  /\ UNCHANGED <<cut, button>>

Collected(i) ==
  /\ stage[i] = "destroyed" /\ m_camera[i] = "open"
  /\ m_camera' = [m_camera EXCEPT ![i] = "released"]
  /\ holder' = Nobody /\ lit' = FALSE
  /\ UNCHANGED <<lifecycle, cut, button>>

OthersUse ==
  /\ \/ holder = Nobody /\ holder' = OtherApp
     \/ holder = OtherApp /\ holder' = Nobody
  /\ UNCHANGED <<lifecycle, lit, m_camera, cut, button>>

AllOver == Gone /\ UNCHANGED vars

Callback(i) ==
  OnClick(i) \/ OnStop(i) \/ OnRestart(i) \/ OnDestroy(i) \/ NoCallback(i)

Next ==
  \/ OnCreate
  \/ \E i \in Instances : Callback(i) \/ Collected(i)
  \/ Killed \/ OthersUse \/ AllOver

Spec == Init /\ [][Next]_vars

(* Android stops an activity that is finishing, sooner or later. *)
FairSpec == Spec /\ \A i \in Instances : WF_vars(finishing[i] /\ OnStop(i))
-----------------------------------------------------------------------------
(* Properties. *)

(* The variables keep the values the program can give them, and an instance *)
(* has the camera exactly while its field holds one that is not released:   *)
(* no camera is lost by overwriting or dropping the field.                  *)
TypeOK ==
  /\ LifecycleTypeOK
  /\ m_camera \in [Instances -> {"null", "open", "released"}]
  /\ m_enabled \in [Instances -> BOOLEAN]
  /\ image \in [Instances -> {"on", "off"}]
  /\ holder \in 0 .. OtherApp /\ lit \in BOOLEAN
  /\ cut \in [Instances -> Cuts]
  /\ \A i \in Instances : m_camera[i] = "open" <=> holder = i

(* However clicks, onStop, onRestart and onDestroy of successive instances  *)
(* follow each other and whatever lighting the lamp throws, the program     *)
(* keeps the camera from others only while an instance with its lamp        *)
(* enabled is shown.  The one way out is a stopPreview that throws: the     *)
(* release after it is skipped, and the camera stays with the instance.     *)
HeldOnlyWhileShown ==
  holder \in Instances =>
    (Shown(holder) /\ m_enabled[holder]) \/ cut[holder] = "putting out"

(* The button of an instance that is shown tells the state of its own lamp, *)
(* after any restart: it says on over a dark lamp only when lighting it has *)
(* thrown, and off over a lit one only when putting it out has.             *)
ImageTellsLamp ==
  \A i \in Instances : Shown(i) =>
    /\ image[i] = "on" => (holder = i /\ lit) \/ cut[i] = "lighting"
    /\ holder = i /\ lit => image[i] = "on" \/ cut[i] = "putting out"

(* An instance the user has left gives the camera back, although onStop may *)
(* come after the next instance was shown, unless stopPreview throws.       *)
CameraGivenBack ==
  \A i \in Instances :
    finishing[i] ~> ~Shown(i) /\ (holder # i \/ cut[i] = "putting out")
=============================================================================

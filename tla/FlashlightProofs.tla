-------------------------- MODULE FlashlightProofs --------------------------
(* Safety of Flashlight, for any number of instances. *)
EXTENDS Flashlight, TLAPS

(* The stages of Android's callbacks stay what LifecycleTypeOK says. *)
LEMMA LifecycleTypes ==
  ASSUME LifecycleTypeOK,
         \/ \E source \in {kept, Nobody} : Create(source)
         \/ \E i \in Instances :
              Pause(i) \/ Resume(i) \/ Finish(i) \/ Stop(i) \/ Restart(i) \/ Destroy(i)
         \/ Kill
         \/ UNCHANGED lifecycle
  PROVE  LifecycleTypeOK'
<1> USE LifecycleAssumption DEF Instances, Nobody, Stages, LifecycleTypeOK, MoveTo
<1>1. CASE \E source \in {kept, Nobody} : Create(source)  BY <1>1 DEF Create
<1>2. ASSUME NEW i \in Instances, Pause(i) \/ Resume(i)  PROVE LifecycleTypeOK'
      BY <1>2 DEF Pause, Resume
<1>3. ASSUME NEW i \in Instances, Finish(i)  PROVE LifecycleTypeOK'
  <2>1. finishing' \in [Instances -> BOOLEAN]  BY <1>3 DEF Finish
  <2> QED  BY <1>3, <2>1 DEF Finish
<1>4. ASSUME NEW i \in Instances, Stop(i)  PROVE LifecycleTypeOK'
      BY <1>4 DEF Stop
<1>5. ASSUME NEW i \in Instances, Restart(i) \/ Destroy(i)  PROVE LifecycleTypeOK'
      BY <1>5 DEF Restart, Destroy
<1>6. CASE Kill  BY <1>6 DEF Kill
<1>7. CASE UNCHANGED lifecycle  BY <1>7 DEF lifecycle
<1> QED  BY <1>1, <1>2, <1>3, <1>4, <1>5, <1>6, <1>7

-----------------------------------------------------------------------------
(* The picture is that of m_enabled, which a new instance finds FALSE.      *)
ImageTellsEnabled ==
  \A i \in Instances : /\ image[i] = "on" <=> m_enabled[i]
                       /\ stage[i] = "none" => ~m_enabled[i]

Inv == TypeOK /\ HeldOnlyWhileShown /\ ImageTellsEnabled /\ ImageTellsLamp

(* The part of TypeOK that is about the camera. *)
CameraTypeOK ==
  /\ m_camera \in [Instances -> {"null", "open", "released"}]
  /\ holder \in 0 .. OtherApp /\ lit \in BOOLEAN
  /\ cut \in [Instances -> Cuts]
  /\ \A i \in Instances : m_camera[i] = "open" <=> holder = i

(* What an exception cuts short is one of Cuts. *)
LEMMA CutShortTypes ==
  ASSUME cut \in [Instances -> Cuts], NEW i \in Instances, NEW what \in Cuts,
         CutShort(i, what)
  PROVE  cut' \in [Instances -> Cuts] /\ cut'[i] = what
BY DEF CutShort

(* enableFlash(true) keeps these types: it opens a camera nobody has.       *)
LEMMA LightUpTypes ==
  ASSUME CameraTypeOK, NEW i \in Instances, LightUp(i)
  PROVE  CameraTypeOK'
<1>1. "no" \in Cuts /\ "lighting" \in Cuts
      BY DEF Cuts
<1>2. cut' \in [Instances -> Cuts]
      BY <1>1, CutShortTypes DEF CameraTypeOK, LightUp
<1> USE LifecycleAssumption DEF CameraTypeOK, Instances, Nobody, OtherApp
<1>3. CASE UNCHANGED <<holder, lit, m_camera>>
      BY <1>2, <1>3
<1>4. CASE ~UNCHANGED <<holder, lit, m_camera>>
  <2>1. /\ holder = 0 /\ holder' = i /\ lit' \in BOOLEAN
        /\ m_camera' = [m_camera EXCEPT ![i] = "open"]
        BY <1>4 DEF LightUp
  <2> QED  BY <1>2, <2>1
<1> QED  BY <1>3, <1>4

(* enableFlash(false) leaves the instance without a camera, unless it was   *)
(* cut short.                                                               *)
LEMMA PutOutTypes ==
  ASSUME CameraTypeOK, NEW i \in Instances, PutOut(i)
  PROVE  /\ CameraTypeOK'
         /\ holder' # i \/ cut'[i] = "putting out"
<1>1. "no" \in Cuts /\ "putting out" \in Cuts
      BY DEF Cuts
<1>2. cut' \in [Instances -> Cuts]
      BY <1>1, CutShortTypes DEF CameraTypeOK, PutOut
<1> USE LifecycleAssumption DEF CameraTypeOK, Instances, Nobody, OtherApp
<1>3. \/ /\ m_camera[i] = "open" /\ holder' = 0 /\ lit' = FALSE
         /\ m_camera' = [m_camera EXCEPT ![i] = "released"]
      \/ /\ lit' \in BOOLEAN /\ UNCHANGED <<m_camera, holder>>
         /\ m_camera[i] # "open" \/ CutShort(i, "putting out")
      BY DEF PutOut
<1>4. lit' \in BOOLEAN
      BY <1>3
<1>5. CASE m_camera' = m_camera /\ holder' = holder
  <2>1. m_camera[i] # "open" \/ CutShort(i, "putting out")
        BY <1>3, <1>5
  <2>2. holder' # i \/ cut'[i] = "putting out"
        BY <1>1, <1>5, <2>1, CutShortTypes
  <2> QED  BY <1>2, <1>4, <1>5, <2>2
<1>6. CASE ~(m_camera' = m_camera /\ holder' = holder)
  <2>1. /\ m_camera[i] = "open" /\ holder' = 0
        /\ m_camera' = [m_camera EXCEPT ![i] = "released"]
        BY <1>3, <1>6
  <2>2. m_camera' \in [Instances -> {"null", "open", "released"}]
        BY <2>1
  <2>3. \A j \in Instances : m_camera'[j] # "open" /\ holder' # j
        BY <2>1
  <2>4. holder' \in 0 .. OtherApp /\ holder' # i
        BY <2>1
  <2>5. CameraTypeOK'
        BY ONLY <1>2, <1>4, <2>2, <2>3, <2>4 DEF CameraTypeOK
  <2> QED  BY ONLY <2>4, <2>5
<1> QED  BY <1>5, <1>6

(* What a call of enableFlash for instance i may do to the camera. *)
Moves(i) ==
  \/ holder' = holder /\ (lit' = lit \/ holder = i)
  \/ holder = Nobody /\ holder' = i
  \/ holder = i /\ holder' = Nobody

(* What ImageTellsLamp says of one instance. *)
Tells(j) ==
  Shown(j) =>
    /\ image[j] = "on" => (holder = j /\ lit) \/ cut[j] = "lighting"
    /\ holder = j /\ lit => image[j] = "on" \/ cut[j] = "putting out"

(* A call for one instance changes nothing the others' buttons tell.        *)
LEMMA OthersTell ==
  ASSUME NEW i \in Instances, NEW j \in Instances \ {i}, Nobody \notin Instances,
         Moves(i), Tells(j), cut'[j] = cut[j], stage'[j] = stage[j],
         image'[j] = image[j]
  PROVE  Tells(j)'
<1>1. /\ holder = j => holder' = j /\ lit' = lit
      /\ holder' = j => holder = j
      BY DEF Moves
<1>2. (holder' = j /\ lit') <=> (holder = j /\ lit)
      BY <1>1
<1>3. Shown(j)' <=> Shown(j)
      BY DEF Shown
<1> QED  BY <1>2, <1>3 DEF Tells

(* A call that should light the lamp does, or is noted as cut short. *)
LEMMA LightUpEffect ==
  ASSUME CameraTypeOK, NEW i \in Instances, LightUp(i)
  PROVE  /\ Moves(i)
         /\ (holder' = i /\ lit') \/ cut'[i] = "lighting"
         /\ \A j \in Instances \ {i} : cut'[j] = cut[j]
<1>1. Moves(i)
      BY DEF LightUp, Moves
<1>2. (holder' = i /\ lit' = TRUE) \/ CutShort(i, "lighting")
      BY DEF LightUp
<1>3. \E what \in Cuts : CutShort(i, what)
      BY DEF LightUp, Cuts
<1>4. cut \in [Instances -> Cuts]
      BY DEF CameraTypeOK
<1> QED  BY ONLY <1>1, <1>2, <1>3, <1>4 DEF CutShort

(* A call that should put it out gives the camera back, or is noted so.     *)
LEMMA PutOutEffect ==
  ASSUME CameraTypeOK, NEW i \in Instances, PutOut(i)
  PROVE  /\ Moves(i)
         /\ holder' # i \/ cut'[i] = "putting out"
         /\ \A j \in Instances \ {i} : cut'[j] = cut[j]
<1>1. m_camera[i] = "open" <=> holder = i
      BY DEF CameraTypeOK
<1>2. Moves(i)
      BY <1>1 DEF PutOut, Moves
<1>3. \E what \in Cuts : CutShort(i, what)
      BY DEF PutOut, Cuts
<1>4. cut \in [Instances -> Cuts]
      BY DEF CameraTypeOK
<1>5. \A j \in Instances \ {i} : cut'[j] = cut[j]
      BY ONLY <1>3, <1>4 DEF CutShort
<1> QED  BY <1>2, <1>5, PutOutTypes

(* The invariant holds when the process starts. *)
LEMMA InitInv == Init => Inv
<1> SUFFICES ASSUME Init PROVE Inv
    OBVIOUS
<1> USE LifecycleAssumption DEF Init, LifecycleInit, Instances, Nobody, OtherApp
<1>1. LifecycleTypeOK
  <2>1. finishing \in [Instances -> BOOLEAN]  OBVIOUS
  <2> QED  BY <2>1 DEF LifecycleTypeOK, Stages
<1>2. m_enabled \in [Instances -> BOOLEAN] /\ cut \in [Instances -> Cuts]
      BY DEF Cuts
<1>3. lit \in BOOLEAN  OBVIOUS
<1>4. /\ m_camera \in [Instances -> {"null", "open", "released"}]
      /\ image \in [Instances -> {"on", "off"}]
      OBVIOUS
<1>5. \A i \in Instances : m_camera[i] # "open" /\ holder # i
      OBVIOUS
<1>6. holder \in 0 .. OtherApp
      OBVIOUS
<1>7. TypeOK  BY ONLY <1>1, <1>2, <1>3, <1>4, <1>5, <1>6 DEF TypeOK
<1> QED
    BY <1>7 DEF Inv, HeldOnlyWhileShown, ImageTellsEnabled, ImageTellsLamp, Shown

(* Each callback, each step of Android and of the other users of the camera *)
(* keeps the invariant.                                                     *)
LEMMA NextInv == Inv /\ [Next]_vars => Inv'
<1> SUFFICES ASSUME Inv, [Next]_vars PROVE Inv'
    OBVIOUS
<1>held. HeldOnlyWhileShown /\ Nobody \notin Instances
      BY DEF Inv, Nobody, Instances
<1>image. ImageTellsEnabled /\ ImageTellsLamp
      BY DEF Inv
<1> USE LifecycleAssumption DEF Inv, Instances, Nobody, OtherApp, Shown
<1> DEFINE Rest == HeldOnlyWhileShown' /\ ImageTellsEnabled' /\ ImageTellsLamp'
<1>1. CASE OnCreate
  <2>1. LifecycleTypeOK'  BY <1>1, LifecycleTypes DEF OnCreate, TypeOK
  <2>2. TypeOK'  BY <1>1, <2>1 DEF OnCreate, TypeOK, camera, button
  <2>3. /\ UNCHANGED <<camera, button>>
        /\ \A j \in Instances : \/ stage'[j] = stage[j]
                                \/ stage[j] = "none" /\ stage'[j] = "resumed"
    <3>1. UNCHANGED <<camera, button>> /\ \E source \in {kept, Nobody} : Create(source)
          BY <1>1 DEF OnCreate
    <3>2. /\ created \in 0 .. MaxInstances /\ created < MaxInstances
          /\ stage' = [stage EXCEPT ![created + 1] = "resumed"]
          BY <3>1 DEF Create, TypeOK, LifecycleTypeOK
    <3>3. stage \in [Instances -> Stages] /\ stage[created + 1] = "none"
          BY <3>2 DEF TypeOK, LifecycleTypeOK
    <3> DEFINE k == created + 1
    <3> HIDE DEF k
    <3>4. /\ stage \in [Instances -> Stages] /\ stage[k] = "none"
          /\ stage' = [stage EXCEPT ![k] = "resumed"]
          BY <3>2, <3>3 DEF k
    <3>5. \A j \in Instances : \/ stage'[j] = stage[j]
                               \/ stage[j] = "none" /\ stage'[j] = "resumed"
      <4>1. \A j \in Instances : j = k => stage[j] = "none" /\ stage'[j] = "resumed"
            BY ONLY <3>4
      <4>2. \A j \in Instances : j # k => stage'[j] = stage[j]
            BY ONLY <3>4
      <4> QED  BY ONLY <4>1, <4>2
    <3> QED  BY <3>1, <3>5
  <2>4. HeldOnlyWhileShown'  BY <2>3 DEF camera, button, HeldOnlyWhileShown
  <2>5. ImageTellsEnabled'  BY <2>3 DEF button, ImageTellsEnabled
  <2>6. ImageTellsLamp'
        BY <2>3 DEF camera, button, HeldOnlyWhileShown, ImageTellsEnabled,
           ImageTellsLamp
  <2> QED  BY <2>2, <2>4, <2>5, <2>6
<1>2. ASSUME NEW i \in Instances, OnClick(i)  PROVE Inv'
  <2>1. LifecycleTypeOK'  BY <1>2, LifecycleTypes DEF OnClick, TypeOK
  <2>2. CameraTypeOK'
        BY <1>2, LightUpTypes, PutOutTypes DEF OnClick, CameraTypeOK, TypeOK
  <2>3. m_enabled' \in [Instances -> BOOLEAN]  BY <1>2 DEF OnClick, TypeOK
  <2>4. image' \in [Instances -> {"on", "off"}]  BY <1>2 DEF OnClick, TypeOK
  <2>5. TypeOK'  BY <2>1, <2>2, <2>3, <2>4 DEF CameraTypeOK, TypeOK
  <2>6. /\ UNCHANGED stage /\ stage[i] = "resumed"
        /\ image'[i] = "on" <=> m_enabled'[i]
        /\ \A j \in Instances \ {i} : image'[j] = image[j] /\ m_enabled'[j] = m_enabled[j]
        BY <1>2 DEF OnClick, lifecycle, TypeOK
  <2>7. CameraTypeOK  BY DEF CameraTypeOK, TypeOK
  <2>8. /\ Moves(i)
        /\ m_enabled'[i] => (holder' = i /\ lit') \/ cut'[i] = "lighting"
        /\ ~m_enabled'[i] => holder' # i \/ cut'[i] = "putting out"
        /\ \A j \in Instances \ {i} : cut'[j] = cut[j]
        BY <1>2, <2>7, LightUpEffect, PutOutEffect DEF OnClick
  <2>9. HeldOnlyWhileShown'
        BY ONLY <1>held, <2>6, <2>8 DEF Moves, HeldOnlyWhileShown, Shown
  <2>10. ImageTellsEnabled'  BY <2>6 DEF ImageTellsEnabled
  <2>11. ImageTellsLamp'
    <3>1. Tells(i)'
          BY ONLY <2>6, <2>8 DEF Tells
    <3>2. \A j \in Instances \ {i} : Tells(j)'
          BY <1>held, <1>image, <2>6, <2>8, OthersTell DEF Tells, ImageTellsLamp
    <3> QED  BY ONLY <3>1, <3>2 DEF Tells, ImageTellsLamp
  <2> QED  BY <2>5, <2>9, <2>10, <2>11
<1>3. ASSUME NEW i \in Instances, OnStop(i) \/ OnDestroy(i)  PROVE Inv'
  <2>1. LifecycleTypeOK'  BY <1>3, LifecycleTypes DEF OnStop, OnDestroy, TypeOK
  <2>2. CameraTypeOK' /\ (holder' # i \/ cut'[i] = "putting out")
        BY <1>3, PutOutTypes DEF OnStop, OnDestroy, CameraTypeOK, TypeOK
  <2>3. TypeOK'
        BY <1>3, <2>1, <2>2 DEF OnStop, OnDestroy, CameraTypeOK, TypeOK, button
  <2>4. /\ ~Shown(i)' /\ stage'[i] # "none" /\ UNCHANGED button
        /\ \A j \in Instances \ {i} : stage'[j] = stage[j]
        BY <1>3 DEF OnStop, OnDestroy, Stop, Destroy, MoveTo, TypeOK, LifecycleTypeOK
  <2>5. Moves(i) /\ \A j \in Instances \ {i} : cut'[j] = cut[j]
        BY <1>3, PutOutEffect DEF OnStop, OnDestroy, CameraTypeOK, TypeOK
  <2>6. HeldOnlyWhileShown'
        BY ONLY <1>held, <2>2, <2>4, <2>5 DEF Moves, button, HeldOnlyWhileShown, Shown
  <2>7. ImageTellsEnabled'
        BY <2>4 DEF button, ImageTellsEnabled
  <2>8. ImageTellsLamp'
    <3>1. Tells(i)'
          BY ONLY <2>4 DEF Tells
    <3>2. \A j \in Instances \ {i} : Tells(j)'
          BY <1>held, <1>image, <2>4, <2>5, OthersTell DEF Tells, ImageTellsLamp, button
    <3> QED  BY ONLY <3>1, <3>2 DEF Tells, ImageTellsLamp
  <2> QED  BY <2>3, <2>6, <2>7, <2>8
<1>4. ASSUME NEW i \in Instances, OnRestart(i)  PROVE Inv'
  <2>1. LifecycleTypeOK'  BY <1>4, LifecycleTypes DEF OnRestart, TypeOK
  <2>2. CameraTypeOK'
        BY <1>4, LightUpTypes DEF OnRestart, CameraTypeOK, TypeOK, camera
  <2>3. TypeOK'  BY <1>4, <2>1, <2>2 DEF OnRestart, CameraTypeOK, TypeOK, button
  <2>4. /\ UNCHANGED button /\ stage[i] = "stopped" /\ stage'[i] = "resumed"
        /\ \A j \in Instances \ {i} : stage'[j] = stage[j]
        BY <1>4 DEF OnRestart, Restart, MoveTo, TypeOK, LifecycleTypeOK
  <2>5. CameraTypeOK  BY DEF CameraTypeOK, TypeOK
  <2>6. ASSUME m_enabled[i]  PROVE HeldOnlyWhileShown' /\ ImageTellsLamp'
    <3>1. /\ Moves(i)
          /\ (holder' = i /\ lit') \/ cut'[i] = "lighting"
          /\ \A j \in Instances \ {i} : cut'[j] = cut[j]
          BY <1>4, <2>5, <2>6, LightUpEffect DEF OnRestart
    <3>2. HeldOnlyWhileShown'
          BY ONLY <1>held, <2>4, <2>6, <3>1
             DEF Moves, button, HeldOnlyWhileShown, Shown
    <3>3. ImageTellsLamp'
      <4>1. Tells(i)'
            BY ONLY <1>image, <2>4, <2>6, <3>1 DEF Tells, button, ImageTellsEnabled
      <4>2. \A j \in Instances \ {i} : Tells(j)'
            BY <1>held, <1>image, <2>4, <3>1, OthersTell
               DEF Tells, ImageTellsLamp, button
      <4> QED  BY ONLY <4>1, <4>2 DEF Tells, ImageTellsLamp
    <3> QED  BY <3>2, <3>3
  <2>7. ASSUME ~m_enabled[i]  PROVE HeldOnlyWhileShown' /\ ImageTellsLamp'
    <3>1. UNCHANGED camera  BY <1>4, <2>7 DEF OnRestart
    <3>2. HeldOnlyWhileShown'
          BY ONLY <1>held, <2>4, <2>7, <3>1
             DEF camera, button, HeldOnlyWhileShown, Shown
    <3>3. ImageTellsLamp'
          BY ONLY <1>held, <1>image, <2>4, <2>7, <3>1
             DEF camera, button, HeldOnlyWhileShown, ImageTellsEnabled,
                 ImageTellsLamp, Shown
    <3> QED  BY <3>2, <3>3
  <2>8. ImageTellsEnabled'  BY <2>4 DEF button, ImageTellsEnabled
  <2> QED  BY <2>3, <2>6, <2>7, <2>8
<1>5. ASSUME NEW i \in Instances, NoCallback(i)  PROVE Inv'
  <2>1. LifecycleTypeOK'  BY <1>5, LifecycleTypes DEF NoCallback, TypeOK
  <2>2. TypeOK'  BY <1>5, <2>1 DEF NoCallback, TypeOK, button, camera
  <2>3. UNCHANGED <<holder, lit, cut, image, m_enabled>>
        BY <1>5 DEF NoCallback, camera, button
  <2>4. /\ stage \in [Instances -> Stages]
        /\ \/ UNCHANGED stage
           \/ /\ stage[i] \in {"resumed", "paused"}
              /\ \E to \in {"resumed", "paused"} : stage' = [stage EXCEPT ![i] = to]
        BY <1>5 DEF NoCallback, Pause, Resume, Finish, MoveTo, TypeOK, LifecycleTypeOK
  <2>5. \A j \in Instances : /\ Shown(j)' <=> Shown(j)
                             /\ stage'[j] = "none" => stage[j] = "none"
        BY ONLY <2>4 DEF Shown
  <2>6. HeldOnlyWhileShown'
        BY ONLY <1>held, <2>3, <2>5 DEF HeldOnlyWhileShown
  <2>7. ImageTellsEnabled'
        BY ONLY <1>image, <2>3, <2>5 DEF ImageTellsEnabled
  <2>8. ImageTellsLamp'
        BY ONLY <1>image, <2>3, <2>5 DEF ImageTellsLamp
  <2> QED  BY <2>2, <2>6, <2>7, <2>8
<1>6. CASE Killed
  <2>1. LifecycleTypeOK'  BY <1>6, LifecycleTypes DEF Killed, TypeOK
  <2>2. lit' \in BOOLEAN  BY <1>6 DEF Killed
  <2>3. holder' \in 0 .. OtherApp /\ \A j \in Instances : holder' # j
        BY <1>6 DEF Killed
  <2>4. TypeOK'  BY <1>6, <2>1, <2>2, <2>3 DEF Killed, TypeOK, button
  <2>5. /\ \A j \in Instances : ~Shown(j)' /\ (stage'[j] = "none" <=> stage[j] = "none")
        /\ UNCHANGED button
        BY <1>6 DEF Killed, Kill, TypeOK, LifecycleTypeOK
  <2>6. Rest
        BY <2>3, <2>5 DEF button, HeldOnlyWhileShown, ImageTellsEnabled,
           ImageTellsLamp
  <2> QED  BY <2>4, <2>6
<1>7. CASE OthersUse
  <2>1. LifecycleTypeOK'  BY <1>7, LifecycleTypes DEF OthersUse, TypeOK
  <2>2. TypeOK'  BY <1>7, <2>1 DEF OthersUse, TypeOK, button
  <2>3. /\ UNCHANGED <<stage, cut, lit, image, m_enabled>>
        /\ \A j \in Instances : holder # j /\ holder' # j
        BY <1>7 DEF OthersUse, button, lifecycle
  <2>4. Rest
        BY <2>3 DEF HeldOnlyWhileShown, ImageTellsEnabled, ImageTellsLamp
  <2> QED  BY <2>2, <2>4
<1>8. ASSUME NEW i \in Instances, Collected(i)  PROVE Inv'
  <2>1. LifecycleTypeOK'  BY <1>8, LifecycleTypes DEF Collected, TypeOK
  <2>2. lit' \in BOOLEAN  BY <1>8 DEF Collected
  <2>3. holder = i /\ holder' = Nobody  BY <1>8 DEF Collected, TypeOK
  <2>4. TypeOK'  BY <1>8, <2>1, <2>2, <2>3 DEF Collected, TypeOK, button
  <2>5. /\ UNCHANGED <<stage, cut, image, m_enabled>> /\ ~Shown(i)
        /\ \A j \in Instances : holder' # j /\ (holder = j => j = i)
        BY <1>8, <2>3 DEF Collected, button, lifecycle
  <2>6. Rest
        BY <2>5 DEF HeldOnlyWhileShown, ImageTellsEnabled, ImageTellsLamp
  <2> QED  BY <2>4, <2>6
<1>9. CASE UNCHANGED vars
      BY <1>9 DEF vars, lifecycle, camera, button, TypeOK, LifecycleTypeOK,
         HeldOnlyWhileShown, ImageTellsEnabled, ImageTellsLamp
<1> QED
    BY <1>1, <1>2, <1>3, <1>4, <1>5, <1>6, <1>7, <1>8, <1>9
       DEF Next, Callback, AllOver

(* The invariant holds in every state. *)
LEMMA SpecInv == Spec => []Inv
BY InitInv, NextInv, PTL DEF Spec

(* The variables keep their types, and no camera is lost by dropping the    *)
(* field that holds it.                                                     *)
THEOREM TypeCorrect == Spec => []TypeOK
<1>1. Inv => TypeOK  BY DEF Inv
<1> QED  BY <1>1, SpecInv, PTL

(* The program has the camera only while an instance with its lamp enabled  *)
(* is shown, or after a stopPreview that threw.                             *)
THEOREM HeldOnlyWhileShownHolds == Spec => []HeldOnlyWhileShown
<1>1. Inv => HeldOnlyWhileShown  BY DEF Inv
<1> QED  BY <1>1, SpecInv, PTL

(* The button tells the state of the lamp, but for the direction in which   *)
(* an exception cut the last enableFlash short.                             *)
THEOREM ImageTellsLampHolds == Spec => []ImageTellsLamp
<1>1. Inv => ImageTellsLamp  BY DEF Inv
<1> QED  BY <1>1, SpecInv, PTL
=============================================================================

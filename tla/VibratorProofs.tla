--------------------------- MODULE VibratorProofs ---------------------------
(* Safety of Vibrator, for any number of instances. *)
EXTENDS Vibrator, TLAPS

(* The stages of Android's callbacks stay what LifecycleTypeOK says. *)
LEMMA LifecycleTypes ==
  ASSUME LifecycleTypeOK,
         \/ \E source \in {kept, Nobody} : Create(source)
         \/ \E i \in Instances :
              Pause(i) \/ Resume(i) \/ Finish(i) \/ Stop(i) \/ Restart(i) \/ Destroy(i)
         \/ Kill
         \/ UNCHANGED lifecycle
  PROVE  LifecycleTypeOK'
<1> USE LifecycleAssumption DEF Instances, Nobody, Stages, LifecycleTypeOK, MoveTo
<1>1. CASE \E source \in {kept, Nobody} : Create(source)  BY <1>1 DEF Create
<1>2. ASSUME NEW i \in Instances, Pause(i) \/ Resume(i)  PROVE LifecycleTypeOK'
      BY <1>2 DEF Pause, Resume
<1>3. ASSUME NEW i \in Instances, Finish(i)  PROVE LifecycleTypeOK'
  <2>1. finishing' \in [Instances -> BOOLEAN]  BY <1>3 DEF Finish
  <2> QED  BY <1>3, <2>1 DEF Finish
<1>4. ASSUME NEW i \in Instances, Stop(i)  PROVE LifecycleTypeOK'
      BY <1>4 DEF Stop
<1>5. ASSUME NEW i \in Instances, Restart(i) \/ Destroy(i)  PROVE LifecycleTypeOK'
      BY <1>5 DEF Restart, Destroy
<1>6. CASE Kill  BY <1>6 DEF Kill
<1>7. CASE UNCHANGED lifecycle  BY <1>7 DEF lifecycle
<1> QED  BY <1>1, <1>2, <1>3, <1>4, <1>5, <1>6, <1>7

-----------------------------------------------------------------------------
(* A new instance finds its fields as they are set at the start. *)
Fresh == \A i \in Instances : i > created => ~m_enabled[i] /\ ~toggle[i]

Inv ==
  /\ TypeOK /\ VibratesOnlyWhileShown /\ EnabledVibrates
  /\ ToggleTellsEnabled /\ Fresh

(* The invariant holds when the process starts. *)
LEMMA InitInv == Init => Inv
<1> SUFFICES ASSUME Init PROVE Inv
    OBVIOUS
<1> USE LifecycleAssumption DEF Init, LifecycleInit, Instances, Nobody
<1>1. LifecycleTypeOK
  <2>1. finishing \in [Instances -> BOOLEAN]  OBVIOUS
  <2> QED  BY <2>1 DEF LifecycleTypeOK, Stages
<1>2. m_enabled \in [Instances -> BOOLEAN] /\ toggle \in [Instances -> BOOLEAN]
      OBVIOUS
<1>3. TypeOK  BY <1>1, <1>2 DEF TypeOK
<1> QED
    BY <1>3 DEF Inv, VibratesOnlyWhileShown, EnabledVibrates, ToggleTellsEnabled,
       Fresh, Shown

(* The part of TypeOK that is about the vibrator service. *)
ServiceTypeOK ==
  /\ repeating \subseteq Instances /\ silenced \subseteq Instances
  /\ shot \in 0 .. created

(* Starting a pattern and cancelling keep the service's part of TypeOK.     *)
LEMMA ServiceTypes ==
  ASSUME ServiceTypeOK, created \in Nat, created' = created,
         NEW i \in Instances, Vibro(i) \/ Cancel(i)
  PROVE  ServiceTypeOK'
BY DEF ServiceTypeOK, Vibro, Cancel, Nobody

(* What each callback leaves of the fields and the service keeps the        *)
(* invariant.                                                               *)
LEMMA NextInv == Inv /\ [Next]_vars => Inv'
<1> SUFFICES ASSUME Inv, [Next]_vars PROVE Inv'
    OBVIOUS
<1> USE LifecycleAssumption DEF Inv, Instances, Nobody, TypeOK, Shown
<1> DEFINE Rest == /\ VibratesOnlyWhileShown' /\ EnabledVibrates'
                   /\ ToggleTellsEnabled' /\ Fresh'
<1>1. CASE OnCreate
  <2>1. LifecycleTypeOK'  BY <1>1, LifecycleTypes DEF OnCreate
  <2>2. PICK source \in {kept, Nobody} : Create(source)  BY <1>1 DEF OnCreate
  <2>3. /\ created + 1 \in Instances /\ created' = created + 1
        /\ stage[created + 1] = "none"
        /\ stage' = [stage EXCEPT ![created + 1] = "resumed"]
        BY <2>2 DEF Create, LifecycleTypeOK
  <2>4. /\ toggle' \in [Instances -> BOOLEAN]
        /\ restoredOn' \subseteq 1 .. created'
        /\ \A i \in Instances \ {created + 1} :
             /\ toggle'[i] <=> toggle[i]
             /\ i \in restoredOn' <=> i \in restoredOn
        /\ toggle'[created + 1] <=> created + 1 \in restoredOn'
    <3>1. CASE UNCHANGED <<toggle, restoredOn>>
          BY <2>3, <3>1 DEF Fresh, LifecycleTypeOK
    <3>2. CASE /\ toggle' = [toggle EXCEPT ![created + 1] = TRUE]
               /\ restoredOn' = restoredOn \cup {created + 1}
      <4>1. toggle' \in [Instances -> BOOLEAN]  BY <3>2
      <4>2. toggle'[created + 1]  BY <3>2, <2>3
      <4> QED  BY <2>3, <3>2, <4>1, <4>2 DEF LifecycleTypeOK
    <3> QED  BY <1>1, <3>1, <3>2 DEF OnCreate
  <2>5. TypeOK'  BY <1>1, <2>1, <2>3, <2>4 DEF OnCreate, LifecycleTypeOK
  <2>6. Rest
        BY <1>1, <2>3, <2>4 DEF OnCreate, VibratesOnlyWhileShown, EnabledVibrates,
           ToggleTellsEnabled, Fresh, LifecycleTypeOK
  <2> QED  BY <2>5, <2>6
<1>2. ASSUME NEW i \in Instances, OnClick(i)  PROVE Inv'
  <2>1. LifecycleTypeOK'  BY <1>2, LifecycleTypes DEF OnClick
  <2>2. m_enabled' \in [Instances -> BOOLEAN] /\ toggle' \in [Instances -> BOOLEAN]
        BY <1>2 DEF OnClick
  <2>3. ServiceTypeOK'
        BY <1>2, ServiceTypes DEF OnClick, lifecycle, LifecycleTypeOK, ServiceTypeOK
  <2>4. TypeOK'
        BY <1>2, <2>1, <2>2, <2>3 DEF OnClick, lifecycle, ServiceTypeOK
  <2>5. i \in 1 .. created  BY <1>2 DEF OnClick, LifecycleTypeOK
  <2>6. VibratesOnlyWhileShown' /\ EnabledVibrates'
        BY <1>2 DEF OnClick, Cancel, Vibro, lifecycle, VibratesOnlyWhileShown,
           EnabledVibrates, LifecycleTypeOK
  <2>7. ToggleTellsEnabled' /\ Fresh'
        BY <1>2, <2>5 DEF OnClick, lifecycle, ToggleTellsEnabled, Fresh, LifecycleTypeOK
  <2> QED  BY <2>4, <2>6, <2>7
<1>3. ASSUME NEW i \in Instances, OnStop(i) \/ OnDestroy(i)  PROVE Inv'
  <2>1. LifecycleTypeOK'  BY <1>3, LifecycleTypes DEF OnStop, OnDestroy
  <2>2. created \in Nat /\ created' = created
        BY <1>3 DEF OnStop, OnDestroy, Stop, Destroy, MoveTo, LifecycleTypeOK
  <2>3. ServiceTypeOK' /\ UNCHANGED <<hasVibrator, view>>
        BY <1>3, <2>2, ServiceTypes DEF OnStop, OnDestroy, ServiceTypeOK
  <2>4. \A j \in Instances : j \in repeating' => j \in repeating
        BY <1>3 DEF OnStop, OnDestroy, Cancel
  <2>5. TypeOK'  BY <2>1, <2>2, <2>3, <2>4 DEF ServiceTypeOK, view
  <2>6. /\ ~Shown(i)'
        /\ \A j \in Instances \ {i} : stage'[j] = stage[j]
        BY <1>3 DEF OnStop, OnDestroy, Stop, Destroy, MoveTo, LifecycleTypeOK
  <2>7. Cancel(i)  BY <1>3 DEF OnStop, OnDestroy
  <2>8. VibratesOnlyWhileShown'
    <3>1. \A j \in repeating' : Shown(j)' /\ m_enabled'[j]
          BY <2>3, <2>6, <2>7 DEF Cancel, VibratesOnlyWhileShown, view
    <3>2. shot' # Nobody => Shown(shot)'
          BY <2>2, <2>6, <2>7 DEF Cancel, VibratesOnlyWhileShown, LifecycleTypeOK
    <3> QED  BY <3>1, <3>2 DEF VibratesOnlyWhileShown
  <2>9. EnabledVibrates'
        BY <2>3, <2>6, <2>7 DEF Cancel, EnabledVibrates, view
  <2>10. ToggleTellsEnabled' /\ Fresh'
        BY <1>3 DEF OnStop, OnDestroy, Stop, Destroy, MoveTo, Cancel, view,
           ToggleTellsEnabled, Fresh
  <2> QED  BY <2>5, <2>8, <2>9, <2>10
<1>4. ASSUME NEW i \in Instances, OnRestart(i)  PROVE Inv'
  <2>1. LifecycleTypeOK'  BY <1>4, LifecycleTypes DEF OnRestart
  <2>2. TypeOK'
        BY <1>4, <2>1 DEF OnRestart, Restart, MoveTo, Vibro, view, service,
           LifecycleTypeOK
  <2>3. /\ Shown(i)' /\ UNCHANGED <<created, view>>
        /\ \A j \in Instances : Shown(j) => Shown(j)'
        /\ \A j \in Instances \ {i} : stage'[j] = stage[j]
        BY <1>4 DEF OnRestart, Restart, MoveTo, LifecycleTypeOK
  <2>4. ~Shown(i)  BY <1>4 DEF OnRestart, Restart, MoveTo
  <2>5. (m_enabled[i] /\ Vibro(i)) \/ (~m_enabled[i] /\ UNCHANGED service)
        BY <1>4 DEF OnRestart
  <2>6. VibratesOnlyWhileShown'
    <3>1. CASE Vibro(i) /\ m_enabled[i]
          BY <2>3, <3>1 DEF Vibro, VibratesOnlyWhileShown, view
    <3>2. CASE UNCHANGED service
      <4>1. shot # Nobody => shot \in Instances  BY DEF LifecycleTypeOK
      <4> QED  BY <2>3, <3>2, <4>1 DEF VibratesOnlyWhileShown, service, view
    <3> QED  BY <2>5, <3>1, <3>2
  <2>7. EnabledVibrates'
        BY <2>3, <2>4, <2>5 DEF Vibro, EnabledVibrates, service, view
  <2>8. ToggleTellsEnabled' /\ Fresh'
        BY <1>4 DEF OnRestart, Restart, MoveTo, Vibro, view, service,
           ToggleTellsEnabled, Fresh
  <2> QED  BY <2>2, <2>6, <2>7, <2>8
<1>5. ASSUME NEW i \in Instances, NoCallback(i)  PROVE Inv'
  <2>1. LifecycleTypeOK'  BY <1>5, LifecycleTypes DEF NoCallback
  <2>2. TypeOK'
        BY <1>5, <2>1 DEF NoCallback, Pause, Resume, Finish, MoveTo, view, service,
           LifecycleTypeOK
  <2>3. Rest
        BY <1>5 DEF NoCallback, Pause, Resume, Finish, MoveTo, view, service,
           VibratesOnlyWhileShown, EnabledVibrates, ToggleTellsEnabled, Fresh,
           LifecycleTypeOK
  <2> QED  BY <2>2, <2>3
<1>6. CASE ShotEnds \/ ScreenOff
  <2>1. LifecycleTypeOK'  BY <1>6, LifecycleTypes DEF ShotEnds, ScreenOff
  <2>2. created \in Nat  BY DEF LifecycleTypeOK
  <2>3. created' = created /\ shot' = 0
        BY <1>6 DEF ShotEnds, ScreenOff, lifecycle
  <2>4. repeating' \subseteq Instances /\ silenced' \subseteq Instances
        BY <1>6 DEF ShotEnds, ScreenOff
  <2>5. ServiceTypeOK'  BY <2>2, <2>3, <2>4 DEF ServiceTypeOK
  <2>6. TypeOK'
        BY <1>6, <2>1, <2>5 DEF ShotEnds, ScreenOff, view, lifecycle, ServiceTypeOK
  <2>7. Rest
        BY <1>6 DEF ShotEnds, ScreenOff, view, lifecycle, VibratesOnlyWhileShown,
           EnabledVibrates, ToggleTellsEnabled, Fresh
  <2> QED  BY <2>6, <2>7
<1>7. CASE Killed
  <2>1. LifecycleTypeOK'  BY <1>7, LifecycleTypes DEF Killed
  <2>2. TypeOK'  BY <1>7, <2>1 DEF Killed, Kill, view, LifecycleTypeOK
  <2>3. Rest
        BY <1>7 DEF Killed, Kill, view, VibratesOnlyWhileShown, EnabledVibrates,
           ToggleTellsEnabled, Fresh, LifecycleTypeOK
  <2> QED  BY <2>2, <2>3
<1>8. CASE UNCHANGED vars
      BY <1>8 DEF vars, lifecycle, service, view, LifecycleTypeOK,
         VibratesOnlyWhileShown, EnabledVibrates, ToggleTellsEnabled, Fresh
<1> QED
    BY <1>1, <1>2, <1>3, <1>4, <1>5, <1>6, <1>7, <1>8 DEF Next, Callback, AllOver

(* The invariant holds in every state. *)
LEMMA SpecInv == Spec => []Inv
BY InitInv, NextInv, PTL DEF Spec

(* The variables keep their types; without a vibrator nothing is enabled.   *)
THEOREM TypeCorrect == Spec => []TypeOK
<1>1. Inv => TypeOK  BY DEF Inv
<1> QED  BY <1>1, SpecInv, PTL

(* The device vibrates only for an instance that is shown.                  *)
THEOREM VibratesOnlyWhileShownHolds == Spec => []VibratesOnlyWhileShown
<1>1. Inv => VibratesOnlyWhileShown  BY DEF Inv
<1> QED  BY <1>1, SpecInv, PTL

(* An instance that is shown and enabled vibrates unless the screen went    *)
(* off.                                                                     *)
THEOREM EnabledVibratesHolds == Spec => []EnabledVibrates
<1>1. Inv => EnabledVibrates  BY DEF Inv
<1> QED  BY <1>1, SpecInv, PTL

(* The button shows m_enabled, or always its opposite.                      *)
THEOREM ToggleTellsEnabledHolds == Spec => []ToggleTellsEnabled
<1>1. Inv => ToggleTellsEnabled  BY DEF Inv
<1> QED  BY <1>1, SpecInv, PTL
=============================================================================

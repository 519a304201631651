-------------------------- MODULE LunixModuleProofs -------------------------
(***************************************************************************)
(* Proofs about LunixModule, for any number of sensors, terminals, open    *)
(* files and loads.                                                        *)
(***************************************************************************)
EXTENDS LunixModule, TLAPS

\* What is registered follows from how far insmod or rmmod has come; only a
\* failed load may leave the line discipline behind.
RegisteredInv ==
    /\ cdev => pc \in {"live", "rm_cdev"}
    /\ region => pc \in {"cdev", "live", "rm_cdev", "rm_region", "undo_region"}
    /\ pc \in {"sensors", "ldisc", "rm_sensors"} => ~ ldisc
    /\ ldisc /\ pc \in {"undo_sensors", "absent"} => failed
    /\ Undoing => failed

\* Files are open while the module is live; terminals use a discipline that is
\* registered, one at a time, and none while the module is being removed.
UsersInv ==
    /\ opened > 0 => pc = "live"
    /\ ~ ldisc => opening = {} /\ attached = {}
    /\ ldisc => \/ available = 1 /\ attached = {}
                \/ available = 0 /\ \E t \in TTYs : attached = {t}
    /\ Removing => opening = {} /\ attached = {}

\* The sensors that have their pages: those up to si_done while they are being
\* initialised or destroyed, and all of them in between.  A sensor that failed
\* may have pages of its own.
Upto(n) == (0 .. n) \X Msrs

PagesInv ==
    /\ pc = "absent" => pages = {}
    /\ pc = "sensors" => si_done < SensorCnt - 1 /\ pages = Upto(si_done)
    /\ pc \in {"ldisc", "region", "cdev", "undo_region", "undo_ldisc"} =>
         si_done = SensorCnt - 1
    /\ pc \in {"ldisc", "region", "cdev", "live", "rm_cdev", "rm_region",
               "rm_ldisc", "undo_region", "undo_ldisc"} => pages = Sensors \X Msrs
    /\ pc = "rm_sensors" => pages \subseteq Upto(si_done)
    /\ pc = "undo_sensors" =>
         \E s \in Sensors : pages \subseteq Upto(si_done) \cup PagesOf(s)

ModuleInv == TypeOK /\ RegisteredInv /\ UsersInv /\ PagesInv

-----------------------------------------------------------------------------
(* Pages *)

\* One more sensor, and one less.
LEMMA UptoMore ==
    ASSUME NEW n \in Int, n >= -1
    PROVE  Upto(n) \cup PagesOf(n + 1) = Upto(n + 1)
<1>1. 0 .. n + 1 = (0 .. n) \cup {n + 1}
  OBVIOUS
<1> QED BY <1>1 DEF Upto, PagesOf

LEMMA UptoLess ==
    ASSUME NEW n \in Nat, NEW S, NEW s
    PROVE  /\ S \subseteq Upto(n) => S \ PagesOf(n) \subseteq Upto(n - 1)
           /\ S \subseteq Upto(n) \cup PagesOf(s) =>
                S \ PagesOf(n) \subseteq Upto(n - 1) \cup PagesOf(s)
<1>1. 0 .. n = (0 .. n - 1) \cup {n}
  OBVIOUS
<1>2. Upto(n) \subseteq Upto(n - 1) \cup PagesOf(n)
  BY <1>1 DEF Upto, PagesOf
<1> QED BY <1>2

LEMMA UptoAll == Upto(SensorCnt - 1) = Sensors \X Msrs
BY DEF Upto, Sensors

LEMMA UptoNone == ASSUME NEW n \in Int, n < 0 PROVE Upto(n) = {}
<1>1. 0 .. n = {}
  OBVIOUS
<1> QED BY <1>1 DEF Upto

\* The pages of a sensor, or some of them, are pages of the sensors.
LEMMA PagesIn ==
    ASSUME NEW s \in Sensors
    PROVE  /\ PagesOf(s) \subseteq Sensors \X Msrs
           /\ \A n \in 0 .. N_LUNIX_MSR - 1 : {s} \X (0 .. n - 1) \subseteq PagesOf(s)
<1>1. \A n \in 0 .. N_LUNIX_MSR - 1 : 0 .. n - 1 \subseteq Msrs
  BY DEF Msrs, N_LUNIX_MSR
<1> QED BY <1>1 DEF PagesOf

-----------------------------------------------------------------------------
(* The invariant *)

LEMMA InitModule == Init => ModuleInv
<1> SUFFICES ASSUME Init PROVE ModuleInv
  OBVIOUS
<1>1. TypeOK
  <2>1. -1 \in -1 .. SensorCnt - 1 /\ 0 \in 0 .. MaxOpen /\ 0 \in 0 .. MaxLoads
    BY ModuleAssumption
  <2>2. si_done \in -1 .. SensorCnt - 1 /\ opened \in 0 .. MaxOpen /\ loads \in 0 .. MaxLoads
    BY <2>1 DEF Init
  <2>3. /\ pages \subseteq Sensors \X Msrs /\ leaked \subseteq Sensors \X Msrs
        /\ opening \subseteq TTYs /\ attached \subseteq TTYs
    BY DEF Init
  <2>4. /\ ldisc \in BOOLEAN /\ region \in BOOLEAN /\ cdev \in BOOLEAN
        /\ failed \in BOOLEAN
    BY DEF Init
  <2>5. available \in {0, 1} /\ pc = "absent"
    BY DEF Init
  <2> QED BY <2>2, <2>3, <2>4, <2>5 DEF TypeOK
<1>2. RegisteredInv /\ UsersInv /\ PagesInv
  BY DEF Init, RegisteredInv, UsersInv, PagesInv, Undoing, Removing
<1> QED BY <1>1, <1>2 DEF ModuleInv

\* The sensors are initialised one after another.
LEMMA SensorInitInv == ModuleInv /\ SensorInit => ModuleInv'
<1> SUFFICES ASSUME ModuleInv, SensorInit PROVE ModuleInv'
  OBVIOUS
<1> DEFINE s == si_done + 1
<1>0. /\ pc = "sensors" /\ si_done \in Int /\ si_done >= -1 /\ si_done < SensorCnt - 1
      /\ s \in Sensors /\ pages = Upto(si_done) /\ pages \subseteq Sensors \X Msrs
      /\ SensorCnt \in Nat
      /\ UNCHANGED <<ldisc, available, region, cdev, opening, attached, opened,
                     leaked, loads>>
  BY ModuleAssumption
     DEF SensorInit, ModuleInv, TypeOK, PagesInv, kernel, users, Sensors
<1> HIDE DEF s
<1>1. CASE /\ pages' = pages \cup PagesOf(s) /\ si_done' = s
           /\ pc' = (IF s < SensorCnt - 1 THEN "sensors" ELSE "ldisc")
           /\ failed' = failed
  <2>1. pages' = Upto(s)
    BY <1>0, <1>1, UptoMore DEF s
  <2>2. pages' \subseteq Sensors \X Msrs
    BY <1>0, <1>1, PagesIn
  <2>3. s \in Int /\ s >= 0 /\ s <= SensorCnt - 1
    BY <1>0 DEF s
  <2>4. TypeOK'
    BY <1>0, <1>1, <2>2, <2>3 DEF ModuleInv, TypeOK, Loading, Undoing, Removing
  <2>5. RegisteredInv' /\ UsersInv'
    BY <1>0, <1>1 DEF ModuleInv, RegisteredInv, UsersInv, Undoing, Removing
  <2>6. PagesInv'
    <3>1. CASE s < SensorCnt - 1
      BY <1>1, <2>1, <3>1 DEF PagesInv
    <3>2. CASE ~ (s < SensorCnt - 1)
      <4>1. s = SensorCnt - 1
        BY <1>0, <2>3, <3>2
      <4>2. pages' = Sensors \X Msrs
        BY <2>1, <4>1, UptoAll
      <4> QED BY <1>1, <3>2, <4>1, <4>2 DEF PagesInv, Sensors
    <3> QED BY <3>1, <3>2
  <2> QED BY <2>4, <2>5, <2>6 DEF ModuleInv
<1>2. CASE /\ \E n \in 0 .. N_LUNIX_MSR - 1 :
                pages' = pages \cup ({s} \X (0 .. n - 1))
           /\ pc' = "undo_sensors" /\ failed' = TRUE /\ si_done' = si_done
  <2>1. pages' \subseteq Upto(si_done) \cup PagesOf(s)
    BY <1>0, <1>2, PagesIn
  <2>2. pages' \subseteq Sensors \X Msrs
    BY <1>0, <1>2, PagesIn
  <2>3. TypeOK'
    BY <1>0, <1>2, <2>2 DEF ModuleInv, TypeOK, Loading, Undoing, Removing, Sensors
  <2>4. RegisteredInv' /\ UsersInv'
    BY <1>0, <1>2 DEF ModuleInv, RegisteredInv, UsersInv, Undoing, Removing
  <2>5. PagesInv'
    BY <1>0, <1>2, <2>1 DEF PagesInv, Upto, PagesOf, Sensors, Msrs, N_LUNIX_MSR
  <2> QED BY <2>3, <2>4, <2>5 DEF ModuleInv
<1> QED BY <1>1, <1>2 DEF SensorInit, s

\* The other steps of insmod.
LEMMA LoadInv ==
    ModuleInv /\ (Insmod \/ LdiscInit \/ RegisterRegion \/ AddCdev) => ModuleInv'
<1> SUFFICES ASSUME ModuleInv, Insmod \/ LdiscInit \/ RegisterRegion \/ AddCdev
             PROVE  ModuleInv'
  OBVIOUS
<1> USE DEF ModuleInv, kernel, users
<1>1. CASE Insmod
  <2>1. UNCHANGED <<pages, kernel, users, leaked>> /\ pc = "absent" /\ ~ ldisc
    BY <1>1 DEF Insmod
  <2>2. TypeOK'
    <3>1. si_done' \in -1 .. SensorCnt - 1 /\ loads' \in 0 .. MaxLoads
      BY <1>1, ModuleAssumption DEF Insmod, TypeOK
    <3>2. failed' \in BOOLEAN /\ pc' \in {"absent", "sensors"}
      BY <1>1 DEF Insmod
    <3> QED BY <2>1, <3>1, <3>2 DEF TypeOK, Loading
  <2>3. RegisteredInv' /\ UsersInv'
    BY <1>1 DEF Insmod, RegisteredInv, UsersInv, Undoing, Removing
  <2>4. PagesInv'
    BY <1>1, UptoNone, ModuleAssumption DEF Insmod, PagesInv
  <2> QED BY <2>2, <2>3, <2>4
<1>2. CASE LdiscInit
  <2>1. TypeOK'
    BY <1>2 DEF LdiscInit, TypeOK, Loading, Undoing, Removing
  <2>2. RegisteredInv' /\ UsersInv'
    BY <1>2 DEF LdiscInit, RegisteredInv, UsersInv, Undoing, Removing
  <2>3. PagesInv'
    BY <1>2, UptoAll, ModuleAssumption DEF LdiscInit, PagesInv, Sensors
  <2> QED BY <2>1, <2>2, <2>3
<1>3. CASE RegisterRegion
  <2>1. TypeOK'
    BY <1>3 DEF RegisterRegion, TypeOK, Loading, Undoing, Removing
  <2>2. RegisteredInv' /\ UsersInv'
    BY <1>3 DEF RegisterRegion, RegisteredInv, UsersInv, Undoing, Removing
  <2>3. PagesInv'
    BY <1>3 DEF RegisterRegion, PagesInv
  <2> QED BY <2>1, <2>2, <2>3
<1>4. CASE AddCdev
  <2>1. TypeOK'
    BY <1>4 DEF AddCdev, TypeOK, Loading, Undoing, Removing
  <2>2. RegisteredInv' /\ UsersInv'
    BY <1>4 DEF AddCdev, RegisteredInv, UsersInv, Undoing, Removing
  <2>3. PagesInv'
    BY <1>4 DEF AddCdev, PagesInv
  <2> QED BY <2>1, <2>2, <2>3
<1> QED BY <1>1, <1>2, <1>3, <1>4

\* Undoing what was set up, and rmmod.
LEMMA UnloadInv ==
    /\ ModuleInv
    /\ Rmmod \/ DeleteCdev \/ UnregisterRegion \/ LdiscDestroy
    => ModuleInv'
<1> SUFFICES ASSUME ModuleInv, Rmmod \/ DeleteCdev \/ UnregisterRegion \/ LdiscDestroy
             PROVE  ModuleInv'
  OBVIOUS
<1> USE DEF ModuleInv, kernel, users
<1>1. CASE Rmmod
  <2>1. TypeOK'
    BY <1>1 DEF Rmmod, TypeOK, Loading, Undoing, Removing
  <2>2. RegisteredInv' /\ UsersInv'
    BY <1>1 DEF Rmmod, TypeOK, RegisteredInv, UsersInv, Undoing, Removing
  <2>3. PagesInv'
    BY <1>1 DEF Rmmod, PagesInv
  <2> QED BY <2>1, <2>2, <2>3
<1>2. CASE DeleteCdev
  <2>1. TypeOK'
    BY <1>2 DEF DeleteCdev, TypeOK, Loading, Undoing, Removing
  <2>2. RegisteredInv' /\ UsersInv'
    BY <1>2 DEF DeleteCdev, RegisteredInv, UsersInv, Undoing, Removing
  <2>3. PagesInv'
    BY <1>2 DEF DeleteCdev, PagesInv
  <2> QED BY <2>1, <2>2, <2>3
<1>3. CASE UnregisterRegion
  <2>1. TypeOK'
    BY <1>3 DEF UnregisterRegion, TypeOK, Loading, Undoing, Removing
  <2>2. RegisteredInv' /\ UsersInv'
    BY <1>3 DEF UnregisterRegion, RegisteredInv, UsersInv, Undoing, Removing
  <2>3. PagesInv'
    BY <1>3 DEF UnregisterRegion, PagesInv, Removing
  <2> QED BY <2>1, <2>2, <2>3
<1>4. CASE LdiscDestroy
  <2>1. TypeOK'
    BY <1>4, ModuleAssumption DEF LdiscDestroy, TypeOK, Loading, Undoing, Removing
  <2>2. RegisteredInv' /\ UsersInv'
    BY <1>4 DEF LdiscDestroy, RegisteredInv, UsersInv, Undoing, Removing
  <2>3. PagesInv'
    <3>1. pages = Upto(SensorCnt - 1) /\ pages' = pages
      BY <1>4, UptoAll DEF LdiscDestroy, PagesInv
    <3>2. SensorCnt - 1 \in Sensors
      BY ModuleAssumption DEF Sensors
    <3> QED BY <1>4, <3>1, <3>2 DEF LdiscDestroy, PagesInv, Removing
  <2> QED BY <2>1, <2>2, <2>3
<1> QED BY <1>1, <1>2, <1>3, <1>4

\* The sensors are destroyed from the last to the first; when none is left, only
\* pages of a sensor that failed can be left.
LEMMA DestroyInv ==
    ASSUME ModuleInv, SensorDestroy \/ FreeSensors
    PROVE  /\ ModuleInv'
           /\ leaked' # leaked =>
                failed /\ \E s \in Sensors : leaked' \ leaked \subseteq PagesOf(s)
<1> USE DEF ModuleInv, kernel, users
<1>1. CASE SensorDestroy
  <2>1. /\ si_done \in Nat /\ si_done <= SensorCnt - 1 /\ si_done' = si_done - 1
        /\ pages' = pages \ PagesOf(si_done) /\ pc' = pc
        /\ pc \in {"rm_sensors", "undo_sensors"}
    BY <1>1, ModuleAssumption DEF SensorDestroy, TypeOK
  <2>2. TypeOK'
    BY <1>1, <2>1, ModuleAssumption DEF SensorDestroy, TypeOK, Loading, Undoing, Removing
  <2>3. RegisteredInv' /\ UsersInv'
    BY <1>1 DEF SensorDestroy, RegisteredInv, UsersInv, Undoing, Removing
  <2>4. PagesInv'
    BY <2>1, UptoLess DEF PagesInv
  <2> QED BY <1>1, <2>2, <2>3, <2>4 DEF SensorDestroy
<1>2. CASE FreeSensors
  <2>1. /\ si_done \in Int /\ si_done < 0 /\ pages' = {} /\ leaked' = leaked \cup pages
        /\ pc \in {"rm_sensors", "undo_sensors"} /\ pc' = "absent"
        /\ UNCHANGED <<si_done, kernel, users, failed, loads>>
    BY <1>2 DEF FreeSensors, TypeOK
  <2>2. TypeOK'
    BY <2>1 DEF TypeOK
  <2>3. RegisteredInv' /\ UsersInv'
    BY <2>1 DEF RegisteredInv, UsersInv, Undoing, Removing
  <2>4. PagesInv'
    BY <2>1 DEF PagesInv
  <2>5. Upto(si_done) = {}
    BY <2>1, UptoNone
  <2>6. CASE pc = "rm_sensors"
    BY <2>1, <2>2, <2>3, <2>4, <2>5, <2>6 DEF PagesInv
  <2>7. CASE pc = "undo_sensors"
    BY <2>1, <2>2, <2>3, <2>4, <2>5, <2>7 DEF PagesInv, RegisteredInv, Undoing
  <2> QED BY <2>1, <2>6, <2>7
<1> QED BY <1>1, <1>2

\* Terminals and files come and go.
LEMMA UsersStepInv ==
    /\ ModuleInv
    /\ Open \/ Close \/ \E t \in TTYs : SetLdisc(t) \/ LdiscOpen(t) \/ LdiscClose(t)
    => ModuleInv'
<1> SUFFICES ASSUME ModuleInv,
                    \/ Open \/ Close
                    \/ \E t \in TTYs : SetLdisc(t) \/ LdiscOpen(t) \/ LdiscClose(t)
             PROVE  ModuleInv'
  OBVIOUS
<1> USE DEF ModuleInv, kernel
<1>0. UNCHANGED <<pc, si_done, pages, ldisc, region, cdev, failed, leaked, loads>>
  BY DEF Open, Close, SetLdisc, LdiscOpen, LdiscClose
<1>1. RegisteredInv' /\ PagesInv'
  BY <1>0 DEF RegisteredInv, PagesInv, Undoing
<1>2. CASE Open \/ Close
  <2>1. TypeOK'
    BY <1>0, <1>2, ModuleAssumption DEF Open, Close, TypeOK, Loading, Undoing, Removing
  <2>2. UsersInv'
    BY <1>0, <1>2, ModuleAssumption
       DEF Open, Close, TypeOK, RegisteredInv, UsersInv, Removing
  <2> QED BY <1>1, <2>1, <2>2
<1>3. ASSUME NEW t \in TTYs, SetLdisc(t) PROVE ModuleInv'
  <2>1. TypeOK'
    BY <1>0, <1>3 DEF SetLdisc, TypeOK, Loading, Undoing, Removing
  <2>2. UsersInv'
    BY <1>0, <1>3 DEF SetLdisc, CanGet, UsersInv, Removing
  <2> QED BY <1>1, <2>1, <2>2
<1>4. ASSUME NEW t \in TTYs, LdiscOpen(t) PROVE ModuleInv'
  <2>1. ldisc
    BY <1>4 DEF LdiscOpen, UsersInv
  <2>2. TypeOK'
    BY <1>0, <1>4 DEF LdiscOpen, TypeOK, Loading, Undoing, Removing
  <2>3. UsersInv'
    BY <1>0, <1>4, <2>1 DEF LdiscOpen, UsersInv, Removing
  <2> QED BY <1>1, <2>2, <2>3
<1>5. ASSUME NEW t \in TTYs, LdiscClose(t) PROVE ModuleInv'
  <2>1. ldisc /\ attached = {t} /\ available = 0
    BY <1>5 DEF LdiscClose, UsersInv
  <2>2. TypeOK'
    BY <1>0, <1>5, <2>1 DEF LdiscClose, TypeOK, Loading, Undoing, Removing
  <2>3. UsersInv'
    BY <1>0, <1>5, <2>1 DEF LdiscClose, UsersInv, Removing
  <2> QED BY <1>1, <2>2, <2>3
<1> QED BY <1>2, <1>3, <1>4, <1>5

LEMMA NextModule == ModuleInv /\ [Next]_vars => ModuleInv'
<1>1. CASE UNCHANGED vars
  BY <1>1 DEF vars, kernel, users, ModuleInv, TypeOK, RegisteredInv, UsersInv,
     PagesInv, Loading, Undoing, Removing
<1> QED BY <1>1, SensorInitInv, LoadInv, UnloadInv, DestroyInv, UsersStepInv
       DEF Next, ModuleStep

LEMMA ModuleTheorem == Spec => []ModuleInv
<1> QED BY InitModule, NextModule, PTL DEF Spec

-----------------------------------------------------------------------------
(* The theorems *)

\* Every variable keeps its type: in particular the count of free disciplines
\* is zero or one, whatever the terminals do.
THEOREM TypeCorrect == Spec => []TypeOK
<1>1. ModuleInv => TypeOK
  BY DEF ModuleInv
<1> QED BY <1>1, ModuleTheorem, PTL

\* At most one terminal has the line discipline, and it is to be had exactly
\* when none has it.
THEOREM SingleTTYTheorem == Spec => []SingleTTY
<1>1. ModuleInv => SingleTTY
  BY DEF ModuleInv, UsersInv, SingleTTY
<1> QED BY <1>1, ModuleTheorem, PTL

\* Terminals and files find every sensor's pages there, as long as no
\* initialisation has failed.
THEOREM UsersHaveSensorsTheorem == Spec => []UsersHaveSensors
<1>1. ModuleInv => UsersHaveSensors
  <2> SUFFICES ASSUME ModuleInv, ~ failed, attached # {} \/ opened > 0
               PROVE  pages = Sensors \X Msrs
    BY DEF UsersHaveSensors
  <2>1. CASE opened > 0
    BY <2>1 DEF ModuleInv, UsersInv, PagesInv
  <2>2. CASE attached # {}
    <3>1. ldisc /\ ~ Removing
      BY <2>2 DEF ModuleInv, UsersInv
    <3>2. pc \in {"region", "cdev", "live"}
      BY <3>1 DEF ModuleInv, TypeOK, RegisteredInv, Loading, Undoing, Removing
    <3> QED BY <3>2 DEF ModuleInv, PagesInv
  <2> QED BY <2>1, <2>2
<1> QED BY <1>1, ModuleTheorem, PTL

\* A module that is gone has left nothing registered, except the discipline when
\* its load failed.
THEOREM NothingRegisteredTheorem == Spec => []NothingRegistered
<1>1. ModuleInv => NothingRegistered
  BY ModuleAssumption
     DEF ModuleInv, TypeOK, RegisteredInv, UsersInv, NothingRegistered
<1> QED BY <1>1, ModuleTheorem, PTL

\* Pages are lost only by a load that fails, and only those of one sensor.
THEOREM LeaksOneSensorTheorem == Spec => LeaksOneSensor
<1>1. ASSUME ModuleInv, [Next]_vars
      PROVE  [leaked' # leaked =>
                failed /\ \E s \in Sensors : leaked' \ leaked \subseteq PagesOf(s)]_vars
  <2>1. CASE SensorDestroy \/ FreeSensors
    BY <1>1, <2>1, DestroyInv
  <2>2. CASE ~ (SensorDestroy \/ FreeSensors)
    <3>1. leaked' = leaked
      BY <1>1, <2>2 DEF Next, ModuleStep, vars, Insmod, SensorInit, LdiscInit,
         RegisterRegion, AddCdev, Rmmod, DeleteCdev, UnregisterRegion, LdiscDestroy,
         Open, Close, SetLdisc, LdiscOpen, LdiscClose
    <3> QED BY <3>1
  <2> QED BY <2>1, <2>2
<1> QED BY <1>1, ModuleTheorem, PTL DEF Spec, LeaksOneSensor

=============================================================================

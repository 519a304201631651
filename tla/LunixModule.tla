----------------------------- MODULE LunixModule ----------------------------
(***************************************************************************)
(* The life of the kernel module (lunix-module.c): the sensor buffers, the *)
(* line discipline and the character device are set up one after another,  *)
(* undone when a step fails, and taken down when the module is removed.    *)
(* Meanwhile TTYs take and drop the line discipline (lunix-ldisc.c) and    *)
(* processes open and close the device, as soon as each is registered.     *)
(*                                                                         *)
(* The kernel's side is external: a registered line discipline or device   *)
(* can be used from the moment it is registered, a user holds a reference  *)
(* to the module, a module is removed only without references, and         *)
(* tty_unregister_ldisc refuses while a TTY uses the discipline.           *)
(***************************************************************************)
EXTENDS Integers, FiniteSets

CONSTANTS
    SensorCnt,      \* lunix_sensor_cnt
    TTYs,           \* terminals with the userspace helper
    MaxOpen,        \* bound: open files
    MaxLoads        \* bound: calls of insmod

ASSUME ModuleAssumption ==
    /\ SensorCnt \in Nat \ {0}
    /\ IsFiniteSet(TTYs)
    /\ MaxOpen \in Nat
    /\ MaxLoads \in Nat

VARIABLES
    pc,             \* what insmod or rmmod does next
    si_done,        \* index of the last sensor initialised, or to be destroyed
    pages,          \* buffer pages the sensors point to: <<sensor, msr>>
    ldisc,          \* the line discipline is registered
    available,      \* lunix_disc_available
    region,         \* the device numbers are registered
    cdev,           \* the device is added
    opening,        \* TTYs about to call lunix_ldisc_open
    attached,       \* TTYs with the line discipline
    opened,         \* open files
    failed,         \* history: the initialisation under way or last ended failed
    leaked,         \* history: pages allocated and no longer pointed to
    loads           \* history: calls of insmod

kernel == <<ldisc, available, region, cdev>>
users == <<opening, attached, opened>>
vars == <<pc, si_done, pages, kernel, users, failed, leaked, loads>>

Sensors == 0 .. SensorCnt - 1
N_LUNIX_MSR == 3
Msrs == 0 .. N_LUNIX_MSR - 1
PagesOf(s) == {s} \X Msrs

Loading == pc \in {"sensors", "ldisc", "region", "cdev"}
Undoing == pc \in {"undo_region", "undo_ldisc", "undo_sensors"}
Removing == pc \in {"rm_cdev", "rm_region", "rm_ldisc", "rm_sensors"}

Init ==
    /\ pc = "absent" /\ si_done = -1 /\ pages = {}
    /\ ldisc = FALSE /\ available = 0 /\ region = FALSE /\ cdev = FALSE
    /\ opening = {} /\ attached = {} /\ opened = 0
    /\ failed = FALSE /\ leaked = {} /\ loads = 0

-----------------------------------------------------------------------------
(* lunix_module_init *)

\* insmod; a kzalloc that fails ends it at once.  What follows a failure that
\* left its line discipline registered, in memory that is gone, is not modelled.
Insmod ==
    /\ pc = "absent" /\ loads < MaxLoads
    /\ ~ ldisc
    /\ loads' = loads + 1
    /\ \/ pc' = "sensors" /\ failed' = FALSE
       \/ pc' = "absent" /\ failed' = TRUE
    /\ si_done' = -1
    /\ UNCHANGED <<pages, kernel, users, leaked>>

\* Mutant of SensorInit: the loop ends one sensor early.
BugSensorInit ==
    LET s == si_done + 1 IN
    /\ pc = "sensors"
    /\ pages' = pages \cup PagesOf(s)
    /\ si_done' = s
    /\ pc' = IF s < SensorCnt - 2 THEN "sensors" ELSE "ldisc"
    /\ UNCHANGED <<kernel, users, failed, leaked, loads>>

\* lunix_sensor_init of the next sensor: all its pages, or those before the
\* allocation that failed.
SensorInit ==
    LET s == si_done + 1 IN
    /\ pc = "sensors"
    /\ \/ /\ pages' = pages \cup PagesOf(s)
          /\ si_done' = s
          /\ pc' = IF s < SensorCnt - 1 THEN "sensors" ELSE "ldisc"
          /\ UNCHANGED failed
       \/ /\ \E n \in 0 .. N_LUNIX_MSR - 1 :
               pages' = pages \cup ({s} \X (0 .. n - 1))
          /\ pc' = "undo_sensors"
          /\ failed' = TRUE
          /\ UNCHANGED si_done
    /\ UNCHANGED <<kernel, users, leaked, loads>>

\* lunix_ldisc_init
LdiscInit ==
    /\ pc = "ldisc"
    /\ available' = 1
    /\ \/ ldisc' = TRUE /\ pc' = "region" /\ UNCHANGED failed
       \/ pc' = "undo_sensors" /\ failed' = TRUE /\ UNCHANGED ldisc
    /\ UNCHANGED <<si_done, pages, region, cdev, users, leaked, loads>>

\* lunix_chrdev_init: the device numbers, then the device itself.
RegisterRegion ==
    /\ pc = "region"
    /\ \/ region' = TRUE /\ pc' = "cdev" /\ UNCHANGED failed
       \/ pc' = "undo_ldisc" /\ failed' = TRUE /\ UNCHANGED region
    /\ UNCHANGED <<si_done, pages, ldisc, available, cdev, users, leaked, loads>>

\* Mutant of AddCdev: a failure leaves the device numbers registered.
BugAddCdev ==
    /\ pc = "cdev"
    /\ \/ cdev' = TRUE /\ pc' = "live" /\ UNCHANGED failed
       \/ pc' = "undo_ldisc" /\ failed' = TRUE /\ UNCHANGED cdev
    /\ UNCHANGED <<si_done, pages, ldisc, available, region, users, leaked, loads>>

AddCdev ==
    /\ pc = "cdev"
    /\ \/ cdev' = TRUE /\ pc' = "live" /\ UNCHANGED failed
       \/ pc' = "undo_region" /\ failed' = TRUE /\ UNCHANGED cdev
    /\ UNCHANGED <<si_done, pages, ldisc, available, region, users, leaked, loads>>

-----------------------------------------------------------------------------
(* Undoing, and lunix_module_cleanup *)

\* rmmod: only without users.  cdev_del comes first.
Rmmod ==
    /\ pc = "live"
    /\ opening = {} /\ attached = {} /\ opened = 0
    /\ pc' = "rm_cdev"
    /\ UNCHANGED <<si_done, pages, kernel, users, failed, leaked, loads>>

DeleteCdev ==
    /\ pc = "rm_cdev"
    /\ cdev' = FALSE
    /\ pc' = "rm_region"
    /\ UNCHANGED <<si_done, pages, ldisc, available, region, users, failed, leaked, loads>>

UnregisterRegion ==
    /\ pc \in {"rm_region", "undo_region"}
    /\ region' = FALSE
    /\ pc' = IF Removing THEN "rm_ldisc" ELSE "undo_ldisc"
    /\ UNCHANGED <<si_done, pages, ldisc, available, cdev, users, failed, leaked, loads>>

\* lunix_ldisc_destroy, which ignores a refusal.
LdiscDestroy ==
    /\ pc \in {"rm_ldisc", "undo_ldisc"}
    /\ ldisc' = (ldisc /\ opening \cup attached # {})
    /\ IF Removing THEN pc' = "rm_sensors" /\ si_done' = SensorCnt - 1
                   ELSE pc' = "undo_sensors" /\ UNCHANGED si_done
    /\ UNCHANGED <<pages, available, region, cdev, users, failed, leaked, loads>>

\* Mutant of SensorDestroy: the last measurement is forgotten.
BugSensorDestroy ==
    /\ pc \in {"rm_sensors", "undo_sensors"}
    /\ si_done >= 0
    /\ pages' = pages \ ({si_done} \X (0 .. N_LUNIX_MSR - 2))
    /\ si_done' = si_done - 1
    /\ UNCHANGED <<pc, kernel, users, failed, leaked, loads>>

\* lunix_sensor_destroy of one sensor after another, in both loops.
SensorDestroy ==
    /\ pc \in {"rm_sensors", "undo_sensors"}
    /\ si_done >= 0
    /\ pages' = pages \ PagesOf(si_done)
    /\ si_done' = si_done - 1
    /\ UNCHANGED <<pc, kernel, users, failed, leaked, loads>>

\* kfree(lunix_sensors): pages still pointed to are lost with it.
FreeSensors ==
    /\ pc \in {"rm_sensors", "undo_sensors"}
    /\ si_done < 0
    /\ leaked' = leaked \cup pages
    /\ pages' = {}
    /\ pc' = "absent"
    /\ UNCHANGED <<si_done, kernel, users, failed, loads>>

-----------------------------------------------------------------------------
(* The users *)

\* tty_ldisc_get, external: a reference to the module, which is refused while
\* it is being removed.
CanGet == ldisc /\ pc # "absent" /\ ~ Removing

\* TIOCSETD: the terminal has the reference and is about to open the discipline.
SetLdisc(t) ==
    /\ CanGet
    /\ t \notin opening \cup attached
    /\ opening' = opening \cup {t}
    /\ UNCHANGED <<pc, si_done, pages, kernel, attached, opened, failed, leaked, loads>>

\* Mutant of LdiscOpen: the discipline is taken without a test.
BugLdiscOpen(t) ==
    /\ t \in opening /\ pc # "absent"
    /\ available' = available - 1
    /\ attached' = attached \cup {t}
    /\ opening' = opening \ {t}
    /\ UNCHANGED <<pc, si_done, pages, ldisc, region, cdev, opened, failed, leaked, loads>>

\* lunix_ldisc_open, of a privileged process or not: atomic_add_unless takes
\* the discipline if it is there, else -EBUSY and the reference is dropped.
LdiscOpen(t) ==
    /\ t \in opening /\ pc # "absent"
    /\ \/ /\ available # 0
          /\ available' = available - 1
          /\ attached' = attached \cup {t}
       \/ UNCHANGED <<available, attached>>
    /\ opening' = opening \ {t}
    /\ UNCHANGED <<pc, si_done, pages, ldisc, region, cdev, opened, failed, leaked, loads>>

\* lunix_ldisc_close
LdiscClose(t) ==
    /\ t \in attached /\ pc # "absent"
    /\ attached' = attached \ {t}
    /\ available' = available + 1
    /\ UNCHANGED <<pc, si_done, pages, ldisc, region, cdev, opening, opened, failed, leaked, loads>>

\* open and close of a device node: the kernel takes and drops the reference.
Open ==
    /\ cdev /\ ~ Removing
    /\ opened < MaxOpen
    /\ opened' = opened + 1
    /\ UNCHANGED <<pc, si_done, pages, kernel, opening, attached, failed, leaked, loads>>

Close ==
    /\ opened > 0
    /\ opened' = opened - 1
    /\ UNCHANGED <<pc, si_done, pages, kernel, opening, attached, failed, leaked, loads>>

-----------------------------------------------------------------------------
\* The steps of insmod and rmmod, and of the users of the device.
ModuleStep ==
    \/ Insmod \/ SensorInit \/ LdiscInit \/ RegisterRegion \/ AddCdev
    \/ Rmmod \/ DeleteCdev \/ UnregisterRegion \/ LdiscDestroy
    \/ SensorDestroy \/ FreeSensors
    \/ Open \/ Close

\* Any process may set and drop the line discipline of any terminal.
Next ==
    \/ ModuleStep
    \/ \E t \in TTYs : SetLdisc(t) \/ LdiscOpen(t) \/ LdiscClose(t)

Spec == Init /\ [][Next]_vars

-----------------------------------------------------------------------------
(* Properties *)

TypeOK ==
    /\ pc = "absent" \/ pc = "live" \/ Loading \/ Undoing \/ Removing
    /\ si_done \in -1 .. SensorCnt - 1
    /\ pages \subseteq Sensors \X Msrs
    /\ available \in {0, 1}
    /\ ldisc \in BOOLEAN /\ region \in BOOLEAN /\ cdev \in BOOLEAN
    /\ failed \in BOOLEAN
    /\ opening \subseteq TTYs
    /\ attached \subseteq TTYs
    /\ opened \in 0 .. MaxOpen
    /\ leaked \subseteq Sensors \X Msrs
    /\ loads \in 0 .. MaxLoads

\* "This line discipline can only be associated with a single TTY at any
\* time": TTYs race for it, and whoever drops it leaves it to the next one,
\* through failed openings, failed loads and reloads of the module.
SingleTTY ==
    /\ \A t, u \in attached : t = u
    /\ ldisc => (available = 0 <=> attached # {})

\* The order of initialisation and removal: a TTY whose bytes are parsed into
\* measurements and a file that is read find the pages of every sensor there,
\* also while the module is still loading or being removed.  An initialisation
\* that fails after the discipline is registered does not keep to this.
UsersHaveSensors ==
    ~ failed /\ (attached # {} \/ opened > 0) => pages = Sensors \X Msrs

\* A removed module has no users and leaves nothing registered; one that could
\* not be loaded leaves no device either.
NothingRegistered ==
    pc = "absent" =>
        /\ ~ region /\ ~ cdev /\ opened = 0
        /\ failed \/ (~ ldisc /\ opening \cup attached = {})

\* Pages are lost by a failed initialisation only, and only those of the
\* sensor that failed: both destruction loops free what was initialised,
\* neither more nor less.
LeaksOneSensor ==
    [][leaked' # leaked =>
         failed /\ \E s \in Sensors : leaked' \ leaked \subseteq PagesOf(s)]_vars

=============================================================================

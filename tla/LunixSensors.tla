---------------------------- MODULE LunixSensors ----------------------------
(***************************************************************************)
(* The sensor structures shared by the line discipline, which writes them, *)
(* and the character device, which reads them (lunix.h, lunix-sensors.c).  *)
(*                                                                         *)
(* A measurement (battery, temperature, light) is abstracted to its serial *)
(* number: measurement n is the n-th call of lunix_sensor_update.  The raw *)
(* value 0 and the time 0 are those of a page fresh from get_zeroed_page.  *)
(* The tty layer never re-enters the line discipline's receive function,   *)
(* so there is a single updater.                                           *)
(***************************************************************************)
EXTENDS Integers, Sequences

CONSTANTS
    SensorCnt,      \* lunix_sensor_cnt
    MaxUpdates,     \* bound: calls of lunix_sensor_update
    MaxTime,        \* bound: the clock stops at this second
    MinGap,         \* seconds between two measurements: 0 or more
    Readers         \* the tasks that may sleep on a sensor's queue

ASSUME SensorsAssumption ==
    /\ SensorCnt \in Nat \ {0}
    /\ MaxUpdates \in Nat
    /\ MaxTime \in Nat
    /\ MinGap \in Nat

VARIABLES
    now,        \* get_seconds(): seconds, never 0 once the system has booted
    msr,        \* msr_data of each sensor, one page for each type
    spin,       \* who holds each sensor's spinlock
    wq,         \* the tasks on each sensor's wait queue
    upd,        \* where lunix_sensor_update stands, and for which sensor
    log         \* history: the sensor and time stamp of each measurement

sensorVars == <<now, msr, spin, wq, upd, log>>

Sensors == 0 .. SensorCnt - 1

BATT == 0
TEMP == 1
LIGHT == 2
N_LUNIX_MSR == 3
Types == 0 .. N_LUNIX_MSR - 1

Free == "free"          \* nobody holds the spinlock
Updater == "updater"    \* the task that runs lunix_sensor_update

Serial == 0 .. MaxUpdates   \* the measurements, 0 for none
Page == [value : Serial, last_update : Nat]
Published == [sensor : Sensors, stamp : Nat]

SensorsTypeOK ==
    /\ now \in Nat
    /\ msr \in [Sensors -> [Types -> Page]]
    /\ spin \in [Sensors -> Readers \cup {Free, Updater}]
    /\ wq \in [Sensors -> SUBSET Readers]
    /\ upd \in [pc : {"idle", "stamp", "wake"}, sensor : Sensors]
    /\ log \in Seq(Published)

\* lunix_sensor_init for every sensor: zeroed pages, lock free, queue empty.
SensorsInit ==
    /\ now = 1
    /\ msr = [s \in Sensors |-> [t \in Types |-> [value |-> 0, last_update |-> 0]]]
    /\ spin = [s \in Sensors |-> Free]
    /\ wq = [s \in Sensors |-> {}]
    /\ upd = [pc |-> "idle", sensor |-> 0]
    /\ log = <<>>

-----------------------------------------------------------------------------

LastStamp == IF log = <<>> THEN 0 ELSE log[Len(log)].stamp

\* The wall clock reaches the next second.
Tick ==
    /\ now < MaxTime
    /\ now' = now + 1
    /\ UNCHANGED <<msr, spin, wq, upd, log>>

\* A packet for sensor s is complete: take the spinlock, write the values.
UpdateValues(s) ==
    /\ upd.pc = "idle"
    /\ Len(log) < MaxUpdates
    /\ now >= LastStamp + MinGap
    /\ spin[s] = Free
    /\ spin' = [spin EXCEPT ![s] = Updater]
    /\ msr' = [msr EXCEPT ![s] =
                 [t \in Types |-> [msr[s][t] EXCEPT !.value = Len(log) + 1]]]
    /\ upd' = [pc |-> "stamp", sensor |-> s]
    /\ UNCHANGED <<now, wq, log>>

\* Write the time stamps and drop the spinlock.
UpdateStamps ==
    LET s == upd.sensor IN
    /\ upd.pc = "stamp"
    /\ msr' = [msr EXCEPT ![s] =
                 [t \in Types |-> [msr[s][t] EXCEPT !.last_update = now]]]
    /\ log' = Append(log, [sensor |-> s, stamp |-> now])
    /\ spin' = [spin EXCEPT ![s] = Free]
    /\ upd' = [upd EXCEPT !.pc = "wake"]
    /\ UNCHANGED <<now, wq>>

\* wake_up_interruptible: every sleeper is taken off the queue and made
\* runnable.
WakeUp ==
    /\ upd.pc = "wake"
    /\ wq' = [wq EXCEPT ![upd.sensor] = {}]
    /\ upd' = [upd EXCEPT !.pc = "idle"]
    /\ UNCHANGED <<now, msr, spin, log>>

UpdaterStep == (\E s \in Sensors : UpdateValues(s)) \/ UpdateStamps \/ WakeUp

=============================================================================

---------------------------- MODULE LunixChrdev -----------------------------
(***************************************************************************)
(* The character device: /dev/lunix<NO>-<TYPE> files, the tasks that read  *)
(* them and the line discipline that updates the sensors underneath        *)
(* (lunix-chrdev.c on top of LunixSensors).                                *)
(*                                                                         *)
(* A reader runs read(2) on the open file Handle[r]; two readers with one  *)
(* handle model tasks that share an open file after fork or dup.  Each     *)
(* action is one atomic section of the code: the steps end where another   *)
(* task can interfere (taking or dropping the semaphore or the spinlock,   *)
(* an unlocked test of the time stamp, the tests of the wait loop).        *)
(*                                                                         *)
(* The position of a file belongs to the VFS: read(2) copies it on entry,  *)
(* the driver works on the copy, and the VFS stores it back when the call  *)
(* returns a count.                                                        *)
(***************************************************************************)
EXTENDS LunixSensors

CONSTANTS
    Files,          \* open files
    Handle,         \* the file each reader reads
    Minors,         \* the device nodes the files are opened on
    Counts,         \* the sizes asked of read(2)
    TextLen,        \* the length of the text of each measurement
    MaxSignals,     \* bound: signals sent to the readers
    Faults          \* TRUE if the user's buffer may be unmapped

ASSUME ChrdevAssumption ==
    /\ Handle \in [Readers -> Files]
    /\ Minors \subseteq 0 .. 8 * SensorCnt - 1
    /\ Counts \subseteq Nat
    /\ TextLen \in [1 .. MaxUpdates -> Nat \ {0}]
    /\ MaxSignals \in Nat
    /\ Faults \in BOOLEAN
    /\ Updater \notin Readers /\ Free \notin Readers

VARIABLES
    dev,        \* minor of each open file, Closed if it is not open
    ts,         \* buf_timestamp
    text,       \* buf_data: the measurement cached as text, 0 for none
    sem,        \* lock: the count of the semaphore
    fpos,       \* the file position kept by the VFS
    pc, pos, cnt, val, ret,     \* of each reader: its place, *f_pos, cnt,
                                \* values and ret
    got,        \* of each reader: what the last read(2) put in its buffer
    sig,        \* the readers that have a signal pending
    nsig        \* signals sent so far

fileVars == <<dev, ts, text, sem, fpos>>
readerVars == <<pc, pos, cnt, val, ret, got>>
vars == <<sensorVars, fileVars, readerVars, sig, nsig>>

Closed == -1
ERESTARTSYS == -512
EFAULT == -14

MinorSensor(m) == m \div 8
MinorType(m) == m % 8

\* Of a reader: its file, and the page that file shows.
File(r) == Handle[r]
Sensor(r) == MinorSensor(dev[File(r)])
PageOf(f) == msr[MinorSensor(dev[f])][MinorType(dev[f])]

\* buf_lim: the length of the cached text.
Lim(f) == IF text[f] = 0 THEN 0 ELSE TextLen[text[f]]

NeedsRefresh(f) == PageOf(f).last_update > ts[f]

Nothing == [n |-> 0, from |-> 0, to |-> 0]

Labels == {"idle", "down", "check", "prepare", "recheck", "sleep", "redown",
           "snap", "stamp", "format", "copy", "out", "return"}

TypeOK ==
    /\ SensorsTypeOK
    /\ dev \in [Files -> Minors \cup {Closed}]
    /\ ts \in [Files -> Nat]
    /\ text \in [Files -> Serial]
    /\ sem \in [Files -> Nat]
    /\ fpos \in [Files -> Int]
    /\ pc \in [Readers -> Labels]
    /\ pos \in [Readers -> Int]
    /\ cnt \in [Readers -> Int]
    /\ val \in [Readers -> Serial]
    /\ ret \in [Readers -> Int]
    /\ got \in [Readers -> [n : Serial, from : Int, to : Int]]
    /\ sig \subseteq Readers
    /\ nsig \in 0 .. MaxSignals

Init ==
    /\ SensorsInit
    /\ dev = [f \in Files |-> Closed]
    /\ ts = [f \in Files |-> 0]
    /\ text = [f \in Files |-> 0]
    /\ sem = [f \in Files |-> 0]
    /\ fpos = [f \in Files |-> 0]
    /\ pc = [r \in Readers |-> "idle"]
    /\ pos = [r \in Readers |-> 0]
    /\ cnt = [r \in Readers |-> 0]
    /\ val = [r \in Readers |-> 0]
    /\ ret = [r \in Readers |-> 0]
    /\ got = [r \in Readers |-> Nothing]
    /\ sig = {}
    /\ nsig = 0

Goto(r, label) == pc' = [pc EXCEPT ![r] = label]

-----------------------------------------------------------------------------
(* open and release *)

\* open(2): the minor names the sensor and the type; a type the driver does
\* not know makes the call fail with -ENODEV and changes nothing.
Open(f) ==
    /\ dev[f] = Closed
    /\ \E m \in Minors :
         /\ MinorType(m) < N_LUNIX_MSR
         /\ dev' = [dev EXCEPT ![f] = m]
    /\ ts' = [ts EXCEPT ![f] = 0]
    /\ text' = [text EXCEPT ![f] = 0]
    /\ sem' = [sem EXCEPT ![f] = 1]
    /\ fpos' = [fpos EXCEPT ![f] = 0]
    /\ got' = [r \in Readers |-> IF File(r) = f THEN Nothing ELSE got[r]]
    /\ UNCHANGED <<sensorVars, pc, pos, cnt, val, ret, sig, nsig>>

\* The last close: the VFS calls release when no task uses the file any more.
Release(f) ==
    /\ dev[f] # Closed
    /\ \A r \in Readers : File(r) = f => pc[r] = "idle"
    /\ dev' = [dev EXCEPT ![f] = Closed]
    /\ UNCHANGED <<sensorVars, ts, text, sem, fpos, readerVars, sig, nsig>>

-----------------------------------------------------------------------------
(* read *)

\* read(2) copies the position of the file and calls the driver.
ReadCall(r) ==
    /\ pc[r] = "idle"
    /\ dev[File(r)] # Closed
    /\ \E c \in Counts : cnt' = [cnt EXCEPT ![r] = c]
    /\ pos' = [pos EXCEPT ![r] = fpos[File(r)]]
    /\ Goto(r, "down")
    /\ UNCHANGED <<sensorVars, fileVars, val, ret, got, sig, nsig>>

\* Mutant of Down: the semaphore is not waited for.
BugDownNoWait(r) ==
    /\ pc[r] = "down"
    /\ sem' = [sem EXCEPT ![File(r)] = @ - 1]
    /\ Goto(r, IF pos[r] = 0 THEN "check" ELSE "copy")
    /\ UNCHANGED <<sensorVars, dev, ts, text, fpos, pos, cnt, val, ret, got,
                   sig, nsig>>

\* Mutant of Down: the test *f_pos == 0 is forgotten.
BugDownRefresh(r) ==
    /\ pc[r] = "down"
    /\ sem[File(r)] > 0
    /\ sem' = [sem EXCEPT ![File(r)] = @ - 1]
    /\ Goto(r, "check")
    /\ UNCHANGED <<sensorVars, dev, ts, text, fpos, pos, cnt, val, ret, got,
                   sig, nsig>>

\* down_interruptible: a free semaphore is taken even with a signal pending.
Down(r) ==
    /\ pc[r] = "down"
    /\ sem[File(r)] > 0
    /\ sem' = [sem EXCEPT ![File(r)] = @ - 1]
    /\ Goto(r, IF pos[r] = 0 THEN "check" ELSE "copy")
    /\ UNCHANGED <<sensorVars, dev, ts, text, fpos, pos, cnt, val, ret, got,
                   sig, nsig>>

\* The wait for the semaphore is interrupted: return without up().
DownInterrupted(r) ==
    /\ pc[r] = "down"
    /\ sem[File(r)] = 0
    /\ r \in sig
    /\ ret' = [ret EXCEPT ![r] = ERESTARTSYS]
    /\ Goto(r, "return")
    /\ UNCHANGED <<sensorVars, fileVars, pos, cnt, val, got, sig, nsig>>

\* state_update finds news and goes on to take the spinlock.
CheckFresh(r) ==
    /\ pc[r] = "check"
    /\ NeedsRefresh(File(r))
    /\ Goto(r, "snap")
    /\ UNCHANGED <<sensorVars, fileVars, pos, cnt, val, ret, got, sig, nsig>>

\* state_update returns -EAGAIN: up(), then wait.
CheckStale(r) ==
    /\ pc[r] = "check"
    /\ ~ NeedsRefresh(File(r))
    /\ sem' = [sem EXCEPT ![File(r)] = @ + 1]
    /\ Goto(r, "prepare")
    /\ UNCHANGED <<sensorVars, dev, ts, text, fpos, pos, cnt, val, ret, got,
                   sig, nsig>>

\* wait_event_interruptible: join the queue ...
Prepare(r) ==
    /\ pc[r] = "prepare"
    /\ r \notin sig
    /\ wq' = [wq EXCEPT ![Sensor(r)] = @ \cup {r}]
    /\ Goto(r, "recheck")
    /\ UNCHANGED <<now, msr, spin, upd, log, fileVars, pos, cnt, val, ret, got,
                   sig, nsig>>

\* ... or, with a signal pending, leave it; news still win over the signal,
\* and without news the code jumps to out: although it does not hold the
\* semaphore.
PrepareSignalled(r) ==
    /\ pc[r] = "prepare"
    /\ r \in sig
    /\ wq' = [wq EXCEPT ![Sensor(r)] = @ \ {r}]
    /\ \/ /\ NeedsRefresh(File(r))
          /\ Goto(r, "redown")
          /\ ret' = [ret EXCEPT ![r] = 0]
       \/ /\ ~ NeedsRefresh(File(r))
          /\ Goto(r, "out")
          /\ ret' = [ret EXCEPT ![r] = ERESTARTSYS]
    /\ UNCHANGED <<now, msr, spin, upd, log, fileVars, pos, cnt, val, got,
                   sig, nsig>>

\* Mutant of Recheck: sleep without testing the condition on the queue.
BugRecheckNot(r) ==
    /\ pc[r] = "recheck"
    /\ Goto(r, "sleep")
    /\ UNCHANGED <<sensorVars, fileVars, pos, cnt, val, ret, got, sig, nsig>>

\* ... test the condition once on the queue, and leave it or sleep.
Recheck(r) ==
    /\ pc[r] = "recheck"
    /\ \/ /\ NeedsRefresh(File(r))
          /\ wq' = [wq EXCEPT ![Sensor(r)] = @ \ {r}]
          /\ ret' = [ret EXCEPT ![r] = 0]
          /\ Goto(r, "redown")
       \/ /\ ~ NeedsRefresh(File(r))
          /\ Goto(r, "sleep")
          /\ UNCHANGED <<wq, ret>>
    /\ UNCHANGED <<now, msr, spin, upd, log, fileVars, pos, cnt, val, got,
                   sig, nsig>>

\* Mutant of Wake: an uninterruptible wait.
BugWakeDeaf(r) ==
    /\ pc[r] = "sleep"
    /\ r \notin wq[Sensor(r)]
    /\ Goto(r, "prepare")
    /\ UNCHANGED <<sensorVars, fileVars, pos, cnt, val, ret, got, sig, nsig>>

\* A task taken off the queue, or sent a signal, runs and loops.
Wake(r) ==
    /\ pc[r] = "sleep"
    /\ r \notin wq[Sensor(r)] \/ r \in sig
    /\ Goto(r, "prepare")
    /\ UNCHANGED <<sensorVars, fileVars, pos, cnt, val, ret, got, sig, nsig>>

\* Mutant of Redown: the semaphore is not taken again.
BugRedownNot(r) ==
    /\ pc[r] = "redown"
    /\ Goto(r, "check")
    /\ UNCHANGED <<sensorVars, fileVars, pos, cnt, val, ret, got, sig, nsig>>

\* down_interruptible after the wait.
Redown(r) ==
    /\ pc[r] = "redown"
    /\ sem[File(r)] > 0
    /\ sem' = [sem EXCEPT ![File(r)] = @ - 1]
    /\ Goto(r, "check")
    /\ UNCHANGED <<sensorVars, dev, ts, text, fpos, pos, cnt, val, ret, got,
                   sig, nsig>>

\* Interrupted, down_interruptible returns -EINTR; the code tests for
\* -ERESTARTSYS, so it goes on to state_update as if it held the semaphore.
RedownInterrupted(r) ==
    /\ pc[r] = "redown"
    /\ sem[File(r)] = 0
    /\ r \in sig
    /\ Goto(r, "check")
    /\ UNCHANGED <<sensorVars, fileVars, pos, cnt, val, ret, got, sig, nsig>>

\* Mutant of SnapValue: the value is read without the spinlock.
BugSnapUnlocked(r) ==
    /\ pc[r] = "snap"
    /\ val' = [val EXCEPT ![r] = PageOf(File(r)).value]
    /\ Goto(r, "stamp")
    /\ UNCHANGED <<sensorVars, fileVars, pos, cnt, ret, got, sig, nsig>>

\* Take the spinlock and read the value ...
SnapValue(r) ==
    /\ pc[r] = "snap"
    /\ spin[Sensor(r)] = Free
    /\ spin' = [spin EXCEPT ![Sensor(r)] = r]
    /\ val' = [val EXCEPT ![r] = PageOf(File(r)).value]
    /\ Goto(r, "stamp")
    /\ UNCHANGED <<now, msr, wq, upd, log, fileVars, pos, cnt, ret, got, sig,
                   nsig>>

\* Mutant of SnapStamp: the time of the read is kept, not the measurement's.
BugSnapNow(r) ==
    /\ pc[r] = "stamp"
    /\ ts' = [ts EXCEPT ![File(r)] = now]
    /\ spin' = [spin EXCEPT ![Sensor(r)] = Free]
    /\ Goto(r, "format")
    /\ UNCHANGED <<now, msr, wq, upd, log, dev, text, sem, fpos, pos, cnt, val,
                   ret, got, sig, nsig>>

\* ... then the time stamp, and drop the spinlock.
SnapStamp(r) ==
    /\ pc[r] = "stamp"
    /\ ts' = [ts EXCEPT ![File(r)] = PageOf(File(r)).last_update]
    /\ spin' = [spin EXCEPT ![Sensor(r)] = Free]
    /\ Goto(r, "format")
    /\ UNCHANGED <<now, msr, wq, upd, log, dev, text, sem, fpos, pos, cnt, val,
                   ret, got, sig, nsig>>

\* Look the raw value up, print it into buf_data and set buf_lim.
Format(r) ==
    /\ pc[r] = "format"
    /\ text' = [text EXCEPT ![File(r)] = val[r]]
    /\ Goto(r, "copy")
    /\ UNCHANGED <<sensorVars, dev, ts, sem, fpos, pos, cnt, val, ret, got, sig,
                   nsig>>

\* Mutant of ClampedCnt: the position is left out of the comparison.
BugClamp(r) ==
    IF cnt[r] > Lim(File(r)) THEN Lim(File(r)) - pos[r] ELSE cnt[r]

\* The bytes to copy: what is asked, at most what is left of the text.  A
\* negative difference wraps in the size_t.
ClampedCnt(r) ==
    IF pos[r] + cnt[r] > Lim(File(r)) THEN Lim(File(r)) - pos[r] ELSE cnt[r]

\* copy_to_user succeeds; the position advances and rewinds at the end.
CopyOut(r) ==
    LET f == File(r)
        c == ClampedCnt(r)
        next == pos[r] + c
    IN
    /\ pc[r] = "copy"
    /\ c >= 0
    /\ cnt' = [cnt EXCEPT ![r] = c]
    /\ got' = [got EXCEPT ![r] = [n |-> text[f], from |-> pos[r], to |-> next]]
    /\ ret' = [ret EXCEPT ![r] = c]
    /\ pos' = [pos EXCEPT ![r] = IF next >= Lim(f) THEN 0 ELSE next]
    /\ Goto(r, "out")
    /\ UNCHANGED <<sensorVars, fileVars, val, sig, nsig>>

\* copy_to_user fails: on an unmapped buffer, or on a count that wrapped.
CopyFault(r) ==
    LET c == ClampedCnt(r) IN
    /\ pc[r] = "copy"
    /\ (Faults /\ c > 0) \/ c < 0
    /\ cnt' = [cnt EXCEPT ![r] = c]
    /\ ret' = [ret EXCEPT ![r] = EFAULT]
    /\ Goto(r, "out")
    /\ UNCHANGED <<sensorVars, fileVars, pos, val, got, sig, nsig>>

\* Mutant of Out: the call that reads the last byte returns without up().
BugOutEarly(r) ==
    /\ pc[r] = "out"
    /\ sem' = IF pos[r] = 0 THEN sem ELSE [sem EXCEPT ![File(r)] = @ + 1]
    /\ Goto(r, "return")
    /\ UNCHANGED <<sensorVars, dev, ts, text, fpos, pos, cnt, val, ret, got,
                   sig, nsig>>

\* out: up() the semaphore, whether the reader holds it or not.
Out(r) ==
    /\ pc[r] = "out"
    /\ sem' = [sem EXCEPT ![File(r)] = @ + 1]
    /\ Goto(r, "return")
    /\ UNCHANGED <<sensorVars, dev, ts, text, fpos, pos, cnt, val, ret, got,
                   sig, nsig>>

\* The VFS stores the position of a call that did not fail; on the way back
\* to user mode a pending signal is handled.
Return(r) ==
    /\ pc[r] = "return"
    /\ fpos' = IF ret[r] >= 0 THEN [fpos EXCEPT ![File(r)] = pos[r]] ELSE fpos
    /\ sig' = sig \ {r}
    /\ Goto(r, "idle")
    /\ pos' = [pos EXCEPT ![r] = 0]
    /\ cnt' = [cnt EXCEPT ![r] = 0]
    /\ val' = [val EXCEPT ![r] = 0]
    /\ ret' = [ret EXCEPT ![r] = 0]
    /\ UNCHANGED <<sensorVars, dev, ts, text, sem, got, nsig>>

-----------------------------------------------------------------------------

\* A signal is sent to a task that is inside read(2).
Signal(r) ==
    /\ pc[r] # "idle"
    /\ r \notin sig
    /\ nsig < MaxSignals
    /\ sig' = sig \cup {r}
    /\ nsig' = nsig + 1
    /\ UNCHANGED <<sensorVars, fileVars, readerVars>>

\* A step of lunix_sensor_update, or of the clock: the files do not change.
SensorsStep ==
    /\ UpdaterStep \/ Tick
    /\ UNCHANGED <<fileVars, readerVars, sig, nsig>>

\* What a reader's own code does next.
ReaderStep(r) ==
    \/ Down(r) \/ DownInterrupted(r)
    \/ CheckFresh(r) \/ CheckStale(r)
    \/ Prepare(r) \/ PrepareSignalled(r) \/ Recheck(r) \/ Wake(r)
    \/ Redown(r) \/ RedownInterrupted(r)
    \/ SnapValue(r) \/ SnapStamp(r) \/ Format(r)
    \/ CopyOut(r) \/ CopyFault(r) \/ Out(r) \/ Return(r)

Next ==
    \/ \E f \in Files : Open(f) \/ Release(f)
    \/ \E r \in Readers : ReadCall(r) \/ ReaderStep(r) \/ Signal(r)
    \/ SensorsStep

Spec == Init /\ [][Next]_vars

\* A task inside the kernel keeps running, and an update that has begun goes
\* on; nothing makes packets arrive, signals be sent or calls be made.
\* Semaphores and spinlocks serve their waiters in order, so a task that asks
\* for one over and over gets it.
Fairness ==
    /\ WF_vars((UpdateStamps \/ WakeUp) /\ UNCHANGED <<fileVars, readerVars, sig, nsig>>)
    /\ \A r \in Readers :
         /\ WF_vars(ReaderStep(r))
         /\ SF_vars(Down(r)) /\ SF_vars(Redown(r)) /\ SF_vars(SnapValue(r))

LiveSpec == Spec /\ Fairness

-----------------------------------------------------------------------------
(* Properties *)

\* The readers inside the part of lunix_chrdev_read that works on the cached
\* state.
UsesCache(r) == pc[r] \in {"check", "snap", "stamp", "format", "copy"}

\* "Must be called with the character device state lock held": two readers of
\* one open file never work on its cached state at the same time.
MutualExclusion ==
    \A r, q \in Readers :
        r # q /\ File(r) = File(q) => ~ (UsesCache(r) /\ UsesCache(q))

\* The same as long as no signal has been sent: it takes a signal, whose error
\* paths release a semaphore that is not held, to break the exclusion.
MutexUntilSignal == nsig = 0 => MutualExclusion

\* A semaphore at zero is always about to be released by some reader, signals
\* or not: nobody waits for a lock that no task will ever give back.
SemaphoreComesBack ==
    \A f \in Files :
        dev[f] # Closed /\ sem[f] = 0 =>
            \E r \in Readers : File(r) = f /\ (UsesCache(r) \/ pc[r] = "out")

\* The text and the time stamp cached in an open file are those of one
\* measurement of the file's own sensor, however the line discipline's two
\* writes and the readers' two reads interleave.
NoTornMeasurement ==
    nsig = 0 =>
        \A f \in Files :
            /\ dev[f] # Closed
            /\ text[f] # 0
            /\ \A r \in Readers : File(r) = f => pc[r] # "format"
            => /\ text[f] \in 1 .. Len(log)
               /\ log[text[f]] = [sensor |-> MinorSensor(dev[f]), stamp |-> ts[f]]

\* The cached text of an open file is never replaced by that of an older
\* measurement, though tasks that share the file race to refresh it.
TextNeverOlder ==
    [][nsig' = 0 => \A f \in Files : dev'[f] = dev[f] => text'[f] >= text[f]]_vars

\* No wake-up is lost: a task asleep on the queue of its sensor although its
\* file is out of date is about to be woken by the update under way.
NoLostWakeup ==
    \A r \in Readers :
        pc[r] = "sleep" /\ r \in wq[Sensor(r)] /\ NeedsRefresh(File(r)) =>
            upd = [pc |-> "wake", sensor |-> Sensor(r)]

\* What successive calls of read(2) put in the buffer of a task that does not
\* share its file: a call either begins, at offset 0, a measurement newer than
\* the last one, which has been read to its end (or not at all), or goes on
\* exactly where the call before it stopped, in the same measurement.
ReadsAreWhole ==
    [][\A r \in Readers :
         LET old == got[r]
             new == got'[r]
         IN  new # old /\ new # Nothing =>
               \/ /\ new.from = 0
                  /\ new.n > old.n
                  /\ old.to \in {0, IF old.n = 0 THEN 0 ELSE TextLen[old.n]}
               \/ new.from = old.to /\ new.from > 0 /\ new.n = old.n]_vars

\* "read up to the remaining info": the position at which a reader copies is
\* inside the cached text, so what is left to read is not negative.
CopyWithinText == \A r \in Readers : pc[r] = "copy" => pos[r] <= Lim(File(r))

\* A file that shows the last measurement of its sensor, or is about to be
\* told of it, needs no refresh otherwise: when the updater is idle and no
\* reader is at work on the file, either the cached text is the newest
\* measurement or needs_refresh says so.
StaleIsDetected ==
    upd.pc = "idle" =>
        \A f \in Files :
            /\ dev[f] # Closed
            /\ \A r \in Readers : File(r) = f => ~ UsesCache(r)
            => text[f] = PageOf(f).value \/ NeedsRefresh(f)

\* A read of a file that is out of date returns: it is neither left asleep nor
\* kept looping.
ReadReturns ==
    \A r \in Readers :
        (pc[r] # "idle" /\ NeedsRefresh(File(r))) ~> (pc[r] = "idle")

\* A task that is sent a signal leaves read(2), even if no measurement ever
\* arrives.
SignalEndsRead == \A r \in Readers : (r \in sig) ~> (pc[r] = "idle")

=============================================================================

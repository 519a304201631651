------------------------- MODULE LunixChrdevProofs --------------------------
(***************************************************************************)
(* Proofs about LunixChrdev, for any number of sensors, files, readers,    *)
(* updates and signals.                                                    *)
(***************************************************************************)
EXTENDS LunixChrdev, TLAPS

\* A file that is open was opened on a valid minor, and a file that some task
\* is reading is open.
OpenInv ==
    /\ \A f \in Files : dev[f] # Closed => MinorType(dev[f]) < N_LUNIX_MSR
    /\ \A r \in Readers : pc[r] # "idle" => dev[File(r)] # Closed

Typed == TypeOK /\ OpenInv

\* The minor of a device node names one of the sensors, and its type is a
\* number.
LEMMA MinorRange ==
    ASSUME NEW m \in Minors
    PROVE  MinorSensor(m) \in Sensors /\ MinorType(m) \in Nat
BY ChrdevAssumption, SensorsAssumption DEF MinorSensor, MinorType, Sensors

\* The page shown by an open file is a page.
LEMMA PageType ==
    ASSUME Typed, NEW f \in Files, dev[f] # Closed
    PROVE  /\ MinorSensor(dev[f]) \in Sensors
           /\ MinorType(dev[f]) \in Types
           /\ PageOf(f) \in Page
<1>1. dev[f] \in Minors
  BY DEF Typed, TypeOK
<1>2. MinorSensor(dev[f]) \in Sensors /\ MinorType(dev[f]) \in Nat
  BY <1>1, MinorRange
<1>3. MinorType(dev[f]) \in Types
  BY <1>2 DEF Typed, OpenInv, Types, N_LUNIX_MSR
<1> QED BY <1>2, <1>3 DEF Typed, TypeOK, SensorsTypeOK, PageOf

LEMMA LimType ==
    ASSUME TypeOK, NEW f \in Files
    PROVE  Lim(f) \in Nat
BY ChrdevAssumption, SensorsAssumption DEF TypeOK, Lim, Serial

\* Writing one field of a page gives a page, and leaves the other alone.
LEMMA PageWrite ==
    ASSUME NEW p \in Page, NEW v \in Serial, NEW t \in Nat
    PROVE  /\ [p EXCEPT !.value = v] = [value |-> v, last_update |-> p.last_update]
           /\ [p EXCEPT !.last_update = t] = [value |-> p.value, last_update |-> t]
           /\ [p EXCEPT !.value = v] \in Page
           /\ [p EXCEPT !.last_update = t] \in Page
BY DEF Page

\* A reader that leaves the queue of a sensor leaves queues of readers.
LEMMA LeaveQueue ==
    ASSUME NEW w \in [Sensors -> SUBSET Readers], NEW s \in Sensors, NEW r
    PROVE  [w EXCEPT ![s] = @ \ {r}] \in [Sensors -> SUBSET Readers]
OBVIOUS

\* One entry of a function replaced by one of its range.
LEMMA PutType ==
    ASSUME NEW S, NEW T, NEW g \in [S -> T], NEW x \in S, NEW v \in T
    PROVE  [g EXCEPT ![x] = v] \in [S -> T]
OBVIOUS

LEMMA InitTyped == Init => Typed
BY ChrdevAssumption, SensorsAssumption
   DEF Init, SensorsInit, Typed, TypeOK, SensorsTypeOK, OpenInv, File, Nothing,
       Sensors, Types, Page, Published, Serial, Labels, Closed, Free

\* A step of the updater or of the clock.
LEMMA SensorsStepTyped == Typed /\ SensorsStep => Typed'
<1> SUFFICES ASSUME Typed, SensorsStep PROVE Typed'
  OBVIOUS
<1> USE SensorsAssumption DEF Typed, TypeOK, SensorsTypeOK, fileVars, readerVars
<1>1. SensorsTypeOK'
  <2>1. CASE Tick
    BY <2>1 DEF Tick
  <2>2. ASSUME NEW s \in Sensors, UpdateValues(s) PROVE SensorsTypeOK'
    <3>1. Len(log) + 1 \in Serial
      BY <2>2 DEF UpdateValues, Serial
    <3> DEFINE page(t) == [msr[s][t] EXCEPT !.value = Len(log) + 1]
    <3>2. msr' = [msr EXCEPT ![s] = [t \in Types |-> page(t)]]
      BY <2>2 DEF UpdateValues
    <3>3. ASSUME NEW t \in Types PROVE page(t) \in Page
      <4>1. msr[s][t] \in Page
        OBVIOUS
      <4> QED BY ONLY <4>1, <3>1, PageWrite, 0 \in Nat DEF page
    <3> HIDE DEF page
    <3>4. msr' \in [Sensors -> [Types -> Page]]
      BY <3>2, <3>3
    <3> QED BY <2>2, <3>4 DEF UpdateValues
  <2>3. CASE UpdateStamps
    <3> DEFINE page(t) == [msr[upd.sensor][t] EXCEPT !.last_update = now]
    <3>1. msr' = [msr EXCEPT ![upd.sensor] = [t \in Types |-> page(t)]]
      BY <2>3 DEF UpdateStamps
    <3>2. ASSUME NEW t \in Types PROVE page(t) \in Page
      <4>1. msr[upd.sensor][t] \in Page
        OBVIOUS
      <4>2. now \in Nat /\ 0 \in Serial
        BY DEF Serial
      <4> QED BY ONLY <4>1, <4>2, PageWrite DEF page
    <3>3. msr' \in [Sensors -> [Types -> Page]]
      <4> HIDE DEF page
      <4> QED BY <3>1, <3>2
    <3>4. [sensor |-> upd.sensor, stamp |-> now] \in Published
      BY DEF Published
    <3>5. log' \in Seq(Published)
      BY <2>3, <3>4 DEF UpdateStamps
    <3> QED BY <2>3, <3>3, <3>5 DEF UpdateStamps
  <2>4. CASE WakeUp
    BY <2>4 DEF WakeUp
  <2> QED BY <2>1, <2>2, <2>3, <2>4 DEF SensorsStep, UpdaterStep
<1>2. OpenInv'
  BY DEF SensorsStep, OpenInv, File
<1> QED BY <1>1, <1>2 DEF SensorsStep

\* Opening, closing, calling and signalling.
LEMMA CallsTyped ==
    ASSUME Typed,
           \/ \E f \in Files : Open(f) \/ Release(f)
           \/ \E r \in Readers : ReadCall(r) \/ Signal(r)
    PROVE  Typed'
<1> USE ChrdevAssumption DEF Typed, TypeOK, OpenInv, SensorsTypeOK, sensorVars,
        fileVars, readerVars, File, Closed
<1>0. 0 \in Serial
  BY SensorsAssumption DEF Serial
<1>1. ASSUME NEW f \in Files, Open(f) PROVE Typed'
  <2>1. got' \in [Readers -> [n : Serial, from : Int, to : Int]]
    BY <1>0, <1>1 DEF Open, Nothing
  <2>2. TypeOK'
    <3>1. dev' \in [Files -> Minors \cup {Closed}]
      BY <1>1 DEF Open
    <3>2. ts' \in [Files -> Nat] /\ sem' \in [Files -> Nat]
      BY <1>1 DEF Open
    <3>3. text' \in [Files -> Serial]
      BY <1>0, <1>1 DEF Open
    <3>4. fpos' \in [Files -> Int]
      BY <1>1 DEF Open
    <3> QED BY <1>1, <2>1, <3>1, <3>2, <3>3, <3>4 DEF Open
  <2>3. OpenInv'
    BY <1>1 DEF Open
  <2> QED BY <2>2, <2>3
<1>2. ASSUME NEW f \in Files, Release(f) PROVE Typed'
  BY <1>2 DEF Release
<1>3. ASSUME NEW r \in Readers, ReadCall(r) PROVE Typed'
  BY <1>3 DEF ReadCall, Goto, Labels
<1>4. ASSUME NEW r \in Readers, Signal(r) PROVE Typed'
  <2>1. nsig' \in 0 .. MaxSignals
    BY <1>4 DEF Signal
  <2>2. sig' \subseteq Readers
    BY <1>4 DEF Signal
  <2> QED BY <1>4, <2>1, <2>2 DEF Signal
<1> QED BY <1>1, <1>2, <1>3, <1>4

\* The steps of a reader that is inside the driver.
LEMMA ReaderStepTyped ==
    ASSUME Typed, NEW r \in Readers, ReaderStep(r)
    PROVE  Typed'
<1> DEFINE f == File(r)
<1>0. f \in Files /\ pc[r] # "idle" /\ dev[f] # Closed
  BY ChrdevAssumption DEF ReaderStep, Typed, OpenInv, File, Down, DownInterrupted,
     CheckFresh, CheckStale, Prepare, PrepareSignalled, Recheck, Wake, Redown,
     RedownInterrupted, SnapValue, SnapStamp, Format, CopyOut, CopyFault, Out,
     Return
<1>p. Sensor(r) \in Sensors /\ PageOf(f) \in Page
  BY <1>0, PageType DEF Sensor
<1>c. ClampedCnt(r) \in Int
  BY <1>0, LimType DEF ClampedCnt, Typed, TypeOK
<1> USE <1>0, ChrdevAssumption DEF Typed, TypeOK, OpenInv, SensorsTypeOK,
        sensorVars, fileVars, readerVars, Goto, Labels
<1>1. CASE Down(r)
  BY <1>1 DEF Down, File
<1>2. CASE DownInterrupted(r)
  BY <1>2 DEF DownInterrupted, ERESTARTSYS, File
<1>3. CASE CheckFresh(r)
  BY <1>3 DEF CheckFresh, File
<1>4. CASE CheckStale(r)
  BY <1>4 DEF CheckStale, File
<1>5. CASE Prepare(r)
  BY <1>5, <1>p DEF Prepare, File
<1>6. CASE PrepareSignalled(r)
  <2>1. /\ wq' \in [Sensors -> SUBSET Readers]
        /\ pc' \in [Readers -> Labels]
        /\ ret' \in [Readers -> Int]
    <3>0. /\ wq \in [Sensors -> SUBSET Readers]
          /\ pc \in [Readers -> Labels] /\ ret \in [Readers -> Int]
      OBVIOUS
    <3>1. wq' \in [Sensors -> SUBSET Readers]
      <4>1. wq' = [wq EXCEPT ![Sensor(r)] = @ \ {r}]
        BY ONLY <1>6 DEF PrepareSignalled
      <4> QED BY ONLY <3>0, <4>1, <1>p, LeaveQueue
    <3>2. pc' \in [Readers -> Labels]
      <4>1. \E l \in Labels : pc' = [pc EXCEPT ![r] = l]
        BY ONLY <1>6 DEF PrepareSignalled, Goto, Labels
      <4> QED BY ONLY <3>0, <4>1, r \in Readers, PutType
    <3>3. ret' \in [Readers -> Int]
      <4>1. \E v \in Int : ret' = [ret EXCEPT ![r] = v]
        BY ONLY <1>6 DEF PrepareSignalled, ERESTARTSYS
      <4> QED BY ONLY <3>0, <4>1, r \in Readers, PutType
    <3> QED BY ONLY <3>1, <3>2, <3>3
  <2>2. /\ UNCHANGED <<now, msr, spin, upd, log, fileVars, pos, cnt, val, got,
                        sig, nsig>>
        /\ \A q \in Readers : q # r => pc'[q] = pc[q]
    BY <1>6 DEF PrepareSignalled
  <2> QED BY ONLY <1>0, <2>1, <2>2, Typed DEF Typed, TypeOK, OpenInv, SensorsTypeOK,
          fileVars, File
<1>7. CASE Recheck(r)
  <2>1. /\ wq' \in [Sensors -> SUBSET Readers]
        /\ pc' \in [Readers -> Labels]
        /\ ret' \in [Readers -> Int]
    <3>0. /\ wq \in [Sensors -> SUBSET Readers]
          /\ pc \in [Readers -> Labels] /\ ret \in [Readers -> Int]
      OBVIOUS
    <3>1. wq' \in [Sensors -> SUBSET Readers]
      <4>1. wq' = [wq EXCEPT ![Sensor(r)] = @ \ {r}] \/ wq' = wq
        BY ONLY <1>7 DEF Recheck
      <4> QED BY ONLY <3>0, <4>1, <1>p, LeaveQueue
    <3>2. pc' \in [Readers -> Labels]
      <4>1. \E l \in Labels : pc' = [pc EXCEPT ![r] = l]
        BY ONLY <1>7 DEF Recheck, Goto, Labels
      <4> QED BY ONLY <3>0, <4>1, r \in Readers, PutType
    <3>3. ret' \in [Readers -> Int]
      <4>1. ret' = ret \/ ret' = [ret EXCEPT ![r] = 0]
        BY ONLY <1>7 DEF Recheck
      <4> QED BY ONLY <3>0, <4>1, 0 \in Int, r \in Readers, PutType
    <3> QED BY ONLY <3>1, <3>2, <3>3
  <2>2. /\ UNCHANGED <<now, msr, spin, upd, log, fileVars, pos, cnt, val, got,
                        sig, nsig>>
        /\ \A q \in Readers : q # r => pc'[q] = pc[q]
    BY <1>7 DEF Recheck
  <2> QED BY ONLY <1>0, <2>1, <2>2, Typed DEF Typed, TypeOK, OpenInv, SensorsTypeOK,
          fileVars, File
<1>8. CASE Wake(r)
  BY <1>8 DEF Wake, File
<1>9. CASE Redown(r)
  <2>1. sem' \in [Files -> Nat]
    <3>1. sem[f] > 0 /\ sem' = [sem EXCEPT ![f] = sem[f] - 1]
      BY ONLY <1>9 DEF Redown
    <3>2. sem[f] \in Nat /\ sem \in [Files -> Nat]
      BY <1>0
    <3>3. sem[f] - 1 \in Nat
      BY ONLY <3>1, <3>2
    <3> QED BY ONLY <1>0, <3>1, <3>2, <3>3, PutType
  <2>2. pc' \in [Readers -> Labels]
    <3>1. pc' = [pc EXCEPT ![r] = "check"] /\ "check" \in Labels
      BY ONLY <1>9 DEF Redown, Goto, Labels
    <3>2. pc \in [Readers -> Labels]
      OBVIOUS
    <3> QED BY ONLY <3>1, <3>2, r \in Readers, PutType
  <2>3. /\ UNCHANGED <<sensorVars, dev, ts, text, fpos, pos, cnt, val, ret, got,
                        sig, nsig>>
        /\ \A q \in Readers : q # r => pc'[q] = pc[q]
    BY <1>9 DEF Redown
  <2> QED BY ONLY <1>0, <2>1, <2>2, <2>3, Typed DEF Typed, TypeOK, OpenInv,
          SensorsTypeOK, sensorVars, File
<1>10. CASE RedownInterrupted(r)
  BY <1>10 DEF RedownInterrupted, File
<1>11. CASE SnapValue(r)
  BY <1>11, <1>p DEF SnapValue, File, Page
<1>12. CASE SnapStamp(r)
  BY <1>12, <1>p DEF SnapStamp, File, Page
<1>13. CASE Format(r)
  BY <1>13 DEF Format, File
<1>14. CASE CopyOut(r)
  <2>1. /\ cnt' \in [Readers -> Int] /\ ret' \in [Readers -> Int]
        /\ pos' \in [Readers -> Int] /\ pc' \in [Readers -> Labels]
    <3>1. Lim(f) \in Nat /\ pos[r] \in Int
      BY <1>0, LimType
    <3>2. /\ cnt' = [cnt EXCEPT ![r] = ClampedCnt(r)]
          /\ ret' = [ret EXCEPT ![r] = ClampedCnt(r)]
          /\ pc' = [pc EXCEPT ![r] = "out"]
      BY ONLY <1>14 DEF CopyOut, Goto
    <3>3. pos' = [pos EXCEPT ![r] = IF pos[r] + ClampedCnt(r) >= Lim(f)
                                    THEN 0 ELSE pos[r] + ClampedCnt(r)]
      BY ONLY <1>14 DEF CopyOut
    <3> QED BY <1>c, <3>1, <3>2, <3>3
  <2>2. got' \in [Readers -> [n : Serial, from : Int, to : Int]]
    <3>1. text[f] \in Serial /\ pos[r] \in Int /\ pos[r] + ClampedCnt(r) \in Int
      BY <1>0, <1>c
    <3>2. got' = [got EXCEPT ![r] = [n |-> text[f], from |-> pos[r],
                                     to |-> pos[r] + ClampedCnt(r)]]
      BY ONLY <1>14 DEF CopyOut
    <3> QED BY <3>1, <3>2
  <2>3. /\ UNCHANGED <<sensorVars, fileVars, val, sig, nsig>>
        /\ \A q \in Readers : q # r => pc'[q] = pc[q]
    BY <1>14 DEF CopyOut
  <2> QED BY ONLY <1>0, <2>1, <2>2, <2>3, Typed DEF Typed, TypeOK, OpenInv,
          SensorsTypeOK, sensorVars, fileVars, File
<1>15. CASE CopyFault(r)
  BY <1>15, <1>c DEF CopyFault, EFAULT, File
<1>16. CASE Out(r)
  <2>1. sem' \in [Files -> Nat]
    <3>1. sem[f] + 1 \in Nat /\ sem \in [Files -> Nat]
      BY <1>0
    <3>2. sem' = [sem EXCEPT ![f] = sem[f] + 1]
      BY ONLY <1>16 DEF Out
    <3> QED BY ONLY <1>0, <3>1, <3>2, PutType
  <2>2. pc' \in [Readers -> Labels]
    <3>1. pc' = [pc EXCEPT ![r] = "return"] /\ "return" \in Labels
      BY ONLY <1>16 DEF Out, Goto, Labels
    <3>2. pc \in [Readers -> Labels]
      OBVIOUS
    <3> QED BY ONLY <3>1, <3>2, r \in Readers, PutType
  <2>3. /\ UNCHANGED <<sensorVars, dev, ts, text, fpos, pos, cnt, val, ret, got,
                        sig, nsig>>
        /\ \A q \in Readers : q # r => pc'[q] = pc[q]
    BY <1>16 DEF Out
  <2> QED BY ONLY <1>0, <2>1, <2>2, <2>3, Typed DEF Typed, TypeOK, OpenInv,
          SensorsTypeOK, sensorVars, File
<1>17. CASE Return(r)
  <2>1. 0 \in Serial
    BY SensorsAssumption DEF Serial
  <2>2. fpos' \in [Files -> Int]
    BY <1>17 DEF Return
  <2> QED BY <1>17, <2>1, <2>2 DEF Return, File
<1> QED BY <1>1, <1>2, <1>3, <1>4, <1>5, <1>6, <1>7, <1>8, <1>9, <1>10, <1>11,
           <1>12, <1>13, <1>14, <1>15, <1>16, <1>17 DEF ReaderStep

LEMMA NextTyped == Typed /\ [Next]_vars => Typed'
<1>1. CASE UNCHANGED vars
  BY <1>1 DEF vars, sensorVars, fileVars, readerVars, Typed, TypeOK, OpenInv,
     SensorsTypeOK, File
<1> QED BY <1>1, CallsTyped, ReaderStepTyped, SensorsStepTyped DEF Next

\* Every variable keeps its type; in particular no step reads a page through
\* a closed file, formats a measurement that does not exist, or copies from an
\* undefined position.
THEOREM TypeCorrect == Spec => []TypeOK
<1>1. Spec => []Typed
  BY InitTyped, NextTyped, PTL DEF Spec
<1> QED BY <1>1, PTL DEF Typed

-----------------------------------------------------------------------------
(* Mutual exclusion on the cached state of an open file. *)

\* Until a signal is sent the semaphore of an open file is a mutex: at most
\* one reader is between down and up, and then the count is 0, else 1.
Holding(r) == UsesCache(r) \/ pc[r] = "out"

LockInv ==
    /\ sig # {} => nsig > 0
    /\ nsig = 0 =>
         /\ \A f \in Files : dev[f] # Closed => sem[f] <= 1
         /\ \A r \in Readers : Holding(r) => sem[File(r)] = 0
         /\ \A r, q \in Readers :
               r # q /\ File(r) = File(q) => ~ (Holding(r) /\ Holding(q))

LEMMA InitLock == Init => LockInv
BY DEF Init, LockInv, Holding, UsesCache

LEMMA ReaderStepLock ==
    ASSUME Typed, LockInv, NEW r \in Readers, ReaderStep(r)
    PROVE  LockInv'
<1>0. File(r) \in Files /\ sem \in [Files -> Nat] /\ pc \in [Readers -> Labels]
  BY ChrdevAssumption DEF Typed, TypeOK, File
<1>d. pc[r] # "idle" => dev[File(r)] # Closed
  BY DEF Typed, OpenInv
<1>q. \A q \in Readers : File(q) \in Files
  BY ChrdevAssumption DEF File
<1>s. sig' \subseteq sig /\ nsig' = nsig /\ dev' = dev
  BY DEF ReaderStep, fileVars, Down, DownInterrupted,
     CheckFresh, CheckStale, Prepare, PrepareSignalled, Recheck, Wake, Redown,
     RedownInterrupted, SnapValue, SnapStamp, Format, CopyOut, CopyFault, Out,
     Return
<1>1. ASSUME sig # {} PROVE LockInv'
  BY <1>1, <1>s DEF LockInv
<1>2. ASSUME sig = {} PROVE LockInv'
  <2> USE <1>0, <1>d, <1>s, <1>2 DEF LockInv, Holding, UsesCache, Goto, File
  <2>1. CASE Down(r) \/ Redown(r)
    BY <2>1, <1>q DEF Down, Redown
  <2>2. CASE CheckStale(r) \/ Out(r)
    BY <2>2, <1>q DEF CheckStale, Out
  <2>3. CASE CheckFresh(r) \/ SnapValue(r) \/ SnapStamp(r) \/ Format(r)
             \/ CopyOut(r) \/ CopyFault(r)
    BY <2>3 DEF CheckFresh, SnapValue, SnapStamp, Format, CopyOut, CopyFault, fileVars
  <2>4. CASE Prepare(r) \/ Recheck(r) \/ Wake(r) \/ Return(r)
    BY <2>4 DEF Prepare, Recheck, Wake, Return, fileVars
  <2>5. CASE DownInterrupted(r) \/ PrepareSignalled(r) \/ RedownInterrupted(r)
    BY <2>5 DEF DownInterrupted, PrepareSignalled, RedownInterrupted
  <2> QED BY <2>1, <2>2, <2>3, <2>4, <2>5 DEF ReaderStep
<1> QED BY <1>1, <1>2

LEMMA NextLock == Typed /\ LockInv /\ [Next]_vars => LockInv'
<1> SUFFICES ASSUME Typed, LockInv, [Next]_vars PROVE LockInv'
  OBVIOUS
<1> USE DEF LockInv, Holding, UsesCache, File
<1>1. CASE UNCHANGED vars \/ SensorsStep
  BY <1>1 DEF vars, SensorsStep, fileVars, readerVars
<1>2. ASSUME NEW f \in Files, Open(f) PROVE LockInv'
  BY <1>2 DEF Open, Typed, TypeOK, OpenInv
<1>3. ASSUME NEW f \in Files, Release(f) PROVE LockInv'
  BY <1>3 DEF Release, Typed, TypeOK, readerVars
<1>4. ASSUME NEW r \in Readers, ReadCall(r) PROVE LockInv'
  BY <1>4 DEF ReadCall, Goto, fileVars, Typed, TypeOK
<1>5. ASSUME NEW r \in Readers, Signal(r) PROVE LockInv'
  BY <1>5 DEF Signal, Typed, TypeOK
<1> QED BY <1>1, <1>2, <1>3, <1>4, <1>5, ReaderStepLock DEF Next

\* As long as no signal has been sent to a reader, lunix_chrdev_state_update
\* runs with the state lock held: two readers of one open file are never in it,
\* or in the copy to user space, together.
THEOREM MutexTheorem == Spec => []MutexUntilSignal
<1>1. Spec => [](Typed /\ LockInv)
  BY InitTyped, NextTyped, InitLock, NextLock, PTL DEF Spec
<1>2. LockInv => MutexUntilSignal
  BY DEF LockInv, MutexUntilSignal, MutualExclusion, Holding
<1> QED BY <1>1, <1>2, PTL

LEMMA NextSemaphore ==
    ASSUME Typed, SemaphoreComesBack, [Next]_vars
    PROVE  SemaphoreComesBack'
<1> USE DEF SemaphoreComesBack, UsesCache, File
<1>1. CASE UNCHANGED vars \/ SensorsStep
  BY <1>1 DEF vars, SensorsStep, fileVars, readerVars
<1>2. ASSUME NEW f \in Files, Open(f) \/ Release(f) PROVE SemaphoreComesBack'
  <2>1. /\ pc' = pc
        /\ dev'[f] # Closed => sem'[f] = 1
        /\ \A g \in Files \ {f} : dev'[g] = dev[g] /\ sem'[g] = sem[g]
    BY <1>2 DEF Open, Release, readerVars, Typed, TypeOK
  <2> QED BY <2>1
<1>3. ASSUME NEW r \in Readers, ReadCall(r) \/ Signal(r) PROVE SemaphoreComesBack'
  <2>1. /\ UNCHANGED <<dev, sem>>
        /\ \A q \in Readers : pc[q] # "idle" => pc'[q] = pc[q]
    BY <1>3 DEF ReadCall, Signal, Goto, fileVars, readerVars, Typed, TypeOK
  <2> QED BY <2>1
<1>4. ASSUME NEW r \in Readers, ReaderStep(r) PROVE SemaphoreComesBack'
  <2>0. /\ File(r) \in Files /\ sem \in [Files -> Nat] /\ dev' = dev
        /\ pc \in [Readers -> Labels]
    BY <1>4, ChrdevAssumption DEF ReaderStep, fileVars, Down, DownInterrupted,
       CheckFresh, CheckStale, Prepare, PrepareSignalled, Recheck, Wake, Redown,
       RedownInterrupted, SnapValue, SnapStamp, Format, CopyOut, CopyFault, Out,
       Return, Typed, TypeOK
  <2>1. CASE Down(r) \/ Redown(r)
    <3>1. /\ UsesCache(r)'
          /\ \A q \in Readers \ {r} : pc'[q] = pc[q]
          /\ \A g \in Files \ {File(r)} : sem'[g] = sem[g]
      BY <2>0, <2>1 DEF Down, Redown, Goto
    <3> QED BY <2>0, <3>1
  <2>2. CASE CheckStale(r) \/ Out(r)
    <3>1. /\ sem'[File(r)] > 0
          /\ \A q \in Readers \ {r} : pc'[q] = pc[q]
          /\ \A g \in Files \ {File(r)} : sem'[g] = sem[g]
      BY <2>0, <2>2 DEF CheckStale, Out, Goto
    <3> QED BY <2>0, <3>1
  <2>3. CASE ~ (Down(r) \/ Redown(r) \/ CheckStale(r) \/ Out(r))
    <3>1. /\ sem' = sem
          /\ \A q \in Readers \ {r} : pc'[q] = pc[q]
      BY <1>4, <2>0, <2>3 DEF ReaderStep, Goto, fileVars, DownInterrupted,
         CheckFresh, Prepare, PrepareSignalled, Recheck, Wake, RedownInterrupted,
         SnapValue, SnapStamp, Format, CopyOut, CopyFault, Return
    <3>2. UsesCache(r) \/ pc[r] = "out" => UsesCache(r)' \/ pc'[r] = "out"
      BY <1>4, <2>0, <2>3 DEF ReaderStep, Goto, DownInterrupted,
         CheckFresh, Prepare, PrepareSignalled, Recheck, Wake, RedownInterrupted,
         SnapValue, SnapStamp, Format, CopyOut, CopyFault, Return
    <3> QED BY <2>0, <3>1, <3>2
  <2> QED BY <2>1, <2>2, <2>3
<1> QED BY <1>1, <1>2, <1>3, <1>4 DEF Next

\* A semaphore at zero is always going to be released by some reader, whatever
\* signals interrupt the others: the error paths release too often, never too
\* seldom.
THEOREM SemaphoreTheorem == Spec => []SemaphoreComesBack
<1>1. Init => SemaphoreComesBack
  BY DEF Init, SemaphoreComesBack
<1> QED BY <1>1, InitTyped, NextTyped, NextSemaphore, PTL DEF Spec

-----------------------------------------------------------------------------
(* No lost wake-up. *)

LEMMA ReaderStepWakeup ==
    ASSUME Typed, NoLostWakeup, NEW r \in Readers, ReaderStep(r)
    PROVE  NoLostWakeup'
<1>1. UNCHANGED <<msr, upd, dev>>
  BY DEF ReaderStep, sensorVars, fileVars, Down, DownInterrupted, CheckFresh,
     CheckStale, Prepare, PrepareSignalled, Recheck, Wake, Redown,
     RedownInterrupted, SnapValue, SnapStamp, Format, CopyOut, CopyFault, Out,
     Return
<1>2. ASSUME NEW q \in Readers, pc'[q] = "sleep", q \in wq'[Sensor(q)],
             PageOf(File(q)).last_update > ts'[File(q)]
      PROVE  upd = [pc |-> "wake", sensor |-> Sensor(q)]
  <2> USE ChrdevAssumption DEF Typed, TypeOK, SensorsTypeOK
  <2>t. File(q) \in Files /\ File(r) \in Files
    BY DEF File
  <2>1. CASE q = r
    <3>1. Recheck(r) /\ ~ NeedsRefresh(File(r))
      BY <1>2, <2>1 DEF ReaderStep, Goto, Down, DownInterrupted, CheckFresh,
         CheckStale, Prepare, PrepareSignalled, Recheck, Wake, Redown,
         RedownInterrupted, SnapValue, SnapStamp, Format, CopyOut, CopyFault,
         Out, Return
    <3> QED BY <1>2, <2>1, <3>1 DEF Recheck, NeedsRefresh, fileVars
  <2>2. CASE q # r
    <3>1. pc[q] = "sleep" /\ q \in wq[Sensor(q)]
      <4>1. \E label \in Labels : pc' = [pc EXCEPT ![r] = label]
        BY DEF ReaderStep, Goto, Labels, Down, DownInterrupted, CheckFresh,
           CheckStale, Prepare, PrepareSignalled, Recheck, Wake, Redown,
           RedownInterrupted, SnapValue, SnapStamp, Format, CopyOut, CopyFault,
           Out, Return
      <4>2. \/ wq' = wq
            \/ wq' = [wq EXCEPT ![Sensor(r)] = @ \cup {r}]
            \/ wq' = [wq EXCEPT ![Sensor(r)] = @ \ {r}]
        BY DEF ReaderStep, sensorVars, Down, DownInterrupted, CheckFresh,
           CheckStale, Prepare, PrepareSignalled, Recheck, Wake, Redown,
           RedownInterrupted, SnapValue, SnapStamp, Format, CopyOut, CopyFault,
           Out, Return
      <4>3. pc[q] = "sleep"
        BY <1>2, <2>2, <4>1
      <4>4. Sensor(q) \in Sensors
        BY <2>t, <4>3, PageType DEF OpenInv, Sensor
      <4>5. q \in wq[Sensor(q)]
        <5>1. wq \in [Sensors -> SUBSET Readers] /\ Sensor(q)' = Sensor(q)
          BY <1>1 DEF Sensor, File
        <5>2. q \in wq'[Sensor(q)]
          BY ONLY <1>2, <5>1
        <5> QED BY ONLY <2>2, <4>2, <4>4, <5>1, <5>2
      <4> QED BY <4>3, <4>5
    <3>2. CASE SnapStamp(r) /\ File(r) = File(q)
      <4>1. PageOf(File(q)).last_update = ts'[File(q)]
        BY <3>2, <2>t DEF SnapStamp
      <4>2. dev[File(q)] # Closed
        BY <3>1 DEF OpenInv
      <4>3. PageOf(File(q)).last_update \in Nat
        <5>1. PageOf(File(q)) \in Page
          BY <2>t, <4>2, PageType
        <5> QED BY ONLY <5>1 DEF Page
      <4>4. PageOf(File(q)).last_update > ts'[File(q)]
        BY ONLY <1>2
      <4> QED BY ONLY <4>1, <4>3, <4>4
    <3>3. CASE ~ (SnapStamp(r) /\ File(r) = File(q))
      <4>1. ts'[File(q)] = ts[File(q)]
        BY <3>3, <2>t DEF ReaderStep, fileVars, Down, DownInterrupted, CheckFresh,
           CheckStale, Prepare, PrepareSignalled, Recheck, Wake, Redown,
           RedownInterrupted, SnapValue, SnapStamp, Format, CopyOut, CopyFault,
           Out, Return
      <4> QED BY <1>2, <3>1, <4>1 DEF NoLostWakeup, NeedsRefresh
    <3> QED BY <3>2, <3>3
  <2> QED BY <2>1, <2>2
<1> QED BY <1>1, <1>2 DEF NoLostWakeup, NeedsRefresh, PageOf, Sensor, File

LEMMA SensorsStepWakeup ==
    ASSUME Typed, NoLostWakeup, SensorsStep
    PROVE  NoLostWakeup'
<1> SUFFICES ASSUME NEW q \in Readers, pc[q] = "sleep", q \in wq'[Sensor(q)],
                    PageOf(File(q))'.last_update > ts[File(q)]
             PROVE  upd' = [pc |-> "wake", sensor |-> Sensor(q)]
  BY DEF NoLostWakeup, NeedsRefresh, SensorsStep, Sensor, fileVars, readerVars, File
<1>0. File(q) \in Files /\ dev[File(q)] # Closed
  BY ChrdevAssumption DEF Typed, OpenInv, File
<1>1. /\ Sensor(q) \in Sensors
      /\ MinorType(dev[File(q)]) \in Types
      /\ PageOf(File(q)) = msr[Sensor(q)][MinorType(dev[File(q)])]
      /\ PageOf(File(q))' = msr'[Sensor(q)][MinorType(dev[File(q)])]
  BY <1>0, PageType DEF Sensor, PageOf, SensorsStep, fileVars
<1> DEFINE t == MinorType(dev[File(q)])
<1>2. msr[Sensor(q)][t] \in Page
  BY <1>1 DEF Typed, TypeOK, SensorsTypeOK
<1> USE <1>0, <1>1 DEF Typed, TypeOK, SensorsTypeOK
<1>3. CASE Tick
  BY <1>3 DEF Tick, NoLostWakeup, NeedsRefresh
<1>4. ASSUME NEW s \in Sensors, UpdateValues(s) PROVE FALSE
  <2>1. msr'[Sensor(q)][t].last_update = msr[Sensor(q)][t].last_update
    <3>1. CASE s = Sensor(q)
      <4>1. msr'[s][t] = [msr[s][t] EXCEPT !.value = Len(log) + 1]
        BY <1>4, <3>1 DEF UpdateValues
      <4> QED BY <3>1, <4>1, <1>2 DEF Page
    <3>2. CASE s # Sensor(q)
      BY <1>4, <3>2 DEF UpdateValues
    <3> QED BY <3>1, <3>2
  <2>2. upd.pc = "wake"
    <3>1. msr[Sensor(q)][t].last_update > ts[File(q)] /\ q \in wq[Sensor(q)]
      BY <1>4, <2>1 DEF UpdateValues
    <3> QED BY <3>1 DEF NoLostWakeup, NeedsRefresh
  <2> QED BY <1>4, <2>2 DEF UpdateValues
<1>5. CASE UpdateStamps
  <2>1. upd' = [pc |-> "wake", sensor |-> upd.sensor]
    BY <1>5 DEF UpdateStamps
  <2>2. CASE upd.sensor = Sensor(q)
    BY <2>1, <2>2
  <2>3. CASE upd.sensor # Sensor(q)
    <3>1. msr'[Sensor(q)] = msr[Sensor(q)] /\ wq' = wq
      BY <1>5, <2>3 DEF UpdateStamps
    <3>2. upd.pc = "wake"
      BY <3>1 DEF NoLostWakeup, NeedsRefresh
    <3> QED BY <1>5, <3>2 DEF UpdateStamps
  <2> QED BY <2>2, <2>3
<1>6. CASE WakeUp
  <2>1. msr' = msr /\ wq' = [wq EXCEPT ![upd.sensor] = {}]
    BY <1>6 DEF WakeUp
  <2>2. q \in wq[Sensor(q)] /\ Sensor(q) # upd.sensor
    BY <2>1
  <2>3. upd.sensor = Sensor(q)
    BY <2>1, <2>2 DEF NoLostWakeup, NeedsRefresh
  <2> QED BY <2>2, <2>3
<1> QED BY <1>3, <1>4, <1>5, <1>6 DEF SensorsStep, UpdaterStep

LEMMA NextWakeup == Typed /\ NoLostWakeup /\ [Next]_vars => NoLostWakeup'
<1> SUFFICES ASSUME Typed, NoLostWakeup, [Next]_vars PROVE NoLostWakeup'
  OBVIOUS
<1> USE DEF NoLostWakeup, NeedsRefresh, PageOf, Sensor, File
<1>1. CASE UNCHANGED vars
  BY <1>1 DEF vars, sensorVars, fileVars, readerVars
<1>2. ASSUME NEW f \in Files, Open(f) \/ Release(f) PROVE NoLostWakeup'
  <2>1. UNCHANGED <<sensorVars, pc>> /\ \A g \in Files \ {f} : UNCHANGED <<dev[g], ts[g]>>
    BY <1>2 DEF Open, Release, readerVars, Typed, TypeOK
  <2>2. \A r \in Readers : pc[r] = "sleep" => File(r) \in Files \ {f}
    BY <1>2, ChrdevAssumption DEF Open, Release, Typed, OpenInv
  <2> QED BY <2>1, <2>2 DEF sensorVars
<1>3. ASSUME NEW r \in Readers, ReadCall(r) \/ Signal(r) PROVE NoLostWakeup'
  BY <1>3 DEF ReadCall, Signal, Goto, sensorVars, fileVars, readerVars, Typed,
     TypeOK
<1> QED BY <1>1, <1>2, <1>3, ReaderStepWakeup, SensorsStepWakeup DEF Next

\* A reader that sleeps on an out-of-date file is about to be woken, however
\* the unlocked test of the time stamp races with the update, whatever signals
\* arrive and however many tasks share the file.
THEOREM WakeupTheorem == Spec => []NoLostWakeup
<1>1. Init => NoLostWakeup
  BY DEF Init, NoLostWakeup
<1> QED BY <1>1, InitTyped, NextTyped, NextWakeup, PTL DEF Spec

-----------------------------------------------------------------------------
(* Exclusion, with and without signals. *)

\* Every file has one reader.
PrivateFiles == \A r, q \in Readers : Handle[r] = Handle[q] => r = q

\* What the cache of a file needs: no signal has made a reader enter it without
\* the semaphore, or there is no other reader.
Exclusive == nsig = 0 \/ PrivateFiles

LEMMA ExclusiveCache ==
    ASSUME LockInv, Exclusive, NEW r \in Readers, NEW q \in Readers,
           r # q, File(r) = File(q)
    PROVE  ~ (Holding(r) /\ Holding(q))
BY DEF LockInv, Exclusive, PrivateFiles, File

\* Once broken, exclusion does not come back.
LEMMA ExclusiveBefore == Typed /\ [Next]_vars /\ Exclusive' => Exclusive
<1> SUFFICES ASSUME Typed, [Next]_vars, ~ PrivateFiles, nsig' = 0 PROVE nsig = 0
  BY DEF Exclusive, PrivateFiles
<1>0. nsig \in Nat
  BY ChrdevAssumption DEF Typed, TypeOK
<1>1. ASSUME NEW r \in Readers, ReaderStep(r) PROVE nsig' = nsig
  BY <1>1 DEF ReaderStep, Down, DownInterrupted, CheckFresh, CheckStale, Prepare,
     PrepareSignalled, Recheck, Wake, Redown, RedownInterrupted, SnapValue, SnapStamp,
     Format, CopyOut, CopyFault, Out, Return
<1>2. nsig' = nsig \/ nsig' = nsig + 1
  BY <1>1 DEF Next, Open, Release, ReadCall, Signal, SensorsStep, vars
<1> QED BY <1>0, <1>2

-----------------------------------------------------------------------------
(* No torn measurement. *)

\* Measurement n, stamped with the given time, was published for sensor s.
Matches(s, n, time) ==
    n # 0 => n \in 1 .. Len(log) /\ log[n] = [sensor |-> s, stamp |-> time]

\* The spinlock of a sensor is held by the updater between its two writes, and
\* by a reader between its two reads.
SpinInv ==
    /\ \A s \in Sensors :
         spin[s] = Updater <=> upd = [pc |-> "stamp", sensor |-> s]
    /\ \A r \in Readers : pc[r] = "stamp" => spin[Sensor(r)] = r

\* While the updater holds the lock the pages show the next measurement; else
\* each page is a published one, and so is what a reader has taken from it.
PageInv ==
    \A s \in Sensors, t \in Types :
        IF spin[s] = Updater
        THEN msr[s][t].value = Len(log) + 1
        ELSE Matches(s, msr[s][t].value, msr[s][t].last_update)

ValInv ==
    /\ \A r \in Readers : pc[r] = "stamp" => val[r] = PageOf(File(r)).value
    /\ Exclusive => \A r \in Readers :
         pc[r] = "format" => Matches(Sensor(r), val[r], ts[File(r)])

CacheInv ==
    Exclusive => \A f \in Files :
        /\ dev[f] # Closed
        /\ \A r \in Readers : File(r) = f => pc[r] # "format"
        => Matches(MinorSensor(dev[f]), text[f], ts[f])

SnapInv == SpinInv /\ PageInv /\ ValInv /\ CacheInv

LEMMA InitSnap == Init => SnapInv
<1> SUFFICES ASSUME Init PROVE SnapInv
  OBVIOUS
<1>1. \A s \in Sensors, t \in Types : msr[s][t].value = 0
  BY DEF Init, SensorsInit
<1>2. SpinInv
  BY SensorsAssumption DEF Init, SensorsInit, SpinInv, Updater, Free
<1>3. PageInv
  BY <1>1 DEF Init, SensorsInit, PageInv, Matches, Updater, Free
<1> QED BY <1>2, <1>3 DEF Init, SnapInv, ValInv, CacheInv, Matches

\* The steps of a reader: the two of the snapshot, the formatting, the rest.
LEMMA ReaderStepSnap ==
    ASSUME Typed, LockInv, SnapInv, NEW r \in Readers, ReaderStep(r)
    PROVE  SnapInv'
<1> DEFINE f == File(r)
<1>0. /\ f \in Files /\ dev[f] # Closed /\ pc[r] # "idle"
      /\ \A q \in Readers : File(q) \in Files
  BY ChrdevAssumption DEF ReaderStep, Typed, OpenInv, File, Down, DownInterrupted,
     CheckFresh, CheckStale, Prepare, PrepareSignalled, Recheck, Wake, Redown,
     RedownInterrupted, SnapValue, SnapStamp, Format, CopyOut, CopyFault, Out,
     Return
<1>1. Sensor(r) \in Sensors /\ MinorType(dev[f]) \in Types
  BY <1>0, PageType DEF Sensor
<1>2. UNCHANGED <<msr, upd, log, dev>> /\ (Exclusive' <=> Exclusive)
  BY DEF Exclusive, PrivateFiles, ReaderStep, sensorVars, fileVars, Down, DownInterrupted, CheckFresh,
     CheckStale, Prepare, PrepareSignalled, Recheck, Wake, Redown,
     RedownInterrupted, SnapValue, SnapStamp, Format, CopyOut, CopyFault, Out,
     Return
<1>3. \A s, n, time : Matches(s, n, time)' = Matches(s, n, time)
  BY <1>2 DEF Matches
<1>4. CASE SnapValue(r)
  <2>1. /\ pc[r] = "snap" /\ spin[Sensor(r)] = Free
        /\ spin' = [spin EXCEPT ![Sensor(r)] = r]
        /\ val' = [val EXCEPT ![r] = PageOf(f).value]
        /\ pc' = [pc EXCEPT ![r] = "stamp"]
        /\ UNCHANGED <<ts, text>>
    BY <1>4 DEF SnapValue, Goto, fileVars
  <2>2. SpinInv'
    <3>1. \A s \in Sensors : spin'[s] = Updater <=> spin[s] = Updater
      BY <2>1, <1>1, ChrdevAssumption
         DEF Typed, TypeOK, SensorsTypeOK, Updater, Free
    <3>2. spin'[Sensor(r)] = r
      BY <2>1, <1>1 DEF Typed, TypeOK, SensorsTypeOK
    <3>3. ASSUME NEW q \in Readers, q # r, pc[q] = "stamp"
          PROVE  spin'[Sensor(q)] = q
      <4>1. Sensor(q) \in Sensors /\ spin[Sensor(q)] = q
        BY <3>3, <1>0, PageType DEF Typed, OpenInv, SnapInv, SpinInv, Sensor
      <4>2. Sensor(q) # Sensor(r)
        BY <2>1, <4>1, ChrdevAssumption
      <4> QED BY <2>1, <4>1, <4>2 DEF Typed, TypeOK, SensorsTypeOK
    <3>4. \A q \in Readers \ {r} : pc'[q] = pc[q]
      BY <2>1 DEF Typed, TypeOK
    <3>5. \A q \in Readers : Sensor(q)' = Sensor(q)
      BY <1>2 DEF Sensor, File
    <3>6. \A s \in Sensors :
             spin'[s] = Updater <=> upd' = [pc |-> "stamp", sensor |-> s]
      BY <3>1, <1>2 DEF SnapInv, SpinInv
    <3>7. \A q \in Readers : pc'[q] = "stamp" => spin'[Sensor(q)'] = q
      BY <3>2, <3>3, <3>4, <3>5
    <3> QED BY ONLY <3>6, <3>7 DEF SpinInv
  <2>3. PageInv'
    <3>1. \A s \in Sensors : spin'[s] = Updater <=> spin[s] = Updater
      BY <2>1, <1>1, ChrdevAssumption
         DEF Typed, TypeOK, SensorsTypeOK, Updater, Free
    <3> QED BY <3>1, <1>2 DEF SnapInv, PageInv, Matches
  <2>4. ValInv'
    BY <2>1, <1>0, <1>2 DEF SnapInv, ValInv, Matches, Typed, TypeOK, PageOf, File, Sensor
  <2>5. CacheInv'
    BY <2>1, <1>0, <1>2 DEF SnapInv, CacheInv, Matches, Typed, TypeOK, File
  <2> QED BY <2>2, <2>3, <2>4, <2>5 DEF SnapInv
<1>5. CASE SnapStamp(r)
  <2>1. /\ pc[r] = "stamp"
        /\ ts' = [ts EXCEPT ![f] = PageOf(f).last_update]
        /\ spin' = [spin EXCEPT ![Sensor(r)] = Free]
        /\ pc' = [pc EXCEPT ![r] = "format"]
        /\ UNCHANGED <<val, text>>
    BY <1>5 DEF SnapStamp, Goto
  <2>2. spin[Sensor(r)] = r
    BY <2>1 DEF SnapInv, SpinInv
  <2>3. SpinInv'
    <3>1. \A s \in Sensors : spin'[s] = Updater <=> spin[s] = Updater
      BY <2>1, <2>2, <1>1, ChrdevAssumption
         DEF Typed, TypeOK, SensorsTypeOK, Updater, Free
    <3>2. ASSUME NEW q \in Readers, q # r, pc[q] = "stamp"
          PROVE  spin'[Sensor(q)] = q
      <4>1. Sensor(q) \in Sensors /\ spin[Sensor(q)] = q
        BY <3>2, <1>0, PageType DEF Typed, OpenInv, SnapInv, SpinInv, Sensor
      <4>2. Sensor(q) # Sensor(r)
        BY <2>2, <3>2, <4>1
      <4> QED BY <2>1, <4>1, <4>2 DEF Typed, TypeOK, SensorsTypeOK
    <3>3. \A q \in Readers : pc'[q] = "stamp" => q # r /\ pc[q] = "stamp"
      BY <2>1 DEF Typed, TypeOK
    <3>4. \A q \in Readers : Sensor(q)' = Sensor(q)
      BY <1>2 DEF Sensor, File
    <3>5. \A s \in Sensors :
             spin'[s] = Updater <=> upd' = [pc |-> "stamp", sensor |-> s]
      BY <3>1, <1>2 DEF SnapInv, SpinInv
    <3>6. \A q \in Readers : pc'[q] = "stamp" => spin'[Sensor(q)'] = q
      BY <3>2, <3>3, <3>4
    <3> QED BY ONLY <3>5, <3>6 DEF SpinInv
  <2>4. PageInv'
    BY <2>1, <2>2, <1>1, <1>2, <1>3, ChrdevAssumption
       DEF SnapInv, PageInv, Typed, TypeOK, SensorsTypeOK, Updater, Free, Matches
  <2>5. Matches(Sensor(r), val[r], PageOf(f).last_update)
    BY <2>1, <2>2, <1>1, ChrdevAssumption DEF SnapInv, PageInv, ValInv, PageOf, Sensor
  <2>6. Exclusive => \A q \in Readers : q # r /\ File(q) = f => pc[q] # "format"
    BY <2>1, ExclusiveCache DEF Holding, UsesCache
  <2>7. ValInv'
    BY <2>1, <2>5, <2>6, <1>0, <1>2
       DEF SnapInv, ValInv, Matches, Typed, TypeOK, PageOf, File, Sensor
  <2>8. CacheInv'
    BY <2>1, <1>0, <1>2 DEF SnapInv, CacheInv, Matches, Typed, TypeOK, File
  <2> QED BY <2>3, <2>4, <2>7, <2>8 DEF SnapInv
<1>6. CASE Format(r)
  <2>1. /\ pc[r] = "format"
        /\ text' = [text EXCEPT ![f] = val[r]]
        /\ pc' = [pc EXCEPT ![r] = "copy"]
        /\ UNCHANGED <<spin, val, ts>>
    BY <1>6 DEF Format, Goto, sensorVars
  <2>2. SpinInv' /\ PageInv'
    BY <2>1, <1>2 DEF SnapInv, SpinInv, PageInv, Matches, Sensor, File, Typed, TypeOK
  <2>3. ValInv'
    BY <2>1, <1>2 DEF SnapInv, ValInv, Matches, Typed, TypeOK, PageOf, File, Sensor
  <2>4. Exclusive => Matches(Sensor(r), val[r], ts[f])
    BY <2>1 DEF SnapInv, ValInv
  <2>5. ASSUME Exclusive, NEW g \in Files, dev[g] # Closed,
               \A q \in Readers : File(q) = g => pc'[q] # "format"
        PROVE  Matches(MinorSensor(dev[g]), text'[g], ts[g])
    <3>1. CASE g = f
      BY <3>1, <2>1, <2>4, <2>5 DEF Typed, TypeOK, Sensor
    <3>2. CASE g # f
      <4>1. \A q \in Readers : File(q) = g => pc[q] # "format"
        BY <2>1, <2>5, <3>2 DEF Typed, TypeOK
      <4> QED BY <2>1, <2>5, <3>2, <4>1 DEF SnapInv, CacheInv, Typed, TypeOK
    <3> QED BY <3>1, <3>2
  <2>6. CacheInv'
    BY <2>1, <2>5, <1>2, <1>3 DEF CacheInv, File, Matches
  <2> QED BY <2>2, <2>3, <2>6 DEF SnapInv
<1>7. CASE ~ (SnapValue(r) \/ SnapStamp(r) \/ Format(r))
  <2>1. UNCHANGED <<spin, ts, text>>
    BY <1>7 DEF ReaderStep, sensorVars, fileVars, Down, DownInterrupted,
       CheckFresh, CheckStale, Prepare, PrepareSignalled, Recheck, Wake, Redown,
       RedownInterrupted, CopyOut, CopyFault, Out, Return
  <2>2. \A q \in Readers \ {r} : pc'[q] = pc[q] /\ val'[q] = val[q]
    BY <1>7 DEF ReaderStep, Goto, Down, DownInterrupted,
       CheckFresh, CheckStale, Prepare, PrepareSignalled, Recheck, Wake, Redown,
       RedownInterrupted, CopyOut, CopyFault, Out, Return, Typed, TypeOK
  <2>3. /\ pc[r] \notin {"stamp", "format"}
        /\ pc'[r] \notin {"stamp", "format"}
    BY <1>7 DEF ReaderStep, Goto, Down, DownInterrupted,
       CheckFresh, CheckStale, Prepare, PrepareSignalled, Recheck, Wake, Redown,
       RedownInterrupted, CopyOut, CopyFault, Out, Return, Typed, TypeOK
  <2>4. SpinInv' /\ PageInv'
    BY <2>1, <2>2, <2>3, <1>2 DEF SnapInv, SpinInv, PageInv, Matches, Sensor, File
  <2>5. ValInv'
    BY <2>1, <2>2, <2>3, <1>2 DEF SnapInv, ValInv, Matches, PageOf, File, Sensor
  <2>6. CacheInv'
    BY <2>1, <2>2, <2>3, <1>2 DEF SnapInv, CacheInv, Matches, File
  <2> QED BY <2>4, <2>5, <2>6 DEF SnapInv
<1> QED BY <1>4, <1>5, <1>6, <1>7

LEMMA SensorsStepSnap ==
    ASSUME Typed, SnapInv, SensorsStep
    PROVE  SnapInv'
<1> USE DEF Typed, TypeOK, SensorsTypeOK
<1>0. UNCHANGED <<dev, ts, text, pc, val>> /\ (Exclusive' <=> Exclusive)
  BY DEF Exclusive, PrivateFiles, SensorsStep, fileVars, readerVars
<1>r. \A r \in Readers : pc[r] = "stamp" =>
        /\ Sensor(r) \in Sensors
        /\ MinorType(dev[File(r)]) \in Types
        /\ PageOf(File(r)) = msr[Sensor(r)][MinorType(dev[File(r)])]
        /\ spin[Sensor(r)] = r
  BY ChrdevAssumption, PageType DEF OpenInv, File, Sensor, PageOf, SnapInv, SpinInv
<1>1. CASE Tick
  BY <1>0, <1>1 DEF Tick, SnapInv, SpinInv, PageInv, ValInv, CacheInv, Matches,
     Sensor, File, PageOf
<1>2. ASSUME NEW s \in Sensors, UpdateValues(s) PROVE SnapInv'
  <2>1. /\ upd.pc = "idle" /\ upd' = [pc |-> "stamp", sensor |-> s]
        /\ spin[s] = Free /\ spin' = [spin EXCEPT ![s] = Updater]
        /\ log' = log
        /\ \A x \in Sensors \ {s} : msr'[x] = msr[x]
    BY <1>2 DEF UpdateValues
  <2>2. SpinInv'
    BY <1>0, <2>1, <1>r, ChrdevAssumption
       DEF SnapInv, SpinInv, Sensor, File, Updater, Free
  <2>3. PageInv'
    <3>1. \A t \in Types : msr'[s][t].value = Len(log) + 1
      <4>1. \A t \in Types : msr'[s][t] = [msr[s][t] EXCEPT !.value = Len(log) + 1]
        BY <1>2 DEF UpdateValues
      <4>2. \A t \in Types : msr[s][t] \in Page
        OBVIOUS
      <4> QED BY ONLY <4>1, <4>2 DEF Page
    <3> QED BY <2>1, <3>1, ChrdevAssumption DEF SnapInv, PageInv, Matches, Updater, Free
  <2>4. ValInv'
    <3>1. ASSUME NEW r \in Readers, pc[r] = "stamp"
          PROVE  val[r] = msr'[Sensor(r)][MinorType(dev[File(r)])].value
      <4>1. Sensor(r) # s
        BY <2>1, <3>1, <1>r, ChrdevAssumption
      <4> QED BY <2>1, <3>1, <4>1, <1>r DEF SnapInv, ValInv
    <3> QED BY <1>0, <2>1, <3>1 DEF SnapInv, ValInv, Matches, PageOf, Sensor, File
  <2>5. CacheInv'
    BY <1>0, <2>1 DEF SnapInv, CacheInv, Matches, File
  <2> QED BY <2>2, <2>3, <2>4, <2>5 DEF SnapInv
<1>3. CASE UpdateStamps
  <2> DEFINE s == upd.sensor
             entry == [sensor |-> s, stamp |-> now]
  <2>1. /\ upd = [pc |-> "stamp", sensor |-> s] /\ upd' = [pc |-> "wake", sensor |-> s]
        /\ s \in Sensors /\ spin[s] = Updater
        /\ spin' = [spin EXCEPT ![s] = Free]
        /\ log' = Append(log, entry)
        /\ \A x \in Sensors \ {s} : msr'[x] = msr[x]
        /\ \A t \in Types : msr'[s][t] = [msr[s][t] EXCEPT !.last_update = now]
    BY <1>3 DEF UpdateStamps, SnapInv, SpinInv
  <2>2. /\ Len(log') = Len(log) + 1
        /\ log'[Len(log) + 1] = entry
        /\ \A n \in 1 .. Len(log) : log'[n] = log[n]
    <3>1. entry \in Published
      BY <2>1 DEF Published
    <3> QED BY <2>1, <3>1
  <2>3. \A x, n, time : Matches(x, n, time) => Matches(x, n, time)'
    BY <2>2 DEF Matches
  <2>4. \A r \in Readers : pc[r] = "stamp" => Sensor(r) # s
    BY <2>1, <1>r, ChrdevAssumption
  <2>5. SpinInv'
    BY <1>0, <2>1, <2>4, <1>r, ChrdevAssumption
       DEF SnapInv, SpinInv, Sensor, File, Updater, Free
  <2>6. PageInv'
    <3>1. ASSUME NEW t \in Types
          PROVE  msr'[s][t].value = Len(log) + 1 /\ msr'[s][t].last_update = now
      <4>1. msr[s][t].value = Len(log) + 1
        BY <2>1 DEF SnapInv, PageInv
      <4>2. msr[s][t] \in Page
        BY <2>1
      <4> QED BY <2>1, <4>1, <4>2 DEF Page
    <3>2. \A t \in Types : Matches(s, msr[s][t].value, msr[s][t].last_update)'
      BY <2>1, <2>2, <3>1 DEF Matches
    <3>3. ASSUME NEW x \in Sensors, x # s, NEW t \in Types
          PROVE  spin'[x] # Updater /\ Matches(x, msr[x][t].value, msr[x][t].last_update)'
      <4>1. spin[x] # Updater /\ spin'[x] = spin[x]
        BY <2>1, <3>3 DEF SnapInv, SpinInv
      <4>2. Matches(x, msr[x][t].value, msr[x][t].last_update)
        BY <4>1 DEF SnapInv, PageInv
      <4>3. msr'[x][t] = msr[x][t]
        BY <2>1, <3>3
      <4> QED BY <2>2, <4>1, <4>2, <4>3 DEF Matches
    <3> QED BY <2>1, <3>2, <3>3, ChrdevAssumption DEF PageInv, Updater, Free
  <2>7. ValInv'
    <3>1. ASSUME NEW r \in Readers, pc[r] = "stamp"
          PROVE  val[r] = msr'[Sensor(r)][MinorType(dev[File(r)])].value
      BY <2>1, <2>4, <3>1, <1>r DEF SnapInv, ValInv
    <3> QED BY <1>0, <2>3, <3>1 DEF SnapInv, ValInv, PageOf, Sensor, File
  <2>8. CacheInv'
    BY <1>0, <2>3 DEF SnapInv, CacheInv, File
  <2> QED BY <2>5, <2>6, <2>7, <2>8 DEF SnapInv
<1>4. CASE WakeUp
  <2>1. /\ upd.pc = "wake" /\ upd'.pc = "idle"
        /\ UNCHANGED <<msr, spin, log>>
    BY <1>4 DEF WakeUp
  <2> QED BY <1>0, <2>1 DEF SnapInv, SpinInv, PageInv, ValInv, CacheInv, Matches,
          Sensor, File, PageOf
<1> QED BY <1>1, <1>2, <1>3, <1>4 DEF SensorsStep, UpdaterStep

LEMMA NextSnap == Typed /\ LockInv /\ SnapInv /\ [Next]_vars => SnapInv'
<1> SUFFICES ASSUME Typed, LockInv, SnapInv, [Next]_vars PROVE SnapInv'
  OBVIOUS
<1> USE DEF SnapInv, SpinInv, PageInv, ValInv, CacheInv, Matches, Sensor, PageOf, File
<1>1. CASE UNCHANGED vars
  BY <1>1 DEF vars, sensorVars, fileVars, readerVars, Exclusive, PrivateFiles
<1>2. ASSUME NEW f \in Files, Open(f) \/ Release(f) PROVE SnapInv'
  <2>1. /\ UNCHANGED <<sensorVars, pc, val>> /\ (Exclusive' <=> Exclusive)
        /\ \A g \in Files \ {f} : UNCHANGED <<dev[g], ts[g], text[g]>>
        /\ dev'[f] # Closed => text'[f] = 0
    BY <1>2 DEF Open, Release, readerVars, Typed, TypeOK, Exclusive, PrivateFiles
  <2>2. \A r \in Readers : pc[r] # "idle" => File(r) \in Files \ {f}
    BY <1>2, ChrdevAssumption DEF Open, Release, Typed, OpenInv
  <2>3. SpinInv' /\ PageInv'
    BY <2>1, <2>2 DEF sensorVars
  <2>4. ValInv'
    BY <2>1, <2>2 DEF sensorVars
  <2>5. CacheInv'
    BY <2>1, <2>2 DEF sensorVars
  <2> QED BY <2>3, <2>4, <2>5
<1>3. ASSUME NEW r \in Readers, ReadCall(r) \/ Signal(r) PROVE SnapInv'
  <2>1. /\ UNCHANGED <<sensorVars, dev, ts, text, val>>
        /\ \A q \in Readers : pc'[q] \in {"stamp", "format"} \/ pc[q] \in {"stamp", "format"}
                                => pc'[q] = pc[q]
        /\ Exclusive' => Exclusive
    BY <1>3, ExclusiveBefore
       DEF Next, ReadCall, Signal, Goto, fileVars, readerVars, Typed, TypeOK
  <2>2. SpinInv' /\ PageInv'
    BY <2>1 DEF sensorVars
  <2>3. ValInv'
    BY <2>1 DEF sensorVars
  <2>4. CacheInv'
    BY <2>1 DEF sensorVars
  <2> QED BY <2>2, <2>3, <2>4
<1> QED BY <1>1, <1>2, <1>3, ReaderStepSnap, SensorsStepSnap DEF Next

\* Until a signal is sent, the text and the time stamp cached in an open file
\* are those of one measurement of the file's own sensor.
THEOREM NoTornTheorem == Spec => []NoTornMeasurement
<1>1. Spec => [](Typed /\ LockInv /\ SnapInv)
  BY InitTyped, NextTyped, InitLock, NextLock, InitSnap, NextSnap, PTL DEF Spec
<1>2. SnapInv => NoTornMeasurement
  BY DEF SnapInv, CacheInv, Matches, NoTornMeasurement, Exclusive
<1> QED BY <1>1, <1>2, PTL

-----------------------------------------------------------------------------
(* The cached text never goes back. *)

OrderInv ==
    /\ \A f \in Files : dev[f] # Closed => text[f] <= PageOf(f).value
    /\ \A r \in Readers : pc[r] \in {"stamp", "format"} =>
         /\ val[r] <= PageOf(File(r)).value
         /\ Exclusive => text[File(r)] <= val[r]

\* The pages only ever move on to later measurements.
LEMMA SensorsStepOrder ==
    ASSUME Typed, SnapInv, OrderInv, SensorsStep
    PROVE  OrderInv'
<1> USE DEF Typed, TypeOK, SensorsTypeOK
<1>1. ASSUME NEW s \in Sensors, NEW t \in Types
      PROVE  msr'[s][t].value \in Nat /\ msr'[s][t].value >= msr[s][t].value
  <2>0. msr[s][t] \in Page /\ msr[s][t].value \in Nat
    BY SensorsAssumption DEF Page, Serial
  <2>1. CASE Tick \/ WakeUp
    BY <2>0, <2>1 DEF Tick, WakeUp
  <2>2. ASSUME NEW x \in Sensors, UpdateValues(x)
        PROVE  msr'[s][t].value \in Nat /\ msr'[s][t].value >= msr[s][t].value
    <3>1. CASE x = s
      <4>1. msr'[s][t] = [msr[s][t] EXCEPT !.value = Len(log) + 1] /\ spin[s] = Free
        BY <2>2, <3>1 DEF UpdateValues
      <4>2. msr'[s][t].value = Len(log) + 1
        BY <2>0, <4>1 DEF Page
      <4>3. Matches(s, msr[s][t].value, msr[s][t].last_update)
        BY <4>1 DEF SnapInv, PageInv, Updater, Free
      <4>4. msr[s][t].value <= Len(log)
        BY <2>0, <4>3 DEF Matches
      <4> QED BY <2>0, <4>2, <4>4
    <3>2. CASE x # s
      BY <2>0, <2>2, <3>2 DEF UpdateValues
    <3> QED BY <3>1, <3>2
  <2>3. CASE UpdateStamps
    <3>1. CASE upd.sensor = s
      <4>1. msr'[s][t] = [msr[s][t] EXCEPT !.last_update = now]
        BY <2>3, <3>1 DEF UpdateStamps
      <4> QED BY <2>0, <4>1 DEF Page
    <3>2. CASE upd.sensor # s
      BY <2>0, <2>3, <3>2 DEF UpdateStamps
    <3> QED BY <3>1, <3>2
  <2> QED BY <2>1, <2>2, <2>3 DEF SensorsStep, UpdaterStep
<1>2. UNCHANGED <<dev, text, pc, val>> /\ (Exclusive' <=> Exclusive)
  BY DEF Exclusive, PrivateFiles, SensorsStep, fileVars, readerVars
<1>3. ASSUME NEW f \in Files, dev[f] # Closed
      PROVE  /\ PageOf(f).value \in Nat
             /\ PageOf(f)'.value \in Nat
             /\ PageOf(f)'.value >= PageOf(f).value
  <2>1. MinorSensor(dev[f]) \in Sensors /\ MinorType(dev[f]) \in Types
    BY <1>3, PageType
  <2>2. PageOf(f).value \in Nat
    <3>1. PageOf(f) \in Page
      BY <1>3, PageType
    <3> QED BY ONLY <3>1, SensorsAssumption DEF Page, Serial
  <2> QED BY <1>1, <1>2, <2>1, <2>2 DEF PageOf
<1>4. \A f \in Files : text[f] \in Nat
  BY SensorsAssumption DEF Serial
<1>5. \A r \in Readers : val[r] \in Nat /\ File(r) \in Files
  BY SensorsAssumption, ChrdevAssumption DEF Serial, File
<1>6. \A f \in Files : dev[f] # Closed => text[f] <= PageOf(f)'.value
  <2> TAKE f \in Files
  <2> HAVE dev[f] # Closed
  <2>1. text[f] <= PageOf(f).value
    BY DEF OrderInv
  <2> QED BY <1>3, <1>4, <2>1
<1>7. \A r \in Readers : pc[r] \in {"stamp", "format"} => val[r] <= PageOf(File(r))'.value
  <2> TAKE r \in Readers
  <2> HAVE pc[r] \in {"stamp", "format"}
  <2>1. val[r] <= PageOf(File(r)).value
    BY DEF OrderInv
  <2>2. File(r) \in Files /\ dev[File(r)] # Closed
    BY <1>5 DEF OpenInv
  <2> QED BY <1>3, <1>5, <2>1, <2>2
<1> QED BY <1>2, <1>6, <1>7 DEF OrderInv, File

LEMMA ReaderStepOrder ==
    ASSUME Typed, LockInv, OrderInv, NEW r \in Readers, ReaderStep(r)
    PROVE  /\ OrderInv'
           /\ Exclusive => \A f \in Files : text'[f] >= text[f]
<1>0. /\ File(r) \in Files
      /\ \A f \in Files : text[f] \in Nat
      /\ \A q \in Readers : val[q] \in Nat
  BY ChrdevAssumption, SensorsAssumption DEF Typed, TypeOK, File, Serial
<1>1. UNCHANGED <<msr, dev>> /\ (Exclusive' <=> Exclusive)
  BY DEF Exclusive, PrivateFiles, ReaderStep, sensorVars, fileVars, Down, DownInterrupted, CheckFresh,
     CheckStale, Prepare, PrepareSignalled, Recheck, Wake, Redown,
     RedownInterrupted, SnapValue, SnapStamp, Format, CopyOut, CopyFault, Out,
     Return
<1>2. CASE SnapValue(r)
  <2>1. /\ pc[r] = "snap" /\ pc' = [pc EXCEPT ![r] = "stamp"]
        /\ val' = [val EXCEPT ![r] = PageOf(File(r)).value]
        /\ text' = text
    BY <1>2 DEF SnapValue, Goto, fileVars
  <2>2. dev[File(r)] # Closed
    BY <2>1 DEF Typed, OpenInv
  <2>3. PageOf(File(r)).value \in Nat
    <3>1. PageOf(File(r)) \in Page
      BY <1>0, <2>2, PageType
    <3> QED BY ONLY <3>1, SensorsAssumption DEF Page, Serial
  <2>4. \A q \in Readers : q # r => pc'[q] = pc[q] /\ val'[q] = val[q]
    BY <2>1 DEF Typed, TypeOK
  <2>5. val'[r] = PageOf(File(r)).value
    BY <2>1 DEF Typed, TypeOK
  <2>6. Exclusive => text[File(r)] <= val'[r]
    BY <1>0, <2>2, <2>5 DEF OrderInv
  <2>7. /\ \A g \in Files : PageOf(g)' = PageOf(g)
        /\ \A q \in Readers : File(q)' = File(q)
    BY <1>1 DEF PageOf, File
  <2>8. \A q \in Readers : pc'[q] \in {"stamp", "format"} =>
           /\ val'[q] <= PageOf(File(q)).value
           /\ Exclusive => text[File(q)] <= val'[q]
    <3> TAKE q \in Readers
    <3>1. CASE q = r
      BY <3>1, <2>3, <2>5, <2>6
    <3>2. CASE q # r
      BY <3>2, <2>4 DEF OrderInv
    <3> QED BY <3>1, <3>2
  <2>9. OrderInv'
    <3>1. \A q \in Readers : PageOf(File(q))' = PageOf(File(q))
      BY <1>1 DEF PageOf, File
    <3> QED BY <1>1, <2>1, <2>7, <2>8, <3>1 DEF OrderInv
  <2> QED BY <1>0, <2>1, <2>9
<1>3. CASE SnapStamp(r)
  <2>1. /\ pc[r] = "stamp" /\ pc' = [pc EXCEPT ![r] = "format"]
        /\ UNCHANGED <<val, text>>
    BY <1>3 DEF SnapStamp, Goto
  <2> QED BY <1>0, <1>1, <2>1 DEF OrderInv, Typed, TypeOK, PageOf, File
<1>4. CASE Format(r)
  <2>1. /\ pc[r] = "format" /\ pc' = [pc EXCEPT ![r] = "copy"]
        /\ text' = [text EXCEPT ![File(r)] = val[r]]
        /\ val' = val
    BY <1>4 DEF Format, Goto
  <2>2. val[r] <= PageOf(File(r)).value /\ (Exclusive => text[File(r)] <= val[r])
    BY <2>1 DEF OrderInv
  <2>3. Exclusive => \A q \in Readers : q # r /\ File(q) = File(r) =>
                       pc[q] \notin {"stamp", "format"}
    BY <2>1, ExclusiveCache DEF Holding, UsesCache
  <2>4. Exclusive => \A f \in Files : text'[f] >= text[f]
    BY <1>0, <2>1, <2>2 DEF Typed, TypeOK
  <2>5. \A f \in Files : dev[f] # Closed => text'[f] <= PageOf(f).value
    BY <1>0, <2>1, <2>2 DEF OrderInv, Typed, TypeOK
  <2>6. \A q \in Readers : pc'[q] \in {"stamp", "format"} =>
          /\ q # r /\ pc[q] = pc'[q]
          /\ Exclusive => text'[File(q)] = text[File(q)]
    BY <1>0, <2>1, <2>3 DEF Typed, TypeOK
  <2>7. OrderInv'
    BY <1>1, <2>1, <2>5, <2>6 DEF OrderInv, PageOf, File
  <2> QED BY <2>4, <2>7
<1>5. CASE ~ (SnapValue(r) \/ SnapStamp(r) \/ Format(r))
  <2>1. text' = text
    BY <1>5 DEF ReaderStep, fileVars, Down, DownInterrupted, CheckFresh,
       CheckStale, Prepare, PrepareSignalled, Recheck, Wake, Redown,
       RedownInterrupted, CopyOut, CopyFault, Out, Return
  <2>2. \A q \in Readers : pc'[q] \in {"stamp", "format"} =>
          pc[q] = pc'[q] /\ val'[q] = val[q]
    BY <1>5 DEF ReaderStep, Goto, Down, DownInterrupted, CheckFresh,
       CheckStale, Prepare, PrepareSignalled, Recheck, Wake, Redown,
       RedownInterrupted, CopyOut, CopyFault, Out, Return, Typed, TypeOK
  <2> QED BY <1>0, <1>1, <2>1, <2>2 DEF OrderInv, PageOf, File
<1> QED BY <1>2, <1>3, <1>4, <1>5

LEMMA NextOrder ==
    ASSUME Typed, LockInv, SnapInv, OrderInv, [Next]_vars
    PROVE  /\ OrderInv'
           /\ Exclusive' => \A f \in Files : dev'[f] = dev[f] => text'[f] >= text[f]
<1>0. \A f \in Files : text[f] \in Nat
  BY SensorsAssumption DEF Typed, TypeOK, Serial
<1>1. CASE UNCHANGED vars
  BY <1>0, <1>1 DEF vars, sensorVars, fileVars, readerVars, OrderInv, PageOf, File,
     Exclusive, PrivateFiles
<1>2. ASSUME NEW f \in Files, Open(f) \/ Release(f)
      PROVE  /\ OrderInv'
             /\ \A g \in Files : dev'[g] = dev[g] => text'[g] >= text[g]
  <2>1. /\ UNCHANGED <<msr, pc, val>> /\ (Exclusive' <=> Exclusive)
        /\ \A g \in Files \ {f} : UNCHANGED <<dev[g], text[g]>>
        /\ dev'[f] # Closed => text'[f] = 0
        /\ dev'[f] # dev[f]
    BY <1>2, ChrdevAssumption
       DEF Open, Release, readerVars, sensorVars, Typed, TypeOK, Closed, Exclusive,
           PrivateFiles
  <2>2. \A r \in Readers : pc[r] # "idle" => File(r) \in Files \ {f}
    BY <1>2, ChrdevAssumption DEF Open, Release, Typed, OpenInv, File
  <2>3. dev'[f] # Closed => PageOf(f)'.value \in Nat
    <3> SUFFICES ASSUME dev'[f] # Closed PROVE PageOf(f)'.value \in Nat
      OBVIOUS
    <3>1. PICK m \in Minors : dev'[f] = m /\ MinorType(m) < N_LUNIX_MSR
      BY <1>2 DEF Open, Release, Typed, TypeOK
    <3>2. MinorSensor(m) \in Sensors /\ MinorType(m) \in Types
      BY <3>1, MinorRange DEF Types, N_LUNIX_MSR
    <3>3. msr'[MinorSensor(m)][MinorType(m)] \in Page
      BY <2>1, <3>2 DEF Typed, TypeOK, SensorsTypeOK
    <3> QED BY <3>1, <3>3, SensorsAssumption DEF PageOf, Page, Serial
  <2> QED BY <1>0, <2>1, <2>2, <2>3 DEF OrderInv, PageOf, File
<1>3. ASSUME NEW r \in Readers, ReadCall(r) \/ Signal(r)
      PROVE  OrderInv' /\ text' = text
  <2>1. /\ UNCHANGED <<msr, dev, text, val>>
        /\ \A q \in Readers : pc'[q] \in {"stamp", "format"} => pc'[q] = pc[q]
        /\ Exclusive' => Exclusive
    BY <1>3, ExclusiveBefore
       DEF Next, ReadCall, Signal, Goto, sensorVars, fileVars, readerVars, Typed, TypeOK
  <2> QED BY <2>1 DEF OrderInv, PageOf, File
<1>4. CASE SensorsStep
  BY <1>0, <1>4, SensorsStepOrder DEF SensorsStep, fileVars
<1>5. ASSUME NEW r \in Readers, ReaderStep(r)
      PROVE  /\ OrderInv'
             /\ Exclusive' => \A f \in Files : text'[f] >= text[f]
  <2>1. Exclusive' => Exclusive
    BY <1>5, ExclusiveBefore DEF Next
  <2> QED BY <1>5, <2>1, ReaderStepOrder
<1> QED BY <1>0, <1>1, <1>2, <1>3, <1>4, <1>5 DEF Next

LEMMA InitOrder == Init => OrderInv
<1> SUFFICES ASSUME Init PROVE OrderInv
  OBVIOUS
<1>1. \A f \in Files : dev[f] = Closed
  BY DEF Init
<1>2. \A r \in Readers : pc[r] = "idle"
  BY DEF Init
<1> QED BY <1>1, <1>2 DEF OrderInv

\* Until a signal is sent, the cached text of an open file is never replaced by
\* that of an older measurement.
THEOREM TextNeverOlderTheorem == Spec => TextNeverOlder
<1>1. Spec => [](Typed /\ LockInv /\ SnapInv /\ OrderInv)
  BY InitOrder, InitTyped, NextTyped, InitLock, NextLock, InitSnap, NextSnap, NextOrder,
     PTL DEF Spec
<1>2. ASSUME Typed, LockInv, SnapInv, OrderInv, [Next]_vars
      PROVE  [nsig' = 0 => \A f \in Files : dev'[f] = dev[f] => text'[f] >= text[f]]_vars
  BY <1>2, NextOrder DEF Exclusive
<1> QED BY <1>1, <1>2, PTL DEF Spec, TextNeverOlder

=============================================================================

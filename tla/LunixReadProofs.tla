-------------------------- MODULE LunixReadProofs ---------------------------
(***************************************************************************)
(* Proofs about what read(2) delivers: news are seen as long as readers    *)
(* have the cache of a file to themselves, and a reader that does not      *)
(* share its file reads whole texts, with signals and faults.              *)
(***************************************************************************)
EXTENDS LunixChrdevProofs

-----------------------------------------------------------------------------
(* Stamps *)

\* The clock, the stamps on the pages and in the log: none is in the future, and
\* each measurement is MinGap later than those before it.
StampInv ==
    /\ now >= 1
    /\ \A s \in Sensors, t \in Types :
         /\ msr[s][t].last_update <= now
         /\ msr[s][t].value = 0 => msr[s][t].last_update = 0
    /\ \A n \in 1 .. Len(log) : log[n].stamp >= 1 /\ log[n].stamp <= now
    /\ \A m, n \in 1 .. Len(log) : m < n => log[m].stamp + MinGap <= log[n].stamp
    /\ upd.pc = "stamp" => \A n \in 1 .. Len(log) : log[n].stamp + MinGap <= now

\* A reader that takes a snapshot has found news, and what it formats is newer
\* than the text it replaces.
FreshInv ==
    Exclusive =>
        /\ \A r \in Readers : pc[r] \in {"snap", "stamp"} => NeedsRefresh(File(r))
        /\ \A r \in Readers : pc[r] = "format" => val[r] > text[File(r)]
        /\ \A f \in Files :
             /\ dev[f] # Closed /\ text[f] = 0
             /\ \A r \in Readers : File(r) = f => pc[r] # "format"
             => ts[f] = 0

LEMMA LogType ==
    ASSUME Typed, NEW n \in 1 .. Len(log)
    PROVE  log[n].stamp \in Nat
<1>1. log \in Seq(Published)
  BY DEF Typed, TypeOK, SensorsTypeOK
<1>2. log[n] \in Published
  BY ONLY <1>1, n \in 1 .. Len(log)
<1> QED BY ONLY <1>2 DEF Published

LEMMA InitStamp == Init => StampInv
BY DEF Init, SensorsInit, StampInv

LEMMA TickStamp ==
    ASSUME Typed, StampInv, Tick
    PROVE  StampInv'
<1> USE SensorsAssumption DEF Typed, TypeOK, SensorsTypeOK, Tick
<1>1. now' = now + 1 /\ now \in Nat /\ MinGap \in Nat
  OBVIOUS
<1>2. \A s \in Sensors, t \in Types : msr[s][t].last_update \in Nat
  BY DEF Page
<1>3. \A n \in 1 .. Len(log) : log[n].stamp \in Nat
  BY LogType
<1>4. UNCHANGED <<msr, log, upd>>
  OBVIOUS
<1> QED BY ONLY <1>1, <1>2, <1>3, <1>4, StampInv DEF StampInv

LEMMA UpdateValuesStamp ==
    ASSUME Typed, StampInv, NEW x \in Sensors, UpdateValues(x)
    PROVE  StampInv'
<1>n. \A n \in 1 .. Len(log) : log[n].stamp \in Nat
  BY LogType
<1> USE SensorsAssumption DEF Typed, TypeOK, SensorsTypeOK
<1>0. /\ upd' = [pc |-> "stamp", sensor |-> x] /\ UNCHANGED <<now, log>>
      /\ now >= LastStamp + MinGap /\ now \in Nat /\ MinGap \in Nat
  BY DEF UpdateValues
<1>1. ASSUME NEW s \in Sensors, NEW t \in Types
      PROVE  /\ msr'[s][t].last_update = msr[s][t].last_update
             /\ msr'[s][t].value = 0 => msr[s][t].value = 0
  <2>1. CASE s = x
    <3>1. msr'[s][t] = [msr[s][t] EXCEPT !.value = Len(log) + 1] /\ msr[s][t] \in Page
      BY <2>1 DEF UpdateValues
    <3> QED BY <3>1 DEF Page
  <2>2. CASE s # x
    BY <2>2 DEF UpdateValues
  <2> QED BY <2>1, <2>2
<1>2. ASSUME NEW n \in 1 .. Len(log) PROVE log[n].stamp + MinGap <= now
  <2>1. LastStamp = log[Len(log)].stamp /\ Len(log) \in 1 .. Len(log)
    <3>1. log \in Seq(Published)
      OBVIOUS
    <3>2. Len(log) \in 1 .. Len(log) /\ log # <<>>
      BY ONLY <3>1, n \in 1 .. Len(log)
    <3> QED BY ONLY <3>2 DEF LastStamp
  <2>2. log[n].stamp \in Nat /\ LastStamp \in Nat
    BY ONLY <1>n, <2>1, n \in 1 .. Len(log)
  <2>3. CASE n = Len(log)
    BY <1>0, <2>1, <2>2, <2>3
  <2>4. CASE n < Len(log)
    <3>1. log[n].stamp + MinGap <= LastStamp
      BY <2>1, <2>4 DEF StampInv
    <3> QED BY <1>0, <2>2, <3>1
  <2> QED BY <2>3, <2>4
<1>3. UNCHANGED <<now, log>>
  BY ONLY <1>0
<1> QED BY ONLY <1>1, <1>2, <1>3, StampInv DEF StampInv

LEMMA UpdateStampsStamp ==
    ASSUME Typed, SnapInv, StampInv, UpdateStamps
    PROVE  StampInv'
<1> USE SensorsAssumption DEF Typed, TypeOK, SensorsTypeOK
<1> DEFINE x == upd.sensor
           entry == [sensor |-> x, stamp |-> now]
<1>0. /\ x \in Sensors /\ upd = [pc |-> "stamp", sensor |-> x] /\ upd'.pc = "wake"
      /\ now' = now /\ now \in Nat /\ MinGap \in Nat /\ now >= 1
      /\ log' = Append(log, entry) /\ entry \in Published
  BY DEF UpdateStamps, Published, StampInv
<1>1. ASSUME NEW s \in Sensors, NEW t \in Types
      PROVE  /\ msr'[s][t].last_update <= now
             /\ msr'[s][t].value = 0 => msr'[s][t].last_update = 0
  <2>1. CASE s = x
    <3>1. msr'[s][t] = [msr[s][t] EXCEPT !.last_update = now] /\ msr[s][t] \in Page
      BY <2>1 DEF UpdateStamps
    <3>2. spin[s] = Updater
      BY <1>0, <2>1 DEF SnapInv, SpinInv
    <3>3. msr[s][t].value = Len(log) + 1
      BY <3>2 DEF SnapInv, PageInv
    <3>4. Len(log) + 1 # 0
      OBVIOUS
    <3> QED BY <1>0, <3>1, <3>3, <3>4 DEF Page
  <2>2. CASE s # x
    BY <2>2 DEF UpdateStamps, StampInv
  <2> QED BY <2>1, <2>2
<1>2. /\ Len(log') = Len(log) + 1 /\ Len(log) \in Nat
      /\ log'[Len(log) + 1].stamp = now
      /\ \A n \in 1 .. Len(log) : log'[n] = log[n] /\ log[n].stamp \in Nat
  BY <1>0, LogType
<1>3. \A n \in 1 .. Len(log) : log[n].stamp >= 1 /\ log[n].stamp + MinGap <= now
  <2>1. upd.pc = "stamp"
    BY ONLY <1>0
  <2> QED BY ONLY <2>1, StampInv DEF StampInv
<1>4. \A n \in 1 .. Len(log') : log'[n].stamp >= 1 /\ log'[n].stamp <= now
  BY <1>0, <1>2, <1>3
<1>5. ASSUME NEW m \in 1 .. Len(log'), NEW n \in 1 .. Len(log'), m < n
      PROVE  log'[m].stamp + MinGap <= log'[n].stamp
  <2>1. CASE n = Len(log) + 1
    <3>1. m \in 1 .. Len(log)
      BY <1>2, <1>5, <2>1
    <3> QED BY <1>2, <1>3, <2>1, <3>1
  <2>2. CASE n # Len(log) + 1
    <3>1. m \in 1 .. Len(log) /\ n \in 1 .. Len(log)
      BY ONLY <1>2, <1>5, <2>2, m \in 1 .. Len(log'), n \in 1 .. Len(log')
    <3> QED BY <1>2, <1>5, <3>1 DEF StampInv
  <2> QED BY <2>1, <2>2
<1> QED BY <1>0, <1>1, <1>4, <1>5 DEF StampInv

\* Nobody but the updater and the clock changes what StampInv is about.
LEMMA NextStamp == Typed /\ SnapInv /\ StampInv /\ [Next]_vars => StampInv'
<1> SUFFICES ASSUME Typed, SnapInv, StampInv, [Next]_vars PROVE StampInv'
  OBVIOUS
<1>1. CASE UNCHANGED <<now, msr, log, upd>>
  BY <1>1 DEF StampInv
<1>2. CASE SensorsStep
  <2>1. CASE WakeUp
    BY <2>1 DEF WakeUp, StampInv, Typed, TypeOK, SensorsTypeOK
  <2> QED BY <1>2, <2>1, TickStamp, UpdateValuesStamp, UpdateStampsStamp
          DEF SensorsStep, UpdaterStep
<1>3. ASSUME NEW r \in Readers, ReaderStep(r) PROVE UNCHANGED <<now, msr, log, upd>>
  BY <1>3 DEF ReaderStep, sensorVars, Down, DownInterrupted, CheckFresh, CheckStale,
     Prepare, PrepareSignalled, Recheck, Wake, Redown, RedownInterrupted, SnapValue,
     SnapStamp, Format, CopyOut, CopyFault, Out, Return
<1> QED BY <1>1, <1>2, <1>3
        DEF Next, vars, sensorVars, Open, Release, ReadCall, Signal

-----------------------------------------------------------------------------
(* News *)

\* The stamp of a page only grows.
LEMMA PageStampGrows ==
    ASSUME Typed, StampInv, SensorsStep, NEW s \in Sensors, NEW t \in Types
    PROVE  /\ msr[s][t].last_update \in Nat /\ msr'[s][t].last_update \in Nat
           /\ msr'[s][t].last_update >= msr[s][t].last_update
<1> USE DEF Typed, TypeOK, SensorsTypeOK
<1>0. /\ msr[s][t] \in Page /\ msr[s][t].last_update \in Nat /\ now \in Nat
      /\ msr[s][t].last_update <= now
  BY DEF Page, StampInv
<1>1. CASE Tick \/ WakeUp
  BY <1>0, <1>1 DEF Tick, WakeUp
<1>2. ASSUME NEW x \in Sensors, UpdateValues(x) PROVE msr'[s][t].last_update = msr[s][t].last_update
  <2>1. msr'[s][t] = msr[s][t] \/ msr'[s][t] = [msr[s][t] EXCEPT !.value = Len(log) + 1]
    BY <1>2 DEF UpdateValues
  <2> QED BY <1>0, <2>1 DEF Page
<1>3. CASE UpdateStamps
  <2>1. msr'[s][t] = msr[s][t] \/ msr'[s][t] = [msr[s][t] EXCEPT !.last_update = now]
    BY <1>3 DEF UpdateStamps
  <2> QED BY <1>0, <2>1 DEF Page
<1> QED BY <1>0, <1>1, <1>2, <1>3 DEF SensorsStep, UpdaterStep

LEMMA SensorsStepFresh ==
    ASSUME Typed, StampInv, FreshInv, SensorsStep
    PROVE  FreshInv'
<1>1. UNCHANGED <<dev, ts, text, pc, val>> /\ (Exclusive' <=> Exclusive)
  BY DEF SensorsStep, fileVars, readerVars, Exclusive, PrivateFiles
<1>2. ASSUME NEW r \in Readers, pc[r] \in {"snap", "stamp"}, NeedsRefresh(File(r))
      PROVE  NeedsRefresh(File(r))'
  <2> DEFINE f == File(r)
  <2>1. /\ f \in Files /\ dev[f] # Closed
        /\ MinorSensor(dev[f]) \in Sensors /\ MinorType(dev[f]) \in Types
    BY <1>2, PageType, ChrdevAssumption DEF Typed, OpenInv, File
  <2>2. ts[f] \in Nat
    BY <2>1 DEF Typed, TypeOK
  <2>3. msr[MinorSensor(dev[f])][MinorType(dev[f])].last_update > ts[f]
    BY <1>2 DEF NeedsRefresh, PageOf
  <2>4. msr'[MinorSensor(dev[f])][MinorType(dev[f])].last_update > ts[f]
    BY <2>1, <2>2, <2>3, PageStampGrows
  <2> QED BY <1>1, <2>4 DEF NeedsRefresh, PageOf, File
<1> QED BY <1>1, <1>2 DEF FreshInv, File

LEMMA ReaderStepFresh ==
    ASSUME Typed, LockInv, SnapInv, OrderInv, StampInv, FreshInv,
           NEW r \in Readers, ReaderStep(r)
    PROVE  FreshInv'
<1> DEFINE f == File(r)
<1>0. /\ f \in Files /\ \A q \in Readers : File(q) \in Files
      /\ pc[r] # "idle" => dev[f] # Closed
      /\ pc \in [Readers -> Labels] /\ val \in [Readers -> Serial]
      /\ ts \in [Files -> Nat] /\ text \in [Files -> Serial]
  BY ChrdevAssumption DEF File, Typed, OpenInv, TypeOK
<1>1. UNCHANGED <<msr, dev>> /\ (Exclusive' <=> Exclusive)
  BY DEF Exclusive, PrivateFiles, ReaderStep, sensorVars, fileVars, Down,
     DownInterrupted, CheckFresh, CheckStale, Prepare, PrepareSignalled, Recheck, Wake,
     Redown, RedownInterrupted, SnapValue, SnapStamp, Format, CopyOut, CopyFault, Out,
     Return
<1> SUFFICES ASSUME Exclusive
             PROVE  /\ \A q \in Readers : pc'[q] \in {"snap", "stamp"} => NeedsRefresh(File(q))'
                    /\ \A q \in Readers : pc'[q] = "format" => val'[q] > text'[File(q)]
                    /\ \A g \in Files :
                         /\ dev[g] # Closed /\ text'[g] = 0
                         /\ \A q \in Readers : File(q) = g => pc'[q] # "format"
                         => ts'[g] = 0
  BY <1>1 DEF FreshInv, File
<1>2. /\ \A q \in Readers : pc[q] \in {"snap", "stamp"} => NeedsRefresh(File(q))
      /\ \A q \in Readers : pc[q] = "format" => val[q] > text[File(q)]
      /\ \A g \in Files :
           /\ dev[g] # Closed /\ text[g] = 0
           /\ \A q \in Readers : File(q) = g => pc[q] # "format"
           => ts[g] = 0
  BY DEF FreshInv
<1>3. pc[r] \in {"stamp", "format"} =>
        \A q \in Readers : q # r /\ File(q) = f => pc[q] \notin {"snap", "stamp", "format"}
  BY ExclusiveCache DEF Holding, UsesCache
<1>4. CASE CheckFresh(r) \/ SnapValue(r)
  <2>1. /\ UNCHANGED <<ts, text>>
        /\ \A q \in Readers : q # r => pc'[q] = pc[q] /\ val'[q] = val[q]
        /\ pc[r] \in {"check", "snap"} /\ pc'[r] \in {"snap", "stamp"} /\ NeedsRefresh(f)
    BY <1>0, <1>2, <1>4 DEF CheckFresh, SnapValue, Goto, fileVars
  <2>2. \A q \in Readers : pc'[q] \in {"snap", "stamp"} => NeedsRefresh(File(q))'
    BY <1>1, <1>2, <2>1 DEF NeedsRefresh, PageOf, File
  <2>3. \A q \in Readers : pc[q] = "format" <=> pc'[q] = "format"
    BY <2>1
  <2> QED BY <1>2, <2>1, <2>2, <2>3
<1>5. CASE SnapStamp(r)
  <2>1. /\ pc[r] = "stamp" /\ pc' = [pc EXCEPT ![r] = "format"]
        /\ ts' = [ts EXCEPT ![f] = PageOf(f).last_update]
        /\ UNCHANGED <<val, text>>
    BY <1>5 DEF SnapStamp, Goto
  <2>2. val[r] > text[f]
    <3>1. /\ dev[f] # Closed /\ MinorSensor(dev[f]) \in Sensors
          /\ MinorType(dev[f]) \in Types
          /\ PageOf(f) = msr[MinorSensor(dev[f])][MinorType(dev[f])]
      BY <1>0, <2>1, PageType DEF PageOf
    <3>2. PageOf(f).last_update > ts[f] /\ ts[f] \in Nat
      BY <1>0, <1>2, <2>1 DEF NeedsRefresh
    <3>3. val[r] = PageOf(f).value
      BY <2>1 DEF SnapInv, ValInv
    <3>4. val[r] # 0
      BY <3>1, <3>2, <3>3 DEF StampInv
    <3>5. spin[MinorSensor(dev[f])] = r /\ r # Updater
      BY <2>1, ChrdevAssumption DEF SnapInv, SpinInv, Sensor
    <3>6. Matches(MinorSensor(dev[f]), val[r], PageOf(f).last_update)
      BY <3>1, <3>3, <3>5 DEF SnapInv, PageInv
    <3>7. Matches(MinorSensor(dev[f]), text[f], ts[f])
      BY <1>0, <1>3, <2>1, <3>1 DEF SnapInv, CacheInv
    <3>8. text[f] # 0 => text[f] # val[r]
      <4>1. text[f] # 0 => log[text[f]].stamp = ts[f]
        BY <3>7 DEF Matches
      <4>2. log[val[r]].stamp = PageOf(f).last_update
        BY <3>4, <3>6 DEF Matches
      <4> QED BY <3>2, <4>1, <4>2
    <3>9. text[f] <= val[r] /\ text[f] \in Nat /\ val[r] \in Nat
      BY <1>0, <2>1, SensorsAssumption DEF OrderInv, Serial
    <3> QED BY <3>4, <3>8, <3>9
  <2>3. \A q \in Readers : q # r => pc'[q] = pc[q]
    BY <1>0, <2>1
  <2>4. pc'[r] = "format" /\ \A g \in Files : g # f => ts'[g] = ts[g]
    BY <1>0, <2>1
  <2>5. ASSUME NEW q \in Readers, pc'[q] \in {"snap", "stamp"} PROVE NeedsRefresh(File(q))'
    <3>1. q # r /\ pc[q] \in {"snap", "stamp"} /\ File(q) # f
      BY <1>3, <2>1, <2>3, <2>4, <2>5
    <3> QED BY <1>0, <1>1, <1>2, <2>4, <3>1 DEF NeedsRefresh, PageOf, File
  <2>6. \A q \in Readers : pc'[q] = "format" => val'[q] > text'[File(q)]
    BY <1>2, <2>1, <2>2, <2>3
  <2>7. \A g \in Files :
           /\ dev[g] # Closed /\ text'[g] = 0
           /\ \A q \in Readers : File(q) = g => pc'[q] # "format"
           => ts'[g] = 0
    BY <1>2, <2>1, <2>3, <2>4
  <2> QED BY <2>5, <2>6, <2>7
<1>6. CASE Format(r)
  <2>1. /\ pc[r] = "format" /\ pc' = [pc EXCEPT ![r] = "copy"]
        /\ text' = [text EXCEPT ![f] = val[r]]
        /\ UNCHANGED <<val, ts>>
    BY <1>6 DEF Format, Goto
  <2>2. text'[f] # 0
    <3>1. val[r] > text[f] /\ text[f] \in Nat
      BY <1>0, <1>2, <2>1, SensorsAssumption DEF Serial
    <3> QED BY <1>0, <2>1, <3>1
  <2>3. /\ \A q \in Readers : q # r => pc'[q] = pc[q]
        /\ pc'[r] = "copy" /\ \A g \in Files : g # f => text'[g] = text[g]
    BY <1>0, <2>1
  <2>4. \A q \in Readers : pc'[q] \in {"snap", "stamp"} => NeedsRefresh(File(q))'
    BY <1>1, <1>2, <2>1, <2>3 DEF NeedsRefresh, PageOf, File
  <2>5. \A q \in Readers : pc'[q] = "format" => val'[q] > text'[File(q)]
    <3> SUFFICES ASSUME NEW q \in Readers, pc'[q] = "format" PROVE val[q] > text'[File(q)]
      BY <2>1
    <3>1. q # r /\ pc[q] = "format" /\ File(q) # f
      BY <1>3, <2>1, <2>3
    <3> QED BY <1>0, <1>2, <2>3, <3>1
  <2>6. \A g \in Files :
           /\ dev[g] # Closed /\ text'[g] = 0
           /\ \A q \in Readers : File(q) = g => pc'[q] # "format"
           => ts'[g] = 0
    BY <1>2, <2>1, <2>2, <2>3
  <2> QED BY <2>4, <2>5, <2>6
<1>7. CASE ~ (CheckFresh(r) \/ SnapValue(r) \/ SnapStamp(r) \/ Format(r))
  <2>1. UNCHANGED <<ts, text>>
    BY <1>7 DEF ReaderStep, fileVars, Down, DownInterrupted, CheckStale, Prepare,
       PrepareSignalled, Recheck, Wake, Redown, RedownInterrupted, CopyOut, CopyFault,
       Out, Return
  <2>2. /\ \A q \in Readers : q # r => pc'[q] = pc[q] /\ val'[q] = val[q]
        /\ pc[r] \notin {"snap", "stamp", "format"}
        /\ pc'[r] \notin {"snap", "stamp", "format"}
    BY <1>0, <1>7 DEF ReaderStep, Goto, Down, DownInterrupted, CheckStale, Prepare,
       PrepareSignalled, Recheck, Wake, Redown, RedownInterrupted, CopyOut, CopyFault,
       Out, Return
  <2>3. \A q \in Readers : pc'[q] \in {"snap", "stamp"} => NeedsRefresh(File(q))'
    BY <1>1, <1>2, <2>1, <2>2 DEF NeedsRefresh, PageOf, File
  <2> QED BY <1>2, <2>1, <2>2, <2>3
<1> QED BY <1>4, <1>5, <1>6, <1>7

LEMMA NextFresh ==
    ASSUME Typed, LockInv, SnapInv, OrderInv, StampInv, FreshInv, [Next]_vars
    PROVE  FreshInv'
<1>1. CASE UNCHANGED vars
  BY <1>1 DEF vars, sensorVars, fileVars, readerVars, FreshInv, NeedsRefresh, PageOf,
     File, Exclusive, PrivateFiles
<1>2. ASSUME NEW f \in Files, Open(f) \/ Release(f) PROVE FreshInv'
  <2>1. /\ UNCHANGED <<msr, pc, val>> /\ (Exclusive' <=> Exclusive)
        /\ \A g \in Files \ {f} : UNCHANGED <<dev[g], ts[g], text[g]>>
        /\ dev'[f] # Closed => ts'[f] = 0
    BY <1>2 DEF Open, Release, readerVars, sensorVars, Typed, TypeOK, Exclusive,
       PrivateFiles
  <2>2. \A r \in Readers : pc[r] # "idle" => File(r) \in Files \ {f}
    BY <1>2, ChrdevAssumption DEF Open, Release, Typed, OpenInv, File
  <2> QED BY <2>1, <2>2 DEF FreshInv, NeedsRefresh, PageOf, File
<1>3. ASSUME NEW r \in Readers, ReadCall(r) \/ Signal(r) PROVE FreshInv'
  <2>1. /\ UNCHANGED <<msr, dev, ts, text, val>> /\ (Exclusive' => Exclusive)
        /\ \A q \in Readers : \/ pc'[q] = pc[q]
                              \/ /\ pc'[q] \notin {"snap", "stamp", "format"}
                                 /\ pc[q] \notin {"snap", "stamp", "format"}
    BY <1>3, ExclusiveBefore
       DEF Next, ReadCall, Signal, Goto, sensorVars, fileVars, readerVars, Typed, TypeOK
  <2> QED BY <2>1 DEF FreshInv, NeedsRefresh, PageOf, File
<1> QED BY <1>1, <1>2, <1>3, SensorsStepFresh, ReaderStepFresh DEF Next

LEMMA InitFresh == Init => FreshInv
BY DEF Init, FreshInv

CachedInv ==
    Typed /\ LockInv /\ SnapInv /\ OrderInv /\ StampInv /\ FreshInv

LEMMA CachedTheorem == Spec => []CachedInv
<1>1. Init => CachedInv
  BY InitTyped, InitLock, InitSnap, InitOrder, InitStamp, InitFresh DEF CachedInv
<1>2. CachedInv /\ [Next]_vars => CachedInv'
  BY NextTyped, NextLock, NextSnap, NextOrder, NextStamp, NextFresh DEF CachedInv
<1> QED BY <1>1, <1>2, PTL DEF Spec

\* In a quiet moment a file whose text is not the newest has an older stamp.
LEMMA OlderText ==
    ASSUME CachedInv, Exclusive, MinGap >= 1, upd.pc = "idle", NEW f \in Files,
           dev[f] # Closed, \A r \in Readers : File(r) = f => ~ UsesCache(r)
    PROVE  text[f] = PageOf(f).value \/ NeedsRefresh(f)
<1> DEFINE s == MinorSensor(dev[f])
           page == PageOf(f)
<1>0. /\ s \in Sensors /\ MinorType(dev[f]) \in Types /\ page \in Page
      /\ page = msr[s][MinorType(dev[f])]
      /\ text[f] \in Nat /\ ts[f] \in Nat /\ page.value \in Nat
      /\ page.last_update \in Nat
  BY PageType, SensorsAssumption DEF CachedInv, Typed, TypeOK, PageOf, Page, Serial
<1> SUFFICES ASSUME text[f] # page.value PROVE page.last_update > ts[f]
  BY DEF NeedsRefresh
<1>1. \A r \in Readers : File(r) = f => pc[r] # "format"
  BY DEF UsesCache
<1>2. Matches(s, text[f], ts[f])
  BY <1>1 DEF CachedInv, SnapInv, CacheInv
<1>3. spin[s] # Updater
  BY <1>0 DEF CachedInv, SnapInv, SpinInv
<1>4. Matches(s, page.value, page.last_update)
  BY <1>0, <1>3 DEF CachedInv, SnapInv, PageInv
<1>5. text[f] < page.value
  <2>1. text[f] <= page.value
    BY DEF CachedInv, OrderInv
  <2> QED BY <1>0, <2>1
<1>6. page.value \in 1 .. Len(log) /\ log[page.value].stamp = page.last_update
  BY <1>0, <1>4, <1>5 DEF Matches
<1>7. CASE text[f] = 0
  <2>1. ts[f] = 0
    BY <1>1, <1>7 DEF CachedInv, FreshInv
  <2>2. page.last_update >= 1
    BY <1>6 DEF CachedInv, StampInv
  <2> QED BY <1>0, <2>1, <2>2
<1>8. CASE text[f] # 0
  <2>1. text[f] \in 1 .. Len(log) /\ log[text[f]].stamp = ts[f]
    BY <1>2, <1>8 DEF Matches
  <2>2. log[text[f]].stamp + MinGap <= log[page.value].stamp
    BY <1>5, <1>6, <2>1 DEF CachedInv, StampInv
  <2> QED BY <1>0, <1>6, <2>1, <2>2, SensorsAssumption
<1> QED BY <1>7, <1>8

\* When measurements are at least a second apart, a file that nobody is at work
\* on shows the newest one or knows that it does not: for any readers until a
\* signal is sent, and with signals for those that do not share their file.
THEOREM StaleTheorem ==
    ASSUME MinGap >= 1
    PROVE  Spec => [](Exclusive => StaleIsDetected)
<1>1. CachedInv => (Exclusive => StaleIsDetected)
  BY OlderText DEF StaleIsDetected
<1> QED BY <1>1, CachedTheorem, PTL

-----------------------------------------------------------------------------
(* Positions *)

Refreshing == {"check", "prepare", "recheck", "sleep", "redown", "snap", "stamp", "format"}

\* The position that the next call of a reader begins at, if the one under way
\* does not get to copy (any more).
NextPos(r) ==
    IF pc[r] \in {"out", "return"} /\ ret[r] >= 0 THEN pos[r] ELSE fpos[File(r)]

TextEnd(n) == IF n = 0 THEN 0 ELSE TextLen[n]

\* A position is in the text; a reader that refreshes the text is at 0.
FilePos(f) == dev[f] # Closed => fpos[f] >= 0 /\ fpos[f] <= Lim(f)

ReaderPos(r) ==
    /\ pc[r] \in Refreshing \cup {"down", "copy"} => pos[r] = fpos[File(r)] /\ cnt[r] >= 0
    /\ pc[r] \in Refreshing => pos[r] = 0
    /\ pc[r] \in {"out", "return"} /\ ret[r] >= 0 => pos[r] >= 0 /\ pos[r] <= Lim(File(r))

\* How what a reader got last goes with the text and the position.
LastRead(r) ==
    dev[File(r)] # Closed =>
        /\ got[r].n <= text[File(r)]
        /\ pc[r] = "copy" /\ pos[r] = 0 => got[r].n < text[File(r)]
        /\ NextPos(r) = 0 => got[r].to \in {0, TextEnd(got[r].n)}
        /\ NextPos(r) > 0 => got[r].to = NextPos(r) /\ got[r].n = text[File(r)]

ReadInv ==
    /\ \A f \in Files : FilePos(f)
    /\ \A r \in Readers : ReaderPos(r) /\ LastRead(r)

LEMMA InitRead == Init => ReadInv
<1> SUFFICES ASSUME Init PROVE ReadInv
  OBVIOUS
<1>1. \A f \in Files : dev[f] = Closed
  BY DEF Init
<1>2. \A r \in Readers : pc[r] = "idle" /\ File(r) \in Files
  BY ChrdevAssumption DEF Init, File
<1> QED BY <1>1, <1>2 DEF ReadInv, FilePos, ReaderPos, LastRead, Refreshing

\* A reader is not disturbed by what leaves it and its file alone.
LEMMA UndisturbedReader ==
    ASSUME NEW r \in Readers, ReaderPos(r), LastRead(r),
           UNCHANGED <<pc[r], pos[r], cnt[r], ret[r], got[r],
                       dev[File(r)], text[File(r)], fpos[File(r)]>>
    PROVE  ReaderPos(r)' /\ LastRead(r)'
BY DEF ReaderPos, LastRead, NextPos, Lim, File

\* The values that the lemmas below calculate with.
LEMMA ReadTypes ==
    ASSUME Typed, NEW r \in Readers
    PROVE  /\ File(r) \in Files
           /\ Lim(File(r)) \in Nat /\ Lim(File(r)) = TextEnd(text[File(r)])
           /\ pos[r] \in Int /\ cnt[r] \in Int /\ ret[r] \in Int /\ fpos[File(r)] \in Int
           /\ text[File(r)] \in Nat /\ got[r].n \in Nat /\ got[r].to \in Int
<1>1. File(r) \in Files
  BY ChrdevAssumption DEF File
<1>2. got[r] \in [n : Serial, from : Int, to : Int] /\ text[File(r)] \in Serial
  BY <1>1 DEF Typed, TypeOK
<1>3. got[r].n \in Nat /\ got[r].to \in Int /\ text[File(r)] \in Nat
  BY <1>2, SensorsAssumption DEF Serial
<1>4. Lim(File(r)) \in Nat
  BY <1>1, LimType DEF Typed
<1> QED BY <1>1, <1>3, <1>4 DEF Typed, TypeOK, Lim, TextEnd

LEMMA ReaderStepRead ==
    ASSUME PrivateFiles, CachedInv, ReadInv, NEW r \in Readers, ReaderStep(r)
    PROVE  ReadInv'
<1> DEFINE f == File(r)
<1> USE DEF Refreshing
<1>0. /\ Typed /\ Exclusive
      /\ pc \in [Readers -> Labels] /\ pos \in [Readers -> Int] /\ cnt \in [Readers -> Int]
      /\ ret \in [Readers -> Int] /\ DOMAIN got = Readers
      /\ fpos \in [Files -> Int] /\ text \in [Files -> Serial]
  BY DEF CachedInv, Typed, TypeOK, Exclusive
<1>t. /\ f \in Files /\ Lim(f) \in Nat /\ Lim(f) = TextEnd(text[f])
      /\ pos[r] \in Int /\ cnt[r] \in Int /\ ret[r] \in Int /\ fpos[f] \in Int
      /\ text[f] \in Nat /\ got[r].n \in Nat /\ got[r].to \in Int
  BY <1>0, ReadTypes
<1>i. FilePos(f) /\ ReaderPos(r) /\ LastRead(r)
  BY <1>t DEF ReadInv
<1>d. dev[f] # Closed /\ dev' = dev
  BY <1>0 DEF Typed, OpenInv, ReaderStep, fileVars, Down, DownInterrupted, CheckFresh,
     CheckStale, Prepare, PrepareSignalled, Recheck, Wake, Redown, RedownInterrupted,
     SnapValue, SnapStamp, Format, CopyOut, CopyFault, Out, Return
<1>q. ASSUME NEW q \in Readers, q # r PROVE ReaderPos(q)' /\ LastRead(q)'
  <2>1. File(q) \in Files /\ File(q) # f
    BY <1>q, ChrdevAssumption DEF PrivateFiles, File
  <2>2. UNCHANGED <<pc[q], pos[q], cnt[q], ret[q], got[q]>>
    BY <1>0, <1>q DEF ReaderStep, Goto, Down, DownInterrupted, CheckFresh, CheckStale,
       Prepare, PrepareSignalled, Recheck, Wake, Redown, RedownInterrupted, SnapValue,
       SnapStamp, Format, CopyOut, CopyFault, Out, Return
  <2>3. UNCHANGED <<text[File(q)], fpos[File(q)]>>
    BY <1>0, <2>1 DEF ReaderStep, fileVars, Down, DownInterrupted, CheckFresh, CheckStale,
       Prepare, PrepareSignalled, Recheck, Wake, Redown, RedownInterrupted, SnapValue,
       SnapStamp, Format, CopyOut, CopyFault, Out, Return, File
  <2> QED BY <1>d, <1>q, <2>2, <2>3, UndisturbedReader DEF ReadInv, File
<1>f. ASSUME NEW g \in Files, g # f PROVE FilePos(g)'
  <2>1. UNCHANGED <<text[g], fpos[g]>>
    BY <1>0, <1>f DEF ReaderStep, fileVars, Down, DownInterrupted, CheckFresh, CheckStale,
       Prepare, PrepareSignalled, Recheck, Wake, Redown, RedownInterrupted, SnapValue,
       SnapStamp, Format, CopyOut, CopyFault, Out, Return, File
  <2> QED BY <1>d, <1>f, <2>1 DEF ReadInv, FilePos, Lim
<1> SUFFICES FilePos(f)' /\ ReaderPos(r)' /\ LastRead(r)'
  BY <1>q, <1>f DEF ReadInv, File
<1>1. CASE \/ Down(r) \/ CheckFresh(r) \/ CheckStale(r) \/ Prepare(r) \/ Recheck(r)
           \/ Wake(r) \/ Redown(r) \/ RedownInterrupted(r) \/ SnapValue(r) \/ SnapStamp(r)
           \/ (PrepareSignalled(r) /\ pc'[r] = "redown")
  <2>1. /\ UNCHANGED <<text, fpos, pos, cnt, got>>
        /\ pc[r] \in Refreshing \cup {"down"}
        /\ \/ pc'[r] \in Refreshing /\ pos[r] = 0
           \/ pc'[r] = "copy" /\ pos[r] # 0
    BY <1>0, <1>1, <1>i DEF ReaderPos, Goto, fileVars, Down, CheckFresh, CheckStale,
       Prepare, Recheck, Wake, Redown, RedownInterrupted, SnapValue, SnapStamp,
       PrepareSignalled
  <2> QED BY <1>i, <1>t, <1>d, <2>1
          DEF FilePos, ReaderPos, LastRead, NextPos, Lim, TextEnd, File
<1>2. CASE DownInterrupted(r) \/ (PrepareSignalled(r) /\ pc'[r] = "out") \/ CopyFault(r)
  <2>1. /\ UNCHANGED <<text, fpos, pos, got>>
        /\ pc[r] \in {"down", "prepare", "copy"} /\ pc'[r] \in {"out", "return"}
        /\ ret'[r] < 0
    BY <1>0, <1>2 DEF Goto, fileVars, DownInterrupted, PrepareSignalled, CopyFault,
       ERESTARTSYS, EFAULT
  <2> QED BY <1>i, <1>t, <1>d, <2>1
          DEF FilePos, ReaderPos, LastRead, NextPos, Lim, TextEnd, File
<1>3. CASE Format(r)
  <2>1. /\ pc[r] = "format" /\ pc'[r] = "copy"
        /\ UNCHANGED <<fpos, pos, cnt, got>>
        /\ text'[f] = val[r]
    BY <1>0, <1>t, <1>3 DEF Format, Goto
  <2>2. val[r] > text[f] /\ val[r] \in Serial /\ val[r] \in Nat
    BY <1>0, <2>1, SensorsAssumption DEF CachedInv, FreshInv, Typed, TypeOK, Serial
  <2>3. Lim(f)' \in Nat
    BY <2>1, <2>2, ChrdevAssumption, SensorsAssumption DEF Lim, Serial, File
  <2>4. pos[r] = 0 /\ fpos[f] = 0 /\ cnt[r] >= 0
    BY <1>i, <2>1 DEF ReaderPos
  <2> QED BY <1>i, <1>t, <1>d, <2>1, <2>2, <2>3, <2>4
          DEF FilePos, ReaderPos, LastRead, NextPos, File
<1>4. CASE CopyOut(r)
  <2> DEFINE c == ClampedCnt(r)
             next == pos[r] + c
  <2>1. /\ pc[r] = "copy" /\ c >= 0 /\ pc'[r] = "out"
        /\ UNCHANGED <<text, fpos>>
        /\ got'[r] = [n |-> text[f], from |-> pos[r], to |-> next]
        /\ ret'[r] = c
        /\ pos'[r] = IF next >= Lim(f) THEN 0 ELSE next
    BY <1>0, <1>4 DEF CopyOut, Goto, fileVars
  <2>2. c \in Int /\ next <= Lim(f) /\ pos[r] >= 0
    BY <1>i, <1>t, <1>d, <2>1 DEF ClampedCnt, FilePos, ReaderPos
  <2>3. got'[r].n = text[f] /\ got'[r].to = next
    BY <2>1
  <2>4. NextPos(r)' = IF next >= Lim(f) THEN 0 ELSE next
    BY <2>1 DEF NextPos
  <2> HIDE DEF c
  <2>5. FilePos(f)' /\ ReaderPos(r)'
    BY <1>i, <1>t, <1>d, <2>1, <2>2 DEF FilePos, ReaderPos, Lim, File
  <2>6. LastRead(r)'
    BY <1>t, <2>1, <2>2, <2>3, <2>4 DEF LastRead, TextEnd, File
  <2> QED BY <2>5, <2>6
<1>5. CASE Out(r)
  <2>1. /\ pc[r] = "out" /\ pc'[r] = "return"
        /\ UNCHANGED <<text, fpos, pos, cnt, ret, got>>
    BY <1>0, <1>5 DEF Out, Goto
  <2> QED BY <1>i, <1>d, <2>1
          DEF FilePos, ReaderPos, LastRead, NextPos, Lim, TextEnd, File
<1>6. CASE Return(r)
  <2>1. /\ pc[r] = "return" /\ pc'[r] = "idle"
        /\ UNCHANGED <<text, got>>
        /\ fpos'[f] = IF ret[r] >= 0 THEN pos[r] ELSE fpos[f]
    BY <1>0, <1>t, <1>6 DEF Return, Goto
  <2> QED BY <1>i, <1>t, <1>d, <2>1
          DEF FilePos, ReaderPos, LastRead, NextPos, Lim, TextEnd, File
<1>7. PrepareSignalled(r) => pc'[r] \in {"redown", "out"}
  BY <1>0 DEF PrepareSignalled, Goto
<1>8. CASE PrepareSignalled(r)
  BY <1>1, <1>2, <1>7, <1>8
<1> QED BY ONLY ReaderStep(r), <1>1, <1>2, <1>3, <1>4, <1>5, <1>6, <1>8 DEF ReaderStep

LEMMA NextRead ==
    ASSUME PrivateFiles, CachedInv, ReadInv, [Next]_vars
    PROVE  ReadInv'
<1>1. CASE UNCHANGED vars \/ SensorsStep
  <2>1. UNCHANGED <<dev, text, fpos, pc, pos, cnt, ret, got>>
    BY <1>1 DEF vars, SensorsStep, fileVars, readerVars
  <2> QED BY <2>1 DEF ReadInv, FilePos, ReaderPos, LastRead, NextPos, Lim, TextEnd, File
<1>2. ASSUME NEW f \in Files, Open(f) \/ Release(f) PROVE ReadInv'
  <2>1. /\ UNCHANGED <<pc, pos, cnt, ret>>
        /\ \A g \in Files \ {f} : UNCHANGED <<dev[g], text[g], fpos[g]>>
        /\ \A r \in Readers : File(r) # f => got'[r] = got[r]
        /\ dev'[f] # Closed => /\ fpos'[f] = 0 /\ text'[f] = 0
                               /\ \A r \in Readers : File(r) = f => got'[r] = Nothing
    BY <1>2 DEF CachedInv, Typed, TypeOK, Open, Release, readerVars
  <2>2. \A r \in Readers : File(r) = f => pc[r] = "idle"
    BY <1>2 DEF CachedInv, Typed, OpenInv, Open, Release
  <2>3. \A g \in Files : FilePos(g)'
    BY <2>1 DEF ReadInv, FilePos, Lim
  <2>4. ASSUME NEW r \in Readers PROVE ReaderPos(r)' /\ LastRead(r)'
    <3>1. CASE File(r) = f
      BY <2>1, <2>2, <3>1 DEF ReaderPos, LastRead, NextPos, Nothing, Refreshing, File
    <3>2. CASE File(r) # f
      <4>1. File(r) \in Files \ {f}
        BY <3>2, ChrdevAssumption DEF File
      <4> QED BY <2>1, <4>1, UndisturbedReader DEF ReadInv
    <3> QED BY <3>1, <3>2
  <2> QED BY <2>3, <2>4 DEF ReadInv
<1>3. ASSUME NEW r \in Readers, ReadCall(r) \/ Signal(r) PROVE ReadInv'
  <2>1. /\ UNCHANGED <<dev, text, fpos, ret, got>>
        /\ \A q \in Readers \ {r} : UNCHANGED <<pc[q], pos[q], cnt[q]>>
        /\ \/ UNCHANGED <<pc[r], pos[r], cnt[r]>>
           \/ /\ pc[r] = "idle" /\ pc'[r] = "down"
              /\ pos'[r] = fpos[File(r)] /\ cnt'[r] \in Counts
    BY <1>3 DEF CachedInv, Typed, TypeOK, ReadCall, Signal, Goto, fileVars, readerVars
  <2>2. \A g \in Files : FilePos(g)'
    BY <2>1 DEF ReadInv, FilePos, Lim
  <2>3. ReaderPos(r)' /\ LastRead(r)'
    <3>1. CASE UNCHANGED <<pc[r], pos[r], cnt[r]>>
      BY <2>1, <3>1, UndisturbedReader DEF ReadInv, File
    <3>2. CASE pc[r] = "idle" /\ pc'[r] = "down" /\ pos'[r] = fpos[File(r)] /\ cnt'[r] \in Counts
      <4>1. cnt'[r] >= 0
        <5>1. \A c \in Counts : c >= 0
          BY ChrdevAssumption
        <5> QED BY <3>2, <5>1
      <4>2. /\ File(r)' = File(r) /\ Lim(File(r))' = Lim(File(r))
            /\ NextPos(r)' = fpos[File(r)] /\ NextPos(r) = fpos[File(r)]
        BY <2>1, <3>2 DEF NextPos, Lim, File
      <4>3. ReaderPos(r)'
        BY <2>1, <3>2, <4>1, <4>2 DEF ReaderPos, Refreshing
      <4>4. LastRead(r)'
        BY <2>1, <3>2, <4>2 DEF ReadInv, LastRead, TextEnd
      <4> QED BY <4>3, <4>4
    <3> QED BY <2>1, <3>1, <3>2
  <2>4. \A q \in Readers \ {r} : ReaderPos(q)' /\ LastRead(q)'
    BY <2>1, UndisturbedReader DEF ReadInv, File
  <2> QED BY <2>2, <2>3, <2>4 DEF ReadInv
<1> QED BY <1>1, <1>2, <1>3, ReaderStepRead DEF Next

LEMMA ReadTheorem == PrivateFiles => (Spec => [](CachedInv /\ ReadInv))
<1> SUFFICES ASSUME PrivateFiles PROVE Spec => [](CachedInv /\ ReadInv)
  OBVIOUS
<1>1. CachedInv /\ ReadInv /\ [Next]_vars => ReadInv'
  BY NextRead
<1> QED BY <1>1, InitRead, CachedTheorem, PTL DEF Spec

LEMMA WithinText == ASSUME CachedInv, ReadInv PROVE CopyWithinText
<1> SUFFICES ASSUME NEW r \in Readers, pc[r] = "copy" PROVE pos[r] <= Lim(File(r))
  BY DEF CopyWithinText
<1>1. File(r) \in Files /\ dev[File(r)] # Closed
  BY ChrdevAssumption DEF CachedInv, Typed, OpenInv, File
<1> QED BY <1>1 DEF ReadInv, FilePos, ReaderPos

\* With signals, faults and any counts, a reader that does not share its file
\* never copies from a position behind the end of the cached text.
THEOREM CopyTheorem ==
    ASSUME PrivateFiles
    PROVE  Spec => []CopyWithinText
BY WithinText, ReadTheorem, PTL

\* Only a copy changes what a reader has got, except for opening the file.
LEMMA StepReads ==
    ASSUME PrivateFiles, CachedInv, ReadInv, [Next]_vars, NEW r \in Readers,
           got'[r] # got[r], got'[r] # Nothing
    PROVE  \/ /\ got'[r].from = 0
              /\ got'[r].n > got[r].n
              /\ got[r].to \in {0, IF got[r].n = 0 THEN 0 ELSE TextLen[got[r].n]}
           \/ got'[r].from = got[r].to /\ got'[r].from > 0 /\ got'[r].n = got[r].n
<1>1. PICK q \in Readers : CopyOut(q)
  BY DEF Next, vars, sensorVars, fileVars, readerVars, SensorsStep, ReaderStep, Open,
     Release, ReadCall, Signal, Down, DownInterrupted, CheckFresh, CheckStale, Prepare,
     PrepareSignalled, Recheck, Wake, Redown, RedownInterrupted, SnapValue, SnapStamp,
     Format, CopyFault, Out, Return
<1>2. CopyOut(r)
  BY <1>1 DEF CachedInv, Typed, TypeOK, CopyOut
<1>3. /\ pc[r] = "copy"
      /\ got'[r] = [n |-> text[File(r)], from |-> pos[r], to |-> pos[r] + ClampedCnt(r)]
  BY <1>2 DEF CachedInv, Typed, TypeOK, CopyOut
<1>4. got'[r].n = text[File(r)] /\ got'[r].from = pos[r]
  BY <1>3
<1>5. /\ File(r) \in Files /\ dev[File(r)] # Closed
      /\ pos[r] \in Int /\ text[File(r)] \in Nat /\ got[r].n \in Nat
      /\ fpos[File(r)] = pos[r] /\ fpos[File(r)] >= 0
  BY <1>3, ReadTypes DEF CachedInv, Typed, OpenInv, ReadInv, FilePos, ReaderPos
<1>6. NextPos(r) = pos[r]
  BY <1>3, <1>5 DEF NextPos
<1> QED BY <1>3, <1>4, <1>5, <1>6 DEF ReadInv, LastRead, TextEnd

\* Whatever signals, faults and counts come between, successive reads of a task
\* that does not share its file deliver whole texts of newer and newer
\* measurements: each goes on where the last stopped, or begins a newer text
\* after the end of the last.
THEOREM ReadsTheorem ==
    ASSUME PrivateFiles
    PROVE  Spec => ReadsAreWhole
<1>1. ASSUME CachedInv, ReadInv, [Next]_vars
      PROVE  [\A r \in Readers :
                 LET old == got[r]
                     new == got'[r]
                 IN  new # old /\ new # Nothing =>
                       \/ /\ new.from = 0
                          /\ new.n > old.n
                          /\ old.to \in {0, IF old.n = 0 THEN 0 ELSE TextLen[old.n]}
                       \/ new.from = old.to /\ new.from > 0 /\ new.n = old.n]_vars
  BY <1>1, StepReads
<1> QED BY <1>1, ReadTheorem, PTL DEF Spec, ReadsAreWhole

=============================================================================

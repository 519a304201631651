-------------------------- MODULE CryptoModuleProofs ------------------------
(***************************************************************************)
(* Proofs about CryptoModule, for any devices: with the module's own steps *)
(* the calls are still those of VirtioCrypto, each device on the list has  *)
(* a number of its own, and nothing is left behind.                        *)
(***************************************************************************)
EXTENDS CryptoModule, VirtioCryptoProofs

\* What is registered at each step of init and fini.
RegisteredInv ==
    /\ region <=> mod \in {"cdev", "driver", "live", "undo_cdev", "undo_region",
                           "rm_cdev", "rm_region"}
    /\ cdev <=> mod \in {"driver", "live", "undo_cdev", "rm_cdev"}
    /\ devs # {} => mod \in {"live", "rm_cdev", "rm_region", "rm_driver"}

\* An open file keeps the module; its device may be freed.
OpenFilesInv == FilesOpen => mod = "live" /\ (Device \in devs \/ freed)

ModuleInv == ModuleTypeOK /\ RegisteredInv /\ OpenFilesInv /\ MinorsUnique

-----------------------------------------------------------------------------
\* The module loads and unloads around the calls, and does nothing to them but free
\* the device they are made on.
THEOREM CallsInModule == ModuleSpec => Spec
<1>1. ModuleInit => Init
  BY DEF ModuleInit
<1>2. [ModuleNext]_allVars => [Next]_vars
  <2>1. There(CallStep) => Next
    BY DEF There, CallStep, Begin, Next
  <2>2. \A d \in Devices : Remove(d) => Free \/ UNCHANGED vars
    BY DEF Remove
  <2> QED BY <2>1, <2>2 DEF ModuleNext, There, Next, allVars
<1> QED BY <1>1, <1>2, PTL DEF ModuleSpec, Spec

LEMMA InitModule == ModuleInit => ModuleInv
<1> SUFFICES ASSUME ModuleInit PROVE ModuleInv
  OBVIOUS
<1> USE DEF ModuleInit
<1>1. ModuleTypeOK
  <2>1. NoMinor \in NoMinor .. MaxMinor - 1 /\ 0 \in 0 .. MaxMinor
    BY CryptoModuleAssumption DEF NoMinor
  <2>2. minor \in [Devices -> NoMinor .. MaxMinor - 1]
    BY <2>1
  <2> QED BY <2>1, <2>2 DEF ModuleTypeOK
<1>2. RegisteredInv /\ MinorsUnique
  BY DEF RegisteredInv, MinorsUnique
<1>3. ~ FilesOpen
  BY DEF Init, FilesOpen, InUse
<1> QED BY <1>1, <1>2, <1>3 DEF ModuleInv, OpenFilesInv

\* A call opens the first file only when the module and the device are there.
LEMMA FilesStep ==
    ASSUME CryptoInv, CallStep, ~ FilesOpen
    PROVE  FilesOpen' => mod = "live" /\ Device \in devs
<1>1. \A f \in Files : state[f] = "none"
  BY DEF FilesOpen, InUse
<1>2. ASSUME NEW c \in Procs, NEW k \in Call, Reached(k), Prepare(c, k)
      PROVE  mod = "live" /\ Device \in devs
  <2>1. state[k.file] = "none"
    BY <1>1, CallFields
  <2>2. k.kind = "open"
    BY <1>2, <2>1 DEF Prepare, Callable
  <2> QED BY <1>2, <2>2 DEF Reached
<1>3. ASSUME NEW c \in Procs PROVE ~ Return(c)
  <2>1. ~ Calling(c)
    BY <1>1, FileTypes DEF CryptoInv, CallInv, FileDuring
  <2> QED BY <2>1 DEF Return, Calling
<1>4. Proceed => state' = state
  BY <1>3 DEF Proceed, Refuse, Guest, Lock, Send, Receive, Unlock, Serve, Push, data
<1> QED BY <1>1, <1>2, <1>4 DEF CallStep, FilesOpen, InUse

LEMMA CallModule ==
    ASSUME CryptoInv, ModuleInv, CallStep, UNCHANGED freed, UNCHANGED modVars
    PROVE  ModuleInv'
<1> USE DEF modVars, chrdev, crdrvdata, ModuleInv
<1>1. ModuleTypeOK' /\ RegisteredInv' /\ MinorsUnique'
  BY DEF ModuleTypeOK, RegisteredInv, MinorsUnique
<1>2. OpenFilesInv'
  BY FilesStep DEF OpenFilesInv
<1> QED BY <1>1, <1>2

\* The steps of init and fini that give out no number.
Loading == Insmod \/ RegisterRegion \/ AddCdev \/ RegisterDriver
Unloading == Rmmod \/ DeleteCdev \/ UnregisterRegion \/ UnregisterDriver

LEMMA LoadModule ==
    ASSUME ModuleInv, Loading, UNCHANGED vars
    PROVE  ModuleInv'
<1> USE DEF ModuleInv, chrdev, crdrvdata
<1> USE DEF Loading, Insmod, RegisterRegion, AddCdev, RegisterDriver
<1>1. ModuleTypeOK'
  <2>1. 0 \in 0 .. MaxMinor
    BY CryptoModuleAssumption
  <2>2. next_minor' \in 0 .. MaxMinor /\ minor' = minor /\ devs' = devs
    BY <2>1 DEF ModuleTypeOK
  <2>3. region' \in BOOLEAN /\ cdev' \in BOOLEAN
    BY DEF ModuleTypeOK
  <2> QED BY <2>2, <2>3 DEF ModuleTypeOK
<1>2. RegisteredInv'
  BY DEF ModuleTypeOK, RegisteredInv
<1>3. MinorsUnique'
  BY DEF MinorsUnique, RegisteredInv
<1>4. FilesOpen' <=> FilesOpen
  BY DEF FilesOpen, InUse, vars, data
<1>5. mod # "live"
  OBVIOUS
<1>6. OpenFilesInv'
  BY <1>4, <1>5 DEF OpenFilesInv, vars
<1> QED BY <1>1, <1>2, <1>3, <1>6

LEMMA UnloadModule ==
    ASSUME ModuleInv, Unloading, UNCHANGED vars
    PROVE  ModuleInv'
<1> USE DEF ModuleInv, chrdev, crdrvdata
<1> USE DEF Unloading, Rmmod, DeleteCdev, UnregisterRegion, UnregisterDriver
<1>1. ModuleTypeOK'
  BY DEF ModuleTypeOK
<1>2. RegisteredInv'
  BY DEF ModuleTypeOK, RegisteredInv
<1>3. MinorsUnique'
  BY DEF MinorsUnique
<1>4. FilesOpen' <=> FilesOpen
  BY DEF FilesOpen, InUse, vars, data
<1>5. ~ FilesOpen
  BY DEF OpenFilesInv
<1>6. OpenFilesInv'
  BY <1>4, <1>5 DEF OpenFilesInv, vars
<1> QED BY <1>1, <1>2, <1>3, <1>6

\* The number of a device is the next one, which no device on the list has.
LEMMA ProbeModule ==
    ASSUME ModuleInv, NEW d \in Devices, Probe(d), UNCHANGED vars
    PROVE  ModuleInv'
<1> USE DEF ModuleInv, Probe, chrdev
<1>1. next_minor \in Nat /\ next_minor < MaxMinor /\ next_minor' = next_minor + 1
  BY DEF ModuleTypeOK
<1>2. minor'[d] = next_minor /\ \A e \in Devices : e # d => minor'[e] = minor[e]
  BY DEF ModuleTypeOK
<1>3. devs' = devs \cup {d} /\ devs \subseteq Devices
  BY DEF ModuleTypeOK
<1>4. ModuleTypeOK'
  BY <1>1, <1>3, CryptoModuleAssumption DEF ModuleTypeOK, NoMinor
<1>5. RegisteredInv'
  BY DEF RegisteredInv
<1>6. MinorsUnique'
  <2>1. \A e \in devs : e # d /\ minor[e] \in 0 .. next_minor - 1 /\ minor'[e] = minor[e]
    BY <1>2, <1>3 DEF MinorsUnique
  <2>2. \A e \in devs' : minor'[e] \in 0 .. next_minor' - 1
    BY <1>1, <1>2, <1>3, <2>1
  <2>3. \A e \in devs : minor'[e] # minor'[d]
    BY <1>1, <1>2, <2>1
  <2>4. \A e, g \in devs' : minor'[e] = minor'[g] => e = g
    BY <1>3, <2>1, <2>3 DEF MinorsUnique
  <2> QED BY <2>2, <2>4 DEF MinorsUnique
<1>7. OpenFilesInv'
  BY <1>3 DEF OpenFilesInv, FilesOpen, InUse, vars, data
<1> QED BY <1>4, <1>5, <1>6, <1>7

\* A device that is removed under an open file is freed.
LEMMA RemoveModule ==
    ASSUME ModuleInv, NEW d \in Devices, Remove(d)
    PROVE  ModuleInv'
<1> USE DEF ModuleInv, Remove, chrdev
<1>1. minor' \in [Devices -> NoMinor .. MaxMinor - 1]
  BY CryptoModuleAssumption DEF ModuleTypeOK, NoMinor
<1>2. ModuleTypeOK'
  BY <1>1 DEF ModuleTypeOK
<1>3. RegisteredInv'
  BY DEF RegisteredInv
<1>4. \A e \in devs' : e \in devs /\ minor'[e] = minor[e]
  BY DEF ModuleTypeOK
<1>5. MinorsUnique'
  BY <1>4 DEF MinorsUnique
<1>6. FilesOpen' <=> FilesOpen
  BY DEF Free, FilesOpen, InUse, vars, data
<1>7. OpenFilesInv'
  <2>1. CASE d = Device /\ FilesOpen
    BY <1>6, <2>1 DEF OpenFilesInv, Free
  <2>2. CASE ~ (d = Device /\ FilesOpen)
    BY <1>6, <2>2 DEF OpenFilesInv, vars
  <2> QED BY <2>1, <2>2
<1> QED BY <1>2, <1>3, <1>5, <1>7

LEMMA ModuleInvStep == CryptoInv /\ ModuleInv /\ [ModuleNext]_allVars => ModuleInv'
<1> SUFFICES ASSUME CryptoInv, ModuleInv, [ModuleNext]_allVars PROVE ModuleInv'
  OBVIOUS
<1>1. CASE There(CallStep) /\ UNCHANGED modVars
  BY <1>1, CallModule DEF There
<1>2. CASE There(LoadStep /\ UNCHANGED vars)
  BY <1>2, LoadModule, UnloadModule, ProbeModule DEF There, LoadStep, Loading, Unloading
<1>3. ASSUME NEW d \in Devices, Remove(d) PROVE ModuleInv'
  BY <1>3, RemoveModule
<1>4. CASE UNCHANGED allVars
  <2> USE <1>4 DEF allVars, modVars, chrdev, crdrvdata, vars, data, ModuleInv
  <2>1. ModuleTypeOK' /\ RegisteredInv' /\ MinorsUnique'
    BY DEF ModuleTypeOK, RegisteredInv, MinorsUnique
  <2>2. OpenFilesInv'
    BY DEF OpenFilesInv, FilesOpen, InUse
  <2> QED BY <2>1, <2>2
<1> QED BY <1>1, <1>2, <1>3, <1>4 DEF ModuleNext

THEOREM ModuleTheorem == ModuleSpec => [](CryptoInv /\ ModuleInv)
<1>1. ModuleSpec => []CryptoInv
  BY CallsInModule, CryptoTheorem, PTL
<1> QED BY <1>1, InitModule, ModuleInvStep, PTL DEF ModuleSpec

\* Every variable of the module keeps its type.
THEOREM ModuleTypeCorrect == ModuleSpec => []ModuleTypeOK
<1>1. ModuleInv => ModuleTypeOK
  BY DEF ModuleInv
<1> QED BY <1>1, ModuleTheorem, PTL

\* A device number belongs to one device.
THEOREM MinorsUniqueTheorem == ModuleSpec => []MinorsUnique
<1>1. ModuleInv => MinorsUnique
  BY DEF ModuleInv
<1> QED BY <1>1, ModuleTheorem, PTL

\* Without open files the host has no descriptors, and so no sessions.
LEMMA FilesAndHost == CryptoInv /\ ModuleInv => NothingLeft
<1> SUFFICES ASSUME CryptoInv, ModuleInv, mod = "absent"
             PROVE  ~ region /\ ~ cdev /\ devs = {} /\ host.fds = {} /\ host.sessions = {}
  BY DEF NothingLeft
<1>1. ~ region /\ ~ cdev /\ devs = {}
  BY DEF ModuleInv, RegisteredInv, ModuleTypeOK
<1>2. \A f \in Files : fd[f] = NoFd
  BY DEF ModuleInv, OpenFilesInv, FilesOpen, InUse, CryptoInv, CallInv
<1>3. host.fds = {}
  BY <1>2 DEF CryptoInv, FdsOfFiles
<1>4. host.sessions = {}
  BY <1>3 DEF CryptoInv, FdsOfFiles
<1> QED BY <1>1, <1>3, <1>4

\* A module that is gone or failed to load left nothing, here or on the host,
\* whatever devices were removed meanwhile.
THEOREM NothingLeftTheorem == ModuleSpec => []NothingLeft
BY FilesAndHost, ModuleTheorem, PTL

=============================================================================

-------------------------- MODULE LunixAttachProofs -------------------------
(***************************************************************************)
(* Proofs about LunixAttach, for any number of helpers and terminals: the  *)
(* helpers keep to what LunixModule lets the users of the discipline do,   *)
(* and their lock files keep them from each other's terminals.             *)
(***************************************************************************)
EXTENDS LunixAttach, LunixModuleProofs

\* A helper that changes the discipline is alone on its terminal.
KernelInv ==
    \A g, h \in Helpers :
        at[g] \in InKernel /\ at[h] \in InKernel /\ line[g] = line[h] => g = h

\* A helper holds its terminal from the test of the lock file until its pid is
\* no longer in it: past the unlink, or to the end when there was none.
Holds(h) ==
    \/ at[h] \in {"creat", "write"} \cup Locked
    \/ at[h] \in {"forget", "exit"} /\ lock[line[h]] = h

LockInv ==
    \A h \in Helpers : line[h] \notin raced =>
        /\ at[h] \in Locked => lock[line[h]] = h
        /\ at[h] = "write" => h \in linked
        /\ \A g \in Helpers : Holds(g) /\ Holds(h) /\ line[g] = line[h] => g = h

Labels == Alive \cup {"new", "gone"}

\* The types of the helpers' variables, without what relates them to the kernel.
HelperTypes ==
    /\ at \in [Helpers -> Labels]
    /\ line \in [Helpers -> TTYs]
    /\ before \in [Helpers -> [raw : BOOLEAN, lunix : BOOLEAN]]
    /\ saved \subseteq Helpers /\ linked \subseteq Helpers
    /\ lock \in [TTYs -> Helpers \cup {"none", "empty"}]
    /\ raw \subseteq TTYs /\ raced \subseteq TTYs
    /\ modeLost \subseteq TTYs /\ discLost \subseteq TTYs
    /\ signals \in 0 .. MaxSignals

OpeningInv == opening = {line[h] : h \in {g \in Helpers : at[g] \in InKernel}}

AttachInv == HelperTypes /\ OpeningInv /\ KernelInv /\ LockInv /\ HelperHasTerminal

-----------------------------------------------------------------------------
(* The helpers and the module *)

\* The module's variables change in a helper's step as they may in LunixModule.
LEMMA HelperModule ==
    ASSUME HelperTypes, NEW h \in Helpers, HelperStep(h)
    PROVE  \/ UNCHANGED vars
           \/ SetLdisc(line[h]) \/ LdiscOpen(line[h]) \/ LdiscClose(line[h])
<1>1. CASE \/ Start(h) \/ Test(h) \/ Creat(h) \/ WritePid(h) \/ OpenTTY(h) \/ Install(h)
           \/ Signal(h) \/ RestoreState(h) \/ Unlock(h) \/ Forget(h)
  BY <1>1 DEF Start, Test, Creat, WritePid, OpenTTY, Install, Signal, RestoreState,
     Unlock, Forget
<1>2. Exit(h) => UNCHANGED vars \/ LdiscClose(line[h])
  BY DEF Exit
<1>3. CASE GetState(h) \/ SetRaw(h) \/ Kill(h) \/ Leave(h)
  BY <1>2, <1>3 DEF GetState, SetRaw, Kill, Leave
<1>4. CASE SetDisc(h) \/ RestoreDisc(h)
  BY <1>2, <1>4 DEF SetDisc, RestoreDisc
<1>5. CASE DiscOpened(h) \/ DiscReopened(h)
  BY <1>5 DEF DiscOpened, DiscReopened
<1> QED BY <1>1, <1>3, <1>4, <1>5 DEF HelperStep

LEMMA AttachRefines == HelperTypes /\ [AttachNext]_attachVars => [Next]_vars
<1> SUFFICES ASSUME HelperTypes, [AttachNext]_attachVars PROVE [Next]_vars
  OBVIOUS
<1>1. CASE ModuleStep
  BY <1>1 DEF Next
<1>2. ASSUME NEW h \in Helpers, HelperStep(h) PROVE [Next]_vars
  <2>1. line[h] \in TTYs
    BY DEF HelperTypes
  <2> QED BY <1>2, <2>1, HelperModule DEF Next
<1>3. CASE UNCHANGED attachVars
  BY <1>3 DEF attachVars
<1> QED BY <1>1, <1>2, <1>3 DEF AttachNext

-----------------------------------------------------------------------------
(* The invariant *)

LEMMA InitAttach == AttachInit => AttachInv
<1> SUFFICES ASSUME AttachInit PROVE AttachInv
  OBVIOUS
<1> USE DEF AttachInit
<1>1. HelperTypes
  <2>1. /\ at \in [Helpers -> Labels] /\ line \in [Helpers -> TTYs]
        /\ lock \in [TTYs -> Helpers \cup {"none", "empty"}]
    BY DEF Labels
  <2>2. before \in [Helpers -> [raw : BOOLEAN, lunix : BOOLEAN]]
    OBVIOUS
  <2>3. /\ saved \subseteq Helpers /\ linked \subseteq Helpers
        /\ raw \subseteq TTYs /\ raced \subseteq TTYs
        /\ modeLost \subseteq TTYs /\ discLost \subseteq TTYs
    OBVIOUS
  <2>4. signals \in 0 .. MaxSignals
    BY AttachAssumption
  <2> QED BY <2>1, <2>2, <2>3, <2>4 DEF HelperTypes
<1>2. \A h \in Helpers : at[h] = "new"
  OBVIOUS
<1>3. OpeningInv /\ KernelInv /\ HelperHasTerminal
  BY <1>2 DEF Init, OpeningInv, KernelInv, HelperHasTerminal, InKernel
<1>4. LockInv
  BY <1>2 DEF LockInv, Holds, Locked, HasTTY
<1> QED BY <1>1, <1>3, <1>4 DEF AttachInv

\* A step that moves one helper leaves the places of the others.
LEMMA Others ==
    ASSUME HelperTypes, NEW h \in Helpers, NEW label \in Labels, Goto(h, label)
    PROVE  /\ at' \in [Helpers -> Labels]
           /\ at'[h] = label
           /\ \A g \in Helpers : g # h => at'[g] = at[g]
BY DEF HelperTypes, Goto

\* Which helper moves where.
LEMMA Moves ==
    ASSUME HelperTypes, NEW h \in Helpers, HelperStep(h)
    PROVE  line' = line /\ \E label \in Labels : Goto(h, label)
<1> USE DEF Labels, Alive, Locked, HasTTY
<1>1. CASE \/ Start(h) \/ Test(h) \/ Creat(h) \/ WritePid(h) \/ OpenTTY(h) \/ Install(h)
           \/ Signal(h) \/ RestoreState(h) \/ Unlock(h) \/ Forget(h)
  BY <1>1 DEF Start, Test, Creat, WritePid, OpenTTY, Install, Signal, RestoreState,
     Unlock, Forget
<1>2. Exit(h) => Goto(h, "gone")
  BY DEF Exit
<1>3. CASE GetState(h) \/ SetRaw(h) \/ Kill(h) \/ Leave(h)
  BY <1>2, <1>3 DEF GetState, SetRaw, Kill, Leave
<1>4. CASE SetDisc(h) \/ RestoreDisc(h) \/ DiscOpened(h) \/ DiscReopened(h)
  BY <1>2, <1>4 DEF SetDisc, RestoreDisc, DiscOpened, DiscReopened
<1> QED BY <1>1, <1>3, <1>4 DEF HelperStep

LEMMA HelperTypesStep ==
    ASSUME HelperTypes, NEW h \in Helpers, HelperStep(h)
    PROVE  HelperTypes'
<1> USE DEF HelperTypes
<1>1. line' \in [Helpers -> TTYs] /\ at' \in [Helpers -> Labels]
  BY Moves, Others
<1>2. line[h] \in TTYs
  OBVIOUS
<1>3. Exit(h) => modeLost' \subseteq TTYs /\ discLost' \subseteq TTYs
  BY <1>2 DEF Exit
<1>4. CASE Start(h) \/ OpenTTY(h) \/ Install(h)
  BY <1>1, <1>4 DEF Start, OpenTTY, Install, lockVars, history
<1>5. CASE Test(h)
  BY <1>1, <1>2, <1>5 DEF Test, lockVars
<1>6. CASE Creat(h) \/ WritePid(h) \/ Unlock(h) \/ Forget(h)
  <2>1. /\ UNCHANGED <<before, raw, history>>
        /\ saved' \subseteq Helpers /\ linked' \subseteq Helpers
    BY <1>6 DEF Creat, WritePid, Unlock, Forget, Unlinked
  <2>2. lock' \in [TTYs -> Helpers \cup {"none", "empty"}]
    BY <1>2, <1>6 DEF Creat, WritePid, Unlock, Forget, Unlinked
  <2> QED BY <1>1, <2>1, <2>2 DEF history
<1>7. CASE GetState(h)
  <2>1. /\ UNCHANGED <<saved, linked, lock, raw, signals, raced>>
        /\ modeLost' \subseteq TTYs /\ discLost' \subseteq TTYs
    BY <1>3, <1>7 DEF GetState, lockVars
  <2>2. \A a, b \in BOOLEAN : [raw |-> a, lunix |-> b] \in [raw : BOOLEAN, lunix : BOOLEAN]
    OBVIOUS
  <2>3. (line[h] \in raw) \in BOOLEAN /\ (line[h] \in attached) \in BOOLEAN
    OBVIOUS
  <2>4. [raw |-> line[h] \in raw, lunix |-> line[h] \in attached]
          \in [raw : BOOLEAN, lunix : BOOLEAN]
    BY <2>2, <2>3, Zenon
  <2>5. before' = before
        \/ before' = [before EXCEPT ![h] = [raw |-> line[h] \in raw, lunix |-> line[h] \in attached]]
    BY <1>7 DEF GetState
  <2>6. before' \in [Helpers -> [raw : BOOLEAN, lunix : BOOLEAN]]
    BY <2>4, <2>5, Zenon
  <2> QED BY <1>1, <2>1, <2>6
<1>8. CASE SetRaw(h) \/ RestoreState(h)
  BY <1>1, <1>2, <1>3, <1>8 DEF SetRaw, RestoreState, lockVars
<1>9. CASE SetDisc(h) \/ DiscOpened(h) \/ Leave(h)
  BY <1>1, <1>2, <1>3, <1>9 DEF SetDisc, DiscOpened, Leave, lockVars
<1>10. CASE Signal(h) \/ Kill(h)
  <2>1. signals' \in 0 .. MaxSignals
    BY <1>10, AttachAssumption DEF Signal, Kill
  <2>2. /\ UNCHANGED <<before, saved, lock, raw>> /\ linked' \subseteq Helpers
        /\ raced' \subseteq TTYs /\ modeLost' \subseteq TTYs /\ discLost' \subseteq TTYs
    BY <1>2, <1>3, <1>10 DEF Signal, Kill, lockVars
  <2> QED BY <1>1, <2>1, <2>2
<1>11. CASE RestoreDisc(h) \/ DiscReopened(h)
  BY <1>1, <1>2, <1>11 DEF RestoreDisc, DiscReopened, lockVars
<1> QED BY <1>4, <1>5, <1>6, <1>7, <1>8, <1>9, <1>10, <1>11 DEF HelperStep

\* A change of the discipline begins and ends in the kernel.
LEMMA KernelMoves ==
    ASSUME HelperTypes, NEW h \in Helpers, HelperStep(h)
    PROVE  \/ /\ at[h] \notin InKernel /\ at'[h] \notin InKernel
              /\ opening' = opening
           \/ /\ at[h] \notin InKernel /\ at'[h] \in InKernel
              /\ opening' = opening \cup {line[h]} /\ line[h] \notin opening
           \/ /\ at[h] \in InKernel /\ at'[h] \notin InKernel
              /\ opening' = opening \ {line[h]}
<1> USE DEF HelperTypes, InKernel, Goto
<1>1. CASE \/ Start(h) \/ Test(h) \/ Creat(h) \/ WritePid(h) \/ OpenTTY(h) \/ Install(h)
           \/ Signal(h) \/ RestoreState(h) \/ Unlock(h) \/ Forget(h)
  BY <1>1 DEF Start, Test, Creat, WritePid, OpenTTY, Install, Signal, RestoreState,
     Unlock, Forget, vars, users
<1>2. Exit(h) => at'[h] = "gone" /\ opening' = opening
  BY DEF Exit, LdiscClose, vars, users
<1>3. CASE GetState(h) \/ SetRaw(h) \/ Kill(h) \/ Leave(h)
  BY <1>2, <1>3 DEF GetState, SetRaw, Kill, Leave, vars, users
<1>4. CASE SetDisc(h)
  BY <1>2, <1>4 DEF SetDisc, SetLdisc, vars, users
<1>5. CASE RestoreDisc(h)
  BY <1>5 DEF RestoreDisc, SetLdisc, LdiscClose, vars, users
<1>6. CASE DiscOpened(h) \/ DiscReopened(h)
  BY <1>6 DEF DiscOpened, DiscReopened, LdiscOpen
<1> QED BY <1>1, <1>3, <1>4, <1>5, <1>6 DEF HelperStep

\* One helper at a time is inside a change of a terminal's discipline.
LEMMA KernelStep ==
    ASSUME HelperTypes, OpeningInv, KernelInv, NEW h \in Helpers, HelperStep(h)
    PROVE  OpeningInv' /\ KernelInv'
<1>0. line' = line /\ \A g \in Helpers : g # h => at'[g] = at[g]
  BY Moves, Others
<1>1. CASE /\ at[h] \notin InKernel /\ at'[h] \notin InKernel
           /\ opening' = opening
  BY <1>0, <1>1 DEF OpeningInv, KernelInv, InKernel
<1>2. CASE /\ at[h] \notin InKernel /\ at'[h] \in InKernel
           /\ opening' = opening \cup {line[h]} /\ line[h] \notin opening
  BY <1>0, <1>2 DEF OpeningInv, KernelInv, InKernel
<1>3. CASE /\ at[h] \in InKernel /\ at'[h] \notin InKernel
           /\ opening' = opening \ {line[h]}
  BY <1>0, <1>3 DEF OpeningInv, KernelInv, InKernel
<1> QED BY <1>1, <1>2, <1>3, KernelMoves

\* A step that neither takes nor gives back the lock keeps LockInv: the helper
\* stays where it was with respect to the lock, or leaves.
LEMMA LockKept ==
    ASSUME HelperTypes, LockInv, NEW h \in Helpers, HelperStep(h),
           lock' = lock, raced \subseteq raced',
           linked' = linked \/ linked' = linked \ {h},
           at'[h] # "write",
           line[h] \notin raced' /\ Holds(h)' => Holds(h),
           line[h] \notin raced' /\ at'[h] \in Locked => lock[line[h]] = h
    PROVE  LockInv'
<1>0. line' = line /\ \A g \in Helpers : g # h => at'[g] = at[g]
  BY Moves, Others
<1> SUFFICES ASSUME NEW k \in Helpers, line[k] \notin raced'
             PROVE  /\ at'[k] \in Locked => lock[line[k]] = k
                    /\ at'[k] = "write" => k \in linked'
                    /\ \A g \in Helpers : Holds(g)' /\ Holds(k)' /\ line[g] = line[k] => g = k
  BY <1>0 DEF LockInv, Locked, HasTTY
<1>1. \A g \in Helpers : line[g] \notin raced' /\ Holds(g)' => Holds(g)
  BY <1>0 DEF Holds
<1>2. line[k] \notin raced
  OBVIOUS
<1>3. at'[k] \in Locked => lock[line[k]] = k
  BY <1>0, <1>2 DEF LockInv
<1>4. at'[k] = "write" => k \in linked'
  BY <1>0, <1>2 DEF LockInv
<1>5. ASSUME NEW g \in Helpers, Holds(g)', Holds(k)', line[g] = line[k] PROVE g = k
  BY <1>1, <1>2, <1>5 DEF LockInv
<1> QED BY <1>3, <1>4, <1>5

LEMMA LockStep ==
    ASSUME HelperTypes, LockInv, NEW h \in Helpers, HelperStep(h)
    PROVE  LockInv'
<1> DEFINE t == line[h]
<1>0. /\ line' = line /\ t \in TTYs
      /\ \A g \in Helpers : g # h => at'[g] = at[g]
      /\ at' = [at EXCEPT ![h] = at'[h]]
  BY Moves, Others DEF HelperTypes, Goto
<1>1. Exit(h) => at'[h] = "gone"
  BY DEF Exit, Goto, HelperTypes
<1>2. UNCHANGED lockVars => UNCHANGED <<linked, lock>>
  BY DEF lockVars
<1>3. at[h] \in Locked /\ t \notin raced => Holds(h) /\ lock[t] = h
  BY DEF LockInv, Holds
<1>4. CASE Start(h) \/ OpenTTY(h) \/ Install(h) \/ RestoreDisc(h) \/ DiscReopened(h)
           \/ RestoreState(h)
  <2>1. UNCHANGED <<linked, lock, raced>>
    BY <1>2, <1>4 DEF Start, OpenTTY, Install, RestoreDisc, DiscReopened, RestoreState,
       history
  <2>2. \/ at'[h] \in {"test", "gone"}
        \/ at[h] \in Locked /\ at'[h] \in Locked
    BY <1>4 DEF HelperTypes, Goto, Locked, HasTTY, Start, OpenTTY, Install, RestoreDisc,
       DiscReopened, RestoreState
  <2> QED BY <1>0, <1>3, <2>1, <2>2, LockKept DEF Holds, Locked, HasTTY
<1>5. CASE GetState(h) \/ SetRaw(h) \/ SetDisc(h) \/ DiscOpened(h) \/ Kill(h) \/ Leave(h)
  <2>1. UNCHANGED <<lock, raced>> /\ (linked' = linked \/ linked' = linked \ {h})
    BY <1>2, <1>5 DEF GetState, SetRaw, SetDisc, DiscOpened, Kill, Leave
  <2>2. \/ at'[h] = "gone"
        \/ at[h] \in Locked /\ at'[h] \in Locked
    BY <1>1, <1>5 DEF HelperTypes, Goto, Locked, HasTTY, GetState, SetRaw, SetDisc,
       DiscOpened, Kill, Leave
  <2> QED BY <1>0, <1>3, <2>1, <2>2, LockKept DEF Holds, Locked, HasTTY
<1>6. CASE Signal(h)
  <2>1. UNCHANGED <<linked, lock>> /\ raced \subseteq raced' /\ at'[h] = "close"
    BY <1>2, <1>6 DEF Signal, HelperTypes, Goto
  <2>2. t \notin raced' => t \notin raced /\ lock[t] = h /\ Holds(h)
    BY <1>3, <1>6 DEF Signal, Holds, Locked, HasTTY
  <2> QED BY <1>0, <2>1, <2>2, LockKept DEF Holds
<1>7. CASE Forget(h)
  <2>1. UNCHANGED <<linked, lock, raced>> /\ at[h] = "forget" /\ at'[h] = "exit"
    BY <1>7 DEF Forget, HelperTypes, Goto, history
  <2> QED BY <1>0, <2>1, LockKept DEF Holds, Locked, HasTTY
<1>8. CASE Unlock(h) /\ at'[h] = "exit"
  <2>1. UNCHANGED <<linked, lock, raced>> /\ at[h] = "unlock" /\ at'[h] = "exit"
    BY <1>8 DEF Unlock, HelperTypes, Goto, history
  <2> QED BY <1>0, <1>3, <2>1, LockKept DEF Holds, Locked, HasTTY
<1>9. CASE Test(h) /\ at'[h] = "gone"
  <2>1. UNCHANGED <<linked, lock>> /\ raced \subseteq raced'
    BY <1>2, <1>9 DEF Test
  <2> QED BY <1>0, <1>9, <2>1, LockKept DEF Holds, Locked, HasTTY
<1>10. CASE Test(h) /\ at'[h] # "gone"
  <2>1. /\ at'[h] = "creat" /\ UNCHANGED <<linked, lock>> /\ raced \subseteq raced'
        /\ t \notin raced' => ~ (lock[t] \in Helpers /\ Live(lock[t]))
    BY <1>0, <1>2, <1>10 DEF Test, HelperTypes, Goto
  <2>2. t \notin raced' =>
          \A g \in Helpers : line[g] = t => at[g] \notin {"creat", "write"}
    BY <1>10 DEF Test, HelperTypes, Goto
  <2>3. ASSUME t \notin raced', NEW g \in Helpers \ {h}, line[g] = t
        PROVE  ~ Holds(g)'
    <3>1. at[g] \notin Locked
      BY <2>1, <2>3 DEF LockInv, Live, Alive
    <3>2. ~ (at[g] \in {"forget", "exit"} /\ lock[line[g]] = g)
      BY <2>1, <2>3 DEF Live, Alive, HasTTY
    <3> QED BY <1>0, <2>1, <2>2, <2>3, <3>1, <3>2 DEF Holds
  <2> QED
    <3> SUFFICES ASSUME NEW k \in Helpers, line[k] \notin raced'
                 PROVE  /\ at'[k] \in Locked => lock[line[k]] = k
                        /\ at'[k] = "write" => k \in linked
                        /\ \A g \in Helpers : Holds(g)' /\ Holds(k)' /\ line[g] = line[k] => g = k
      BY <1>0, <2>1 DEF LockInv, Locked, HasTTY
    <3>1. CASE line[k] = t
      BY <1>0, <2>1, <2>3, <3>1 DEF LockInv, Locked, HasTTY, Holds
    <3>2. CASE line[k] # t
      BY <1>0, <2>1, <3>2 DEF LockInv, Locked, HasTTY, Holds
    <3> QED BY <3>1, <3>2
\* The lock file of the terminal changes; the other terminals keep theirs.
<1>11. CASE Creat(h) \/ WritePid(h) \/ (Unlock(h) /\ at'[h] # "exit")
  <2>1. /\ UNCHANGED raced /\ at[h] \in {"creat", "write", "unlock"}
        /\ \A u \in TTYs : u # t => lock'[u] = lock[u]
        /\ \A g \in Helpers : line[g] # t => (g \in linked' <=> g \in linked)
    BY <1>0, <1>11 DEF Creat, WritePid, Unlock, Unlinked, HelperTypes, history
  <2>2. \/ at'[h] = "gone"
        \/ at'[h] = "write" /\ h \in linked'
        \/ at'[h] = "open" /\ (t \notin raced => lock'[t] = h)
        \/ at'[h] = "forget" /\ lock'[t] = "none"
    <3>1. CASE Creat(h)
      BY <3>1 DEF Creat, HelperTypes, Goto
    <3>2. CASE WritePid(h)
      BY <1>0, <3>2 DEF WritePid, HelperTypes, Goto, LockInv
    <3>3. CASE Unlock(h) /\ at'[h] # "exit"
      BY <1>0, <3>3 DEF Unlock, Unlinked, HelperTypes, Goto
    <3> QED BY <1>11, <3>1, <3>2, <3>3
  <2>3. ASSUME t \notin raced, NEW g \in Helpers \ {h}, line[g] = t
        PROVE  ~ Holds(g)'
    <3>1. ~ Holds(g)
      BY <2>1, <2>3 DEF LockInv, Holds, Locked, HasTTY
    <3>2. lock'[t] \in {lock[t], "empty", "none", h}
      BY <1>0, <1>11 DEF Creat, WritePid, Unlock, Unlinked, HelperTypes
    <3>3. g \notin {"empty", "none", h}
      BY AttachAssumption
    <3> QED BY <1>0, <2>3, <3>1, <3>2, <3>3 DEF Holds
  <2> QED
    <3> SUFFICES ASSUME NEW k \in Helpers, line[k] \notin raced
                 PROVE  /\ at'[k] \in Locked => lock'[line[k]] = k
                        /\ at'[k] = "write" => k \in linked'
                        /\ \A g \in Helpers : Holds(g)' /\ Holds(k)' /\ line[g] = line[k] => g = k
      BY <1>0, <2>1 DEF LockInv, Locked, HasTTY
    <3>1. CASE k = h
      BY <1>0, <2>2, <2>3, <3>1 DEF Locked, HasTTY
    <3>2. CASE line[k] = t /\ k # h
      BY <1>0, <2>3, <3>2 DEF Locked, HasTTY, Holds
    <3>3. CASE line[k] # t
      <4>1. line[k] \in TTYs /\ k # h /\ \A g \in Helpers : line[g] = line[k] => g # h
        BY <3>3 DEF HelperTypes
      <4>2. \A g \in Helpers : line[g] = line[k] => (Holds(g)' <=> Holds(g))
        BY <1>0, <2>1, <3>3, <4>1 DEF Holds
      <4> QED BY <1>0, <2>1, <3>3, <4>1, <4>2 DEF LockInv
    <3> QED BY <3>1, <3>2, <3>3
<1> QED BY <1>4, <1>5, <1>6, <1>7, <1>8, <1>9, <1>10, <1>11 DEF HelperStep

\* The discipline of a terminal whose helper waits is not taken off it: another
\* helper of the terminal has no business there, or ends and leaves it open.
LEMMA TerminalStep ==
    ASSUME HelperTypes, LockInv, HelperHasTerminal, NEW h \in Helpers, HelperStep(h)
    PROVE  HelperHasTerminal'
<1> SUFFICES ASSUME NEW k \in Helpers, at'[k] \in {"install", "pause"}, line[k] \notin raced'
             PROVE  line[k] \in attached'
  BY Moves DEF HelperHasTerminal
<1>0. line' = line /\ \A g \in Helpers : g # h => at'[g] = at[g]
  BY Moves, Others
<1>1. raced \subseteq raced'
  BY DEF HelperStep, Start, Test, Creat, WritePid, OpenTTY, GetState, SetRaw, SetDisc,
     DiscOpened, Install, Signal, Kill, RestoreDisc, DiscReopened, RestoreState,
     Unlock, Forget, Leave, history
<1>2. UNCHANGED vars => attached' = attached
  BY DEF vars, users
<1>3. CASE k = h
  <2>1. SetDisc(h) \/ DiscOpened(h) \/ Install(h)
    <3>1. Exit(h) => at'[h] = "gone"
      BY DEF Exit, Goto, HelperTypes
    <3> QED BY <1>3, <3>1 DEF HelperStep, HelperTypes, Goto, Start, Test, Creat, WritePid,
        OpenTTY, GetState, SetRaw, Signal, Kill, RestoreDisc, DiscReopened, RestoreState,
        Unlock, Forget, Leave
  <2>2. CASE SetDisc(h)
    BY <1>2, <1>3, <2>2 DEF SetDisc, Exit, Goto, HelperTypes
  <2>3. CASE DiscOpened(h)
    BY <1>3, <2>3 DEF DiscOpened, Goto, HelperTypes
  <2>4. CASE Install(h)
    BY <1>1, <1>2, <1>3, <2>4 DEF Install, HelperHasTerminal
  <2> QED BY <2>1, <2>2, <2>3, <2>4
<1>4. CASE k # h
  <2>1. /\ at[k] \in {"install", "pause"} /\ line[k] \in attached /\ line[k] \notin raced
        /\ Holds(k)
    BY <1>0, <1>1, <1>4 DEF HelperHasTerminal, Holds, Locked, HasTTY
  <2>2. CASE line[h] # line[k]
    BY <1>2, <2>1, <2>2, HelperModule DEF SetLdisc, LdiscOpen, LdiscClose
  <2>3. CASE line[h] = line[k]
    <3>1. ~ Holds(h)
      BY <1>4, <2>1, <2>3 DEF LockInv
    <3>2. Start(h) \/ Test(h) \/ Signal(h) \/ Forget(h) \/ Exit(h)
      BY <3>1 DEF Holds, Locked, HasTTY, HelperStep, Creat, WritePid, OpenTTY, GetState,
         SetRaw, SetDisc, DiscOpened, Install, Kill, RestoreDisc, DiscReopened,
         RestoreState, Unlock, Leave
    <3>3. CASE Exit(h)
      <4>1. k \in {g \in Helpers : g # h /\ line[g] = line[h] /\ at[g] \in HasTTY}
        BY <1>4, <2>1, <2>3 DEF HasTTY
      <4>2. UNCHANGED vars
        BY <3>3, <4>1 DEF Exit
      <4> QED BY <1>2, <2>1, <4>2
    <3>4. CASE Start(h) \/ Test(h) \/ Signal(h) \/ Forget(h)
      BY <1>2, <2>1, <3>4 DEF Start, Test, Signal, Forget
    <3> QED BY <3>2, <3>3, <3>4
  <2> QED BY <2>2, <2>3
<1> QED BY <1>3, <1>4

LEMMA NextAttach == AttachInv /\ [AttachNext]_attachVars => AttachInv'
<1> SUFFICES ASSUME AttachInv, [AttachNext]_attachVars PROVE AttachInv'
  OBVIOUS
<1>1. ASSUME NEW h \in Helpers, HelperStep(h) PROVE AttachInv'
  BY <1>1, HelperTypesStep, KernelStep, LockStep, TerminalStep DEF AttachInv
<1>2. CASE UNCHANGED <<opening, attached>> /\ UNCHANGED helperVars
  BY <1>2 DEF AttachInv, helperVars, lockVars, history, HelperTypes, OpeningInv,
     KernelInv, LockInv, Holds, HelperHasTerminal
<1>3. ModuleStep => UNCHANGED <<opening, attached>>
  BY DEF ModuleStep, users, Insmod, SensorInit, LdiscInit, RegisterRegion, AddCdev,
     Rmmod, DeleteCdev, UnregisterRegion, LdiscDestroy, SensorDestroy, FreeSensors,
     Open, Close
<1>4. UNCHANGED attachVars => UNCHANGED <<opening, attached>> /\ UNCHANGED helperVars
  BY DEF attachVars, vars, users
<1> QED BY <1>1, <1>2, <1>3, <1>4 DEF AttachNext

LEMMA AttachTheorem == AttachSpec => []AttachInv
<1> QED BY InitAttach, NextAttach, PTL DEF AttachSpec

-----------------------------------------------------------------------------
(* What is given back *)

\* The mode of a terminal is changed between the system call that sets it and the
\* one that restores it, its discipline between two others.  Nobody can set what
\* is not given back, so that what a helper has found and will give back is always
\* an unchanged mode, and the discipline of a terminal nobody had changed.
ModeChanging == ModeChanged \cup InKernel
DiscChanging == DiscChanged \cup InKernel

CleanMode(t) ==
    (\A h \in Helpers : line[h] = t => at[h] \notin ModeChanging) => t \notin raw

CleanDisc(t) ==
    (\A h \in Helpers : line[h] = t => at[h] \notin DiscChanging) => t \notin attached

Found(h) == Holds(h) /\ at[h] \notin {"creat", "write", "open", "get"}

FoundMode(h) == Found(h) => before[h].raw = FALSE

FoundDisc(h) == (Found(h) => before[h].lunix = FALSE) /\ at[h] # "reopening"

ModeInv ==
    /\ \A t \in TTYs \ (raced \cup modeLost) : CleanMode(t)
    /\ \A h \in Helpers : line[h] \notin raced \cup modeLost => FoundMode(h)

DiscInv ==
    /\ \A t \in TTYs \ (raced \cup discLost) : CleanDisc(t)
    /\ \A h \in Helpers : line[h] \notin raced \cup discLost => FoundDisc(h)

LEMMA InitClean == AttachInit => ModeInv /\ DiscInv
<1> SUFFICES ASSUME AttachInit PROVE ModeInv /\ DiscInv
  OBVIOUS
<1>1. raw = {} /\ attached = {} /\ \A h \in Helpers : at[h] = "new"
  BY DEF AttachInit, Init
<1> QED BY <1>1 DEF ModeInv, DiscInv, CleanMode, CleanDisc, FoundMode, FoundDisc, Found,
        Holds, Locked, HasTTY

\* A helper leaves the other terminals alone, and what the other helpers know.
LEMMA OwnTerminal ==
    ASSUME HelperTypes, NEW h \in Helpers, HelperStep(h)
    PROVE  /\ raced \subseteq raced' /\ modeLost \subseteq modeLost' /\ discLost \subseteq discLost'
           /\ \A g \in Helpers \ {h} : before'[g] = before[g]
           /\ \A t \in TTYs \ {line[h]} :
                (t \in raw' <=> t \in raw) /\ (t \in attached' <=> t \in attached)
<1> USE DEF HelperTypes
<1>1. UNCHANGED vars => attached' = attached
  BY DEF vars, users
<1>2. \A t \in TTYs \ {line[h]} : t \in attached' <=> t \in attached
  BY <1>1, HelperModule DEF SetLdisc, LdiscOpen, LdiscClose
<1>3. Exit(h) => modeLost \subseteq modeLost' /\ discLost \subseteq discLost'
  BY DEF Exit
<1>4. CASE \/ Start(h) \/ Test(h) \/ Creat(h) \/ WritePid(h) \/ OpenTTY(h) \/ Install(h)
           \/ Signal(h) \/ Unlock(h) \/ Forget(h)
  <2>1. UNCHANGED <<before, raw, modeLost, discLost>> /\ raced \subseteq raced'
    BY <1>4 DEF Start, Test, Creat, WritePid, OpenTTY, Install, Signal, Unlock, Forget,
       history
  <2> QED BY <1>2, <2>1
<1>5. CASE GetState(h) \/ SetRaw(h) \/ RestoreState(h)
  <2>1. raced' = raced /\ modeLost \subseteq modeLost' /\ discLost \subseteq discLost'
    BY <1>3, <1>5 DEF GetState, SetRaw, RestoreState
  <2>2. \A g \in Helpers \ {h} : before'[g] = before[g]
    BY <1>5 DEF GetState, SetRaw, RestoreState
  <2>3. \A t \in TTYs \ {line[h]} : t \in raw' <=> t \in raw
    BY <1>5 DEF GetState, SetRaw, RestoreState
  <2> QED BY <1>2, <2>1, <2>2, <2>3
<1>6. CASE SetDisc(h) \/ DiscOpened(h) \/ Kill(h) \/ Leave(h)
  <2>1. /\ UNCHANGED <<before, raw, raced>>
        /\ modeLost \subseteq modeLost' /\ discLost \subseteq discLost'
    BY <1>3, <1>6 DEF SetDisc, DiscOpened, Kill, Leave
  <2> QED BY <1>2, <2>1
<1>7. CASE RestoreDisc(h) \/ DiscReopened(h)
  <2>1. UNCHANGED <<before, raw, raced, modeLost>> /\ discLost \subseteq discLost'
    BY <1>7 DEF RestoreDisc, DiscReopened
  <2> QED BY <1>2, <2>1
<1> QED BY <1>4, <1>5, <1>6, <1>7 DEF HelperStep

\* Nobody but the helper itself comes to hold a terminal.
LEMMA OthersHold ==
    ASSUME HelperTypes, NEW h \in Helpers, HelperStep(h), NEW g \in Helpers \ {h}
    PROVE  Holds(g)' => Holds(g)
<1>0. line' = line /\ at'[g] = at[g] /\ line[h] \in TTYs /\ line[g] \in TTYs
  BY Moves, Others DEF HelperTypes
<1>1. lock'[line[g]] \in {lock[line[g]], "empty", "none", h}
  BY <1>0 DEF HelperStep, lockVars, HelperTypes, Start, Test, Creat, WritePid, OpenTTY,
     GetState, SetRaw, SetDisc, DiscOpened, Install, Signal, Kill, RestoreDisc,
     DiscReopened, RestoreState, Unlock, Unlinked, Forget, Leave
<1>2. g \notin {"empty", "none", h}
  BY AttachAssumption
<1> QED BY <1>0, <1>1, <1>2 DEF Holds

\* What a helper finds when it opens its terminal: nobody else is at work on it.
LEMMA FindsClean ==
    ASSUME HelperTypes, LockInv, NEW h \in Helpers, at[h] = "get", line[h] \notin raced
    PROVE  /\ CleanMode(line[h]) => line[h] \notin raw
           /\ CleanDisc(line[h]) => line[h] \notin attached
<1>1. \A g \in Helpers : line[g] = line[h] => at[g] \notin ModeChanging \cup DiscChanging
  <2> SUFFICES ASSUME NEW g \in Helpers, line[g] = line[h],
                      at[g] \in ModeChanging \cup DiscChanging
               PROVE  FALSE
    OBVIOUS
  <2>1. at[g] \in Locked /\ at[h] \in Locked /\ at[g] # "get"
    BY DEF ModeChanging, DiscChanging, ModeChanged, DiscChanged, InKernel, Locked, HasTTY
  <2>2. g = h
    BY <2>1 DEF LockInv, Holds
  <2> QED BY <2>1, <2>2
<1> QED BY <1>1 DEF CleanMode, CleanDisc

\* A helper that goes on is one that held its terminal before.
LEMMA StillFound ==
    ASSUME HelperTypes, NEW h \in Helpers, HelperStep(h), Found(h)',
           line[h] \notin raced'
    PROVE  \/ at[h] = "get" /\ GetState(h) /\ ~ Exit(h)
           \/ Found(h) /\ before' = before
<1> USE DEF HelperTypes, Found, Holds, Locked, HasTTY, Goto
<1>0. line' = line
  BY Moves
<1>1. Exit(h) => at'[h] = "gone"
  BY DEF Exit
<1>2. CASE Start(h) \/ Test(h) \/ Creat(h) \/ WritePid(h) \/ OpenTTY(h)
  BY <1>2 DEF Start, Test, Creat, WritePid, OpenTTY
<1>3. CASE GetState(h)
  <2>1. at[h] = "get"
    BY <1>3 DEF GetState
  <2>2. ~ Exit(h)
    BY <1>1
  <2> QED BY <1>3, <2>1, <2>2
<1>4. CASE SetRaw(h) \/ SetDisc(h) \/ DiscOpened(h) \/ Install(h) \/ Kill(h) \/ Leave(h)
  BY <1>1, <1>4 DEF SetRaw, SetDisc, DiscOpened, Install, Kill, Leave
<1>5. CASE Signal(h)
  BY <1>5 DEF Signal
<1>6. CASE RestoreDisc(h) \/ DiscReopened(h) \/ RestoreState(h)
  BY <1>6 DEF RestoreDisc, DiscReopened, RestoreState
<1>7. CASE Unlock(h) \/ Forget(h)
  BY <1>0, <1>7 DEF Unlock, Unlinked, Forget
<1> QED BY <1>2, <1>3, <1>4, <1>5, <1>6, <1>7 DEF HelperStep

\* What a step of a helper does to the mode of its own terminal, if neither that
\* has been raced for nor its mode lost.
LEMMA OwnMode ==
    ASSUME HelperTypes, LockInv, ModeInv, NEW h \in Helpers, HelperStep(h),
           line[h] \notin raced' \cup modeLost'
    PROVE  /\ FoundMode(h)'
           /\ at'[h] \notin ModeChanging =>
                \/ line[h] \notin raw'
                \/ at[h] \notin ModeChanging /\ (line[h] \in raw' => line[h] \in raw)
<1> DEFINE t == line[h]
<1>0. /\ t \in TTYs /\ t \notin raced /\ t \notin modeLost
      /\ line' = line /\ at' = [at EXCEPT ![h] = at'[h]]
      /\ at \in [Helpers -> Labels]
  BY Moves, Others, OwnTerminal DEF HelperTypes, Goto
<1>1. FoundMode(h) /\ CleanMode(t)
  BY <1>0 DEF ModeInv
<1>2. FoundMode(h)'
  <2> SUFFICES ASSUME Found(h)' PROVE before'[h].raw = FALSE
    BY DEF FoundMode
  <2>1. CASE at[h] = "get" /\ GetState(h) /\ ~ Exit(h)
    <3>1. t \notin raw
      BY <1>0, <1>1, <2>1, FindsClean
    <3>2. before' = [before EXCEPT ![h] = [raw |-> t \in raw, lunix |-> t \in attached]]
      BY <2>1 DEF GetState
    <3>3. before'[h] = [raw |-> t \in raw, lunix |-> t \in attached]
      BY <3>2 DEF HelperTypes
    <3>4. \A x, y \in BOOLEAN : [raw |-> x, lunix |-> y].raw = x
      OBVIOUS
    <3>5. (t \in raw) \in BOOLEAN /\ (t \in attached) \in BOOLEAN /\ (t \in raw) = FALSE
      BY <3>1
    <3>6. [raw |-> t \in raw, lunix |-> t \in attached].raw = FALSE
      BY <3>4, <3>5, Zenon
    <3> QED BY <3>3, <3>6, Zenon
  <2>2. CASE Found(h) /\ before' = before
    BY <1>1, <2>2 DEF FoundMode
  <2> QED BY <1>0, <2>1, <2>2, StillFound
<1>3. ASSUME at'[h] \notin ModeChanging
      PROVE  \/ t \notin raw'
             \/ at[h] \notin ModeChanging /\ (t \in raw' => t \in raw)
  <2> USE DEF ModeChanging, ModeChanged, InKernel
  <2>1. Exit(h) => at[h] \notin ModeChanged
    BY <1>0 DEF Exit
  <2>2. CASE Start(h) \/ Test(h) \/ Creat(h) \/ WritePid(h) \/ OpenTTY(h) \/ GetState(h)
    BY <2>2 DEF Start, Test, Creat, WritePid, OpenTTY, GetState
  <2>3. CASE SetRaw(h)
    BY <1>0, <1>3, <2>3 DEF SetRaw, Goto, Exit
  <2>4. CASE SetDisc(h) \/ DiscOpened(h)
    BY <1>0, <1>3, <2>1, <2>4 DEF SetDisc, DiscOpened, Goto
  <2>5. CASE Install(h) \/ Signal(h) \/ RestoreDisc(h) \/ DiscReopened(h)
    BY <1>0, <1>3, <2>5 DEF Install, Signal, RestoreDisc, DiscReopened, Goto
  <2>6. CASE Kill(h) \/ Leave(h)
    BY <2>1, <2>6 DEF Kill, Leave
  <2>7. CASE RestoreState(h)
    <3>1. Found(h)
      BY <2>7 DEF RestoreState, Found, Holds, Locked, HasTTY
    <3>2. before[h].raw = FALSE
      BY <1>1, <3>1 DEF FoundMode
    <3> QED BY <1>0, <2>7, <3>2 DEF RestoreState
  <2>8. CASE Unlock(h) \/ Forget(h)
    BY <2>8 DEF Unlock, Forget
  <2> QED BY <2>2, <2>3, <2>4, <2>5, <2>6, <2>7, <2>8 DEF HelperStep
<1> QED BY <1>2, <1>3

\* The same of its discipline.
LEMMA OwnDisc ==
    ASSUME HelperTypes, LockInv, DiscInv, NEW h \in Helpers, HelperStep(h),
           line[h] \notin raced' \cup discLost'
    PROVE  /\ FoundDisc(h)'
           /\ at'[h] \notin DiscChanging =>
                \/ line[h] \notin attached'
                \/ /\ at[h] \notin DiscChanging
                   /\ (line[h] \in attached' => line[h] \in attached)
<1> DEFINE t == line[h]
<1>0. /\ t \in TTYs /\ t \notin raced /\ t \notin discLost
      /\ line' = line /\ at' = [at EXCEPT ![h] = at'[h]]
      /\ at \in [Helpers -> Labels]
  BY Moves, Others, OwnTerminal DEF HelperTypes, Goto
<1>1. FoundDisc(h) /\ CleanDisc(t)
  BY <1>0 DEF DiscInv
<1>2. Found(h)' => before'[h].lunix = FALSE
  <2> SUFFICES ASSUME Found(h)' PROVE before'[h].lunix = FALSE
    OBVIOUS
  <2>1. CASE at[h] = "get" /\ GetState(h) /\ ~ Exit(h)
    <3>1. t \notin attached
      BY <1>0, <1>1, <2>1, FindsClean
    <3>2. before' = [before EXCEPT ![h] = [raw |-> t \in raw, lunix |-> t \in attached]]
      BY <2>1 DEF GetState
    <3>3. before'[h] = [raw |-> t \in raw, lunix |-> t \in attached]
      BY <3>2 DEF HelperTypes
    <3>4. \A x, y \in BOOLEAN : [raw |-> x, lunix |-> y].lunix = y
      OBVIOUS
    <3>5. (t \in raw) \in BOOLEAN /\ (t \in attached) \in BOOLEAN /\ (t \in attached) = FALSE
      BY <3>1
    <3>6. [raw |-> t \in raw, lunix |-> t \in attached].lunix = FALSE
      BY <3>4, <3>5, Zenon
    <3> QED BY <3>3, <3>6, Zenon
  <2>2. CASE Found(h) /\ before' = before
    BY <1>1, <2>2 DEF FoundDisc
  <2> QED BY <1>0, <2>1, <2>2, StillFound
<1>4. UNCHANGED vars => attached' = attached
  BY DEF vars, users
<1>5. Exit(h) => /\ at'[h] = "gone" /\ at[h] \notin DiscChanged
                 /\ t \in attached' => t \in attached
  BY <1>0, <1>4 DEF Exit, Goto, LdiscClose
\* Nothing to set, so the discipline is closed, or it was not there.
<1>6. CASE RestoreDisc(h)
  <2>1. Found(h) /\ before' = before
    BY <1>6 DEF RestoreDisc, Found, Holds, Locked, HasTTY
  <2>2. before[h].lunix = FALSE
    BY <1>1, <2>1 DEF FoundDisc
  <2> QED
    <3>1. \/ (t \notin attached) /\ Goto(h, "restore") /\ UNCHANGED vars
          \/ LdiscClose(t) /\ Goto(h, "restore")
      BY <1>0, <1>6, <2>2 DEF RestoreDisc
    <3>2. at'[h] = "restore" /\ t \notin attached'
      BY <1>0, <1>4, <3>1 DEF LdiscClose, Goto
    <3> QED BY <1>2, <3>2 DEF FoundDisc
<1>7. CASE ~ RestoreDisc(h)
  <2>1. at'[h] # "reopening"
    BY <1>0, <1>5, <1>7 DEF HelperStep, Start, Test, Creat, WritePid, OpenTTY, GetState,
       SetRaw, SetDisc, DiscOpened, Install, Signal, Kill, DiscReopened, RestoreState,
       Unlock, Forget, Leave, Goto
  <2>2. ASSUME at'[h] \notin DiscChanging
        PROVE  \/ t \notin attached'
               \/ at[h] \notin DiscChanging /\ (t \in attached' => t \in attached)
    <3> USE DEF DiscChanging, DiscChanged, InKernel
    <3>1. CASE \/ Start(h) \/ Test(h) \/ Creat(h) \/ WritePid(h) \/ OpenTTY(h)
               \/ RestoreState(h) \/ Unlock(h) \/ Forget(h)
      BY <1>4, <3>1 DEF Start, Test, Creat, WritePid, OpenTTY, RestoreState, Unlock, Forget
    <3>2. CASE GetState(h) \/ SetRaw(h)
      BY <1>4, <1>5, <3>2 DEF GetState, SetRaw
    <3>3. CASE SetDisc(h)
      BY <1>0, <1>4, <1>5, <2>2, <3>3 DEF SetDisc, Goto
    <3>4. CASE DiscOpened(h)
      BY <1>0, <2>2, <3>4 DEF DiscOpened, Goto
    <3>5. CASE Install(h) \/ Signal(h)
      BY <1>0, <2>2, <3>5 DEF Install, Signal, Goto
    <3>6. CASE Kill(h) \/ Leave(h)
      BY <1>5, <3>6 DEF Kill, Leave
    <3>7. CASE DiscReopened(h)
      BY <1>1, <3>7 DEF DiscReopened, FoundDisc
    <3> QED BY <1>7, <3>1, <3>2, <3>3, <3>4, <3>5, <3>6, <3>7 DEF HelperStep
  <2> QED BY <1>2, <2>1, <2>2 DEF FoundDisc
<1> QED BY <1>6, <1>7

LEMMA ModeStep ==
    ASSUME HelperTypes, LockInv, ModeInv, NEW h \in Helpers, HelperStep(h)
    PROVE  ModeInv'
<1>0. /\ line' = line /\ \A g \in Helpers : line[g] \in TTYs
      /\ \A g \in Helpers : g # h => at'[g] = at[g]
  BY Moves, Others DEF HelperTypes
<1>1. raced \subseteq raced' /\ modeLost \subseteq modeLost'
  BY OwnTerminal
<1>2. ASSUME NEW t \in TTYs, t \notin raced' \cup modeLost' PROVE CleanMode(t)'
  <2> SUFFICES ASSUME \A g \in Helpers : line[g] = t => at'[g] \notin ModeChanging
               PROVE  t \notin raw'
    BY <1>0 DEF CleanMode, ModeChanging, ModeChanged, InKernel
  <2>1. CleanMode(t)
    BY <1>1, <1>2 DEF ModeInv
  <2>2. CASE t # line[h] \/ at[h] \notin ModeChanging
    <3>1. \A g \in Helpers : line[g] = t => at[g] \notin ModeChanging
      BY <1>0, <2>2
    <3>2. t \notin raw
      BY <2>1, <3>1 DEF CleanMode
    <3>3. CASE t # line[h]
      BY <3>2, <3>3, OwnTerminal
    <3>4. CASE t = line[h]
      BY <1>2, <3>2, <3>4, OwnMode
    <3> QED BY <3>3, <3>4
  <2>3. CASE t = line[h] /\ at[h] \in ModeChanging
    BY <1>2, <2>3, OwnMode
  <2> QED BY <2>2, <2>3
<1>3. ASSUME NEW g \in Helpers, line[g] \notin raced' \cup modeLost' PROVE FoundMode(g)'
  <2>1. CASE g = h
    BY <1>3, <2>1, OwnMode
  <2>2. CASE g # h
    <3>1. FoundMode(g) /\ at'[g] = at[g] /\ before'[g] = before[g] /\ (Holds(g)' => Holds(g))
      BY <1>0, <1>1, <1>3, <2>2, OwnTerminal, OthersHold DEF ModeInv
    <3> QED BY <3>1 DEF FoundMode, Found
  <2> QED BY <2>1, <2>2
<1> QED BY <1>0, <1>2, <1>3 DEF ModeInv

LEMMA DiscStep ==
    ASSUME HelperTypes, LockInv, DiscInv, NEW h \in Helpers, HelperStep(h)
    PROVE  DiscInv'
<1>0. /\ line' = line /\ \A g \in Helpers : line[g] \in TTYs
      /\ \A g \in Helpers : g # h => at'[g] = at[g]
  BY Moves, Others DEF HelperTypes
<1>1. raced \subseteq raced' /\ discLost \subseteq discLost'
  BY OwnTerminal
<1>2. ASSUME NEW t \in TTYs, t \notin raced' \cup discLost' PROVE CleanDisc(t)'
  <2> SUFFICES ASSUME \A g \in Helpers : line[g] = t => at'[g] \notin DiscChanging
               PROVE  t \notin attached'
    BY <1>0 DEF CleanDisc, DiscChanging, DiscChanged, InKernel
  <2>1. CleanDisc(t)
    BY <1>1, <1>2 DEF DiscInv
  <2>2. CASE t # line[h] \/ at[h] \notin DiscChanging
    <3>1. \A g \in Helpers : line[g] = t => at[g] \notin DiscChanging
      BY <1>0, <2>2
    <3>2. t \notin attached
      BY <2>1, <3>1 DEF CleanDisc
    <3>3. CASE t # line[h]
      BY <3>2, <3>3, OwnTerminal
    <3>4. CASE t = line[h]
      BY <1>2, <3>2, <3>4, OwnDisc
    <3> QED BY <3>3, <3>4
  <2>3. CASE t = line[h] /\ at[h] \in DiscChanging
    BY <1>2, <2>3, OwnDisc
  <2> QED BY <2>2, <2>3
<1>3. ASSUME NEW g \in Helpers, line[g] \notin raced' \cup discLost' PROVE FoundDisc(g)'
  <2>1. CASE g = h
    BY <1>3, <2>1, OwnDisc
  <2>2. CASE g # h
    <3>1. FoundDisc(g) /\ at'[g] = at[g] /\ before'[g] = before[g] /\ (Holds(g)' => Holds(g))
      BY <1>0, <1>1, <1>3, <2>2, OwnTerminal, OthersHold DEF DiscInv
    <3> QED BY <3>1 DEF FoundDisc, Found
  <2> QED BY <2>1, <2>2
<1> QED BY <1>0, <1>2, <1>3 DEF DiscInv

LEMMA NextClean ==
    AttachInv /\ ModeInv /\ DiscInv /\ [AttachNext]_attachVars => ModeInv' /\ DiscInv'
<1> SUFFICES ASSUME AttachInv, ModeInv, DiscInv, [AttachNext]_attachVars
             PROVE  ModeInv' /\ DiscInv'
  OBVIOUS
<1>1. CASE UNCHANGED attached /\ UNCHANGED helperVars
  BY <1>1 DEF ModeInv, DiscInv, CleanMode, CleanDisc, FoundMode, FoundDisc, Found, Holds,
     helperVars, lockVars, history
<1>2. ModuleStep => UNCHANGED attached
  BY DEF ModuleStep, users, Insmod, SensorInit, LdiscInit, RegisterRegion, AddCdev,
     Rmmod, DeleteCdev, UnregisterRegion, LdiscDestroy, SensorDestroy, FreeSensors,
     Open, Close
<1>3. UNCHANGED attachVars => UNCHANGED attached /\ UNCHANGED helperVars
  BY DEF attachVars, vars, users
<1> QED BY <1>1, <1>2, <1>3, ModeStep, DiscStep DEF AttachNext, AttachInv

-----------------------------------------------------------------------------
(* The theorems *)

\* The helpers use the line discipline as LunixModule says that any process
\* may: what is proved of the module holds with them.
THEOREM HelpersAreUsers == AttachSpec => Spec
<1>1. AttachInit => Init
  BY DEF AttachInit
<1>2. AttachInv /\ [AttachNext]_attachVars => [Next]_vars
  BY AttachRefines DEF AttachInv
<1> QED BY <1>1, <1>2, AttachTheorem, PTL DEF AttachSpec, Spec

\* Every variable of the helpers keeps its type, and the kernel opens the
\* discipline of exactly the terminals whose helpers ask for it.
THEOREM AttachTypeCorrect == AttachSpec => []AttachTypeOK
<1>1. AttachInv => AttachTypeOK
  BY DEF AttachInv, HelperTypes, OpeningInv, Labels, AttachTypeOK
<1> QED BY <1>1, AttachTheorem, PTL

\* One helper works on a terminal, the one its lock file names, as long as no
\* two have raced for the lock.
THEOREM OneHelperTheorem == AttachSpec => []OneHelper
<1>1. AttachInv => OneHelper
  BY DEF AttachInv, LockInv, Holds, OneHelper
<1> QED BY <1>1, AttachTheorem, PTL

\* A helper that waits for its signal has the discipline on its terminal.
THEOREM HelperHasTerminalTheorem == AttachSpec => []HelperHasTerminal
<1>1. AttachInv => HelperHasTerminal
  BY DEF AttachInv
<1> QED BY <1>1, AttachTheorem, PTL

\* A terminal that no helper works on has its mode back, unless a helper was ended
\* before it restored it or could not, and has its discipline back, unless the same
\* happened to that; if no two helpers have raced for it.
THEOREM GivenBackTheorem == AttachSpec => []GivenBack
<1>1. AttachSpec => [](AttachInv /\ ModeInv /\ DiscInv)
  BY InitClean, NextClean, AttachTheorem, PTL DEF AttachSpec
<1>2. ModeChanging \subseteq Locked /\ DiscChanging \subseteq Locked
  BY DEF ModeChanging, DiscChanging, ModeChanged, DiscChanged, InKernel, Locked, HasTTY
<1>3. ModeInv /\ DiscInv => GivenBack
  BY <1>2 DEF ModeInv, DiscInv, CleanMode, CleanDisc, GivenBack
<1> QED BY <1>1, <1>3, PTL

=============================================================================

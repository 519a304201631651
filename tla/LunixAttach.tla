----------------------------- MODULE LunixAttach ----------------------------
(***************************************************************************)
(* The userspace helper (lunix-attach.c) that sets the Lunix discipline on *)
(* a terminal, together with the module it needs (LunixModule).  A helper  *)
(* locks its terminal by a file that holds its pid, saves the terminal's   *)
(* mode and discipline, sets its own, and waits for a signal, whose        *)
(* handler gives everything back.                                          *)
(*                                                                         *)
(* Helpers run at the same time, on one terminal or on several, each step  *)
(* between two system calls; each system call may fail, those whose result *)
(* is ignored too, and a helper may be killed.  A helper is its pid: pids  *)
(* are not used again, and all helpers run as one user.                    *)
(*                                                                         *)
(* External: the last close of a terminal releases its discipline, and a   *)
(* terminal some other program holds open keeps it; the mode stays.        *)
(***************************************************************************)
EXTENDS LunixModule

CONSTANTS
    Helpers,        \* processes that run lunix-attach
    HeldOpen,       \* terminals that another program holds open
    MaxSignals      \* bound: signals sent to the helpers

ASSUME AttachAssumption ==
    /\ HeldOpen \subseteq TTYs
    /\ MaxSignals \in Nat
    /\ Helpers \cap {"none", "empty"} = {}

VARIABLES
    at,             \* what each helper does next
    line,           \* its terminal
    before,         \* tty_before, ldisc_before
    saved,          \* helpers with saved_lock = 1
    linked,         \* helpers that write to the lock file that is at its path
    lock,           \* the lock file of each terminal: "none", "empty" or a pid
    raw,            \* terminals in the transparent state
    signals,        \* history: signals sent
    raced,          \* history: terminals whose lock was contended or could not
                    \* be read (see Test, Signal)
    modeLost,       \* history: terminals a helper could not give the mode, or
    discLost        \* the discipline, back

lockVars == <<saved, linked, lock>>
history == <<signals, raced, modeLost, discLost>>
helperVars == <<at, line, before, lockVars, raw, history>>
attachVars == <<vars, helperVars>>

\* Where a helper is: it has the terminal open, the lock, or has changed the
\* terminal's mode or discipline.
HasTTY == {"get", "raw", "ldisc", "opening", "install", "pause", "close",
           "reopening", "restore", "unlock", "forget", "exit"}
Locked == {"open"} \cup (HasTTY \ {"forget", "exit"})
ModeChanged == {"ldisc", "install", "pause", "close", "restore"}
DiscChanged == {"install", "pause", "close"}
InKernel == {"opening", "reopening"}
Alive == {"test", "creat", "write"} \cup Locked \cup HasTTY

Live(h) == at[h] \in Alive
Goto(h, label) == at' = [at EXCEPT ![h] = label]
Unlinked(t) == /\ lock' = [lock EXCEPT ![t] = "none"]
               /\ linked' = {g \in linked : line[g] # t}

AttachInit ==
    /\ Init
    /\ at = [h \in Helpers |-> "new"]
    /\ line \in [Helpers -> TTYs]
    /\ before = [h \in Helpers |-> [raw |-> FALSE, lunix |-> FALSE]]
    /\ saved = {} /\ linked = {} /\ lock = [t \in TTYs |-> "none"]
    /\ raw = {}
    /\ signals = 0 /\ raced = {} /\ modeLost = {} /\ discLost = {}

\* The process ends: the kernel closes the terminal.
Exit(h) ==
    LET t == line[h]
        others == {g \in Helpers : g # h /\ line[g] = t /\ at[g] \in HasTTY}
    IN
    /\ Goto(h, "gone")
    /\ IF at[h] \in HasTTY /\ t \in attached \ HeldOpen /\ others = {}
       THEN LdiscClose(t) ELSE UNCHANGED vars
    /\ modeLost' = modeLost \cup {u \in {t} : at[h] \in ModeChanged}
    /\ discLost' = discLost \cup {u \in {t} : at[h] \in DiscChanged}

-----------------------------------------------------------------------------
(* tty_lock *)

Start(h) ==
    /\ at[h] = "new"
    /\ Goto(h, "test")
    /\ UNCHANGED <<vars, line, before, lockVars, raw, history>>

\* Mutant of Test: a lock file is taken over whoever holds it.
BugTest(h) ==
    LET t == line[h] IN
    /\ at[h] = "test"
    /\ Goto(h, "creat")
    /\ raced' = IF \E g \in Helpers : line[g] = t /\ at[g] \in {"creat", "write"}
                THEN raced \cup {t} ELSE raced
    /\ UNCHANGED <<vars, line, before, lockVars, raw, signals, modeLost, discLost>>

\* tty_already_locked: only the pid of a live process stops the helper; no
\* file, no pid in it, a dead process and a file that cannot be opened do not.
\* Between this and the write of the pid another helper may pass: the lock is
\* not taken atomically.
Test(h) ==
    LET t == line[h] IN
    /\ at[h] = "test"
    /\ \/ /\ lock[t] \in Helpers /\ Live(lock[t])
          /\ Goto(h, "gone")
          /\ UNCHANGED raced
       \/ /\ lock[t] \in Helpers /\ Live(lock[t])
          /\ Goto(h, "creat")
          /\ raced' = raced \cup {t}
       \/ /\ ~ (lock[t] \in Helpers /\ Live(lock[t]))
          /\ Goto(h, "creat")
          /\ raced' = IF \E g \in Helpers : line[g] = t /\ at[g] \in {"creat", "write"}
                      THEN raced \cup {t} ELSE raced
    /\ UNCHANGED <<vars, line, before, lockVars, raw, signals, modeLost, discLost>>

\* creat truncates the file that is there, or makes one.
Creat(h) ==
    /\ at[h] = "creat"
    /\ \/ /\ lock' = [lock EXCEPT ![line[h]] = "empty"]
          /\ linked' = linked \cup {h}
          /\ Goto(h, "write")
       \/ Goto(h, "gone") /\ UNCHANGED <<lock, linked>>
    /\ UNCHANGED <<vars, line, before, saved, raw, history>>

\* Mutant of WritePid: the pid of the parent, the shell, is written.
BugWritePid(h) ==
    LET t == line[h] IN
    /\ at[h] = "write"
    /\ lock' = [lock EXCEPT ![t] = "shell"]
    /\ linked' = linked \ {h}
    /\ saved' \in {saved, saved \cup {h}}
    /\ Goto(h, "open")
    /\ UNCHANGED <<vars, line, before, raw, history>>

\* The pid is written and the file given to UUCP; when there is no such user
\* the lock is held, but will not be given back.  After a write that failed the
\* file is removed, if that does not fail too.
WritePid(h) ==
    LET t == line[h] IN
    /\ at[h] = "write"
    /\ \/ /\ lock' = IF h \in linked THEN [lock EXCEPT ![t] = h] ELSE lock
          /\ linked' = linked \ {h}
          /\ saved' \in {saved, saved \cup {h}}
          /\ Goto(h, "open")
       \/ /\ Unlinked(t) \/ (linked' = linked \ {h} /\ UNCHANGED lock)
          /\ Goto(h, "gone")
          /\ UNCHANGED saved
    /\ UNCHANGED <<vars, line, before, raw, history>>

-----------------------------------------------------------------------------
(* tty_open *)

\* A failure returns without giving the lock back; the pid will be dead.
OpenTTY(h) ==
    /\ at[h] = "open"
    /\ Goto(h, "get") \/ Goto(h, "gone")
    /\ UNCHANGED <<vars, line, before, lockVars, raw, history>>

GetState(h) ==
    LET t == line[h] IN
    /\ at[h] = "get"
    /\ \/ /\ before' = [before EXCEPT ![h] = [raw |-> t \in raw, lunix |-> t \in attached]]
          /\ Goto(h, "raw")
          /\ UNCHANGED <<vars, modeLost, discLost>>
       \/ Exit(h) /\ UNCHANGED before
    /\ UNCHANGED <<line, lockVars, raw, signals, raced>>

SetRaw(h) ==
    /\ at[h] = "raw"
    /\ \/ /\ raw' = raw \cup {line[h]}
          /\ Goto(h, "ldisc")
          /\ UNCHANGED <<vars, modeLost, discLost>>
       \/ Exit(h) /\ UNCHANGED raw
    /\ UNCHANGED <<line, before, lockVars, signals, raced>>

\* tty_set_ldisc(N_LUNIX_LDISC): nothing to do if it is set already, else the
\* kernel looks the discipline up, which fails when it is not registered.  The
\* call may fail before it gets there.
SetDisc(h) ==
    LET t == line[h] IN
    /\ at[h] = "ldisc" /\ t \notin opening
    /\ \/ /\ t \in attached /\ Goto(h, "install")
          /\ UNCHANGED <<vars, modeLost, discLost>>
       \/ SetLdisc(t) /\ Goto(h, "opening") /\ UNCHANGED <<modeLost, discLost>>
       \/ Exit(h)
    /\ UNCHANGED <<line, before, lockVars, raw, signals, raced>>

\* Mutant of DiscOpened: the result of the system call is not looked at.
BugDiscOpened(h) ==
    LET t == line[h] IN
    /\ at[h] = "opening"
    /\ LdiscOpen(t)
    /\ Goto(h, "install")
    /\ UNCHANGED <<line, before, lockVars, raw, history>>

\* The kernel opens the discipline; when that fails the helper ends, and
\* leaves the terminal transparent and the lock file with a dead pid.
DiscOpened(h) ==
    LET t == line[h] IN
    /\ at[h] = "opening"
    /\ LdiscOpen(t)
    /\ IF t \in attached'
       THEN Goto(h, "install") /\ UNCHANGED modeLost
       ELSE Goto(h, "gone") /\ modeLost' = modeLost \cup {t}
    /\ UNCHANGED <<line, before, lockVars, raw, signals, raced, discLost>>

\* The signal handlers.
Install(h) ==
    /\ at[h] = "install"
    /\ Goto(h, "pause")
    /\ UNCHANGED <<vars, line, before, lockVars, raw, history>>

-----------------------------------------------------------------------------
(* sig_catch, tty_close *)

\* A signal that is caught, or a different one while the handler runs, which
\* starts the handler again.
Signal(h) ==
    LET t == line[h] IN
    /\ at[h] \in {"pause", "close", "restore", "unlock", "forget", "exit"}
    /\ signals < MaxSignals
    /\ signals' = signals + 1
    /\ Goto(h, "close")
    /\ raced' = IF at[h] # "pause" /\ lock[t] # h THEN raced \cup {t} ELSE raced
    /\ UNCHANGED <<vars, line, before, lockVars, raw, modeLost, discLost>>

\* A signal before its handler is installed, or one that cannot be caught.
\* A system call that changes the discipline is not interrupted.
Kill(h) ==
    /\ Live(h) /\ at[h] \notin InKernel
    /\ signals < MaxSignals
    /\ signals' = signals + 1
    /\ linked' = linked \ {h}
    /\ Exit(h)
    /\ UNCHANGED <<line, before, saved, lock, raw, raced>>

\* Mutant of RestoreDisc: when the discipline cannot be given back, neither is
\* the mode.
BugRestoreDisc(h) ==
    LET t == line[h] IN
    /\ at[h] = "close"
    /\ \/ t \in attached /\ LdiscClose(t) /\ Goto(h, "restore") /\ UNCHANGED discLost
       \/ Goto(h, "unlock") /\ discLost' = discLost \cup {t} /\ UNCHANGED vars
    /\ UNCHANGED <<line, before, lockVars, raw, signals, raced, modeLost>>

\* tty_set_ldisc(ldisc_before).  Its result is ignored: when it fails the mode is
\* restored all the same.
RestoreDisc(h) ==
    LET t == line[h]
        set == before[h].lunix
    IN
    /\ at[h] = "close" /\ t \notin opening
    /\ \/ /\ set = (t \in attached)
          /\ Goto(h, "restore")
          /\ UNCHANGED <<vars, discLost>>
       \/ ~ set /\ LdiscClose(t) /\ Goto(h, "restore") /\ UNCHANGED discLost
       \/ set /\ SetLdisc(t) /\ Goto(h, "reopening") /\ UNCHANGED discLost
       \/ /\ set # (t \in attached)
          /\ Goto(h, "restore")
          /\ discLost' = discLost \cup {t}
          /\ UNCHANGED vars
    /\ UNCHANGED <<line, before, lockVars, raw, signals, raced, modeLost>>

\* The kernel opens the discipline again; it may fail.
DiscReopened(h) ==
    LET t == line[h] IN
    /\ at[h] = "reopening"
    /\ LdiscOpen(t)
    /\ discLost' = IF t \in attached' THEN discLost ELSE discLost \cup {t}
    /\ Goto(h, "restore")
    /\ UNCHANGED <<line, before, lockVars, raw, signals, raced, modeLost>>

\* tty_restore: there is no speed "0" in the table, so that the state saved is
\* restored as it is.  Its result is ignored too.
RestoreState(h) ==
    LET t == line[h] IN
    /\ at[h] = "restore"
    /\ \/ /\ raw' = IF before[h].raw THEN raw \cup {t} ELSE raw \ {t}
          /\ UNCHANGED modeLost
       \/ modeLost' = modeLost \cup {t} /\ UNCHANGED raw
    /\ Goto(h, "unlock")
    /\ UNCHANGED <<vars, line, before, lockVars, signals, raced, discLost>>

\* tty_lock(NULL, 0): the file at the path is removed, whoever's it is, unless
\* there is none or it cannot be.
Unlock(h) ==
    /\ at[h] = "unlock"
    /\ \/ /\ h \in saved /\ lock[line[h]] # "none"
          /\ Unlinked(line[h])
          /\ Goto(h, "forget")
       \/ UNCHANGED <<lock, linked>> /\ Goto(h, "exit")
    /\ UNCHANGED <<vars, line, before, saved, raw, history>>

\* saved_lock = 0, which an unlink that failed does not reach.
Forget(h) ==
    /\ at[h] = "forget"
    /\ saved' = saved \ {h}
    /\ Goto(h, "exit")
    /\ UNCHANGED <<vars, line, before, linked, lock, raw, history>>

\* exit(0)
Leave(h) ==
    /\ at[h] = "exit"
    /\ Exit(h)
    /\ UNCHANGED <<line, before, lockVars, raw, signals, raced>>

-----------------------------------------------------------------------------
HelperStep(h) ==
    \/ Start(h) \/ Test(h) \/ Creat(h) \/ WritePid(h)
    \/ OpenTTY(h) \/ GetState(h) \/ SetRaw(h) \/ SetDisc(h) \/ DiscOpened(h)
    \/ Install(h) \/ Signal(h) \/ Kill(h)
    \/ RestoreDisc(h) \/ DiscReopened(h) \/ RestoreState(h)
    \/ Unlock(h) \/ Forget(h) \/ Leave(h)

AttachNext ==
    \/ ModuleStep /\ UNCHANGED helperVars
    \/ \E h \in Helpers : HelperStep(h)

AttachSpec == AttachInit /\ [][AttachNext]_attachVars

-----------------------------------------------------------------------------
(* Properties *)

AttachTypeOK ==
    /\ at \in [Helpers -> Alive \cup {"new", "gone"}]
    /\ line \in [Helpers -> TTYs]
    /\ before \in [Helpers -> [raw : BOOLEAN, lunix : BOOLEAN]]
    /\ saved \subseteq Helpers /\ linked \subseteq Helpers
    /\ lock \in [TTYs -> Helpers \cup {"none", "empty"}]
    /\ raw \subseteq TTYs /\ raced \subseteq TTYs
    /\ modeLost \subseteq TTYs /\ discLost \subseteq TTYs
    /\ signals \in 0 .. MaxSignals
    /\ opening = {line[h] : h \in {g \in Helpers : at[g] \in InKernel}}

\* "there's no active process that owns that lock": two helpers never work on
\* one terminal, across helpers that fail, are killed or cannot give their lock
\* back, except after two have raced through the test, a lock could not be read,
\* or a second signal has started the handler again once the lock was given
\* back.  Whoever works on a terminal is the one its lock names.
OneHelper ==
    \A h \in Helpers : at[h] \in Locked /\ line[h] \notin raced =>
        /\ lock[line[h]] = h
        /\ \A g \in Helpers \ {h} : line[g] = line[h] => at[g] \notin Locked

\* "Line discipline set on %s, press ^C to release the TTY": a helper that waits
\* for its signal has the discipline on its terminal, whatever the module, the
\* other terminals' helpers and those that were killed do; with SingleTTY,
\* helpers of one terminal only ever get here.
HelperHasTerminal ==
    \A h \in Helpers : at[h] \in {"install", "pause"} /\ line[h] \notin raced =>
        line[h] \in attached

\* "Set the old discipline and restore the previous line mode": a terminal that
\* no helper works on has the mode it had before the first one, unless one of its
\* helpers was killed, failed half way or could not restore it, and it has the
\* discipline it had, unless one was killed or could not set it back: what
\* happens to one of the two does not keep the other from being given back.
GivenBack ==
    \A t \in TTYs \ raced :
        (\A h \in Helpers : line[h] = t => at[h] \notin Locked) =>
            /\ t \notin modeLost => t \notin raw
            /\ t \notin discLost => t \notin attached

=============================================================================

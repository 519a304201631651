---------------------------- MODULE VirtioCrypto ----------------------------
(***************************************************************************)
(* The virtual crypto device: the guest's character device                 *)
(* (crypto-chrdev.c) passes each open, ioctl and release to the host       *)
(* through one virtqueue.  A call takes the spin lock of the device, puts  *)
(* its buffers in the queue, notifies the host, spins until any buffer     *)
(* comes back, and releases the lock; the QEMU backend (virtio-cryptodev.c) *)
(* takes one element out of the queue at each notification, executes it in *)
(* the guest's memory and gives it back.                                   *)
(*                                                                         *)
(* Notifications coalesce: the queue of virtio is external.  The device    *)
(* may be freed while files are open on it, or calls under way: what the   *)
(* kernel does with the memory from then on is not modelled.               *)
(***************************************************************************)
EXTENDS CryptoHost, Sequences, FiniteSets

CONSTANT
    Size        \* places in the virtqueue, one for each request, at least

ASSUME SizeAssumption == Size \in Nat \ {0}

VARIABLES
    host, state, fd, call, reply, ret, freed,   \* as in CryptoRPC
    pc,         \* what each process does next
    lock,       \* crdev->lock: the processes that hold it
    avail,      \* the virtqueue: requests the host has not taken
    used,       \* and those it has given back
    kicked,     \* the host has been notified
    serving     \* the requests the host has taken and not given back

data == <<host, state, fd, call, reply, ret>>
queue == <<avail, used, kicked, serving>>
vars == <<data, pc, lock, queue, freed>>

Init ==
    /\ host = [fds |-> {}, sessions |-> {}]
    /\ state = [f \in Files |-> "none"]
    /\ fd = [f \in Files |-> NoFd]
    /\ call = [c \in Procs |-> NoCall]
    /\ reply = [c \in Procs |-> NoReply(NoCall)]
    /\ ret = [c \in Procs |-> "none"]
    /\ pc = [c \in Procs |-> "idle"]
    /\ lock = {}
    /\ avail = <<>> /\ used = <<>> /\ kicked = FALSE /\ serving = {}
    /\ freed = FALSE

Goto(c, label) == pc' = [pc EXCEPT ![c] = label]

Busy == {call[c].file : c \in {d \in Procs : pc[d] # "idle"}}

-----------------------------------------------------------------------------
(* crypto_chrdev_open, _ioctl and _release *)

\* The buffers are allocated and filled.
Prepare(c, k) ==
    /\ pc[c] = "idle"
    /\ Callable(k, state, Busy)
    /\ call' = [call EXCEPT ![c] = k]
    /\ reply' = [reply EXCEPT ![c] = NoReply(k)]
    /\ state' = [state EXCEPT ![k.file] = FileDuring(k)]
    /\ ret' = [ret EXCEPT ![c] = "none"]
    /\ Goto(c, "lock")
    /\ UNCHANGED <<host, fd, lock, queue>>

\* No such device, no memory for the file, a bad pointer, or read: the call
\* returns before the queue is touched.
Refuse(c) ==
    /\ pc[c] = "idle"
    /\ ret' = [ret EXCEPT ![c] = "error"]
    /\ UNCHANGED <<host, state, fd, call, reply, pc, lock, queue>>

\* Mutant of Lock: the call does not take the lock of the device.
BugLock(c) ==
    /\ pc[c] = "lock"
    /\ lock' = lock \cup {c}
    /\ Goto(c, "send")
    /\ UNCHANGED <<data, queue>>

\* spin_lock_irqsave(&crdev->lock, flags)
Lock(c) ==
    /\ pc[c] = "lock"
    /\ lock = {}
    /\ lock' = {c}
    /\ Goto(c, "send")
    /\ UNCHANGED <<data, queue>>

\* virtqueue_add_sgs, whose failure is not noticed, and virtqueue_kick
Send(c) ==
    /\ pc[c] = "send"
    /\ IF Len(avail) + Len(used) + Cardinality(serving) < Size
       THEN avail' = Append(avail, c)
       ELSE UNCHANGED avail
    /\ kicked' = TRUE
    /\ Goto(c, "wait")
    /\ UNCHANGED <<data, lock, used, serving>>

\* The loop around virtqueue_get_buf ends with the first buffer given back,
\* whoever's it is.
Receive(c) ==
    /\ pc[c] = "wait"
    /\ used # <<>>
    /\ used' = Tail(used)
    /\ Goto(c, "unlock")
    /\ UNCHANGED <<data, lock, avail, kicked, serving>>

\* spin_unlock_irqrestore(&crdev->lock, flags)
Unlock(c) ==
    /\ pc[c] = "unlock"
    /\ lock' = lock \ {c}
    /\ Goto(c, "return")
    /\ UNCHANGED <<data, queue>>

\* The buffers are given back.
Return(c) ==
    LET k == call[c]
        after == FileAfter(k, fd[k.file])
    IN
    /\ pc[c] = "return"
    /\ state' = [state EXCEPT ![k.file] = after]
    /\ fd' = [fd EXCEPT ![k.file] = IF after = "none" THEN NoFd ELSE @]
    /\ \E r \in Results(k, fd[k.file]) : ret' = [ret EXCEPT ![c] = r]
    /\ call' = [call EXCEPT ![c] = NoCall]
    /\ reply' = [reply EXCEPT ![c] = NoReply(NoCall)]
    /\ Goto(c, "idle")
    /\ UNCHANGED <<host, lock, queue>>

-----------------------------------------------------------------------------
(* vq_handle_output *)

\* A notification: one element is taken, if there is one, and executed; its
\* answers go to the guest's memory at once.
Serve ==
    /\ kicked /\ serving = {}
    /\ kicked' = FALSE
    /\ IF avail = <<>> THEN UNCHANGED <<data, avail, serving>>
       ELSE LET c == Head(avail)
                k == call[c]
            IN  /\ avail' = Tail(avail)
                /\ serving' = {c}
                /\ \E a \in Answers(k, fd[k.file], host) :
                     /\ host' = a.host
                     /\ reply' = [reply EXCEPT ![c] = a.reply]
                     /\ fd' = [fd EXCEPT ![k.file] = a.reply.fd]
                /\ UNCHANGED <<state, call, ret>>
    /\ UNCHANGED <<pc, lock, used>>

\* virtqueue_push and virtio_notify
Push ==
    /\ serving # {}
    /\ \E c \in serving : used' = Append(used, c)
    /\ serving' = {}
    /\ UNCHANGED <<data, pc, lock, avail, kicked>>

-----------------------------------------------------------------------------
\* virtcons_remove: the device is freed, whatever is open.
Free ==
    /\ InUse(state) /\ ~ freed
    /\ freed' = TRUE
    /\ UNCHANGED <<data, pc, lock, queue>>

\* What happens while the device is there.
There(A) == ~ freed /\ A /\ UNCHANGED freed

Guest(c) == Lock(c) \/ Send(c) \/ Receive(c) \/ Unlock(c) \/ Return(c)

\* Every step but the beginning of a call.
Proceed ==
    \/ \E c \in Procs : Refuse(c) \/ Guest(c)
    \/ Serve
    \/ Push

Begin == \E c \in Procs, k \in Call : Prepare(c, k)

Next == There(Proceed \/ Begin) \/ Free

\* A process inside a call runs on, and gets the spin lock in the end (the
\* kernel's spin locks are queued); QEMU handles its notifications.
Fairness ==
    /\ \A c \in Procs : SF_vars(There(Lock(c))) /\ WF_vars(There(Guest(c)))
    /\ WF_vars(There(Serve)) /\ WF_vars(There(Push))

Spec == Init /\ [][Next]_vars /\ Fairness

-----------------------------------------------------------------------------
(* Properties *)

TypeOK ==
    /\ host \in Host
    /\ state \in [Files -> {"none", "busy", "open"}]
    /\ fd \in [Files -> Fds \cup {NoFd}]
    /\ \A f \in Files : state[f] = "open" => fd[f] # NoFd
    /\ call \in [Procs -> Call]
    /\ reply \in [Procs -> Reply]
    /\ ret \in [Procs -> {"none", "success", "error"}]
    /\ pc \in [Procs -> {"idle", "lock", "send", "wait", "unlock", "return"}]
    /\ lock \subseteq Procs
    /\ avail \in Seq(Procs) /\ used \in Seq(Procs)
    /\ kicked \in BOOLEAN /\ freed \in BOOLEAN
    /\ serving \subseteq Procs

\* The lock makes the queue safe to use: whatever is in it belongs to the one
\* process that spins for an answer, so no call takes the answer of another,
\* the queue is never full, and no request waits without a notification.
OneRequest ==
    /\ Len(avail) + Len(used) + Cardinality(serving) <= 1
    /\ \A c \in Procs :
         pc[c] = "wait" =>
             \/ avail = <<c>> /\ kicked
             \/ serving = {c}
             \/ used = <<c>>

\* Every descriptor the host has open belongs to one open file of the guest,
\* through failed openings, concurrent calls and releases: none is leaked and
\* no two files share one, nor the sessions on it.
Executed(c) == pc[c] \in {"unlock", "return"} \/ c \in serving \/ used = <<c>>
Closed == {call[c].file : c \in {d \in Procs : /\ pc[d] # "idle" /\ Executed(d)
                                              /\ call[d].kind = "close"}}
FdsOfFiles ==
    /\ host.fds = {fd[f] : f \in Files \ Closed} \ {NoFd}
    /\ \A f, g \in Files : fd[f] = fd[g] /\ fd[f] # NoFd => f = g \/ f \in Closed \/ g \in Closed
    /\ \A s \in host.sessions : s[1] \in host.fds

\* "calls from the user in the QEMU guest machine will be properly transfered
\* to the hypervisor through virtIO and virtqueues": each is executed exactly
\* once by the host, between its beginning and its return.
RPC == INSTANCE CryptoRPC WITH
    stage <- [c \in Procs |-> CASE pc[c] = "idle" -> "idle"
                                [] pc[c] # "idle" /\ Executed(c) -> "done"
                                [] OTHER -> "called"]

CallsAsRemote == RPC!Spec

\* No call spins for ever with the lock of the device and its interrupts off,
\* unless the device is freed under it.
CallReturns == \A c \in Procs : pc[c] # "idle" ~> (pc[c] = "idle" \/ freed)

\* What the tests rely on, "if (ioctl(cfd, CIOCCRYPT, &cryp))": an ioctl that
\* the host refused does not return success.
IoctlTellsFailure ==
    [][\A c \in Procs :
         Return(c) /\ call[c].kind \in Ioctls /\ reply[c].ret = -1 =>
             ret'[c] # "success"]_vars

=============================================================================

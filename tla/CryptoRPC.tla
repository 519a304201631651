------------------------------ MODULE CryptoRPC -----------------------------
(***************************************************************************)
(* What the virtual crypto device promises: every call of a guest process  *)
(* is executed once by the host, at one instant between its beginning and  *)
(* its return, and returns what that execution answered.  There is no      *)
(* lock, no queue and no notification here.  The promise ends when the     *)
(* device is freed while a file is open on it.                             *)
(***************************************************************************)
EXTENDS CryptoHost

VARIABLES
    host,       \* the host's open descriptors and sessions
    state,      \* of each open file of the guest
    fd,         \* its host descriptor
    stage,      \* of each process: idle, called or done
    call,       \* its current call
    reply,      \* the answer to it
    ret,        \* what its last call returned
    freed       \* the device was freed under an open file

vars == <<host, state, fd, stage, call, reply, ret, freed>>

Init ==
    /\ host = [fds |-> {}, sessions |-> {}]
    /\ state = [f \in Files |-> "none"]
    /\ fd = [f \in Files |-> NoFd]
    /\ stage = [c \in Procs |-> "idle"]
    /\ call = [c \in Procs |-> NoCall]
    /\ reply = [c \in Procs |-> NoReply(NoCall)]
    /\ ret = [c \in Procs |-> "none"]
    /\ freed = FALSE

Busy == {call[c].file : c \in {d \in Procs : stage[d] # "idle"}}

\* A process begins a call.
Invoke(c, k) ==
    /\ stage[c] = "idle"
    /\ Callable(k, state, Busy)
    /\ stage' = [stage EXCEPT ![c] = "called"]
    /\ call' = [call EXCEPT ![c] = k]
    /\ reply' = [reply EXCEPT ![c] = NoReply(k)]
    /\ state' = [state EXCEPT ![k.file] = FileDuring(k)]
    /\ ret' = [ret EXCEPT ![c] = "none"]
    /\ UNCHANGED <<host, fd>>

\* A call that cannot be made fails, and the host does not hear of it.
Refuse(c) ==
    /\ stage[c] = "idle"
    /\ ret' = [ret EXCEPT ![c] = "error"]
    /\ UNCHANGED <<host, state, fd, stage, call, reply>>

\* The host executes it.
Execute(c) ==
    /\ stage[c] = "called"
    /\ \E a \in Answers(call[c], fd[call[c].file], host) :
         /\ host' = a.host
         /\ reply' = [reply EXCEPT ![c] = a.reply]
         /\ fd' = [fd EXCEPT ![call[c].file] = a.reply.fd]
    /\ stage' = [stage EXCEPT ![c] = "done"]
    /\ UNCHANGED <<state, call, ret>>

\* The call returns.
Return(c) ==
    LET k == call[c]
        after == FileAfter(k, fd[k.file])
    IN
    /\ stage[c] = "done"
    /\ stage' = [stage EXCEPT ![c] = "idle"]
    /\ state' = [state EXCEPT ![k.file] = after]
    /\ fd' = [fd EXCEPT ![k.file] = IF after = "none" THEN NoFd ELSE @]
    /\ \E r \in Results(k, fd[k.file]) : ret' = [ret EXCEPT ![c] = r]
    /\ call' = [call EXCEPT ![c] = NoCall]
    /\ reply' = [reply EXCEPT ![c] = NoReply(NoCall)]
    /\ UNCHANGED host

\* The device is taken away with a file open on it.
Free ==
    /\ InUse(state) /\ ~ freed
    /\ freed' = TRUE
    /\ UNCHANGED <<host, state, fd, stage, call, reply, ret>>

\* What happens while the device is there.
There(A) == ~ freed /\ A /\ UNCHANGED freed

Next ==
    \/ \E c \in Procs :
         \/ \E k \in Call : There(Invoke(c, k))
         \/ There(Refuse(c))
         \/ There(Execute(c))
         \/ There(Return(c))
    \/ Free

\* Calls do not stay unexecuted, nor do their callers wait for ever.
Fairness ==
    \A c \in Procs : WF_vars(There(Execute(c))) /\ WF_vars(There(Return(c)))

Spec == Init /\ [][Next]_vars /\ Fairness

=============================================================================

----------------------------- MODULE CryptoHost -----------------------------
(***************************************************************************)
(* The calls that guest processes make on the virtual crypto device, and   *)
(* what the host answers: vq_handle_output of the QEMU backend             *)
(* (virtio-cryptodev.c) executes them on its own /dev/crypto.  What the    *)
(* host's cryptodev does is external: it gives out file descriptors and,   *)
(* for each of them, numbered sessions, and it may refuse.                 *)
(***************************************************************************)
EXTENDS Integers

CONSTANTS
    Procs,      \* guest processes
    Files,      \* open files of the guest, shared by processes that forked
    Fds,        \* file descriptors the host may have open
    Sids        \* session identifiers

ASSUME HostAssumption == Fds \subseteq Nat /\ Sids \subseteq Nat /\ Files # {}

NoFd == -1
NoSid == -1

Ioctls == {"CIOCGSESSION", "CIOCFSESSION", "CIOCCRYPT", "unsupported"}
Call ==
    [kind : {"CIOCFSESSION", "CIOCCRYPT"}, file : Files, sid : Sids]
    \cup [kind : {"open", "close", "CIOCGSESSION", "unsupported"}, file : Files,
          sid : {NoSid}]

Host == [fds : SUBSET Fds, sessions : SUBSET (Fds \X Sids)]

\* What the host writes into the guest's memory: crof->host_fd, host_ret_val
\* and the session of session_op.
Reply == [fd : Fds \cup {NoFd}, ret : {0, -1}, sid : Sids \cup {NoSid}]

\* Mutant of Types: release makes the mistake of open.
BugTypes(k) ==
    IF k.kind \in Ioctls THEN {"ioctl"} ELSE {k.kind, "unknown"}

\* The system call the host reads from the first buffer.  open hands over the
\* bytes of a pointer to the number instead of the number, and what they
\* read as, OPEN or nothing the host knows, is up to the build.
Types(k) ==
    CASE k.kind = "open" -> {"open", "unknown"}
      [] k.kind = "close" -> {"close"}
      [] OTHER -> {"ioctl"}

\* An ioctl of the host on file descriptor fd.
Ioctl(k, fd, untouched, h) ==
    LET refused == [reply |-> [untouched EXCEPT !.ret = -1], host |-> h] IN
    CASE k.kind = "CIOCGSESSION" ->
           {refused} \cup
           {[reply |-> [untouched EXCEPT !.sid = sid],
             host |-> [h EXCEPT !.sessions = @ \cup {<<fd, sid>>}]] :
              sid \in {s \in Sids : fd \in h.fds /\ <<fd, s>> \notin h.sessions}}
      [] k.kind = "CIOCFSESSION" ->
           IF <<fd, k.sid>> \in h.sessions
           THEN {[reply |-> untouched,
                  host |-> [h EXCEPT !.sessions = @ \ {<<fd, k.sid>>}]]}
           ELSE {refused}
      [] k.kind = "CIOCCRYPT" ->
           IF <<fd, k.sid>> \in h.sessions
           THEN {refused, [reply |-> untouched, host |-> h]}
           ELSE {refused}
      [] OTHER -> {[reply |-> untouched, host |-> h]}

\* vq_handle_output: what may come of call k on a file whose descriptor is fd.
Answers(k, fd, h) ==
    LET untouched == [fd |-> fd, ret |-> 0, sid |-> k.sid]
        Of(type) ==
            CASE type = "open" ->
                   {[reply |-> untouched, host |-> h]} \cup
                   {[reply |-> [untouched EXCEPT !.fd = d],
                     host |-> [h EXCEPT !.fds = @ \cup {d}]] : d \in Fds \ h.fds}
              [] type = "close" ->
                   {[reply |-> untouched,
                     host |-> [fds |-> h.fds \ {fd},
                               sessions |-> h.sessions \ ({fd} \X Sids)]]}
              [] type = "ioctl" -> Ioctl(k, fd, untouched, h)
              [] OTHER -> {[reply |-> untouched, host |-> h]}
    IN  UNION {Of(type) : type \in Types(k)}

-----------------------------------------------------------------------------
(* The file of a call: none, open, or busy being opened or closed *)

\* A process that has not called yet.
NoCall == CHOOSE k \in Call : k.kind = "close"

\* The guest's memory before the host has answered.
NoReply(k) == [fd |-> NoFd, ret |-> 0, sid |-> k.sid]

\* The call may be made: open makes a new open file, release is called when no
\* process is inside a call on the file any more.
Callable(k, state, busy) ==
    CASE k.kind = "open" -> state[k.file] = "none"
      [] k.kind = "close" -> state[k.file] = "open" /\ k.file \notin busy
      [] OTHER -> state[k.file] = "open"

InUse(state) == \E f \in Files : state[f] # "none"

FileDuring(k) == IF k.kind \in Ioctls THEN "open" ELSE "busy"

\* Mutant of Opened: the descriptor is tested for the wrong value.
BugOpened(fd) == fd >= -1

\* crypto_chrdev_open: "If host failed to open() return -ENODEV."
Opened(fd) == fd >= 0

\* What becomes of the file when the call returns.
FileAfter(k, fd) ==
    CASE k.kind = "open" -> IF Opened(fd) THEN "open" ELSE "none"
      [] k.kind = "close" -> "none"
      [] OTHER -> "open"

\* What the call may return: ioctl does not look at host_ret_val, but copies
\* what the host wrote to the user, which may fail.
Results(k, fd) ==
    CASE k.kind = "open" -> IF Opened(fd) THEN {"success"} ELSE {"error"}
      [] k.kind \in {"CIOCGSESSION", "CIOCCRYPT"} -> {"success", "error"}
      [] OTHER -> {"success"}

=============================================================================

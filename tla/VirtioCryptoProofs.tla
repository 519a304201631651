-------------------------- MODULE VirtioCryptoProofs ------------------------
(***************************************************************************)
(* Proofs about VirtioCrypto, for any number of processes, files,          *)
(* descriptors and sessions, and any size of the queue: the lock lets one  *)
(* request at a time into the queue, each call is executed as a remote     *)
(* call is, and the host's descriptors are those of the open files.        *)
(***************************************************************************)
EXTENDS VirtioCrypto, FiniteSetTheorems, TLAPS

Labels == {"idle", "lock", "send", "wait", "unlock", "return"}

LockInv ==
    /\ \A c \in Procs : pc[c] \in {"send", "wait", "unlock"} <=> c \in lock
    /\ \A c, d \in lock : c = d

\* The queue holds the request of the process that waits, and nothing else.
QueueInv ==
    /\ \A c \in Procs : pc[c] = "wait" =>
         \/ avail = <<c>> /\ kicked /\ used = <<>> /\ serving = {}
         \/ avail = <<>> /\ used = <<>> /\ serving = {c}
         \/ avail = <<>> /\ used = <<c>> /\ serving = {}
    /\ (\A c \in Procs : pc[c] # "wait") => avail = <<>> /\ used = <<>> /\ serving = {}

Calling(c) == pc[c] # "idle"

\* What a call knows of its file, and that a file that is being opened or
\* closed has one call.
CallInv ==
    /\ \A c \in Procs : Calling(c) => state[call[c].file] = FileDuring(call[c])
    /\ \A c, d \in Procs :
         Calling(c) /\ Calling(d) /\ call[c].file = call[d].file
           => c = d \/ call[c].kind \in Ioctls
    /\ \A c \in Procs :
         Calling(c) /\ call[c].kind = "open" /\ ~ Executed(c) => fd[call[c].file] = NoFd
    /\ \A f \in Files : state[f] = "none" => fd[f] = NoFd

CryptoInv == TypeOK /\ LockInv /\ QueueInv /\ CallInv /\ FdsOfFiles

-----------------------------------------------------------------------------
(* Calls and answers *)

LEMMA CallFields ==
    ASSUME NEW k \in Call
    PROVE  /\ k.file \in Files
           /\ k.sid \in Sids \cup {NoSid}
           /\ k.kind \in Ioctls \cup {"open", "close"}
           /\ NoReply(k) \in Reply
BY DEF Call, Ioctls, NoReply, Reply

LEMMA NoCallIsCall == NoCall \in Call /\ NoReply(NoCall) \in Reply
<1>1. PICK f \in Files : TRUE
  BY HostAssumption
<1>2. [kind |-> "close", file |-> f, sid |-> NoSid] \in Call
  BY DEF Call
<1>3. \E k \in Call : k.kind = "close"
  BY <1>2
<1>4. NoCall \in Call
  BY <1>3 DEF NoCall
<1> QED BY <1>4, CallFields

LEMMA OpenAnswers ==
    ASSUME NEW k \in Call, k.kind = "open", NEW d \in Fds \cup {NoFd}, NEW h \in Host,
           NEW a \in Answers(k, d, h)
    PROVE  /\ a.host \in Host /\ a.reply \in Reply
           /\ \/ a.reply.fd = d /\ a.host = h
              \/ /\ a.reply.fd \in Fds \ h.fds
                 /\ a.host.fds = h.fds \cup {a.reply.fd}
                 /\ a.host.sessions = h.sessions
<1> DEFINE u == [fd |-> d, ret |-> 0, sid |-> k.sid]
<1>1. u \in Reply
  BY CallFields DEF Reply
<1>2. \/ a = [reply |-> u, host |-> h]
      \/ \E e \in Fds \ h.fds : a = [reply |-> [u EXCEPT !.fd = e],
                                     host |-> [h EXCEPT !.fds = @ \cup {e}]]
  BY DEF Answers, Types
<1>3. CASE a = [reply |-> u, host |-> h]
  BY <1>1, <1>3
<1>4. ASSUME NEW e \in Fds \ h.fds,
             a = [reply |-> [u EXCEPT !.fd = e], host |-> [h EXCEPT !.fds = @ \cup {e}]]
      PROVE  /\ a.reply \in Reply /\ a.reply.fd = e
             /\ a.host \in Host /\ a.host.fds = h.fds \cup {e}
             /\ a.host.sessions = h.sessions
  <2>1. a.reply = [fd |-> e, ret |-> 0, sid |-> k.sid]
    BY <1>4
  <2>2. a.host = [fds |-> h.fds \cup {e}, sessions |-> h.sessions]
    BY <1>4 DEF Host
  <2> QED BY <2>1, <2>2, CallFields DEF Reply, Host
<1> QED BY <1>2, <1>3, <1>4

LEMMA CloseAnswers ==
    ASSUME NEW k \in Call, k.kind = "close", NEW d \in Fds \cup {NoFd}, NEW h \in Host,
           NEW a \in Answers(k, d, h)
    PROVE  /\ a.host \in Host /\ a.reply \in Reply
           /\ a.reply.fd = d
           /\ a.host.fds = h.fds \ {d}
           /\ a.host.sessions = h.sessions \ ({d} \X Sids)
<1>1. a = [reply |-> [fd |-> d, ret |-> 0, sid |-> k.sid],
           host |-> [fds |-> h.fds \ {d}, sessions |-> h.sessions \ ({d} \X Sids)]]
  BY DEF Answers, Types
<1> QED BY <1>1, CallFields DEF Reply, Host

\* An ioctl opens and closes no descriptor, and adds sessions to open ones only.
LEMMA IoctlAnswers ==
    ASSUME NEW k \in Call, k.kind \in Ioctls, NEW d \in Fds \cup {NoFd}, NEW h \in Host,
           NEW a \in Answers(k, d, h)
    PROVE  /\ a.host \in Host /\ a.reply \in Reply
           /\ a.reply.fd = d
           /\ a.host.fds = h.fds
           /\ a.host.sessions \subseteq h.sessions \cup (h.fds \X Sids)
<1> DEFINE u == [fd |-> d, ret |-> 0, sid |-> k.sid]
<1>1. a \in Ioctl(k, d, u, h)
  BY DEF Answers, Types, Ioctls
<1>2. u \in Reply /\ [u EXCEPT !.ret = -1] \in Reply
  BY CallFields DEF Reply
<1>3. CASE k.kind = "CIOCGSESSION"
  <2>1. \/ a = [reply |-> [u EXCEPT !.ret = -1], host |-> h]
        \/ \E s \in Sids :
             /\ d \in h.fds
             /\ a = [reply |-> [u EXCEPT !.sid = s],
                     host |-> [h EXCEPT !.sessions = @ \cup {<<d, s>>}]]
    BY <1>1, <1>3 DEF Ioctl
  <2>2. CASE a = [reply |-> [u EXCEPT !.ret = -1], host |-> h]
    BY <1>2, <2>2
  <2>3. ASSUME NEW s \in Sids, d \in h.fds,
               a = [reply |-> [u EXCEPT !.sid = s],
                    host |-> [h EXCEPT !.sessions = @ \cup {<<d, s>>}]]
        PROVE  /\ a.host \in Host /\ a.reply \in Reply
               /\ a.reply.fd = d
               /\ a.host.fds = h.fds
               /\ a.host.sessions \subseteq h.sessions \cup (h.fds \X Sids)
    <3>1. a.reply = [fd |-> d, ret |-> 0, sid |-> s]
      BY <2>3
    <3>2. a.host = [fds |-> h.fds, sessions |-> h.sessions \cup {<<d, s>>}]
      BY <2>3 DEF Host
    <3>3. <<d, s>> \in h.fds \X Sids /\ <<d, s>> \in Fds \X Sids
      BY <2>3 DEF Host
    <3> QED BY <3>1, <3>2, <3>3 DEF Reply, Host
  <2> QED BY <2>1, <2>2, <2>3
<1>4. CASE k.kind # "CIOCGSESSION"
  <2>1. /\ a.reply \in {u, [u EXCEPT !.ret = -1]}
        /\ a.host \in {h, [h EXCEPT !.sessions = @ \ {<<d, k.sid>>}]}
    BY <1>1, <1>4 DEF Ioctl, Ioctls
  <2>2. [h EXCEPT !.sessions = @ \ {<<d, k.sid>>}]
          = [fds |-> h.fds, sessions |-> h.sessions \ {<<d, k.sid>>}]
    BY DEF Host
  <2>3. a.reply \in Reply /\ a.reply.fd = d
    BY <1>2, <2>1
  <2> QED BY <2>1, <2>2, <2>3 DEF Host
<1> QED BY <1>3, <1>4

-----------------------------------------------------------------------------
(* The steps of a call that the host and the file do not see *)

LEMMA InitCrypto == Init => CryptoInv
<1> SUFFICES ASSUME Init PROVE CryptoInv
  OBVIOUS
<1> USE DEF Init
<1>1. host \in Host
  BY DEF Host
<1>2. TypeOK
  <2>1. call \in [Procs -> Call] /\ reply \in [Procs -> Reply]
    BY NoCallIsCall
  <2>2. /\ state \in [Files -> {"none", "busy", "open"}]
        /\ fd \in [Files -> Fds \cup {NoFd}]
        /\ \A f \in Files : state[f] = "open" => fd[f] # NoFd
    OBVIOUS
  <2>3. kicked \in BOOLEAN
    OBVIOUS
  <2>4. freed \in BOOLEAN
    OBVIOUS
  <2> QED BY <1>1, <2>1, <2>2, <2>3, <2>4 DEF TypeOK
<1>3. \A c \in Procs : pc[c] = "idle"
  OBVIOUS
<1>4. LockInv /\ QueueInv
  BY <1>3 DEF LockInv, QueueInv
<1>5. CallInv
  BY <1>3 DEF CallInv, Calling
<1>6. Closed = {}
  BY <1>3 DEF Closed
<1>7. FdsOfFiles
  BY <1>6 DEF FdsOfFiles
<1> QED BY <1>2, <1>4, <1>5, <1>7 DEF CryptoInv

\* One process moves.
LEMMA Moves ==
    ASSUME TypeOK, NEW c \in Procs, NEW label \in Labels, Goto(c, label)
    PROVE  /\ pc' \in [Procs -> Labels]
           /\ pc'[c] = label
           /\ \A d \in Procs : d # c => pc'[d] = pc[d]
BY DEF TypeOK, Labels, Goto

\* Nothing but where the processes are, the lock and the queue has changed, and
\* no call has begun, been executed or ended.
Unseen ==
    /\ UNCHANGED data
    /\ \A c \in Procs : (Calling(c)' <=> Calling(c)) /\ (Executed(c)' <=> Executed(c))

LEMMA UnseenKeeps ==
    ASSUME CallInv, FdsOfFiles, Unseen
    PROVE  CallInv' /\ FdsOfFiles'
<1> USE DEF Unseen, data
<1>1. CallInv'
  BY DEF CallInv
<1>2. Closed' = {call[c].file : c \in {d \in Procs : /\ Calling(d)' /\ Executed(d)'
                                                    /\ call[d].kind = "close"}}
  BY DEF Closed, Calling
<1>3. Closed = {call[c].file : c \in {d \in Procs : /\ Calling(d) /\ Executed(d)
                                                   /\ call[d].kind = "close"}}
  BY DEF Closed, Calling
<1>4. Closed' = Closed
  BY <1>2, <1>3
<1>5. FdsOfFiles'
  BY <1>4 DEF FdsOfFiles
<1> QED BY <1>1, <1>5

LEMMA LockStep ==
    ASSUME CryptoInv, NEW c \in Procs, Lock(c), UNCHANGED freed
    PROVE  TypeOK' /\ LockInv' /\ QueueInv' /\ Unseen
<1> USE DEF CryptoInv, Lock, data, queue
<1>1. /\ pc' \in [Procs -> Labels] /\ pc'[c] = "send"
      /\ \A d \in Procs : d # c => pc'[d] = pc[d]
  BY Moves DEF Labels
<1>2. TypeOK'
  BY <1>1 DEF TypeOK, Labels
<1>3. LockInv'
  BY <1>1 DEF LockInv
<1>4. QueueInv'
  BY <1>1 DEF QueueInv
<1>5. Unseen
  BY <1>1 DEF Unseen, Calling, Executed
<1> QED BY <1>2, <1>3, <1>4, <1>5

\* The process that holds the lock finds the queue empty, so its request fits.
LEMMA SendStep ==
    ASSUME CryptoInv, NEW c \in Procs, Send(c), UNCHANGED freed
    PROVE  /\ TypeOK' /\ LockInv' /\ QueueInv' /\ Unseen
<1> USE DEF CryptoInv, Send, data
<1>1. /\ pc' \in [Procs -> Labels] /\ pc'[c] = "wait"
      /\ \A d \in Procs : d # c => pc'[d] = pc[d]
  BY Moves DEF Labels
<1>2. \A d \in Procs : pc[d] # "wait"
  BY DEF LockInv
<1>3. avail = <<>> /\ used = <<>> /\ serving = {}
  BY <1>2 DEF QueueInv
<1>4. Len(avail) + Len(used) + Cardinality(serving) < Size
  BY <1>3, FS_EmptySet, SizeAssumption
<1>5. avail' = <<c>>
  BY <1>3, <1>4
<1>6. TypeOK'
  BY <1>1, <1>5 DEF TypeOK, Labels
<1>7. LockInv'
  BY <1>1 DEF LockInv
<1>8. QueueInv'
  BY <1>1, <1>2, <1>3, <1>5 DEF QueueInv
<1>9. Unseen
  BY <1>1, <1>3 DEF Unseen, Calling, Executed
<1> QED BY <1>6, <1>7, <1>8, <1>9

\* The answer that ends the loop is the process's own.
LEMMA ReceiveStep ==
    ASSUME CryptoInv, NEW c \in Procs, Receive(c), UNCHANGED freed
    PROVE  /\ TypeOK' /\ LockInv' /\ QueueInv' /\ Unseen
<1> USE DEF CryptoInv, Receive, data
<1>1. /\ pc' \in [Procs -> Labels] /\ pc'[c] = "unlock"
      /\ \A d \in Procs : d # c => pc'[d] = pc[d]
  BY Moves DEF Labels
<1>2. avail = <<>> /\ used = <<c>> /\ serving = {}
  BY DEF QueueInv
<1>3. used' = <<>>
  BY <1>2
<1>4. \A d \in Procs : pc'[d] # "wait"
  BY <1>1 DEF LockInv
<1>5. TypeOK'
  BY <1>1, <1>3 DEF TypeOK, Labels
<1>6. LockInv'
  BY <1>1 DEF LockInv
<1>7. QueueInv'
  BY <1>2, <1>3, <1>4 DEF QueueInv
<1>8. Unseen
  BY <1>1, <1>2, <1>3 DEF Unseen, Calling, Executed
<1> QED BY <1>5, <1>6, <1>7, <1>8

LEMMA UnlockStep ==
    ASSUME CryptoInv, NEW c \in Procs, Unlock(c), UNCHANGED freed
    PROVE  /\ TypeOK' /\ LockInv' /\ QueueInv' /\ Unseen
<1> USE DEF CryptoInv, Unlock, data, queue
<1>1. /\ pc' \in [Procs -> Labels] /\ pc'[c] = "return"
      /\ \A d \in Procs : d # c => pc'[d] = pc[d]
  BY Moves DEF Labels
<1>2. TypeOK'
  BY <1>1 DEF TypeOK, Labels
<1>3. LockInv'
  BY <1>1 DEF LockInv
<1>4. QueueInv'
  BY <1>1 DEF QueueInv
<1>5. Unseen
  BY <1>1 DEF Unseen, Calling, Executed
<1> QED BY <1>2, <1>3, <1>4, <1>5

LEMMA PushStep ==
    ASSUME CryptoInv, Push, UNCHANGED freed
    PROVE  /\ TypeOK' /\ LockInv' /\ QueueInv' /\ Unseen
<1> USE DEF CryptoInv, Push, data
<1>1. PICK c \in serving : used' = Append(used, c)
  OBVIOUS
<1>2. c \in Procs
  BY DEF TypeOK
<1>3. \E d \in Procs : pc[d] = "wait"
  BY DEF QueueInv
<1>4. PICK d \in Procs : pc[d] = "wait"
  BY <1>3
<1>5. avail = <<>> /\ used = <<>> /\ serving = {d} /\ c = d
  BY <1>4 DEF QueueInv
<1>6. used' = <<c>>
  BY <1>1, <1>5
<1>7. \A e \in Procs : pc[e] = "wait" => e = c
  BY <1>4, <1>5 DEF LockInv
<1>8. TypeOK'
  BY <1>2, <1>6 DEF TypeOK
<1>9. LockInv'
  BY DEF LockInv
<1>10. QueueInv'
  BY <1>4, <1>5, <1>6, <1>7 DEF QueueInv
<1>11. \A e \in Procs : used = <<e>> => FALSE
  BY <1>5
<1>12. \A e \in Procs : used' = <<e>> <=> e = c
  BY <1>6
<1>13. Unseen
  BY <1>5, <1>11, <1>12 DEF Unseen, Calling, Executed
<1> QED BY <1>8, <1>9, <1>10, <1>13

-----------------------------------------------------------------------------
(* The beginning and the end of a call *)

LEMMA InQueue ==
    ASSUME TypeOK, QueueInv, NEW c \in Procs, pc[c] # "wait"
    PROVE  avail # <<c>> /\ c \notin serving /\ used # <<c>>
<1>1. CASE \A d \in Procs : pc[d] # "wait"
  BY <1>1 DEF QueueInv
<1>2. ASSUME NEW d \in Procs, pc[d] = "wait"
      PROVE  avail # <<c>> /\ c \notin serving /\ used # <<c>>
  BY <1>2 DEF QueueInv
<1> QED BY <1>1, <1>2

\* The calls that Closed speaks of.
Closing(c) == Calling(c) /\ Executed(c) /\ call[c].kind = "close"

LEMMA ClosedIs ==
    /\ Closed = {call[c].file : c \in {d \in Procs : Closing(d)}}
    /\ Closed' = {call'[c].file : c \in {d \in Procs : Closing(d)'}}
BY DEF Closed, Closing, Calling

\* A file that has a call is closed by it or not at all.
LEMMA OneCall ==
    ASSUME TypeOK, CallInv, NEW c \in Procs, Calling(c)
    PROVE  call[c].file \in Closed <=> Closing(c)
<1>1. ASSUME NEW d \in Procs, Closing(d), call[d].file = call[c].file
      PROVE  Closing(c)
  <2>1. d = c \/ call[d].kind \in Ioctls
    BY <1>1 DEF CallInv, Closing
  <2> QED BY <1>1, <2>1 DEF Closing, Ioctls
<1> QED BY <1>1, ClosedIs

LEMMA FileTypes ==
    ASSUME TypeOK, NEW c \in Procs
    PROVE  /\ call[c].file \in Files /\ call[c] \in Call
           /\ fd[call[c].file] \in Fds \cup {NoFd}
<1>1. call[c] \in Call
  BY DEF TypeOK
<1>2. call[c].file \in Files
  BY <1>1, CallFields
<1> QED BY <1>1, <1>2 DEF TypeOK

LEMMA PrepareTypes ==
    ASSUME CryptoInv, NEW c \in Procs, NEW k \in Call, Prepare(c, k), UNCHANGED freed
    PROVE  TypeOK' /\ LockInv' /\ QueueInv'
<1> USE DEF CryptoInv, Prepare, queue
<1>1. /\ pc' \in [Procs -> Labels] /\ pc'[c] = "lock"
      /\ \A d \in Procs : d # c => pc'[d] = pc[d]
  BY Moves DEF Labels
<1>2. /\ call' \in [Procs -> Call] /\ reply' \in [Procs -> Reply]
      /\ ret' \in [Procs -> {"none", "success", "error"}]
  BY CallFields DEF TypeOK
<1>3. FileDuring(k) \in {"busy", "open"}
  BY DEF FileDuring
<1>4. state' \in [Files -> {"none", "busy", "open"}]
  BY <1>3 DEF TypeOK
<1>5. \A f \in Files : state'[f] = "open" => state[f] = "open"
  <2>1. FileDuring(k) = "open" => state[k.file] = "open"
    BY CallFields DEF Callable, FileDuring, Ioctls
  <2> QED BY <2>1 DEF TypeOK
<1>6. TypeOK'
  BY <1>1, <1>2, <1>4, <1>5 DEF TypeOK, Labels
<1>7. LockInv'
  BY <1>1 DEF LockInv
<1>8. QueueInv'
  BY <1>1 DEF QueueInv
<1> QED BY <1>6, <1>7, <1>8

\* The call finds its file as no other call leaves it behind.
LEMMA PrepareCall ==
    ASSUME CryptoInv, NEW c \in Procs, NEW k \in Call, Prepare(c, k)
    PROVE  CallInv'
<1> USE DEF CryptoInv
<1>1. /\ pc'[c] = "lock" /\ pc[c] = "idle"
      /\ \A d \in Procs : d # c => pc'[d] = pc[d]
  BY Moves DEF Labels, Prepare
<1>2. call'[c] = k /\ \A d \in Procs : d # c => call'[d] = call[d]
  BY DEF Prepare, TypeOK
<1>3. /\ state'[k.file] = FileDuring(k)
      /\ \A f \in Files : f # k.file => state'[f] = state[f]
  BY CallFields DEF Prepare, TypeOK
<1>4. fd' = fd /\ serving' = serving /\ used' = used
  BY DEF Prepare, queue
<1>5. \A d \in Procs : d # c => (Calling(d)' <=> Calling(d)) /\ (Executed(d)' <=> Executed(d))
  BY <1>1, <1>4 DEF Calling, Executed
<1>6. ASSUME NEW d \in Procs, d # c, Calling(d), call[d].file = k.file
      PROVE  k.kind \in Ioctls /\ call[d].kind \in Ioctls
  <2>1. state[k.file] = FileDuring(call[d])
    BY <1>6 DEF CallInv
  <2>2. state[k.file] \in {"open", "busy"}
    BY <2>1 DEF FileDuring
  <2>3. k.kind # "open"
    BY <2>2 DEF Prepare, Callable
  <2>4. state[k.file] = "open"
    BY <2>3 DEF Prepare, Callable
  <2>5. call[d].kind \in Ioctls
    BY <2>1, <2>4 DEF FileDuring
  <2>6. k.file \in Busy
    BY <1>6 DEF Busy, Calling
  <2>7. k.kind # "close"
    BY <2>6 DEF Prepare, Callable
  <2> QED BY <2>3, <2>5, <2>7, CallFields
<1>7. \A d \in Procs : Calling(d)' => state'[call'[d].file] = FileDuring(call'[d])
  <2> SUFFICES ASSUME NEW d \in Procs, Calling(d)'
               PROVE  state'[call'[d].file] = FileDuring(call'[d])
    OBVIOUS
  <2>1. CASE d = c
    BY <1>2, <1>3, <2>1
  <2>2. CASE d # c /\ call[d].file # k.file
    BY <1>2, <1>3, <1>5, <2>2, FileTypes DEF CallInv
  <2>3. CASE d # c /\ call[d].file = k.file
    BY <1>2, <1>3, <1>5, <1>6, <2>3 DEF FileDuring
  <2> QED BY <2>1, <2>2, <2>3
<1>8. \A d, e \in Procs :
        Calling(d)' /\ Calling(e)' /\ call'[d].file = call'[e].file
          => d = e \/ call'[d].kind \in Ioctls
  BY <1>2, <1>5, <1>6 DEF CallInv
<1>9. \A d \in Procs : Calling(d)' /\ call'[d].kind = "open" /\ ~ Executed(d)'
        => fd'[call'[d].file] = NoFd
  <2>1. k.kind = "open" => fd[k.file] = NoFd
    BY CallFields DEF Prepare, Callable, CallInv
  <2> QED BY <1>2, <1>4, <1>5, <2>1 DEF CallInv
<1>10. \A f \in Files : state'[f] = "none" => fd'[f] = NoFd
  BY <1>3, <1>4 DEF CallInv, FileDuring
<1> QED BY <1>7, <1>8, <1>9, <1>10 DEF CallInv

LEMMA PrepareFds ==
    ASSUME CryptoInv, NEW c \in Procs, NEW k \in Call, Prepare(c, k)
    PROVE  FdsOfFiles'
<1> USE DEF CryptoInv
<1>1. /\ pc'[c] = "lock" /\ pc[c] = "idle"
      /\ \A d \in Procs : d # c => pc'[d] = pc[d] /\ call'[d] = call[d]
  BY Moves DEF Labels, Prepare, TypeOK
<1>2. host' = host /\ fd' = fd /\ serving' = serving /\ used' = used
  BY DEF Prepare, queue
<1>3. ~ Closing(c) /\ ~ Closing(c)'
  BY <1>1, <1>2, InQueue DEF Closing, Calling, Executed
<1>4. \A d \in Procs : d # c => (Closing(d)' <=> Closing(d))
  BY <1>1, <1>2 DEF Closing, Calling, Executed
<1>5. {d \in Procs : Closing(d)'} = {d \in Procs : Closing(d)}
  BY <1>3, <1>4
<1>6. Closed' = Closed
  BY <1>1, <1>3, <1>5, ClosedIs
<1> QED BY <1>2, <1>6 DEF FdsOfFiles

LEMMA OpenedIs == \A d \in Fds \cup {NoFd} : Opened(d) <=> d # NoFd
<1>1. \A d \in Fds : d \in Nat
  BY HostAssumption
<1> QED BY <1>1 DEF Opened, NoFd

\* What a call that returns does to its file: an ioctl nothing, a refused open
\* and a close leave none, an open leaves it open on its descriptor.
LEMMA ReturnFile ==
    ASSUME CryptoInv, NEW c \in Procs, Return(c), NEW f \in Files, f = call[c].file
    PROVE  /\ \A g \in Files : g # f => state'[g] = state[g] /\ fd'[g] = fd[g]
           /\ call[c].kind \in Ioctls => state'[f] = "open" /\ state[f] = "open" /\ fd'[f] = fd[f]
           /\ call[c].kind = "close" => state'[f] = "none" /\ fd'[f] = NoFd
           /\ call[c].kind = "open" =>
                /\ fd'[f] = fd[f]
                /\ state'[f] = IF fd[f] = NoFd THEN "none" ELSE "open"
<1> DEFINE after == FileAfter(call[c], fd[f])
<1> USE DEF CryptoInv
<1>1. /\ state'[f] = after
      /\ fd'[f] = IF after = "none" THEN NoFd ELSE fd[f]
      /\ \A g \in Files : g # f => state'[g] = state[g] /\ fd'[g] = fd[g]
  BY DEF Return, TypeOK
<1>2. state[f] = FileDuring(call[c])
  BY DEF Return, CallInv, Calling
<1>3. fd[f] \in Fds \cup {NoFd}
  BY DEF TypeOK
<1>4. Opened(fd[f]) <=> fd[f] # NoFd
  BY <1>3, OpenedIs
<1>5. CASE call[c].kind \in Ioctls
  BY <1>1, <1>2, <1>5 DEF FileAfter, FileDuring, Ioctls
<1>6. CASE call[c].kind = "close"
  BY <1>1, <1>6 DEF FileAfter, Ioctls
<1>7. CASE call[c].kind = "open"
  BY <1>1, <1>4, <1>7 DEF FileAfter, Ioctls
<1> QED BY <1>1, <1>5, <1>6, <1>7, FileTypes, CallFields

LEMMA ReturnTypes ==
    ASSUME CryptoInv, NEW c \in Procs, Return(c), UNCHANGED freed
    PROVE  TypeOK' /\ LockInv' /\ QueueInv'
<1> USE DEF CryptoInv
<1>1. /\ pc' \in [Procs -> Labels] /\ pc'[c] = "idle" /\ pc[c] = "return"
      /\ \A d \in Procs : d # c => pc'[d] = pc[d]
  BY Moves DEF Labels, Return
<1>2. UNCHANGED <<host, lock, avail, used, kicked, serving>>
  BY DEF Return, queue
<1>3. call' \in [Procs -> Call] /\ reply' \in [Procs -> Reply]
  BY NoCallIsCall DEF TypeOK, Return
<1>4. ret' \in [Procs -> {"none", "success", "error"}]
  BY DEF TypeOK, Return, Results
<1> DEFINE f == call[c].file
<1>5. f \in Files /\ call[c].kind \in Ioctls \cup {"open", "close"}
  BY FileTypes, CallFields
<1>6. \A g \in Files : /\ state'[g] \in {"none", "busy", "open"}
                       /\ fd'[g] \in Fds \cup {NoFd}
                       /\ state'[g] = "open" => fd'[g] # NoFd
  <2>1. \A g \in Files : /\ state[g] \in {"none", "busy", "open"}
                         /\ fd[g] \in Fds \cup {NoFd}
                         /\ state[g] = "open" => fd[g] # NoFd
    BY DEF TypeOK
  <2>2. \A g \in Files : g # f => state'[g] = state[g] /\ fd'[g] = fd[g]
    BY <1>5, ReturnFile
  <2>3. \/ state'[f] = "open" /\ state[f] = "open" /\ fd'[f] = fd[f]
        \/ state'[f] = "none" /\ fd'[f] = NoFd
        \/ fd'[f] = fd[f] /\ state'[f] = IF fd[f] = NoFd THEN "none" ELSE "open"
    BY <1>5, ReturnFile
  <2>4. /\ state'[f] \in {"none", "busy", "open"}
        /\ fd'[f] \in Fds \cup {NoFd}
        /\ state'[f] = "open" => fd'[f] # NoFd
    BY <1>5, <2>1, <2>3
  <2> QED BY <2>1, <2>2, <2>4
<1>7. /\ state' \in [Files -> {"none", "busy", "open"}]
      /\ fd' \in [Files -> Fds \cup {NoFd}]
      /\ \A g \in Files : state'[g] = "open" => fd'[g] # NoFd
  <2>1. state' = [state EXCEPT ![f] = FileAfter(call[c], fd[f])]
        /\ fd' = [fd EXCEPT ![f] = IF FileAfter(call[c], fd[f]) = "none" THEN NoFd ELSE @]
    BY DEF Return
  <2>2. FileAfter(call[c], fd[f]) \in {"none", "open"}
    BY DEF FileAfter
  <2> QED BY <1>6, <2>1, <2>2 DEF TypeOK
<1>8. TypeOK'
  BY <1>1, <1>2, <1>3, <1>4, <1>7 DEF TypeOK, Labels
<1>9. LockInv'
  BY <1>1, <1>2 DEF LockInv
<1>10. QueueInv'
  BY <1>1, <1>2 DEF QueueInv
<1> QED BY <1>8, <1>9, <1>10

LEMMA ReturnCall ==
    ASSUME CryptoInv, NEW c \in Procs, Return(c)
    PROVE  CallInv'
<1> USE DEF CryptoInv
<1>1. /\ pc'[c] = "idle" /\ pc[c] = "return"
      /\ \A d \in Procs : d # c => pc'[d] = pc[d] /\ call'[d] = call[d]
  BY Moves DEF Labels, Return, TypeOK
<1>2. used' = used /\ serving' = serving
  BY DEF Return, queue
<1>3. ~ Calling(c)' /\ Calling(c)
  BY <1>1 DEF Calling
<1>4. \A d \in Procs : d # c => (Calling(d)' <=> Calling(d)) /\ (Executed(d)' <=> Executed(d))
  BY <1>1, <1>2 DEF Calling, Executed
<1> DEFINE f == call[c].file
<1>5. f \in Files /\ call[c].kind \in Ioctls \cup {"open", "close"}
  BY FileTypes, CallFields
<1>6. \A g \in Files : g # f => state'[g] = state[g] /\ fd'[g] = fd[g]
  BY <1>5, ReturnFile
<1>7. ASSUME NEW d \in Procs, d # c, Calling(d)
      PROVE  state'[call[d].file] = state[call[d].file] /\ fd'[call[d].file] = fd[call[d].file]
  <2>1. call[d].file \in Files
    BY FileTypes
  <2>2. CASE call[d].file # f
    BY <1>6, <2>1, <2>2
  <2>3. CASE call[d].file = f
    <3>1. call[c].kind \in Ioctls
      BY <1>3, <1>7, <2>3 DEF CallInv
    <3> QED BY <1>5, <2>3, <3>1, ReturnFile
  <2> QED BY <2>2, <2>3
<1>8. \A d \in Procs : Calling(d)' => state'[call'[d].file] = FileDuring(call'[d])
  BY <1>1, <1>3, <1>4, <1>7 DEF CallInv
<1>9. \A d, e \in Procs :
        Calling(d)' /\ Calling(e)' /\ call'[d].file = call'[e].file
          => d = e \/ call'[d].kind \in Ioctls
  BY <1>1, <1>3, <1>4 DEF CallInv
<1>10. \A d \in Procs : Calling(d)' /\ call'[d].kind = "open" /\ ~ Executed(d)'
         => fd'[call'[d].file] = NoFd
  BY <1>1, <1>3, <1>4, <1>7 DEF CallInv
<1>11. \A g \in Files : state'[g] = "none" => fd'[g] = NoFd
  <2>1. state'[f] = "none" => fd'[f] = NoFd
    BY <1>5, ReturnFile
  <2> QED BY <1>6, <2>1 DEF CallInv
<1> QED BY <1>8, <1>9, <1>10, <1>11 DEF CallInv

LEMMA ReturnFds ==
    ASSUME CryptoInv, NEW c \in Procs, Return(c)
    PROVE  FdsOfFiles'
<1> USE DEF CryptoInv
<1>1. /\ pc'[c] = "idle" /\ pc[c] = "return"
      /\ \A d \in Procs : d # c => pc'[d] = pc[d] /\ call'[d] = call[d]
  BY Moves DEF Labels, Return, TypeOK
<1>2. host' = host /\ used' = used /\ serving' = serving
  BY DEF Return, queue
<1>3. Calling(c) /\ Executed(c) /\ ~ Closing(c)'
  BY <1>1 DEF Calling, Executed, Closing
<1>4. \A d \in Procs : d # c => (Closing(d)' <=> Closing(d))
  BY <1>1, <1>2 DEF Calling, Executed, Closing
<1> DEFINE f == call[c].file
<1>5. f \in Files /\ call[c].kind \in Ioctls \cup {"open", "close"}
  BY FileTypes, CallFields
<1>6. \A g \in Files : g # f => fd'[g] = fd[g]
  BY <1>5, ReturnFile
<1>7. CASE call[c].kind = "close"
  <2>1. fd'[f] = NoFd
    BY <1>5, <1>7, ReturnFile
  <2>2. Closing(c)
    BY <1>3, <1>7 DEF Closing
  <2>3. \A d \in Procs : d # c /\ Closing(d) => call[d].file # f
    BY <1>3, <1>7 DEF CallInv, Closing, Ioctls
  <2>4. Closed' = Closed \ {f}
    BY <1>1, <1>3, <1>4, <2>2, <2>3, ClosedIs
  <2>5. f \in Closed
    BY <2>2, ClosedIs
  <2>6. {fd'[g] : g \in Files \ Closed'} \ {NoFd} = {fd[g] : g \in Files \ Closed} \ {NoFd}
    BY <1>6, <2>1, <2>4, <2>5
  <2>7. \A g, h \in Files : fd'[g] = fd'[h] /\ fd'[g] # NoFd
          => g = h \/ g \in Closed' \/ h \in Closed'
    BY <1>6, <2>1, <2>4 DEF FdsOfFiles
  <2> QED BY <1>2, <2>6, <2>7 DEF FdsOfFiles
<1>8. CASE call[c].kind # "close"
  <2>1. ~ Closing(c)
    BY <1>8 DEF Closing
  <2>2. Closed' = Closed
    BY <1>1, <1>3, <1>4, <2>1, ClosedIs
  <2>3. \A g \in Files : fd'[g] = fd[g]
    BY <1>5, <1>6, <1>8, ReturnFile
  <2> QED BY <1>2, <2>2, <2>3 DEF FdsOfFiles
<1> QED BY <1>7, <1>8

-----------------------------------------------------------------------------
(* The host *)

\* A notification without a request.
LEMMA ServeNothing ==
    ASSUME CryptoInv, Serve, avail = <<>>, UNCHANGED freed
    PROVE  TypeOK' /\ LockInv' /\ QueueInv' /\ Unseen
<1> USE DEF CryptoInv, Serve, data
<1>1. UNCHANGED <<data, pc, lock, avail, used, serving>> /\ kicked' \in BOOLEAN
  OBVIOUS
<1>2. TypeOK' /\ LockInv'
  BY <1>1 DEF TypeOK, LockInv
<1>3. \A c \in Procs : pc[c] = "wait" => avail # <<c>>
  OBVIOUS
<1>4. QueueInv'
  BY <1>1, <1>3 DEF QueueInv
<1>5. Unseen
  BY <1>1 DEF Unseen, Calling, Executed
<1> QED BY <1>2, <1>4, <1>5

\* The request of process c is executed with answer a.
ServeCall(c, a) ==
    /\ pc[c] = "wait" /\ ~ Executed(c) /\ Executed(c)'
    /\ avail = <<c>> /\ used = <<>>
    /\ avail' = <<>> /\ used' = <<>> /\ serving' = {c}
    /\ UNCHANGED <<state, call, ret, pc, lock>>
    /\ kicked' = FALSE
    /\ a \in Answers(call[c], fd[call[c].file], host)
    /\ host' = a.host
    /\ reply' = [reply EXCEPT ![c] = a.reply]
    /\ fd' = [fd EXCEPT ![call[c].file] = a.reply.fd]

LEMMA ServeSomething ==
    ASSUME CryptoInv, Serve, avail # <<>>
    PROVE  \E c \in Procs : \E a \in Answers(call[c], fd[call[c].file], host) : ServeCall(c, a)
<1> USE DEF CryptoInv
<1>1. \E c \in Procs : pc[c] = "wait"
  BY DEF QueueInv
<1>2. PICK c \in Procs : pc[c] = "wait"
  BY <1>1
<1>3. avail = <<c>> /\ used = <<>>
  BY <1>2 DEF QueueInv, Serve
<1>4. Head(avail) = c /\ Tail(avail) = <<>>
  BY <1>3
<1>5. /\ avail' = <<>> /\ serving' = {c}
      /\ UNCHANGED <<state, call, ret, pc, lock, used>>
      /\ kicked' = FALSE /\ serving = {}
  BY <1>4 DEF Serve
<1>6. PICK a \in Answers(call[c], fd[call[c].file], host) :
         /\ host' = a.host
         /\ reply' = [reply EXCEPT ![c] = a.reply]
         /\ fd' = [fd EXCEPT ![call[c].file] = a.reply.fd]
  BY <1>4 DEF Serve
<1>7. ~ Executed(c) /\ Executed(c)'
  BY <1>2, <1>3, <1>5 DEF Executed
<1> QED BY <1>2, <1>3, <1>5, <1>6, <1>7 DEF ServeCall

LEMMA ServeTypes ==
    ASSUME CryptoInv, NEW c \in Procs, NEW a, ServeCall(c, a), UNCHANGED freed
    PROVE  TypeOK' /\ LockInv' /\ QueueInv'
<1> USE DEF CryptoInv
<1> DEFINE f == call[c].file
<1>1. f \in Files /\ fd[f] \in Fds \cup {NoFd} /\ call[c] \in Call /\ host \in Host
  BY FileTypes DEF TypeOK
<1>2. a.host \in Host /\ a.reply \in Reply
  <2>1. a \in Answers(call[c], fd[f], host)
    BY DEF ServeCall
  <2>2. CASE call[c].kind = "open"
    BY <1>1, <2>1, <2>2, OpenAnswers
  <2>3. CASE call[c].kind = "close"
    BY <1>1, <2>1, <2>3, CloseAnswers
  <2>4. CASE call[c].kind \in Ioctls
    BY <1>1, <2>1, <2>4, IoctlAnswers
  <2> QED BY <1>1, <2>2, <2>3, <2>4, CallFields
<1>3. a.reply.fd \in Fds \cup {NoFd}
  BY <1>2 DEF Reply
<1>4. host' \in Host /\ reply' \in [Procs -> Reply] /\ fd' \in [Files -> Fds \cup {NoFd}]
  BY <1>1, <1>2, <1>3 DEF ServeCall, TypeOK
<1>5. \A g \in Files : state'[g] = "open" => fd'[g] # NoFd
  <2>1. state'[f] = "open" => fd[f] # NoFd /\ call[c].kind \in Ioctls
    BY <1>1 DEF ServeCall, CallInv, Calling, FileDuring, TypeOK
  <2>2. state'[f] = "open" => a.reply.fd = fd[f]
    BY <1>1, <2>1, IoctlAnswers DEF ServeCall
  <2>3. fd'[f] = a.reply.fd /\ \A g \in Files : g # f => fd'[g] = fd[g]
    BY <1>1 DEF ServeCall, TypeOK
  <2> QED BY <2>1, <2>2, <2>3 DEF ServeCall, TypeOK
<1>6. avail' \in Seq(Procs) /\ used' \in Seq(Procs) /\ serving' \subseteq Procs
  BY DEF ServeCall
<1>7. TypeOK'
  BY <1>4, <1>5, <1>6 DEF ServeCall, TypeOK
<1>8. LockInv'
  BY DEF ServeCall, LockInv
<1>9. \A d \in Procs : pc[d] = "wait" => d = c
  BY DEF LockInv, ServeCall
<1>10. QueueInv'
  BY <1>9 DEF ServeCall, QueueInv
<1> QED BY <1>7, <1>8, <1>10

\* Only an opened file gets another descriptor.
LEMMA ServeFile ==
    ASSUME CryptoInv, NEW c \in Procs, NEW a, ServeCall(c, a), NEW f \in Files,
           f = call[c].file
    PROVE  /\ \A g \in Files : g # f => fd'[g] = fd[g]
           /\ fd'[f] = a.reply.fd
           /\ call[c].kind # "open" => fd'[f] = fd[f]
           /\ state[f] = FileDuring(call[c])
           /\ state' = state /\ call' = call
           /\ \A d \in Procs : Calling(d)' <=> Calling(d)
           /\ \A d \in Procs : d # c => (Executed(d)' <=> Executed(d))
<1> USE DEF CryptoInv
<1>1. fd'[f] = a.reply.fd /\ \A g \in Files : g # f => fd'[g] = fd[g]
  BY DEF ServeCall, TypeOK
<1>2. fd[f] \in Fds \cup {NoFd} /\ call[c] \in Call /\ host \in Host
  BY FileTypes DEF TypeOK
<1>3. call[c].kind # "open" => a.reply.fd = fd[f]
  <2>1. a \in Answers(call[c], fd[f], host)
    BY DEF ServeCall
  <2>2. CASE call[c].kind = "close"
    BY <1>2, <2>1, <2>2, CloseAnswers
  <2>3. CASE call[c].kind \in Ioctls
    BY <1>2, <2>1, <2>3, IoctlAnswers
  <2> QED BY <1>2, <2>2, <2>3, CallFields
<1>4. state[f] = FileDuring(call[c])
  BY DEF ServeCall, CallInv, Calling
<1>5. state' = state /\ call' = call /\ \A d \in Procs : Calling(d)' <=> Calling(d)
  BY DEF ServeCall, Calling
<1>6. ASSUME NEW d \in Procs, d # c PROVE Executed(d)' <=> Executed(d)
  <2>1. pc[d] # "wait"
    BY <1>6 DEF ServeCall, LockInv
  <2>2. d \notin serving /\ used # <<d>>
    BY <2>1, InQueue
  <2>3. d \notin serving' /\ used' # <<d>>
    BY <1>6 DEF ServeCall
  <2> QED BY <2>2, <2>3 DEF ServeCall, Executed
<1> QED BY <1>1, <1>3, <1>4, <1>5, <1>6

LEMMA ServeCallInv ==
    ASSUME CryptoInv, NEW c \in Procs, NEW a, ServeCall(c, a)
    PROVE  CallInv'
<1> USE DEF CryptoInv
<1>1. PICK f \in Files : f = call[c].file
  BY FileTypes
<1>2. Calling(c) /\ Executed(c)'
  BY DEF ServeCall, Calling
<1>3. /\ state' = state /\ call' = call
      /\ \A d \in Procs : Calling(d)' <=> Calling(d)
      /\ \A d \in Procs : d # c => (Executed(d)' <=> Executed(d))
  BY <1>1, ServeFile
<1>4. \A g \in Files : g # f => fd'[g] = fd[g]
  BY <1>1, ServeFile
<1>5. \A d \in Procs : Calling(d)' => state'[call'[d].file] = FileDuring(call'[d])
  BY <1>3 DEF CallInv
<1>6. \A d, e \in Procs :
        Calling(d)' /\ Calling(e)' /\ call'[d].file = call'[e].file
          => d = e \/ call'[d].kind \in Ioctls
  BY <1>3 DEF CallInv
<1>7. ASSUME NEW d \in Procs, Calling(d)', call'[d].kind = "open", ~ Executed(d)'
      PROVE  fd'[call'[d].file] = NoFd
  <2>1. d # c /\ Calling(d) /\ ~ Executed(d) /\ call[d].kind = "open"
    BY <1>2, <1>3, <1>7
  <2>2. fd[call[d].file] = NoFd /\ call[d].file # f
    BY <1>1, <1>2, <2>1 DEF CallInv, Ioctls
  <2> QED BY <1>3, <1>4, <2>2, FileTypes
<1>8. ASSUME NEW g \in Files, state'[g] = "none" PROVE fd'[g] = NoFd
  <2>1. g # f
    BY <1>1, <1>3, <1>8, ServeFile DEF FileDuring
  <2> QED BY <1>3, <1>4, <1>8, <2>1 DEF CallInv
<1> QED BY <1>5, <1>6, <1>7, <1>8 DEF CallInv

LEMMA ServeFds ==
    ASSUME CryptoInv, NEW c \in Procs, NEW a, ServeCall(c, a)
    PROVE  FdsOfFiles'
<1> USE DEF CryptoInv
<1>1. PICK f \in Files : f = call[c].file
  BY FileTypes
<1>2. Calling(c) /\ ~ Executed(c) /\ Executed(c)'
  BY DEF ServeCall, Calling
<1>3. /\ state' = state /\ call' = call
      /\ \A d \in Procs : Calling(d)' <=> Calling(d)
      /\ \A d \in Procs : d # c => (Executed(d)' <=> Executed(d))
  BY <1>1, ServeFile
<1>4. /\ \A g \in Files : g # f => fd'[g] = fd[g]
      /\ fd'[f] = a.reply.fd
  BY <1>1, ServeFile
<1>5. f \notin Closed
  BY <1>1, <1>2, OneCall DEF Closing
<1>6. \A d \in Procs : d # c => (Closing(d)' <=> Closing(d))
  BY <1>3 DEF Closing
<1>7. ~ Closing(c)
  BY <1>2 DEF Closing
<1>8. fd[f] \in Fds \cup {NoFd} /\ call[c] \in Call /\ host \in Host
  BY <1>1, FileTypes DEF TypeOK
<1>9. host' = a.host /\ a \in Answers(call[c], fd[f], host)
  BY <1>1 DEF ServeCall
<1>10. CASE call[c].kind = "close"
  <2>1. Closing(c)'
    BY <1>2, <1>3, <1>10 DEF Closing
  <2>2. Closed' = Closed \cup {f}
    BY <1>1, <1>3, <1>6, <1>7, <2>1, ClosedIs
  <2>3. \A g \in Files : fd'[g] = fd[g]
    BY <1>1, <1>4, <1>10, ServeFile
  <2>4. /\ host'.fds = host.fds \ {fd[f]}
        /\ host'.sessions = host.sessions \ ({fd[f]} \X Sids)
    BY <1>8, <1>9, <1>10, CloseAnswers
  <2>5. {fd[g] : g \in Files \ (Closed \cup {f})} \ {NoFd}
          = ({fd[g] : g \in Files \ Closed} \ {NoFd}) \ {fd[f]}
    BY <1>5 DEF FdsOfFiles
  <2>6. host'.fds = {fd'[g] : g \in Files \ Closed'} \ {NoFd}
    BY <2>2, <2>3, <2>4, <2>5 DEF FdsOfFiles
  <2>7. \A g, h \in Files : fd'[g] = fd'[h] /\ fd'[g] # NoFd
          => g = h \/ g \in Closed' \/ h \in Closed'
    BY <2>2, <2>3 DEF FdsOfFiles
  <2>8. ASSUME NEW s \in host'.sessions PROVE s[1] \in host'.fds
    <3>1. s \in host.sessions /\ s \notin {fd[f]} \X Sids
      BY <2>4
    <3>2. s \in Fds \X Sids
      BY <1>8, <3>1 DEF Host
    <3>3. s[1] # fd[f]
      BY <3>1, <3>2
    <3> QED BY <2>4, <3>1, <3>3 DEF FdsOfFiles
  <2> QED BY <2>6, <2>7, <2>8 DEF FdsOfFiles
<1>11. CASE call[c].kind # "close"
  <2>1. ~ Closing(c)'
    BY <1>3, <1>11 DEF Closing
  <2>2. Closed' = Closed
    BY <1>3, <1>6, <1>7, <2>1, ClosedIs
  <2>3. CASE call[c].kind = "open" /\ a.reply.fd # fd[f]
    <3>1. /\ a.reply.fd \in Fds \ host.fds
          /\ host'.fds = host.fds \cup {a.reply.fd}
          /\ host'.sessions = host.sessions
      BY <1>8, <1>9, <2>3, OpenAnswers
    <3>2. fd[f] = NoFd
      BY <1>1, <1>2, <2>3 DEF CallInv
    <3>3. a.reply.fd # NoFd
      BY <2>3, <3>2
    <3>4. {fd'[g] : g \in Files \ Closed} \ {NoFd}
            = ({fd[g] : g \in Files \ Closed} \ {NoFd}) \cup {a.reply.fd}
      BY <1>4, <1>5, <3>2, <3>3
    <3>5. host'.fds = {fd'[g] : g \in Files \ Closed'} \ {NoFd}
      BY <2>2, <3>1, <3>4 DEF FdsOfFiles
    <3>6. \A g \in Files \ Closed : fd[g] # a.reply.fd
      BY <3>1, <3>3 DEF FdsOfFiles
    <3>7. \A g, h \in Files : fd'[g] = fd'[h] /\ fd'[g] # NoFd
            => g = h \/ g \in Closed' \/ h \in Closed'
      BY <1>4, <2>2, <3>6 DEF FdsOfFiles
    <3> QED BY <3>1, <3>5, <3>7 DEF FdsOfFiles
  <2>4. CASE a.reply.fd = fd[f]
    <3>1. \A g \in Files : fd'[g] = fd[g]
      BY <1>4, <2>4
    <3>2. /\ host'.fds = host.fds
          /\ host'.sessions \subseteq host.sessions \cup (host.fds \X Sids)
      <4>1. CASE call[c].kind = "open"
        <5>1. fd[f] = NoFd
          BY <1>1, <1>2, <4>1 DEF CallInv
        <5>2. NoFd \notin Fds
          BY HostAssumption DEF NoFd
        <5> QED BY <1>8, <1>9, <2>4, <4>1, <5>1, <5>2, OpenAnswers
      <4>2. CASE call[c].kind \in Ioctls
        BY <1>8, <1>9, <4>2, IoctlAnswers
      <4> QED BY <1>8, <1>11, <4>1, <4>2, CallFields
    <3>3. \A s \in host'.sessions : s[1] \in host'.fds
      BY <3>2 DEF FdsOfFiles
    <3> QED BY <2>2, <3>1, <3>2, <3>3 DEF FdsOfFiles
  <2>5. call[c].kind # "open" => a.reply.fd = fd[f]
    BY <1>1, <1>4, ServeFile
  <2> QED BY <2>3, <2>4, <2>5
<1> QED BY <1>10, <1>11

-----------------------------------------------------------------------------
(* The invariant *)

LEMMA RefuseStep ==
    ASSUME CryptoInv, NEW c \in Procs, Refuse(c), UNCHANGED freed
    PROVE  CryptoInv'
<1> USE DEF CryptoInv, Refuse, queue
<1>1. TypeOK'
  BY DEF TypeOK
<1>2. LockInv' /\ QueueInv'
  BY DEF LockInv, QueueInv
<1>3. CallInv'
  BY DEF CallInv, Calling, Executed
<1>4. FdsOfFiles'
  BY DEF FdsOfFiles, Closed, Executed
<1> QED BY <1>1, <1>2, <1>3, <1>4

LEMMA ThereStep == CryptoInv /\ There(Proceed \/ Begin) => CryptoInv'
<1> SUFFICES ASSUME CryptoInv, Proceed \/ Begin, UNCHANGED freed PROVE CryptoInv'
  BY DEF There
<1>1. ASSUME NEW c \in Procs, NEW k \in Call, Prepare(c, k) PROVE CryptoInv'
  BY <1>1, PrepareTypes, PrepareCall, PrepareFds DEF CryptoInv
<1>2. ASSUME NEW c \in Procs, Refuse(c) PROVE CryptoInv'
  BY <1>2, RefuseStep
<1>3. ASSUME NEW c \in Procs, Lock(c) PROVE CryptoInv'
  BY <1>3, LockStep, UnseenKeeps DEF CryptoInv
<1>4. ASSUME NEW c \in Procs, Send(c) PROVE CryptoInv'
  BY <1>4, SendStep, UnseenKeeps DEF CryptoInv
<1>5. ASSUME NEW c \in Procs, Receive(c) PROVE CryptoInv'
  BY <1>5, ReceiveStep, UnseenKeeps DEF CryptoInv
<1>6. ASSUME NEW c \in Procs, Unlock(c) PROVE CryptoInv'
  BY <1>6, UnlockStep, UnseenKeeps DEF CryptoInv
<1>7. ASSUME NEW c \in Procs, Return(c) PROVE CryptoInv'
  BY <1>7, ReturnTypes, ReturnCall, ReturnFds DEF CryptoInv
<1>8. CASE Serve /\ avail = <<>>
  BY <1>8, ServeNothing, UnseenKeeps DEF CryptoInv
<1>9. CASE Serve /\ avail # <<>>
  BY <1>9, ServeSomething, ServeTypes, ServeCallInv, ServeFds DEF CryptoInv
<1>10. CASE Push
  BY <1>10, PushStep, UnseenKeeps DEF CryptoInv
<1> QED BY <1>1, <1>2, <1>3, <1>4, <1>5, <1>6, <1>7, <1>8, <1>9, <1>10
        DEF Proceed, Begin, Guest

\* The invariant says nothing of a freed device but that its data stay.
LEMMA CryptoStep == CryptoInv /\ [Next]_vars => CryptoInv'
<1> SUFFICES ASSUME CryptoInv, [Next]_vars PROVE CryptoInv'
  OBVIOUS
<1>1. CASE There(Proceed \/ Begin)
  BY <1>1, ThereStep
<1>2. CASE Free \/ UNCHANGED vars
  <2>1. UNCHANGED <<data, pc, lock, queue>> /\ freed' \in BOOLEAN
    BY <1>2 DEF Free, vars, CryptoInv, TypeOK
  <2> USE <2>1 DEF data, queue
  <2>2. TypeOK' /\ LockInv' /\ QueueInv'
    BY DEF CryptoInv, TypeOK, LockInv, QueueInv
  <2>3. Unseen
    BY DEF Unseen, Calling, Executed
  <2> QED BY <2>2, <2>3, UnseenKeeps DEF CryptoInv
<1> QED BY <1>1, <1>2 DEF Next

THEOREM CryptoTheorem == Spec => []CryptoInv
BY InitCrypto, CryptoStep, PTL DEF Spec

\* Every variable of the device keeps its type.
THEOREM TypeCorrect == Spec => []TypeOK
<1>1. CryptoInv => TypeOK
  BY DEF CryptoInv
<1> QED BY <1>1, CryptoTheorem, PTL

\* The cases of QueueInv, counted.
LEMMA QueueOneRequest == CryptoInv => OneRequest
<1> SUFFICES ASSUME CryptoInv PROVE OneRequest
  OBVIOUS
<1>1. ASSUME NEW c \in Procs, pc[c] = "wait" PROVE OneRequest
  <2>1. /\ Len(<<>>) = 0 /\ Len(<<c>>) = 1
        /\ Cardinality({}) = 0 /\ Cardinality({c}) = 1
    BY FS_EmptySet, FS_Singleton
  <2>2. \/ avail = <<c>> /\ used = <<>> /\ serving = {}
        \/ avail = <<>> /\ used = <<>> /\ serving = {c}
        \/ avail = <<>> /\ used = <<c>> /\ serving = {}
    BY <1>1 DEF CryptoInv, QueueInv
  <2>3. \/ Len(avail) = 1 /\ Len(used) = 0 /\ Cardinality(serving) = 0
        \/ Len(avail) = 0 /\ Len(used) = 0 /\ Cardinality(serving) = 1
        \/ Len(avail) = 0 /\ Len(used) = 1 /\ Cardinality(serving) = 0
    <3>1. CASE avail = <<c>> /\ used = <<>> /\ serving = {}
      BY <2>1, <3>1
    <3>2. CASE avail = <<>> /\ used = <<>> /\ serving = {c}
      BY <2>1, <3>2
    <3>3. CASE avail = <<>> /\ used = <<c>> /\ serving = {}
      BY <2>1, <3>3
    <3> QED BY <2>2, <3>1, <3>2, <3>3
  <2>4. Len(avail) + Len(used) + Cardinality(serving) <= 1
    BY <2>3
  <2> QED BY <2>4 DEF CryptoInv, QueueInv, OneRequest
<1>2. CASE \A c \in Procs : pc[c] # "wait"
  <2>1. avail = <<>> /\ used = <<>> /\ serving = {}
    BY <1>2 DEF CryptoInv, QueueInv
  <2>2. Len(avail) + Len(used) + Cardinality(serving) <= 1
    BY <2>1, FS_EmptySet
  <2> QED BY <1>2, <2>2 DEF OneRequest
<1> QED BY <1>1, <1>2

\* There is at most one request in the queue, that of the process that waits.
THEOREM OneRequestTheorem == Spec => []OneRequest
BY QueueOneRequest, CryptoTheorem, PTL

\* The host has open the descriptors of the guest's open files, each once.
THEOREM FdsOfFilesTheorem == Spec => []FdsOfFiles
<1>1. CryptoInv => FdsOfFiles
  BY DEF CryptoInv
<1> QED BY <1>1, CryptoTheorem, PTL

-----------------------------------------------------------------------------
(* The device implements remote calls *)

\* How far the call of each process is, as CallsAsRemote maps it.
Stage == [c \in Procs |-> CASE pc[c] = "idle" -> "idle"
                            [] pc[c] # "idle" /\ Executed(c) -> "done"
                            [] OTHER -> "called"]

LEMMA StageIs ==
    /\ \A c \in Procs : /\ Stage[c] = "idle" <=> ~ Calling(c)
                        /\ Stage[c] = "done" <=> Calling(c) /\ Executed(c)
                        /\ Stage[c] = "called" <=> Calling(c) /\ ~ Executed(c)
    /\ \A c \in Procs : /\ Stage'[c] = "idle" <=> ~ Calling(c)'
                        /\ Stage'[c] = "done" <=> Calling(c)' /\ Executed(c)'
                        /\ Stage'[c] = "called" <=> Calling(c)' /\ ~ Executed(c)'
BY DEF Stage, Calling

\* Both modules have the calls and the answers of CryptoHost.
LEMMA SameNames ==
    /\ RPC!NoFd = NoFd /\ RPC!NoSid = NoSid /\ RPC!Ioctls = Ioctls
    /\ RPC!Call = Call /\ RPC!NoCall = NoCall
    /\ \A k : RPC!NoReply(k) = NoReply(k) /\ RPC!FileDuring(k) = FileDuring(k)
    /\ \A k, s, b : RPC!Callable(k, s, b) = Callable(k, s, b)
<1>1. RPC!NoFd = NoFd /\ RPC!NoSid = NoSid /\ RPC!Ioctls = Ioctls
  BY DEF RPC!NoFd, NoFd, RPC!NoSid, NoSid, RPC!Ioctls, Ioctls
<1>2. RPC!Call = Call
  BY <1>1 DEF RPC!Call, Call
<1>3. RPC!NoCall = NoCall
  BY <1>2, Zenon DEF RPC!NoCall, NoCall
<1>4. \A k : RPC!NoReply(k) = NoReply(k) /\ RPC!FileDuring(k) = FileDuring(k)
  BY <1>1 DEF RPC!NoReply, NoReply, RPC!FileDuring, FileDuring
<1>5. \A k, s, b : RPC!Callable(k, s, b) = Callable(k, s, b)
  BY DEF RPC!Callable, Callable
<1> QED BY <1>1, <1>2, <1>3, <1>4, <1>5

LEMMA SameAnswers ==
    /\ \A k, d, h : RPC!Answers(k, d, h) = Answers(k, d, h)
    /\ \A k, d : RPC!FileAfter(k, d) = FileAfter(k, d)
    /\ \A k, d : RPC!Results(k, d) = Results(k, d)
<1>1. \A d : RPC!Opened(d) = Opened(d)
  BY DEF RPC!Opened, Opened
<1>2. \A k, d : RPC!FileAfter(k, d) = FileAfter(k, d)
  BY <1>1 DEF RPC!FileAfter, FileAfter
<1>3. \A k, d : RPC!Results(k, d) = Results(k, d)
  BY <1>1 DEF RPC!Results, Results
<1>4. \A k, d, u, h : RPC!Ioctl(k, d, u, h) = Ioctl(k, d, u, h)
  BY DEF RPC!Ioctl, Ioctl
<1>5. \A k : RPC!Types(k) = Types(k)
  BY DEF RPC!Types, Types
<1>6. \A k, d, h : RPC!Answers(k, d, h) = Answers(k, d, h)
  BY <1>4, <1>5 DEF RPC!Answers, Answers
<1> QED BY <1>2, <1>3, <1>6

LEMMA InitRemote == Init => RPC!Init
<1> SUFFICES ASSUME Init PROVE RPC!Init
  OBVIOUS
<1>1. \A c \in Procs : pc[c] = "idle"
  BY DEF Init
<1>2. Stage = [c \in Procs |-> "idle"]
  BY <1>1 DEF Stage
<1> QED BY <1>2, SameNames DEF Init, RPC!Init, Stage

LEMMA UnseenRemote ==
    ASSUME Unseen, UNCHANGED freed
    PROVE  UNCHANGED RPC!vars
<1>1. UNCHANGED <<data, Stage>>
  <2>1. \A c \in Procs : (pc'[c] = "idle") <=> (pc[c] = "idle")
    BY DEF Unseen, Calling
  <2> QED BY <2>1 DEF Unseen, Stage
<1> QED BY <1>1 DEF data, Stage, RPC!vars

LEMMA PrepareRemote ==
    ASSUME CryptoInv, NEW c \in Procs, NEW k \in Call, Prepare(c, k)
    PROVE  RPC!Invoke(c, k)
<1> USE DEF CryptoInv
<1>1. /\ pc'[c] = "lock" /\ pc[c] = "idle"
      /\ \A d \in Procs : d # c => pc'[d] = pc[d]
  BY Moves DEF Labels, Prepare
<1>2. serving' = serving /\ used' = used /\ used # <<c>> /\ c \notin serving
  BY <1>1, InQueue DEF Prepare, queue
<1>3. \A d \in Procs : d # c => (Executed(d)' <=> Executed(d))
  BY <1>1, <1>2 DEF Executed
<1>4. ~ Executed(c)'
  BY <1>1, <1>2 DEF Executed
<1>5. Stage[c] = "idle"
  BY <1>1, StageIs DEF Calling
<1>6. Stage' = [Stage EXCEPT ![c] = "called"]
  BY <1>1, <1>3, <1>4 DEF Stage
<1>7. RPC!Busy = Busy
  BY DEF RPC!Busy, Busy
<1> QED BY <1>5, <1>6, <1>7, SameNames DEF Prepare, RPC!Invoke, Stage

LEMMA RefuseRemote ==
    ASSUME CryptoInv, NEW c \in Procs, Refuse(c)
    PROVE  RPC!Refuse(c)
<1>1. Stage[c] = "idle"
  BY StageIs DEF Refuse, Calling
<1>2. Stage' = Stage
  BY DEF Refuse, queue, Stage, Executed
<1> QED BY <1>1, <1>2 DEF Refuse, RPC!Refuse, Stage

LEMMA ReturnRemote ==
    ASSUME CryptoInv, NEW c \in Procs, Return(c)
    PROVE  RPC!Return(c)
<1> USE DEF CryptoInv
<1>1. /\ pc'[c] = "idle" /\ pc[c] = "return"
      /\ \A d \in Procs : d # c => pc'[d] = pc[d]
  BY Moves DEF Labels, Return
<1>2. serving' = serving /\ used' = used
  BY DEF Return, queue
<1>3. \A d \in Procs : d # c => (Executed(d)' <=> Executed(d))
  BY <1>1, <1>2 DEF Executed
<1>4. Stage[c] = "done"
  BY <1>1, StageIs DEF Calling, Executed
<1>5. Stage' = [Stage EXCEPT ![c] = "idle"]
  BY <1>1, <1>3 DEF Stage
<1> QED BY <1>4, <1>5, SameNames, SameAnswers DEF Return, RPC!Return, Stage

LEMMA ServeRemote ==
    ASSUME CryptoInv, NEW c \in Procs, NEW a, ServeCall(c, a)
    PROVE  RPC!Execute(c)
<1> USE DEF CryptoInv
<1>1. PICK f \in Files : f = call[c].file
  BY FileTypes
<1>2. \A d \in Procs : d # c => (Executed(d)' <=> Executed(d))
  BY <1>1, ServeFile
<1>3. Stage[c] = "called"
  BY StageIs DEF ServeCall, Calling
<1>4. Stage' = [Stage EXCEPT ![c] = "done"]
  BY <1>2 DEF Stage, ServeCall
<1>5. a \in RPC!Answers(call[c], fd[call[c].file], host)
  BY SameAnswers DEF ServeCall
<1> QED BY <1>3, <1>4, <1>5 DEF ServeCall, RPC!Execute, Stage

LEMMA ThereRemote == CryptoInv /\ There(Proceed \/ Begin) => [RPC!Next]_RPC!vars
<1> SUFFICES ASSUME CryptoInv, Proceed \/ Begin, ~ freed, UNCHANGED freed
             PROVE  [RPC!Next]_RPC!vars
  BY DEF There
<1>1. ASSUME NEW c \in Procs, NEW k \in Call, Prepare(c, k) PROVE RPC!Next
  BY <1>1, PrepareRemote, SameNames DEF RPC!Next, RPC!There
<1>2. ASSUME NEW c \in Procs, Refuse(c) PROVE RPC!Next
  BY <1>2, RefuseRemote DEF RPC!Next, RPC!There
<1>3. ASSUME NEW c \in Procs, Lock(c) \/ Send(c) \/ Receive(c) \/ Unlock(c)
      PROVE  UNCHANGED RPC!vars
  BY <1>3, LockStep, SendStep, ReceiveStep, UnlockStep, UnseenRemote
<1>4. ASSUME NEW c \in Procs, Return(c) PROVE RPC!Next
  BY <1>4, ReturnRemote DEF RPC!Next, RPC!There
<1>5. CASE Serve /\ avail = <<>>
  BY <1>5, ServeNothing, UnseenRemote
<1>6. CASE Serve /\ avail # <<>>
  BY <1>6, ServeSomething, ServeRemote DEF RPC!Next, RPC!There
<1>7. CASE Push
  BY <1>7, PushStep, UnseenRemote
<1> QED BY <1>1, <1>2, <1>3, <1>4, <1>5, <1>6, <1>7 DEF Proceed, Begin, Guest

LEMMA RemoteStep == CryptoInv /\ [Next]_vars => [RPC!Next]_RPC!vars
<1> SUFFICES ASSUME CryptoInv, [Next]_vars PROVE [RPC!Next]_RPC!vars
  OBVIOUS
<1>1. CASE There(Proceed \/ Begin)
  BY <1>1, ThereRemote
<1>2. CASE Free
  <2>1. UNCHANGED <<data, Stage>>
    BY <1>2 DEF Free, queue, Stage, Executed
  <2>2. RPC!Free
    BY <1>2, <2>1 DEF Free, InUse, data, Stage, RPC!Free, RPC!InUse
  <2> QED BY <2>2 DEF RPC!Next
<1>3. CASE UNCHANGED vars
  <2>1. Unseen /\ UNCHANGED freed
    BY <1>3 DEF vars, data, queue, Unseen, Calling, Executed
  <2> QED BY <2>1, UnseenRemote
<1> QED BY <1>1, <1>2, <1>3 DEF Next

\* Every behaviour of the device is one of remote calls: each is executed once,
\* at one instant between its beginning and its return, and what it returns is
\* what that execution answered.
THEOREM CallsAsRemoteTheorem == Spec => RPC!Init /\ [][RPC!Next]_RPC!vars
BY InitRemote, RemoteStep, CryptoTheorem, PTL DEF Spec

=============================================================================

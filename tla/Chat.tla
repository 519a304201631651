-------------------------------- MODULE Chat --------------------------------
(***************************************************************************)
(* The encrypted chat: a server that talks to one client after another     *)
(* (server.c, client.c).  Both run the same loop around select, with one   *)
(* global buffer for what is read, encrypted, decrypted and written.       *)
(*                                                                         *)
(* A line is sent as one block, which TCP may deliver in several parts; a  *)
(* part in its place decrypts to its part of the text, anything else to    *)
(* noise.  Lines are shorter than the buffer; noise without an end, which  *)
(* the code copies beyond the buffer, is shown as noise.  The sockets'     *)
(* buffers do not fill; any other call, and the crypto device, may fail.   *)
(***************************************************************************)
EXTENDS Integers, Sequences

CONSTANTS
    Clients,
    Server,
    Parts,          \* parts of a block that TCP may deliver on their own
    MaxTyped        \* bound: lines, ends of input, ^C and failures at all ends

ASSUME ChatAssumption ==
    /\ Server \notin Clients
    /\ Parts \in Nat \ {0}
    /\ MaxTyped \in Nat

Ends == Clients \cup {Server}
Streams == Clients \X {"up", "down"}    \* two for each connection

\* A line typed at one end; a text of 0 parts is that of a closed standard input.
Line == [from : Ends, no : 1 .. MaxTyped, parts : 0 .. Parts]
Noise == [from |-> Server, no |-> 0, parts |-> 0]
Part == [line : Line \cup {Noise}, i : 1 .. Parts]
Block(l) == [i \in 1 .. Parts |-> [line |-> l, i |-> i]]

VARIABLES
    pc,         \* where each end is in its main function
    conn,       \* the client the server talks to, or Server for none
    active,     \* conn_active
    input,      \* select has found standard input readable as well as the socket
    buf,        \* buf
    waiting,    \* clients that are connected and not accepted yet
    queue,      \* of each stream: the parts sent and not read yet
    fin,        \* its writer has closed the connection
    rst,        \* its reader has been sent a reset
    typed, events, hit,         \* history: lines typed at each end; lines, ^C and
                                \* failed calls at all of them; ^C or a failed call
                                \* at the server
    sent, shown, whole, eof     \* history of each stream: its lines; what was
                                \* shown of them; no block was read in parts; the
                                \* reader has been told of the end

local == <<pc, conn, active, input, buf, waiting>>
tcp == <<queue, fin, rst>>
history == <<typed, events, hit, sent, shown, whole, eof>>
vars == <<local, tcp, history>>

Init ==
    /\ pc = [e \in Ends |-> IF e = Server THEN "accept" ELSE "new"]
    /\ conn = Server
    /\ active = [e \in Ends |-> FALSE]
    /\ input = [e \in Ends |-> FALSE]
    /\ buf = [e \in Ends |-> Block(Noise)]
    /\ waiting = {}
    /\ queue = [d \in Streams |-> <<>>]
    /\ fin = [d \in Streams |-> FALSE]
    /\ rst = [d \in Streams |-> FALSE]
    /\ typed = [e \in Ends |-> 0]
    /\ events = 0 /\ hit = FALSE
    /\ sent = [d \in Streams |-> <<>>]
    /\ shown = [d \in Streams |-> <<>>]
    /\ whole = [d \in Streams |-> TRUE]
    /\ eof = [d \in Streams |-> FALSE]

\* The streams an end with a connection reads and writes.
In(e) == IF e = Server THEN <<conn, "up">> ELSE <<e, "down">>
Out(e) == IF e = Server THEN <<conn, "down">> ELSE <<e, "up">>

\* Something more may happen at an end.
Event == events < MaxTyped /\ events' = events + 1
Typed(e) == Event /\ typed' = [typed EXCEPT ![e] = @ + 1]

Goto(e, label) == pc' = [pc EXCEPT ![e] = label]

\* decrypt: what a block reads as.
Decrypted(b) ==
    LET l == b[1].line IN
    IF \A i \in 1 .. Parts : i = 1 \/ i <= l.parts => b[i] = [line |-> l, i |-> i]
    THEN l ELSE Noise

\* End e closes its connections with the clients cs.  A peer whose data has not
\* been read by then, or that was not accepted, is sent a reset.
Close(e, cs) ==
    LET Mine(d) == d[1] \in cs /\ d[2] = (IF e = Server THEN "down" ELSE "up")
        Unread(d) == queue'[<<d[1], IF d[2] = "up" THEN "down" ELSE "up">>] # <<>>
    IN  /\ fin' = [d \in Streams |-> fin[d] \/ Mine(d)]
        /\ rst' = [d \in Streams |->
                     \/ rst[d]
                     \/ Mine(d) /\ (Unread(d) \/ (e = Server /\ d[1] \in waiting))]

Dies(e) ==
    /\ Goto(e, "gone")
    /\ IF e = Server THEN Close(e, waiting \cup ({conn} \cap Clients)) ELSE Close(e, {e})

\* Mutant of Stop: the handler does not clear the flag.
BugStop(e, label) ==
    IF e = Server /\ ~ active[e]
    THEN Dies(e) /\ UNCHANGED active
    ELSE Goto(e, label) /\ UNCHANGED <<active, fin, rst>>

\* clear_conn_active handles SIGINT; the server exits when it has no connection
\* or has stopped the one it has.
Stop(e, label) ==
    IF e = Server /\ ~ active[e]
    THEN Dies(e) /\ UNCHANGED active
    ELSE /\ active' = [active EXCEPT ![e] = FALSE]
         /\ Goto(e, label)
         /\ UNCHANGED <<fin, rst>>

\* ^C: the handler runs.  A select under way returns with EINTR, one that is
\* called just after the handler does not.
Signal(e) ==
    /\ pc[e] \notin {"new", "gone"}
    /\ Event
    /\ hit' = (hit \/ e = Server)
    /\ UNCHANGED <<conn, input, buf, waiting, queue, typed, sent, shown, whole, eof>>
    /\ \E label \in {pc[e]} \cup (IF pc[e] = "select" THEN {"leave"} ELSE {}) : Stop(e, label)

\* A call fails and the process exits: the crypto device refuses, accept, select
\* or a write to the terminal fails.  What was read of the socket is gone.
Fails(e) ==
    /\ pc[e] \notin {"new", "gone"}
    /\ Event
    /\ hit' = (hit \/ e = Server)
    /\ IF pc[e] = "socket"
       THEN \E n \in 0 .. Parts :
              /\ n <= Len(queue[In(e)])
              /\ queue' = [queue EXCEPT ![In(e)] = SubSeq(@, n + 1, Len(@))]
       ELSE UNCHANGED queue
    /\ Dies(e)
    /\ UNCHANGED <<conn, active, input, buf, waiting, typed, sent, shown, whole, eof>>

-----------------------------------------------------------------------------
(* main *)

\* The client: connect, open the device, get a session.
Connect(c) ==
    /\ pc[c] = "new"
    /\ IF pc[Server] = "gone"
       THEN Goto(c, "gone") /\ UNCHANGED <<active, waiting>>
       ELSE /\ Goto(c, "select")
            /\ active' = [active EXCEPT ![c] = TRUE]
            /\ waiting' = waiting \cup {c}
    /\ UNCHANGED <<conn, input, buf, tcp, history>>

\* The server: accept a client, open the device, get a session.
Accept ==
    /\ pc[Server] = "accept"
    /\ \E c \in waiting : conn' = c /\ waiting' = waiting \ {c}
    /\ active' = [active EXCEPT ![Server] = TRUE]
    /\ Goto(Server, "select")
    /\ UNCHANGED <<input, buf, tcp, history>>

\* while (conn_active): where an end goes when a pass of the loop is over.
Test(e) == IF active[e] THEN "select" ELSE "leave"

Readable(d) == queue[d] # <<>> \/ fin[d] \/ rst[d]

\* select returns: the socket is readable, and there may be a line as well ...
SelectSocket(e) ==
    /\ pc[e] = "select"
    /\ Readable(In(e))
    /\ \E line \in BOOLEAN :
         /\ IF line THEN Typed(e) ELSE UNCHANGED <<events, typed>>
         /\ input' = [input EXCEPT ![e] = line]
    /\ Goto(e, "socket")
    /\ UNCHANGED <<conn, active, buf, waiting, tcp, hit, sent, shown, whole, eof>>

\* ... or only a line, or the end of the input.
SelectStdin(e) ==
    /\ pc[e] = "select"
    /\ ~ Readable(In(e))
    /\ Typed(e)
    /\ Goto(e, "stdin")
    /\ UNCHANGED <<conn, active, input, buf, waiting, tcp, hit, sent, shown, whole, eof>>

\* The session and the device are closed, then the connection; the server goes
\* on to the next client, the client exits.
Leave(e) ==
    /\ pc[e] = "leave"
    /\ UNCHANGED <<active, input, buf, waiting, queue, history>>
    /\ IF e = Server THEN Close(e, {conn}) /\ conn' = Server /\ Goto(e, "accept")
                     ELSE Close(e, {e}) /\ Goto(e, "gone") /\ UNCHANGED conn

-----------------------------------------------------------------------------
(* read_decrypt_write and read_encrypt_write *)

\* Standard input is next if select has found it readable; what it found is reset
\* before the next call.
AfterSocket(e) == IF input[e] THEN "stdin" ELSE Test(e)

\* Show what the buffer decrypts to; it holds the text from then on.
Show(e, b) ==
    /\ shown' = [shown EXCEPT ![In(e)] = Append(@, Decrypted(b))]
    /\ buf' = [buf EXCEPT ![e] = Block(Noise)]

\* Some parts are read over the beginning of the buffer, and the whole of it
\* is decrypted and shown.
ReadSocket(e) ==
    LET d == In(e) IN
    /\ pc[e] = "socket"
    /\ \E n \in 1 .. Parts :
         /\ n <= Len(queue[d])
         /\ whole' = [whole EXCEPT ![d] = @ /\ n = Parts]
         /\ Show(e, [i \in 1 .. Parts |-> IF i <= n THEN queue[d][i] ELSE buf[e][i]])
         /\ queue' = [queue EXCEPT ![d] = SubSeq(@, n + 1, Len(@))]
    /\ Goto(e, AfterSocket(e))
    /\ UNCHANGED <<conn, active, input, waiting, fin, rst, typed, events, hit, sent, eof>>

\* Mutant of ReadEnd: the loop around read is not left.
BugReadEnd(e) ==
    LET d == In(e) IN
    /\ pc[e] = "socket"
    /\ queue[d] = <<>>
    /\ UNCHANGED <<conn, input, waiting, queue, typed, events, hit, sent, whole>>
    /\ Show(e, buf[e])
    /\ eof' = [eof EXCEPT ![d] = TRUE]
    /\ Stop(e, "socket")

\* Mutant of ReadEnd: at the end the loop around read is left before anything else.
BugReadEndIgnored(e) ==
    /\ pc[e] = "socket"
    /\ queue[In(e)] = <<>>
    /\ Goto(e, AfterSocket(e))
    /\ UNCHANGED <<conn, active, input, buf, waiting, tcp, history>>

\* Nothing is left: read returns 0, or -1 once after a reset that no FIN came
\* before.  What the buffer holds is decrypted and shown; 0 stops the end itself.
ReadEnd(e) ==
    /\ pc[e] = "socket"
    /\ queue[In(e)] = <<>>
    /\ UNCHANGED <<conn, input, waiting, queue, typed, events, hit, sent, whole>>
    /\ Show(e, buf[e])
    /\ eof' = [eof EXCEPT ![In(e)] = TRUE]
    /\ \/ Stop(e, IF input[e] THEN "stdin" ELSE "leave")
       \/ /\ rst[In(e)] /\ ~ eof[In(e)]
          /\ Goto(e, AfterSocket(e)) /\ UNCHANGED <<active, fin, rst>>

\* Mutant of Sent: the line is written before it is encrypted.
BugSent(l) == Block(Noise)

\* What is written to the socket of a line: its encryption.
Sent(l) == Block(l)

\* A line is read, or the end of the input as an empty one, encrypted and written
\* to the socket; a peer that has closed its end answers with a reset.
ReadStdin(e) ==
    /\ pc[e] = "stdin"
    /\ ~ rst[In(e)]
    /\ input' = [input EXCEPT ![e] = FALSE]
    /\ \E parts \in 0 .. Parts :
         LET l == [from |-> e, no |-> typed[e], parts |-> parts] IN
         /\ buf' = [buf EXCEPT ![e] = Block(l)]
         /\ IF fin[In(e)]
            THEN rst' = [rst EXCEPT ![In(e)] = TRUE] /\ UNCHANGED <<queue, sent>>
            ELSE /\ queue' = [queue EXCEPT ![Out(e)] = @ \o Sent(l)]
                 /\ sent' = [sent EXCEPT ![Out(e)] = Append(@, l)]
                 /\ UNCHANGED rst
         /\ Goto(e, IF parts = 0 THEN "end" ELSE Test(e))
    /\ UNCHANGED <<conn, active, waiting, fin, typed, events, hit, shown, whole, eof>>

\* After a reset the write fails and the process exits, or SIGPIPE kills it.
WriteFails(e) ==
    /\ pc[e] = "stdin"
    /\ rst[In(e)]
    /\ UNCHANGED <<conn, active, input, buf, waiting, queue, history>>
    /\ Dies(e)

\* The end of the input stops the conversation, once it is sent.
InputEnd(e) ==
    /\ pc[e] = "end"
    /\ UNCHANGED <<conn, input, buf, waiting, queue, history>>
    /\ Stop(e, "leave")

-----------------------------------------------------------------------------
\* What the program of an end does next.
Step(e) ==
    \/ SelectSocket(e) \/ Leave(e)
    \/ ReadSocket(e) \/ ReadEnd(e) \/ ReadStdin(e) \/ WriteFails(e) \/ InputEnd(e)

Next ==
    \/ \E c \in Clients : Connect(c)
    \/ Accept
    \/ \E e \in Ends : Step(e) \/ SelectStdin(e) \/ Signal(e) \/ Fails(e)

\* The programs run on; nobody has to type, press ^C or connect.
Fairness == WF_vars(Accept) /\ \A e \in Ends : WF_vars(Step(e))

Spec == Init /\ [][Next]_vars /\ Fairness

-----------------------------------------------------------------------------
(* Properties *)

Loop == {"select", "socket", "stdin", "end", "leave"}

TypeOK ==
    /\ pc \in [Ends -> {"new", "accept", "gone"} \cup Loop]
    /\ conn \in Clients \cup {Server}
    /\ pc[Server] \in Loop => conn # Server
    /\ pc[Server] = "accept" => conn = Server /\ ~ active[Server]
    /\ active \in [Ends -> BOOLEAN]
    /\ input \in [Ends -> BOOLEAN]
    /\ buf \in [Ends -> [1 .. Parts -> Part]]
    /\ waiting \subseteq Clients
    /\ queue \in [Streams -> Seq(Part)]
    /\ fin \in [Streams -> BOOLEAN] /\ rst \in [Streams -> BOOLEAN]
    /\ typed \in [Ends -> 0 .. MaxTyped] /\ events \in 0 .. MaxTyped
    /\ hit \in BOOLEAN
    /\ sent \in [Streams -> Seq(Line)]
    /\ shown \in [Streams -> Seq(Line \cup {Noise})]
    /\ whole \in [Streams -> BOOLEAN] /\ eof \in [Streams -> BOOLEAN]

\* As long as TCP delivers whole blocks, each end shows the lines of the other
\* in order and nothing else, though one buffer serves both directions and
\* several clients; by the time it is told that the other has left, it has
\* shown all of them (and then, once, what the buffer happens to hold).
ShownAsSent ==
    \A d \in Streams :
        whole[d] =>
            LET n == IF eof[d] THEN Len(shown[d]) - 1 ELSE Len(shown[d]) IN
            \/ rst[d]
            \/ /\ n <= Len(sent[d])
               /\ SubSeq(shown[d], 1, n) = SubSeq(sent[d], 1, n)
               /\ eof[d] => n = Len(sent[d])

\* "Loop forever, accept()ing connections": clients that come, talk, leave and
\* fail do not end a server nobody presses ^C at, whose own calls succeed, whose
\* input is not at its end and which does not write to a connection that was
\* reset.
ServerSurvives ==
    pc[Server] = "gone" /\ ~ hit =>
        \/ rst[<<conn, "up">>]
        \/ buf[Server][1].line.from = Server /\ buf[Server][1].line.no > 0
           /\ buf[Server][1].line.parts = 0

\* "Make sure a broken connection doesn't kill us": the same of a server that does
\* write to a connection that was reset.  It does not hold: SIGPIPE is not
\* ignored, and a write that fails exits.
BrokenConnectionSurvived ==
    pc[Server] = "gone" /\ ~ hit =>
        /\ buf[Server][1].line.from = Server
        /\ buf[Server][1].line.no > 0 /\ buf[Server][1].line.parts = 0

\* "We break out of the loop when the remote peer goes away": an end whose peer
\* has closed the connection leaves it.
PeerGoneEnds ==
    /\ \A c \in Clients :
         /\ (conn = c /\ fin[<<c, "up">>]) ~> (conn # c \/ pc[Server] = "gone")
         /\ (pc[c] # "new" /\ fin[<<c, "down">>]) ~> (pc[c] = "gone")

=============================================================================

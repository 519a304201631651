----------------------------- MODULE ChatProofs -----------------------------
(***************************************************************************)
(* Proofs about Chat, for any number of clients, parts of a block and      *)
(* events at the ends.                                                     *)
(***************************************************************************)
EXTENDS Chat, TLAPS

\* A line is only read after one was typed, and an end leaves only when its
\* conversation has been stopped.
LineInv ==
    \A e \in Ends :
        /\ input[e] \/ pc[e] = "stdin" => typed[e] >= 1
        /\ typed[e] <= events
        /\ pc[e] = "leave" => ~ active[e]

TypedInv == TypeOK /\ LineInv

-----------------------------------------------------------------------------
(* Types *)

Labels == {"new", "accept", "gone"} \cup Loop

LEMMA BlockType ==
    ASSUME NEW l \in Line \cup {Noise}
    PROVE  /\ Block(l) \in [1 .. Parts -> Part]
           /\ Block(l) \in Seq(Part) /\ Len(Block(l)) = Parts
           /\ \A i \in 1 .. Parts : Block(l)[i] = [line |-> l, i |-> i]
<1>1. \A i \in 1 .. Parts : [line |-> l, i |-> i] \in Part
  BY DEF Part
<1>2. Block(l) \in [1 .. Parts -> Part]
  BY <1>1 DEF Block
<1>3. Parts \in Nat
  BY ChatAssumption
<1>4. Block(l) \in Seq(Part) /\ Len(Block(l)) = Parts
  <2> DEFINE s == Block(l)
  <2>1. s \in [1 .. Parts -> Part]
    BY <1>2
  <2> HIDE DEF s
  <2>2. s \in Seq(Part) /\ Len(s) = Parts
    BY ONLY <2>1, <1>3
  <2> QED BY <2>2 DEF s
<1> QED BY <1>2, <1>4 DEF Block

LEMMA DecryptedType ==
    ASSUME NEW b \in [1 .. Parts -> Part]
    PROVE  Decrypted(b) \in Line \cup {Noise}
<1>1. b[1] \in Part
  BY ChatAssumption
<1>2. b[1].line \in Line \cup {Noise}
  BY <1>1 DEF Part
<1> QED BY <1>2 DEF Decrypted

\* The streams of an end in its loop.
LEMMA Streaming ==
    ASSUME TypeOK, NEW e \in Ends, pc[e] \in Loop
    PROVE  In(e) \in Streams /\ Out(e) \in Streams
BY ChatAssumption DEF TypeOK, In, Out, Streams, Ends

LEMMA CloseType ==
    ASSUME TypeOK, NEW e, NEW cs, Close(e, cs)
    PROVE  fin' \in [Streams -> BOOLEAN] /\ rst' \in [Streams -> BOOLEAN]
BY DEF Close

LEMMA GotoType ==
    ASSUME TypeOK, NEW e \in Ends, NEW label \in Labels, Goto(e, label)
    PROVE  /\ pc' \in [Ends -> Labels] /\ pc'[e] = label
           /\ \A g \in Ends : g # e => pc'[g] = pc[g]
BY DEF TypeOK, Goto, Labels

LEMMA DiesType ==
    ASSUME TypeOK, NEW e \in Ends, Dies(e)
    PROVE  /\ pc' \in [Ends -> Labels] /\ pc'[e] = "gone"
           /\ \A g \in Ends : g # e => pc'[g] = pc[g]
           /\ fin' \in [Streams -> BOOLEAN] /\ rst' \in [Streams -> BOOLEAN]
<1>1. Goto(e, "gone") /\ "gone" \in Labels
  BY DEF Dies, Labels
<1>2. \E cs : Close(e, cs)
  BY DEF Dies
<1> QED BY <1>1, <1>2, GotoType, CloseType

\* A signal or the end of the input stops the conversation of an end, or the
\* server itself.
LEMMA StopType ==
    ASSUME TypeOK, NEW e \in Ends, NEW label \in Labels, Stop(e, label)
    PROVE  /\ pc' \in [Ends -> Labels]
           /\ \A g \in Ends : g # e => pc'[g] = pc[g]
           /\ active' \in [Ends -> BOOLEAN] /\ ~ active'[e]
           /\ \A g \in Ends : g # e => active'[g] = active[g]
           /\ fin' \in [Streams -> BOOLEAN] /\ rst' \in [Streams -> BOOLEAN]
           /\ \/ Dies(e) /\ e = Server /\ ~ active[e] /\ pc'[e] = "gone"
              \/ pc'[e] = label /\ UNCHANGED <<fin, rst>>
<1>1. CASE e = Server /\ ~ active[e]
  BY <1>1, DiesType DEF Stop, TypeOK
<1>2. CASE ~ (e = Server /\ ~ active[e])
  <2>1. /\ active' = [active EXCEPT ![e] = FALSE] /\ Goto(e, label) /\ UNCHANGED <<fin, rst>>
    BY <1>2 DEF Stop
  <2> QED BY <2>1, GotoType DEF TypeOK
<1> QED BY <1>1, <1>2

LEMMA EventType ==
    ASSUME TypeOK, Event
    PROVE  events' \in 0 .. MaxTyped /\ events' = events + 1 /\ events \in Nat
BY ChatAssumption DEF TypeOK, Event

LEMMA LineTyped ==
    ASSUME TypedInv, NEW e \in Ends, Typed(e)
    PROVE  /\ events' \in 0 .. MaxTyped /\ typed' \in [Ends -> 0 .. MaxTyped]
           /\ typed'[e] >= 1
           /\ \A g \in Ends : typed'[g] >= typed[g] /\ typed'[g] <= events'
<1>1. events' \in 0 .. MaxTyped /\ events' = events + 1 /\ events \in Nat /\ MaxTyped \in Nat
  BY EventType, ChatAssumption DEF TypedInv, Typed
<1>2. /\ typed' = [typed EXCEPT ![e] = typed[e] + 1]
      /\ \A g \in Ends : typed[g] \in 0 .. MaxTyped /\ typed[g] <= events
      /\ typed \in [Ends -> 0 .. MaxTyped]
  BY DEF TypedInv, TypeOK, LineInv, Typed
<1>3. typed[e] + 1 \in 0 .. MaxTyped
  BY <1>1, <1>2
<1> QED BY ONLY <1>1, <1>2, <1>3, e \in Ends

\* What is left of a queue when some parts have been read.
LEMMA RestType ==
    ASSUME NEW S, NEW q \in Seq(S), NEW n \in Nat, n <= Len(q)
    PROVE  SubSeq(q, n + 1, Len(q)) \in Seq(S)
OBVIOUS

LEMMA InitTyped == Init => TypedInv
<1> SUFFICES ASSUME Init PROVE TypedInv
  OBVIOUS
<1>1. LineInv
  BY DEF Init, LineInv
<1>2. buf \in [Ends -> [1 .. Parts -> Part]]
  BY BlockType DEF Init
<1>3. /\ 0 \in 0 .. MaxTyped
      /\ pc \in [Ends -> {"new", "accept", "gone"} \cup Loop]
      /\ typed \in [Ends -> 0 .. MaxTyped]
  BY ChatAssumption DEF Init
<1>4. /\ queue \in [Streams -> Seq(Part)] /\ sent \in [Streams -> Seq(Line)]
      /\ shown \in [Streams -> Seq(Line \cup {Noise})]
  BY DEF Init
<1>5. /\ conn \in Clients \cup {Server} /\ pc[Server] = "accept" /\ ~ active[Server]
      /\ conn = Server /\ waiting \subseteq Clients /\ events \in 0 .. MaxTyped
  BY <1>3 DEF Init, Ends
<1> QED BY <1>1, <1>2, <1>3, <1>4, <1>5 DEF Init, TypedInv, TypeOK, Loop

LEMMA ConnectTyped == ASSUME TypedInv, NEW c \in Clients, Connect(c) PROVE TypedInv'
<1>1. c \in Ends /\ c # Server
  BY ChatAssumption DEF Ends
<1>2. CASE Goto(c, "gone") /\ UNCHANGED <<active, waiting>>
  <2>1. pc' \in [Ends -> Labels] /\ pc'[c] = "gone" /\ \A g \in Ends : g # c => pc'[g] = pc[g]
    BY <1>1, <1>2, GotoType DEF TypedInv, Labels
  <2> QED BY <1>1, <1>2, <2>1
          DEF Connect, tcp, history, TypedInv, TypeOK, LineInv, Labels, Ends
<1>3. CASE /\ Goto(c, "select") /\ active' = [active EXCEPT ![c] = TRUE]
           /\ waiting' = waiting \cup {c}
  <2>1. pc' \in [Ends -> Labels] /\ pc'[c] = "select" /\ \A g \in Ends : g # c => pc'[g] = pc[g]
    BY <1>1, <1>3, GotoType DEF TypedInv, Labels, Loop
  <2>2. /\ active' \in [Ends -> BOOLEAN] /\ \A g \in Ends : g # c => active'[g] = active[g]
        /\ waiting' \subseteq Clients
    BY <1>3 DEF TypedInv, TypeOK
  <2> QED BY <1>1, <2>1, <2>2
          DEF Connect, tcp, history, TypedInv, TypeOK, LineInv, Labels, Ends
<1> QED BY <1>2, <1>3 DEF Connect

LEMMA AcceptTyped == ASSUME TypedInv, Accept PROVE TypedInv'
<1>1. Server \in Ends
  BY DEF Ends
<1>2. /\ pc' \in [Ends -> Labels] /\ pc'[Server] = "select"
      /\ \A g \in Ends : g # Server => pc'[g] = pc[g]
  BY <1>1, GotoType DEF Accept, TypedInv, Labels, Loop
<1>3. /\ active' \in [Ends -> BOOLEAN] /\ \A g \in Ends : g # Server => active'[g] = active[g]
  BY DEF Accept, TypedInv, TypeOK
<1>4. conn' \in Clients /\ conn' # Server /\ waiting' \subseteq Clients
  BY ChatAssumption DEF Accept, TypedInv, TypeOK
<1> QED BY <1>1, <1>2, <1>3, <1>4 DEF Accept, tcp, history, TypedInv, TypeOK, LineInv, Labels

LEMMA SelectTyped ==
    ASSUME TypedInv, NEW e \in Ends, SelectSocket(e) \/ SelectStdin(e)
    PROVE  TypedInv'
<1>1. /\ pc[e] = "select" /\ pc' \in [Ends -> Labels] /\ pc'[e] \in {"socket", "stdin"}
      /\ \A g \in Ends : g # e => pc'[g] = pc[g]
  BY GotoType DEF SelectSocket, SelectStdin, TypedInv, Labels, Loop
<1>2. UNCHANGED <<conn, active, buf, waiting, tcp, hit, sent, shown, whole, eof>>
  BY DEF SelectSocket, SelectStdin
<1>3. input' \in [Ends -> BOOLEAN] /\ \A g \in Ends : g # e => input'[g] = input[g]
  BY DEF SelectSocket, SelectStdin, TypedInv, TypeOK
<1>4. Typed(e) \/ UNCHANGED <<events, typed>>
  BY DEF SelectSocket, SelectStdin
<1>5. /\ events' \in 0 .. MaxTyped /\ typed' \in [Ends -> 0 .. MaxTyped]
      /\ \A g \in Ends : typed'[g] >= typed[g] /\ typed'[g] <= events'
  <2>1. CASE Typed(e)
    BY <2>1, LineTyped
  <2>2. CASE UNCHANGED <<events, typed>>
    BY <2>2 DEF TypedInv, TypeOK, LineInv
  <2> QED BY <1>4, <2>1, <2>2
<1>6. input'[e] \/ pc'[e] = "stdin" => typed'[e] >= 1
  <2>1. CASE Typed(e)
    BY <2>1, LineTyped
  <2>2. CASE ~ Typed(e)
    <3>1. input'[e] = FALSE /\ pc'[e] = "socket"
      BY <2>2 DEF SelectSocket, SelectStdin, Goto, TypedInv, TypeOK
    <3> QED BY <3>1
  <2> QED BY <2>1, <2>2
<1>7. TypeOK'
  <2>1. /\ pc'[Server] \in Loop => pc[Server] \in Loop
        /\ pc'[Server] = "accept" => pc[Server] = "accept"
    BY <1>1 DEF Loop, Ends
  <2> QED BY <1>1, <1>2, <1>3, <1>5, <2>1 DEF tcp, TypedInv, TypeOK, Labels
<1>8. LineInv'
  <2> SUFFICES ASSUME NEW g \in Ends
               PROVE  /\ input'[g] \/ pc'[g] = "stdin" => typed'[g] >= 1
                      /\ typed'[g] <= events'
                      /\ pc'[g] = "leave" => ~ active'[g]
    BY DEF LineInv
  <2>1. typed[g] \in Nat /\ typed'[g] \in Nat
    BY <1>5, ChatAssumption DEF TypedInv, TypeOK
  <2>2. CASE g # e
    BY <1>1, <1>2, <1>3, <1>5, <2>1, <2>2 DEF TypedInv, LineInv
  <2> QED BY <1>1, <1>5, <1>6, <2>2
<1> QED BY <1>7, <1>8 DEF TypedInv

LEMMA LeaveTyped == ASSUME TypedInv, NEW e \in Ends, Leave(e) PROVE TypedInv'
<1>1. /\ pc[e] = "leave" /\ ~ active[e] /\ UNCHANGED <<active, input, buf, waiting, queue, history>>
  BY DEF Leave, TypedInv, LineInv
<1>2. fin' \in [Streams -> BOOLEAN] /\ rst' \in [Streams -> BOOLEAN]
  BY CloseType DEF Leave, TypedInv
<1>3. CASE e = Server
  <2>1. conn' = Server /\ Goto(e, "accept")
    BY <1>3 DEF Leave
  <2>2. /\ pc' \in [Ends -> Labels] /\ pc'[e] = "accept"
        /\ \A g \in Ends : g # e => pc'[g] = pc[g]
    BY <2>1, GotoType DEF TypedInv, Labels
  <2> QED BY <1>1, <1>2, <1>3, <2>1, <2>2 DEF history, TypedInv, TypeOK, LineInv, Labels, Loop
<1>4. CASE e # Server
  <2>1. conn' = conn /\ Goto(e, "gone")
    BY <1>4 DEF Leave
  <2>2. /\ pc' \in [Ends -> Labels] /\ pc'[e] = "gone"
        /\ \A g \in Ends : g # e => pc'[g] = pc[g]
    BY <2>1, GotoType DEF TypedInv, Labels
  <2> QED BY <1>1, <1>2, <1>4, <2>1, <2>2 DEF history, TypedInv, TypeOK, LineInv, Labels, Ends
<1> QED BY <1>3, <1>4

\* Where an end is after the socket.
LEMMA AfterSocketType ==
    ASSUME TypedInv, NEW e \in Ends
    PROVE  /\ AfterSocket(e) \in Loop \cap {"stdin", "select", "leave"}
           /\ AfterSocket(e) = "stdin" => input[e]
           /\ AfterSocket(e) = "leave" => ~ active[e]
           /\ AfterSocket(e) = "select" => active[e]
BY DEF AfterSocket, Test, Loop

LEMMA ShowType ==
    ASSUME TypeOK, NEW e \in Ends, In(e) \in Streams, NEW b \in [1 .. Parts -> Part], Show(e, b)
    PROVE  /\ buf' \in [Ends -> [1 .. Parts -> Part]]
           /\ shown' \in [Streams -> Seq(Line \cup {Noise})]
<1>1. Decrypted(b) \in Line \cup {Noise} /\ Block(Noise) \in [1 .. Parts -> Part]
  BY DecryptedType, BlockType
<1>2. shown[In(e)] \in Seq(Line \cup {Noise})
  BY DEF TypeOK
<1>3. Append(shown[In(e)], Decrypted(b)) \in Seq(Line \cup {Noise})
  BY ONLY <1>1, <1>2
<1> QED BY <1>1, <1>3 DEF Show, TypeOK

\* An end stays in its loop, or goes: what else TypedInv says of it.
LEMMA EndTyped ==
    ASSUME TypedInv, NEW e \in Ends, pc[e] \in Loop,
           pc' \in [Ends -> Labels], \A g \in Ends : g # e => pc'[g] = pc[g],
           active' \in [Ends -> BOOLEAN], \A g \in Ends : g # e => active'[g] = active[g],
           pc'[e] \in Loop \cup {"gone"},
           pc'[e] = "leave" => ~ active'[e],
           conn' = conn, waiting' = waiting, UNCHANGED <<typed, events>>,
           input' \in [Ends -> BOOLEAN], \A g \in Ends : g # e => input'[g] = input[g],
           input'[e] \/ pc'[e] = "stdin" => input[e] \/ pc[e] = "stdin",
           hit' \in BOOLEAN,
           buf' \in [Ends -> [1 .. Parts -> Part]],
           queue' \in [Streams -> Seq(Part)],
           fin' \in [Streams -> BOOLEAN], rst' \in [Streams -> BOOLEAN],
           sent' \in [Streams -> Seq(Line)],
           shown' \in [Streams -> Seq(Line \cup {Noise})],
           whole' \in [Streams -> BOOLEAN], eof' \in [Streams -> BOOLEAN]
    PROVE  TypedInv'
<1>1. /\ pc'[Server] \in Loop => pc[Server] \in Loop
      /\ pc'[Server] = "accept" => pc[Server] = "accept" /\ active'[Server] = active[Server]
  BY DEF Loop, Ends
<1>2. TypeOK'
  BY <1>1 DEF TypedInv, TypeOK, Labels
<1>3. LineInv'
  BY DEF TypedInv, LineInv
<1> QED BY <1>2, <1>3 DEF TypedInv

LEMMA ReadSocketTyped == ASSUME TypedInv, NEW e \in Ends, ReadSocket(e) PROVE TypedInv'
<1> DEFINE d == In(e)
<1>0. /\ pc[e] = "socket" /\ pc[e] \in Loop
      /\ UNCHANGED <<conn, active, input, waiting, fin, rst, typed, events, hit, sent, eof>>
  BY DEF ReadSocket, Loop
<1>1. d \in Streams /\ TypeOK
  BY <1>0, Streaming DEF TypedInv
<1>2. PICK n \in 1 .. Parts :
        /\ n <= Len(queue[d])
        /\ whole' = [whole EXCEPT ![d] = @ /\ n = Parts]
        /\ Show(e, [i \in 1 .. Parts |-> IF i <= n THEN queue[d][i] ELSE buf[e][i]])
        /\ queue' = [queue EXCEPT ![d] = SubSeq(@, n + 1, Len(@))]
  BY DEF ReadSocket
<1>3. queue[d] \in Seq(Part) /\ n \in Nat /\ buf[e] \in [1 .. Parts -> Part]
  BY <1>1, ChatAssumption DEF TypeOK
<1>4. \A i \in 1 .. Parts : i <= n => queue[d][i] \in Part
  BY ONLY <1>2, <1>3, ChatAssumption
<1>5. [i \in 1 .. Parts |-> IF i <= n THEN queue[d][i] ELSE buf[e][i]] \in [1 .. Parts -> Part]
  BY <1>3, <1>4
<1>6. buf' \in [Ends -> [1 .. Parts -> Part]] /\ shown' \in [Streams -> Seq(Line \cup {Noise})]
  BY <1>1, <1>2, <1>5, ShowType
<1>7. SubSeq(queue[d], n + 1, Len(queue[d])) \in Seq(Part)
  BY <1>2, <1>3, RestType
<1>8. queue' \in [Streams -> Seq(Part)]
  BY <1>1, <1>2, <1>7 DEF TypeOK
<1>9. whole' \in [Streams -> BOOLEAN]
  BY <1>1, <1>2 DEF TypeOK
<1>10. /\ pc' \in [Ends -> Labels] /\ pc'[e] = AfterSocket(e)
       /\ \A g \in Ends : g # e => pc'[g] = pc[g]
  <2>1. Goto(e, AfterSocket(e)) /\ AfterSocket(e) \in Labels
    BY AfterSocketType DEF ReadSocket, Labels
  <2> QED BY <1>1, <2>1, GotoType
<1>11. /\ AfterSocket(e) \in Loop
       /\ AfterSocket(e) = "stdin" => input[e]
       /\ AfterSocket(e) = "leave" => ~ active[e]
  BY AfterSocketType
<1> QED BY <1>0, <1>1, <1>6, <1>8, <1>9, <1>10, <1>11, EndTyped DEF TypeOK

LEMMA ReadEndTyped == ASSUME TypedInv, NEW e \in Ends, ReadEnd(e) PROVE TypedInv'
<1>0. /\ pc[e] = "socket" /\ pc[e] \in Loop /\ Show(e, buf[e])
      /\ UNCHANGED <<conn, input, waiting, queue, typed, events, hit, sent, whole>>
      /\ eof' = [eof EXCEPT ![In(e)] = TRUE]
  BY DEF ReadEnd, Loop
<1>1. In(e) \in Streams /\ TypeOK /\ buf[e] \in [1 .. Parts -> Part]
  BY <1>0, Streaming DEF TypedInv, TypeOK
<1>2. buf' \in [Ends -> [1 .. Parts -> Part]] /\ shown' \in [Streams -> Seq(Line \cup {Noise})]
  BY <1>0, <1>1, ShowType
<1>3. eof' \in [Streams -> BOOLEAN]
  BY <1>0, <1>1 DEF TypeOK
<1>4. CASE Stop(e, IF input[e] THEN "stdin" ELSE "leave")
  <2>1. (IF input[e] THEN "stdin" ELSE "leave") \in Labels
    BY DEF Labels, Loop
  <2>2. /\ pc' \in [Ends -> Labels]
        /\ \A g \in Ends : g # e => pc'[g] = pc[g]
        /\ active' \in [Ends -> BOOLEAN] /\ ~ active'[e]
        /\ \A g \in Ends : g # e => active'[g] = active[g]
        /\ fin' \in [Streams -> BOOLEAN] /\ rst' \in [Streams -> BOOLEAN]
        /\ pc'[e] \in {"gone", IF input[e] THEN "stdin" ELSE "leave"}
    BY <1>1, <1>4, <2>1, StopType, Zenon
  <2>3. pc'[e] \in Loop \cup {"gone"} /\ (pc'[e] = "stdin" => input[e])
    BY <2>2 DEF Loop
  <2> QED BY <1>0, <1>1, <1>2, <1>3, <2>2, <2>3, EndTyped DEF TypeOK
<1>5. CASE Goto(e, AfterSocket(e)) /\ UNCHANGED <<active, fin, rst>>
  <2>1. /\ AfterSocket(e) \in Loop /\ AfterSocket(e) \in Labels
        /\ AfterSocket(e) = "stdin" => input[e]
        /\ AfterSocket(e) = "leave" => ~ active[e]
    BY AfterSocketType DEF Labels
  <2>2. /\ pc' \in [Ends -> Labels] /\ pc'[e] = AfterSocket(e)
        /\ \A g \in Ends : g # e => pc'[g] = pc[g]
    BY <1>1, <1>5, <2>1, GotoType
  <2> QED BY <1>0, <1>1, <1>2, <1>3, <1>5, <2>1, <2>2, EndTyped DEF TypeOK
<1> QED BY <1>4, <1>5 DEF ReadEnd

\* The line an end has just read.
LEMMA LineType ==
    ASSUME TypedInv, NEW e \in Ends, pc[e] = "stdin", NEW parts \in 0 .. Parts
    PROVE  /\ [from |-> e, no |-> typed[e], parts |-> parts] \in Line
           /\ typed[e] >= 1
<1>1. typed[e] \in 1 .. MaxTyped
  BY ChatAssumption DEF TypedInv, TypeOK, LineInv
<1> QED BY <1>1 DEF Line

LEMMA ReadStdinTyped == ASSUME TypedInv, NEW e \in Ends, ReadStdin(e) PROVE TypedInv'
<1>0. /\ pc[e] = "stdin" /\ pc[e] \in Loop
      /\ input' = [input EXCEPT ![e] = FALSE]
      /\ UNCHANGED <<conn, active, waiting, fin, typed, events, hit, shown, whole, eof>>
  BY DEF ReadStdin, Loop
<1>1. In(e) \in Streams /\ Out(e) \in Streams /\ TypeOK
  BY <1>0, Streaming DEF TypedInv
<1>2. PICK parts \in 0 .. Parts :
         LET l == [from |-> e, no |-> typed[e], parts |-> parts] IN
         /\ buf' = [buf EXCEPT ![e] = Block(l)]
         /\ IF fin[In(e)]
            THEN rst' = [rst EXCEPT ![In(e)] = TRUE] /\ UNCHANGED <<queue, sent>>
            ELSE /\ queue' = [queue EXCEPT ![Out(e)] = @ \o Sent(l)]
                 /\ sent' = [sent EXCEPT ![Out(e)] = Append(@, l)]
                 /\ UNCHANGED rst
         /\ Goto(e, IF parts = 0 THEN "end" ELSE Test(e))
  BY DEF ReadStdin
<1> DEFINE l == [from |-> e, no |-> typed[e], parts |-> parts]
<1>3. l \in Line /\ l \in Line \cup {Noise}
  BY <1>0, LineType
<1> HIDE DEF l
<1>4. /\ buf' = [buf EXCEPT ![e] = Block(l)]
      /\ \/ rst' = [rst EXCEPT ![In(e)] = TRUE] /\ UNCHANGED <<queue, sent>>
         \/ /\ queue' = [queue EXCEPT ![Out(e)] = queue[Out(e)] \o Block(l)]
            /\ sent' = [sent EXCEPT ![Out(e)] = Append(sent[Out(e)], l)]
            /\ UNCHANGED rst
      /\ Goto(e, IF parts = 0 THEN "end" ELSE Test(e))
  BY <1>2 DEF Sent, l
<1>5. buf' \in [Ends -> [1 .. Parts -> Part]]
  BY <1>1, <1>3, <1>4, BlockType DEF TypeOK
<1>6. rst' \in [Streams -> BOOLEAN]
  BY <1>1, <1>4 DEF TypeOK
<1>7. queue' \in [Streams -> Seq(Part)] /\ sent' \in [Streams -> Seq(Line)]
  <2>1. queue[Out(e)] \in Seq(Part) /\ sent[Out(e)] \in Seq(Line) /\ Block(l) \in Seq(Part)
    BY <1>1, <1>3, BlockType DEF TypeOK
  <2> DEFINE q == queue[Out(e)] \o Block(l)
             s == Append(sent[Out(e)], l)
  <2>2. q \in Seq(Part) /\ s \in Seq(Line)
    BY ONLY <1>3, <2>1
  <2>3. \/ UNCHANGED <<queue, sent>>
        \/ queue' = [queue EXCEPT ![Out(e)] = q] /\ sent' = [sent EXCEPT ![Out(e)] = s]
    BY <1>4
  <2>4. queue \in [Streams -> Seq(Part)] /\ sent \in [Streams -> Seq(Line)]
    BY <1>1 DEF TypeOK
  <2> HIDE DEF q, s
  <2> QED BY ONLY <2>2, <2>3, <2>4
<1>8. /\ (IF parts = 0 THEN "end" ELSE Test(e)) \in Loop \ {"stdin"}
      /\ (IF parts = 0 THEN "end" ELSE Test(e)) = "leave" => ~ active[e]
  BY DEF Test, Loop
<1>9. /\ pc' \in [Ends -> Labels] /\ pc'[e] = (IF parts = 0 THEN "end" ELSE Test(e))
      /\ \A g \in Ends : g # e => pc'[g] = pc[g]
  <2>1. (IF parts = 0 THEN "end" ELSE Test(e)) \in Labels
    BY <1>8 DEF Labels
  <2> HIDE DEF TypedInv
  <2> QED BY <1>1, <1>4, <2>1, GotoType
<1>10. input' \in [Ends -> BOOLEAN] /\ ~ input'[e] /\ \A g \in Ends : g # e => input'[g] = input[g]
  BY <1>0, <1>1 DEF TypeOK
<1>11. /\ pc'[e] \in Loop \cup {"gone"} /\ pc'[e] # "stdin"
       /\ pc'[e] = "leave" => ~ active'[e]
       /\ active' \in [Ends -> BOOLEAN] /\ \A g \in Ends : g # e => active'[g] = active[g]
  BY <1>0, <1>1, <1>8, <1>9 DEF TypeOK
<1>12. /\ fin' \in [Streams -> BOOLEAN] /\ hit' \in BOOLEAN
       /\ shown' \in [Streams -> Seq(Line \cup {Noise})]
       /\ whole' \in [Streams -> BOOLEAN] /\ eof' \in [Streams -> BOOLEAN]
  BY <1>0, <1>1 DEF TypeOK
<1>13. /\ pc' \in [Ends -> Labels] /\ \A g \in Ends : g # e => pc'[g] = pc[g]
  BY <1>9
<1> QED BY ONLY TypedInv, e \in Ends, <1>0, <1>5, <1>6, <1>7, <1>10, <1>11, <1>12, <1>13, EndTyped

LEMMA StopsTyped ==
    ASSUME TypedInv, NEW e \in Ends, WriteFails(e) \/ InputEnd(e)
    PROVE  TypedInv'
<1>0. /\ pc[e] \in Loop /\ TypeOK
      /\ UNCHANGED <<conn, input, buf, waiting, queue, typed, events, hit, sent, shown,
                     whole, eof>>
  BY DEF WriteFails, InputEnd, Loop, TypedInv, history
<1>1. /\ pc' \in [Ends -> Labels] /\ pc'[e] \in {"leave", "gone"}
      /\ \A g \in Ends : g # e => pc'[g] = pc[g]
      /\ active' \in [Ends -> BOOLEAN] /\ (pc'[e] = "leave" => ~ active'[e])
      /\ \A g \in Ends : g # e => active'[g] = active[g]
      /\ fin' \in [Streams -> BOOLEAN] /\ rst' \in [Streams -> BOOLEAN]
  <2>1. CASE WriteFails(e)
    BY <1>0, <2>1, DiesType DEF WriteFails, TypeOK
  <2>2. CASE InputEnd(e)
    <3>1. Stop(e, "leave") /\ "leave" \in Labels
      BY <2>2 DEF InputEnd, Labels, Loop
    <3> QED BY <1>0, <3>1, StopType, Zenon
  <2> QED BY <2>1, <2>2
<1>2. pc'[e] \in Loop \cup {"gone"} /\ pc'[e] # "stdin"
  BY <1>1 DEF Loop
<1> QED BY <1>0, <1>1, <1>2, EndTyped DEF TypeOK

\* A ^C or a failure: one more event, and the end stays where it is, leaves or
\* goes.
LEMMA SignalTyped ==
    ASSUME TypedInv, NEW e \in Ends, Signal(e) \/ Fails(e)
    PROVE  TypedInv'
<1>0. /\ pc[e] \notin {"new", "gone"} /\ TypeOK /\ Event
      /\ hit' = (hit \/ e = Server)
      /\ UNCHANGED <<conn, input, buf, waiting, typed, sent, shown, whole, eof>>
  BY DEF Signal, Fails, TypedInv
<1>1. events' \in 0 .. MaxTyped /\ events' = events + 1 /\ events \in Nat
  BY <1>0, EventType
<1>2. /\ pc' \in [Ends -> Labels]
      /\ \/ pc'[e] = "gone"
         \/ pc'[e] = pc[e] /\ ~ active'[e] /\ ~ (e = Server /\ ~ active[e])
         \/ pc'[e] = "leave" /\ pc[e] = "select" /\ ~ active'[e]
      /\ \A g \in Ends : g # e => pc'[g] = pc[g]
      /\ active' \in [Ends -> BOOLEAN]
      /\ \A g \in Ends : g # e => active'[g] = active[g]
      /\ fin' \in [Streams -> BOOLEAN] /\ rst' \in [Streams -> BOOLEAN]
  <2>1. CASE Fails(e)
    BY <1>0, <2>1, DiesType DEF Fails, TypeOK
  <2>2. CASE Signal(e)
    <3>1. PICK label \in {pc[e]} \cup (IF pc[e] = "select" THEN {"leave"} ELSE {}) : Stop(e, label)
      BY <2>2 DEF Signal
    <3>2. label \in Labels /\ (label = pc[e] \/ (label = "leave" /\ pc[e] = "select"))
      BY <1>0, <3>1 DEF TypeOK, Labels, Loop
    <3>3. CASE e = Server /\ ~ active[e]
      BY <1>0, <3>1, <3>3, DiesType DEF Stop, TypeOK
    <3>4. CASE ~ (e = Server /\ ~ active[e])
      <4>1. active' = [active EXCEPT ![e] = FALSE] /\ Goto(e, label) /\ UNCHANGED <<fin, rst>>
        BY <3>1, <3>4 DEF Stop
      <4> QED BY <1>0, <3>2, <3>4, <4>1, GotoType DEF TypeOK
    <3> QED BY <3>3, <3>4
  <2> QED BY <2>1, <2>2
<1>3. queue' \in [Streams -> Seq(Part)]
  <2>1. CASE UNCHANGED queue
    BY <1>0, <2>1 DEF TypeOK
  <2>2. CASE Fails(e) /\ pc[e] = "socket"
    <3>1. PICK n \in 0 .. Parts :
            /\ n <= Len(queue[In(e)])
            /\ queue' = [queue EXCEPT ![In(e)] = SubSeq(@, n + 1, Len(@))]
      BY <2>2 DEF Fails
    <3>2. In(e) \in Streams /\ n \in Nat
      BY <1>0, <2>2, Streaming, ChatAssumption DEF Loop
    <3>3. SubSeq(queue[In(e)], n + 1, Len(queue[In(e)])) \in Seq(Part)
      BY <1>0, <3>1, <3>2, RestType DEF TypeOK
    <3> QED BY <1>0, <3>1, <3>2, <3>3 DEF TypeOK
  <2> QED BY <2>1, <2>2 DEF Fails, Signal
<1>4. /\ pc'[Server] \in Loop => pc[Server] \in Loop
      /\ pc'[Server] = "accept" => pc[Server] = "accept" /\ active'[Server] = active[Server]
  BY <1>0, <1>2 DEF Loop, Ends, TypeOK
<1>5. TypeOK'
  <2>1. hit' \in BOOLEAN
    BY <1>0 DEF TypeOK
  <2> QED BY <1>0, <1>1, <1>2, <1>3, <1>4, <2>1 DEF TypeOK, Labels
<1>6. LineInv'
  <2> SUFFICES ASSUME NEW g \in Ends
               PROVE  /\ input'[g] \/ pc'[g] = "stdin" => typed'[g] >= 1
                      /\ typed'[g] <= events'
                      /\ pc'[g] = "leave" => ~ active'[g]
    BY DEF LineInv
  <2>1. typed[g] \in Nat /\ typed'[g] = typed[g] /\ typed[g] <= events
    BY <1>0, ChatAssumption DEF TypedInv, TypeOK, LineInv
  <2>2. typed'[g] <= events'
    BY <1>1, <2>1
  <2>3. input'[g] \/ pc'[g] = "stdin" => typed'[g] >= 1
    BY <1>0, <1>2, <2>1 DEF TypedInv, LineInv
  <2>4. pc'[g] = "leave" => ~ active'[g]
    BY <1>0, <1>2 DEF TypedInv, LineInv
  <2> QED BY <2>2, <2>3, <2>4
<1> QED BY <1>5, <1>6 DEF TypedInv

LEMMA NextTyped == TypedInv /\ [Next]_vars => TypedInv'
<1> SUFFICES ASSUME TypedInv, [Next]_vars PROVE TypedInv'
  OBVIOUS
<1>1. CASE UNCHANGED vars
  BY <1>1 DEF vars, local, tcp, history, TypedInv, TypeOK, LineInv
<1>2. ASSUME NEW e \in Ends, Step(e) PROVE TypedInv'
  BY <1>2, SelectTyped, LeaveTyped, ReadSocketTyped, ReadEndTyped, ReadStdinTyped,
     StopsTyped DEF Step
<1> QED BY <1>1, <1>2, ConnectTyped, AcceptTyped, SelectTyped, SignalTyped DEF Next

LEMMA TypedTheorem == Spec => []TypedInv
BY InitTyped, NextTyped, PTL DEF Spec

\* Every variable keeps its type: among others, the server talks to a client
\* exactly while it is in its loop, what an end decrypts is always a whole
\* buffer, and a line is only sent by an end at which it was typed.
THEOREM TypeCorrect == Spec => []TypeOK
<1>1. TypedInv => TypeOK
  BY DEF TypedInv
<1> QED BY <1>1, TypedTheorem, PTL

-----------------------------------------------------------------------------
(* Who changes what *)

\* A step of the program of an end, or of what happens to it.
EndStep(e) == Step(e) \/ SelectStdin(e) \/ Signal(e) \/ Fails(e)

\* The streams that an end closes are those it writes to.
LEMMA CloseFrame ==
    ASSUME TypeOK, NEW e \in Ends, NEW cs, Close(e, cs)
    PROVE  \A d \in Streams :
             /\ fin[d] => fin'[d]
             /\ rst[d] => rst'[d]
             /\ fin'[d] <=> \/ fin[d]
                            \/ d[1] \in cs /\ d[2] = (IF e = Server THEN "down" ELSE "up")
BY DEF Close

LEMMA DiesFrame ==
    ASSUME TypeOK, NEW e \in Ends, Dies(e)
    PROVE  \A d \in Streams :
             /\ fin[d] => fin'[d]
             /\ rst[d] => rst'[d]
             /\ fin'[d] <=>
                  \/ fin[d]
                  \/ e = Server /\ d[2] = "down" /\ d[1] \in waiting \cup ({conn} \cap Clients)
                  \/ e # Server /\ d[2] = "up" /\ d[1] = e
<1>1. CASE e = Server
  BY <1>1, CloseFrame DEF Dies
<1>2. CASE e # Server
  BY <1>2, CloseFrame DEF Dies
<1> QED BY <1>1, <1>2

LEMMA StopFrame ==
    ASSUME TypeOK, NEW e \in Ends, NEW label \in Labels, Stop(e, label)
    PROVE  \A d \in Streams : (fin[d] => fin'[d]) /\ (rst[d] => rst'[d])
BY DiesFrame, StopType

LEMMA EndFrame ==
    ASSUME TypedInv, NEW e \in Ends, EndStep(e)
    PROVE  /\ \A g \in Ends \ {e} : UNCHANGED <<pc[g], active[g], input[g], buf[g]>>
           /\ e # Server => conn' = conn
           /\ waiting' = waiting
           /\ hit => hit'
           /\ \A d \in Streams : (fin[d] => fin'[d]) /\ (rst[d] => rst'[d])
<1> USE DEF TypedInv
<1>1. CASE SelectSocket(e) \/ SelectStdin(e) \/ ReadSocket(e)
  BY <1>1 DEF SelectSocket, SelectStdin, ReadSocket, Show, Goto, TypeOK, tcp
<1>2. CASE Leave(e)
  <2>1. \E cs : Close(e, cs)
    BY <1>2 DEF Leave
  <2>2. \A d \in Streams : (fin[d] => fin'[d]) /\ (rst[d] => rst'[d])
    BY <2>1, CloseFrame
  <2> QED BY <1>2, <2>2 DEF Leave, Goto, TypeOK, history
<1>3. CASE ReadEnd(e)
  <2>1. /\ UNCHANGED <<conn, input, waiting, hit>>
        /\ \A g \in Ends \ {e} : buf'[g] = buf[g]
    BY <1>3 DEF ReadEnd, Show, TypeOK
  <2>2. CASE Stop(e, IF input[e] THEN "stdin" ELSE "leave")
    <3>1. (IF input[e] THEN "stdin" ELSE "leave") \in Labels
      BY DEF Labels, Loop
    <3>2. /\ \A g \in Ends : g # e => pc'[g] = pc[g] /\ active'[g] = active[g]
          /\ \A d \in Streams : (fin[d] => fin'[d]) /\ (rst[d] => rst'[d])
      BY <2>2, <3>1, StopType, StopFrame, Zenon
    <3> QED BY <2>1, <3>2
  <2>3. CASE Goto(e, AfterSocket(e)) /\ UNCHANGED <<active, fin, rst>>
    BY <2>1, <2>3 DEF Goto, TypeOK
  <2> QED BY <1>3, <2>2, <2>3 DEF ReadEnd
<1>4. CASE ReadStdin(e)
  <2>1. /\ UNCHANGED <<conn, active, waiting, fin, hit>>
        /\ \A g \in Ends \ {e} : UNCHANGED <<pc[g], input[g], buf[g]>>
    BY <1>4 DEF ReadStdin, Goto, TypeOK
  <2>2. \A d \in Streams : rst[d] => rst'[d]
    BY <1>4 DEF ReadStdin, TypeOK
  <2> QED BY <2>1, <2>2
<1>5. CASE WriteFails(e) \/ Fails(e)
  <2>1. Dies(e) /\ UNCHANGED <<conn, active, input, buf, waiting>> /\ (hit => hit')
    <3>1. CASE WriteFails(e)
      BY <3>1 DEF WriteFails, history
    <3>2. CASE Fails(e)
      <4>1. hit => hit'
        BY <3>2 DEF Fails
      <4> QED BY <3>2, <4>1 DEF Fails
    <3> QED BY <1>5, <3>1, <3>2
  <2> QED BY <2>1, DiesType, DiesFrame
<1>6. CASE InputEnd(e)
  <2>1. UNCHANGED <<conn, input, buf, waiting, hit>> /\ Stop(e, "leave") /\ "leave" \in Labels
    BY <1>6 DEF InputEnd, Labels, Loop, history
  <2>2. /\ \A g \in Ends : g # e => pc'[g] = pc[g] /\ active'[g] = active[g]
        /\ \A d \in Streams : (fin[d] => fin'[d]) /\ (rst[d] => rst'[d])
    BY <2>1, StopType, StopFrame, Zenon
  <2> QED BY <2>1, <2>2
<1>7. CASE Signal(e)
  <2>1. /\ UNCHANGED <<conn, input, buf, waiting>> /\ (hit => hit')
        /\ \E label \in Labels : Stop(e, label)
    BY <1>7 DEF Signal, Labels, Loop, TypeOK
  <2>2. /\ \A g \in Ends : g # e => pc'[g] = pc[g] /\ active'[g] = active[g]
        /\ \A d \in Streams : (fin[d] => fin'[d]) /\ (rst[d] => rst'[d])
    BY <2>1, StopType, StopFrame, Zenon
  <2> QED BY <2>1, <2>2
<1> QED BY <1>1, <1>2, <1>3, <1>4, <1>5, <1>6, <1>7 DEF EndStep, Step

-----------------------------------------------------------------------------
(* The server goes on *)

\* The server has encrypted and sent an empty line of its own last.
InputEnded ==
    /\ buf[Server][1].line.from = Server /\ buf[Server][1].line.no > 0
    /\ buf[Server][1].line.parts = 0

ServerInv ==
    /\ pc[Server] \in {"select", "socket"} /\ ~ hit => active[Server]
    /\ pc[Server] = "end" => InputEnded
    /\ pc[Server] = "gone" /\ ~ hit => conn \in Clients /\ (rst[<<conn, "up">>] \/ InputEnded)

LEMMA InitServer == Init => ServerInv
BY DEF Init, ServerInv, Ends

\* The steps of the server itself.
LEMMA ServerStep ==
    ASSUME TypedInv, ServerInv, EndStep(Server)
    PROVE  ServerInv'
<1> USE DEF TypedInv
<1>0. Server \in Ends /\ TypeOK /\ (hit => hit')
  BY EndFrame DEF Ends
<1>c. pc[Server] \in Loop => conn \in Clients /\ <<conn, "up">> \in Streams /\ In(Server) = <<conn, "up">>
  BY <1>0 DEF TypeOK, In, Streams
<1>1. CASE SelectSocket(Server) \/ SelectStdin(Server)
  BY <1>0, <1>1 DEF SelectSocket, SelectStdin, Goto, TypeOK, ServerInv
<1>2. CASE Leave(Server)
  BY <1>0, <1>2 DEF Leave, Goto, TypeOK, ServerInv
<1>3. CASE ReadSocket(Server)
  <2>1. /\ pc[Server] = "socket" /\ pc'[Server] = AfterSocket(Server)
        /\ UNCHANGED <<active, hit>>
    BY <1>0, <1>3 DEF ReadSocket, Goto, TypeOK
  <2> QED BY <1>0, <2>1, AfterSocketType DEF ServerInv
<1>4. CASE ReadEnd(Server)
  <2>1. pc[Server] = "socket" /\ UNCHANGED hit
    BY <1>4 DEF ReadEnd
  <2>2. CASE Stop(Server, IF input[Server] THEN "stdin" ELSE "leave")
    <3>1. CASE ~ active[Server]
      BY <2>1, <2>2, <3>1, DiesType, <1>0 DEF Stop, ServerInv
    <3>2. CASE active[Server]
      <4>1. pc'[Server] \in {"stdin", "leave"}
        BY <1>0, <2>2, <3>2 DEF Stop, Goto, TypeOK
      <4> QED BY <4>1 DEF ServerInv
    <3> QED BY <3>1, <3>2
  <2>3. CASE Goto(Server, AfterSocket(Server)) /\ UNCHANGED <<active, fin, rst>>
    <3>1. pc'[Server] = AfterSocket(Server)
      BY <1>0, <2>3 DEF Goto, TypeOK
    <3> QED BY <1>0, <2>3, <3>1, AfterSocketType DEF ServerInv
  <2> QED BY <1>4, <2>2, <2>3 DEF ReadEnd
<1>5. CASE ReadStdin(Server)
  <2>1. PICK parts \in 0 .. Parts :
          /\ buf' = [buf EXCEPT ![Server] =
                       Block([from |-> Server, no |-> typed[Server], parts |-> parts])]
          /\ Goto(Server, IF parts = 0 THEN "end" ELSE Test(Server))
    BY <1>5 DEF ReadStdin
  <2>2. pc[Server] = "stdin" /\ UNCHANGED <<active, hit>>
    BY <1>5 DEF ReadStdin
  <2>3. CASE parts = 0
    <3> DEFINE l == [from |-> Server, no |-> typed[Server], parts |-> 0]
    <3>1. l \in Line /\ typed[Server] >= 1
      BY <1>0, <2>2, <2>3, LineType
    <3>2. l.from = Server /\ l.no = typed[Server] /\ l.parts = 0
      OBVIOUS
    <3>3. buf'[Server] = Block(l)
      BY <1>0, <2>1, <2>3 DEF TypeOK
    <3> HIDE DEF l
    <3>4. Block(l)[1] = [line |-> l, i |-> 1]
      BY <3>1, BlockType, ChatAssumption
    <3>5. buf'[Server][1].line = l
      BY <3>3, <3>4
    <3>6. typed[Server] > 0
      BY <1>0, <3>1, ChatAssumption DEF TypeOK
    <3>7. InputEnded'
      BY <3>2, <3>5, <3>6 DEF InputEnded
    <3>8. pc'[Server] = "end"
      BY <1>0, <2>1, <2>3 DEF Goto, TypeOK
    <3> QED BY <3>7, <3>8 DEF ServerInv
  <2>4. CASE parts # 0
    <3>1. pc'[Server] = IF active[Server] THEN "select" ELSE "leave"
      BY <1>0, <2>1, <2>4 DEF Goto, TypeOK, Test
    <3> QED BY <2>2, <3>1 DEF ServerInv
  <2> QED BY <2>3, <2>4
<1>6. CASE WriteFails(Server)
  <2>1. /\ pc[Server] = "stdin" /\ pc'[Server] = "gone" /\ conn' = conn
        /\ rst[In(Server)]
    BY <1>0, <1>6, DiesType DEF WriteFails
  <2>2. conn \in Clients /\ rst'[<<conn, "up">>]
    BY <1>0, <1>6, <1>c, <2>1, EndFrame DEF Loop, EndStep, Step
  <2> QED BY <2>1, <2>2 DEF ServerInv
<1>7. CASE InputEnd(Server)
  <2>1. /\ pc[Server] = "end" /\ UNCHANGED <<conn, buf, hit>> /\ Stop(Server, "leave")
        /\ conn \in Clients
    BY <1>7, <1>c DEF InputEnd, history, Loop
  <2>2. "leave" \in Labels
    BY DEF Labels, Loop
  <2>3. pc'[Server] \in {"gone", "leave"}
    BY <1>0, <2>1, <2>2, StopType, Zenon
  <2> QED BY <2>1, <2>3 DEF ServerInv, InputEnded
<1>8. CASE Signal(Server) \/ Fails(Server)
  <2>1. hit' /\ pc'[Server] \in {pc[Server], "leave", "gone"} /\ buf' = buf
    <3>1. CASE Fails(Server)
      BY <1>0, <3>1, DiesType DEF Fails
    <3>2. CASE Signal(Server)
      <4>1. \E label \in {pc[Server], "leave"} : label \in Labels /\ Stop(Server, label)
        BY <1>0, <3>2 DEF Signal, TypeOK, Labels, Loop
      <4>2. pc'[Server] \in {pc[Server], "leave", "gone"}
        BY <1>0, <4>1, StopType, Zenon
      <4> QED BY <3>2, <4>2 DEF Signal
    <3> QED BY <1>8, <3>1, <3>2
  <2> QED BY <2>1 DEF ServerInv, InputEnded
<1> QED BY <1>1, <1>2, <1>3, <1>4, <1>5, <1>6, <1>7, <1>8 DEF EndStep, Step

LEMMA NextServer == TypedInv /\ ServerInv /\ [Next]_vars => ServerInv'
<1> SUFFICES ASSUME TypedInv, ServerInv, [Next]_vars PROVE ServerInv'
  OBVIOUS
<1>1. CASE UNCHANGED vars
  BY <1>1 DEF vars, local, tcp, history, ServerInv, InputEnded
<1>2. ASSUME NEW c \in Clients, Connect(c) PROVE ServerInv'
  <2>1. c # Server /\ Server \in Ends
    BY ChatAssumption DEF Ends
  <2> QED BY <1>2, <2>1 DEF Connect, tcp, history, Goto, TypedInv, TypeOK, ServerInv, InputEnded
<1>3. CASE Accept
  BY <1>3 DEF Accept, tcp, history, Goto, TypedInv, TypeOK, ServerInv, Ends
<1>4. ASSUME NEW e \in Ends \ {Server}, EndStep(e) PROVE ServerInv'
  <2>1. UNCHANGED <<pc[Server], active[Server], buf[Server], conn>> /\ (hit => hit')
    BY <1>4, EndFrame DEF Ends
  <2>2. conn \in Clients /\ rst[<<conn, "up">>] => rst'[<<conn, "up">>]
    BY <1>4, EndFrame DEF Streams
  <2> QED BY <2>1, <2>2 DEF ServerInv, InputEnded
<1> QED BY <1>1, <1>2, <1>3, <1>4, ServerStep DEF Next, EndStep

\* Whatever the clients do, and however they fail, a server that nobody
\* interrupts and whose own calls succeed only ends by the end of its input or
\* by writing to a connection that was reset.
THEOREM ServerSurvivesTheorem == Spec => []ServerSurvives
<1>1. Spec => [](TypedInv /\ ServerInv)
  BY InitTyped, NextTyped, InitServer, NextServer, PTL DEF Spec
<1>2. ServerInv => ServerSurvives
  BY DEF ServerInv, InputEnded, ServerSurvives
<1> QED BY <1>1, <1>2, PTL

-----------------------------------------------------------------------------
(* Connections *)

\* The stream that goes the other way.
Opp(d) == <<d[1], IF d[2] = "up" THEN "down" ELSE "up">>

\* A client that the server has not accepted yet.
Fresh(c) == pc[c] = "new" \/ c \in waiting

\* An end in its loop has not closed its connection, waits for a read only when
\* there is something, and stops once it is told that its peer has left.
Talks(e) ==
    /\ ~ fin[Out(e)]
    /\ pc[e] = "socket" => Readable(In(e))
    /\ eof[In(e)] /\ ~ rst[In(e)] => ~ active[e] /\ pc[e] \notin {"select", "socket"}

FreshInv ==
    /\ conn \notin waiting /\ (conn \in Clients => pc[conn] # "new")
    /\ \A c \in waiting : pc[c] # "new"
    /\ \A c \in Clients : pc[c] = "new" => ~ fin[<<c, "up">>] /\ ~ eof[<<c, "down">>]
    /\ \A c \in Clients : Fresh(c) => ~ eof[<<c, "up">>]
    /\ pc[Server] # "gone" => \A c \in Clients : Fresh(c) => ~ fin[<<c, "down">>]

ConnInv == FreshInv /\ \A e \in Ends : pc[e] \in Loop => Talks(e)

LEMMA InitConn == Init => ConnInv
<1> SUFFICES ASSUME Init PROVE ConnInv
  OBVIOUS
<1>1. \A c \in Clients : <<c, "up">> \in Streams /\ <<c, "down">> \in Streams
  BY DEF Streams
<1>2. \A e \in Ends : pc[e] \notin Loop
  BY DEF Init, Loop
<1>3. FreshInv
  BY <1>1, ChatAssumption DEF Init, FreshInv, Fresh
<1> QED BY <1>2, <1>3 DEF ConnInv

\* Each stream has one writer and one reader.
LEMMA StreamEnds ==
    ASSUME TypeOK, NEW e \in Ends, pc[e] \in Loop
    PROVE  /\ In(e) \in Streams /\ Out(e) \in Streams
           /\ Out(e) = Opp(In(e)) /\ In(e) = Opp(Out(e))
           /\ In(e)[2] = (IF e = Server THEN "up" ELSE "down")
           /\ Out(e)[2] = (IF e = Server THEN "down" ELSE "up")
           /\ e # Server => In(e)[1] = e /\ Out(e)[1] = e
           /\ e = Server => conn \in Clients /\ In(e)[1] = conn /\ Out(e)[1] = conn
BY Streaming, ChatAssumption DEF TypeOK, In, Out, Opp, Ends

LEMMA OneReader ==
    ASSUME TypeOK, NEW e \in Ends, NEW g \in Ends, e # g, pc[e] \in Loop, pc[g] \in Loop
    PROVE  In(e) # In(g) /\ Out(e) # Out(g) /\ In(e) # Out(e) /\ In(g) # Out(g)
BY DEF In, Out

\* The steps that leave what is sent and read alone.
LEMMA QuietStep ==
    ASSUME TypedInv, NEW e \in Ends, EndStep(e)
    PROVE  \/ ReadSocket(e) \/ ReadEnd(e) \/ ReadStdin(e)
           \/ Fails(e) /\ UNCHANGED <<sent, shown, whole, eof>>
           \/ UNCHANGED <<queue, sent, shown, whole, eof>>
<1>1. CASE SelectSocket(e) \/ SelectStdin(e) \/ Leave(e) \/ WriteFails(e) \/ InputEnd(e) \/ Signal(e)
  BY <1>1 DEF SelectSocket, SelectStdin, Leave, WriteFails, InputEnd, Signal, tcp, history
<1>2. CASE Fails(e)
  BY <1>2 DEF Fails
<1> QED BY <1>1, <1>2 DEF EndStep, Step

\* An end closes the streams it writes, and then it is not in its loop.
LEMMA FinStep ==
    ASSUME TypedInv, NEW e \in Ends, EndStep(e)
    PROVE  \/ fin' = fin
           \/ /\ pc[e] \notin {"new", "gone"} /\ pc'[e] \in {"gone", "accept"}
              /\ \A d \in Streams : fin'[d] => fin[d] \/ d[2] = (IF e = Server THEN "down" ELSE "up")
              /\ e # Server => /\ \A d \in Streams : fin'[d] => fin[d] \/ d[1] = e
                               /\ fin'[<<e, "up">>]
              /\ e = Server => /\ pc'[e] = "accept" =>
                                    \A d \in Streams : fin'[d] => fin[d] \/ d[1] = conn
                               /\ conn \in Clients => fin'[<<conn, "down">>]
<1> USE DEF TypedInv
<1>0. TypeOK /\ \A c \in Clients : <<c, "up">> \in Streams /\ <<c, "down">> \in Streams
  BY DEF Streams
<1>1. CASE Dies(e) /\ pc[e] \notin {"new", "gone"}
  BY <1>0, <1>1, DiesType, DiesFrame DEF Ends
<1>2. CASE Leave(e)
  <2>1. pc[e] = "leave"
    BY <1>2 DEF Leave
  <2>2. CASE e = Server
    <3>1. Close(e, {conn}) /\ pc'[e] = "accept"
      BY <1>0, <1>2, <2>2 DEF Leave, Goto, TypeOK
    <3>2. \A d \in Streams : fin'[d] <=> fin[d] \/ (d[1] = conn /\ d[2] = "down")
      BY <1>0, <2>2, <3>1, CloseFrame
    <3>3. conn \in Clients => fin'[<<conn, "down">>]
      BY <1>0, <3>2
    <3> QED BY <2>1, <2>2, <3>1, <3>2, <3>3
  <2>3. CASE e # Server
    <3>1. Close(e, {e}) /\ pc'[e] = "gone" /\ e \in Clients
      BY <1>0, <1>2, <2>3 DEF Leave, Goto, TypeOK, Ends
    <3>2. \A d \in Streams : fin'[d] <=> fin[d] \/ (d[1] = e /\ d[2] = "up")
      BY <1>0, <2>3, <3>1, CloseFrame
    <3>3. fin'[<<e, "up">>]
      BY <1>0, <3>1, <3>2
    <3> QED BY <2>1, <2>3, <3>1, <3>2, <3>3
  <2> QED BY <2>2, <2>3
<1>3. CASE SelectSocket(e) \/ SelectStdin(e) \/ ReadSocket(e) \/ ReadStdin(e)
  BY <1>3 DEF SelectSocket, SelectStdin, ReadSocket, ReadStdin, tcp
<1>4. CASE WriteFails(e) \/ Fails(e)
  BY <1>1, <1>4 DEF WriteFails, Fails
<1>5. ASSUME NEW label, Stop(e, label), pc[e] \notin {"new", "gone"}
      PROVE  fin' = fin \/ (Dies(e) /\ pc[e] \notin {"new", "gone"})
  BY <1>5 DEF Stop
<1>6. CASE ReadEnd(e) \/ InputEnd(e) \/ Signal(e)
  <2>1. pc[e] \notin {"new", "gone"} /\ (fin' = fin \/ \E label : Stop(e, label))
    BY <1>6 DEF ReadEnd, InputEnd, Signal
  <2> QED BY <1>1, <1>5, <2>1
<1> QED BY <1>2, <1>3, <1>4, <1>6 DEF EndStep, Step


\* Only a read at an end tells it that its peer has left.
LEMMA EofStep ==
    ASSUME TypedInv, NEW e \in Ends, EndStep(e)
    PROVE  \A d \in Streams : eof'[d] => eof[d] \/ (pc[e] \in Loop /\ d = In(e))
<1>1. CASE ReadSocket(e) \/ ReadStdin(e)
  BY <1>1 DEF ReadSocket, ReadStdin
<1>2. CASE ReadEnd(e)
  <2>1. pc[e] \in Loop /\ eof' = [eof EXCEPT ![In(e)] = TRUE] /\ eof \in [Streams -> BOOLEAN]
    BY <1>2 DEF ReadEnd, TypedInv, TypeOK, Loop
  <2> QED BY ONLY <2>1
<1> QED BY <1>1, <1>2, QuietStep

\* Where an end can go.
LEMMA PlaceStep ==
    ASSUME TypedInv, NEW e \in Ends, EndStep(e)
    PROVE  /\ pc[e] \in Loop \/ (pc[e] = "accept" /\ pc'[e] \in {"accept", "gone"})
           /\ pc'[e] # "new"
           /\ conn' = conn \/ (pc'[e] = "accept" /\ conn' = Server)
<1> USE DEF TypedInv
<1>1. CASE SelectSocket(e) \/ SelectStdin(e) \/ ReadSocket(e) \/ ReadStdin(e)
  <2>1. pc[e] \in Loop /\ conn' = conn
    BY <1>1 DEF SelectSocket, SelectStdin, ReadSocket, ReadStdin, Loop
  <2>2. \E label \in Loop : Goto(e, label)
    BY <1>1, AfterSocketType DEF SelectSocket, SelectStdin, ReadSocket, ReadStdin, Test, Loop
  <2> QED BY <2>1, <2>2 DEF Goto, TypeOK, Loop
<1>2. CASE Leave(e)
  BY <1>2 DEF Leave, Goto, TypeOK, Loop
<1>3. CASE ReadEnd(e)
  <2>1. pc[e] \in Loop /\ conn' = conn
    BY <1>3 DEF ReadEnd, Loop
  <2>2. CASE Stop(e, IF input[e] THEN "stdin" ELSE "leave")
    <3>1. (IF input[e] THEN "stdin" ELSE "leave") \in {"stdin", "leave"} /\ {"stdin", "leave"} \subseteq Labels
      BY DEF Labels, Loop
    <3>2. pc'[e] \in {"stdin", "leave", "gone"}
      BY <2>2, <3>1, StopType, Zenon
    <3> QED BY <2>1, <3>2
  <2>3. CASE Goto(e, AfterSocket(e))
    BY <2>1, <2>3, AfterSocketType DEF Goto, TypeOK, Loop
  <2> QED BY <1>3, <2>2, <2>3 DEF ReadEnd
<1>4. CASE WriteFails(e) \/ Fails(e)
  <2>1. pc[e] \notin {"new", "gone"} /\ conn' = conn /\ Dies(e)
    BY <1>4 DEF WriteFails, Fails
  <2>2. pc'[e] = "gone"
    BY <2>1, DiesType
  <2> QED BY <2>1, <2>2 DEF TypeOK, Loop
<1>5. CASE InputEnd(e) \/ Signal(e)
  <2>1. pc[e] \notin {"new", "gone"} /\ conn' = conn
    BY <1>5 DEF InputEnd, Signal
  <2>2. \E label \in {pc[e], "leave"} :
          label \in Labels /\ Stop(e, label) /\ (label = "leave" => pc[e] \in Loop)
    <3>1. CASE InputEnd(e)
      BY <3>1 DEF InputEnd, Labels, Loop
    <3>2. CASE Signal(e)
      <4>1. \E label \in {pc[e]} \cup (IF pc[e] = "select" THEN {"leave"} ELSE {}) : Stop(e, label)
        BY <3>2 DEF Signal
      <4>2. (pc[e] \in Labels /\ pc[e] # "leave") \/ pc[e] = "leave"
        BY DEF TypeOK, Labels
      <4> QED BY <4>1, <4>2 DEF Labels, Loop
    <3> QED BY <1>5, <3>1, <3>2
  <2>3. PICK label \in {pc[e], "leave"} :
          label \in Labels /\ Stop(e, label) /\ (label = "leave" => pc[e] \in Loop)
    BY <2>2
  <2>4. pc'[e] \in {label, "gone"}
    BY <2>3, StopType, Zenon
  <2> QED BY <2>1, <2>3, <2>4 DEF TypeOK, Loop
<1> QED BY <1>1, <1>2, <1>3, <1>4, <1>5 DEF EndStep, Step

LEMMA FreshStep ==
    ASSUME TypedInv, ConnInv, NEW e \in Ends, EndStep(e)
    PROVE  FreshInv'
<1>0. /\ TypeOK /\ FreshInv /\ \A c \in Clients : <<c, "up">> \in Streams /\ <<c, "down">> \in Streams
      /\ \A c \in Clients : c \in Ends /\ c # Server
  BY ChatAssumption DEF Streams, ConnInv, Ends, TypedInv
<1>1. /\ \A g \in Ends : g # e => pc'[g] = pc[g]
      /\ waiting' = waiting /\ (e # Server => conn' = conn)
  BY EndFrame
<1>2. /\ pc[e] # "new" /\ pc[e] # "gone" /\ pc'[e] # "new" /\ conn' \in {conn, Server}
  BY PlaceStep DEF Loop
<1>3. \A c \in Clients : (pc'[c] = "new" <=> pc[c] = "new") /\ (Fresh(c)' <=> Fresh(c))
  BY <1>0, <1>1, <1>2 DEF Fresh
<1>4. \A c \in Clients : Fresh(c) => c # conn
  BY <1>0 DEF Fresh, FreshInv
<1>5. \A c \in Clients : pc[c] = "new" => ~ fin'[<<c, "up">>]
  <2>1. ASSUME NEW c \in Clients, pc[c] = "new" PROVE ~ fin'[<<c, "up">>]
    <3>1. ~ fin[<<c, "up">>] /\ c # e /\ <<c, "up">> \in Streams
      BY <1>0, <1>2, <2>1 DEF FreshInv
    <3> QED BY <3>1, FinStep
  <2> QED BY <2>1
<1>6. \A c \in Clients : pc[c] = "new" => ~ eof'[<<c, "down">>]
  <2>1. ASSUME NEW c \in Clients, pc[c] = "new" PROVE ~ eof'[<<c, "down">>]
    <3>1. ~ eof[<<c, "down">>] /\ c # e /\ <<c, "down">> \in Streams
      BY <1>0, <1>2, <2>1 DEF FreshInv
    <3>2. In(e) # <<c, "down">>
      BY <3>1 DEF In
    <3> QED BY <3>1, <3>2, EofStep
  <2> QED BY <2>1
<1>7. \A c \in Clients : Fresh(c) => ~ eof'[<<c, "up">>]
  <2>1. ASSUME NEW c \in Clients, Fresh(c) PROVE ~ eof'[<<c, "up">>]
    <3>1. ~ eof[<<c, "up">>] /\ c # conn /\ <<c, "up">> \in Streams
      BY <1>0, <1>4, <2>1 DEF FreshInv
    <3>2. In(e) # <<c, "up">>
      BY <3>1 DEF In
    <3> QED BY <3>1, <3>2, EofStep
  <2> QED BY <2>1
<1>8. pc'[Server] # "gone" => \A c \in Clients : Fresh(c) => ~ fin'[<<c, "down">>]
  <2>1. ASSUME pc'[Server] # "gone", NEW c \in Clients, Fresh(c) PROVE ~ fin'[<<c, "down">>]
    <3>1. pc[Server] # "gone"
      BY <1>1, <1>2, <2>1 DEF Ends
    <3>2. ~ fin[<<c, "down">>] /\ c # conn /\ <<c, "down">> \in Streams
      BY <1>0, <1>4, <2>1, <3>1 DEF FreshInv
    <3> QED BY <2>1, <3>2, FinStep
  <2> QED BY <2>1
<1>9. conn' \notin waiting' /\ (conn' \in Clients => pc'[conn'] # "new")
  BY <1>0, <1>1, <1>2, <1>3 DEF FreshInv, TypeOK
<1>10. \A c \in waiting' : pc'[c] # "new"
  BY <1>0, <1>1, <1>3 DEF FreshInv, TypeOK
<1> QED BY <1>3, <1>5, <1>6, <1>7, <1>8, <1>9, <1>10 DEF FreshInv

\* A queue only shrinks when its reader reads, or dies reading.
LEMMA QueueStep ==
    ASSUME TypedInv, NEW e \in Ends, EndStep(e), NEW d \in Streams,
           pc[e] \in Loop => d # In(e)
    PROVE  queue[d] # <<>> => queue'[d] # <<>>
<1> USE DEF TypedInv
<1>1. CASE ReadSocket(e)
  <2>1. pc[e] \in Loop /\ \E n \in 1 .. Parts : queue' = [queue EXCEPT ![In(e)] = SubSeq(@, n + 1, Len(@))]
    BY <1>1 DEF ReadSocket, Loop
  <2> QED BY <2>1 DEF TypeOK
<1>2. CASE ReadStdin(e)
  <2>1. PICK parts \in 0 .. Parts :
          \/ queue' = queue
          \/ queue' = [queue EXCEPT ![Out(e)] = @ \o Sent([from |-> e, no |-> typed[e], parts |-> parts])]
    BY <1>2 DEF ReadStdin
  <2> DEFINE b == Sent([from |-> e, no |-> typed[e], parts |-> parts])
  <2>2. b \in Seq(Part)
    BY <1>2, LineType, BlockType DEF Sent, ReadStdin
  <2>3. queue[d] \in Seq(Part)
    BY DEF TypeOK
  <2> HIDE DEF b
  <2>4. queue[d] # <<>> => queue[d] \o b # <<>>
    BY ONLY <2>2, <2>3
  <2>5. queue'[d] = queue[d] \/ queue'[d] = queue[d] \o b
    BY <2>1 DEF TypeOK, b
  <2> QED BY <2>4, <2>5
<1>3. CASE Fails(e)
  <2>1. CASE pc[e] = "socket"
    <3>1. pc[e] \in Loop /\ \E n \in 0 .. Parts : queue' = [queue EXCEPT ![In(e)] = SubSeq(@, n + 1, Len(@))]
      BY <1>3, <2>1 DEF Fails, Loop
    <3> QED BY <3>1 DEF TypeOK
  <2>2. CASE pc[e] # "socket"
    BY <1>3, <2>2 DEF Fails
  <2> QED BY <2>1, <2>2
<1>4. CASE ReadEnd(e)
  BY <1>4 DEF ReadEnd
<1> QED BY <1>1, <1>2, <1>3, <1>4, QuietStep

LEMMA OthersTalk ==
    ASSUME TypedInv, ConnInv, NEW e \in Ends, EndStep(e),
           NEW g \in Ends, g # e, pc'[g] \in Loop
    PROVE  Talks(g)'
<1> USE DEF TypedInv
<1>1. pc'[g] = pc[g] /\ pc[g] \in Loop /\ active'[g] = active[g] /\ Talks(g)
  BY EndFrame DEF ConnInv
<1>2. /\ In(g)' = In(g) /\ Out(g)' = Out(g) /\ In(g) \in Streams /\ Out(g) \in Streams
  <2>1. g = Server => conn' = conn
    BY EndFrame
  <2>2. In(g)' = In(g) /\ Out(g)' = Out(g)
    BY <2>1 DEF In, Out
  <2> QED BY <1>1, <2>2, Streaming
<1>3. ~ fin'[Out(g)]
  <2>1. /\ ~ fin[Out(g)]
        /\ Out(g)[2] = (IF g = Server THEN "down" ELSE "up") /\ (g # Server => Out(g)[1] = g)
    BY <1>1, StreamEnds DEF Talks
  <2> QED BY <1>2, <2>1, FinStep
<1>4. pc[e] \in Loop => In(g) # In(e)
  BY <1>1, OneReader
<1>5. /\ queue[In(g)] # <<>> => queue'[In(g)] # <<>>
      /\ fin[In(g)] => fin'[In(g)]
      /\ rst[In(g)] => rst'[In(g)]
  BY <1>2, <1>4, QueueStep, EndFrame
<1>6. Readable(In(g)) => (queue'[In(g)] # <<>> \/ fin'[In(g)] \/ rst'[In(g)])
  BY <1>5 DEF Readable
<1>7. eof'[In(g)] => eof[In(g)]
  BY <1>2, <1>4, EofStep
<1> QED BY <1>1, <1>2, <1>3, <1>5, <1>6, <1>7 DEF Talks, Readable

LEMMA OwnTalk ==
    ASSUME TypedInv, ConnInv, NEW e \in Ends, EndStep(e), pc'[e] \in Loop
    PROVE  Talks(e)'
<1> USE DEF TypedInv
<1>1. pc[e] \in Loop /\ conn' = conn /\ fin' = fin /\ Talks(e)
  BY PlaceStep, FinStep DEF Loop, ConnInv
<1>2. In(e)' = In(e) /\ Out(e)' = Out(e) /\ In(e) \in Streams /\ Out(e) \in Streams
  BY <1>1, Streaming DEF In, Out
<1>3. rst[In(e)] => rst'[In(e)]
  BY <1>2, EndFrame
<1> SUFFICES /\ pc'[e] = "socket" => (queue'[In(e)] # <<>> \/ fin'[In(e)] \/ rst'[In(e)])
             /\ eof'[In(e)] /\ ~ rst'[In(e)] => ~ active'[e] /\ pc'[e] \notin {"select", "socket"}
  BY <1>1, <1>2 DEF Talks, Readable
<1>4. CASE SelectSocket(e)
  BY <1>1, <1>4 DEF SelectSocket, Goto, TypeOK, Talks, Readable, tcp
<1>5. CASE SelectStdin(e)
  BY <1>1, <1>5 DEF SelectStdin, Goto, TypeOK, Talks, tcp
<1>6. CASE Leave(e) \/ WriteFails(e) \/ Fails(e)
  <2>1. pc'[e] \in {"accept", "gone"}
    BY <1>6, DiesType DEF Leave, WriteFails, Fails, Goto, TypeOK
  <2> QED BY <2>1 DEF Loop
<1>7. CASE ReadSocket(e)
  <2>1. pc[e] = "socket" /\ pc'[e] = AfterSocket(e) /\ eof' = eof
    BY <1>7 DEF ReadSocket, Goto, TypeOK
  <2> QED BY <1>1, <1>3, <2>1, AfterSocketType DEF Talks
<1>8. CASE ReadEnd(e)
  <2>1. CASE Stop(e, IF input[e] THEN "stdin" ELSE "leave")
    <3>1. (IF input[e] THEN "stdin" ELSE "leave") \in {"stdin", "leave"} /\ {"stdin", "leave"} \subseteq Labels
      BY DEF Labels, Loop
    <3>2. pc'[e] \in {"stdin", "leave", "gone"} /\ ~ active'[e]
      BY <2>1, <3>1, StopType, Zenon
    <3> QED BY <3>2
  <2>2. CASE rst[In(e)] /\ Goto(e, AfterSocket(e))
    <3>1. pc'[e] = AfterSocket(e)
      BY <2>2 DEF Goto, TypeOK
    <3> QED BY <1>3, <2>2, <3>1, AfterSocketType
  <2> QED BY <1>8, <2>1, <2>2 DEF ReadEnd
<1>9. CASE ReadStdin(e)
  <2>1. pc'[e] \in {"end", Test(e)} /\ UNCHANGED <<eof, active>>
    BY <1>9 DEF ReadStdin, Goto, TypeOK
  <2> QED BY <1>1, <1>3, <2>1 DEF Test, Talks
<1>10. CASE InputEnd(e)
  <2>1. Stop(e, "leave") /\ "leave" \in Labels
    BY <1>10 DEF InputEnd, Labels, Loop
  <2>2. pc'[e] \in {"leave", "gone"} /\ ~ active'[e]
    BY <2>1, StopType, Zenon
  <2> QED BY <2>2
<1>11. CASE Signal(e)
  <2>1. PICK label \in {pc[e], "leave"} : label \in Labels /\ Stop(e, label)
    BY <1>11 DEF Signal, Labels, Loop, TypeOK
  <2>2. pc'[e] \in {pc[e], "leave", "gone"} /\ ~ active'[e]
    BY <2>1, StopType, Zenon
  <2>3. UNCHANGED <<queue, eof>>
    BY <1>11 DEF Signal
  <2> QED BY <1>1, <1>3, <2>2, <2>3 DEF Talks, Readable
<1> QED BY <1>4, <1>5, <1>6, <1>7, <1>8, <1>9, <1>10, <1>11 DEF EndStep, Step

LEMMA ConnectConn == ASSUME TypedInv, ConnInv, NEW c \in Clients, Connect(c) PROVE ConnInv'
<1> USE DEF TypedInv
<1>0. /\ TypeOK /\ FreshInv /\ c \in Ends /\ c # Server /\ pc[c] = "new"
      /\ UNCHANGED <<conn, tcp, eof>>
  BY ChatAssumption DEF ConnInv, Ends, Connect, history
<1>1. /\ \A g \in Ends : g # c => pc'[g] = pc[g] /\ active'[g] = active[g]
      /\ pc'[c] \in {"gone", "select"} /\ waiting' \subseteq waiting \cup {c}
      /\ pc'[Server] = pc[Server]
  BY <1>0 DEF Connect, Goto, TypeOK, Ends
<1>2. FreshInv'
  <2>1. \A g \in Clients : Fresh(g)' => Fresh(g)
    BY <1>0, <1>1 DEF Fresh, Ends
  <2>2. \A g \in Clients : pc'[g] = "new" => pc[g] = "new"
    BY <1>1 DEF Ends
  <2>3. conn \notin waiting' /\ (conn \in Clients => pc'[conn] # "new") /\ \A g \in waiting' : pc'[g] # "new"
    BY <1>0, <1>1, <2>2 DEF FreshInv, TypeOK
  <2> QED BY <1>0, <1>1, <2>1, <2>2, <2>3 DEF FreshInv, tcp
<1>3. ASSUME NEW g \in Ends, pc'[g] \in Loop PROVE Talks(g)'
  <2>1. In(g)' = In(g) /\ Out(g)' = Out(g)
    BY <1>0 DEF In, Out
  <2>2. CASE g # c
    <3>1. Talks(g)
      BY <1>1, <1>3, <2>2 DEF ConnInv
    <3> QED BY <1>0, <1>1, <2>1, <2>2, <3>1 DEF Talks, Readable, tcp
  <2>3. CASE g = c
    <3>1. In(g) = <<c, "down">> /\ Out(g) = <<c, "up">> /\ ~ fin[<<c, "up">>] /\ ~ eof[<<c, "down">>]
      BY <1>0, <2>3 DEF In, Out, FreshInv
    <3> QED BY <1>0, <1>1, <2>1, <2>3, <3>1 DEF Talks, tcp
  <2> QED BY <2>2, <2>3
<1> QED BY <1>2, <1>3 DEF ConnInv

LEMMA AcceptConn == ASSUME TypedInv, ConnInv, Accept PROVE ConnInv'
<1> USE DEF TypedInv
<1>0. /\ TypeOK /\ FreshInv /\ Server \in Ends /\ pc[Server] = "accept"
      /\ UNCHANGED <<tcp, eof>>
  BY DEF ConnInv, Ends, Accept, history
<1>1. PICK c \in waiting : conn' = c /\ waiting' = waiting \ {c}
  BY DEF Accept
<1>2. /\ \A g \in Ends : g # Server => pc'[g] = pc[g] /\ active'[g] = active[g]
      /\ pc'[Server] = "select" /\ c \in Clients /\ \A g \in Clients : g \in Ends /\ g # Server
  BY <1>0, ChatAssumption DEF Accept, Goto, TypeOK, Ends
<1>3. FreshInv'
  <2>1. \A g \in Clients : (Fresh(g)' => Fresh(g)) /\ pc'[g] = pc[g]
    BY <1>1, <1>2 DEF Fresh
  <2>2. conn' \notin waiting' /\ pc'[conn'] # "new" /\ \A g \in waiting' : pc'[g] # "new"
    BY <1>0, <1>1, <1>2, <2>1 DEF FreshInv, TypeOK
  <2> QED BY <1>0, <2>1, <2>2 DEF FreshInv, tcp
<1>4. ASSUME NEW g \in Ends, pc'[g] \in Loop PROVE Talks(g)'
  <2>1. CASE g # Server
    <3>1. In(g)' = In(g) /\ Out(g)' = Out(g) /\ Talks(g)
      BY <1>2, <1>4, <2>1 DEF In, Out, ConnInv
    <3> QED BY <1>0, <1>2, <2>1, <3>1 DEF Talks, Readable, tcp
  <2>2. CASE g = Server
    <3>1. In(g)' = <<c, "up">> /\ Out(g)' = <<c, "down">>
      BY <1>1, <2>2 DEF In, Out
    <3>2. ~ fin[<<c, "down">>] /\ ~ eof[<<c, "up">>]
      BY <1>0, <1>1, <1>2 DEF FreshInv, Fresh
    <3> QED BY <1>0, <1>2, <2>2, <3>1, <3>2 DEF Talks, tcp
  <2> QED BY <2>1, <2>2
<1> QED BY <1>3, <1>4 DEF ConnInv

LEMMA NextConn == TypedInv /\ ConnInv /\ [Next]_vars => ConnInv'
<1> SUFFICES ASSUME TypedInv, ConnInv, [Next]_vars PROVE ConnInv'
  OBVIOUS
<1>1. CASE UNCHANGED vars
  BY <1>1 DEF vars, local, tcp, history, ConnInv, FreshInv, Fresh, Talks, In, Out, Readable
<1>2. ASSUME NEW e \in Ends, EndStep(e) PROVE ConnInv'
  <2>1. \A g \in Ends : pc'[g] \in Loop => Talks(g)'
    BY <1>2, OwnTalk, OthersTalk
  <2> QED BY <1>2, <2>1, FreshStep DEF ConnInv
<1> QED BY <1>1, <1>2, ConnectConn, AcceptConn DEF Next, EndStep

-----------------------------------------------------------------------------
(* What is shown *)

\* The blocks of a sequence of lines, one after the other: the first k of them.
Off(k) == k * Parts

\* A queue holds the blocks of the lines after the first n, and nothing else.
Blocks(q, lines, n) ==
    /\ Len(q) = Off(Len(lines) - n)
    /\ \A k \in 0 .. Len(lines) - n - 1, i \in 1 .. Parts :
         q[Off(k) + i] = [line |-> lines[n + k + 1], i |-> i]

\* The lines of the other end that have been shown.
Shown(d) == IF eof[d] THEN Len(shown[d]) - 1 ELSE Len(shown[d])

\* What is shown of a stream is the beginning of what was sent; as long as its
\* reader has not closed the connection, the rest is on its way; and the reader
\* is told of the end after the last line.
Flow(d) ==
    whole[d] /\ ~ rst[d] =>
        /\ Shown(d) \in 0 .. Len(sent[d])
        /\ \A k \in 1 .. Shown(d) : shown[d][k] = sent[d][k]
        /\ eof[d] => fin[d] /\ Shown(d) = Len(sent[d])
        /\ ~ fin[Opp(d)] => Blocks(queue[d], sent[d], Shown(d))

StreamInv == \A d \in Streams : Flow(d)

LEMMA OffFacts ==
    /\ \A k \in Nat : Off(k) \in Nat /\ Off(k + 1) = Off(k) + Parts
    /\ \A k \in Nat : Off(k) = 0 <=> k = 0
<1>1. Parts \in Nat /\ Parts > 0
  BY ChatAssumption
<1>2. ASSUME NEW k \in Nat PROVE Off(k) \in Nat /\ Off(k + 1) = Off(k) + Parts
  BY <1>1 DEF Off
<1>3. ASSUME NEW k \in Nat PROVE Off(k) = 0 <=> k = 0
  BY <1>1 DEF Off
<1> QED BY <1>2, <1>3

\* The blocks before a line end where its own begins.
LEMMA OffGrows ==
    ASSUME NEW k \in Nat, NEW m \in Nat, k < m
    PROVE  Off(k) \in Nat /\ Off(m) \in Nat /\ Off(k) + Parts <= Off(m)
<1>1. Parts \in Nat /\ Parts > 0
  BY ChatAssumption
<1>2. PICK j \in Nat : m = k + 1 + j
  <2>1. m - k - 1 \in Nat /\ m = k + 1 + (m - k - 1)
    OBVIOUS
  <2> QED BY <2>1
<1>3. Off(m) = Off(k) + Parts + Off(j)
  BY <1>1, <1>2 DEF Off
<1>4. Off(j) \in Nat /\ Off(k) \in Nat /\ Off(m) \in Nat
  BY OffFacts
<1> QED BY ONLY <1>1, <1>3, <1>4

LEMMA EmptyQueue ==
    ASSUME NEW lines \in Seq(Line), NEW n \in 0 .. Len(lines), Blocks(<<>>, lines, n)
    PROVE  n = Len(lines)
<1>1. Len(lines) - n \in Nat /\ Off(Len(lines) - n) = 0
  BY DEF Blocks
<1> QED BY <1>1, OffFacts

LEMMA ReadBlock ==
    ASSUME NEW lines \in Seq(Line), NEW n \in 0 .. Len(lines), NEW q \in Seq(Part),
           Blocks(q, lines, n), Parts <= Len(q)
    PROVE  /\ n + 1 \in 0 .. Len(lines)
           /\ \A i \in 1 .. Parts : q[i] = [line |-> lines[n + 1], i |-> i]
           /\ Blocks(SubSeq(q, Parts + 1, Len(q)), lines, n + 1)
<1> DEFINE m == Len(lines) - n
           r == SubSeq(q, Parts + 1, Len(q))
<1>1. Parts \in Nat /\ Parts > 0 /\ m \in Nat /\ Len(q) = Off(m) /\ Len(lines) \in Nat
  BY ChatAssumption DEF Blocks
<1>2. m # 0
  <2>1. Off(m) # 0
    BY <1>1
  <2> QED BY <1>1, <2>1, OffFacts
<1>3. m - 1 \in Nat /\ Off(m - 1) \in Nat /\ Off(m) = Off(m - 1) + Parts
  <2>1. m - 1 \in Nat /\ (m - 1) + 1 = m
    BY <1>1, <1>2
  <2> QED BY <2>1, OffFacts
<1>4. /\ Len(r) = Off(m - 1)
      /\ \A j \in 1 .. Off(m - 1) : r[j] = q[Parts + j]
  BY <1>1, <1>3
<1>5. ASSUME NEW k \in 0 .. m - 1, NEW i \in 1 .. Parts
      PROVE  q[Off(k) + i] = [line |-> lines[n + k + 1], i |-> i]
  BY <1>1 DEF Blocks
<1>6. \A i \in 1 .. Parts : q[i] = [line |-> lines[n + 1], i |-> i]
  <2>1. ASSUME NEW i \in 1 .. Parts PROVE q[i] = [line |-> lines[n + 1], i |-> i]
    <3>1. 0 \in 0 .. m - 1 /\ n + 0 + 1 = n + 1 /\ i \in Nat /\ 0 + i = i
      BY <1>1, <1>2
    <3>2. Off(0) = 0
      BY OffFacts
    <3>3. q[Off(0) + i] = [line |-> lines[n + 0 + 1], i |-> i]
      BY <3>1, <1>5
    <3> QED BY ONLY <3>1, <3>2, <3>3
  <2> QED BY <2>1
<1>7. ASSUME NEW k \in 0 .. m - 2, NEW i \in 1 .. Parts
      PROVE  r[Off(k) + i] = [line |-> lines[(n + 1) + k + 1], i |-> i]
  <2>1. k \in Nat /\ k + 1 \in 0 .. m - 1 /\ k < m - 1
    BY <1>1, <1>2
  <2>2. Off(k) \in Nat /\ Off(k) + Parts <= Off(m - 1) /\ Off(k + 1) = Off(k) + Parts
    BY <1>3, <2>1, OffGrows, OffFacts
  <2>3. Off(k) + i \in 1 .. Off(m - 1) /\ Parts + (Off(k) + i) = Off(k + 1) + i
    BY <1>1, <1>3, <2>2
  <2>4. r[Off(k) + i] = q[Off(k + 1) + i]
    BY <1>4, <2>3
  <2>5. q[Off(k + 1) + i] = [line |-> lines[n + (k + 1) + 1], i |-> i]
    BY <1>5, <2>1
  <2>6. n + (k + 1) + 1 = (n + 1) + k + 1
    BY <2>1
  <2> QED BY <2>4, <2>5, <2>6
<1>8. Len(lines) - (n + 1) = m - 1 /\ Len(lines) - (n + 1) - 1 = m - 2 /\ n + 1 \in 0 .. Len(lines)
  BY <1>1, <1>2
<1>9. Blocks(r, lines, n + 1)
  BY <1>4, <1>7, <1>8 DEF Blocks
<1> QED BY <1>6, <1>8, <1>9

LEMMA SendBlock ==
    ASSUME NEW lines \in Seq(Line), NEW n \in 0 .. Len(lines), NEW q \in Seq(Part),
           NEW l \in Line, Blocks(q, lines, n)
    PROVE  Blocks(q \o Block(l), Append(lines, l), n)
<1> DEFINE m == Len(lines) - n
           r == q \o Block(l)
           more == Append(lines, l)
           b == Block(l)
<1>1. Parts \in Nat /\ Parts > 0 /\ m \in Nat /\ Len(q) = Off(m) /\ Len(lines) \in Nat
  BY ChatAssumption DEF Blocks
<1>2. b \in Seq(Part) /\ Len(b) = Parts /\ \A i \in 1 .. Parts : b[i] = [line |-> l, i |-> i]
  BY BlockType
<1>3. Off(m) \in Nat /\ Off(m + 1) = Off(m) + Parts
  BY <1>1, OffFacts
<1>4. /\ Len(more) = Len(lines) + 1 /\ more[Len(lines) + 1] = l
      /\ \A j \in 1 .. Len(lines) : more[j] = lines[j]
  OBVIOUS
<1>5. /\ Len(r) = Off(m) + Parts
      /\ \A j \in 1 .. Off(m) : r[j] = q[j]
      /\ \A i \in 1 .. Parts : r[Off(m) + i] = b[i]
  <2> HIDE DEF b
  <2>1. /\ Len(q \o b) = Len(q) + Len(b)
        /\ \A j \in 1 .. Len(q) : (q \o b)[j] = q[j]
    BY ONLY <1>2, q \in Seq(Part)
  <2>2. ASSUME NEW i \in 1 .. Len(b) PROVE (q \o b)[Len(q) + i] = b[i]
    <3>1. /\ b \in Seq(Part) /\ q \in Seq(Part) /\ Len(q) \in Nat /\ Len(b) \in Nat /\ i \in Nat
          /\ Len(q) + i \in 1 .. Len(q) + Len(b) /\ ~ (Len(q) + i <= Len(q))
          /\ (Len(q) + i) - Len(q) = i
      BY <1>2
    <3> QED BY ONLY <3>1
  <2> QED BY <1>1, <1>2, <2>1, <2>2 DEF b
<1>6. ASSUME NEW k \in 0 .. m, NEW i \in 1 .. Parts
      PROVE  r[Off(k) + i] = [line |-> more[n + k + 1], i |-> i]
  <2>1. CASE k = m
    <3>1. n + k + 1 = Len(lines) + 1
      BY <1>1, <2>1
    <3> QED BY <1>2, <1>4, <1>5, <2>1, <3>1
  <2>2. CASE k # m
    <3>1. k \in Nat /\ k < m /\ k \in 0 .. m - 1 /\ n + k + 1 \in 1 .. Len(lines)
      BY <1>1, <2>2
    <3>2. Off(k) \in Nat /\ Off(k) + Parts <= Off(m)
      BY <1>1, <3>1, OffGrows
    <3>3. Off(k) + i \in 1 .. Off(m)
      BY <1>1, <1>3, <3>2
    <3>4. q[Off(k) + i] = [line |-> lines[n + k + 1], i |-> i]
      BY <3>1 DEF Blocks
    <3> QED BY <1>4, <1>5, <3>1, <3>3, <3>4
  <2> QED BY <2>1, <2>2
<1>7. Len(more) - n = m + 1 /\ Len(more) - n - 1 = m
  BY <1>1, <1>4
<1> QED BY <1>3, <1>5, <1>6, <1>7 DEF Blocks

\* A block that is read whole decrypts to its line.
LEMMA DecryptedBlock ==
    ASSUME NEW l, NEW b, \A i \in 1 .. Parts : b[i] = [line |-> l, i |-> i]
    PROVE  Decrypted(b) = l
<1>1. b[1] = [line |-> l, i |-> 1]
  <2>1. 1 \in 1 .. Parts
    BY ChatAssumption
  <2> QED BY <2>1
<1> QED BY <1>1 DEF Decrypted

\* Two sequences that begin alike.
LEMMA SameBeginning ==
    ASSUME NEW S, NEW T, NEW a \in Seq(S), NEW b \in Seq(T), NEW n \in Nat,
           n <= Len(a), n <= Len(b), \A k \in 1 .. n : a[k] = b[k]
    PROVE  SubSeq(a, 1, n) = SubSeq(b, 1, n)
OBVIOUS

LEMMA OppType == ASSUME NEW d \in Streams PROVE Opp(d) \in Streams
BY DEF Opp, Streams

\* A step that leaves what is sent, queued and shown of a stream alone.
LEMMA FlowKept ==
    ASSUME NEW d \in Streams, Flow(d),
           UNCHANGED <<queue[d], sent[d], shown[d], whole[d], eof[d]>>,
           fin[d] => fin'[d], rst[d] => rst'[d], fin[Opp(d)] => fin'[Opp(d)]
    PROVE  Flow(d)'
BY DEF Flow, Shown

LEMMA ReadSocketFlow ==
    ASSUME TypedInv, ConnInv, StreamInv, NEW e \in Ends, ReadSocket(e), NEW d \in Streams
    PROVE  Flow(d)'
<1> USE DEF TypedInv
<1>0. /\ pc[e] = "socket" /\ pc[e] \in Loop /\ Flow(d)
      /\ UNCHANGED <<conn, fin, rst, sent, eof>>
  BY DEF ReadSocket, Loop, StreamInv
<1>1. In(e) \in Streams /\ Opp(In(e)) = Out(e) /\ Talks(e) /\ TypeOK
  BY <1>0, StreamEnds DEF ConnInv
<1>2. PICK n \in 1 .. Parts :
        /\ n <= Len(queue[In(e)])
        /\ whole' = [whole EXCEPT ![In(e)] = @ /\ n = Parts]
        /\ Show(e, [i \in 1 .. Parts |-> IF i <= n THEN queue[In(e)][i] ELSE buf[e][i]])
        /\ queue' = [queue EXCEPT ![In(e)] = SubSeq(@, n + 1, Len(@))]
  BY DEF ReadSocket
<1>3. CASE d # In(e)
  BY <1>0, <1>1, <1>2, <1>3, FlowKept DEF Show, TypeOK
<1>4. CASE d = In(e)
  <2> DEFINE k == Len(shown[d])
             b == [i \in 1 .. Parts |-> IF i <= n THEN queue[d][i] ELSE buf[e][i]]
  <2>0. shown[d] \in Seq(Line \cup {Noise}) /\ sent[d] \in Seq(Line) /\ queue[d] \in Seq(Part)
    BY DEF TypeOK
  <2>1. SUFFICES ASSUME whole'[d], ~ rst'[d]
                 PROVE  /\ Shown(d)' \in 0 .. Len(sent'[d])
                        /\ \A j \in 1 .. Shown(d)' : shown'[d][j] = sent'[d][j]
                        /\ ~ eof'[d]
                        /\ Blocks(queue'[d], sent'[d], Shown(d)')
    BY DEF Flow
  <2>2. whole[d] /\ n = Parts /\ ~ rst[d] /\ ~ eof[d] /\ ~ fin[Opp(d)]
    BY <1>0, <1>1, <1>2, <1>4, <2>1 DEF TypeOK, Talks
  <2>3. /\ k \in 0 .. Len(sent[d])
        /\ \A j \in 1 .. k : shown[d][j] = sent[d][j]
        /\ Blocks(queue[d], sent[d], k)
    BY <1>0, <2>2 DEF Flow, Shown
  <2>4. /\ k + 1 \in 0 .. Len(sent[d])
        /\ \A i \in 1 .. Parts : queue[d][i] = [line |-> sent[d][k + 1], i |-> i]
        /\ Blocks(SubSeq(queue[d], Parts + 1, Len(queue[d])), sent[d], k + 1)
    BY <1>2, <1>4, <2>0, <2>2, <2>3, ReadBlock
  <2>5. Decrypted(b) = sent[d][k + 1]
    <3>1. \A i \in 1 .. Parts : b[i] = [line |-> sent[d][k + 1], i |-> i]
      BY <2>2, <2>4, ChatAssumption
    <3> HIDE DEF b
    <3> QED BY <3>1, DecryptedBlock
  <2>6. shown'[d] = Append(shown[d], sent[d][k + 1])
    BY <1>2, <1>4, <2>5 DEF Show, TypeOK
  <2>7. /\ Len(shown'[d]) = k + 1 /\ shown'[d][k + 1] = sent[d][k + 1]
        /\ \A j \in 1 .. k : shown'[d][j] = shown[d][j]
    BY ONLY <2>0, <2>6
  <2>8. ~ eof'[d] /\ sent'[d] = sent[d] /\ Shown(d)' = k + 1
    BY <1>0, <2>2, <2>7 DEF Shown
  <2>9. queue'[d] = SubSeq(queue[d], Parts + 1, Len(queue[d]))
    BY <1>2, <1>4, <2>2 DEF TypeOK
  <2>10. \A j \in 1 .. k + 1 : shown'[d][j] = sent[d][j]
    BY <2>3, <2>7
  <2> QED BY <2>4, <2>8, <2>9, <2>10
<1> QED BY <1>3, <1>4

LEMMA ReadEndFlow ==
    ASSUME TypedInv, ConnInv, StreamInv, NEW e \in Ends, ReadEnd(e), NEW d \in Streams
    PROVE  Flow(d)'
<1> USE DEF TypedInv
<1>0. /\ pc[e] = "socket" /\ pc[e] \in Loop /\ Flow(d) /\ queue[In(e)] = <<>>
      /\ UNCHANGED <<queue, sent, whole>>
      /\ Show(e, buf[e]) /\ eof' = [eof EXCEPT ![In(e)] = TRUE]
  BY DEF ReadEnd, Loop, StreamInv
<1>1. In(e) \in Streams /\ Opp(In(e)) = Out(e) /\ Talks(e) /\ TypeOK
  BY <1>0, StreamEnds DEF ConnInv
<1>2. /\ fin[d] => fin'[d]
      /\ rst[d] => rst'[d]
      /\ fin[Opp(d)] => fin'[Opp(d)]
  BY EndFrame, OppType DEF EndStep, Step
<1>3. CASE d # In(e)
  BY <1>0, <1>1, <1>2, <1>3, FlowKept DEF Show, TypeOK
<1>4. CASE d = In(e)
  <2> DEFINE k == Len(shown[d])
             l == Decrypted(buf[e])
  <2>0. /\ shown[d] \in Seq(Line \cup {Noise}) /\ sent[d] \in Seq(Line)
        /\ l \in Line \cup {Noise}
    BY DecryptedType DEF TypeOK
  <2>1. SUFFICES ASSUME whole'[d], ~ rst'[d]
                 PROVE  /\ Shown(d)' \in 0 .. Len(sent'[d])
                        /\ \A j \in 1 .. Shown(d)' : shown'[d][j] = sent'[d][j]
                        /\ fin'[d] /\ Shown(d)' = Len(sent'[d])
                        /\ Blocks(queue'[d], sent'[d], Shown(d)')
    BY DEF Flow
  <2>2. whole[d] /\ ~ rst[d] /\ ~ eof[d] /\ ~ fin[Opp(d)] /\ fin[d]
    BY <1>0, <1>1, <1>2, <1>4, <2>1 DEF Talks, Readable
  <2>3. /\ k \in 0 .. Len(sent[d])
        /\ \A j \in 1 .. k : shown[d][j] = sent[d][j]
        /\ Blocks(<<>>, sent[d], k)
    BY <1>0, <1>4, <2>2 DEF Flow, Shown
  <2>4. k = Len(sent[d])
    BY <2>0, <2>3, EmptyQueue
  <2>5. shown'[d] = Append(shown[d], l)
    BY <1>0, <1>4 DEF Show, TypeOK
  <2>6. Len(shown'[d]) = k + 1 /\ \A j \in 1 .. k : shown'[d][j] = shown[d][j]
    <3> HIDE DEF l
    <3> QED BY ONLY <2>0, <2>5
  <2>7. k \in Nat
    BY <2>0
  <2>8. eof'[d] /\ sent'[d] = sent[d] /\ queue'[d] = <<>> /\ Shown(d)' = k
    BY <1>0, <1>4, <2>6, <2>7 DEF Shown, TypeOK
  <2> QED BY <1>2, <2>2, <2>3, <2>4, <2>6, <2>8
<1> QED BY <1>3, <1>4

LEMMA ReadStdinFlow ==
    ASSUME TypedInv, ConnInv, StreamInv, NEW e \in Ends, ReadStdin(e), NEW d \in Streams
    PROVE  Flow(d)'
<1> USE DEF TypedInv
<1>0. /\ pc[e] = "stdin" /\ pc[e] \in Loop /\ Flow(d)
      /\ UNCHANGED <<fin, shown, whole, eof>>
  BY DEF ReadStdin, Loop, StreamInv
<1>1. Out(e) \in Streams /\ Talks(e) /\ TypeOK
  BY <1>0, StreamEnds DEF ConnInv
<1>2. rst[d] => rst'[d]
  BY EndFrame DEF EndStep, Step
<1>3. PICK parts \in 0 .. Parts :
        LET l == [from |-> e, no |-> typed[e], parts |-> parts] IN
        \/ UNCHANGED <<queue, sent>>
        \/ /\ queue' = [queue EXCEPT ![Out(e)] = @ \o Sent(l)]
           /\ sent' = [sent EXCEPT ![Out(e)] = Append(@, l)]
  BY DEF ReadStdin
<1> DEFINE l == [from |-> e, no |-> typed[e], parts |-> parts]
<1>4. l \in Line
  BY <1>0, LineType
<1> HIDE DEF l
<1>5. CASE UNCHANGED <<queue, sent>> \/ d # Out(e)
  <2>1. UNCHANGED <<queue[d], sent[d]>>
    BY <1>1, <1>3, <1>5 DEF TypeOK
  <2> QED BY <1>0, <1>2, <2>1, FlowKept
<1>6. CASE /\ d = Out(e)
           /\ queue' = [queue EXCEPT ![Out(e)] = @ \o Sent(l)]
           /\ sent' = [sent EXCEPT ![Out(e)] = Append(@, l)]
  <2>0. shown[d] \in Seq(Line \cup {Noise}) /\ sent[d] \in Seq(Line) /\ queue[d] \in Seq(Part)
    BY DEF TypeOK
  <2>1. queue'[d] = queue[d] \o Block(l) /\ sent'[d] = Append(sent[d], l)
    BY <1>6 DEF TypeOK, Sent
  <2>2. SUFFICES ASSUME whole'[d], ~ rst'[d]
                 PROVE  /\ Shown(d)' \in 0 .. Len(sent'[d])
                        /\ \A j \in 1 .. Shown(d)' : shown'[d][j] = sent'[d][j]
                        /\ ~ eof'[d]
                        /\ ~ fin[Opp(d)] => Blocks(queue'[d], sent'[d], Shown(d)')
    BY <1>0 DEF Flow
  <2>3. whole[d] /\ ~ rst[d] /\ ~ fin[d] /\ ~ eof[d]
    BY <1>0, <1>1, <1>2, <1>6, <2>2 DEF Flow, Talks
  <2>4. /\ Shown(d) \in 0 .. Len(sent[d])
        /\ \A j \in 1 .. Shown(d) : shown[d][j] = sent[d][j]
        /\ ~ fin[Opp(d)] => Blocks(queue[d], sent[d], Shown(d))
    BY <1>0, <2>3 DEF Flow
  <2>5. Shown(d)' = Shown(d)
    BY <1>0 DEF Shown
  <2>6. /\ Len(sent'[d]) = Len(sent[d]) + 1
        /\ \A j \in 1 .. Len(sent[d]) : sent'[d][j] = sent[d][j]
    BY ONLY <2>0, <2>1, <1>4
  <2>7. Len(sent[d]) \in Nat
    BY <2>0
  <2>8. ~ fin[Opp(d)] => Blocks(queue'[d], sent'[d], Shown(d))
    BY <1>4, <2>0, <2>1, <2>4, SendBlock
  <2> QED BY <1>0, <2>3, <2>4, <2>5, <2>6, <2>7, <2>8
<1> QED BY <1>3, <1>5, <1>6 DEF l

LEMMA FailsFlow ==
    ASSUME TypedInv, ConnInv, StreamInv, NEW e \in Ends, Fails(e), NEW d \in Streams
    PROVE  Flow(d)'
<1> USE DEF TypedInv
<1>0. Flow(d) /\ UNCHANGED <<sent, shown, whole, eof>>
  BY DEF Fails, StreamInv
<1>1. /\ fin[d] => fin'[d]
      /\ rst[d] => rst'[d]
      /\ fin[Opp(d)] => fin'[Opp(d)]
  BY EndFrame, OppType DEF EndStep
<1>2. CASE queue'[d] = queue[d]
  BY <1>0, <1>1, <1>2, FlowKept
<1>3. CASE queue'[d] # queue[d]
  <2>1. pc[e] = "socket" /\ pc[e] \in Loop /\ d = In(e)
    <3>1. pc[e] = "socket" /\ \E n \in 0 .. Parts :
            queue' = [queue EXCEPT ![In(e)] = SubSeq(@, n + 1, Len(@))]
      BY <1>3 DEF Fails
    <3> QED BY <1>3, <3>1 DEF TypeOK, Loop
  <2>2. Opp(d) = Out(e) /\ Out(e) \in Streams
    BY <2>1, StreamEnds
  <2>3. fin'[Out(e)]
    <3>1. /\ e = Server => Out(e) = <<conn, "down">> /\ conn \in Clients
          /\ e # Server => Out(e) = <<e, "up">>
      BY <2>1, StreamEnds DEF Out
    <3>2. Dies(e)
      BY DEF Fails
    <3> QED BY <2>2, <3>1, <3>2, DiesFrame
  <2> QED BY <1>0, <1>1, <2>2, <2>3 DEF Flow, Shown
<1> QED BY <1>2, <1>3

LEMMA InitFlow == Init => StreamInv
<1> SUFFICES ASSUME Init, NEW d \in Streams PROVE Flow(d)
  BY DEF StreamInv
<1>1. queue[d] = <<>> /\ sent[d] = <<>> /\ shown[d] = <<>> /\ ~ eof[d]
  BY DEF Init
<1>2. Shown(d) = 0
  BY <1>1 DEF Shown
<1>3. Blocks(<<>>, <<>>, 0)
  <2>1. Off(0) = 0
    BY OffFacts
  <2> QED BY <2>1 DEF Blocks
<1> QED BY <1>1, <1>2, <1>3 DEF Flow

LEMMA NextFlow == TypedInv /\ ConnInv /\ StreamInv /\ [Next]_vars => StreamInv'
<1> SUFFICES ASSUME TypedInv, ConnInv, StreamInv, [Next]_vars, NEW d \in Streams
             PROVE  Flow(d)'
  BY DEF StreamInv
<1>0. Flow(d)
  BY DEF StreamInv
<1>1. CASE UNCHANGED vars
  BY <1>0, <1>1, FlowKept DEF vars, tcp, history
<1>2. ASSUME NEW c \in Clients, Connect(c) PROVE Flow(d)'
  BY <1>0, <1>2, FlowKept DEF Connect, tcp, history
<1>3. CASE Accept
  BY <1>0, <1>3, FlowKept DEF Accept, tcp, history
<1>4. ASSUME NEW e \in Ends, EndStep(e) PROVE Flow(d)'
  <2>1. CASE UNCHANGED <<queue, sent, shown, whole, eof>>
    <3>1. /\ fin[d] => fin'[d]
          /\ rst[d] => rst'[d]
          /\ fin[Opp(d)] => fin'[Opp(d)]
      BY <1>4, EndFrame, OppType
    <3> QED BY <1>0, <2>1, <3>1, FlowKept
  <2> QED BY <1>4, <2>1, QuietStep, ReadSocketFlow, ReadEndFlow, ReadStdinFlow, FailsFlow
<1> QED BY <1>1, <1>2, <1>3, <1>4 DEF Next, EndStep

\* However many clients come, with one buffer for both directions and for all of
\* them: as long as TCP delivers whole blocks, what an end shows is what the
\* other sent, in order, and all of it by the time it is told of the end.
THEOREM ShownAsSentTheorem == Spec => []ShownAsSent
<1>1. Spec => [](TypedInv /\ ConnInv /\ StreamInv)
  BY InitTyped, NextTyped, InitConn, NextConn, InitFlow, NextFlow, PTL DEF Spec
<1>2. TypedInv /\ StreamInv => ShownAsSent
  <2> SUFFICES ASSUME TypedInv, StreamInv, NEW d \in Streams, whole[d], ~ rst[d]
               PROVE  LET n == IF eof[d] THEN Len(shown[d]) - 1 ELSE Len(shown[d]) IN
                      /\ n <= Len(sent[d])
                      /\ SubSeq(shown[d], 1, n) = SubSeq(sent[d], 1, n)
                      /\ eof[d] => n = Len(sent[d])
    BY DEF ShownAsSent
  <2>1. shown[d] \in Seq(Line \cup {Noise}) /\ sent[d] \in Seq(Line)
    BY DEF TypedInv, TypeOK
  <2>2. /\ Shown(d) \in 0 .. Len(sent[d])
        /\ \A k \in 1 .. Shown(d) : shown[d][k] = sent[d][k]
        /\ eof[d] => Shown(d) = Len(sent[d])
    BY DEF StreamInv, Flow
  <2>3. /\ Shown(d) \in Nat /\ Shown(d) <= Len(sent[d])
        /\ Shown(d) <= Len(shown[d])
    BY <2>1, <2>2 DEF Shown
  <2>4. SubSeq(shown[d], 1, Shown(d)) = SubSeq(sent[d], 1, Shown(d))
    BY <2>1, <2>2, <2>3, SameBeginning
  <2> QED BY <2>2, <2>3, <2>4 DEF Shown
<1> QED BY <1>1, <1>2, PTL

=============================================================================

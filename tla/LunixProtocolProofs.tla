------------------------ MODULE LunixProtocolProofs -------------------------
(***************************************************************************)
(* Proofs about LunixProtocol, for any stream of bytes cut into buffers in *)
(* any way: Frames may hold any byte strings.                              *)
(***************************************************************************)
EXTENDS LunixProtocol, SequenceTheorems, TLAPS

\* Together, types and field positions are inductive.
ParserInv == TypeOK /\ FieldPosition

USE DEF SEEKING_START_BYTE, SEEKING_PACKET_TYPE, SEEKING_DESTINATION_ADDRESS,
        SEEKING_AM_TYPE, SEEKING_AM_GROUP, SEEKING_PAYLOAD_LENGTH,
        SEEKING_PAYLOAD, SEEKING_CRC, SEEKING_END_BYTE

LEMMA BufferSize == MAX_PACKET_LEN \in Nat /\ MAX_PACKET_LEN >= 265
BY ProtocolAssumption

\* The fields of a parser state, and of one with a field changed.
LEMMA ParserFields ==
    ASSUME NEW q \in Parser
    PROVE  /\ q.state \in 1 .. 9 /\ q.toRead \in Byte /\ q.read \in Byte
           /\ q.pos \in 0 .. MAX_PACKET_LEN
           /\ q.special \in {0, MARK, ESCAPE}
           /\ q.packet \in [0 .. MAX_PACKET_LEN - 1 -> Byte]
BY DEF Parser

LEMMA LengthByte ==
    ASSUME NEW q \in Parser
    PROVE  q.packet[6] \in Byte
<1>1. q.packet \in [0 .. MAX_PACKET_LEN - 1 -> Byte]
  BY ParserFields
<1> QED BY <1>1, BufferSize

LEMMA ParserMoved ==
    ASSUME NEW q \in Parser, NEW n
    PROVE  [q EXCEPT !.pos = n].pos = n /\ [q EXCEPT !.pos = n].packet = q.packet
BY DEF Parser

LEMMA InitParser == Init => ParserInv
BY ProtocolAssumption
   DEF Init, InitialParser, ParserInv, TypeOK, Parser, FieldPosition, FieldStart,
       Width, Byte

\* What the position of a field amounts to, field by field.
Fields(q) ==
    /\ q.state = 1 => q.pos = 0 /\ q.toRead = 1 /\ q.read = 0 /\ q.special = 0
    /\ q.state = 2 => q.pos = 1 /\ q.toRead = 1 /\ q.read = 0 /\ q.special = 0
    /\ q.state = 3 => q.pos = 2 + q.read /\ q.toRead = 2 /\ q.read < 2
    /\ q.state = 4 => q.pos = 4 /\ q.toRead = 1 /\ q.read = 0
    /\ q.state = 5 => q.pos = 5 /\ q.toRead = 1 /\ q.read = 0
    /\ q.state = 6 => q.pos = 6 /\ q.toRead = 1 /\ q.read = 0
    /\ q.state = 7 => q.pos = 7 + q.read /\ q.toRead = q.packet[6] /\ q.read < q.toRead
    /\ q.state = 8 => q.pos = 7 + q.packet[6] + q.read /\ q.toRead = 2 /\ q.read < 2
    /\ q.state = 9 => /\ q.pos = 9 + q.packet[6] /\ q.toRead = 1 /\ q.read = 0
                     /\ q.special = 0

\* FieldPosition, of any parser state.
Positioned(q) ==
    /\ q.pos = FieldStart(q) + q.read
    /\ q.read < q.toRead
    /\ q.toRead = Width([q EXCEPT !.pos = FieldStart(q)], q.state)
    /\ q.special # 0 => UsesSpecials(q)

\* The two say the same.
LEMMA FieldsPosition ==
    ASSUME NEW q \in Parser
    PROVE  Positioned(q) <=> Fields(q)
<1> DEFINE r == [q EXCEPT !.pos = FieldStart(q)]
<1>1. r.packet = q.packet /\ r.pos = FieldStart(q)
  BY ParserMoved
<1>2. q.state \in 1 .. 9 /\ q.read \in Nat /\ q.toRead \in Nat /\ q.pos \in Nat
  <2>1. /\ q.state \in 1 .. 9 /\ q.read \in Byte /\ q.toRead \in Byte
        /\ q.pos \in 0 .. MAX_PACKET_LEN
    BY ParserFields
  <2> QED BY <2>1, BufferSize DEF Byte
<1>3. q.packet[6] \in Nat
  <2>1. q.packet[6] \in Byte
    BY LengthByte
  <2> QED BY <2>1 DEF Byte
<1> HIDE DEF r
<1>4. Positioned(q) <=> /\ q.pos = FieldStart(q) + q.read
                        /\ q.read < q.toRead
                        /\ q.toRead = Width(r, q.state)
                        /\ q.special # 0 => UsesSpecials(q)
  BY DEF Positioned, r
<1>5. CASE q.state = 1
  BY <1>1, <1>2, <1>4, <1>5 DEF Fields, FieldStart, Width, UsesSpecials
<1>6. CASE q.state = 2
  BY <1>1, <1>2, <1>4, <1>6 DEF Fields, FieldStart, Width, UsesSpecials
<1>7. CASE q.state = 3
  BY <1>1, <1>2, <1>4, <1>7 DEF Fields, FieldStart, Width, UsesSpecials
<1>8. CASE q.state = 4
  BY <1>1, <1>2, <1>4, <1>8 DEF Fields, FieldStart, Width, UsesSpecials
<1>9. CASE q.state = 5
  BY <1>1, <1>2, <1>4, <1>9 DEF Fields, FieldStart, Width, UsesSpecials
<1>10. CASE q.state = 6
  BY <1>1, <1>2, <1>4, <1>10 DEF Fields, FieldStart, Width, UsesSpecials
<1>11. CASE q.state = 7
  BY <1>1, <1>2, <1>3, <1>4, <1>11 DEF Fields, FieldStart, Width, UsesSpecials
<1>12. CASE q.state = 8
  BY <1>1, <1>2, <1>3, <1>4, <1>12 DEF Fields, FieldStart, Width, UsesSpecials
<1>13. CASE q.state = 9
  BY <1>1, <1>2, <1>3, <1>4, <1>13 DEF Fields, FieldStart, Width, UsesSpecials
<1> QED BY <1>2, <1>5, <1>6, <1>7, <1>8, <1>9, <1>10, <1>11, <1>12, <1>13

\* The largest packet fits: there is room for the next byte of any field, so
\* the guard against overflow is never needed.
LEMMA RoomForByte ==
    ASSUME NEW q \in Parser, Fields(q)
    PROVE  q.pos < MAX_PACKET_LEN /\ q.read < q.toRead
<1>1. q.packet[6] \in Byte
  BY LengthByte
<1>2. q.state \in 1 .. 9 /\ q.read \in Byte /\ q.toRead \in Byte
  BY ParserFields
<1>3. q.packet[6] \in 0 .. 255 /\ q.read \in 0 .. 255 /\ q.toRead \in 0 .. 255
  BY <1>1, <1>2 DEF Byte
<1>4. CASE q.state \in {1, 2, 3}
  <2>1. q.state = 1 => q.pos < 4 /\ q.read < q.toRead
    BY ONLY Fields(q), <1>3 DEF Fields
  <2>2. q.state = 2 => q.pos < 4 /\ q.read < q.toRead
    BY ONLY Fields(q), <1>3 DEF Fields
  <2>3. q.state = 3 => q.pos < 4 /\ q.read < q.toRead
    BY ONLY Fields(q), <1>3 DEF Fields
  <2>4. q.pos \in Nat
    BY ParserFields, BufferSize
  <2> QED BY ONLY <1>4, <2>1, <2>2, <2>3, <2>4, BufferSize
<1>5. CASE q.state \in {4, 5, 6}
  <2>1. q.state = 4 => q.pos < 7 /\ q.read < q.toRead
    BY ONLY Fields(q), <1>3 DEF Fields
  <2>2. q.state = 5 => q.pos < 7 /\ q.read < q.toRead
    BY ONLY Fields(q), <1>3 DEF Fields
  <2>3. q.state = 6 => q.pos < 7 /\ q.read < q.toRead
    BY ONLY Fields(q), <1>3 DEF Fields
  <2>4. q.pos \in Nat
    BY ParserFields, BufferSize
  <2> QED BY ONLY <1>5, <2>1, <2>2, <2>3, <2>4, BufferSize
<1>6. CASE q.state = 7
  <2>1. q.pos = 7 + q.read /\ q.toRead = q.packet[6] /\ q.read < q.toRead
    BY <1>6 DEF Fields
  <2> QED BY ONLY <2>1, <1>3, BufferSize
<1>7. CASE q.state = 8
  <2>1. q.pos = 7 + q.packet[6] + q.read /\ q.toRead = 2 /\ q.read < 2
    BY <1>7 DEF Fields
  <2> QED BY ONLY <2>1, <1>3, BufferSize
<1>8. CASE q.state = 9
  <2>1. q.pos = 9 + q.packet[6] /\ q.toRead = 1 /\ q.read = 0
    BY <1>8 DEF Fields
  <2> QED BY ONLY <2>1, <1>3, BufferSize
<1> QED BY <1>2, <1>4, <1>5, <1>6, <1>7, <1>8

\* The other bit pattern of a byte is a byte.
LEMMA FlipByte == ASSUME NEW b \in Byte PROVE Flip(b) \in Byte
BY DEF Flip, Byte

-----------------------------------------------------------------------------
(* One byte *)

\* What taking a byte does: it is put in the packet, decoded or not, or it is
\* remembered as the prefix of a special character.
Stored(q, t) ==
    /\ t.read = q.read + 1 /\ t.pos = q.pos + 1 /\ t.special = 0
    /\ \E c \in Byte : t.packet = [q.packet EXCEPT ![q.pos] = c]

Prefix(q, t) ==
    /\ t.read = q.read /\ t.pos = q.pos /\ t.packet = q.packet
    /\ t.special \in {MARK, ESCAPE} /\ UsesSpecials(q)

LEMMA PutFields ==
    ASSUME NEW q \in Parser, NEW b \in Byte
    PROVE  Put(q, b) = [state |-> q.state, toRead |-> q.toRead, read |-> q.read + 1,
                        pos |-> q.pos + 1, special |-> q.special,
                        packet |-> [q.packet EXCEPT ![q.pos] = b]]
<1> DEFINE pk == [q.packet EXCEPT ![q.pos] = b]
           q1 == [q EXCEPT !.packet = pk]
           q2 == [q1 EXCEPT !.pos = q.pos + 1]
           q3 == [q2 EXCEPT !.read = q.read + 1]
<1>1. Put(q, b) = q3
  BY Zenon DEF Put
<1> HIDE DEF pk
<1>2. q1 = [state |-> q.state, toRead |-> q.toRead, read |-> q.read,
            pos |-> q.pos, special |-> q.special, packet |-> pk]
  BY DEF Parser
<1> HIDE DEF q1
<1>3. q2 = [state |-> q.state, toRead |-> q.toRead, read |-> q.read,
            pos |-> q.pos + 1, special |-> q.special, packet |-> pk]
  BY <1>2
<1> HIDE DEF q2
<1>4. q3 = [state |-> q.state, toRead |-> q.toRead, read |-> q.read + 1,
            pos |-> q.pos + 1, special |-> q.special, packet |-> pk]
  BY <1>3
<1> QED BY <1>1, <1>4 DEF pk

\* After a special character there is none.
LEMMA PutSpecial ==
    ASSUME NEW q \in Parser, NEW b \in Byte
    PROVE  [Put(q, b) EXCEPT !.special = 0] =
               [state |-> q.state, toRead |-> q.toRead, read |-> q.read + 1,
                pos |-> q.pos + 1, special |-> 0,
                packet |-> [q.packet EXCEPT ![q.pos] = b]]
BY PutFields

LEMMA TakeFields ==
    ASSUME NEW q \in Parser, Fields(q), NEW b \in Byte
    PROVE  LET t == Take(q, b) IN
           /\ t \in Parser
           /\ t.state = q.state /\ t.toRead = q.toRead
           /\ Stored(q, t) \/ Prefix(q, t)
<1> DEFINE t == Take(q, b)
           put(c) == [state |-> q.state, toRead |-> q.toRead, read |-> q.read + 1,
                      pos |-> q.pos + 1, special |-> 0,
                      packet |-> [q.packet EXCEPT ![q.pos] = c]]
<1>1. /\ q.pos \in 0 .. MAX_PACKET_LEN - 1 /\ q.pos + 1 \in 0 .. MAX_PACKET_LEN
      /\ q.read + 1 \in Byte
  <2>1. q.pos \in 0 .. MAX_PACKET_LEN /\ q.read \in Byte /\ q.toRead \in Byte
    BY ParserFields
  <2> QED BY <2>1, RoomForByte, BufferSize DEF Byte
<1>2. ASSUME NEW c \in Byte
      PROVE  put(c) \in Parser /\ Stored(q, put(c))
  <2>1. [q.packet EXCEPT ![q.pos] = c] \in [0 .. MAX_PACKET_LEN - 1 -> Byte]
    BY <1>1, ParserFields
  <2>2. q.state \in 1 .. 9 /\ q.toRead \in Byte
    BY ParserFields
  <2>3. put(c) \in Parser
    BY <1>1, <2>1, <2>2 DEF Parser
  <2> QED BY <2>3 DEF Stored
<1>3. UsesSpecials(q) \/ q.special = 0
  BY ParserFields DEF UsesSpecials, Fields
<1>4. CASE UsesSpecials(q) /\ q.special = MARK
  <2>1. t = [Put(q, b) EXCEPT !.special = 0]
    BY <1>4 DEF Take, MARK, ESCAPE
  <2>2. t = put(b)
    BY <2>1, PutSpecial
  <2> QED BY <2>2, <1>2
<1>5. CASE UsesSpecials(q) /\ q.special = ESCAPE
  <2>1. t = [Put(q, Flip(b)) EXCEPT !.special = 0]
    BY <1>5 DEF Take, MARK, ESCAPE
  <2>2. t = put(Flip(b))
    BY <2>1, PutSpecial, FlipByte
  <2> QED BY <2>2, <1>2, FlipByte
<1>6. CASE UsesSpecials(q) /\ q.special = 0 /\ b \in {MARK, ESCAPE}
  <2>1. t = [q EXCEPT !.special = b]
    BY <1>6 DEF Take, MARK, ESCAPE
  <2> QED BY <1>6, <2>1 DEF Prefix, Parser
<1>7. CASE q.special = 0 /\ ~ (UsesSpecials(q) /\ b \in {MARK, ESCAPE})
  <2>1. t = Put(q, b)
    BY <1>7 DEF Take, MARK, ESCAPE
  <2>2. t = put(b)
    BY <1>7, <2>1, PutFields
  <2> QED BY <2>2, <1>2
<1> QED BY <1>3, <1>4, <1>5, <1>6, <1>7, ParserFields

-----------------------------------------------------------------------------
(* The next field *)

\* Entering a field keeps the position and the bytes.
LEMMA EnterFields ==
    ASSUME NEW q \in Parser, NEW state \in 1 .. 9, NEW n \in Byte
    PROVE  LET e == Enter(q, state, n) IN
           /\ e \in Parser
           /\ e.state = state /\ e.toRead = n /\ e.read = 0
           /\ e.pos = q.pos /\ e.special = q.special /\ e.packet = q.packet
<1> DEFINE q1 == [q EXCEPT !.state = state]
           q2 == [q1 EXCEPT !.toRead = n]
           q3 == [q2 EXCEPT !.read = 0]
<1>1. Enter(q, state, n) = q3
  BY Zenon DEF Enter
<1>2. q1 = [state |-> state, toRead |-> q.toRead, read |-> q.read,
            pos |-> q.pos, special |-> q.special, packet |-> q.packet]
  BY DEF Parser
<1> HIDE DEF q1
<1>3. q2 = [state |-> state, toRead |-> n, read |-> q.read,
            pos |-> q.pos, special |-> q.special, packet |-> q.packet]
  BY <1>2
<1> HIDE DEF q2
<1>4. q3 = [state |-> state, toRead |-> n, read |-> 0,
            pos |-> q.pos, special |-> q.special, packet |-> q.packet]
  BY <1>3
<1> HIDE DEF q3
<1>5. 0 \in Byte
  BY DEF Byte
<1>6. q3 \in Parser
  BY <1>4, <1>5, ParserFields DEF Parser
<1> QED BY <1>1, <1>4, <1>6

\* A restarted parser is at the start of the packet.
LEMMA RestartFields ==
    ASSUME NEW q \in Parser
    PROVE  Restart(q) \in Parser /\ Fields(Restart(q))
<1> DEFINE e == Enter(q, 1, 1)
           q1 == [e EXCEPT !.pos = 0]
           q2 == [q1 EXCEPT !.special = 0]
<1>1. Restart(q) = q2
  BY Zenon DEF Restart
<1>2. 1 \in Byte
  BY DEF Byte
<1>3. /\ e \in Parser
      /\ e.state = 1 /\ e.toRead = 1 /\ e.read = 0 /\ e.packet = q.packet
  BY <1>2, EnterFields
<1> HIDE DEF e
<1>4. q1 = [state |-> 1, toRead |-> 1, read |-> 0,
            pos |-> 0, special |-> e.special, packet |-> q.packet]
  BY <1>3 DEF Parser
<1> HIDE DEF q1
<1>5. q2 = [state |-> 1, toRead |-> 1, read |-> 0,
            pos |-> 0, special |-> 0, packet |-> q.packet]
  BY <1>4
<1> HIDE DEF q2
<1>6. 0 \in Byte /\ 0 \in 0 .. MAX_PACKET_LEN
  BY BufferSize DEF Byte
<1>7. q2 \in Parser
  BY <1>2, <1>5, <1>6, ParserFields DEF Parser
<1>8. Fields(q2)
  BY <1>5 DEF Fields
<1> QED BY <1>1, <1>7, <1>8

LEMMA RestartState ==
    ASSUME NEW q \in Parser
    PROVE  Restart(q).state = SEEKING_START_BYTE
BY DEF Restart, Enter, Parser

\* The width of any field is a byte.
LEMMA WidthByte ==
    ASSUME NEW q \in Parser, NEW state \in 1 .. 9,
           state = 7 => q.pos = 7
    PROVE  /\ Width(q, state) \in Byte
           /\ state = 7 => Width(q, state) = q.packet[6]
           /\ state \in {3, 8} => Width(q, state) = 2
           /\ state \in {1, 2, 4, 5, 6, 9} => Width(q, state) = 1
<1>1. q.packet[6] \in Byte
  BY LengthByte
<1>2. state = 7 => Width(q, state) = q.packet[6]
  BY DEF Width
<1>3. state \in {3, 8} => Width(q, state) = 2
  BY DEF Width
<1>4. state \in {1, 2, 4, 5, 6, 9} => Width(q, state) = 1
  BY DEF Width
<1> QED BY <1>1, <1>2, <1>3, <1>4 DEF Byte

\* A field of at least one byte is entered, an empty payload passed over.
LEMMA AdvanceFields ==
    ASSUME NEW t \in Parser, NEW s \in 1 .. 9, NEW w \in Byte
    PROVE  LET next == Advance(t) IN
           Done(t) /\ t.state # 9 /\ s = t.state + 1 /\ w = Width(t, s) =>
               /\ next \in Parser
               /\ next.read = 0
               /\ next.pos = t.pos /\ next.special = t.special
               /\ next.packet = t.packet
               /\ w # 0 => next.state = s /\ next.toRead = w
               /\ w = 0 => next.state = 8 /\ next.toRead = 2
<1> DEFINE e == Enter(t, s, w)
           f == Enter(e, 8, Width(e, 8))
<1>1. /\ e \in Parser /\ e.state = s /\ e.toRead = w /\ e.read = 0
      /\ e.pos = t.pos /\ e.special = t.special /\ e.packet = t.packet
  <2>1. e \in Parser
    BY EnterFields, Zenon
  <2>2. e.state = s /\ e.toRead = w /\ e.read = 0
    BY EnterFields, Zenon
  <2>3. e.pos = t.pos
    BY EnterFields, Zenon
  <2>4. e.special = t.special
    BY EnterFields, Zenon
  <2>5. e.packet = t.packet
    BY EnterFields, Zenon
  <2> HIDE DEF e
  <2> QED BY <2>1, <2>2, <2>3, <2>4, <2>5
<1> SUFFICES ASSUME Done(t), t.state # 9, s = t.state + 1, w = Width(t, s)
             PROVE  LET next == Advance(t) IN
                    /\ next \in Parser
                    /\ next.read = 0
                    /\ next.pos = t.pos /\ next.special = t.special
                    /\ next.packet = t.packet
                    /\ w # 0 => next.state = s /\ next.toRead = w
                    /\ w = 0 => next.state = 8 /\ next.toRead = 2
  OBVIOUS
<1>2. /\ Done(e) => Advance(t) = f
      /\ ~ Done(e) => Advance(t) = e
  BY DEF Advance
<1>3. Done(e) <=> w = 0
  BY <1>1 DEF Done
<1> HIDE DEF e
<1>4. Width(e, 8) = 2 /\ 2 \in Byte
  BY DEF Width, Byte
<1>5. /\ f \in Parser /\ f.state = 8 /\ f.toRead = 2 /\ f.read = 0
      /\ f.pos = e.pos /\ f.special = e.special /\ f.packet = e.packet
  BY <1>1, <1>4, EnterFields
<1> HIDE DEF f
<1> QED BY <1>1, <1>2, <1>3, <1>5

\* Only the byte at offset 6 changes the length of the payload.
LEMMA LengthKept ==
    ASSUME NEW q \in Parser, NEW t, Stored(q, t), q.pos # 6
    PROVE  t.packet[6] = q.packet[6]
<1>1. q.packet \in [0 .. MAX_PACKET_LEN - 1 -> Byte]
  BY ParserFields
<1>2. 6 \in 0 .. MAX_PACKET_LEN - 1
  BY BufferSize
<1>3. PICK c \in Byte : t.packet = [q.packet EXCEPT ![q.pos] = c]
  BY DEF Stored
<1> QED BY <1>1, <1>2, <1>3

\* A byte keeps the parser in its fields.
LEMMA StepFields ==
    ASSUME NEW q \in Parser, Fields(q), NEW b \in Byte
    PROVE  LET next == Advance(Take(q, b)) IN
           /\ next \in Parser
           /\ ~ Complete(next) => Fields(next)
<1> DEFINE t == Take(q, b)
<1>1. t \in Parser /\ t.state = q.state /\ t.toRead = q.toRead
  BY TakeFields
<1>2. Stored(q, t) \/ Prefix(q, t)
  BY TakeFields
<1>3. q.state \in 1 .. 9 /\ q.pos \in Nat /\ q.read \in Nat /\ q.toRead \in Nat
  <2>1. /\ q.state \in 1 .. 9 /\ q.read \in Byte /\ q.toRead \in Byte
        /\ q.pos \in 0 .. MAX_PACKET_LEN
    BY ParserFields
  <2> QED BY <2>1, BufferSize DEF Byte
<1>4. q.packet[6] \in Nat /\ t.packet[6] \in Byte
  <2>1. q.packet[6] \in Byte /\ t.packet[6] \in Byte
    BY <1>1, LengthByte
  <2> QED BY <2>1 DEF Byte
<1>5. q.read < q.toRead
  BY RoomForByte
<1> HIDE DEF t
<1> SUFFICES Advance(t) \in Parser /\ (~ Complete(Advance(t)) => Fields(Advance(t)))
  BY DEF t
<1>6. CASE Prefix(q, t)
  <2>1. Advance(t) = t
    BY <1>1, <1>3, <1>5, <1>6 DEF Advance, Done, Prefix
  <2>2. Fields(t)
    BY <1>1, <1>3, <1>6 DEF Prefix, UsesSpecials, Fields
  <2> QED BY <1>1, <2>1, <2>2
<1>7. CASE Stored(q, t) /\ ~ Done(t)
  <2>1. Advance(t) = t
    BY <1>7 DEF Advance
  <2>2. q.state \in {3, 7, 8} /\ t.read < t.toRead
    BY <1>1, <1>3, <1>5, <1>7 DEF Done, Stored, Fields
  <2>3. q.state \in {7, 8} => t.packet[6] = q.packet[6]
    BY <1>3, <1>4, <1>7, LengthKept DEF Fields
  <2>4. Fields(t)
    BY <1>1, <1>3, <1>4, <1>7, <2>2, <2>3 DEF Stored, Fields
  <2> QED BY <1>1, <2>1, <2>4
<1>8. CASE Stored(q, t) /\ Done(t) /\ t.state = 9
  BY <1>1, <1>8 DEF Advance, Complete
<1>9. CASE Stored(q, t) /\ Done(t) /\ t.state # 9
  <2>1. PICK s \in 1 .. 9 : s = t.state + 1
    BY <1>1, <1>3, <1>9
  <2>2. t.pos = q.pos + 1 /\ t.read = t.toRead /\ t.read = q.read + 1 /\ t.special = 0
    BY <1>1, <1>9 DEF Stored, Done
  <2>3. s = 7 => t.pos = 7
    BY <1>1, <1>3, <2>1, <2>2 DEF Fields
  <2>4. PICK w \in Byte : w = Width(t, s)
    BY <1>1, <2>3, WidthByte
  <2>5. /\ s = 7 => w = t.packet[6]
        /\ s \in {3, 8} => w = 2
        /\ s \in {1, 2, 4, 5, 6, 9} => w = 1
    BY <1>1, <2>3, <2>4, WidthByte
  <2> DEFINE next == Advance(t)
  <2>6. /\ next \in Parser
        /\ next.read = 0
        /\ next.pos = t.pos /\ next.special = t.special
        /\ next.packet = t.packet
        /\ w # 0 => next.state = s /\ next.toRead = w
        /\ w = 0 => next.state = 8 /\ next.toRead = 2
    BY <1>1, <1>9, <2>1, <2>4, AdvanceFields
  <2>7. q.state \in {7, 8} => t.packet[6] = q.packet[6]
    BY <1>3, <1>4, <1>9, LengthKept DEF Fields
  <2>8. w \in Nat
    BY <2>4 DEF Byte
  <2>9. t.packet[6] \in Nat
    BY <1>4 DEF Byte
  <2> HIDE DEF next
  <2>10. q.state \in 1 .. 5 => Fields(next)
    BY <1>1, <1>3, <2>1, <2>2, <2>5, <2>6 DEF Fields
  <2>11. q.state = 6 => Fields(next)
    BY <1>1, <1>3, <2>1, <2>2, <2>3, <2>5, <2>6, <2>8, <2>9 DEF Fields
  <2>12. q.state = 7 => Fields(next)
    BY <1>1, <1>3, <1>4, <2>1, <2>2, <2>5, <2>6, <2>7 DEF Fields
  <2>13. q.state = 8 => Fields(next)
    BY <1>1, <1>3, <1>4, <2>1, <2>2, <2>5, <2>6, <2>7 DEF Fields
  <2> QED BY <1>1, <1>3, <1>9, <2>6, <2>10, <2>11, <2>12, <2>13 DEF next
<1> QED BY <1>2, <1>6, <1>7, <1>8, <1>9

-----------------------------------------------------------------------------
(* The updates *)

\* A word of the packet is a number.
LEMMA WordNat ==
    ASSUME NEW q \in Parser, NEW offset \in 0 .. 263
    PROVE  Word(q, offset) \in Nat
<1>1. offset \in 0 .. MAX_PACKET_LEN - 1 /\ offset + 1 \in 0 .. MAX_PACKET_LEN - 1
  BY BufferSize
<1>2. q.packet \in [0 .. MAX_PACKET_LEN - 1 -> Byte]
  BY ParserFields
<1>3. q.packet[offset] \in Byte /\ q.packet[offset + 1] \in Byte
  BY <1>1, <1>2
<1>4. q.packet[offset] \in Nat /\ q.packet[offset + 1] \in Nat
  BY <1>3 DEF Byte
<1>5. \A i, j \in Nat : i + 256 * j \in Nat
  OBVIOUS
<1> QED BY <1>4, <1>5 DEF Word

\* Only known sensors are updated, whatever the node number of the packet.
LEMMA UpdateKnown ==
    ASSUME NEW q \in Parser
    PROVE  UpdateOf(q) \in Seq(Update)
<1> DEFINE u == [sensor |-> Word(q, NODE_OFFSET) - 1,
                 batt |-> Word(q, VREF_OFFSET),
                 temp |-> Word(q, TEMPERATURE_OFFSET),
                 light |-> Word(q, LIGHT_OFFSET)]
           known == /\ q.packet[PACKET_SIGNATURE_OFFSET] = SENSOR_SIGNATURE
                    /\ Word(q, NODE_OFFSET) > 0 /\ Word(q, NODE_OFFSET) <= SensorCnt
<1>1. /\ Word(q, NODE_OFFSET) \in Nat /\ Word(q, VREF_OFFSET) \in Nat
      /\ Word(q, TEMPERATURE_OFFSET) \in Nat /\ Word(q, LIGHT_OFFSET) \in Nat
  BY WordNat DEF NODE_OFFSET, VREF_OFFSET, TEMPERATURE_OFFSET, LIGHT_OFFSET
<1>2. SensorCnt \in Nat \ {0}
  BY ProtocolAssumption
<1>3. CASE known
  <2>1. Word(q, NODE_OFFSET) - 1 \in 0 .. SensorCnt - 1
    BY <1>1, <1>2, <1>3
  <2>2. u \in Update
    BY <1>1, <2>1 DEF Update
  <2>3. UpdateOf(q) = <<u>>
    BY <1>3 DEF UpdateOf
  <2> HIDE DEF u
  <2> QED BY <2>2, <2>3
<1>4. CASE ~ known
  BY <1>4 DEF UpdateOf
<1> QED BY <1>3, <1>4

-----------------------------------------------------------------------------
(* The steps *)

\* The fields of the parser are those of its own state at every step.
LEMMA ParserStep == ParserInv /\ [Next]_vars => ParserInv'
<1> SUFFICES ASSUME ParserInv, [Next]_vars
             PROVE  ParserInv'
  OBVIOUS
<1> USE DEF ParserInv
<1>1. p \in Parser /\ Fields(p)
  <2>1. p \in Parser /\ Positioned(p)
    BY DEF TypeOK, FieldPosition, Positioned
  <2> QED BY <2>1, FieldsPosition
<1>2. ASSUME p' \in Parser, Fields(p')
      PROVE  FieldPosition'
  <2>1. Positioned(p')
    BY <1>2, FieldsPosition
  <2> QED BY <2>1 DEF FieldPosition, Positioned
<1>3. CASE Send
  <2>1. PICK fr \in Frames : /\ wire' = wire \o fr.wire
                             /\ meant' = meant \o fr.updates
                             /\ clean' = (clean /\ fr.clean)
    BY <1>3 DEF Send
  <2>2. fr.wire \in Seq(Byte) /\ fr.updates \in Seq(Update) /\ fr.clean \in BOOLEAN
    BY ProtocolAssumption
  <2>3. wire' \in Seq(Byte) /\ meant' \in Seq(Update)
    BY <2>1, <2>2 DEF TypeOK
  <2>4. clean' \in BOOLEAN
    BY <2>1, <2>2 DEF TypeOK
  <2>5. frames' \in 0 .. MaxFrames
    <3>1. MaxFrames \in Nat
      BY ProtocolAssumption
    <3> QED BY <1>3, <3>1 DEF Send, TypeOK
  <2>6. UNCHANGED <<buf, iter, p, log>>
    BY <1>3 DEF Send
  <2>7. TypeOK'
    BY <2>3, <2>4, <2>5, <2>6 DEF TypeOK
  <2> QED BY <2>6, <2>7 DEF FieldPosition
<1>4. CASE Receive
  <2>1. PICK n \in 1 .. Len(wire) : /\ buf' = SubSeq(wire, 1, n)
                                    /\ wire' = SubSeq(wire, n + 1, Len(wire))
    BY <1>4 DEF Receive
  <2>2. buf' \in Seq(Byte) /\ wire' \in Seq(Byte)
    BY <2>1 DEF TypeOK
  <2>3. iter' \in 0 .. OOPS
    BY <1>4, ProtocolAssumption DEF Receive
  <2>4. UNCHANGED <<p, log, history>>
    BY <1>4 DEF Receive
  <2>5. TypeOK'
    BY <2>2, <2>3, <2>4 DEF TypeOK, history
  <2> QED BY <2>4, <2>5 DEF FieldPosition
<1>5. CASE ParseByte
  <2> DEFINE next == Advance(Take(p, Head(buf)))
  <2>1. buf # <<>> /\ buf \in Seq(Byte)
    BY <1>5 DEF ParseByte, TypeOK
  <2>2. Head(buf) \in Byte /\ Tail(buf) \in Seq(Byte)
    BY <2>1
  <2>3. next \in Parser /\ (~ Complete(next) => Fields(next))
    BY <1>1, <2>2, StepFields
  <2>4. /\ IF Complete(next)
           THEN /\ p' = Restart(next)
                /\ log' = log \o UpdateOf(next)
                /\ buf' = <<>>
           ELSE /\ p' = next
                /\ buf' = Tail(buf)
                /\ UNCHANGED log
        /\ iter' = IF next.state = p.state THEN iter + 1 ELSE 0
        /\ iter + 1 < OOPS
        /\ UNCHANGED <<wire, history>>
    BY <1>5 DEF ParseByte
  <2> HIDE DEF next
  <2>5. p' \in Parser /\ Fields(p')
    BY <2>3, <2>4, RestartFields
  <2>6. buf' \in Seq(Byte)
    <3>1. <<>> \in Seq(Byte)
      OBVIOUS
    <3> QED BY <2>2, <2>4, <3>1, Zenon
  <2>7. log' \in Seq(Update)
    <3>1. log \in Seq(Update) /\ UpdateOf(next) \in Seq(Update)
      BY <2>3, UpdateKnown DEF TypeOK
    <3>2. log \o UpdateOf(next) \in Seq(Update)
      BY <3>1
    <3> QED BY <2>4, <3>1, <3>2, Zenon
  <2>8. iter' \in 0 .. OOPS
    <3>1. OOPS \in Nat /\ iter \in 0 .. OOPS
      BY ProtocolAssumption DEF TypeOK
    <3> QED BY <2>4, <3>1
  <2>9. TypeOK'
    BY <2>4, <2>5, <2>6, <2>7, <2>8 DEF TypeOK, history
  <2> QED BY <1>2, <2>5, <2>9
<1>6. CASE ParseFails
  <2>1. p.pos < MAX_PACKET_LEN
    BY <1>1, RoomForByte
  <2>2. p.pos # MAX_PACKET_LEN
    BY <1>1, <2>1, ParserFields, BufferSize
  <2>3. p' = p /\ buf' = <<>> /\ iter' = 0 /\ UNCHANGED <<wire, log, history>>
    BY <1>6, <2>2 DEF ParseFails
  <2>4. iter' \in 0 .. OOPS
    BY <2>3, ProtocolAssumption
  <2>5. TypeOK'
    BY <2>3, <2>4 DEF TypeOK, history
  <2> QED BY <2>3, <2>5 DEF FieldPosition
<1>7. CASE UNCHANGED vars
  BY <1>7 DEF vars, history, TypeOK, FieldPosition
<1> QED BY <1>3, <1>4, <1>5, <1>6, <1>7 DEF Next

-----------------------------------------------------------------------------
(* The theorems *)

\* Types and field positions are invariant.
LEMMA ParserInvariant == Spec => []ParserInv
<1>1. Init => ParserInv
  BY InitParser
<1>2. ParserInv /\ [Next]_vars => ParserInv'
  BY ParserStep
<1> QED BY <1>1, <1>2, PTL DEF Spec

\* The parser (lunix-protocol.c) stays within its types whatever bytes come: in
\* particular lunix_sensor_update is called for known sensors only.
THEOREM TypeCorrect == Spec => []TypeOK
<1>1. ParserInv => TypeOK
  BY DEF ParserInv
<1> QED BY <1>1, ParserInvariant, PTL

\* Every field is read at its own offset (set_state and received_buf), whatever
\* bytes come and however they are cut into buffers.
THEOREM FieldPositionTheorem == Spec => []FieldPosition
<1>1. ParserInv => FieldPosition
  BY DEF ParserInv
<1> QED BY <1>1, ParserInvariant, PTL

\* parse_state always has room for the byte it stores: its overflow guard is
\* never taken with a buffer of 265 bytes or more.
THEOREM NoOverflow == Spec => [](p.pos < MAX_PACKET_LEN)
<1>1. ParserInv => p.pos < MAX_PACKET_LEN
  <2> SUFFICES ASSUME ParserInv
               PROVE  p.pos < MAX_PACKET_LEN
    OBVIOUS
  <2>1. p \in Parser /\ Positioned(p)
    BY DEF ParserInv, TypeOK, FieldPosition, Positioned
  <2> QED BY <2>1, FieldsPosition, RoomForByte
<1> QED BY <1>1, ParserInvariant, PTL

-----------------------------------------------------------------------------
(* A byte of a packet *)

\* In its fields, the position of a parser says which field it is in.
LEMMA FieldOf ==
    ASSUME NEW q \in Parser, Fields(q)
    PROVE  q.state = FieldAt(q.pos, q.packet[6]) /\ q.pos <= 9 + q.packet[6] /\ q.pos \in Nat
<1>1. q.state \in 1 .. 9 /\ q.pos \in Nat /\ q.read \in Nat /\ q.toRead \in Nat
  <2>1. /\ q.state \in 1 .. 9 /\ q.read \in Byte /\ q.toRead \in Byte
        /\ q.pos \in 0 .. MAX_PACKET_LEN
    BY ParserFields
  <2> QED BY <2>1, BufferSize DEF Byte
<1>2. q.packet[6] \in Nat
  <2>1. q.packet[6] \in Byte
    BY LengthByte
  <2> QED BY <2>1 DEF Byte
<1>3. CASE q.state \in 1 .. 6
  <2>1. /\ q.state = 1 => q.pos = 0
        /\ q.state = 2 => q.pos = 1
        /\ q.state = 3 => q.pos \in 2 .. 3
        /\ q.state = 4 => q.pos = 4
        /\ q.state = 5 => q.pos = 5
        /\ q.state = 6 => q.pos = 6
    BY <1>1 DEF Fields
  <2> QED BY ONLY <1>1, <1>2, <1>3, <2>1 DEF FieldAt
<1>4. CASE q.state = 7
  <2>1. q.pos \in 7 .. 6 + q.packet[6]
    BY <1>1, <1>2, <1>4 DEF Fields
  <2> QED BY ONLY <1>1, <1>2, <1>4, <2>1 DEF FieldAt
<1>5. CASE q.state = 8
  <2>1. q.pos \in 7 + q.packet[6] .. 8 + q.packet[6]
    BY <1>1, <1>2, <1>5 DEF Fields
  <2> QED BY ONLY <1>1, <1>2, <1>5, <2>1 DEF FieldAt
<1>6. CASE q.state = 9
  <2>1. q.pos = 9 + q.packet[6]
    BY <1>6 DEF Fields
  <2> QED BY ONLY <1>1, <1>2, <1>6, <2>1 DEF FieldAt
<1> QED BY <1>1, <1>3, <1>4, <1>5, <1>6

LEMMA ByteNat == \A b \in Byte : b \in Nat
BY DEF Byte

\* Up to the length byte, the length does not matter; the end byte is the last.
LEMMA FieldsOfPacket ==
    ASSUME NEW a \in Nat, NEW b \in Nat
    PROVE  /\ \A k \in 0 .. 6 : FieldAt(k, a) = FieldAt(k, b)
           /\ \A k \in 0 .. 9 + a : FieldAt(k, a) = 9 <=> k = 9 + a
           /\ \A k \in Nat : FieldAt(k, a) \in 1 .. 9
BY DEF FieldAt

\* What taking a byte does with it.
LEMMA TakeByte ==
    ASSUME NEW q \in Parser, Fields(q), NEW b \in Byte
    PROVE  LET t == Take(q, b) IN
           IF UsesSpecials(q) /\ q.special = 0 /\ b \in {MARK, ESCAPE}
           THEN t.read = q.read /\ t.pos = q.pos /\ t.packet = q.packet /\ t.special = b
           ELSE /\ t.read = q.read + 1 /\ t.pos = q.pos + 1 /\ t.special = 0
                /\ t.packet = [q.packet EXCEPT ![q.pos] = IF q.special = ESCAPE THEN Flip(b) ELSE b]
<1> DEFINE t == Take(q, b)
           put(c) == [state |-> q.state, toRead |-> q.toRead, read |-> q.read + 1,
                      pos |-> q.pos + 1, special |-> 0,
                      packet |-> [q.packet EXCEPT ![q.pos] = c]]
<1>1. (UsesSpecials(q) \/ q.special = 0) /\ q.special \in {0, MARK, ESCAPE}
  BY ParserFields DEF UsesSpecials, Fields
<1>2. CASE UsesSpecials(q) /\ q.special = MARK
  <2>1. t = [Put(q, b) EXCEPT !.special = 0]
    BY <1>2 DEF Take, MARK, ESCAPE
  <2>2. t = put(b)
    BY <2>1, PutSpecial
  <2> QED BY <1>2, <2>2 DEF MARK, ESCAPE
<1>3. CASE UsesSpecials(q) /\ q.special = ESCAPE
  <2>1. t = [Put(q, Flip(b)) EXCEPT !.special = 0]
    BY <1>3 DEF Take, MARK, ESCAPE
  <2>2. t = put(Flip(b))
    BY <2>1, PutSpecial, FlipByte
  <2> QED BY <1>3, <2>2 DEF MARK, ESCAPE
<1>4. CASE UsesSpecials(q) /\ q.special = 0 /\ b \in {MARK, ESCAPE}
  <2>1. t = [q EXCEPT !.special = b]
    BY <1>4 DEF Take, MARK, ESCAPE
  <2> QED BY <1>4, <2>1 DEF Parser
<1>5. CASE q.special = 0 /\ ~ (UsesSpecials(q) /\ b \in {MARK, ESCAPE})
  <2>1. t = Put(q, b)
    BY <1>5 DEF Take, MARK, ESCAPE
  <2>2. t = put(b)
    BY <1>5, <2>1, PutFields
  <2> QED BY <1>5, <2>2 DEF MARK, ESCAPE
<1> QED BY <1>1, <1>2, <1>3, <1>4, <1>5

\* Moving on to the next field changes no byte; a packet is complete after the
\* end byte.
LEMMA AdvanceKeeps ==
    ASSUME NEW t \in Parser, Done(t) /\ t.state = 6 => t.pos = 7
    PROVE  LET next == Advance(t) IN
           /\ next.pos = t.pos /\ next.special = t.special /\ next.packet = t.packet
           /\ Complete(next) <=> t.state = 9 /\ Done(t)
<1>1. CASE ~ Done(t) \/ t.state = 9
  <2>1. Advance(t) = t
    BY <1>1 DEF Advance
  <2> QED BY <1>1, <2>1 DEF Complete
<1>2. CASE Done(t) /\ t.state # 9
  <2>1. t.state \in 1 .. 9
    BY ParserFields
  <2>2. PICK s \in 1 .. 9 : s = t.state + 1
    BY <1>2, <2>1
  <2>3. s = 7 => t.pos = 7
    BY <1>2, <2>1, <2>2
  <2>4. PICK w \in Byte : w = Width(t, s)
    BY <2>3, WidthByte
  <2> DEFINE next == Advance(t)
  <2>5. /\ next.read = 0
        /\ next.pos = t.pos /\ next.special = t.special /\ next.packet = t.packet
        /\ w # 0 => next.toRead = w
        /\ w = 0 => next.toRead = 2
    BY <1>2, <2>2, <2>4, AdvanceFields
  <2> HIDE DEF next
  <2>6. ~ Complete(next)
    BY <2>5 DEF Complete, Done
  <2> QED BY <1>2, <2>5, <2>6 DEF next
<1> QED BY <1>1, <1>2

LEMMA StepByte ==
    ASSUME NEW q \in Parser, Fields(q), NEW b \in Byte
    PROVE  LET next == Advance(Take(q, b)) IN
           IF UsesSpecials(q) /\ q.special = 0 /\ b \in {MARK, ESCAPE}
           THEN /\ next.pos = q.pos /\ next.packet = q.packet /\ next.special = b
                /\ ~ Complete(next)
           ELSE /\ next.pos = q.pos + 1 /\ next.special = 0
                /\ next.packet = [q.packet EXCEPT ![q.pos] = IF q.special = ESCAPE THEN Flip(b) ELSE b]
                /\ Complete(next) <=> q.state = 9
<1> DEFINE t == Take(q, b)
           prefix == UsesSpecials(q) /\ q.special = 0 /\ b \in {MARK, ESCAPE}
<1>1. t \in Parser /\ t.state = q.state /\ t.toRead = q.toRead
  BY TakeFields
<1>2. IF prefix
      THEN t.read = q.read /\ t.pos = q.pos /\ t.packet = q.packet /\ t.special = b
      ELSE /\ t.read = q.read + 1 /\ t.pos = q.pos + 1 /\ t.special = 0
           /\ t.packet = [q.packet EXCEPT ![q.pos] = IF q.special = ESCAPE THEN Flip(b) ELSE b]
  BY TakeByte
<1>3. q.pos \in Nat /\ q.read \in Nat /\ q.toRead \in Nat
  <2>1. q.read \in Byte /\ q.toRead \in Byte /\ q.pos \in 0 .. MAX_PACKET_LEN
    BY ParserFields
  <2> QED BY <2>1, BufferSize DEF Byte
<1>4. q.read < q.toRead
  BY RoomForByte
<1> HIDE DEF t, prefix
<1>5. Done(t) => ~ prefix
  BY <1>1, <1>2, <1>3, <1>4 DEF Done
<1>6. Done(t) /\ t.state = 6 => t.pos = 7
  BY <1>1, <1>2, <1>3, <1>5 DEF Fields
<1>7. t.state = 9 /\ ~ prefix => Done(t)
  BY <1>1, <1>2, <1>3 DEF Done, Fields
<1>8. /\ Advance(t).pos = t.pos /\ Advance(t).special = t.special /\ Advance(t).packet = t.packet
      /\ Complete(Advance(t)) <=> t.state = 9 /\ Done(t)
  BY <1>1, <1>6, AdvanceKeeps
<1>9. IF prefix
      THEN /\ Advance(t).pos = q.pos /\ Advance(t).packet = q.packet /\ Advance(t).special = b
           /\ ~ Complete(Advance(t))
      ELSE /\ Advance(t).pos = q.pos + 1 /\ Advance(t).special = 0
           /\ Advance(t).packet = [q.packet EXCEPT ![q.pos] = IF q.special = ESCAPE THEN Flip(b) ELSE b]
           /\ Complete(Advance(t)) <=> q.state = 9
  BY <1>1, <1>2, <1>5, <1>7, <1>8
<1> QED BY <1>9 DEF t, prefix

-----------------------------------------------------------------------------
(* A packet *)

\* A parser has read the first i bytes of a frame.
Parsed(q, w, packet, at, i) ==
    /\ i \in 0 .. Len(w) - 1
    /\ q.pos = at[i]
    /\ \A k \in 0 .. at[i] - 1 : q.packet[k] = packet[k]
    /\ q.special = IF i > 0 /\ at[i] = at[i - 1] THEN w[i] ELSE 0

\* The length byte, once it is read, is the packet's.
LEMMA ParsedField ==
    ASSUME NEW q \in Parser, Fields(q), NEW w, NEW packet, NEW at, NEW i,
           Len(w) \in Nat, Spells(w, packet, at), Parsed(q, w, packet, at, i)
    PROVE  /\ at[i] \in 0 .. 9 + packet[6]
           /\ q.state = FieldAt(at[i], packet[6])
<1>1. packet[6] \in Byte /\ q.packet[6] \in Byte
  BY LengthByte, BufferSize DEF Spells
<1>2. packet[6] \in Nat /\ q.packet[6] \in Nat
  BY <1>1, ByteNat
<1>3. i \in 0 .. Len(w) /\ at[i] \in Nat /\ q.pos = at[i]
  BY DEF Spells, Parsed
<1>4. q.state = FieldAt(at[i], q.packet[6])
  BY <1>3, FieldOf
<1>5. CASE at[i] <= 6
  BY <1>2, <1>3, <1>4, <1>5, FieldsOfPacket
<1>6. CASE at[i] > 6
  <2>1. q.packet[6] = packet[6]
    BY <1>3, <1>6 DEF Parsed
  <2> QED BY <1>2, <1>3, <1>4, <2>1, FieldOf
<1> QED BY <1>3, <1>5, <1>6

\* The update that a packet causes is the one it means.
LEMMA SameUpdate ==
    ASSUME NEW q \in Parser, NEW packet \in [0 .. MAX_PACKET_LEN - 1 -> Byte],
           packet[PACKET_SIGNATURE_OFFSET] = SENSOR_SIGNATURE => packet[6] >= 17,
           \A k \in 0 .. 9 + packet[6] : q.packet[k] = packet[k]
    PROVE  UpdateOf(q) = Means(packet)
<1>1. packet[6] \in Nat
  <2>1. packet[6] \in Byte
    BY BufferSize
  <2> QED BY <2>1, ByteNat
<1>2. q.packet[4] = packet[4]
  BY <1>1
<1>3. CASE packet[4] # SENSOR_SIGNATURE
  BY <1>2, <1>3 DEF UpdateOf, Means, PACKET_SIGNATURE_OFFSET
<1>4. CASE packet[4] = SENSOR_SIGNATURE
  <2>1. \A k \in 0 .. 23 : q.packet[k] = packet[k]
    BY <1>1, <1>4 DEF PACKET_SIGNATURE_OFFSET
  <2>2. ASSUME NEW offset \in 0 .. 22
        PROVE  Word(q, offset) = packet[offset] + 256 * packet[offset + 1]
    <3>1. offset \in 0 .. 23 /\ offset + 1 \in 0 .. 23
      OBVIOUS
    <3>2. q.packet[offset] = packet[offset] /\ q.packet[offset + 1] = packet[offset + 1]
      BY <2>1, <3>1
    <3> QED BY <3>2 DEF Word
  <2>3. /\ Word(q, 9) = packet[9] + 256 * packet[9 + 1]
        /\ Word(q, 18) = packet[18] + 256 * packet[18 + 1]
        /\ Word(q, 20) = packet[20] + 256 * packet[20 + 1]
        /\ Word(q, 22) = packet[22] + 256 * packet[22 + 1]
    BY <2>2
  <2>4. /\ packet[9] \in Nat /\ packet[9 + 1] \in Nat
    BY BufferSize, ByteNat
  <2> QED BY <1>2, <1>4, <2>3, <2>4 DEF UpdateOf, Means, PACKET_SIGNATURE_OFFSET, NODE_OFFSET,
                            VREF_OFFSET, TEMPERATURE_OFFSET, LIGHT_OFFSET
<1> QED BY <1>3, <1>4

\* The next byte of a frame: the parser has then read one more of them, or all,
\* and they are acted upon as they should.
LEMMA ByteParsed ==
    ASSUME NEW q \in Parser, Fields(q), NEW fr, NEW packet, NEW at, NEW i,
           fr.wire \in Seq(Byte), IsPacket(fr, packet, at), Parsed(q, fr.wire, packet, at, i)
    PROVE  LET w == fr.wire
               next == Advance(Take(q, w[i + 1]))
           IN  IF Complete(next)
               THEN i + 1 = Len(w) /\ UpdateOf(next) = fr.updates
               ELSE Parsed(next, w, packet, at, i + 1)
<1> DEFINE w == fr.wire
           len == packet[6]
           b == w[i + 1]
           next == Advance(Take(q, b))
           k == at[i]
           inner == FieldAt(k, len) \in 3 .. 8
           second == i > 0 /\ at[i] = at[i - 1]
<1>1. /\ Len(w) \in Nat /\ i \in Nat /\ i < Len(w) /\ b \in Byte
      /\ Spells(w, packet, at)
  <2>1. i \in 0 .. Len(w) - 1 /\ w \in Seq(Byte) /\ Spells(w, packet, at)
    BY DEF Parsed, IsPacket
  <2> QED BY <2>1
<1>2. /\ packet \in [0 .. MAX_PACKET_LEN - 1 -> Byte] /\ at \in [0 .. Len(w) -> Nat]
      /\ at[Len(w)] = 10 + len /\ len \in Nat /\ k \in Nat /\ at[i + 1] \in Nat
  <2>1. packet \in [0 .. MAX_PACKET_LEN - 1 -> Byte] /\ at \in [0 .. Len(w) -> Nat] /\ at[Len(w)] = 10 + len
    BY <1>1 DEF Spells
  <2>2. len \in Byte
    BY <2>1, BufferSize
  <2>3. len \in Nat
    BY <2>2, ByteNat
  <2> QED BY <1>1, <2>1, <2>3
<1>3. /\ k <= 9 + len
      /\ \/ /\ at[i + 1] = k
            /\ inner /\ ~ second /\ b \in {MARK, ESCAPE}
         \/ /\ at[i + 1] = k + 1
            /\ inner /\ ~ second => b \notin {MARK, ESCAPE}
            /\ packet[k] = IF second /\ w[i] = ESCAPE THEN Flip(b) ELSE b
  <2>1. i + 1 \in 1 .. Len(w) /\ (i + 1) - 1 = i /\ (i + 1) - 2 = i - 1 /\ (i + 1 > 1 <=> i > 0)
    BY <1>1
  <2>2. \A j \in 1 .. Len(w) :
           /\ at[j - 1] <= 9 + len
           /\ \/ /\ at[j] = at[j - 1]
                 /\ FieldAt(at[j - 1], len) \in 3 .. 8 /\ ~ (j > 1 /\ at[j - 1] = at[j - 2])
                 /\ w[j] \in {MARK, ESCAPE}
              \/ /\ at[j] = at[j - 1] + 1
                 /\ FieldAt(at[j - 1], len) \in 3 .. 8 /\ ~ (j > 1 /\ at[j - 1] = at[j - 2])
                      => w[j] \notin {MARK, ESCAPE}
                 /\ packet[at[j - 1]] = IF (j > 1 /\ at[j - 1] = at[j - 2]) /\ w[j - 1] = ESCAPE
                                        THEN Flip(w[j]) ELSE w[j]
    BY <1>1 DEF Spells
  <2> QED BY <2>1, <2>2
<1>4. second => w[i] \in {MARK, ESCAPE}
  <2>1. ASSUME second PROVE w[i] \in {MARK, ESCAPE}
    <3>1. i \in 1 .. Len(w) /\ at[i] = at[i - 1] /\ at[i - 1] \in Nat
      BY <1>1, <1>2, <2>1
    <3>2. (at[i] = at[i - 1] /\ w[i] \in {MARK, ESCAPE}) \/ at[i] = at[i - 1] + 1
      BY <1>1, <3>1 DEF Spells
    <3> QED BY <3>1, <3>2
  <2> QED BY <2>1
<1>5. i + 1 < Len(w) => at[i + 1] <= 9 + len
  <2>1. ASSUME i + 1 < Len(w) PROVE at[i + 1] <= 9 + len
    <3>1. i + 2 \in 1 .. Len(w) /\ (i + 2) - 1 = i + 1
      BY <1>1, <2>1
    <3>2. \A j \in 1 .. Len(w) : at[j - 1] <= 9 + len
      BY <1>1 DEF Spells
    <3> QED BY <3>1, <3>2
  <2> QED BY <2>1
<1>6. /\ q.pos = k /\ \A j \in 0 .. k - 1 : q.packet[j] = packet[j]
      /\ q.special = IF second THEN w[i] ELSE 0
  BY DEF Parsed
<1>7. q.state = FieldAt(k, len)
  BY <1>1, ParsedField
<1>8. /\ UsesSpecials(q) <=> inner
      /\ q.special = 0 <=> ~ second
      /\ q.special = ESCAPE <=> second /\ w[i] = ESCAPE
  <2>1. FieldAt(k, len) \in 1 .. 9
    BY <1>2, FieldsOfPacket
  <2>2. UsesSpecials(q) <=> inner
    BY <1>7, <2>1 DEF UsesSpecials
  <2> HIDE DEF second
  <2> QED BY <1>4, <1>6, <2>2 DEF MARK, ESCAPE
<1>9. q.state = 9 <=> k = 9 + len
  BY <1>2, <1>3, <1>7, FieldsOfPacket
<1>10. q.packet \in [0 .. MAX_PACKET_LEN - 1 -> Byte] /\ k \in 0 .. MAX_PACKET_LEN - 1
  BY <1>2, <1>6, ParserFields, RoomForByte, BufferSize
<1>11. next \in Parser
  BY <1>1, StepFields
<1>12. IF UsesSpecials(q) /\ q.special = 0 /\ b \in {MARK, ESCAPE}
       THEN /\ next.pos = q.pos /\ next.packet = q.packet /\ next.special = b
            /\ ~ Complete(next)
       ELSE /\ next.pos = q.pos + 1 /\ next.special = 0
            /\ next.packet = [q.packet EXCEPT ![q.pos] = IF q.special = ESCAPE THEN Flip(b) ELSE b]
            /\ Complete(next) <=> q.state = 9
  BY <1>1, StepByte
<1>13. /\ (i + 1) - 1 = i /\ i + 1 > 0
       /\ i + 1 \in 0 .. Len(w) - 1 <=> i + 1 # Len(w)
  BY <1>1
<1> HIDE DEF next, b, w, len, inner
<1>14. CASE at[i + 1] = k /\ inner /\ ~ second /\ b \in {MARK, ESCAPE}
  <2>1. next.pos = k /\ next.packet = q.packet /\ next.special = b /\ ~ Complete(next)
    BY <1>6, <1>8, <1>12, <1>14
  <2>2. i + 1 # Len(w)
    BY <1>2, <1>3, <1>14
  <2>3. Parsed(next, w, packet, at, i + 1)
    BY <1>6, <1>13, <1>14, <2>1, <2>2 DEF Parsed, b
  <2> QED BY <2>1, <2>3 DEF next, b, w
<1>15. CASE /\ at[i + 1] = k + 1
            /\ inner /\ ~ second => b \notin {MARK, ESCAPE}
            /\ packet[k] = IF second /\ w[i] = ESCAPE THEN Flip(b) ELSE b
  <2>1. /\ next.pos = k + 1 /\ next.special = 0
        /\ next.packet = [q.packet EXCEPT ![k] = packet[k]]
        /\ Complete(next) <=> k = 9 + len
    BY <1>6, <1>8, <1>9, <1>12, <1>15
  <2>2. ASSUME NEW j \in 0 .. k PROVE next.packet[j] = packet[j]
    <3>1. j \in 0 .. MAX_PACKET_LEN - 1 /\ (j = k \/ j \in 0 .. k - 1)
      BY <1>2, <1>10, BufferSize
    <3> QED BY <1>6, <1>10, <2>1, <3>1
  <2>3. CASE k = 9 + len
    <3>1. i + 1 = Len(w)
      BY <1>1, <1>2, <1>5, <1>15, <2>3
    <3>2. UpdateOf(next) = Means(packet)
      BY <1>2, <1>11, <2>2, <2>3, SameUpdate DEF IsPacket, len
    <3> QED BY <2>1, <2>3, <3>1, <3>2 DEF next, b, w, IsPacket
  <2>4. CASE k # 9 + len
    <3>1. i + 1 # Len(w)
      BY <1>2, <1>3, <1>15, <2>4
    <3>2. at[i + 1] # k /\ at[i + 1] - 1 = k
      BY <1>2, <1>15
    <3>3. Parsed(next, w, packet, at, i + 1)
      BY <1>13, <1>15, <2>1, <2>2, <3>1, <3>2 DEF Parsed
    <3> QED BY <2>1, <2>4, <3>3 DEF next, b, w
  <2> QED BY <2>3, <2>4
<1> QED BY <1>3, <1>14, <1>15

-----------------------------------------------------------------------------
(* The updates are those that were sent *)

\* The last n bytes of the first i were taken in the field that the parser is in.
Turns(packet, at, i, n) ==
    n \in 0 .. i /\ FieldAt(at[i - n], packet[6]) = FieldAt(at[i], packet[6])

\* The parser has read the first i bytes of a frame, and goes on with it.
Reading(fr, packet, at, i) ==
    /\ fr.clean /\ IsPacket(fr, packet, at)
    /\ Parsed(p, fr.wire, packet, at, i)
    /\ buf # <<>> => Turns(packet, at, i, iter)
    /\ \A k \in 1 .. Len(buf) : buf[k] = fr.wire[i + k]

\* The rest of the frame is on its way; or it has all been handed over, and the
\* next one is sent already.
LastFrame(fr, i) ==
    /\ Len(buf) + Len(wire) = Len(fr.wire) - i
    /\ \A k \in 1 .. Len(wire) : wire[k] = fr.wire[i + Len(buf) + k]
    /\ meant = log \o fr.updates

OneBehind(fr, i) ==
    /\ Len(buf) = Len(fr.wire) - i
    /\ \E next \in Frames : /\ next.clean /\ wire = next.wire
                            /\ meant = (log \o fr.updates) \o next.updates

Idle == p.state = SEEKING_START_BYTE /\ buf = <<>> /\ wire = <<>> /\ log = meant

Busy(fr, packet, at, i) == Reading(fr, packet, at, i) /\ (LastFrame(fr, i) \/ OneBehind(fr, i))

FrameInv == clean => Idle \/ \E fr \in Frames : \E packet, at, i : Busy(fr, packet, at, i)

\* A parser between two packets can read any.
LEMMA NewFrame ==
    ASSUME NEW q \in Parser, Fields(q), q.state = 1,
           NEW fr \in Frames, NEW packet, NEW at, IsPacket(fr, packet, at)
    PROVE  Parsed(q, fr.wire, packet, at, 0) /\ Len(fr.wire) \in Nat \ {0}
<1>1. fr.wire \in Seq(Byte) /\ Len(fr.wire) \in Nat
  BY ProtocolAssumption
<1>2. at[0] = 0 /\ at[Len(fr.wire)] = 10 + packet[6] /\ packet[6] \in Nat
  <2>1. at[0] = 0 /\ at[Len(fr.wire)] = 10 + packet[6] /\ packet[6] \in Byte
    BY BufferSize DEF IsPacket, Spells
  <2> QED BY <2>1, ByteNat
<1>3. Len(fr.wire) # 0
  BY <1>2
<1>4. q.pos = 0 /\ q.special = 0
  BY DEF Fields
<1> QED BY <1>1, <1>2, <1>3, <1>4 DEF Parsed

\* The parser in its own fields.
LEMMA ParserOwn == ParserInv => p \in Parser /\ Fields(p)
<1>1. ParserInv => p \in Parser /\ Positioned(p)
  BY DEF ParserInv, TypeOK, FieldPosition, Positioned
<1> QED BY <1>1, FieldsPosition

\* The bytes that are left.
LEMMA BytesLeft ==
    ASSUME ParserInv, NEW fr \in Frames, NEW packet, NEW at, NEW i, Reading(fr, packet, at, i)
    PROVE  /\ fr.wire \in Seq(Byte) /\ i \in Nat /\ Len(fr.wire) \in Nat /\ i < Len(fr.wire)
           /\ buf \in Seq(Byte) /\ wire \in Seq(Byte) /\ Len(buf) \in Nat /\ Len(wire) \in Nat
           /\ buf # <<>> => Len(buf) > 0
<1>1. fr.wire \in Seq(Byte) /\ i \in 0 .. Len(fr.wire) - 1
  BY ProtocolAssumption DEF Reading, Parsed
<1>2. buf \in Seq(Byte) /\ wire \in Seq(Byte)
  BY DEF ParserInv, TypeOK
<1> QED BY <1>1, <1>2

LEMMA SendFrames ==
    ASSUME ParserInv, ParserInv', FrameInv, CleanFramesArePackets, ~ Burst, Send, clean'
    PROVE  FrameInv'
<1>1. PICK next \in Frames : wire' = wire \o next.wire /\ meant' = meant \o next.updates
                             /\ clean' = (clean /\ next.clean)
  BY DEF Send
<1>2. wire = <<>> /\ clean /\ next.clean /\ UNCHANGED <<buf, iter, p, log>>
  BY <1>1 DEF Send
<1>3. next.wire \in Seq(Byte) /\ wire' = next.wire
  <2>1. next.wire \in Seq(Byte)
    BY ProtocolAssumption
  <2> QED BY <1>1, <1>2, <2>1
<1>4. PICK packet, at : IsPacket(next, packet, at)
  BY <1>2 DEF CleanFramesArePackets
<1>5. p \in Parser /\ Fields(p)
  BY ParserOwn
<1>6. CASE Idle
  <2>1. Parsed(p, next.wire, packet, at, 0)
    BY <1>4, <1>5, <1>6, NewFrame DEF Idle
  <2>2. buf' = <<>> /\ p' = p /\ log' = log /\ meant' = log \o next.updates
    BY <1>1, <1>2, <1>6 DEF Idle
  <2>3. Reading(next, packet, at, 0)'
    BY <1>2, <1>4, <2>1, <2>2 DEF Reading
  <2>4. LastFrame(next, 0)'
    BY <1>3, <2>2 DEF LastFrame
  <2> QED BY <2>3, <2>4 DEF FrameInv, Busy
<1>7. ASSUME NEW fr \in Frames, NEW pk, NEW to, NEW i, Busy(fr, pk, to, i) PROVE FrameInv'
  <2>1. Reading(fr, pk, to, i)'
    BY <1>2, <1>7 DEF Busy, Reading
  <2>2. LastFrame(fr, i)
    <3>1. ASSUME OneBehind(fr, i) PROVE FALSE
      <4>1. PICK other \in Frames : other.clean /\ wire = other.wire
        BY <3>1 DEF OneBehind
      <4>2. PICK a, b : IsPacket(other, a, b)
        BY <4>1 DEF CleanFramesArePackets
      <4>3. at[0] = 0 => other.wire # <<>>
        <5>1. b[0] = 0 /\ b[Len(other.wire)] = 10 + a[6] /\ a[6] \in Byte
          BY <4>2, BufferSize DEF IsPacket, Spells
        <5>2. a[6] \in Nat
          BY <5>1, ByteNat
        <5> QED BY <5>1, <5>2
      <4>4. at[0] = 0
        BY <1>4 DEF IsPacket, Spells
      <4> QED BY <1>2, <4>1, <4>3, <4>4
    <3> QED BY <1>7, <3>1 DEF Busy
  <2>3. Len(buf) = Len(fr.wire) - i
    BY <1>2, <1>7, <2>2, BytesLeft DEF LastFrame, Busy
  <2>4. meant' = (log \o fr.updates) \o next.updates
    BY <1>1, <2>2 DEF LastFrame
  <2>5. OneBehind(fr, i)'
    BY <1>2, <1>3, <2>3, <2>4 DEF OneBehind
  <2> QED BY <2>1, <2>5 DEF FrameInv, Busy
<1> QED BY <1>2, <1>6, <1>7 DEF FrameInv

LEMMA ReceiveFrames ==
    ASSUME ParserInv, FrameInv, Receive, clean'
    PROVE  FrameInv'
<1>1. PICK n \in 1 .. Len(wire) :
         buf' = SubSeq(wire, 1, n) /\ wire' = SubSeq(wire, n + 1, Len(wire))
  BY DEF Receive
<1>2. buf = <<>> /\ iter' = 0 /\ clean /\ UNCHANGED <<p, log, meant>>
  BY DEF Receive, history
<1>3. /\ wire \in Seq(Byte) /\ Len(wire) \in Nat /\ n \in Nat /\ n >= 1 /\ n <= Len(wire)
      /\ Len(buf') = n /\ Len(wire') = Len(wire) - n
      /\ \A k \in 1 .. n : buf'[k] = wire[k]
      /\ \A k \in 1 .. Len(wire) - n : wire'[k] = wire[n + k]
  <2>1. wire \in Seq(Byte)
    BY DEF ParserInv, TypeOK
  <2>2. Len(wire) \in Nat /\ n \in Nat /\ n >= 1 /\ n <= Len(wire)
    BY <2>1
  <2>3. Len(buf') = n /\ \A k \in 1 .. n : buf'[k] = wire[k]
    BY ONLY <1>1, <2>1, <2>2
  <2>4. Len(wire') = Len(wire) - n /\ \A k \in 1 .. Len(wire) - n : wire'[k] = wire[n + k]
    BY ONLY <1>1, <2>1, <2>2
  <2> QED BY <2>1, <2>2, <2>3, <2>4
<1>4. ~ Idle
  BY <1>3 DEF Idle
<1>b. PICK fr \in Frames : \E packet, at, i : Busy(fr, packet, at, i)
  BY <1>2, <1>4 DEF FrameInv
<1>5. PICK packet, at, i : Busy(fr, packet, at, i)
  BY <1>b
<1>6. /\ Len(fr.wire) \in Nat /\ i \in Nat /\ i < Len(fr.wire) /\ Len(buf) = 0
      /\ fr.wire \in Seq(Byte)
  BY <1>2, <1>5, BytesLeft DEF Busy
<1>7. LastFrame(fr, i)
  <2>1. OneBehind(fr, i) => Len(buf) = Len(fr.wire) - i
    BY DEF OneBehind
  <2>2. LastFrame(fr, i) \/ OneBehind(fr, i)
    BY <1>5 DEF Busy
  <2>3. Len(buf) # Len(fr.wire) - i
    BY <1>6
  <2> QED BY <2>1, <2>2, <2>3
<1>8. /\ Len(wire) = Len(fr.wire) - i /\ meant = log \o fr.updates
      /\ \A k \in 1 .. Len(wire) : wire[k] = fr.wire[i + k]
  BY <1>3, <1>6, <1>7 DEF LastFrame
<1>9. \A k \in 1 .. Len(buf') : buf'[k] = fr.wire[i + k]
  <2>1. ASSUME NEW k \in 1 .. Len(buf') PROVE buf'[k] = fr.wire[i + k]
    <3>1. k \in 1 .. n /\ k \in 1 .. Len(wire)
      BY <1>3
    <3> QED BY <1>3, <1>8, <3>1
  <2> QED BY <2>1
<1>10. \A k \in 1 .. Len(wire') : wire'[k] = fr.wire[i + Len(buf') + k]
  <2>1. ASSUME NEW k \in 1 .. Len(wire') PROVE wire'[k] = fr.wire[i + Len(buf') + k]
    <3>1. n + k \in 1 .. Len(wire) /\ wire'[k] = wire[n + k] /\ i + (n + k) = i + Len(buf') + k
      BY <1>3, <1>6
    <3> QED BY <1>8, <3>1
  <2> QED BY <2>1
<1>11. Turns(packet, at, i, iter')
  BY <1>2, <1>6 DEF Turns
<1>12. Reading(fr, packet, at, i)'
  BY <1>2, <1>5, <1>9, <1>11 DEF Busy, Reading
<1>13. LastFrame(fr, i)'
  BY <1>2, <1>3, <1>6, <1>8, <1>10 DEF LastFrame
<1> QED BY <1>12, <1>13 DEF FrameInv, Busy

\* A debug build does not give up on a packet.
LEMMA TurnsAllowed ==
    ASSUME ParserInv, NEW fr \in Frames, NEW packet, NEW at, NEW i,
           Reading(fr, packet, at, i), buf # <<>>
    PROVE  iter + 1 < OOPS
<1>1. i \in Nat /\ i < Len(fr.wire) /\ Len(fr.wire) \in Nat /\ Turns(packet, at, i, iter)
  BY BytesLeft DEF Reading
<1>2. iter \in 0 .. i /\ FieldAt(at[i - iter], packet[6]) = FieldAt(at[i], packet[6])
  BY <1>1 DEF Turns
<1> DEFINE a == i - iter + 1
           b == i + 1
<1>3. /\ a \in 1 .. Len(fr.wire) /\ b \in 1 .. Len(fr.wire)
      /\ a - 1 = i - iter /\ b - 1 = i /\ b - a + 1 = iter + 1
  BY <1>1, <1>2
<1>4. FieldAt(at[a - 1], packet[6]) = FieldAt(at[b - 1], packet[6]) => b - a + 1 < OOPS
  <2> HIDE DEF a, b
  <2> QED BY <1>3 DEF Reading, IsPacket
<1> QED BY <1>2, <1>3, <1>4

LEMMA ByteFrames ==
    ASSUME ParserInv, ParserInv', FrameInv, CleanFramesArePackets, ParseByte, clean'
    PROVE  FrameInv'
<1> DEFINE after == Advance(Take(p, Head(buf)))
<1>0. /\ buf # <<>> /\ clean /\ UNCHANGED <<wire, meant>>
      /\ IF Complete(after)
         THEN p' = Restart(after) /\ log' = log \o UpdateOf(after) /\ buf' = <<>>
         ELSE p' = after /\ buf' = Tail(buf) /\ UNCHANGED log
      /\ iter' = IF after.state = p.state THEN iter + 1 ELSE 0
  BY DEF ParseByte, history
<1>b. PICK fr \in Frames : \E packet, at, i : Busy(fr, packet, at, i)
  BY <1>0 DEF FrameInv, Idle
<1>1. PICK packet, at, i : Busy(fr, packet, at, i)
  BY <1>b
<1>2. /\ fr.wire \in Seq(Byte) /\ i \in Nat /\ Len(fr.wire) \in Nat /\ i < Len(fr.wire)
      /\ buf \in Seq(Byte) /\ wire \in Seq(Byte) /\ Len(buf) \in Nat /\ Len(wire) \in Nat
      /\ Len(buf) > 0
  BY <1>0, <1>1, BytesLeft DEF Busy
<1>3. /\ Head(buf) = fr.wire[i + 1]
      /\ Len(Tail(buf)) = Len(buf) - 1
      /\ \A k \in 1 .. Len(buf) - 1 : Tail(buf)[k] = fr.wire[(i + 1) + k]
  <2>1. \A k \in 1 .. Len(buf) : buf[k] = fr.wire[i + k]
    BY <1>1 DEF Busy, Reading
  <2>2. Head(buf) = buf[1] /\ Len(Tail(buf)) = Len(buf) - 1
        /\ \A k \in 1 .. Len(buf) - 1 : Tail(buf)[k] = buf[k + 1]
    BY ONLY <1>2
  <2>3. \A k \in 1 .. Len(buf) - 1 : k + 1 \in 1 .. Len(buf) /\ i + (k + 1) = (i + 1) + k
    BY <1>2
  <2>4. 1 \in 1 .. Len(buf)
    BY <1>2
  <2> QED BY <2>1, <2>2, <2>3, <2>4
<1>4. p \in Parser /\ Fields(p) /\ p' \in Parser /\ Fields(p')
  <2>1. ParserInv' => p' \in Parser /\ Positioned(p')
    BY DEF ParserInv, TypeOK, FieldPosition, Positioned
  <2> QED BY <2>1, ParserOwn, FieldsPosition
<1>5. IsPacket(fr, packet, at) /\ Parsed(p, fr.wire, packet, at, i) /\ fr.clean
  BY <1>1 DEF Busy, Reading
<1>6. IF Complete(after)
      THEN i + 1 = Len(fr.wire) /\ UpdateOf(after) = fr.updates
      ELSE Parsed(after, fr.wire, packet, at, i + 1)
  <2>1. after = Advance(Take(p, fr.wire[i + 1]))
    BY <1>3
  <2> HIDE DEF after
  <2> QED BY <1>2, <1>4, <1>5, <2>1, ByteParsed
<1> HIDE DEF after
<1>7. CASE Complete(after)
  <2>1. /\ i + 1 = Len(fr.wire) /\ log' = log \o fr.updates /\ buf' = <<>>
        /\ p' = Restart(after)
    BY <1>0, <1>6, <1>7
  <2>2. p'.state = 1
    <3>1. Complete(after) => Restart(after).state = 1
      BY RestartState, <1>2, <1>3, <1>4, StepFields DEF after
    <3> QED BY <1>7, <2>1, <3>1
  <2>3. CASE LastFrame(fr, i)
    <3>1. Len(wire) = 0 /\ meant = log \o fr.updates
      BY <1>2, <2>1, <2>3 DEF LastFrame
    <3>2. wire = <<>>
      BY <1>2, <3>1
    <3>3. Idle'
      BY <1>0, <2>1, <2>2, <3>1, <3>2 DEF Idle
    <3> QED BY <3>3 DEF FrameInv
  <2>4. CASE OneBehind(fr, i)
    <3>1. PICK next \in Frames : next.clean /\ wire = next.wire
                                 /\ meant = (log \o fr.updates) \o next.updates
      BY <2>4 DEF OneBehind
    <3>2. PICK pk, to : IsPacket(next, pk, to)
      BY <3>1 DEF CleanFramesArePackets
    <3>3. Parsed(p', next.wire, pk, to, 0)
      BY <1>4, <2>2, <3>2, NewFrame
    <3>4. Reading(next, pk, to, 0)'
      BY <2>1, <3>1, <3>2, <3>3 DEF Reading
    <3>5. LastFrame(next, 0)'
      BY <1>0, <1>2, <2>1, <3>1 DEF LastFrame
    <3> QED BY <3>4, <3>5 DEF FrameInv, Busy
  <2> QED BY <1>1, <2>3, <2>4 DEF Busy
<1>8. CASE ~ Complete(after)
  <2>1. /\ p' = after /\ buf' = Tail(buf) /\ log' = log
        /\ Parsed(p', fr.wire, packet, at, i + 1)
    BY <1>0, <1>6, <1>8
  <2>2. Spells(fr.wire, packet, at)
    BY <1>5 DEF IsPacket
  <2>3. p.state = FieldAt(at[i], packet[6]) /\ p'.state = FieldAt(at[i + 1], packet[6])
    BY <1>2, <1>4, <1>5, <2>1, <2>2, ParsedField
  <2>4. Turns(packet, at, i, iter) /\ iter' = IF p'.state = p.state THEN iter + 1 ELSE 0
    BY <1>0, <1>1, <2>1 DEF Busy, Reading
  <2>5. Turns(packet, at, i + 1, iter')
    <3>1. CASE p'.state = p.state
      <4>1. /\ iter' = iter + 1 /\ iter \in 0 .. i
            /\ FieldAt(at[i - iter], packet[6]) = FieldAt(at[i], packet[6])
        BY <2>4, <3>1 DEF Turns
      <4>2. (i + 1) - iter' = i - iter /\ iter' \in 0 .. i + 1
        BY <1>2, <4>1
      <4> QED BY <2>3, <3>1, <4>1, <4>2 DEF Turns
    <3>2. CASE p'.state # p.state
      BY <1>2, <2>4, <3>2 DEF Turns
    <3> QED BY <3>1, <3>2
  <2>6. Reading(fr, packet, at, i + 1)'
    BY <1>3, <1>5, <2>1, <2>5 DEF Reading
  <2>7. CASE LastFrame(fr, i)
    <3>1. /\ Len(buf) + Len(wire) = Len(fr.wire) - i
          /\ \A k \in 1 .. Len(wire) : wire[k] = fr.wire[i + Len(buf) + k]
          /\ meant = log \o fr.updates
      BY <2>7 DEF LastFrame
    <3>2. /\ Len(buf') + Len(wire') = Len(fr.wire) - (i + 1)
          /\ (i + 1) + Len(buf') = i + Len(buf)
      BY <1>0, <1>2, <1>3, <2>1, <3>1
    <3>3. LastFrame(fr, i + 1)'
      BY <1>0, <2>1, <3>1, <3>2 DEF LastFrame
    <3> QED BY <2>6, <3>3 DEF FrameInv, Busy
  <2>8. CASE OneBehind(fr, i)
    <3>1. Len(buf') = Len(fr.wire) - (i + 1)
      BY <1>2, <1>3, <2>1, <2>8 DEF OneBehind
    <3>2. OneBehind(fr, i + 1)'
      BY <1>0, <2>1, <2>8, <3>1 DEF OneBehind
    <3> QED BY <2>6, <3>2 DEF FrameInv, Busy
  <2> QED BY <1>1, <2>7, <2>8 DEF Busy
<1> QED BY <1>7, <1>8

\* The parser does not give up on a packet.
LEMMA NoFailure ==
    ASSUME ParserInv, FrameInv, ParseFails
    PROVE  ~ clean
<1> SUFFICES ASSUME clean PROVE FALSE
  OBVIOUS
<1>1. buf # <<>> /\ (iter + 1 >= OOPS \/ p.pos = MAX_PACKET_LEN)
  BY DEF ParseFails
<1>b. PICK fr \in Frames : \E packet, at, i : Busy(fr, packet, at, i)
  BY <1>1 DEF FrameInv, Idle
<1>2. PICK packet, at, i : Busy(fr, packet, at, i)
  BY <1>b
<1>3. iter + 1 < OOPS
  BY <1>1, <1>2, TurnsAllowed DEF Busy
<1>4. p.pos < MAX_PACKET_LEN
  BY ParserOwn, RoomForByte
<1>5. iter \in Nat /\ OOPS \in Nat /\ MAX_PACKET_LEN \in Nat
  BY ProtocolAssumption DEF ParserInv, TypeOK
<1> QED BY <1>1, <1>3, <1>4, <1>5

LEMMA InitFrames == Init => FrameInv
BY DEF Init, InitialParser, FrameInv, Idle

LEMMA NextFrames ==
    ASSUME CleanFramesArePackets, ~ Burst
    PROVE  ParserInv /\ FrameInv /\ [Next]_vars => FrameInv'
<1> SUFFICES ASSUME ParserInv, FrameInv, [Next]_vars PROVE FrameInv'
  OBVIOUS
<1>1. ParserInv'
  BY ParserStep
<1>2. CASE UNCHANGED vars
  <2>1. ASSUME NEW fr \in Frames, NEW packet, NEW at, NEW i, Busy(fr, packet, at, i)
        PROVE  Busy(fr, packet, at, i)'
    BY <1>2, <2>1 DEF vars, history, Busy, Reading, LastFrame, OneBehind
  <2>2. Idle => Idle'
    BY <1>2 DEF vars, history, Idle
  <2>3. clean' = clean
    BY <1>2 DEF vars, history
  <2> QED BY <2>1, <2>2, <2>3 DEF FrameInv
<1>3. CASE ParseFails
  <2>1. ~ clean' 
    BY <1>3, NoFailure DEF ParseFails, history
  <2> QED BY <2>1 DEF FrameInv
<1>4. CASE ~ clean'
  BY <1>4 DEF FrameInv
<1>5. CASE clean' /\ (Send \/ Receive \/ ParseByte)
  BY <1>1, <1>5, SendFrames, ReceiveFrames, ByteFrames
<1> QED BY <1>2, <1>3, <1>4, <1>5 DEF Next

LEMMA Beginning ==
    ASSUME NEW a \in Seq(Update), NEW b \in Seq(Update)
    PROVE  /\ a \o b \in Seq(Update)
           /\ Len(a) <= Len(a \o b) /\ a = SubSeq(a \o b, 1, Len(a))
OBVIOUS

LEMMA Together ==
    \A a, b, c \in Seq(Update) : (a \o b) \o c = a \o (b \o c)
BY ConcatAssociative

\* Whatever packets the base station sends, however it has to write them and
\* however the tty layer cuts them into buffers: as long as a packet is sent
\* when the one before has been handed over, the sensors are updated as the
\* packets say, in order, once each, and none is missing in the end.
THEOREM UpdatesAsSentTheorem ==
    ASSUME CleanFramesArePackets, ~ Burst
    PROVE  Spec => []UpdatesAsSent
<1>1. Spec => [](ParserInv /\ FrameInv)
  <2>1. ParserInv /\ FrameInv /\ [Next]_vars => FrameInv'
    BY NextFrames
  <2> QED BY <2>1, InitParser, ParserStep, InitFrames, PTL DEF Spec
<1>2. ParserInv /\ FrameInv => UpdatesAsSent
  <2> SUFFICES ASSUME ParserInv, FrameInv, clean
               PROVE  /\ Len(log) <= Len(meant) /\ log = SubSeq(meant, 1, Len(log))
                      /\ wire = <<>> /\ buf = <<>> => log = meant
    BY DEF UpdatesAsSent
  <2>0. log \in Seq(Update)
    BY DEF ParserInv, TypeOK
  <2>1. CASE Idle
    BY <2>0, <2>1, Beginning DEF Idle
  <2>2. ASSUME NEW fr \in Frames, NEW packet, NEW at, NEW i, Busy(fr, packet, at, i)
        PROVE  /\ Len(log) <= Len(meant) /\ log = SubSeq(meant, 1, Len(log))
               /\ ~ (wire = <<>> /\ buf = <<>>)
    <3>1. fr.updates \in Seq(Update)
      BY ProtocolAssumption
    <3>2. CASE LastFrame(fr, i)
      BY <2>0, <2>2, <3>1, <3>2, BytesLeft, Beginning DEF LastFrame, Busy
    <3>3. CASE OneBehind(fr, i)
      <4>1. PICK next \in Frames : meant = (log \o fr.updates) \o next.updates
        BY <3>3 DEF OneBehind
      <4>2. meant = log \o (fr.updates \o next.updates) /\ fr.updates \o next.updates \in Seq(Update)
        <5>1. next.updates \in Seq(Update)
          BY ProtocolAssumption
        <5>2. fr.updates \o next.updates \in Seq(Update)
          BY <3>1, <5>1, Beginning
        <5>3. (log \o fr.updates) \o next.updates = log \o (fr.updates \o next.updates)
          BY <2>0, <3>1, <5>1, Together
        <5> QED BY <4>1, <5>2, <5>3
      <4>3. ~ (wire = <<>> /\ buf = <<>>)
        BY <2>2, <3>3, BytesLeft DEF OneBehind, Busy
      <4> QED BY <2>0, <4>2, <4>3, Beginning
    <3> QED BY <2>2, <3>2, <3>3 DEF Busy
  <2> QED BY <2>1, <2>2 DEF FrameInv
<1> QED BY <1>1, <1>2, PTL

=============================================================================

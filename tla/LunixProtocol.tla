--------------------------- MODULE LunixProtocol ----------------------------
(***************************************************************************)
(* The XMesh packet parser of the line discipline (lunix-protocol.c) and   *)
(* the serial line that feeds it (lunix_ldisc_receive).                    *)
(*                                                                         *)
(* The base station sends frames; the tty layer hands their bytes over in  *)
(* buffers cut anywhere.  One call of lunix_protocol_received_buf is the   *)
(* action Receive followed by the steps Parse, one for each turn of the    *)
(* loop of parse_state; the tty layer does not re-enter the receive        *)
(* function, so nothing comes in between.                                  *)
(***************************************************************************)
EXTENDS Integers, Sequences

CONSTANTS
    SensorCnt,          \* lunix_sensor_cnt
    MAX_PACKET_LEN,     \* size of the packet buffer, 300
    OOPS,               \* loop turns after which a debug build gives up, 50
    Frames,             \* what is sent: its bytes, the updates it means, and
                        \* whether it is a packet at all
    MaxFrames,          \* bound: frames sent
    Burst               \* TRUE if a frame may follow before the last is read

Byte == 0 .. 255
Update == [sensor : 0 .. SensorCnt - 1, batt : Nat, temp : Nat, light : Nat]

ASSUME ProtocolAssumption ==
    /\ SensorCnt \in Nat \ {0}
    /\ MAX_PACKET_LEN \in Nat /\ MAX_PACKET_LEN >= 265
    /\ OOPS \in Nat \ {0}
    /\ \A fr \in Frames : /\ fr.wire \in Seq(Byte)
                          /\ fr.updates \in Seq(Update)
                          /\ fr.clean \in BOOLEAN
    /\ MaxFrames \in Nat
    /\ Burst \in BOOLEAN

VARIABLES
    wire,       \* bytes sent and not yet handed over
    buf,        \* what is left of the buffer being parsed
    iter,       \* turns of the current call of parse_state
    p,          \* lunix_protocol_state
    log,        \* the calls of lunix_sensor_update
    frames,     \* history: how many frames were sent
    meant,      \* history: the updates they mean
    clean       \* history: all of them were packets

history == <<frames, meant, clean>>
vars == <<wire, buf, iter, p, log, history>>

SEEKING_START_BYTE == 1
SEEKING_PACKET_TYPE == 2
SEEKING_DESTINATION_ADDRESS == 3
SEEKING_AM_TYPE == 4
SEEKING_AM_GROUP == 5
SEEKING_PAYLOAD_LENGTH == 6
SEEKING_PAYLOAD == 7
SEEKING_CRC == 8
SEEKING_END_BYTE == 9

PACKET_SIGNATURE_OFFSET == 4
NODE_OFFSET == 9
VREF_OFFSET == 18
TEMPERATURE_OFFSET == 20
LIGHT_OFFSET == 22
SENSOR_SIGNATURE == 11      \* 0x0B

MARK == 126                 \* 0x7E: what follows is taken as it is
ESCAPE == 125               \* 0x7D: what follows has bit 0x20 flipped

\* b ^ 0x20
Flip(b) == IF (b \div 32) % 2 = 1 THEN b - 32 ELSE b + 32

\* The parser between two packets, before any byte has come.
InitialParser ==
    [state |-> SEEKING_START_BYTE, toRead |-> 1, read |-> 0, pos |-> 0,
     special |-> 0, packet |-> [i \in 0 .. MAX_PACKET_LEN - 1 |-> 0]]

Init ==
    /\ wire = <<>>
    /\ buf = <<>>
    /\ iter = 0
    /\ p = InitialParser
    /\ log = <<>>
    /\ frames = 0
    /\ meant = <<>>
    /\ clean = TRUE

-----------------------------------------------------------------------------
(* parse_state, one byte at a time *)

\* Mutant of UsesSpecials: special characters are recognised everywhere.
BugUsesSpecials(q) == q.state \in 1 .. 9

\* Special characters are recognised in all but the outermost fields.
UsesSpecials(q) ==
    q.state \notin {SEEKING_START_BYTE, SEEKING_PACKET_TYPE, SEEKING_END_BYTE}

Put(q, b) ==
    [q EXCEPT !.packet[q.pos] = b, !.pos = @ + 1, !.read = @ + 1]

\* One byte of input: it is stored, decoded and stored, or kept as the prefix
\* of a special character.
Take(q, b) ==
    CASE UsesSpecials(q) /\ q.special = MARK ->
           [Put(q, b) EXCEPT !.special = 0]
      [] UsesSpecials(q) /\ q.special = ESCAPE ->
           [Put(q, Flip(b)) EXCEPT !.special = 0]
      [] UsesSpecials(q) /\ q.special = 0 /\ b \in {MARK, ESCAPE} ->
           [q EXCEPT !.special = b]
      [] OTHER -> Put(q, b)

Done(q) == q.read = q.toRead

Enter(q, state, n) == [q EXCEPT !.state = state, !.toRead = n, !.read = 0]

\* The number of bytes of a field; that of the payload is its length byte.
Width(q, state) ==
    CASE state \in {SEEKING_DESTINATION_ADDRESS, SEEKING_CRC} -> 2
      [] state = SEEKING_PAYLOAD -> q.packet[q.pos - 1]
      [] OTHER -> 1

\* received_buf moves on to the next field once a field is read; an empty
\* payload is passed over.
Advance(q) ==
    LET next == Enter(q, q.state + 1, Width(q, q.state + 1))
    IN  IF ~ Done(q) \/ q.state = SEEKING_END_BYTE THEN q
        ELSE IF Done(next) THEN Enter(next, SEEKING_CRC, Width(next, SEEKING_CRC))
        ELSE next

\* Mutant of Restart: the position is not reset.
BugRestart(q) == [Enter(q, SEEKING_START_BYTE, 1) EXCEPT !.special = 0]

\* After the last byte of a packet: start again, the old bytes still in place.
Restart(q) == [Enter(q, SEEKING_START_BYTE, 1) EXCEPT !.pos = 0, !.special = 0]

Complete(q) == q.state = SEEKING_END_BYTE /\ Done(q)

-----------------------------------------------------------------------------
(* update_sensors *)

\* uint16_from_packet
Word(q, offset) == q.packet[offset] + 256 * q.packet[offset + 1]

\* Mutant of UpdateOf: the node number is not compared with the sensor count.
BugUpdateOf(q) ==
    IF q.packet[PACKET_SIGNATURE_OFFSET] = SENSOR_SIGNATURE
    THEN <<[sensor |-> Word(q, NODE_OFFSET) - 1,
            batt |-> Word(q, VREF_OFFSET),
            temp |-> Word(q, TEMPERATURE_OFFSET),
            light |-> Word(q, LIGHT_OFFSET)]>>
    ELSE <<>>

\* The update a complete packet causes, if any: only sensor packets of known
\* nodes count.
UpdateOf(q) ==
    LET nodeid == Word(q, NODE_OFFSET) IN
    IF q.packet[PACKET_SIGNATURE_OFFSET] = SENSOR_SIGNATURE
       /\ nodeid > 0 /\ nodeid <= SensorCnt
    THEN <<[sensor |-> nodeid - 1,
            batt |-> Word(q, VREF_OFFSET),
            temp |-> Word(q, TEMPERATURE_OFFSET),
            light |-> Word(q, LIGHT_OFFSET)]>>
    ELSE <<>>

-----------------------------------------------------------------------------
(* The line *)

Send ==
    /\ frames < MaxFrames
    /\ wire = <<>> \/ Burst
    /\ \E fr \in Frames :
         /\ wire' = wire \o fr.wire
         /\ meant' = meant \o fr.updates
         /\ clean' = (clean /\ fr.clean)
    /\ frames' = frames + 1
    /\ UNCHANGED <<buf, iter, p, log>>

\* lunix_ldisc_receive: the first n bytes arrive as one buffer.
Receive ==
    /\ buf = <<>>
    /\ \E n \in 1 .. Len(wire) :
         /\ buf' = SubSeq(wire, 1, n)
         /\ wire' = SubSeq(wire, n + 1, Len(wire))
    /\ iter' = 0
    /\ UNCHANGED <<p, log, history>>

\* A turn of the loop takes a byte; a complete packet is acted upon and ends
\* the call, with whatever the buffer holds after it.
ParseByte ==
    LET q == Take(p, Head(buf))
        next == Advance(q)
    IN
    /\ buf # <<>>
    /\ iter + 1 < OOPS
    /\ p.pos < MAX_PACKET_LEN
    /\ IF Complete(next)
       THEN /\ p' = Restart(next)
            /\ log' = log \o UpdateOf(next)
            /\ buf' = <<>>
       ELSE /\ p' = next
            /\ buf' = Tail(buf)
            /\ UNCHANGED log
    /\ iter' = IF next.state = p.state THEN iter + 1 ELSE 0
    /\ UNCHANGED <<wire, history>>

\* A debug build that has been in one field for too many turns, or else a
\* packet that would overflow its buffer: the call ends, its input is dropped.
ParseFails ==
    /\ buf # <<>>
    /\ iter + 1 >= OOPS \/ p.pos = MAX_PACKET_LEN
    /\ p' = IF iter + 1 >= OOPS THEN p ELSE [p EXCEPT !.pos = 0]
    /\ buf' = <<>>
    /\ iter' = 0
    /\ UNCHANGED <<wire, log, history>>

Next == Send \/ Receive \/ ParseByte \/ ParseFails

Spec == Init /\ [][Next]_vars

-----------------------------------------------------------------------------
(* Properties *)

Parser ==
    [state : 1 .. 9, toRead : Byte, read : Byte, pos : 0 .. MAX_PACKET_LEN,
     special : {0, MARK, ESCAPE}, packet : [0 .. MAX_PACKET_LEN - 1 -> Byte]]

TypeOK ==
    /\ wire \in Seq(Byte)
    /\ buf \in Seq(Byte)
    /\ iter \in 0 .. OOPS
    /\ p \in Parser
    /\ log \in Seq(Update)
    /\ frames \in 0 .. MaxFrames
    /\ meant \in Seq(Update)
    /\ clean \in BOOLEAN

\* The offset in the packet at which a field begins.
FieldStart(q) ==
    CASE q.state = SEEKING_START_BYTE -> 0
      [] q.state = SEEKING_PACKET_TYPE -> 1
      [] q.state = SEEKING_DESTINATION_ADDRESS -> 2
      [] q.state = SEEKING_AM_TYPE -> 4
      [] q.state = SEEKING_AM_GROUP -> 5
      [] q.state = SEEKING_PAYLOAD_LENGTH -> 6
      [] q.state = SEEKING_PAYLOAD -> 7
      [] q.state = SEEKING_CRC -> 7 + q.packet[6]
      [] q.state = SEEKING_END_BYTE -> 9 + q.packet[6]

\* The packet table: whatever bytes come, however they are cut into buffers and
\* whenever a call gives up, each field is read at its own offset, is never
\* read beyond its width, and a special character never spans two fields.
FieldPosition ==
    /\ p.pos = FieldStart(p) + p.read
    /\ p.read < p.toRead
    /\ p.toRead = Width([p EXCEPT !.pos = FieldStart(p)], p.state)
    /\ p.special # 0 => UsesSpecials(p)

\* "Pass incoming characters to protocol processing code, which handle any
\* necessary sensor updates": as long as only packets are sent, the sensors
\* are updated as these packets say, in order, once each, and once all bytes
\* are handed over none is missing.
UpdatesAsSent ==
    clean =>
        /\ Len(log) <= Len(meant) /\ log = SubSeq(meant, 1, Len(log))
        /\ wire = <<>> /\ buf = <<>> => log = meant

-----------------------------------------------------------------------------
(* What the base station sends *)

\* The packet table: the field of the byte at offset k, for a payload of len.
FieldAt(k, len) ==
    CASE k = 0 -> SEEKING_START_BYTE
      [] k = 1 -> SEEKING_PACKET_TYPE
      [] k \in 2 .. 3 -> SEEKING_DESTINATION_ADDRESS
      [] k = 4 -> SEEKING_AM_TYPE
      [] k = 5 -> SEEKING_AM_GROUP
      [] k = 6 -> SEEKING_PAYLOAD_LENGTH
      [] k \in 7 .. 6 + len -> SEEKING_PAYLOAD
      [] k \in 7 + len .. 8 + len -> SEEKING_CRC
      [] OTHER -> SEEKING_END_BYTE

\* The bytes w of a frame spell those of a packet: the first i of them the first
\* at[i], and but for the outermost fields a special byte is written as two.
Spells(w, packet, at) ==
    /\ packet \in [0 .. MAX_PACKET_LEN - 1 -> Byte]
    /\ at \in [0 .. Len(w) -> Nat]
    /\ at[0] = 0 /\ at[Len(w)] = 10 + packet[6]
    /\ \A i \in 1 .. Len(w) :
         LET k == at[i - 1]
             inner == FieldAt(k, packet[6]) \in 3 .. 8
             second == i > 1 /\ at[i - 1] = at[i - 2]
         IN  /\ k <= 9 + packet[6]
             /\ \/ /\ at[i] = k
                   /\ inner /\ ~ second /\ w[i] \in {MARK, ESCAPE}
                \/ /\ at[i] = k + 1
                   /\ inner /\ ~ second => w[i] \notin {MARK, ESCAPE}
                   /\ packet[k] = IF second /\ w[i - 1] = ESCAPE THEN Flip(w[i]) ELSE w[i]

\* What a packet means: if it is a sensor packet of a node the driver knows, the
\* sensor's number and three values, of which the low byte comes first.
Means(packet) ==
    LET word(offset) == packet[offset] + 256 * packet[offset + 1]
        node == word(9)
    IN  IF packet[4] = SENSOR_SIGNATURE /\ 1 <= node /\ node <= SensorCnt
        THEN <<[sensor |-> node - 1, batt |-> word(18), temp |-> word(20), light |-> word(22)]>>
        ELSE <<>>

\* A frame that a build with this OOPS takes as one packet: no field is longer
\* than it allows, a sensor packet holds its measurements, and the update it
\* means is what these say.
IsPacket(fr, packet, at) ==
    /\ Spells(fr.wire, packet, at)
    /\ \A i, j \in 1 .. Len(fr.wire) :
         FieldAt(at[i - 1], packet[6]) = FieldAt(at[j - 1], packet[6]) => j - i + 1 < OOPS
    /\ packet[PACKET_SIGNATURE_OFFSET] = SENSOR_SIGNATURE => packet[6] >= 17
    /\ fr.updates = Means(packet)

\* The frames that are said to be packets are.
CleanFramesArePackets ==
    \A fr \in Frames : fr.clean => \E packet, at : IsPacket(fr, packet, at)

=============================================================================

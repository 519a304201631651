-------------------------- MODULE MCLunixProtocol ---------------------------
(* Instances of LunixProtocol for TLC: frames as a base station sends them. *)
EXTENDS LunixProtocol, SequencesExt

\* A packet as the base station writes it: the fields between the packet type
\* and the end byte have their special characters escaped.
Escaped(b) == IF b \in {MARK, ESCAPE} THEN <<ESCAPE, Flip(b)>> ELSE <<b>>

Pieces(amType, payload) ==
    LET fields == <<255, 255, amType, 125, Len(payload)>> \o payload \o <<1, 2>>
    IN  <<<<MARK>>, <<66>>>> \o [i \in 1 .. Len(fields) |-> Escaped(fields[i])] \o <<<<MARK>>>>

Packet(amType, payload) == FlattenSeq(Pieces(amType, payload))

\* Payload of a sensor packet: offsets 7 to 23, the node at 9, the values at
\* 18, 20 and 22.
Measures(node, batt, temp, light) ==
    <<0, 0, node, 0, 0, 0, 0, 0, 0, 0, 0>> \o <<batt, 1, temp, 2, light, 3>>

Value(low, high) == low + 256 * high

SensorPacket(node, batt, temp, light) ==
    [wire |-> Packet(SENSOR_SIGNATURE, Measures(node, batt, temp, light)),
     updates |-> <<[sensor |-> node - 1, batt |-> Value(batt, 1),
                    temp |-> Value(temp, 2), light |-> Value(light, 3)]>>,
     clean |-> TRUE]

\* Two nodes, one with values that need escapes; a node the driver does not
\* know; a packet of another type without payload; a packet of another type
\* too long for a debug build; stray bytes; a packet whose rest is lost, with the
\* line it came from or for want of flow control; a sensor packet that is too short.
MCFrames ==
    {SensorPacket(1, 20, 30, 40), SensorPacket(2, MARK, ESCAPE, MARK),
     [SensorPacket(3, 1, 1, 1) EXCEPT !.updates = <<>>],
     [wire |-> Packet(3, <<>>), updates |-> <<>>, clean |-> TRUE],
     [wire |-> Packet(3, [i \in 1 .. 50 |-> i]), updates |-> <<>>, clean |-> FALSE],
     [wire |-> <<0, SENSOR_SIGNATURE, ESCAPE>>, updates |-> <<>>, clean |-> FALSE],
     [wire |-> SubSeq(Packet(SENSOR_SIGNATURE, Measures(1, 2, 3, 4)), 1, 12),
      updates |-> <<>>, clean |-> FALSE],
     [wire |-> Packet(SENSOR_SIGNATURE, <<0, 0, 1>>), updates |-> <<>>, clean |-> FALSE]}

\* The bytes of a packet, and how many of them the first i bytes of its frame
\* spell.
Bytes(amType, payload) ==
    LET bytes == <<MARK, 66, 255, 255, amType, 125, Len(payload)>> \o payload \o <<1, 2, MARK>>
    IN  [k \in 0 .. MAX_PACKET_LEN - 1 |-> IF k < Len(bytes) THEN bytes[k + 1] ELSE 0]

Spelt(amType, payload) ==
    LET pieces == Pieces(amType, payload)
    IN  [i \in 0 .. Len(Packet(amType, payload)) |->
           Cardinality({m \in 1 .. Len(pieces) : Len(FlattenSeq(SubSeq(pieces, 1, m))) <= i})]

\* The frames that are said to be packets are: the hypothesis of the theorem on
\* UpdatesAsSent holds of this instance.
ASSUME MCFramesAssumption ==
    \A fr \in Frames : fr.clean =>
        \E payload \in {<<>>, Measures(1, 20, 30, 40), Measures(2, MARK, ESCAPE, MARK),
                        Measures(3, 1, 1, 1)}, amType \in {3, SENSOR_SIGNATURE} :
            IsPacket(fr, Bytes(amType, payload), Spelt(amType, payload))

=============================================================================

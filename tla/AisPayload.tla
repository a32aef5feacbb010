------------------------------- MODULE AisPayload -------------------------------
(***************************************************************************)
(* What a whole AIS message says: `decode` and `Bits` of src/ais.rs.       *)
(*                                                                         *)
(* A payload is a sequence of ASCII codes, six bits to each.  Angles are   *)
(* in the message's units, 600000 to a degree, and speeds and courses in   *)
(* tenths: the code's divisions are left out.  A text is the sequence of   *)
(* its ASCII codes.                                                        *)
(***************************************************************************)
EXTENDS Integers, SequencesExt

Missing == <<>>
Known(x) == <<x>>
KnownIf(x, fits) == IF fits THEN Known(x) ELSE Missing

-----------------------------------------------------------------------------
(* What six bits a character stands for. *)
SixBits(c) == IF c < 96 THEN c - 48 ELSE c - 96 + 40
Armour == (48..87) \cup (96..119)

(* Bits::new: the bits of a payload less its fill, or nothing. *)
Weight == <<32, 16, 8, 4, 2, 1>>
Unpacked(payload, fill) ==
    LET bits == [i \in 1..(6 * Len(payload)) |->
                    (SixBits(payload[(i + 5) \div 6]) \div Weight[1 + ((i - 1) % 6)]) % 2]
    IN IF fill > 5 \/ ~(Range(payload) \subseteq Armour) \/ Len(bits) < fill THEN Missing
       ELSE Known(SubSeq(bits, 1, Len(bits) - fill))

(* Bits::uint and ::int, of bits that are there; the code counts them from 0. *)
Uint(bits, start, len) ==
    LET value[i \in 0..len] == IF i = 0 THEN 0 ELSE 2 * value[i - 1] + bits[start + i] IN value[len]
TwoTo(n) == LET power[i \in 0..n] == IF i = 0 THEN 1 ELSE 2 * power[i - 1] IN power[n]
Sint(bits, start, len) ==
    LET value == Uint(bits, start, len)
    IN IF bits[start + 1] = 1 THEN value - TwoTo(len) ELSE value

(* Bits::text: up to the first @, less the spaces at its end; none if the message ends
   before either the @ or the last character. *)
Text(bits, start, chars) ==
    LET there == IF Len(bits) < start + 6 * chars THEN (Len(bits) - start) \div 6 ELSE chars
        six == [i \in 1..there |-> Uint(bits, start + 6 * (i - 1), 6)]
        pad == SelectInSeq(six, LAMBDA v : v = 0)
        kept == IF pad = 0 THEN six ELSE SubSeq(six, 1, pad - 1)
        last == SelectLastInSeq(kept, LAMBDA v : v # 32)
    IN IF pad = 0 /\ there < chars THEN Missing
       ELSE KnownIf([i \in 1..last |-> IF kept[i] < 32 THEN kept[i] + 64 ELSE kept[i]], last > 0)

(* dimensions: length and beam, where the distances to either side are not both 0. *)
Dimensions(bits, at) ==
    LET sum(offset, len) == Uint(bits, at + offset, len) + Uint(bits, at + offset + len, len)
    IN [length |-> KnownIf(sum(0, 9), sum(0, 9) > 0), beam |-> KnownIf(sum(18, 6), sum(18, 6) > 0)]

NoSize == [length |-> Missing, beam |-> Missing]

Degree == 600000

(* position: no report without a place; what else is not available is missing. *)
PositionReports(bits, mmsi, class, status, sogAt) ==
    LET lon == Sint(bits, sogAt + 11, 28)
        lat == Sint(bits, sogAt + 39, 27)
        sog == Uint(bits, sogAt, 10)
        cog == Uint(bits, sogAt + 66, 12)
        heading == Uint(bits, sogAt + 78, 9)
    IN IF lon \notin -180 * Degree..180 * Degree \/ lat \notin -90 * Degree..90 * Degree THEN <<>>
       ELSE <<[report |-> "position", mmsi |-> mmsi, class |-> class, status |-> status,
               lat |-> lat, lon |-> lon, sog |-> KnownIf(sog, sog < 1023),
               cog |-> KnownIf(cog, cog < 3600), heading |-> KnownIf(heading, heading < 360)]>>

ParticularsReport(mmsi, name, callsign, shipType, size, destination) ==
    [report |-> "particulars", mmsi |-> mmsi, name |-> name, callsign |-> callsign,
     shipType |-> KnownIf(shipType, shipType # 0), length |-> size.length, beam |-> size.beam,
     destination |-> destination]

(* Type 19: a position, if there is a place, and particulars. *)
ExtendedReports(bits, mmsi) ==
    Append(PositionReports(bits, mmsi, "B", Missing, 46),
           ParticularsReport(mmsi, Text(bits, 143, 20), Missing, Uint(bits, 263, 8),
                             Dimensions(bits, 271), Missing))

Unsent == 0        \* a ship type that a message does not send is as none

IsAuxiliary(mmsi) == mmsi >= 980000000 /\ mmsi < 990000000

(* Mutation: a type 24 part A is read as soon as its part is told. *)
LongEnoughButNames(type, part, bits) ==
    \/ type = 24 /\ part = 0 /\ Len(bits) >= 40
    \/ type \in 1..3 \cup {18} /\ Len(bits) >= 168
    \/ type = 19 /\ Len(bits) >= 312
    \/ type = 5 /\ Len(bits) >= 422
    \/ type = 24 /\ part = 1 /\ Len(bits) >= 162

(* `long`: the bits a message of each type must have. *)
LongEnough(type, part, bits) ==
    \/ type \in 1..3 \cup {18} /\ Len(bits) >= 168
    \/ type = 19 /\ Len(bits) >= 312
    \/ type = 5 /\ Len(bits) >= 422
    \/ type = 24 /\ part = 0 /\ Len(bits) >= 160
    \/ type = 24 /\ part = 1 /\ Len(bits) >= 162

(* decode: the reports of a payload's bits, none if it is cut short or of no use. *)
Decoded(bits) ==
    LET type == Uint(bits, 0, 6)
        mmsi == Uint(bits, 8, 30)
        part == IF Len(bits) >= 40 THEN Uint(bits, 38, 2) ELSE -1
    IN IF Len(bits) < 38 \/ mmsi = 0 \/ ~LongEnough(type, part, bits) THEN <<>>
       ELSE CASE type \in 1..3 ->
                   PositionReports(bits, mmsi, "A", Known(Uint(bits, 38, 4)), 50)
              [] type = 18 -> PositionReports(bits, mmsi, "B", Missing, 46)
              [] type = 19 -> ExtendedReports(bits, mmsi)
              [] type = 5 ->
                   <<ParticularsReport(mmsi, Text(bits, 112, 20), Text(bits, 70, 7),
                                       Uint(bits, 232, 8), Dimensions(bits, 240),
                                       Text(bits, 302, 20))>>
              [] type = 24 /\ part = 0 ->
                   <<ParticularsReport(mmsi, Text(bits, 40, 20), Missing, Unsent, NoSize, Missing)>>
              [] type = 24 /\ part = 1 ->
                   <<ParticularsReport(mmsi, Missing, Text(bits, 90, 7), Uint(bits, 40, 8),
                                       IF IsAuxiliary(mmsi) THEN NoSize ELSE Dimensions(bits, 132),
                                       Missing)>>

Decode(payload, fill) ==
    LET unpacked == Unpacked(payload, fill)
    IN IF unpacked = Missing THEN <<>> ELSE Decoded(unpacked[1])
================================================================================

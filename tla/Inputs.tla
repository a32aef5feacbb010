--------------------------------- MODULE Inputs ---------------------------------
(***************************************************************************)
(* The functions without state of the system, each given inputs as they    *)
(* may come: a line damaged on its way, a position as a receiver writes    *)
(* it, an AIS message cut short, a message to apps of this version and of  *)
(* a later one, vessels about the boat.  One step picks an input, and the  *)
(* properties say what must be made of it.  What a receiver or a           *)
(* transponder writes is the definition to read against: it is laid out    *)
(* field by field, as the standards do, not by offsets.                    *)
(***************************************************************************)
EXTENDS Nmea, AisPayload, Wire, Approach

CONSTANTS
    Sentences,    \* the data of sentences a line may carry
    Angles,       \* latitudes and longitudes: degrees, minutes and thousandths
    Times,        \* dates and times of day, those that there are and those that there are not
    AisMessages,  \* AIS messages: a type and the values of fields
    HubMessages,  \* messages the hub may write
    Values,       \* JSON values that may stand for any other
    Tracks,       \* what a vessel, or the boat, last reported
    Ages,         \* how long ago it did
    Table,        \* how many vessels a table has
    Ranges        \* how far away they may be

VARIABLE input

Nothing == [what |-> "nothing"]

(* The data of a sentence begins with a talker and a kind. *)
ASSUME SentencesAssumption ==
    \A data \in Sentences : data \in Seq(DOMAIN Code) /\ Addressed(Split(data)[1])

(* A field has room for two digits, or for three; a year is one a receiver may date from. *)
ASSUME PositionsAssumption ==
    /\ Angles \subseteq [degrees : 0..999, minutes : 0..99, thousandths : 0..999]
    /\ \A t \in Times :
          /\ t.year \in 1980..2079 /\ t.decimals \in Seq(DOMAIN Code) /\ Fraction(t.decimals)
          /\ {t.month, t.day, t.hour, t.minute, t.second} \subseteq 0..99

ASSUME TracksAssumption ==
    /\ Ages \subseteq Nat
    /\ \A c \in DOMAIN Direction : Direction[c].east \in Int /\ Direction[c].north \in Int
    /\ \A v \in Tracks :
          /\ DOMAIN v = {"lat", "lon", "at", "sog", "cog"} /\ v.lat \in Int /\ v.lon \in Int
          /\ v.sog = Nowhere \/ (v.sog = Just(v.sog[1]) /\ v.sog[1] \in Nat)
          /\ v.cog = Nowhere \/ (v.cog = Just(v.cog[1]) /\ v.cog[1] \in DOMAIN Direction)
          /\ \A own \in Tracks : Width[own.lat + v.lat] \in Int

ASSUME TableAssumption ==
    Table \in Nat /\ \A r \in Ranges : r = Nowhere \/ (r = Just(r[1]) /\ r[1] \in Nat)

(* What the hub may write of a value of each type, and of a structure. *)
Writable(type, x) ==
    /\ type \in DOMAIN Largest => x \in 0..Largest[type]
    /\ type = "f64" => x = NotFinite \/ x \in Int
    /\ type # "f64" => x # NotFinite
AllWritable(s, types, required) ==
    /\ s = [k \in DOMAIN s |-> s[k]] /\ required \subseteq DOMAIN s /\ DOMAIN s \subseteq DOMAIN types
    /\ \A k \in DOMAIN s : Writable(types[k], s[k])
EachWritable(list, types, required) ==
    /\ list \in Seq({list[i] : i \in DOMAIN list})
    /\ \A i \in DOMAIN list : AllWritable(list[i], types, required)

(* A JSON text is nothing but what it says. *)
OneText(v) == v.t = "str" => v = Str(v.is)

(* A place is in the world, or a number of it is none; a vessel's is of its report: two
   numbers, or it has none. *)
WritableFix(fix) ==
    /\ fix = [status |-> fix.status, place |-> fix.place] /\ fix.status \in FixStatuses
    /\ fix.place # Absent =>
          /\ fix.status # "none" /\ fix.place = Present(fix.place[1])
          /\ AllWritable(fix.place[1], PlaceTypes, {"lat", "lon", "ageSeconds"})
          /\ fix.place[1].lat = NotFinite \/ fix.place[1].lat \in -180..180
          /\ fix.place[1].lon = NotFinite \/ fix.place[1].lon \in -360..360
WritableTargets(list) ==
    /\ EachWritable(list, TargetTypes, Required)
    /\ \A i \in DOMAIN list :
          LET given(k) == k \in DOMAIN list[i] /\ list[i][k] # NotFinite
          IN given("lat") = given("lon")

ASSUME MessagesAssumption ==
    /\ NotFinite \notin Int
    /\ \A v \in Values : OneText(v) /\ (v.t = "obj" => \A k \in DOMAIN v.keys : OneText(v.keys[k]))
    /\ \A m \in HubMessages :
          /\ m.type \in {"hello", "state", "targets"}
          /\ m.type = "hello" => m = [type |-> "hello", keel |-> m.keel]
          /\ m.type = "state" =>
                /\ m = [type |-> "state", fix |-> m.fix, sources |-> m.sources]
                /\ WritableFix(m.fix)
                /\ EachWritable(m.sources, SourceTypes, {"name", "status", "sentences", "rejected"})
                /\ \A i \in DOMAIN m.sources : m.sources[i].status \in SourceStatuses
          /\ m.type = "targets" =>
                m = [type |-> "targets", targets |-> m.targets] /\ WritableTargets(m.targets)

-----------------------------------------------------------------------------
(* A line with one of its characters changed. *)
HexDigit(n) == HexUpper[n + 1]
LineOf(data) ==
    <<"$">> \o data \o <<"*", HexDigit(Computed(data) \div 16), HexDigit(Computed(data) % 16)>>

DamagedLine ==
    \E data \in Sentences, c \in DOMAIN Code : \E i \in DOMAIN LineOf(data) :
        input' = [what |-> "line", line |-> LineOf(data), damaged |-> ReplaceAt(LineOf(data), i, c)]

(* The checksum's promise: a line with one character changed, whichever it is, is
   rejected or says just what the line said. *)
DamageIsCaught ==
    input.what = "line" =>
        LET damaged == Parse(input.damaged)
        IN /\ Parse(input.line).read = "sentence"
           /\ damaged.read = "sentence" => damaged = Parse(input.line)

-----------------------------------------------------------------------------
(* A position as a receiver writes it. *)
Padded(n, width) == [i \in 1..width |-> Digit[1 + ((n \div TenTo(width - i)) % 10)]]

AngleDigits(a, degreeDigits) ==
    Padded(a.degrees, degreeDigits) \o Padded(a.minutes, 2) \o Padded(a.thousandths, 3)
DateText(t) == Padded(t.day, 2) \o Padded(t.month, 2) \o Padded(t.year % 100, 2)
ClockText(t) == Padded(t.hour, 2) \o Padded(t.minute, 2) \o Padded(t.second, 2) \o t.decimals

(* The digits with a decimal point behind n of them, or none. *)
WithPoint(digits, n) ==
    IF n > Len(digits) THEN digits
    ELSE SubSeq(digits, 1, n) \o <<".">> \o SubSeq(digits, n + 1, Len(digits))

(* What is to be made of it, if the point is where it belongs. *)
AngleRead(a, sign, max) ==
    LET thousandths == (60 * a.degrees + a.minutes) * 1000 + a.thousandths
    IN IF a.minutes < 60 /\ thousandths <= 60000 * max
       THEN Some([minutes |-> sign * thousandths, parts |-> 1000]) ELSE None

(* A day of the calendar, with a day more in February every fourth year, and a time of day
   or the leap second after it. *)
TimeRead(t) ==
    LET days == <<31, IF t.year % 4 = 0 THEN 29 ELSE 28, 31, 30, 31, 30, 31, 31, 30, 31, 30, 31>>
    IN IF /\ t.month \in DOMAIN days /\ t.day \in 1..days[t.month]
          /\ t.hour < 24 /\ t.minute < 60 /\ t.second <= 60
       THEN Some(<<t.year, t.month, t.day, t.hour, t.minute, t.second>>) ELSE None

Speed == <<"5", ".", "0">>
Course == <<"2", "5", "5">>
Satellites == <<"0", "9">>
Dilution == <<"0", ".", "9">>

PositionSentence(kind, lat, lon, ns, ew, flag, mode, time) ==
    [talker |-> <<"G", "P">>,
     kind |-> kind,
     fields |-> IF kind = <<"R", "M", "C">>
                THEN <<ClockText(time), flag, lat, ns, lon, ew, Speed, Course, DateText(time), <<>>,
                       <<>>, mode>>
                ELSE <<ClockText(time), lat, ns, lon, ew, flag, Satellites, Dilution>>]

(* What a receiver says of its own fix: the status of an RMC or the quality of a GGA, and
   the mode at the end of an RMC. *)
Flags == {<<"A">>, <<"V">>, <<"0">>, <<"1">>, <<"2">>, <<"3">>, <<"4">>, <<"5">>, <<"6">>}
Modes == {<<>>, <<"A">>, <<"D">>, <<"E">>, <<"M">>, <<"N">>, <<"S">>}

APosition ==
    \E kind \in {<<"R", "M", "C">>, <<"G", "G", "A">>}, a \in Angles, place \in 0..9,
      ns \in {<<"N">>, <<"S">>, <<>>}, flag \in Flags, mode \in Modes, time \in Times :
        /\ IF kind = <<"R", "M", "C">> THEN flag \in {<<"A">>, <<"V">>, <<"1">>} ELSE mode = <<>>
        /\ place \in {4, 5} \/ (flag = <<"A">> /\ mode = <<>>)
        /\ input' = [what |-> "position", kind |-> kind, angle |-> a, place |-> place,
                     ns |-> ns, flag |-> flag, mode |-> mode, time |-> time]

(* A position reads as it was sent, each value from its own field and a fix only where
   the receiver says so; and with its decimal point moved or lost, which the checksum
   cannot tell, it reads as no latitude and no longitude, never as another place. *)
PositionAsSent ==
    input.what = "position" =>
        LET latitude == [input.angle EXCEPT !.degrees = @ % 100]
            lat == WithPoint(AngleDigits(latitude, 2), input.place)
            lon == WithPoint(AngleDigits(input.angle, 3), input.place)
            rmc == input.kind = <<"R", "M", "C">>
            read == Position(PositionSentence(input.kind, lat, lon, input.ns, <<"W">>, input.flag,
                                              input.mode, input.time))[1]
        IN /\ read.lat = IF input.place # 4 \/ input.ns = <<>> THEN None
                         ELSE AngleRead(latitude, IF input.ns = <<"N">> THEN 1 ELSE -1, 90)
           /\ read.lon = IF input.place # 5 THEN None ELSE AngleRead(input.angle, -1, 180)
           /\ read.valid <=> IF rmc THEN input.flag = <<"A">> /\ input.mode \in {<<>>, <<"A">>, <<"D">>}
                             ELSE input.flag \in Flags \ {<<"A">>, <<"V">>, <<"0">>, <<"6">>}
           /\ read.utc = IF rmc THEN TimeRead(input.time) ELSE None
           /\ read.sogKn = (IF rmc THEN Some(Speed) ELSE None)
           /\ read.cogDeg = (IF rmc THEN Some(Course) ELSE None)
           /\ read.satellites = (IF rmc THEN None ELSE Some(9))
           /\ read.hdop = (IF rmc THEN None ELSE Some(Dilution))

-----------------------------------------------------------------------------
(* A message as a transponder lays it out: fields and their widths, in order. *)
Header == <<<<"type", 6>>, <<"repeat", 2>>, <<"mmsi", 30>>>>
Motion == <<<<"sog", 10>>, <<"accuracy", 1>>, <<"lon", 28>>, <<"lat", 27>>, <<"cog", 12>>,
            <<"heading", 9>>, <<"second", 6>>>>
Size == <<<<"bow", 9>>, <<"stern", 9>>, <<"port", 6>>, <<"starboard", 6>>>>

TextFields == {"name", "callsign", "destination"}
Unheard == {"repeat", "turn", "spare", "version", "imo", "fixing", "arrival", "draught", "maker",
            "serial", "rest"}

Layout(m) ==
    CASE m.type \in 1..3 -> Header \o <<<<"status", 4>>, <<"turn", 8>>>> \o Motion \o <<<<"rest", 25>>>>
      [] m.type = 18 -> Header \o <<<<"spare", 8>>>> \o Motion \o <<<<"rest", 29>>>>
      [] m.type = 19 -> Header \o <<<<"spare", 8>>>> \o Motion
                        \o <<<<"spare", 4>>, <<"name", 120>>, <<"shipType", 8>>>>
                        \o Size \o <<<<"rest", 11>>>>
      [] m.type = 5 -> Header \o <<<<"version", 2>>, <<"imo", 30>>, <<"callsign", 42>>, <<"name", 120>>,
                                   <<"shipType", 8>>>>
                       \o Size \o <<<<"fixing", 4>>, <<"arrival", 20>>, <<"draught", 8>>,
                                    <<"destination", 120>>, <<"rest", 2>>>>
      [] m.type = 24 /\ m.part = 0 -> Header \o <<<<"part", 2>>, <<"name", 120>>, <<"rest", 8>>>>
      [] m.type = 24 /\ m.part = 1 -> Header \o <<<<"part", 2>>, <<"shipType", 8>>, <<"maker", 21>>,
                                                  <<"serial", 21>>, <<"callsign", 42>>>>
                                      \o Size \o <<<<"rest", 6>>>>

(* Where each field ends, and with the last of them the message. *)
Ends(layout) ==
    LET end[i \in 0..Len(layout)] == IF i = 0 THEN 0 ELSE end[i - 1] + layout[i][2] IN end
BitCount(m) == Ends(Layout(m))[Len(Layout(m))]

(* A value's bits; those of fields that are not read are all ones. *)
BitsOf(value, width) ==
    LET half[i \in 0..width] == IF i = 0 THEN value ELSE half[i - 1] \div 2
    IN [i \in 1..width |-> half[width - i] % 2]
FieldBit(m, field, k) ==
    IF field[1] \notin DOMAIN m THEN 1
    ELSE IF field[1] \in TextFields
         THEN BitsOf(m[field[1]].six[(k + 5) \div 6], 6)[1 + ((k - 1) % 6)]
    ELSE BitsOf(m[field[1]], field[2])[k]

MessageBits(m) ==
    LET layout == Layout(m)
        end == Ends(layout)
    IN [j \in 1..BitCount(m) |->
           LET i == CHOOSE i \in DOMAIN layout : end[i - 1] < j /\ j <= end[i]
           IN FieldBit(m, layout[i], j - end[i - 1])]

(* What may be sent in a field: a text of six-bit characters, read up to the first @ and
   less the spaces at its end; a place, or that there is none; a number of its width. *)
TextIs(text, chars) ==
    /\ text.six \in [1..chars -> 0..63]
    /\ \E end \in 0..chars : \E last \in 0..end :
          /\ \A i \in 1..end : text.six[i] # 0
          /\ end < chars => text.six[end + 1] = 0
          /\ \A i \in (last + 1)..end : text.six[i] = 32
          /\ last > 0 => text.six[last] # 32
          /\ text.reads = KnownIf([i \in 1..last |-> text.six[i] + IF text.six[i] < 32 THEN 64 ELSE 0],
                                  last > 0)
Sendable(x, name, width) ==
    IF name \in TextFields THEN TextIs(x, width \div 6)
    ELSE IF name = "lon" THEN x = 181 * Degree \/ x \in -180 * Degree..180 * Degree
    ELSE IF name = "lat" THEN x = 91 * Degree \/ x \in -90 * Degree..90 * Degree
    ELSE IF name = "cog" THEN x \in 0..3600
    ELSE IF name = "heading" THEN x = 511 \/ x \in 0..359
    ELSE x \in 0..(TwoTo(width) - 1)

(* A message is of a type that is read, and has a value for each field that is. *)
ASSUME AisAssumption ==
    \A m \in AisMessages :
        LET layout == Layout(m)
            sent == {layout[i][1] : i \in DOMAIN layout}
        IN /\ m.type \in {1, 2, 3, 5, 18, 19, 24} /\ (m.type = 24 => m.part \in {0, 1})
           /\ m = [name \in sent \ Unheard |-> m[name]]
           /\ \A i \in DOMAIN layout :
                 layout[i][1] \notin Unheard => Sendable(m[layout[i][1]], layout[i][1], layout[i][2])

(* The characters of the first n bits, the last one filled up. *)
Fill(n) == (6 - (n % 6)) % 6
Characters(bits, n) ==
    LET padded == [i \in 1..(n + Fill(n)) |-> IF i <= n THEN bits[i] ELSE 0]
        six(i) == Uint(padded, 6 * (i - 1), 6)
    IN [i \in 1..((n + Fill(n)) \div 6) |-> IF six(i) < 40 THEN six(i) + 48 ELSE six(i) + 56]

AMessage ==
    \E m \in AisMessages : \E n \in 0..BitCount(m) :
        input' = [what |-> "payload", message |-> m, bits |-> n,
                  payload |-> Characters(MessageBits(m), n), fill |-> Fill(n)]

(* What is to be read of it: a value that says it is not available as none, and every
   other from its own field. *)
Unless(value, none) == KnownIf(value, value # none)
OrNone(m, field) == IF field \in DOMAIN m THEN m[field].reads ELSE Missing

PlaceRead(m, class) ==
    IF m.lon = 181 * Degree \/ m.lat = 91 * Degree THEN <<>>
    ELSE <<[report |-> "position", mmsi |-> m.mmsi, class |-> class,
            status |-> IF class = "A" THEN Known(m.status) ELSE Missing,
            lat |-> m.lat, lon |-> m.lon, sog |-> Unless(m.sog, 1023),
            cog |-> Unless(m.cog, 3600), heading |-> Unless(m.heading, 511)]>>

(* A size is sent; but an auxiliary craft, whose number begins with 98, sends its mother
   ship's number in its place. *)
OfAnAuxiliary(mmsi) == mmsi \div 10000000 = 98
Sized(m) == "bow" \in DOMAIN m /\ ~(m.type = 24 /\ OfAnAuxiliary(m.mmsi))

ParticularsRead(m) ==
    <<[report |-> "particulars", mmsi |-> m.mmsi, name |-> OrNone(m, "name"),
       callsign |-> OrNone(m, "callsign"),
       shipType |-> IF "shipType" \in DOMAIN m THEN Unless(m.shipType, 0) ELSE Missing,
       length |-> IF Sized(m) THEN Unless(m.bow + m.stern, 0) ELSE Missing,
       beam |-> IF Sized(m) THEN Unless(m.port + m.starboard, 0) ELSE Missing,
       destination |-> OrNone(m, "destination")]>>

ReportsOf(m) ==
    IF m.mmsi = 0 THEN <<>>
    ELSE CASE m.type \in 1..3 -> PlaceRead(m, "A")
           [] m.type = 18 -> PlaceRead(m, "B")
           [] m.type = 19 -> PlaceRead(m, "B") \o ParticularsRead(m)
           [] m.type \in {5, 24} -> ParticularsRead(m)

(* The bits of spare fields, or that nothing reads, at the end of a message. *)
Unread(m) == CASE m.type = 5 -> 2 [] m.type = 24 /\ m.part = 1 -> 6 [] OTHER -> 0

(* A message reads as it was sent, and cut short anywhere as it was sent or not at all:
   what is missing is never read as empty, nor as something else. *)
WholeOrNothing ==
    input.what = "payload" =>
        LET m == input.message
        IN Decode(input.payload, input.fill) \in
              IF input.bits >= BitCount(m) - Unread(m) THEN {ReportsOf(m)} ELSE {<<>>, ReportsOf(m)}

-----------------------------------------------------------------------------
(* A message of the hub, and one with a key changed, left out or added. *)
AHubMessage == \E m \in HubMessages : input' = [what |-> "message", message |-> m]

(* What an app is to have of it: all of it but numbers that are none. *)
Finite(s) == RestrictValues(s, LAMBDA x : x # NotFinite)
PlaceSent(fix) ==
    IF fix.place = Absent THEN Absent
    ELSE IF {"lat", "lon"} \subseteq DOMAIN Finite(fix.place[1]) THEN Present(Finite(fix.place[1]))
    ELSE Absent

Sent(m) ==
    IF m.type = "hello" THEN m
    ELSE IF m.type = "state" THEN [m EXCEPT !.fix.place = PlaceSent(m.fix)]
    ELSE [m EXCEPT !.targets = [i \in DOMAIN @ |-> Finite(@[i])]]

NullFree(o) == \A k \in DOMAIN o.keys : o.keys[k].t # "null"

(* An app that reads a line of the hub has the message that was written, with whatever
   was no number left out, and with it the whole of a latitude and longitude that
   lost one of the two.  No line says null of anything, at any depth. *)
HubIsRead ==
    input.what = "message" =>
        LET line == ToLine(input.message)
        IN /\ FromLine(line) = Message(Sent(input.message))
           /\ NullFree(line)
           /\ \A k \in DOMAIN line.keys :
                 LET v == line.keys[k]
                 IN /\ v.t = "obj" => NullFree(v)
                    /\ v.t = "arr" => \A i \in DOMAIN v.items : NullFree(v.items[i])

(* A line with a key given another value, or none, in the message itself, in its fix or
   in one of the objects it lists. *)
Altered(o, k, v) ==
    IF v = Absent THEN Obj(Restrict(o.keys, DOMAIN o.keys \ {k}))
    ELSE Obj([j \in DOMAIN o.keys \cup {k} |-> IF j = k THEN v[1] ELSE o.keys[j]])
AlteredAt(list, i, k, v) == Arr([list.items EXCEPT ![i] = Altered(@, k, v)])
AlteredLine(line, where, i, k, v) ==
    IF where = "message" THEN Altered(line, k, v)
    ELSE IF where = "fix" THEN [line EXCEPT !.keys["fix"] = Altered(@, k, v)]
    ELSE [line EXCEPT !.keys[where] = AlteredAt(@, i, k, v)]

Objects(line, where) ==
    IF where = "message" THEN {1}
    ELSE IF where \notin DOMAIN line.keys THEN {}
    ELSE IF where = "fix" THEN {1}
    ELSE DOMAIN line.keys[where].items
KeysAt(where) ==
    {"later"} \cup
    IF where = "message" THEN {"keel", "fix", "sources", "targets"}
    ELSE IF where = "fix" THEN {"status"} \cup DOMAIN PlaceTypes
    ELSE IF where = "sources" THEN DOMAIN SourceTypes
    ELSE {"mmsi", "name", "shipType", "headingDeg", "lat", "lon", "danger"}

AnAlteredMessage ==
    \E m \in HubMessages, where \in {"message", "fix", "sources", "targets"},
      v \in {Absent} \cup {Present(x) : x \in Values} :
        \E k \in KeysAt(where), i \in Objects(ToLine(m), where) :
            input' = [what |-> "altered", message |-> m, where |-> where, at |-> i, key |-> k,
                      line |-> AlteredLine(ToLine(m), where, i, k, v)]

(* What is said but of one key. *)
But(said, key) == Restrict(said, DOMAIN said \ {key})

(* A position is within the world and as the line has it, and is current only if the line
   says ok. *)
PositionIsStated(position, stated) ==
    position # Absent =>
        /\ position[1].place.lat \in -180..180 /\ position[1].place.lon \in -360..360
        /\ \A k \in {"lat", "lon"} : stated[k].halves = position[1].place[k]
        /\ position[1].current => stated["status"] = Str("ok")

(* A key of a fix, whatever it is, costs no other: but for the two that make a place, it
   leaves a place that was read, and what else was read of it; and so does a status, known
   or not, that does not say there is none. *)
FixIsLeft(before, after, stated, key) ==
    /\ key # "status" =>
          /\ after.status = before.status
          /\ key \notin {"lat", "lon"} => (after.place = Absent <=> before.place = Absent)
          /\ after.place # Absent /\ before.place # Absent =>
                But(after.place[1], key) = But(before.place[1], key)
    /\ key = "status" /\ "status" \in DOMAIN stated /\ stated["status"].t = "str"
       /\ stated["status"] # Str("none") => after.place = before.place

(* A key of one of a list costs no other of them, nor another key of that one; *)
OneIsAltered(before, after, i, key) ==
    /\ DOMAIN after = DOMAIN before
    /\ \A j \in DOMAIN before \ {i} : after[j] = before[j]
    /\ But(after[i], key) = But(before[i], key)

(* and a source without a name or a status is left out alone. *)
SourcesAreLeft(before, after, i, key) ==
    \/ OneIsAltered(before, after, i, key)
    \/ key \in {"name", "status"} /\ after = RemoveAt(before, i)

(* A state with a key altered, of its fix or of its sources, is read as it was but for
   these. *)
StateIsRead(before, after, stated, altered) ==
    LET part == IF altered.where = "message" THEN altered.key ELSE altered.where
    IN /\ after.read = "message" /\ after.message.type = "state"
       /\ PositionIsStated(FixPosition(after.message.fix), stated)
       /\ part # "fix" => after.message.fix = before.message.fix
       /\ part # "sources" => after.message.sources = before.message.sources
       /\ altered.where = "fix" =>
             FixIsLeft(before.message.fix, after.message.fix, stated, altered.key)
       /\ altered.where = "sources" =>
             SourcesAreLeft(before.message.sources, after.message.sources, altered.at, altered.key)

(* Targets are read as they were but for what is altered, or not at all; and none of them
   has half a position. *)
TargetsAreRead(before, after, altered) ==
    after.read = "message" =>
        LET targets == after.message.targets
        IN /\ after.message.type = "targets"
           /\ \A i \in DOMAIN targets : ("lat" \in DOMAIN targets[i]) = ("lon" \in DOMAIN targets[i])
           /\ altered.where = "targets" =>
                 OneIsAltered(before.message.targets, targets, altered.at, altered.key)

KeysOf(type) ==
    CASE type = "hello" -> {"keel"} [] type = "state" -> {"fix", "sources"}
      [] type = "targets" -> {"targets"}

(* A later version of the hub, or a worse one, is never misread.  A key no app knows of
   such a message changes nothing.  A state is a state whatever is in it, as long as it has
   a fix: what it says of a position is so; a key of the fix that cannot be read takes
   nothing else with it, unless it is half of the place itself; and one of a source takes
   at most that source, which cannot be without a name and a status.  Targets that are
   read are as they were but for that key, with no half of a position. *)
NeverMisread ==
    input.what = "altered" =>
        LET before == FromLine(ToLine(input.message))
            after == FromLine(input.line)
            type == input.message.type
        IN /\ input.key = "later" \/ (input.where = "message" /\ input.key \notin KeysOf(type)) =>
                 after = before
           /\ type = "state" /\ "fix" \in DOMAIN input.line.keys =>
                 StateIsRead(before, after, input.line.keys["fix"].keys, input)
           /\ type = "targets" => TargetsAreRead(before, after, input)

-----------------------------------------------------------------------------
(* A vessel and the boat. *)
AVessel ==
    \E v \in Tracks, own \in Tracks, age \in Ages :
        input' = [what |-> "vessel", vessel |-> v, own |-> own, age |-> age]

Turned(p, by) == [p EXCEPT !.lon = (@ + by) % Round]

(* The square of the distance after n / parts units of time, times the square of parts. *)
SquareAt(at, relative, n, parts) ==
    Square([east |-> parts * at.east + relative.east * n,
            north |-> parts * at.north + relative.north * n])

(* A motion that can be told: of a speed and a course, or of so little speed that the
   course does not matter. *)
Underway(v) == v.sog # Nowhere /\ (v.cog # Nowhere \/ v.sog[1] < Stopped)

(* There is a closest approach whenever both motions can be told and the position is not
   lost, and it is one: at no time from now on are the two vessels nearer, they
   come as near as that at the time it gives, and a danger comes within DANGER_CPA
   within DANGER_TCPA.  Where on the world it happens does not matter, the line where
   longitudes begin anew included. *)
ClosestIsClosest ==
    input.what = "vessel" =>
        LET told(by) == Target(1, Just([Turned(input.vessel, by) EXCEPT !.at = -input.age]), 0,
                               Just(Turned(input.own, by)))
            t == told(0)
            moving == Velocity(input.vessel)
            at == Ahead(Offset(input.own, input.vessel), moving[1], input.age)
            relative == Minus(moving[1], Velocity(input.own)[1])
            c == t.closest[1]
        IN /\ \A by \in 1..(Round - 1) : [told(by) EXCEPT !.at = t.at] = t
           /\ t.closest # Nowhere <=>
                 input.age < LostAfter /\ Underway(input.vessel) /\ Underway(input.own)
           /\ t.closest # Nowhere =>
                 /\ c.time >= 0 /\ c.square = SquareAt(at, relative, c.time, c.per)
                 /\ \A n \in 0..(4 * DANGER_TCPA) :
                       c.square * 4 <= SquareAt(at, relative, n, 2) * c.per * c.per
                 /\ t.danger => \E n \in 0..(DANGER_TCPA * c.per) :
                       SquareAt(at, relative, n, c.per) <= DANGER_CPA * DANGER_CPA * c.per * c.per
                 /\ ~t.danger => \A n \in 0..(2 * DANGER_TCPA) :
                       \/ SquareAt(at, relative, n, 2) > 4 * DANGER_CPA * DANGER_CPA
                       \/ c.time > DANGER_TCPA * c.per

(* A table of vessels in some order, as a HashMap's is any. *)
Places == 1..Table
Orders == {order \in [Places -> Places] : \A i, j \in Places : order[i] = order[j] => i = j}

ATable ==
    \E range \in [Places -> Ranges], order \in Orders :
        input' = [what |-> "table", order |-> order,
                  table |-> [i \in Places |-> [mmsi |-> i, range |-> range[i]]]]

(* Apps are sent the same message of the same vessels, whatever order the table has
   them in, each of them once, the nearest first and those of unknown range last: a
   message that changes only when something changed is sent only then. *)
OneOrder ==
    input.what = "table" =>
        LET sorted == Sorted([i \in Places |-> input.table[input.order[i]]])
        IN /\ sorted = Sorted(input.table)
           /\ \A i \in Places : \E j \in Places : sorted[j] = input.table[i]
           /\ \A i, j \in Places : i < j =>
                 /\ sorted[i] # sorted[j]
                 /\ sorted[j].range # Nowhere =>
                       sorted[i].range # Nowhere /\ sorted[i].range[1] <= sorted[j].range[1]

-----------------------------------------------------------------------------
Init == input = Nothing
Next ==
    /\ input = Nothing
    /\ \/ DamagedLine \/ APosition \/ AMessage
       \/ AHubMessage \/ AnAlteredMessage \/ AVessel \/ ATable
Spec == Init /\ [][Next]_input
================================================================================

---------------------------------- MODULE Wire ----------------------------------
(***************************************************************************)
(* The protocol of protocol/src/lib.rs: a message written as one JSON line *)
(* and read back by an app.                                                *)
(*                                                                         *)
(* A JSON value is a record with its type in t; its text is left out, so a *)
(* line is a value, a blank or no JSON at all.  A number is counted in     *)
(* halves, which is enough to tell a whole one from another, and knows     *)
(* whether it was written as an integer.  A message is a record; what it   *)
(* may leave out is a key that is not there.                               *)
(***************************************************************************)
EXTENDS Integers, SequencesExt, TLC

CONSTANTS
    NotFinite,  \* an f64 that is no number, of a message to be written
    MaxCount    \* bound: in place of 2^32 - 1 and 2^64 - 1, the largest integers of u32, u64

ASSUME WireAssumption == MaxCount \in Nat /\ MaxCount > 255

VERSION == 1

-----------------------------------------------------------------------------
Null == [t |-> "null"]
Bool(b) == [t |-> "bool", is |-> b]
Str(s) == [t |-> "str", is |-> s]
Num(halves) == [t |-> "num", integer |-> FALSE, halves |-> halves]
Integer(n) == [t |-> "num", integer |-> TRUE, halves |-> 2 * n]
Arr(items) == [t |-> "arr", items |-> items]
Obj(keys) == [t |-> "obj", keys |-> keys]

Blank == [t |-> "blank"]
Garbage == [t |-> "garbage"]

Absent == <<>>
Present(x) == <<x>>

PlaceTypes == [lat |-> "f64", lon |-> "f64", sogKn |-> "f64", cogDeg |-> "f64", utc |-> "str",
               satellites |-> "u8", hdop |-> "f64", ageSeconds |-> "u64"]
SourceTypes == [name |-> "str", status |-> "str", message |-> "str", sentences |-> "u64",
                rejected |-> "u64"]
TargetTypes == [mmsi |-> "u32", name |-> "str", callsign |-> "str", shipType |-> "u8",
                kind |-> "str", class |-> "str", status |-> "str", lat |-> "f64", lon |-> "f64",
                sogKn |-> "f64", cogDeg |-> "f64", headingDeg |-> "u16", lengthM |-> "u16",
                beamM |-> "u16", destination |-> "str", ageSeconds |-> "u64", rangeNm |-> "f64",
                bearingDeg |-> "f64", cpaNm |-> "f64", tcpaMinutes |-> "f64", danger |-> "bool"]

FixStatuses == {"none", "nofix", "ok", "stale"}
SourceStatuses == {"connecting", "ok", "quiet", "error", "ended"}

Largest == [u8 |-> 255, u16 |-> 65535, u32 |-> MaxCount, u64 |-> MaxCount]

-----------------------------------------------------------------------------
(* What serde writes of a value of each type. *)
Written(type, x) ==
    IF type = "str" THEN Str(x)
    ELSE IF type = "bool" THEN Bool(x)
    ELSE IF type \in DOMAIN Largest THEN Integer(x)
    ELSE IF x = NotFinite THEN Null
    ELSE Num(x)

Struct(s, types) == [k \in DOMAIN s |-> Written(types[k], s[k])]

(* Mutation: only the keys of the message itself are looked at. *)
WithoutNullsOutside(v) == Obj(RestrictValues(v.keys, LAMBDA item : item.t # "null"))

(* without_nulls of one value; Inner is without_nulls of what it holds. *)
Pruned(v, Inner(_)) ==
    IF v.t = "obj" THEN Obj([k \in {k \in DOMAIN v.keys : v.keys[k].t # "null"} |-> Inner(v.keys[k])])
    ELSE IF v.t = "arr" THEN Arr([i \in DOMAIN v.items |-> Inner(v.items[i])])
    ELSE v

(* without_nulls: a message holds at most lists of objects, whose keys hold no more. *)
Scalar(v) == v
PrunedObject(v) == Pruned(v, Scalar)
PrunedPart(v) == Pruned(v, PrunedObject)
WithoutNulls(v) == Pruned(v, PrunedPart)

(* The fix of a message: its status, and the keys of its place beside it. *)
FixWritten(fix) ==
    LET place == IF fix.place = Absent THEN [k \in {} |-> Null] ELSE Struct(fix.place[1], PlaceTypes)
    IN Obj([k \in {"status"} \cup DOMAIN place |-> IF k = "status" THEN Str(fix.status) ELSE place[k]])

List(items, types) == Arr([i \in DOMAIN items |-> Obj(Struct(items[i], types))])

(* The keys of a message, and what is written of each. *)
Body(m) ==
    [k \in {"type", "v"} \cup (DOMAIN m \ {"type"}) |->
        IF k = "type" THEN Str(m.type)
        ELSE IF k = "v" THEN Integer(VERSION)
        ELSE IF k = "keel" THEN Str(m.keel)
        ELSE IF k = "fix" THEN FixWritten(m.fix)
        ELSE IF k = "sources" THEN List(m.sources, SourceTypes)
        ELSE List(m.targets, TargetTypes)]

(* Message::to_line. *)
ToLine(m) == WithoutNulls(Obj(Body(m)))

-----------------------------------------------------------------------------
(* What is read of a key, if it is there and is what it should be. *)
Get(keys, k, Read(_)) == IF k \in DOMAIN keys THEN Read(keys[k]) ELSE Absent

AsStr(v) == IF v.t = "str" THEN Present(v.is) ELSE Absent
AsFinite(v) == IF v.t = "num" THEN Present(v.halves) ELSE Absent
AsU64(v) ==
    IF v.t = "num" /\ v.integer /\ v.halves \in 0..(2 * MaxCount) THEN Present(v.halves \div 2)
    ELSE Absent

(* whole_u64: an integer, or a float that is one. *)
WholeU64(v) ==
    IF v.t = "num" /\ v.halves \in 0..(2 * MaxCount) /\ v.halves % 2 = 0
    THEN Present(v.halves \div 2) ELSE Absent

(* satellite_count: what is left of the point. *)
SatelliteCount(v) ==
    IF v.t = "num" /\ v.halves \in 0..(2 * 255) THEN Present(v.halves \div 2) ELSE Absent

(* The keys of which something was read. *)
Said(options) == LET said == {k \in DOMAIN options : options[k] # Absent}
                 IN [k \in said |-> options[k][1]]

OrZero(option) == IF option = Absent THEN Present(0) ELSE option

(* Mutation: a place is whole or none, its speed with it. *)
PlaceWithSpeed(keys) ==
    LET place == [k \in {"lat", "lon", "sogKn"} |-> Get(keys, k, AsFinite)]
    IN IF \E k \in DOMAIN place : place[k] = Absent THEN Absent
       ELSE Present(Said(place @@ [ageSeconds |-> OrZero(Get(keys, "ageSeconds", WholeU64))]))

(* place_from. *)
Place(keys) ==
    LET lat == Get(keys, "lat", AsFinite)
        lon == Get(keys, "lon", AsFinite)
    IN IF lat = Absent \/ lon = Absent THEN Absent
       ELSE IF lat[1] \notin -180..180 \/ lon[1] \notin -360..360 THEN Absent
       ELSE Present(Said([lat |-> lat, lon |-> lon,
                          sogKn |-> Get(keys, "sogKn", AsFinite),
                          cogDeg |-> Get(keys, "cogDeg", AsFinite),
                          utc |-> Get(keys, "utc", AsStr),
                          satellites |-> Get(keys, "satellites", SatelliteCount),
                          hdop |-> Get(keys, "hdop", AsFinite),
                          ageSeconds |-> OrZero(Get(keys, "ageSeconds", WholeU64))]))

Fix(status, place) == [status |-> status, place |-> IF status = "none" THEN Absent ELSE place]
NoFix == Fix("none", Absent)

(* fix_from_value: a status of a later version is stale, if there is a place. *)
FixRead(v) ==
    IF v.t # "obj" THEN NoFix
    ELSE LET place == Place(v.keys)
             status == Get(v.keys, "status", AsStr)
         IN IF status = Absent THEN NoFix
            ELSE IF status[1] \in FixStatuses THEN Fix(status[1], place)
            ELSE IF place = Absent THEN NoFix
            ELSE Fix("stale", place)

(* Fix::position. *)
FixPosition(fix) ==
    IF fix.place = Absent THEN Absent
    ELSE Present([place |-> fix.place[1], current |-> fix.status = "ok"])

(* source_from_value: a source, or nothing of one without a name or a known status. *)
SourceRead(v) ==
    IF v.t # "obj" THEN Absent
    ELSE LET name == Get(v.keys, "name", AsStr)
             status == Get(v.keys, "status", AsStr)
         IN IF name = Absent \/ status = Absent THEN Absent
            ELSE IF status[1] \notin SourceStatuses THEN Absent
            ELSE Present(Said([name |-> name, status |-> status,
                               message |-> Get(v.keys, "message", AsStr),
                               sentences |-> OrZero(Get(v.keys, "sentences", WholeU64)),
                               rejected |-> OrZero(Get(v.keys, "rejected", WholeU64))]))

(* Mutation: sources are read all of them, or none, as targets are. *)
AllSourcesOrNone(keys) ==
    IF "sources" \notin DOMAIN keys THEN <<>>
    ELSE IF keys["sources"].t # "arr" THEN <<>>
    ELSE LET read == [i \in DOMAIN keys["sources"].items |-> SourceRead(keys["sources"].items[i])]
         IN IF \E i \in DOMAIN read : read[i] = Absent THEN <<>> ELSE FlattenSeq(read)

SourcesRead(keys) ==
    IF "sources" \notin DOMAIN keys THEN <<>>
    ELSE IF keys["sources"].t # "arr" THEN <<>>
    ELSE LET items == keys["sources"].items
         IN FlattenSeq([i \in DOMAIN items |-> SourceRead(items[i])])

(* What serde takes of a key of a target, a null as none. *)
Fits(type, v) ==
    IF type \in {"str", "bool"} THEN v.t = type
    ELSE /\ v.t = "num"
         /\ type \in DOMAIN Largest => v.integer /\ v.halves \in 0..(2 * Largest[type])

Value(type, v) == IF type \in {"str", "bool"} THEN v.is
                  ELSE IF type \in DOMAIN Largest THEN v.halves \div 2
                  ELSE v.halves

Required == {"mmsi", "danger"}

(* target_from_value; a target written as a list, which serde takes too, is left out. *)
TargetFits(v) ==
    /\ v.t = "obj"
    /\ Required \subseteq DOMAIN v.keys
    /\ \A k \in DOMAIN v.keys \cap DOMAIN TargetTypes :
          Fits(TargetTypes[k], v.keys[k]) \/ (k \notin Required /\ v.keys[k] = Null)
    /\ LET given(k) == k \in DOMAIN v.keys /\ v.keys[k] # Null
       IN given("lat") = given("lon")

TargetRead(v) ==
    [k \in {k \in DOMAIN v.keys \cap DOMAIN TargetTypes : v.keys[k] # Null} |->
        Value(TargetTypes[k], v.keys[k])]

-----------------------------------------------------------------------------
Ignored == [read |-> "nothing"]
NotJson == [read |-> "not json"]
OtherVersion(found) == [read |-> "version", found |-> found]
Message(m) == [read |-> "message", message |-> m]

Hello(keys) ==
    LET keel == Get(keys, "keel", AsStr)
    IN IF keel = Absent THEN NotJson ELSE Message([type |-> "hello", keel |-> keel[1]])

State(keys) ==
    IF "fix" \notin DOMAIN keys THEN Ignored
    ELSE Message([type |-> "state", fix |-> FixRead(keys["fix"]), sources |-> SourcesRead(keys)])

Targets(keys) ==
    IF "targets" \notin DOMAIN keys THEN NotJson
    ELSE LET list == keys["targets"]
         IN IF list.t # "arr" THEN NotJson
            ELSE IF \E i \in DOMAIN list.items : ~TargetFits(list.items[i]) THEN NotJson
            ELSE Message([type |-> "targets",
                          targets |-> [i \in DOMAIN list.items |-> TargetRead(list.items[i])]])

(* Message::from_line. *)
FromLine(line) ==
    IF line.t = "blank" THEN Ignored
    ELSE IF line.t # "obj" THEN NotJson
    ELSE LET v == Get(line.keys, "v", AsU64)
             type == Get(line.keys, "type", AsStr)
         IN IF v # Present(VERSION) THEN OtherVersion(v)
            ELSE IF type = Present("hello") THEN Hello(line.keys)
            ELSE IF type = Present("state") THEN State(line.keys)
            ELSE IF type = Present("targets") THEN Targets(line.keys)
            ELSE Ignored
================================================================================

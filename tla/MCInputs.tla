-------------------------------- MODULE MCInputs --------------------------------
(* Inputs for TLC: of each kind the ordinary, the least, the greatest, and those one
   beyond what a test in the code asks for. *)
EXTENDS Inputs

MCSentences ==
    {<<"G", "P", "R", "M", "C", ",", "0", ",", "A", ",", "4", "8", "0", "7", ".", "0", ",", "N">>,
     <<"A", "I", "V", "D", "M", ",", "1", ",", "1", ",", ",", "A", ",", "1", "5", ",", "0">>}

Angle(d, m, t) == [degrees |-> d, minutes |-> m, thousandths |-> t]
MCAngles == {Angle(0, 0, 0), Angle(48, 7, 38), Angle(89, 59, 999), Angle(90, 0, 0), Angle(90, 0, 1),
             Angle(7, 60, 0), Angle(179, 59, 999), Angle(180, 0, 0), Angle(180, 0, 1)}

T(year, month, day) ==
    [year |-> year, month |-> month, day |-> day, hour |-> 0, minute |-> 0, second |-> 0, decimals |-> <<>>]
MCTimes ==
    {T(year, month, day) : year \in {1980, 2000, 2079}, month \in {2, 12}, day \in {0, 28, 29, 30, 31, 32}}
    \cup {T(2024, month, 31) : month \in 0..13}
    \cup {[T(2026, 7, 25) EXCEPT !.hour = hour, !.minute = minute, !.second = second, !.decimals = <<".", "5">>] :
             hour \in {23, 24}, minute \in {59, 60}, second \in {60, 61}}

(* Six-bit texts: padded, all padding, ended by spaces, and full. *)
Six(s, chars) == s \o [i \in 1..(chars - Len(s)) |-> 0]
TextOf(six, reads) == [six |-> six, reads |-> reads]
Texts(chars) ==
    {TextOf(Six(<<1, 32, 49, 32, 0, 5>>, chars), Known(<<65, 32, 49>>)),
     TextOf(Six(<<>>, chars), Missing),
     TextOf([i \in 1..chars |-> 26], Known([i \in 1..chars |-> 90]))}

Motions ==
    {[sog |-> 1022, accuracy |-> 0, lon |-> -180 * 600000, lat |-> 90 * 600000, cog |-> 3599,
      heading |-> 359, second |-> 0],
     [sog |-> 1023, accuracy |-> 1, lon |-> 123456, lat |-> -1, cog |-> 3600, heading |-> 511,
      second |-> 60],
     [sog |-> 0, accuracy |-> 0, lon |-> 181 * 600000, lat |-> 0, cog |-> 0, heading |-> 0,
      second |-> 0],
     [sog |-> 0, accuracy |-> 0, lon |-> 0, lat |-> 91 * 600000, cog |-> 0, heading |-> 0,
      second |-> 0]}
Sizes == {[bow |-> 511, stern |-> 1, port |-> 63, starboard |-> 63],
          [bow |-> 0, stern |-> 0, port |-> 0, starboard |-> 5]}

A(type, mmsi) == [type |-> type, mmsi |-> mmsi]
MCAisMessages ==
    {A(1, 0) @@ [status |-> 0] @@ motion : motion \in Motions}
    \cup {A(3, 366999101) @@ [status |-> 15] @@ motion : motion \in Motions}
    \cup {A(18, 1) @@ motion : motion \in Motions}
    \cup {A(19, 2) @@ motion @@ [name |-> CHOOSE x \in Texts(20) : TRUE, shipType |-> 36]
            @@ [bow |-> 1, stern |-> 2, port |-> 3, starboard |-> 4] : motion \in Motions}
    \cup {A(5, 3) @@ [name |-> name, callsign |-> CHOOSE x \in Texts(7) : TRUE, shipType |-> 0,
                      destination |-> CHOOSE x \in Texts(20) : x # name]
            @@ [bow |-> 9, stern |-> 0, port |-> 0, starboard |-> 0] : name \in Texts(20)}
    \cup {A(24, 4) @@ [part |-> 0, name |-> name] : name \in Texts(20)}
    \cup {A(24, mmsi) @@ [part |-> 1, callsign |-> CHOOSE x \in Texts(7) : x.reads # Missing,
                          shipType |-> 255] @@ size :
            mmsi \in {979999999, 980000000, 989999999}, size \in Sizes}

(* Counted in halves, a place in the middle and at the edges, and what may be left out. *)
Place1 == [lat |-> 75, lon |-> -245, ageSeconds |-> 0]
Place2 == [lat |-> 180, lon |-> -360, sogKn |-> 10, cogDeg |-> 510, utc |-> "time",
           satellites |-> 9, hdop |-> 1, ageSeconds |-> 5]
MCFixes ==
    {NoFix, Fix("nofix", Absent)}
    \cup {Fix(status, Present(p)) : status \in {"nofix", "ok", "stale"}, p \in {Place1, Place2}}
    \cup {Fix("ok", Present([Place2 EXCEPT ![k] = NotFinite])) : k \in {"lat", "sogKn"}}
MCSourceLists == {<<>>,
              <<[name |-> "one", status |-> "ok", sentences |-> 7, rejected |-> 0],
                [name |-> "two", status |-> "error", message |-> "why", sentences |-> 0,
                 rejected |-> 1]>>}
Vessel1 == [mmsi |-> 300, name |-> "name", shipType |-> 255, lat |-> 75, lon |-> -245,
            rangeNm |-> NotFinite, headingDeg |-> 359, ageSeconds |-> 1, danger |-> FALSE]
Vessel2 == [mmsi |-> 1, danger |-> TRUE]
MCHubMessages ==
    {[type |-> "hello", keel |-> "0"]}
    \cup {[type |-> "state", fix |-> fix, sources |-> sources] : fix \in MCFixes, sources \in MCSourceLists}
    \cup {[type |-> "targets", targets |-> ts] : ts \in {<<>>, <<Vessel1, Vessel2>>}}

MCValues == {Null, Bool(TRUE), Str("ok"), Str("adrift"), Arr(<<>>), Obj([k \in {} |-> Null]),
             Num(0), Num(7), Num(-1), Num(181), Num(-361), Num(361), Integer(2), Integer(-2),
             Integer(256), Integer(400)}

(* Steps of longitude are half as wide off the equator, and widths are counted in halves. *)
MCWidth == [sum \in -4..4 |-> IF sum \in -1..1 THEN 2 ELSE 1]
MCDirection == [c \in {"N", "E", "SW"} |->
                  CASE c = "N" -> [east |-> 0, north |-> 1]
                    [] c = "E" -> [east |-> 1, north |-> 0]
                    [] c = "SW" -> [east |-> -1, north |-> -1]]
MCTracks ==
    [lat : {-1, 0, 1}, lon : {0, 1, 4, 7}, at : {0}, sog : {Nowhere, Just(0), Just(1), Just(2)},
     cog : {Nowhere, Just("N"), Just("E"), Just("SW")}]

MCRanges == {Nowhere, Just(0), Just(1)}
================================================================================

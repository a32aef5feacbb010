---------------------------------- MODULE Nmea ----------------------------------
(***************************************************************************)
(* NMEA 0183 of src/nmea.rs: a line framed and checked by `parse`, and the *)
(* position that an RMC or GGA sentence holds.                             *)
(*                                                                         *)
(* A line is a sequence of characters.  What may be missing (Option) is a  *)
(* sequence of at most one value.  An angle is a pair, so many parts of a  *)
(* minute, exact where the code divides in floating point; a speed, a      *)
(* course and a dilution are told by their fields.                         *)
(***************************************************************************)
EXTENDS Integers, SequencesExt, TLC

None == <<>>
Some(x) == <<x>>

-----------------------------------------------------------------------------
(* What can be printed, but for a grave accent between the two. *)
Upper == <<" ", "!", "\"", "#", "$", "%", "&", "'", "(", ")", "*", "+", ",", "-", ".", "/",
           "0", "1", "2", "3", "4", "5", "6", "7", "8", "9", ":", ";", "<", "=", ">", "?",
           "@", "A", "B", "C", "D", "E", "F", "G", "H", "I", "J", "K", "L", "M", "N", "O",
           "P", "Q", "R", "S", "T", "U", "V", "W", "X", "Y", "Z", "[", "\\", "]", "^", "_">>
Lower == <<"a", "b", "c", "d", "e", "f", "g", "h", "i", "j", "k", "l", "m", "n", "o", "p",
           "q", "r", "s", "t", "u", "v", "w", "x", "y", "z", "{", "|", "}", "~">>
Digit == <<"0", "1", "2", "3", "4", "5", "6", "7", "8", "9">>
HexUpper == <<"0", "1", "2", "3", "4", "5", "6", "7", "8", "9", "A", "B", "C", "D", "E", "F">>
HexLower == <<"0", "1", "2", "3", "4", "5", "6", "7", "8", "9", "a", "b", "c", "d", "e", "f">>

(* The characters of s, numbered from first on. *)
From(first, s) == [c \in Range(s) |-> first - 1 + CHOOSE i \in DOMAIN s : s[i] = c]

Code == [c \in Range(Upper) \cup Range(Lower) |->
            IF c \in Range(Upper) THEN From(32, Upper)[c] ELSE From(97, Lower)[c]]
Alphanumeric == {c \in DOMAIN Code : Code[c] \in (48..57) \cup (65..90) \cup (97..122)}

Hex == [c \in Range(HexUpper) \cup Range(HexLower) |->
           IF c \in Range(HexUpper) THEN From(0, HexUpper)[c] ELSE From(0, HexLower)[c]]

All(s, chars) == Range(s) \subseteq chars
Digits(s) == s # <<>> /\ All(s, Range(Digit))
Whole(s) == LET n[i \in 0..Len(s)] == IF i = 0 THEN 0 ELSE 10 * n[i - 1] + Hex[s[i]] IN n[Len(s)]
TenTo(n) == LET power[i \in 0..n] == IF i = 0 THEN 1 ELSE 10 * power[i - 1] IN power[n]

Trimmed(line) == SubSeq(line, 1, SelectLastInSeq(line, LAMBDA c : c # " "))

(* The parts of s between its commas. *)
Split(s) ==
    LET ends == <<0>> \o SelectSeq([i \in 1..Len(s) |-> i], LAMBDA i : s[i] = ",")
                \o <<Len(s) + 1>>
    IN [i \in 1..(Len(ends) - 1) |-> SubSeq(s, ends[i] + 1, ends[i + 1] - 1)]

Bit(n, weight) == (n \div weight) % 2

(* How many of the bytes have the bit. *)
Bearers(data, weight) == Cardinality({i \in DOMAIN data : Bit(Code[data[i]], weight) = 1})

(* A number by its bits, of which ASCII has seven. *)
Byte(BitAt(_)) ==
    BitAt(1) + 2 * BitAt(2) + 4 * BitAt(4) + 8 * BitAt(8) + 16 * BitAt(16) + 32 * BitAt(32)
        + 64 * BitAt(64)

(* Mutation: a bit is set that any of the bytes has. *)
ComputedOr(data) == Byte(LAMBDA w : IF Bearers(data, w) = 0 THEN 0 ELSE 1)

(* The exclusive-or of the bytes: a bit is set that an odd number of them has. *)
Computed(data) == Byte(LAMBDA w : Bearers(data, w) % 2)

Framing == [read |-> "framing"]
Checksum == [read |-> "checksum"]

(* A talker of two characters, and a kind. *)
Addressed(s) == Len(s) >= 3 /\ All(s, Alphanumeric)

(* nmea::parse: a sentence, or why the line is rejected. *)
Parse(line) ==
    LET text == Trimmed(line)
        body == Tail(text)
        star == SelectLastInSeq(body, LAMBDA c : c = "*")
        data == SubSeq(body, 1, star - 1)
        sum == SubSeq(body, star + 1, Len(body))
        parts == Split(data)
        framed == /\ text # <<>> /\ text[1] \in {"$", "!"}
                  /\ star # 0 /\ Len(sum) = 2 /\ All(sum, DOMAIN Hex)
    IN IF ~framed THEN Framing
       ELSE IF 16 * Hex[sum[1]] + Hex[sum[2]] # Computed(data) THEN Checksum
       ELSE IF ~Addressed(parts[1]) THEN Framing
       ELSE [read |-> "sentence", talker |-> SubSeq(parts[1], 1, 2),
             kind |-> SubSeq(parts[1], 3, Len(parts[1])), fields |-> Tail(parts)]

-----------------------------------------------------------------------------
Fraction(s) == s = <<>> \/ (s[1] = "." /\ Digits(Tail(s)))

(* number: digits with a point at most, and perhaps a sign.  The other ways to write
   a number, by exponent or by name, no receiver uses. *)
Number(field) ==
    LET n == IF field # <<>> /\ field[1] \in {"+", "-"} THEN Tail(field) ELSE field
        points == {i \in DOMAIN n : n[i] = "."}
    IN IF All(n, Range(Digit) \cup {"."}) /\ points # DOMAIN n /\ (\A i, j \in points : i = j)
       THEN Some(field) ELSE None

(* Mutation: minutes are whatever number is left after the degrees. *)
CoordByNumber(value, hemisphere, degreeDigits, signs, max) ==
    LET degrees == SubSeq(value, 1, degreeDigits)
        minutes == SubSeq(value, degreeDigits + 1, Len(value))
        point == SelectInSeq(minutes, LAMBDA c : c = ".")
        whole == IF point = 0 THEN minutes ELSE SubSeq(minutes, 1, point - 1)
        decimals == IF point = 0 THEN <<>> ELSE SubSeq(minutes, point + 1, Len(minutes))
        parts == TenTo(Len(decimals))
        angle == (60 * Whole(degrees) + Whole(whole)) * parts + Whole(decimals)
    IN IF Len(value) <= degreeDigits + 2 \/ Number(minutes) = None \/ ~Digits(degrees) THEN None
       ELSE IF Whole(whole) >= 60 \/ angle > 60 * max * parts \/ hemisphere \notin DOMAIN signs
       THEN None
       ELSE Some([minutes |-> signs[hemisphere] * angle, parts |-> parts])

(* coord: whole degrees, two whole-minute digits and their decimals. *)
Coord(value, hemisphere, degreeDigits, signs, max) ==
    LET degrees == SubSeq(value, 1, degreeDigits)
        whole == SubSeq(value, degreeDigits + 1, degreeDigits + 2)
        decimals == SubSeq(value, degreeDigits + 3, Len(value))
        places == IF decimals = <<>> THEN <<>> ELSE Tail(decimals)
        parts == TenTo(Len(places))
        angle == (60 * Whole(degrees) + Whole(whole)) * parts + Whole(places)
    IN IF Len(value) < degreeDigits + 2 \/ ~Digits(degrees) \/ ~Digits(whole) \/ ~Fraction(decimals)
       THEN None
       ELSE IF Whole(whole) >= 60 \/ angle > 60 * max * parts \/ hemisphere \notin DOMAIN signs
       THEN None
       ELSE Some([minutes |-> signs[hemisphere] * angle, parts |-> parts])

NorthSouth == [h \in {<<"N">>, <<"S">>} |-> IF h = <<"N">> THEN 1 ELSE -1]
EastWest == [h \in {<<"E">>, <<"W">>} |-> IF h = <<"E">> THEN 1 ELSE -1]

Days(month, year) ==
    LET leap == year % 4 = 0 /\ (year % 100 # 0 \/ year % 400 = 0)
    IN IF month \in {1, 3, 5, 7, 8, 10, 12} THEN 31
       ELSE IF month \in {4, 6, 9, 11} THEN 30
       ELSE IF month # 2 THEN 0
       ELSE IF leap THEN 29 ELSE 28

(* utc: a date and a time of day that exist, to the second. *)
Utc(date, time) ==
    LET clock == SubSeq(time, 1, 6)
        n(s, at) == Whole(SubSeq(s, at, at + 1))
        year == IF n(date, 5) >= 80 THEN 1900 + n(date, 5) ELSE 2000 + n(date, 5)
    IN IF \/ Len(time) < 6 \/ Len(date) # 6 \/ ~Digits(date) \/ ~Digits(clock)
          \/ ~Fraction(SubSeq(time, 7, Len(time)))
       THEN None
       ELSE IF \/ n(date, 1) \notin 1..Days(n(date, 3), year)
               \/ n(clock, 1) > 23 \/ n(clock, 3) > 59 \/ n(clock, 5) > 60
       THEN None
       ELSE Some(<<year, n(date, 3), n(date, 1), n(clock, 1), n(clock, 3), n(clock, 5)>>)

(* satellites: a u8. *)
Count(field) ==
    LET n == IF field # <<>> /\ field[1] = "+" THEN Tail(field) ELSE field
    IN IF Digits(n) /\ Whole(n) <= 255 THEN Some(Whole(n)) ELSE None

(* nmea::position. *)
Position(s) ==
    LET f(i) == IF i < Len(s.fields) THEN s.fields[i + 1] ELSE <<>>
        lat(i) == Coord(f(i), f(i + 1), 2, NorthSouth, 90)
        lon(i) == Coord(f(i), f(i + 1), 3, EastWest, 180)
    IN IF s.kind = <<"R", "M", "C">>
       THEN Some([kind |-> "Rmc",
                  valid |-> f(1) = <<"A">> /\ f(11) \notin {<<"E">>, <<"M">>, <<"S">>, <<"N">>},
                  lat |-> lat(2), lon |-> lon(4), sogKn |-> Number(f(6)),
                  cogDeg |-> Number(f(7)), utc |-> Utc(f(8), f(0)),
                  satellites |-> None, hdop |-> None])
       ELSE IF s.kind = <<"G", "G", "A">>
       THEN Some([kind |-> "Gga",
                  valid |-> f(5) \in {<<Digit[n + 1]>> : n \in 1..5},
                  lat |-> lat(1), lon |-> lon(3), sogKn |-> None, cogDeg |-> None,
                  utc |-> None, satellites |-> Count(f(6)), hdop |-> Number(f(7))])
       ELSE None
================================================================================

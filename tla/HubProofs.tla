------------------------------- MODULE HubProofs -------------------------------
(***************************************************************************)
(* What Hub promises, for every number of sources, every threshold, hold,  *)
(* limit and lateness, with a recording or without: the fix, the judgement *)
(* of the sources in time, the lines of an outage, and what the recording  *)
(* tells of them.                                                          *)
(***************************************************************************)
EXTENDS Hub, FiniteSetTheorems, SequenceTheorems, WellFoundedInduction, TLAPS

Saids == Statuses \cup FixStatuses \cup {"connected"}
Reasons == Messages \cup {NoMessage, "no sentences", "sentences still arriving"}
Lines == [says : Saids, message : Reasons, for : Int]

Recorders ==
    [held : BOOLEAN, writing : BOOLEAN, lines : Seq({AnyLine}),
     behind : BOOLEAN, lostComment : BOOLEAN, caughtUp : BOOLEAN]

Types ==
    /\ TypeOK
    /\ tickDue <= now + TickEvery /\ now <= tickDue + Lateness
    /\ outage \in [Sources -> Seq(Lines)]
    /\ rec \in Recorders
    /\ \A c \in outbox : c \in [about : Sources \cup {TheFix}, line : Lines]
    /\ \A c, d \in outbox : c.about = d.about => c = d
    /\ booked \in [Sources \cup {TheFix} -> SUBSET Lines]
    /\ \A s \in Sources : IsFiniteSet(Errors(booked[s]))

-----------------------------------------------------------------------------
(* A source's part in the invariant: what the journal has seen of it, and what it has
   written of the outage, say of each other what SourceNews relies on.  Written of t, a
   Tracked, sn, a Seen, and o, the lines of its outage, as of the tick before due. *)
Quieted == {"quiet", "connected"}

(* What the journal remembers is what was written. *)
Remembers(sn, o) ==
    /\ sn \in Seens /\ o \in Seq(Lines) /\ IsFiniteSet(sn.errors)
    /\ Errors(Range(o)) = sn.errors
    /\ sn.told <=> "connected" \in Says(Range(o))
    /\ sn.status = "quiet" => Says(Range(o)) \cap Quieted # {}
    /\ o # <<>> => sn.status \in {"error", "connecting", "quiet"}
    /\ \A i, j \in DOMAIN o :
          i < j => o[i].says # o[j].says \/ o[i].message # o[j].message

(* A source that is quiet after it worked, and of which nothing was written yet. *)
Unsaid(sn, o) == o = <<>> /\ sn.status \in {"ok", Unwritten}

(* A source between two turns. *)
Sound(t, sn, o, due) ==
    /\ Remembers(sn, o) /\ t \in Trackeds
    /\ t.status = "ok" => t.heard # Never
    /\ t.status = "error" => t.message \in Messages
    /\ t.status \in {"ok", "ended"} => o = <<>> /\ sn.status = t.status
    /\ t.status = "connecting" => sn.connected = t.connected
    /\ t.status # "connecting" => sn.connected = Never
    /\ t.status = "connecting" /\ t.connected = Never =>
          t.heard = Never /\ (o = <<>> \/ sn.status = "connecting")
    /\ t.status = "quiet" => LastSign(t) # Never /\ (sn.status = "quiet" \/ Unsaid(sn, o))
    /\ t.status = "quiet" /\ Says(Range(o)) \cap Quieted = {} =>
          due - TickEvery - LastSign(t) < StaleAfter + QuietHold
    /\ t.status = "error" =>
          t.message \in sn.errors \/ Cardinality(sn.errors) >= MessagesPerOutage
    /\ Waiting(t) => due - TickEvery - LastSign(t) < StaleAfter

(* A source with an event on it, before the turn judges it. *)
Ready(t, sn, o) ==
    /\ Remembers(sn, o) /\ t \in Trackeds
    /\ t.status = "ok" => t.heard # Never
    /\ t.status = "error" => t.message \in Messages
    /\ t.status = "ok" /\ Silent(t) => o = <<>> /\ sn.status = "ok" /\ sn.connected = Never
    /\ t.status = "connecting" => sn.connected = t.connected
    /\ t.status = "quiet" => sn.connected = Never
    /\ t.status = "connecting" /\ t.connected = Never =>
          t.heard = Never /\ (o = <<>> \/ sn.status = "connecting")
    /\ t.status = "quiet" => LastSign(t) # Never /\ (sn.status = "quiet" \/ Unsaid(sn, o))

-----------------------------------------------------------------------------
(* What the recording has been told, or will have been when this turn's news is sent:
   the lines about a source are those the journal goes by. *)
Standing(sn, lines) ==
    /\ sn.errors \subseteq Errors(lines)
    /\ sn.status \in {"ok", "ended"} => lines = {Plain(sn.status)}

Whole ==
    rec.held /\ ~rec.lostComment /\ ~rec.caughtUp =>
        /\ \A s \in Sources :
              /\ \A c \in outbox : c.about = s => Standing(seen[s], Told(booked[s], c))
              /\ (\A c \in outbox : c.about # s) => Standing(seen[s], booked[s])
        /\ \A c \in outbox : c.about = TheFix => c.line.says = fixSeen
        /\ (\A c \in outbox : c.about # TheFix) /\ fixSeen # Unwritten =>
              {l.says : l \in booked[TheFix]} = {fixSeen}

InTime == shown = "ok" => tickDue - TickEvery - nav.at < StaleAfter

IInv ==
    /\ Types /\ InTime /\ ConnectedIsExact /\ Whole
    /\ \A s \in Sources : Sound(tracked[s], seen[s], outage[s], tickDue)

-----------------------------------------------------------------------------
(* Of two instants, the later. *)
LEMMA LaterOfTwo ==
    ASSUME NEW a \in Int, NEW b \in Int
    PROVE  Max({a, b}) = IF a >= b THEN a ELSE b
<1>1. \E x \in {a, b} : \A y \in {a, b} : x >= y
  OBVIOUS
<1>2. PICK x \in {a, b} : Max({a, b}) = x /\ \A y \in {a, b} : x >= y
  BY <1>1 DEF Max
<1> QED
  BY <1>2

(* The last sign of a source is its last line or its last connection. *)
LEMMA LastSignOfTwo ==
    ASSUME NEW t \in Trackeds
    PROVE  /\ LastSign(t) \in Int
           /\ LastSign(t) = IF t.heard >= t.connected THEN t.heard ELSE t.connected
           /\ t.heard \in Int /\ t.connected \in Int
           /\ t.heard >= Never /\ t.connected >= Never
<1>1. /\ t.heard \in Int /\ t.connected \in Int /\ Never \in Int
      /\ t.heard >= Never /\ t.connected >= Never
  BY DEF Trackeds, Instants, Never
<1> QED
  BY <1>1, LaterOfTwo DEF LastSign

(* One line more: the sequence, and what is in it. *)
LEMMA OneMore ==
    ASSUME NEW o \in Seq(Lines), NEW l \in Lines
    PROVE  /\ Append(o, l) \in Seq(Lines) /\ Append(o, l) # <<>>
           /\ Range(Append(o, l)) = Range(o) \cup {l}
           /\ DOMAIN Append(o, l) = 1..Len(o) + 1 /\ DOMAIN o = 1..Len(o) /\ Len(o) \in Nat
           /\ \A i \in 1..Len(o) : Append(o, l)[i] = o[i] /\ o[i] \in Range(o)
           /\ Append(o, l)[Len(o) + 1] = l
<1>1. /\ Append(o, l) \in Seq(Lines) /\ Append(o, l) # <<>>
      /\ Len(Append(o, l)) = Len(o) + 1
      /\ \A i \in 1..Len(o) : Append(o, l)[i] = o[i]
      /\ Append(o, l)[Len(o) + 1] = l
  BY AppendProperties
<1>2. Len(o) \in Nat /\ DOMAIN o = 1..Len(o) /\ DOMAIN Append(o, l) = 1..Len(o) + 1
  BY <1>1, LenProperties
<1>3. /\ Range(o) = {o[i] : i \in 1..Len(o)}
      /\ Range(Append(o, l)) = {Append(o, l)[i] : i \in 1..Len(o) + 1}
  BY <1>2 DEF Range
<1>4. Range(Append(o, l)) = Range(o) \cup {l}
  <2>1. \A i \in 1..Len(o) + 1 : i \in 1..Len(o) \/ i = Len(o) + 1
    BY <1>2
  <2>2. 1..Len(o) \subseteq 1..Len(o) + 1 /\ Len(o) + 1 \in 1..Len(o) + 1
    BY <1>2
  <2> QED
    BY <1>1, <1>3, <2>1, <2>2
<1> QED
  BY <1>1, <1>2, <1>3, <1>4

(* What a set of lines says, with one line more. *)
LEMMA OneMoreSaid ==
    ASSUME NEW lines, NEW l
    PROVE  /\ Says(lines \cup {l}) = Says(lines) \cup {l.says}
           /\ Errors(lines \cup {l}) =
                 IF l.says = "error" THEN Errors(lines) \cup {l.message} ELSE Errors(lines)
<1>1. Says(lines \cup {l}) = Says(lines) \cup {l.says}
  BY DEF Says
<1>2. CASE l.says = "error"
  <2>1. {k \in lines \cup {l} : k.says = "error"} = {k \in lines : k.says = "error"} \cup {l}
    BY <1>2
  <2> QED
    BY <1>1, <1>2, <2>1 DEF Errors
<1>3. CASE l.says # "error"
  <2>1. {k \in lines \cup {l} : k.says = "error"} = {k \in lines : k.says = "error"}
    BY <1>3
  <2> QED
    BY <1>1, <1>3, <2>1 DEF Errors
<1> QED
  BY <1>2, <1>3

(* Nothing written says nothing. *)
LEMMA NothingSaid ==
    /\ <<>> \in Seq(Lines) /\ Range(<<>>) = {} /\ DOMAIN <<>> = {}
    /\ Says({}) = {} /\ Errors({}) = {}
<1>1. <<>> \in Seq(Lines) /\ DOMAIN <<>> = {}
  BY EmptySeq, LenProperties
<1> QED
  BY <1>1 DEF Range, Says, Errors

-----------------------------------------------------------------------------
(* A line that says something. *)
LEMMA ALine ==
    ASSUME NEW says \in Saids, NEW message \in Reasons, NEW for \in Int
    PROVE  /\ Line(says, message, for) \in Lines
           /\ Line(says, message, for).says = says /\ Line(says, message, for).message = message
           /\ Line(says, message, for).for = for
           /\ says # "nothing" => Line(says, message, for) # NoLine
<1>1. Line(says, message, for) = [says |-> says, message |-> message, for |-> for]
      /\ NoLine.says = "nothing"
  BY DEF Line, NoLine
<1> QED
  BY <1>1 DEF Lines

(* A line that gives a status, and nothing else. *)
LEMMA PlainLine ==
    ASSUME NEW status \in Saids
    PROVE  /\ Plain(status) \in Lines /\ Plain(status).says = status
           /\ status # "nothing" => Plain(status) # NoLine
<1>1. NoMessage \in Reasons /\ 0 \in Int
  BY DEF NoMessage, Reasons
<1> QED
  BY <1>1, ALine DEF Plain

(* The line of an error. *)
LEMMA ErrorLine ==
    ASSUME NEW m \in Messages
    PROVE  /\ Line("error", m, 0) \in Lines /\ Line("error", m, 0) # NoLine
           /\ Line("error", m, 0).says = "error" /\ Line("error", m, 0).message = m
<1>1. m \in Reasons
  BY DEF Reasons
<1>2. "error" \in Saids /\ "error" # "nothing"
  BY DEF Saids, Statuses
<1> QED
  BY <1>1, <1>2, ALine

(* The lines of an outage with the line of a turn, if there was one. *)
With(o, line) == IF line = NoLine THEN o ELSE Append(o, line)

(* A line unlike those before it, and a Seen that remembers it. *)
LEMMA RemembersMore ==
    ASSUME NEW sn, NEW o, Remembers(sn, o), NEW l \in Lines, NEW new \in Seens,
           \A k \in Range(o) : k.says # l.says \/ k.message # l.message,
           new.errors = IF l.says = "error" THEN sn.errors \cup {l.message} ELSE sn.errors,
           new.told <=> sn.told \/ l.says = "connected",
           new.status \in {"error", "connecting", "quiet"},
           new.status = "quiet" => l.says \in Quieted
    PROVE  Remembers(new, Append(o, l))
<1>1. /\ o \in Seq(Lines) /\ IsFiniteSet(sn.errors) /\ Errors(Range(o)) = sn.errors
      /\ sn.told <=> "connected" \in Says(Range(o))
  BY DEF Remembers
<1>2. /\ Says(Range(Append(o, l))) = Says(Range(o)) \cup {l.says}
      /\ Errors(Range(Append(o, l))) = IF l.says = "error" THEN sn.errors \cup {l.message}
                                                          ELSE sn.errors
  <2>1. Range(Append(o, l)) = Range(o) \cup {l}
    BY <1>1, OneMore
  <2>2. /\ Says(Range(o) \cup {l}) = Says(Range(o)) \cup {l.says}
        /\ Errors(Range(o) \cup {l}) =
              IF l.says = "error" THEN Errors(Range(o)) \cup {l.message} ELSE Errors(Range(o))
    BY OneMoreSaid, Zenon
  <2> QED
    BY <1>1, <2>1, <2>2
<1>3. IsFiniteSet(new.errors)
  <2>1. IsFiniteSet(sn.errors \cup {l.message})
    BY <1>1, FS_AddElement
  <2> QED
    BY <1>1, <2>1
<1>4. ASSUME NEW i \in DOMAIN Append(o, l), NEW j \in DOMAIN Append(o, l), i < j
      PROVE  \/ Append(o, l)[i].says # Append(o, l)[j].says
             \/ Append(o, l)[i].message # Append(o, l)[j].message
  <2>1. /\ DOMAIN Append(o, l) = 1..Len(o) + 1 /\ DOMAIN o = 1..Len(o) /\ Len(o) \in Nat
        /\ \A k \in 1..Len(o) : Append(o, l)[k] = o[k] /\ o[k] \in Range(o)
        /\ Append(o, l)[Len(o) + 1] = l
    BY <1>1, OneMore
  <2>2. i \in 1..Len(o) /\ Append(o, l)[i] = o[i] /\ o[i] \in Range(o)
    BY <1>4, <2>1
  <2>3. CASE j = Len(o) + 1
    BY <2>1, <2>2, <2>3
  <2>4. CASE j # Len(o) + 1
    <3>1. j \in 1..Len(o) /\ Append(o, l)[j] = o[j]
      BY <2>1, <2>4
    <3> QED
      BY <1>4, <2>1, <2>2, <3>1 DEF Remembers
  <2> QED
    BY <2>3, <2>4
<1>5. Append(o, l) \in Seq(Lines) /\ Append(o, l) # <<>>
  BY <1>1, OneMore
<1>6. new.told <=> "connected" \in Says(Range(Append(o, l)))
  BY <1>1, <1>2
<1>7. new.status = "quiet" => Says(Range(Append(o, l))) \cap Quieted # {}
  BY <1>2
<1> QED
  BY <1>1, <1>2, <1>3, <1>4, <1>5, <1>6, <1>7 DEF Remembers

(* An error is told, or it was, or there were enough. *)
LEMMA ErrorTold ==
    ASSUME NEW sn, NEW o, Remembers(sn, o), NEW m \in Messages
    PROVE  LET n == ErrorNews(sn, m)
           IN /\ Remembers(n.seen, With(o, n.line))
              /\ n.seen.connected = Never
              /\ m \in n.seen.errors \/ Cardinality(n.seen.errors) >= MessagesPerOutage
              /\ n.line \in {NoLine, Line("error", m, 0)}
<1> DEFINE waiting == [sn EXCEPT !.connected = Never]
           told == [waiting EXCEPT !.errors = @ \cup {m}, !.status = "error"]
           l == Line("error", m, 0)
<1>1. sn \in Seens /\ Errors(Range(o)) = sn.errors
  BY DEF Remembers
<1>2. /\ waiting \in Seens /\ waiting.connected = Never /\ waiting.errors = sn.errors
      /\ waiting.told = sn.told /\ waiting.status = sn.status
  BY <1>1 DEF Seens, Instants
<1>3. CASE m \in sn.errors \/ Cardinality(sn.errors) >= MessagesPerOutage
  <2>1. ErrorNews(sn, m).seen = waiting /\ ErrorNews(sn, m).line = NoLine
    BY <1>3 DEF ErrorNews, News
  <2>2. Remembers(waiting, o)
    BY <1>2 DEF Remembers
  <2> QED
    BY <1>2, <1>3, <2>1, <2>2 DEF With
<1>4. CASE ~(m \in sn.errors \/ Cardinality(sn.errors) >= MessagesPerOutage)
  <2>1. ErrorNews(sn, m).seen = told /\ ErrorNews(sn, m).line = l
    BY <1>4 DEF ErrorNews, News
  <2>2. /\ told \in Seens /\ told.connected = Never /\ told.errors = sn.errors \cup {m}
        /\ told.told = sn.told /\ told.status = "error"
    BY <1>1, <1>2 DEF Seens, Statuses
  <2>3. l \in Lines /\ l.says = "error" /\ l.message = m /\ l # NoLine
    BY ErrorLine
  <2>4. ASSUME NEW k \in Range(o) PROVE k.says # l.says \/ k.message # l.message
    BY <1>1, <1>4, <2>3 DEF Errors
  <2>5. Remembers(told, Append(o, l))
    <3> HIDE DEF told, l
    <3> QED
      BY <2>2, <2>3, <2>4, RemembersMore
  <2> QED
    BY <2>1, <2>2, <2>3, <2>5 DEF With
<1> QED
  BY <1>3, <1>4

(* A link is being reached for the first time: said once, before anything else. *)
LEMMA ConnectingTold ==
    ASSUME NEW sn, NEW o, Remembers(sn, o),
           sn.connected = Never => o = <<>> \/ sn.status = "connecting"
    PROVE  LET n == ConnectingNews(sn)
           IN /\ Remembers(n.seen, With(o, n.line))
              /\ n.seen.connected = sn.connected
              /\ sn.connected = Never =>
                    With(o, n.line) = <<>> \/ n.seen.status = "connecting"
              /\ n.line \in {NoLine, Plain("connecting")}
<1> DEFINE new == [sn EXCEPT !.status = "connecting"]
           l == Plain("connecting")
<1>1. CASE sn.connected # Never \/ sn.status \in {"error", "connecting"}
  <2>1. ConnectingNews(sn).seen = sn /\ ConnectingNews(sn).line = NoLine
    BY <1>1 DEF ConnectingNews, News
  <2> QED
    BY <2>1 DEF With
<1>2. CASE ~(sn.connected # Never \/ sn.status \in {"error", "connecting"})
  <2>1. ConnectingNews(sn).seen = new /\ ConnectingNews(sn).line = l
    BY <1>2 DEF ConnectingNews, News
  <2>2. /\ new \in Seens /\ new.connected = sn.connected /\ new.errors = sn.errors
        /\ new.told = sn.told /\ new.status = "connecting"
    BY DEF Remembers, Seens, Statuses
  <2>3. l \in Lines /\ l.says = "connecting" /\ l # NoLine
    BY PlainLine DEF Saids, Statuses
  <2>4. Range(o) = {}
    BY <1>2, NothingSaid
  <2>5. Remembers(new, Append(o, l))
    <3> HIDE DEF new, l
    <3> QED
      BY <2>2, <2>3, <2>4, RemembersMore
  <2> QED
    BY <2>1, <2>2, <2>3, <2>5 DEF With
<1> QED
  BY <1>1, <1>2

(* What the journal keeps of a source that works, or has ended. *)
LEMMA WorkingSeen ==
    ASSUME NEW sn \in Seens, NEW status \in {"ok", "ended"}
    PROVE  LET new == WorkingNews(sn, status).seen
           IN /\ new \in Seens /\ new.connected = Never /\ new.errors = {} /\ ~new.told
              /\ new.status = status
<1> DEFINE new == [sn EXCEPT !.connected = Never, !.errors = {}, !.told = FALSE,
                             !.status = status]
<1>1. WorkingNews(sn, status).seen = new
  BY DEF WorkingNews, News
<1>2. /\ new \in Seens /\ new.connected = Never /\ new.errors = {} /\ ~new.told
      /\ new.status = status
  BY DEF Seens, Statuses, Instants
<1> QED
  BY <1>1, <1>2

(* What a working source, or one that has ended, leaves of an outage: nothing. *)
LEMMA WorkingTold ==
    ASSUME NEW sn \in Seens, NEW status \in {"ok", "ended"}
    PROVE  LET n == WorkingNews(sn, status)
           IN /\ Remembers(n.seen, <<>>)
              /\ n.seen.connected = Never /\ n.seen.status = status
              /\ n.line = NoLine \/ n.line = Plain(status)
<1> DEFINE n == WorkingNews(sn, status)
<1>1. n.line = NoLine \/ n.line = Plain(status)
  BY DEF WorkingNews, News
<1>2. /\ n.seen \in Seens /\ n.seen.connected = Never /\ n.seen.errors = {} /\ ~n.seen.told
      /\ n.seen.status = status
  BY WorkingSeen
<1>3. Remembers(n.seen, <<>>)
  <2> HIDE DEF n
  <2> QED
    BY <1>2, NothingSaid, FS_EmptySet DEF Remembers
<1> QED
  BY <1>1, <1>2, <1>3

(* A silence is told: that of a link reached, once an outage; any other when it lasts. *)
LEMMA QuietTold ==
    ASSUME NEW sn, NEW o, Remembers(sn, o), NEW silent \in Int, NEW t \in Int,
           sn.connected = Never => sn.status = "quiet" \/ Unsaid(sn, o)
    PROVE  LET n == QuietNews(sn, silent, t)
           IN /\ Remembers(n.seen, With(o, n.line))
              /\ n.seen.connected = Never
              /\ n.seen.status = "quiet" \/ Unsaid(n.seen, With(o, n.line))
              /\ \/ Says(Range(With(o, n.line))) \cap Quieted # {}
                 \/ silent < StaleAfter + QuietHold
              /\ n.line \in Lines \cup {NoLine}
              /\ n.line.says = "connected" => sn.connected # Never /\ n.line.for = t - sn.connected
<1>0. sn \in Seens /\ sn.connected \in Int /\ o \in Seq(Lines) /\ NoLine.says # "connected"
  BY DEF Remembers, Seens, Instants, Never, NoLine, Line
<1> DEFINE n == QuietNews(sn, silent, t)
           heard == [sn EXCEPT !.connected = Never, !.status = "quiet", !.told = TRUE]
           lone == [sn EXCEPT !.status = "quiet"]
           reached == Line("connected", NoMessage, t - sn.connected)
           quiet == Line("quiet", NoMessage, silent)
<1>1. /\ heard \in Seens /\ heard.connected = Never /\ heard.status = "quiet" /\ heard.told
      /\ heard.errors = sn.errors
      /\ lone \in Seens /\ lone.connected = sn.connected /\ lone.status = "quiet"
      /\ lone.told = sn.told /\ lone.errors = sn.errors
  BY <1>0 DEF Seens, Statuses, Instants
<1>2. /\ reached \in Lines /\ reached # NoLine /\ reached.says = "connected"
      /\ reached.for = t - sn.connected
      /\ quiet \in Lines /\ quiet # NoLine /\ quiet.says = "quiet"
  <2>1. t - sn.connected \in Int
    BY <1>0
  <2>2. NoMessage \in Reasons
    BY DEF Reasons
  <2>3. "connected" \in Saids /\ "quiet" \in Saids
    BY DEF Saids, Statuses
  <2> QED
    BY <2>1, <2>2, <2>3, ALine
<1> HIDE DEF heard, lone, reached, quiet
<1>3. CASE sn.connected # Never /\ sn.told
  <2>1. n.seen = heard /\ n.line = NoLine
    BY <1>3 DEF QuietNews, News, heard
  <2>2. "connected" \in Says(Range(o))
    BY <1>3 DEF Remembers
  <2>3. Remembers(heard, o)
    BY <1>1, <1>3, <2>2 DEF Remembers, Quieted
  <2> QED
    BY <1>0, <1>1, <2>1, <2>2, <2>3 DEF With, Quieted
<1>4. CASE sn.connected # Never /\ ~sn.told
  <2>1. n.seen = heard /\ n.line = reached
    BY <1>4 DEF QuietNews, News, heard, reached
  <2>2. \A k \in Range(o) : k.says # reached.says
    BY <1>2, <1>4 DEF Remembers, Says
  <2>3. Remembers(heard, Append(o, reached))
    BY <1>1, <1>2, <1>4, <2>2, RemembersMore DEF Quieted
  <2>4. Says(Range(Append(o, reached))) \cap Quieted # {}
    BY <1>1, <2>3 DEF Remembers
  <2> QED
    BY <1>1, <1>2, <1>4, <2>1, <2>3, <2>4 DEF With
<1>5. CASE sn.connected = Never /\ (silent < StaleAfter + QuietHold \/ sn.status = "quiet")
  <2>1. n.seen = sn /\ n.line = NoLine
    BY <1>5 DEF QuietNews, News
  <2> QED
    BY <1>0, <1>5, <2>1 DEF With, Remembers
<1>6. CASE sn.connected = Never /\ ~(silent < StaleAfter + QuietHold \/ sn.status = "quiet")
  <2>1. n.seen = lone /\ n.line = quiet
    BY <1>6 DEF QuietNews, News, lone, quiet
  <2>2. Range(o) = {}
    BY <1>6, NothingSaid DEF Unsaid
  <2>3. Remembers(lone, Append(o, quiet))
    BY <1>1, <1>2, <2>2, RemembersMore DEF Quieted
  <2>4. Says(Range(Append(o, quiet))) \cap Quieted # {}
    BY <1>1, <2>3 DEF Remembers
  <2> QED
    BY <1>1, <1>2, <1>6, <2>1, <2>3, <2>4 DEF With
<1> QED
  BY <1>3, <1>4, <1>5, <1>6

(* Everything is to be written again: nothing is remembered of the outage. *)
LEMMA ForgottenTold ==
    ASSUME NEW sn \in Seens
    PROVE  /\ Remembers(Forgotten(sn), <<>>)
           /\ Forgotten(sn).connected = sn.connected /\ Forgotten(sn).status = Unwritten
<1>1. /\ Forgotten(sn) \in Seens /\ Forgotten(sn).errors = {} /\ ~Forgotten(sn).told
      /\ Forgotten(sn).connected = sn.connected /\ Forgotten(sn).status = Unwritten
  BY DEF Forgotten, Seens
<1>2. Unwritten # "quiet"
  BY DEF Unwritten
<1> QED
  BY <1>1, <1>2, NothingSaid, FS_EmptySet DEF Remembers

-----------------------------------------------------------------------------
(* A source is judged by its last sign. *)
LEMMA JudgedBySign ==
    ASSUME NEW t \in Trackeds, now \in Nat
    PROVE  /\ Judged(t) \in Trackeds /\ LastSign(Judged(t)) = LastSign(t)
           /\ Judged(t).message = t.message /\ Judged(t).heard = t.heard
           /\ Judged(t).connected = t.connected
           /\ Judged(t).status # "quiet" =>
                 Judged(t) = t /\ (Waiting(t) /\ LastSign(t) # Never => now - LastSign(t) < StaleAfter)
           /\ Judged(t).status = "quiet" => t.status = "quiet" \/ (Waiting(t) /\ Silent(t))
<1>1. LastSign(t) \in Int /\ t.status \in Statuses /\ StaleAfter \in Nat
  BY LastSignOfTwo, JournalAssumption DEF Trackeds
<1>2. CASE Waiting(t) /\ Silent(t)
  <2>1. Judged(t) = [t EXCEPT !.status = "quiet"]
    BY <1>2 DEF Judged
  <2>2. Judged(t) \in Trackeds /\ Judged(t).status = "quiet" /\ Judged(t).message = t.message
        /\ Judged(t).heard = t.heard /\ Judged(t).connected = t.connected
    BY <2>1 DEF Trackeds, Statuses
  <2>3. LastSign(Judged(t)) = LastSign(t)
    BY <2>2 DEF LastSign
  <2> QED
    BY <1>2, <2>2, <2>3
<1>3. CASE ~(Waiting(t) /\ Silent(t))
  <2>1. Judged(t) = t
    BY <1>3 DEF Judged
  <2>2. Waiting(t) /\ LastSign(t) # Never => now - LastSign(t) < StaleAfter
    BY <1>1, <1>3 DEF Silent
  <2> QED
    BY <2>1, <2>2
<1> QED
  BY <1>2, <1>3

(* What a turn makes of one source, its news told or all of it told again. *)
NewsOf(t, sn, again) ==
    LET told == IF again THEN Forgotten(sn) ELSE sn
    IN SourceNews(told, Judged(t).status, Judged(t).message, SilentFor(Judged(t)),
                  RecordedAt(Judged(t)))

OutageAfter(t, sn, o, again) ==
    IF Judged(t).status \in {"ok", "ended"} THEN <<>>
    ELSE With(IF again THEN <<>> ELSE o, NewsOf(t, sn, again).line)

(* A turn leaves each source as the next turn needs it, whatever event came before. *)
LEMMA SourceTurn ==
    ASSUME NEW t, NEW sn, NEW o, Ready(t, sn, o), NEW again \in BOOLEAN,
           NEW due \in Nat, now \in Nat, due <= now + TickEvery
    PROVE  LET n == NewsOf(t, sn, again)
           IN /\ Sound(Judged(t), n.seen, OutageAfter(t, sn, o, again), due)
              /\ n.line \in Lines \cup {NoLine}
              /\ n.line.says = "connected" => n.line.for = StaleAfter
<1> DEFINE j == Judged(t)
           told == IF again THEN Forgotten(sn) ELSE sn
           before == IF again THEN <<>> ELSE o
           n == NewsOf(t, sn, again)
           after == OutageAfter(t, sn, o, again)
<1>0. /\ StaleAfter \in Nat /\ StaleAfter > 0 /\ QuietHold \in Nat
      /\ t \in Trackeds /\ sn \in Seens /\ t.status \in Statuses
      /\ NoLine.says = "nothing" /\ TickEvery = 1
  BY JournalAssumption DEF Ready, Remembers, Trackeds, NoLine, Line, TickEvery
<1>1. Remembers(told, before) /\ told.connected = sn.connected /\ told \in Seens
  BY <1>0, ForgottenTold DEF Ready, Remembers
<1>2. /\ j \in Trackeds /\ LastSign(j) = LastSign(t)
      /\ j.message = t.message /\ j.heard = t.heard /\ j.connected = t.connected
      /\ j.status # "quiet" =>
            j = t /\ (Waiting(t) /\ LastSign(t) # Never => now - LastSign(t) < StaleAfter)
      /\ j.status = "quiet" => t.status = "quiet" \/ (Waiting(t) /\ Silent(t))
      /\ LastSign(t) \in Int
      /\ LastSign(t) = IF t.heard >= t.connected THEN t.heard ELSE t.connected
      /\ t.heard \in Int /\ t.connected \in Int /\ t.heard >= Never /\ t.connected >= Never
  BY <1>0, JudgedBySign, LastSignOfTwo
<1>3. n = SourceNews(told, j.status, j.message, SilentFor(j), RecordedAt(j))
  BY DEF NewsOf
<1>4. Waiting(j) => due - TickEvery - LastSign(j) < StaleAfter
  <2>1. Waiting(j) => LastSign(t) # Never /\ j = t /\ Waiting(t) /\ j.status # "quiet"
    BY <1>0, <1>2 DEF Waiting, Ready, Never
  <2> QED
    BY <1>0, <1>2, <2>1
<1> HIDE DEF j, told, before, n, after
<1>5. CASE j.status = "error"
  <2>1. j = t /\ j.message \in Messages
    BY <1>2, <1>5 DEF Ready
  <2>2. n = ErrorNews(told, j.message) /\ after = With(before, n.line)
    BY <1>3, <1>5 DEF SourceNews, OutageAfter, after, n, j, before
  <2>3. /\ Remembers(n.seen, after) /\ n.seen.connected = Never
        /\ j.message \in n.seen.errors \/ Cardinality(n.seen.errors) >= MessagesPerOutage
        /\ n.line \in {NoLine, Line("error", j.message, 0)}
    BY <1>1, <2>1, <2>2, ErrorTold, Zenon
  <2>4. n.line \in Lines \cup {NoLine} /\ n.line.says # "connected"
    BY <1>0, <2>1, <2>3, ErrorLine
  <2>5. Sound(j, n.seen, after, due)
    BY <1>2, <1>4, <1>5, <2>1, <2>3 DEF Sound
  <2> QED
    BY <2>4, <2>5 DEF j, n, after
<1>6. CASE j.status = "connecting"
  <2>1. j = t
    BY <1>2, <1>6
  <2>2. n = ConnectingNews(told) /\ after = With(before, n.line)
    BY <1>3, <1>6 DEF SourceNews, OutageAfter, after, n, j, before
  <2>3. told.connected = t.connected
    BY <1>1, <1>6, <2>1 DEF Ready
  <2>4. told.connected = Never => before = <<>> \/ told.status = "connecting"
    BY <1>6, <2>1, <2>3 DEF Ready, before, told
  <2>5. /\ Remembers(n.seen, after) /\ n.seen.connected = told.connected
        /\ told.connected = Never => after = <<>> \/ n.seen.status = "connecting"
        /\ n.line \in {NoLine, Plain("connecting")}
    BY <1>1, <2>2, <2>4, ConnectingTold, Zenon
  <2>6. n.line \in Lines \cup {NoLine} /\ n.line.says # "connected"
    BY <1>0, <2>5, PlainLine DEF Saids, Statuses
  <2>7. Sound(j, n.seen, after, due)
    BY <1>2, <1>4, <1>6, <2>1, <2>3, <2>5 DEF Sound, Ready
  <2> QED
    BY <2>6, <2>7 DEF j, n, after
<1>7. CASE j.status \in {"ok", "ended"}
  <2>1. j = t
    BY <1>2, <1>7
  <2>2. n = WorkingNews(told, j.status) /\ after = <<>>
    BY <1>3, <1>7 DEF SourceNews, OutageAfter, after, n, j
  <2>3. /\ Remembers(n.seen, after) /\ n.seen.connected = Never /\ n.seen.status = j.status
        /\ n.line = NoLine \/ n.line = Plain(j.status)
    BY <1>1, <1>7, <2>2, WorkingTold
  <2>4. n.line \in Lines \cup {NoLine} /\ n.line.says # "connected"
    BY <1>0, <1>7, <2>3, PlainLine DEF Saids, Statuses
  <2>5. Sound(j, n.seen, after, due)
    BY <1>2, <1>4, <1>7, <2>1, <2>2, <2>3 DEF Sound, Ready
  <2> QED
    BY <2>4, <2>5 DEF j, n, after
<1>8. CASE j.status = "quiet"
  <2>1. n = QuietNews(told, SilentFor(j), RecordedAt(j)) /\ after = With(before, n.line)
    BY <1>3, <1>8 DEF SourceNews, OutageAfter, after, n, j, before
  <2>2. SilentFor(j) \in Int /\ RecordedAt(j) \in Int
    BY <1>0, <1>2 DEF SilentFor, RecordedAt
  <2>3. told.connected = Never => told.status = "quiet" \/ Unsaid(told, before)
    <3>1. CASE again
      BY <1>0, <3>1, ForgottenTold DEF Unsaid, told, before
    <3>2. CASE ~again
      BY <1>1, <1>2, <1>8, <3>2 DEF Ready, Unsaid, Waiting, told, before
    <3> QED
      BY <3>1, <3>2
  <2>4. told.connected # Never => told.connected = j.connected
    BY <1>1, <1>2, <1>8 DEF Ready, Waiting
  <2>5. /\ Remembers(n.seen, after) /\ n.seen.connected = Never
        /\ n.seen.status = "quiet" \/ Unsaid(n.seen, after)
        /\ Says(Range(after)) \cap Quieted # {} \/ SilentFor(j) < StaleAfter + QuietHold
        /\ n.line \in Lines \cup {NoLine}
        /\ n.line.says = "connected" =>
              told.connected # Never /\ n.line.for = RecordedAt(j) - told.connected
    BY <1>1, <2>1, <2>2, <2>3, QuietTold
  <2>6. n.line.says = "connected" => n.line.for = StaleAfter
    BY <1>0, <1>2, <1>8, <2>4, <2>5 DEF RecordedAt
  <2>7. Says(Range(after)) \cap Quieted = {} =>
            due - TickEvery - LastSign(j) < StaleAfter + QuietHold
    BY <1>0, <1>2, <1>8, <2>5 DEF SilentFor, Silent, Ready
  <2>8. LastSign(j) # Never
    BY <1>2, <1>8 DEF Ready, Silent
  <2>9. Sound(j, n.seen, after, due)
    BY <1>2, <1>4, <1>8, <2>5, <2>7, <2>8 DEF Sound
  <2> QED
    BY <2>5, <2>6, <2>9 DEF j, n, after
<1> QED
  BY <1>2, <1>5, <1>6, <1>7, <1>8 DEF Trackeds, Statuses

-----------------------------------------------------------------------------
(* A line about a source that is no recovery is one line more. *)
LEMMA OneMoreTold ==
    ASSUME NEW s \in Sources, NEW lines, NEW l, l.says \notin {"ok", "ended"}
    PROVE  Told(lines, Record(s, l)) = lines \cup {l}
<1>1. s # TheFix
  BY HubAssumption DEF Sources, TheFix
<1> QED
  BY <1>1 DEF Told, Record

(* What is written about a source is what the recording needs to stay in step with
   what the journal remembers. *)
LEMMA NewsStanding ==
    ASSUME NEW s \in Sources, NEW sn \in Seens, NEW lines, Standing(sn, lines),
           NEW status \in Statuses, NEW m, status = "error" => m \in Messages,
           NEW silent, NEW t
    PROVE  LET n == SourceNews(sn, status, m, silent, t)
           IN /\ n.line = NoLine => Standing(n.seen, lines)
              /\ n.line # NoLine => Standing(n.seen, Told(lines, Record(s, n.line)))
<1> DEFINE n == SourceNews(sn, status, m, silent, t)
<1>1. NoLine.says = "nothing"
  BY DEF NoLine, Line
<1>2. ASSUME NEW new, NEW l, new.status \notin {"ok", "ended"}, l.says \notin {"ok", "ended"},
             new.errors \subseteq sn.errors \cup (IF l.says = "error" THEN {l.message} ELSE {})
      PROVE  Standing(new, Told(lines, Record(s, l)))
  <2>1. Told(lines, Record(s, l)) = lines \cup {l}
    BY <1>2, OneMoreTold
  <2>2. Errors(lines \cup {l}) =
            IF l.says = "error" THEN Errors(lines) \cup {l.message} ELSE Errors(lines)
    BY OneMoreSaid, Zenon
  <2>3. sn.errors \subseteq Errors(lines)
    BY DEF Standing
  <2>4. new.errors \subseteq Errors(lines \cup {l})
    BY <1>2, <2>2, <2>3
  <2> QED
    BY <1>2, <2>1, <2>4 DEF Standing
<1>3. CASE status = "error"
  <2> DEFINE waiting == [sn EXCEPT !.connected = Never]
             told == [waiting EXCEPT !.errors = @ \cup {m}, !.status = "error"]
             l == Line("error", m, 0)
  <2>1. n = ErrorNews(sn, m)
    BY <1>3 DEF SourceNews
  <2>2. waiting.errors = sn.errors /\ waiting.status = sn.status
        /\ told.errors = sn.errors \cup {m} /\ told.status = "error"
    BY DEF Seens
  <2>3. l.says = "error" /\ l.message = m
    BY DEF Line
  <2>4. CASE m \in sn.errors \/ Cardinality(sn.errors) >= MessagesPerOutage
    <3>1. n.seen = waiting /\ n.line = NoLine
      BY <2>1, <2>4 DEF ErrorNews, News
    <3> QED
      BY <2>2, <3>1 DEF Standing
  <2>5. CASE ~(m \in sn.errors \/ Cardinality(sn.errors) >= MessagesPerOutage)
    <3>1. n.seen = told /\ n.line = l
      BY <2>1, <2>5 DEF ErrorNews, News
    <3>2. l # NoLine
      BY <1>1, <2>3
    <3>3. Standing(told, Told(lines, Record(s, l)))
      <4> HIDE DEF told, l
      <4> QED
        BY <1>2, <2>2, <2>3
    <3> QED
      BY <3>1, <3>2, <3>3
  <2> QED
    BY <2>4, <2>5
<1>4. CASE status = "connecting"
  <2> DEFINE new == [sn EXCEPT !.status = "connecting"]
             l == Plain("connecting")
  <2>1. n = ConnectingNews(sn)
    BY <1>4 DEF SourceNews
  <2>2. new.errors = sn.errors /\ new.status = "connecting"
    BY DEF Seens
  <2>3. l.says = "connecting"
    BY DEF Line, Plain
  <2>4. \/ n.seen = sn /\ n.line = NoLine
        \/ n.seen = new /\ n.line = l
    BY <2>1 DEF ConnectingNews, News
  <2>5. Standing(new, Told(lines, Record(s, l)))
    <3> HIDE DEF new, l
    <3> QED
      BY <1>2, <2>2, <2>3
  <2> QED
    BY <1>1, <2>3, <2>4, <2>5
<1>5. CASE status = "quiet"
  <2> DEFINE heard == [sn EXCEPT !.connected = Never, !.status = "quiet", !.told = TRUE]
             lone == [sn EXCEPT !.status = "quiet"]
             reached == Line("connected", NoMessage, t - sn.connected)
             quiet == Line("quiet", NoMessage, silent)
  <2>1. n = QuietNews(sn, silent, t)
    BY <1>5 DEF SourceNews
  <2>2. /\ heard.errors = sn.errors /\ heard.status = "quiet"
        /\ lone.errors = sn.errors /\ lone.status = "quiet"
    BY DEF Seens
  <2>3. reached.says = "connected" /\ quiet.says = "quiet"
    BY DEF Line
  <2>4. \/ n.seen = heard /\ n.line \in {NoLine, reached}
        \/ n.seen = sn /\ n.line = NoLine
        \/ n.seen = lone /\ n.line = quiet
    BY <2>1 DEF QuietNews, News
  <2> HIDE DEF heard, lone, reached, quiet
  <2>5. Standing(heard, Told(lines, Record(s, reached)))
    BY <1>2, <2>2, <2>3
  <2>6. Standing(lone, Told(lines, Record(s, quiet)))
    BY <1>2, <2>2, <2>3
  <2>7. Standing(heard, lines)
    BY <2>2 DEF Standing
  <2> QED
    BY <1>1, <2>3, <2>4, <2>5, <2>6, <2>7
<1>6. CASE status \in {"ok", "ended"}
  <2>1. n = WorkingNews(sn, status)
    BY <1>6 DEF SourceNews
  <2>2. n.seen.errors = {} /\ n.seen.status = status
    BY <1>6, <2>1, WorkingSeen
  <2>3. n.line = IF sn.status = status THEN NoLine ELSE Plain(status)
    BY <2>1 DEF WorkingNews, News
  <2>4. Plain(status).says = status /\ Plain(status) # NoLine
    BY <1>1, <1>6 DEF Plain, Line
  <2>5. Told(lines, Record(s, Plain(status))) = {Plain(status)}
    BY <1>6, <2>4 DEF Told, Record
  <2> QED
    BY <1>6, <2>2, <2>3, <2>4, <2>5 DEF Standing
<1> QED
  BY <1>3, <1>4, <1>5, <1>6 DEF Statuses

-----------------------------------------------------------------------------
(* A line sent to the recorder: the queue keeps to its limit, and nothing is known to be
   lost after it only where nothing was before and a comment was taken. *)
LEMMA SendKeeps ==
    ASSUME NEW r \in Recorders, Len(r.lines) <= RecordLimit, NEW comment \in BOOLEAN
    PROVE  LET a == Send(r, AnyLine, comment)
           IN /\ a \in Recorders /\ Len(a.lines) <= RecordLimit
              /\ a.held /\ ~a.lostComment /\ ~a.caughtUp =>
                    r.held /\ ~r.lostComment /\ ~r.caughtUp /\ (comment => Takes(r))
              /\ ~r.lostComment /\ ~r.caughtUp => ~a.caughtUp
<1> DEFINE a == Send(r, AnyLine, comment)
<1>0. RecordLimit \in Nat /\ r.lines \in Seq({AnyLine}) /\ Len(r.lines) \in Nat
  BY RecordLimitAssumption, LenProperties DEF Recorders
<1>1. CASE ~r.held
  <2>1. a = r
    BY <1>1 DEF Send
  <2> QED
    BY <1>1, <2>1
<1>2. CASE r.held /\ ~r.writing
  <2>1. a = [r EXCEPT !.held = FALSE]
    BY <1>2 DEF Send
  <2>2. a \in Recorders /\ ~a.held /\ a.lines = r.lines /\ a.caughtUp = r.caughtUp
    BY <2>1 DEF Recorders
  <2> QED
    BY <2>2
<1>3. CASE r.held /\ r.writing /\ Len(r.lines) < RecordLimit
  <2>1. a = [r EXCEPT !.lines = Append(@, AnyLine), !.behind = FALSE,
                      !.caughtUp = @ \/ r.lostComment, !.lostComment = FALSE]
    BY <1>0, <1>3 DEF Send
  <2>2. /\ Append(r.lines, AnyLine) \in Seq({AnyLine})
        /\ Len(Append(r.lines, AnyLine)) = Len(r.lines) + 1
    BY <1>0, AppendProperties
  <2>3. (r.caughtUp \/ r.lostComment) \in BOOLEAN
    OBVIOUS
  <2>4. /\ a \in Recorders /\ a.lines = Append(r.lines, AnyLine)
        /\ a.caughtUp = (r.caughtUp \/ r.lostComment)
    <3> DEFINE late == r.caughtUp \/ r.lostComment
    <3> HIDE DEF late
    <3>1. a = [r EXCEPT !.lines = Append(@, AnyLine), !.behind = FALSE,
                        !.caughtUp = late, !.lostComment = FALSE]
      BY <2>1 DEF late
    <3>2. late \in BOOLEAN
      BY <2>3 DEF late
    <3>3. a \in Recorders /\ a.lines = Append(r.lines, AnyLine) /\ a.caughtUp = late
      BY <2>2, <3>1, <3>2 DEF Recorders
    <3> QED
      BY <3>3 DEF late
  <2>5. Takes(r)
    BY <1>3 DEF Takes
  <2>6. a.held /\ ~a.lostComment /\ ~a.caughtUp =>
            r.held /\ ~r.lostComment /\ ~r.caughtUp /\ (comment => Takes(r))
    BY <1>3, <2>4, <2>5
  <2>7. Len(a.lines) <= RecordLimit
    BY <1>0, <1>3, <2>2, <2>4
  <2> QED
    BY <2>4, <2>6, <2>7
<1>4. CASE r.held /\ r.writing /\ ~(Len(r.lines) < RecordLimit)
  <2>1. a = [r EXCEPT !.behind = TRUE, !.lostComment = @ \/ comment]
    BY <1>0, <1>4 DEF Send
  <2>2. /\ a \in Recorders /\ a.lines = r.lines /\ a.held = r.held
        /\ a.caughtUp = r.caughtUp /\ a.lostComment = (r.lostComment \/ comment)
    BY <2>1 DEF Recorders
  <2> QED
    BY <1>4, <2>2
<1> QED
  BY <1>1, <1>2, <1>3, <1>4

(* What is written about the fix: its status, and why it has none. *)
LEMMA FixIsLine ==
    ASSUME NEW status \in FixStatuses, NEW arriving \in BOOLEAN
    PROVE  FixLine(status, arriving) \in Lines /\ FixLine(status, arriving).says = status
<1> DEFINE why == IF status # "stale" THEN NoMessage
                  ELSE IF arriving THEN "sentences still arriving" ELSE "no sentences"
<1>1. why \in Reasons
  BY DEF Reasons
<1>2. status \in Saids /\ 0 \in Int
  BY DEF Saids
<1>3. Line(status, why, 0) \in Lines /\ Line(status, why, 0).says = status
  <2> HIDE DEF why
  <2> QED
    BY <1>1, <1>2, ALine
<1> QED
  BY <1>3 DEF FixLine

(* The fix has a status at every instant. *)
LEMMA FixHasStatus == ASSUME NEW n PROVE Nav!Status(n, now) \in FixStatuses
  BY DEF Nav!Status, FixStatuses

-----------------------------------------------------------------------------
(* A turn, source by source, once its event has left the sources at tr, the fix at n,
   what the journal has seen at sn and the recorder at r. *)
Again(r) == r.held /\ r.caughtUp
Judgement(tr) == [s \in Sources |-> Judged(tr[s])]
FixChanged(n, r) == Again(r) \/ fixSeen # Nav!Status(n, now)
FixNews(tr, n) == FixLine(Nav!Status(n, now), Arriving(Judgement(tr)))

(* What a turn leaves of each source, and of the fix. *)
LEMMA TurnLeaves ==
    ASSUME NEW tr, NEW n, NEW sn, NEW r, Turn(tr, n, sn, r)
    PROVE  /\ tracked' = Judgement(tr)
           /\ nav' = n
           /\ fixSeen' = Nav!Status(n, now) /\ shown' = Nav!Status(n, now)
           /\ seen' = [s \in Sources |-> NewsOf(tr[s], sn[s], Again(r)).seen]
           /\ outage' = [s \in Sources |-> OutageAfter(tr[s], sn[s], outage[s], Again(r))]
           /\ rec' = [r EXCEPT !.caughtUp = FALSE]
           /\ now' = now /\ booked' = booked
<1>1. tracked' = Judgement(tr) /\ nav' = n /\ fixSeen' = Nav!Status(n, now)
      /\ shown' = Nav!Status(n, now) /\ rec' = [r EXCEPT !.caughtUp = FALSE]
      /\ now' = now /\ booked' = booked
  BY DEF Turn, Judgement
<1>2. seen' = [s \in Sources |-> NewsOf(tr[s], sn[s], Again(r)).seen]
  BY DEF Turn, NewsOf, Again
<1>3. outage' = [s \in Sources |-> Outage(s, Judged(tr[s]).status, Again(r),
                                          NewsOf(tr[s], sn[s], Again(r)).line)]
  BY DEF Turn, NewsOf, Again
<1>4. ASSUME NEW s, NEW status, NEW again, NEW line
      PROVE  Outage(s, status, again, line) =
                IF status \in {"ok", "ended"} THEN <<>>
                ELSE With(IF again THEN <<>> ELSE outage[s], line)
  BY DEF Outage, With
<1>5. \A s \in Sources :
          Outage(s, Judged(tr[s]).status, Again(r), NewsOf(tr[s], sn[s], Again(r)).line) =
             OutageAfter(tr[s], sn[s], outage[s], Again(r))
  BY <1>4 DEF OutageAfter
<1> QED
  BY <1>1, <1>2, <1>3, <1>5

(* The news of a turn: a line about each source that has one, and one about the fix where
   its status changed or everything is told again. *)
LEMMA TurnTells ==
    ASSUME NEW tr, NEW n, NEW sn, NEW r, Turn(tr, n, sn, r)
    PROVE  /\ \A c \in outbox' :
                 \/ \E s \in Sources : /\ NewsOf(tr[s], sn[s], Again(r)).line # NoLine
                                       /\ c = Record(s, NewsOf(tr[s], sn[s], Again(r)).line)
                 \/ FixChanged(n, r) /\ c = Record(TheFix, FixNews(tr, n))
           /\ \A s \in Sources : NewsOf(tr[s], sn[s], Again(r)).line # NoLine =>
                 Record(s, NewsOf(tr[s], sn[s], Again(r)).line) \in outbox'
           /\ FixChanged(n, r) => Record(TheFix, FixNews(tr, n)) \in outbox'
<1> DEFINE links == {Record(s, NewsOf(tr[s], sn[s], Again(r)).line) :
                        s \in {x \in Sources : NewsOf(tr[x], sn[x], Again(r)).line # NoLine}}
           fix == IF FixChanged(n, r) THEN {Record(TheFix, FixNews(tr, n))} ELSE {}
<1>1. outbox' = links \cup fix
  <2>1. outbox' = {Record(s, NewsOf(tr[s], sn[s], Again(r)).line) :
                      s \in {x \in Sources :
                                [y \in Sources |-> NewsOf(tr[y], sn[y], Again(r))][x].line # NoLine}}
                  \cup fix
    BY DEF Turn, NewsOf, Again, FixChanged, FixNews, Judgement
  <2> QED
    BY <2>1
<1> QED
  BY <1>1

-----------------------------------------------------------------------------
(* A source that is sound needs no event for a turn to judge it. *)
LEMMA SoundIsReady ==
    ASSUME NEW t, NEW sn, NEW o, NEW due, Sound(t, sn, o, due)
    PROVE  Ready(t, sn, o)
<1>1. sn \in Seens
  BY DEF Sound, Remembers
<1>2. t.status = "ok" => sn.connected = Never
  BY DEF Sound
<1>3. t.status = "ok" /\ Silent(t) => o = <<>> /\ sn.status = "ok" /\ sn.connected = Never
  BY <1>2 DEF Sound
<1> QED
  BY <1>3 DEF Sound, Ready

(* An invariant of the types that a turn keeps, source by source. *)
LEMMA TurnSources ==
    ASSUME NEW tr, NEW n, NEW sn, NEW r, Turn(tr, n, sn, r),
           \A s \in Sources : Ready(tr[s], sn[s], outage[s]),
           now \in Nat, tickDue' \in Nat, tickDue' <= now + TickEvery
    PROVE  /\ \A s \in Sources : Sound(tracked'[s], seen'[s], outage'[s], tickDue')
           /\ \A s \in Sources :
                 LET line == NewsOf(tr[s], sn[s], Again(r)).line
                 IN /\ line \in Lines \cup {NoLine}
                    /\ line.says = "connected" => line.for = StaleAfter
           /\ tracked' \in [Sources -> Trackeds] /\ seen' \in [Sources -> Seens]
           /\ outage' \in [Sources -> Seq(Lines)]
<1>1. ASSUME NEW s \in Sources
      PROVE  LET k == NewsOf(tr[s], sn[s], Again(r))
             IN /\ Sound(Judged(tr[s]), k.seen, OutageAfter(tr[s], sn[s], outage[s], Again(r)),
                         tickDue')
                /\ k.line \in Lines \cup {NoLine}
                /\ k.line.says = "connected" => k.line.for = StaleAfter
  <2>1. CASE Again(r)
    <3>1. LET k == NewsOf(tr[s], sn[s], TRUE)
          IN /\ Sound(Judged(tr[s]), k.seen, OutageAfter(tr[s], sn[s], outage[s], TRUE), tickDue')
             /\ k.line \in Lines \cup {NoLine}
             /\ k.line.says = "connected" => k.line.for = StaleAfter
      BY SourceTurn
    <3> QED
      BY <2>1, <3>1 DEF NewsOf, OutageAfter
  <2>2. CASE ~Again(r)
    <3>1. LET k == NewsOf(tr[s], sn[s], FALSE)
          IN /\ Sound(Judged(tr[s]), k.seen, OutageAfter(tr[s], sn[s], outage[s], FALSE), tickDue')
             /\ k.line \in Lines \cup {NoLine}
             /\ k.line.says = "connected" => k.line.for = StaleAfter
      BY SourceTurn
    <3> QED
      BY <2>2, <3>1 DEF NewsOf, OutageAfter
  <2> QED
    BY <2>1, <2>2
<1>2. /\ tracked' = [s \in Sources |-> Judged(tr[s])]
      /\ seen' = [s \in Sources |-> NewsOf(tr[s], sn[s], Again(r)).seen]
      /\ outage' = [s \in Sources |-> OutageAfter(tr[s], sn[s], outage[s], Again(r))]
  BY TurnLeaves DEF Judgement
<1>3. \A s \in Sources : Sound(tracked'[s], seen'[s], outage'[s], tickDue')
  BY <1>1, <1>2
<1>4. \A s \in Sources : tracked'[s] \in Trackeds /\ seen'[s] \in Seens /\ outage'[s] \in Seq(Lines)
  BY <1>3 DEF Sound, Remembers
<1> QED
  BY <1>1, <1>2, <1>3, <1>4

(* The news of a turn: well formed, one line about each, `connected` with the threshold. *)
LEMMA TurnNews ==
    ASSUME NEW tr, NEW n, NEW sn, NEW r, Turn(tr, n, sn, r),
           \A s \in Sources :
              LET line == NewsOf(tr[s], sn[s], Again(r)).line
              IN /\ line \in Lines \cup {NoLine}
                 /\ line.says = "connected" => line.for = StaleAfter
    PROVE  /\ \A c \in outbox' : c \in [about : Sources \cup {TheFix}, line : Lines]
           /\ \A c, d \in outbox' : c.about = d.about => c = d
           /\ \A c \in outbox' : c.line.says = "connected" => c.line.for = StaleAfter
           /\ \A c \in outbox' : c.about \in Sources =>
                 /\ c = Record(c.about, NewsOf(tr[c.about], sn[c.about], Again(r)).line)
                 /\ NewsOf(tr[c.about], sn[c.about], Again(r)).line # NoLine
           /\ \A c \in outbox' : c.about = TheFix =>
                 FixChanged(n, r) /\ c.line.says = Nav!Status(n, now)
<1>1. \A s \in Sources : s # TheFix
  BY HubAssumption DEF Sources, TheFix
<1>2. FixNews(tr, n) \in Lines /\ FixNews(tr, n).says = Nav!Status(n, now)
  <2>1. Arriving(Judgement(tr)) \in BOOLEAN
    BY DEF Arriving
  <2> QED
    BY <2>1, FixHasStatus, FixIsLine DEF FixNews
<1>3. Nav!Status(n, now) # "connected"
  BY FixHasStatus DEF FixStatuses
<1>4. ASSUME NEW c \in outbox'
      PROVE  \/ /\ c.about \in Sources
                /\ c = Record(c.about, NewsOf(tr[c.about], sn[c.about], Again(r)).line)
                /\ NewsOf(tr[c.about], sn[c.about], Again(r)).line # NoLine
             \/ c.about = TheFix /\ c = Record(TheFix, FixNews(tr, n)) /\ FixChanged(n, r)
  <2>1. \/ \E s \in Sources : /\ NewsOf(tr[s], sn[s], Again(r)).line # NoLine
                              /\ c = Record(s, NewsOf(tr[s], sn[s], Again(r)).line)
        \/ FixChanged(n, r) /\ c = Record(TheFix, FixNews(tr, n))
    BY TurnTells
  <2> QED
    BY <2>1 DEF Record
<1>5. ASSUME NEW c \in outbox' PROVE c \in [about : Sources \cup {TheFix}, line : Lines]
  <2>1. CASE c.about \in Sources
    BY <1>1, <1>4, <2>1 DEF Record
  <2>2. CASE c.about \notin Sources
    BY <1>2, <1>4, <2>2 DEF Record
  <2> QED
    BY <2>1, <2>2
<1>6. ASSUME NEW c \in outbox', c.line.says = "connected" PROVE c.line.for = StaleAfter
  <2>1. CASE c.about \in Sources
    BY <1>1, <1>4, <1>6, <2>1 DEF Record
  <2>2. CASE c.about \notin Sources
    BY <1>2, <1>3, <1>4, <1>6, <2>2 DEF Record
  <2> QED
    BY <2>1, <2>2
<1>7. \A c, d \in outbox' : c.about = d.about => c = d
  BY <1>1, <1>4
<1>8. \A c \in outbox' : c.about = TheFix => FixChanged(n, r) /\ c.line.says = Nav!Status(n, now)
  BY <1>1, <1>2, <1>4 DEF Record
<1> QED
  BY <1>1, <1>4, <1>5, <1>6, <1>7, <1>8

(* A turn's news leaves the recording, once it has it, in step with the journal. *)
LEMMA TurnWhole ==
    ASSUME NEW tr, NEW n, NEW sn, NEW r, Turn(tr, n, sn, r), Idle, Whole, now \in Nat,
           r \in Recorders,
           r.held /\ ~r.lostComment /\ ~r.caughtUp =>
              rec.held /\ ~rec.lostComment /\ ~rec.caughtUp,
           \A s \in Sources : /\ Ready(tr[s], sn[s], outage[s])
                              /\ sn[s].errors = seen[s].errors /\ sn[s].status = seen[s].status,
           \A c \in outbox' : c.about \in Sources =>
              /\ c = Record(c.about, NewsOf(tr[c.about], sn[c.about], Again(r)).line)
              /\ NewsOf(tr[c.about], sn[c.about], Again(r)).line # NoLine,
           \A c \in outbox' : c.about = TheFix => c.line.says = Nav!Status(n, now)
    PROVE  Whole'
<1> SUFFICES ASSUME rec'.held, ~rec'.lostComment
             PROVE  /\ \A s \in Sources :
                         /\ \A c \in outbox' : c.about = s =>
                               Standing(seen'[s], Told(booked'[s], c))
                         /\ (\A c \in outbox' : c.about # s) => Standing(seen'[s], booked'[s])
                    /\ \A c \in outbox' : c.about = TheFix => c.line.says = fixSeen'
                    /\ (\A c \in outbox' : c.about # TheFix) /\ fixSeen' # Unwritten =>
                          {l.says : l \in booked'[TheFix]} = {fixSeen'}
  BY DEF Whole
<1>1. /\ booked' = booked /\ fixSeen' = Nav!Status(n, now)
      /\ seen' = [s \in Sources |-> NewsOf(tr[s], sn[s], Again(r)).seen]
      /\ rec' = [r EXCEPT !.caughtUp = FALSE]
  BY TurnLeaves
<1>2. r.held /\ ~r.lostComment
  BY <1>1 DEF Recorders
<1>4. ASSUME ~Again(r), NEW s \in Sources PROVE Standing(sn[s], booked[s])
  <2>1. Standing(seen[s], booked[s])
    BY <1>2, <1>4 DEF Again, Whole, Idle
  <2> QED
    BY <2>1 DEF Standing
<1>5. ASSUME NEW s \in Sources
      PROVE  LET k == NewsOf(tr[s], sn[s], Again(r))
             IN /\ k.line = NoLine => Standing(k.seen, booked[s])
                /\ k.line # NoLine => Standing(k.seen, Told(booked[s], Record(s, k.line)))
  <2> DEFINE told == IF Again(r) THEN Forgotten(sn[s]) ELSE sn[s]
             j == Judged(tr[s])
  <2>1. sn[s] \in Seens /\ tr[s] \in Trackeds
    BY DEF Ready, Remembers
  <2>2. j.status \in Statuses /\ (j.status = "error" => j.message \in Messages)
    BY <2>1, JudgedBySign DEF Ready, Trackeds
  <2>3. told \in Seens
    BY <2>1, ForgottenTold DEF Remembers
  <2>4. Standing(told, booked[s])
    <3>1. CASE Again(r)
      <4>1. Forgotten(sn[s]).errors = {} /\ Forgotten(sn[s]).status = Unwritten
        BY <2>1 DEF Forgotten, Seens
      <4>2. Unwritten \notin {"ok", "ended"}
        BY DEF Unwritten
      <4> QED
        BY <3>1, <4>1, <4>2 DEF Standing
    <3>2. CASE ~Again(r)
      BY <1>4, <3>2
    <3> QED
      BY <3>1, <3>2
  <2>5. NewsOf(tr[s], sn[s], Again(r)) =
            SourceNews(told, j.status, j.message, SilentFor(j), RecordedAt(j))
    BY DEF NewsOf
  <2> HIDE DEF told, j
  <2>6. LET k == SourceNews(told, j.status, j.message, SilentFor(j), RecordedAt(j))
        IN /\ k.line = NoLine => Standing(k.seen, booked[s])
           /\ k.line # NoLine => Standing(k.seen, Told(booked[s], Record(s, k.line)))
    BY <2>2, <2>3, <2>4, NewsStanding
  <2> QED
    BY <2>5, <2>6
<1>6. ASSUME NEW s \in Sources, NEW c \in outbox', c.about = s
      PROVE  Standing(seen'[s], Told(booked'[s], c))
  BY <1>1, <1>5, <1>6
<1>7. ASSUME NEW s \in Sources, \A c \in outbox' : c.about # s
      PROVE  Standing(seen'[s], booked'[s])
  <2> DEFINE line == NewsOf(tr[s], sn[s], Again(r)).line
  <2>1. line # NoLine => Record(s, line) \in outbox'
    BY TurnTells
  <2>2. Record(s, line).about = s
    BY DEF Record
  <2>3. line = NoLine
    BY <1>7, <2>1, <2>2
  <2> QED
    BY <1>1, <1>5, <2>3
<1>8. ASSUME \A c \in outbox' : c.about # TheFix, fixSeen' # Unwritten
      PROVE  {l.says : l \in booked'[TheFix]} = {fixSeen'}
  <2>1. ~Again(r) /\ fixSeen = Nav!Status(n, now)
    <3>1. FixChanged(n, r) => Record(TheFix, FixNews(tr, n)) \in outbox'
      BY TurnTells
    <3>2. Record(TheFix, FixNews(tr, n)).about = TheFix
      BY DEF Record
    <3> QED
      BY <1>8, <3>1, <3>2 DEF FixChanged
  <2>2. {l.says : l \in booked[TheFix]} = {fixSeen}
    BY <1>1, <1>2, <1>8, <2>1 DEF Again, Whole, Idle
  <2> QED
    BY <1>1, <2>1, <2>2
<1> QED
  BY <1>1, <1>6, <1>7, <1>8

(* An event leaves every source ready, and what is remembered of it as it was but for when
   it was reached. *)
AllReady(tr, sn) ==
    \A s \in Sources : /\ Ready(tr[s], sn[s], outage[s])
                       /\ sn[s].errors = seen[s].errors /\ sn[s].status = seen[s].status

(* A turn keeps the invariant, whatever its event: one that leaves each source ready, the
   recorder no better off than a line it was sent, and the tick due when it should be. *)
LEMMA TurnInv ==
    ASSUME IInv, Idle, NEW tr, NEW n, NEW sn, NEW r, Turn(tr, n, sn, r), AllReady(tr, sn),
           n \in Nav!Navigations, r \in {rec, Send(rec, AnyLine, FALSE)},
           tickDue' \in {tickDue, now + TickEvery},
           link' \in [Sources -> {"down", "up", "playing", "done"}]
    PROVE  IInv'
<1> USE DEF AllReady
<1>1. /\ now \in Nat /\ tickDue \in Nat /\ rec \in Recorders /\ Len(rec.lines) <= RecordLimit
      /\ tickDue <= now + TickEvery /\ now <= tickDue + Lateness /\ Lateness \in Nat
  BY HubAssumption DEF IInv, Types, TypeOK
<1>2. /\ tickDue' \in Nat /\ tickDue' <= now + TickEvery /\ now <= tickDue' + Lateness
  <2>1. CASE tickDue' = tickDue
    BY <1>1, <2>1
  <2>2. CASE tickDue' = now + TickEvery
    BY <1>1, <2>2 DEF TickEvery
  <2> QED
    BY <2>1, <2>2
<1>3. /\ tracked' = Judgement(tr) /\ nav' = n
      /\ fixSeen' = Nav!Status(n, now) /\ shown' = Nav!Status(n, now)
      /\ rec' = [r EXCEPT !.caughtUp = FALSE] /\ now' = now /\ booked' = booked
  BY TurnLeaves
<1>4. /\ \A s \in Sources : Sound(tracked'[s], seen'[s], outage'[s], tickDue')
      /\ \A s \in Sources :
            LET line == NewsOf(tr[s], sn[s], Again(r)).line
            IN /\ line \in Lines \cup {NoLine}
               /\ line.says = "connected" => line.for = StaleAfter
      /\ tracked' \in [Sources -> Trackeds] /\ seen' \in [Sources -> Seens]
      /\ outage' \in [Sources -> Seq(Lines)]
  BY <1>1, <1>2, TurnSources
<1>5. /\ \A c \in outbox' : c \in [about : Sources \cup {TheFix}, line : Lines]
      /\ \A c, d \in outbox' : c.about = d.about => c = d
      /\ \A c \in outbox' : c.line.says = "connected" => c.line.for = StaleAfter
      /\ \A c \in outbox' : c.about \in Sources =>
            /\ c = Record(c.about, NewsOf(tr[c.about], sn[c.about], Again(r)).line)
            /\ NewsOf(tr[c.about], sn[c.about], Again(r)).line # NoLine
      /\ \A c \in outbox' : c.about = TheFix =>
            FixChanged(n, r) /\ c.line.says = Nav!Status(n, now)
  BY <1>4, TurnNews
<1>6. /\ r \in Recorders /\ Len(r.lines) <= RecordLimit
      /\ r.held /\ ~r.lostComment /\ ~r.caughtUp =>
            rec.held /\ ~rec.lostComment /\ ~rec.caughtUp
  BY <1>1, SendKeeps
<1>7. rec' \in Recorders /\ rec'.lines = r.lines
  BY <1>3, <1>6 DEF Recorders
<1>8. Whole'
  BY <1>1, <1>5, <1>6, TurnWhole DEF IInv
<1>9. InTime'
  <2>1. Nav!Status(n, now) = "ok" => now - n.at < StaleAfter
    BY <1>1, JournalAssumption DEF Nav!Status, Nav!Navigations, Nav!Instants, Nav!Never
  <2>2. n.at \in Int /\ StaleAfter \in Nat
    BY JournalAssumption DEF Nav!Navigations, Nav!Instants, Nav!Never
  <2> QED
    BY <1>1, <1>2, <1>3, <2>1, <2>2 DEF InTime, TickEvery
<1>10. Types'
  <2>1. fixSeen' \in FixStatuses /\ shown' \in FixStatuses
    BY <1>3, FixHasStatus
  <2>2. \A c \in outbox' : c.about \in Sources \cup {TheFix}
    BY <1>5
  <2>3. TypeOK'
    BY <1>1, <1>2, <1>3, <1>4, <1>6, <1>7, <2>1, <2>2 DEF TypeOK
  <2>4. booked' \in [Sources \cup {TheFix} -> SUBSET Lines]
        /\ \A s \in Sources : IsFiniteSet(Errors(booked'[s]))
    BY <1>3 DEF IInv, Types
  <2> QED
    BY <1>2, <1>3, <1>4, <1>5, <1>7, <2>3, <2>4 DEF Types
<1>11. ConnectedIsExact'
  BY <1>5 DEF ConnectedIsExact
<1> QED
  BY <1>4, <1>8, <1>9, <1>10, <1>11 DEF IInv

-----------------------------------------------------------------------------
(* What the invariant says of each source. *)
LEMMA EachSource ==
    ASSUME IInv, NEW s \in Sources
    PROVE  /\ tracked[s] \in Trackeds /\ seen[s] \in Seens
           /\ Remembers(seen[s], outage[s]) /\ Ready(tracked[s], seen[s], outage[s])
  BY SoundIsReady DEF IInv, Sound, Remembers

(* An event about one source, which leaves it ready, keeps the invariant. *)
LEMMA EventInv ==
    ASSUME IInv, Idle, NEW s \in Sources, NEW t, NEW n, NEW w, NEW r,
           Turn([tracked EXCEPT ![s] = t], n, [seen EXCEPT ![s] = w], r),
           Ready(t, w, outage[s]), w.errors = seen[s].errors, w.status = seen[s].status,
           n \in Nav!Navigations, r \in {rec, Send(rec, AnyLine, FALSE)}, tickDue' = tickDue,
           link' \in [Sources -> {"down", "up", "playing", "done"}]
    PROVE  IInv'
<1> DEFINE tr == [tracked EXCEPT ![s] = t]
           sn == [seen EXCEPT ![s] = w]
<1>1. tracked \in [Sources -> Trackeds] /\ seen \in [Sources -> Seens]
  BY DEF IInv, Types, TypeOK
<1>2. ASSUME NEW x \in Sources
      PROVE  /\ Ready(tr[x], sn[x], outage[x])
             /\ sn[x].errors = seen[x].errors /\ sn[x].status = seen[x].status
  <2>1. CASE x = s
    BY <1>1, <2>1
  <2>2. CASE x # s
    BY <1>1, <2>2, EachSource
  <2> QED
    BY <2>1, <2>2
<1> HIDE DEF tr, sn
<1>3. Turn(tr, n, sn, r)
  BY DEF tr, sn
<1>4. AllReady(tr, sn)
  BY <1>2 DEF AllReady
<1>5. tickDue' \in {tickDue, now + TickEvery}
  OBVIOUS
<1> QED
  BY <1>3, <1>4, <1>5, TurnInv, Zenon

(* A source from which a line has just arrived is ready. *)
LEMMA LineInv ==
    ASSUME IInv, NEW s \in Sources, NEW gps \in BOOLEAN, NEW last \in Instants, NEW n,
           n \in Nav!Navigations, HearLine(s, gps, last, n)
    PROVE  IInv'
<1> DEFINE gpsAt == IF gps THEN now ELSE tracked[s].heardGps
           t == [tracked[s] EXCEPT !.status = "ok", !.message = NoMessage, !.heard = now,
                                   !.connected = Never, !.lastPosition = last,
                                   !.heardGps = gpsAt]
<1>1. /\ tracked \in [Sources -> Trackeds] /\ seen \in [Sources -> Seens] /\ now \in Nat
      /\ link \in [Sources -> {"down", "up", "playing", "done"}]
  BY DEF IInv, Types, TypeOK
<1>2. /\ tracked[s] \in Trackeds /\ seen[s] \in Seens
      /\ Remembers(seen[s], outage[s]) /\ Ready(tracked[s], seen[s], outage[s])
  BY EachSource
<1>3. gpsAt \in Instants
  BY <1>1, <1>2 DEF Trackeds, Instants
<1>4. /\ t \in Trackeds /\ t.status = "ok" /\ t.heard = now /\ t.connected = Never
  <2> HIDE DEF gpsAt
  <2> QED
    BY <1>1, <1>2, <1>3 DEF Trackeds, Statuses, Instants
<1>5. ~Silent(t)
  <2> HIDE DEF t
  <2> QED
    BY <1>1, <1>4, LastSignOfTwo, JournalAssumption DEF Silent, Never
<1>6. Ready(t, seen[s], outage[s])
  <2> HIDE DEF t
  <2> QED
    BY <1>1, <1>2, <1>4, <1>5 DEF Ready, Never
<1>7. Turn([tracked EXCEPT ![s] = t], n, seen, Send(rec, AnyLine, FALSE))
      /\ Idle /\ link' = link /\ tickDue' = tickDue
  BY <1>1 DEF HearLine
<1>8. [seen EXCEPT ![s] = seen[s]] = seen
  BY <1>1
<1> HIDE DEF t
<1>9. Turn([tracked EXCEPT ![s] = t], n, [seen EXCEPT ![s] = seen[s]], Send(rec, AnyLine, FALSE))
  BY <1>7, <1>8
<1> QED
  BY <1>1, <1>6, <1>7, <1>9, EventInv

(* A source whose reader has just given its status is ready. *)
LEMMA StatusInv ==
    ASSUME IInv, NEW s \in Sources, NEW status, NEW m, HearStatus(s, status, m),
           status \in {"error", "ended"}, m \in Messages \cup {NoMessage},
           status = "error" => m \in Messages,
           link' \in [Sources -> {"down", "up", "playing", "done"}]
    PROVE  IInv'
<1> DEFINE t == [tracked[s] EXCEPT !.status = status, !.message = m, !.connected = Never]
<1>1. /\ tracked \in [Sources -> Trackeds] /\ seen \in [Sources -> Seens]
      /\ nav \in Nav!Navigations
  BY DEF IInv, Types, TypeOK
<1>2. tracked[s] \in Trackeds /\ seen[s] \in Seens /\ Remembers(seen[s], outage[s])
  BY EachSource
<1>3. /\ t \in Trackeds /\ t.status = status /\ t.message = m
  BY <1>2 DEF Trackeds, Statuses, Instants
<1>4. Ready(t, seen[s], outage[s])
  <2> HIDE DEF t
  <2> QED
    BY <1>2, <1>3 DEF Ready
<1>5. Turn([tracked EXCEPT ![s] = t], nav, seen, rec) /\ Idle /\ tickDue' = tickDue
  BY <1>1 DEF HearStatus
<1>6. [seen EXCEPT ![s] = seen[s]] = seen
  BY <1>1
<1> HIDE DEF t
<1>7. Turn([tracked EXCEPT ![s] = t], nav, [seen EXCEPT ![s] = seen[s]], rec)
  BY <1>5, <1>6
<1> QED
  BY <1>1, <1>4, <1>5, <1>7, EventInv

(* A source whose link was just reached is ready, and the journal knows since when. *)
LEMMA ConnectInv ==
    ASSUME IInv, NEW s \in Sources, Connect(s)
    PROVE  IInv'
<1> DEFINE t == [tracked[s] EXCEPT !.connected = now, !.status = "connecting",
                                   !.message = NoMessage]
           w == Reached(seen[s], now)
<1>1. /\ tracked \in [Sources -> Trackeds] /\ seen \in [Sources -> Seens] /\ now \in Nat
      /\ nav \in Nav!Navigations /\ link \in [Sources -> {"down", "up", "playing", "done"}]
  BY DEF IInv, Types, TypeOK
<1>2. tracked[s] \in Trackeds /\ seen[s] \in Seens /\ Remembers(seen[s], outage[s])
  BY EachSource
<1>3. /\ t \in Trackeds /\ t.status = "connecting" /\ t.connected = now
  BY <1>1, <1>2 DEF Trackeds, Statuses, Instants
<1>4. /\ w \in Seens /\ w.connected = now /\ w.status = seen[s].status
      /\ w.errors = seen[s].errors /\ w.told = seen[s].told
  BY <1>1, <1>2 DEF Reached, Seens, Instants
<1>5. Remembers(w, outage[s])
  <2> HIDE DEF w
  <2> QED
    BY <1>2, <1>4 DEF Remembers
<1>6. Ready(t, w, outage[s])
  <2> HIDE DEF t, w
  <2> QED
    BY <1>1, <1>3, <1>4, <1>5 DEF Ready, Never
<1>7. /\ Turn([tracked EXCEPT ![s] = t], nav, [seen EXCEPT ![s] = w], rec)
      /\ Idle /\ tickDue' = tickDue /\ link' = [link EXCEPT ![s] = "up"]
  BY <1>1 DEF Connect
<1>8. link' \in [Sources -> {"down", "up", "playing", "done"}]
  BY <1>1, <1>7
<1> HIDE DEF t, w
<1> QED
  BY <1>1, <1>4, <1>6, <1>7, <1>8, EventInv

(* The tick, and an app that connects, judge the sources as they stand. *)
LEMMA JudgeInv ==
    ASSUME IInv, Idle, Turn(tracked, nav, seen, rec), tickDue' \in {tickDue, now + TickEvery},
           UNCHANGED link
    PROVE  IInv'
<1>1. nav \in Nav!Navigations /\ link \in [Sources -> {"down", "up", "playing", "done"}]
  BY DEF IInv, Types, TypeOK
<1>2. AllReady(tracked, seen)
  BY EachSource DEF AllReady
<1>3. UNCHANGED link
  OBVIOUS
<1>4. link' \in [Sources -> {"down", "up", "playing", "done"}]
  BY <1>1, <1>3
<1> QED
  BY <1>1, <1>2, <1>4, TurnInv

-----------------------------------------------------------------------------
(* The news are sent from the outbox, the least of what they are about first. *)
LEMMA NextIsNews ==
    ASSUME Types, ~Idle
    PROVE  NextNews \in outbox /\ \A d \in outbox : NextNews.about <= d.about
<1> DEFINE abouts == {c.about : c \in outbox}
<1>1. abouts \subseteq Nat /\ abouts # {}
  <2>1. \A c \in outbox : c.about \in Nat
    BY HubAssumption DEF Types, TypeOK, Sources, TheFix
  <2> QED
    BY <2>1 DEF Idle
<1>2. PICK a \in abouts : \A b \in abouts : ~(b < a)
  <2> HIDE DEF abouts
  <2>1. PICK a \in abouts : \A b \in abouts : ~(<<b, a>> \in OpToRel(<, Nat))
    BY <1>1, NatLessThanWellFounded, WFMin
  <2> QED
    BY <1>1, <2>1, Zenon DEF OpToRel
<1>3. \A b \in abouts : a <= b
  <2> HIDE DEF abouts
  <2> QED
    BY <1>1, <1>2
<1>4. \E c \in outbox : \A d \in outbox : c.about <= d.about
  BY <1>3
<1> QED
  BY <1>4 DEF NextNews

(* A line more about a source, or the fix, is a line, and its errors stay finitely many. *)
LEMMA ToldIsLines ==
    ASSUME NEW lines \in SUBSET Lines, IsFiniteSet(Errors(lines)), NEW c, c.line \in Lines
    PROVE  Told(lines, c) \in SUBSET Lines /\ IsFiniteSet(Errors(Told(lines, c)))
<1>1. ASSUME NEW ls, IsFiniteSet(Errors(ls)) PROVE IsFiniteSet(Errors(ls \cup {c.line}))
  <2>1. Errors(ls \cup {c.line}) =
            IF c.line.says = "error" THEN Errors(ls) \cup {c.line.message} ELSE Errors(ls)
    BY OneMoreSaid, Zenon
  <2>2. IsFiniteSet(Errors(ls) \cup {c.line.message})
    BY <1>1, FS_AddElement
  <2> QED
    BY <1>1, <2>1, <2>2
<1>2. IsFiniteSet(Errors({c.line}))
  <2>1. IsFiniteSet(Errors({} \cup {c.line}))
    BY <1>1, NothingSaid, FS_EmptySet
  <2>2. {} \cup {c.line} = {c.line}
    OBVIOUS
  <2> QED
    BY <2>1, <2>2
<1> QED
  BY <1>1, <1>2 DEF Told

(* A line of news goes to the recorder. *)
LEMMA SendNewsInv == ASSUME IInv, SendNews PROVE IInv'
<1> DEFINE c == NextNews
<1>1. /\ rec \in Recorders /\ Len(rec.lines) <= RecordLimit
      /\ booked \in [Sources \cup {TheFix} -> SUBSET Lines]
      /\ \A s \in Sources : IsFiniteSet(Errors(booked[s]))
      /\ \A d \in outbox : d \in [about : Sources \cup {TheFix}, line : Lines]
      /\ \A d, e \in outbox : d.about = e.about => d = e
  BY DEF IInv, Types, TypeOK
<1>2. /\ c \in outbox /\ c.about \in Sources \cup {TheFix} /\ c.line \in Lines
  BY <1>1, NextIsNews DEF IInv, SendNews
<1>3. /\ rec' = Send(rec, AnyLine, TRUE) /\ outbox' = outbox \ {c}
      /\ booked' = IF ~Takes(rec) THEN booked
                   ELSE [booked EXCEPT ![c.about] = Told(booked[c.about], c)]
      /\ UNCHANGED <<now, tickDue, link, tracked, nav, seen, fixSeen, shown, outage>>
  BY DEF SendNews
<1>4. /\ rec' \in Recorders /\ Len(rec'.lines) <= RecordLimit
      /\ rec'.held /\ ~rec'.lostComment /\ ~rec'.caughtUp =>
            rec.held /\ ~rec.lostComment /\ ~rec.caughtUp /\ Takes(rec)
  BY <1>1, <1>3, SendKeeps
<1> HIDE DEF c
<1>5. /\ booked' \in [Sources \cup {TheFix} -> SUBSET Lines]
      /\ \A s \in Sources : IsFiniteSet(Errors(booked'[s]))
  <2>1. CASE ~Takes(rec)
    BY <1>1, <1>3, <2>1
  <2>2. CASE Takes(rec)
    <3>1. booked[c.about] \in SUBSET Lines
      BY <1>1, <1>2
    <3>2. Told(booked[c.about], c) \in SUBSET Lines
      BY <1>2, <3>1 DEF Told
    <3>3. ASSUME NEW s \in Sources PROVE IsFiniteSet(Errors(booked'[s]))
      <4>1. CASE s = c.about
        <5>1. IsFiniteSet(Errors(booked[s])) /\ booked[s] \in SUBSET Lines
          BY <1>1
        <5>2. IsFiniteSet(Errors(Told(booked[s], c)))
          BY <1>2, <5>1, ToldIsLines
        <5> QED
          BY <1>1, <1>3, <2>2, <4>1, <5>2
      <4>2. CASE s # c.about
        BY <1>1, <1>3, <2>2, <4>2
      <4> QED
        BY <4>1, <4>2
    <3> QED
      BY <1>1, <1>3, <2>2, <3>2, <3>3
  <2> QED
    BY <2>1, <2>2
<1>6. Types'
  BY <1>1, <1>3, <1>4, <1>5 DEF IInv, Types, TypeOK
<1>7. Whole'
  <2> SUFFICES ASSUME rec'.held, ~rec'.lostComment, ~rec'.caughtUp
               PROVE  /\ \A s \in Sources :
                           /\ \A d \in outbox' : d.about = s =>
                                 Standing(seen'[s], Told(booked'[s], d))
                           /\ (\A d \in outbox' : d.about # s) => Standing(seen'[s], booked'[s])
                      /\ \A d \in outbox' : d.about = TheFix => d.line.says = fixSeen'
                      /\ (\A d \in outbox' : d.about # TheFix) /\ fixSeen' # Unwritten =>
                            {l.says : l \in booked'[TheFix]} = {fixSeen'}
    BY DEF Whole
  <2>1. /\ rec.held /\ ~rec.lostComment /\ ~rec.caughtUp
        /\ booked' = [booked EXCEPT ![c.about] = Told(booked[c.about], c)]
    BY <1>3, <1>4
  <2>2. /\ \A s \in Sources :
              /\ \A d \in outbox : d.about = s => Standing(seen[s], Told(booked[s], d))
              /\ (\A d \in outbox : d.about # s) => Standing(seen[s], booked[s])
        /\ \A d \in outbox : d.about = TheFix => d.line.says = fixSeen
        /\ (\A d \in outbox : d.about # TheFix) /\ fixSeen # Unwritten =>
              {l.says : l \in booked[TheFix]} = {fixSeen}
    BY <2>1 DEF IInv, Whole
  <2>3. ASSUME NEW s \in Sources, NEW d \in outbox', d.about = s
        PROVE  Standing(seen'[s], Told(booked'[s], d))
    <3>1. d \in outbox /\ s # c.about
      BY <1>1, <1>2, <1>3, <2>3
    <3>2. booked'[s] = booked[s]
      BY <1>1, <2>1, <3>1
    <3> QED
      BY <1>3, <2>2, <2>3, <3>1, <3>2
  <2>4. ASSUME NEW s \in Sources, \A d \in outbox' : d.about # s
        PROVE  Standing(seen'[s], booked'[s])
    <3>1. CASE s = c.about
      <4>1. booked'[s] = Told(booked[s], c)
        BY <1>1, <2>1, <3>1
      <4> QED
        BY <1>2, <1>3, <2>2, <3>1, <4>1
    <3>2. CASE s # c.about
      <4>1. booked'[s] = booked[s] /\ \A d \in outbox : d.about # s
        BY <1>1, <1>3, <2>1, <2>4, <3>2
      <4> QED
        BY <1>3, <2>2, <4>1
    <3> QED
      BY <3>1, <3>2
  <2>5. \A d \in outbox' : d.about = TheFix => d.line.says = fixSeen'
    BY <1>3, <2>2
  <2>6. ASSUME \A d \in outbox' : d.about # TheFix, fixSeen' # Unwritten
        PROVE  {l.says : l \in booked'[TheFix]} = {fixSeen'}
    <3>1. CASE c.about = TheFix
      <4>1. booked'[TheFix] = {c.line}
        BY <1>1, <2>1, <3>1 DEF Told
      <4>2. c.line.says = fixSeen'
        BY <1>2, <1>3, <2>2, <3>1
      <4> QED
        BY <4>1, <4>2
    <3>2. CASE c.about # TheFix
      <4>1. booked'[TheFix] = booked[TheFix] /\ \A d \in outbox : d.about # TheFix
        BY <1>1, <1>3, <2>1, <2>6, <3>2
      <4> QED
        BY <1>3, <2>2, <2>6, <4>1
    <3> QED
      BY <3>1, <3>2
  <2> QED
    BY <2>3, <2>4, <2>5, <2>6
<1>8. InTime' /\ ConnectedIsExact'
  BY <1>3 DEF IInv, InTime, ConnectedIsExact
<1>9. \A s \in Sources : Sound(tracked'[s], seen'[s], outage'[s], tickDue')
  BY <1>3 DEF IInv
<1> QED
  BY <1>6, <1>7, <1>8, <1>9 DEF IInv

(* A step of the recorder's thread: what the queue holds, and whether it is read. *)
LEMMA WriterInv ==
    ASSUME IInv, rec' \in Recorders, Len(rec'.lines) <= RecordLimit,
           rec'.held = rec.held, rec'.lostComment = rec.lostComment,
           rec'.caughtUp = rec.caughtUp,
           UNCHANGED <<now, tickDue, link, tracked, nav, seen, fixSeen, shown, outbox, outage,
                       booked>>
    PROVE  IInv'
<1>1. Types'
  BY DEF IInv, Types, TypeOK
<1>2. Whole'
  BY DEF IInv, Whole
<1>3. InTime' /\ ConnectedIsExact'
  BY DEF IInv, InTime, ConnectedIsExact
<1>4. \A s \in Sources : Sound(tracked'[s], seen'[s], outage'[s], tickDue')
  BY DEF IInv
<1> QED
  BY <1>1, <1>2, <1>3, <1>4 DEF IInv

(* The recorder's thread takes a line. *)
LEMMA TakeLineInv == ASSUME IInv, TakeLine PROVE IInv'
<1>1. rec \in Recorders /\ Len(rec.lines) <= RecordLimit /\ RecordLimit \in Nat
  BY RecordLimitAssumption DEF IInv, Types, TypeOK
<1>2. Tail(rec.lines) \in Seq({AnyLine}) /\ Len(Tail(rec.lines)) = Len(rec.lines) - 1
      /\ Len(rec.lines) \in Nat
  BY <1>1, HeadTailProperties, LenProperties DEF Recorders, TakeLine
<1>3. /\ rec' \in Recorders /\ rec'.lines = Tail(rec.lines) /\ rec'.held = rec.held
      /\ rec'.lostComment = rec.lostComment /\ rec'.caughtUp = rec.caughtUp
  BY <1>1, <1>2 DEF Recorders, TakeLine
<1>4. Len(rec'.lines) <= RecordLimit
  BY <1>1, <1>2, <1>3
<1> QED
  BY <1>3, <1>4, WriterInv DEF TakeLine

(* The recorder's thread stops, and what is queued is lost. *)
LEMMA StopRecordingInv == ASSUME IInv, StopRecording PROVE IInv'
<1>1. rec \in Recorders /\ RecordLimit \in Nat
  BY RecordLimitAssumption DEF IInv, Types
<1>2. <<>> \in Seq({AnyLine}) /\ Len(<<>>) = 0
  BY EmptySeq
<1>3. /\ rec' \in Recorders /\ rec'.lines = <<>> /\ rec'.held = rec.held
      /\ rec'.lostComment = rec.lostComment /\ rec'.caughtUp = rec.caughtUp
  BY <1>1, <1>2 DEF Recorders, StopRecording
<1>4. Len(rec'.lines) <= RecordLimit
  BY <1>1, <1>2, <1>3
<1> QED
  BY <1>3, <1>4, WriterInv DEF StopRecording

(* Time passes: no further past the tick than the lateness. *)
LEMMA AdvanceInv == ASSUME IInv, Advance PROVE IInv'
<1>1. /\ now \in Nat /\ tickDue \in Nat /\ Lateness \in Nat
      /\ now < tickDue + Lateness /\ now' = now + 1 /\ tickDue <= now + TickEvery
      /\ UNCHANGED <<tickDue, link, tracked, nav, seen, fixSeen, shown, outbox, rec, outage, booked>>
  BY HubAssumption DEF IInv, Types, TypeOK, Advance
<1>2. now' \in Nat /\ tickDue' <= now' + TickEvery /\ now' <= tickDue' + Lateness
  BY <1>1 DEF TickEvery
<1>3. TypeOK'
  BY <1>1, <1>2 DEF IInv, Types, TypeOK
<1>4. Types'
  BY <1>1, <1>2, <1>3 DEF IInv, Types
<1>5. Whole'
  BY <1>1 DEF IInv, Whole
<1>6. InTime' /\ ConnectedIsExact'
  BY <1>1 DEF IInv, InTime, ConnectedIsExact
<1>7. \A s \in Sources : Sound(tracked'[s], seen'[s], outage'[s], tickDue')
  BY <1>1 DEF IInv
<1> QED
  BY <1>4, <1>5, <1>6, <1>7 DEF IInv

(* A position sentence leaves a Navigation one. *)
LEMMA UpdateIsNavigation ==
    ASSUME NEW n \in Nav!Navigations, NEW p \in Positions, NEW t \in Nat
    PROVE  Nav!Update(n, p, t) \in Nav!Navigations
<1>1. /\ p.kind \in Nav!Kinds /\ p.valid \in BOOLEAN /\ p.placed \in BOOLEAN
      /\ p.filled \in BOOLEAN
  BY HubAssumption DEF Nav!AnyPosition
<1>2. CASE ~p.valid
  BY <1>2 DEF Nav!Update, Nav!Navigations, Nav!Instants
<1>3. CASE p.valid /\ ~p.placed
  BY <1>3 DEF Nav!Update, Nav!Navigations, Nav!Instants
<1>4. CASE p.valid /\ p.placed
  <2> DEFINE own == [at |-> t, filled |-> p.filled]
             new == [n EXCEPT !.heard = t, !.lost = FALSE, !.at = t, !.part[p.kind] = own]
  <2>1. Nav!Update(n, p, t) = new
    BY <1>4 DEF Nav!Update
  <2>2. own \in Nav!Part
    BY <1>1 DEF Nav!Part, Nav!Instants
  <2>3. [n.part EXCEPT ![p.kind] = own] \in [Nav!Kinds -> Nav!Part]
    BY <1>1, <2>2 DEF Nav!Navigations
  <2>4. new \in Nav!Navigations
    BY <1>1, <2>3 DEF Nav!Navigations, Nav!Instants
  <2> QED
    BY <2>1, <2>4
<1> QED
  BY <1>2, <1>3, <1>4

(* As the hub starts, nothing was heard, seen or written. *)
LEMMA InitInv == Init => IInv
<1> SUFFICES ASSUME Init PROVE IInv
  OBVIOUS
<1>1. NewTracked \in Trackeds /\ NewTracked.status = "connecting"
      /\ NewTracked.connected = Never /\ NewTracked.heard = Never
  BY DEF NewTracked, Trackeds, Statuses, Instants
<1>2. NewSeen \in Seens /\ NewSeen.errors = {} /\ ~NewSeen.told /\ NewSeen.connected = Never
      /\ NewSeen.status = Unwritten
  BY DEF NewSeen, Seens, Instants
<1>3. Remembers(NewSeen, <<>>)
  BY <1>2, NothingSaid, FS_EmptySet DEF Remembers, Unwritten
<1>4. Sound(NewTracked, NewSeen, <<>>, tickDue)
  BY <1>1, <1>2, <1>3 DEF Sound, Waiting
<1>5. \A s \in Sources : Sound(tracked[s], seen[s], outage[s], tickDue)
  BY <1>4 DEF Init
<1>6. /\ rec \in Recorders /\ Len(rec.lines) <= RecordLimit
  <2>1. <<>> \in Seq({AnyLine}) /\ Len(<<>>) = 0 /\ RecordLimit \in Nat
    BY EmptySeq, RecordLimitAssumption
  <2>2. NewRecorder \in Recorders /\ Len(NewRecorder.lines) <= RecordLimit
    BY <2>1 DEF NewRecorder, Recorders
  <2>3. NoRecorder \in Recorders /\ Len(NoRecorder.lines) <= RecordLimit
    <3>1. NoRecorder \in Recorders /\ NoRecorder.lines = NewRecorder.lines
      BY <2>2 DEF NoRecorder, Recorders
    <3> QED
      BY <2>2, <3>1
  <2> QED
    BY <2>2, <2>3 DEF Init
<1>7. nav \in Nav!Navigations
  BY DEF Init, Nav!NoNavigation, Nav!NoPart, Nav!Navigations, Nav!Part, Nav!Instants, Nav!Never,
         Nav!Kinds
<1>8. /\ tracked \in [Sources -> Trackeds] /\ seen \in [Sources -> Seens]
      /\ outage \in [Sources -> Seq(Lines)]
      /\ link \in [Sources -> {"down", "up", "playing", "done"}]
  BY <1>1, <1>2, NothingSaid DEF Init
<1>9. TypeOK
  BY <1>6, <1>7, <1>8 DEF Init, TypeOK
<1>10. booked \in [Sources \cup {TheFix} -> SUBSET Lines]
       /\ \A s \in Sources : IsFiniteSet(Errors(booked[s]))
  BY NothingSaid, FS_EmptySet DEF Init
<1>11. tickDue <= now + TickEvery /\ now <= tickDue + Lateness
  BY HubAssumption DEF Init, TickEvery
<1>12. Types
  BY <1>6, <1>8, <1>9, <1>10, <1>11 DEF Init, Types
<1>13. InTime /\ ConnectedIsExact
  BY DEF Init, InTime, ConnectedIsExact, Unwritten
<1>14. ASSUME NEW s \in Sources PROVE Standing(seen[s], booked[s])
  BY <1>2 DEF Init, Standing, Unwritten
<1>15. Whole
  BY <1>14 DEF Init, Whole
<1> QED
  BY <1>5, <1>12, <1>13, <1>15 DEF IInv

(* The next step, one case for each action. *)
LEMMA NextInv == IInv /\ [Next]_vars => IInv'
<1> SUFFICES ASSUME IInv, [Next]_vars PROVE IInv'
  OBVIOUS
<1>0. /\ tracked \in [Sources -> Trackeds] /\ nav \in Nav!Navigations /\ now \in Nat
      /\ link \in [Sources -> {"down", "up", "playing", "done"}]
  BY DEF IInv, Types, TypeOK
<1>1. ASSUME NEW s \in Sources, NEW p \in Positions, NEW gps \in BOOLEAN, HearPosition(s, p, gps)
      PROVE  IInv'
  <2>1. Nav!Update(nav, p, now) \in Nav!Navigations
    BY <1>0, UpdateIsNavigation
  <2>2. now \in Instants
    BY <1>0 DEF Instants
  <2> QED
    BY <1>1, <2>1, <2>2, LineInv DEF HearPosition
<1>2. ASSUME NEW s \in Sources, HearTalk(s) \/ HearAis(s) PROVE IInv'
  <2>1. tracked[s].lastPosition \in Instants
    BY <1>0 DEF Trackeds
  <2> QED
    BY <1>0, <1>2, <2>1, LineInv DEF HearTalk, HearAis
<1>3. ASSUME NEW s \in Sources, NEW m \in Messages, Fail(s, m) \/ GiveUp(s, m) PROVE IInv'
  <2>1. link' \in [Sources -> {"down", "up", "playing", "done"}] /\ HearStatus(s, "error", m)
    BY <1>0, <1>3 DEF Fail, GiveUp
  <2> QED
    BY <2>1, StatusInv
<1>4. ASSUME NEW s \in Sources, End(s) PROVE IInv'
  <2>1. link' \in [Sources -> {"down", "up", "playing", "done"}]
        /\ HearStatus(s, "ended", NoMessage)
    BY <1>0, <1>4 DEF End
  <2> QED
    BY <2>1, StatusInv
<1>5. ASSUME NEW s \in Sources, Connect(s) PROVE IInv'
  BY <1>5, ConnectInv
<1>6. CASE Tick
  BY <1>6, JudgeInv DEF Tick
<1>7. CASE Accept
  BY <1>7, JudgeInv DEF Accept
<1>8. CASE SendNews
  BY <1>8, SendNewsInv
<1>9. CASE TakeLine
  BY <1>9, TakeLineInv
<1>10. CASE StopRecording
  BY <1>10, StopRecordingInv
<1>11. CASE Advance
  BY <1>11, AdvanceInv
<1>12. CASE UNCHANGED vars
  <2>1. Types'
    BY <1>12 DEF vars, IInv, Types, TypeOK
  <2>2. Whole' /\ InTime' /\ ConnectedIsExact'
    BY <1>12 DEF vars, IInv, Whole, InTime, ConnectedIsExact
  <2>3. \A s \in Sources : Sound(tracked'[s], seen'[s], outage'[s], tickDue')
    BY <1>12 DEF vars, IInv
  <2> QED
    BY <2>1, <2>2, <2>3 DEF IInv
<1> QED
  BY <1>1, <1>2, <1>3, <1>4, <1>5, <1>6, <1>7, <1>8, <1>9, <1>10, <1>11, <1>12 DEF Next

(* The journal, the recording and the judgement stay in step. *)
THEOREM InvariantHolds == Spec => []IInv
  BY InitInv, NextInv, PTL DEF Spec

(* Type correctness of the hub. *)
THEOREM TypeCorrect == Spec => []TypeOK
<1>1. IInv => TypeOK
  BY DEF IInv, Types
<1> QED
  BY <1>1, InvariantHolds, PTL

-----------------------------------------------------------------------------
(* How late the loop may judge a source. *)
LEMMA Late ==
    ASSUME IInv
    PROVE  /\ now \in Nat /\ tickDue \in Nat /\ Lateness \in Nat /\ StaleAfter \in Nat
           /\ QuietHold \in Nat /\ now <= tickDue + Lateness
           /\ \A s \in Sources : LastSign(tracked[s]) \in Int
  BY HubAssumption, JournalAssumption, LastSignOfTwo DEF IInv, Types, TypeOK

(* A tick has judged a source that waits, and judged it silent when it was. *)
LEMMA QuietFromTick == IInv => QuietOnTime
<1> SUFFICES ASSUME IInv, NEW s \in Sources, tracked[s].status \in {"ok", "connecting"},
                    LastSign(tracked[s]) # Never
             PROVE  now - LastSign(tracked[s]) <= StaleAfter + Lateness
  BY DEF QuietOnTime
<1>1. Sound(tracked[s], seen[s], outage[s], tickDue) /\ tracked[s] \in Trackeds
  BY DEF IInv, Sound
<1>2. Waiting(tracked[s])
  <2>1. tracked[s].connected = Never /\ tracked[s].heard = Never => LastSign(tracked[s]) = Never
    BY <1>1, LastSignOfTwo
  <2> QED
    BY <1>1, <2>1 DEF Sound, Waiting
<1>3. tickDue - TickEvery - LastSign(tracked[s]) < StaleAfter
  BY <1>1, <1>2 DEF Sound
<1> QED
  BY <1>3, Late DEF TickEvery

(* The last turn was no earlier than the tick before the next. *)
LEMMA ShownFromTick == IInv => ShownOnTime
<1> SUFFICES ASSUME IInv, shown = "ok" PROVE now - nav.at <= StaleAfter + Lateness
  BY DEF ShownOnTime
<1>1. tickDue - TickEvery - nav.at < StaleAfter
  BY DEF IInv, InTime
<1>2. nav.at \in Int
  BY DEF IInv, Types, TypeOK, Nav!Navigations, Nav!Instants, Nav!Never
<1> QED
  BY <1>1, <1>2, Late DEF TickEvery

(* What was written of an outage is what the journal remembers of it. *)
LEMMA OnceFromJournal == IInv => EachOnceAnOutage
  BY DEF IInv, Sound, Remembers, EachOnceAnOutage

(* Every source in error or quiet has had its turn. *)
LEMMA ToldFromJournal == IInv => OutageIsTold
<1> SUFFICES ASSUME IInv, NEW s \in Sources
             PROVE  /\ tracked[s].status = "error" =>
                         LET errors == Errors(Range(outage[s]))
                         IN \/ tracked[s].message \in errors
                            \/ Cardinality(errors) >= MessagesPerOutage
                    /\ /\ tracked[s].status = "quiet"
                       /\ SilentFor(tracked[s]) > StaleAfter + QuietHold + Lateness
                       => Says(Range(outage[s])) \cap {"quiet", "connected"} # {}
  BY DEF OutageIsTold
<1>1. /\ Sound(tracked[s], seen[s], outage[s], tickDue)
      /\ Errors(Range(outage[s])) = seen[s].errors
  BY DEF IInv, Sound, Remembers
<1>2. ASSUME tracked[s].status = "quiet", Says(Range(outage[s])) \cap Quieted = {}
      PROVE  SilentFor(tracked[s]) <= StaleAfter + QuietHold + Lateness
  <2>1. /\ tickDue - TickEvery - LastSign(tracked[s]) < StaleAfter + QuietHold
        /\ LastSign(tracked[s]) # Never
    BY <1>1, <1>2 DEF Sound
  <2> QED
    BY <2>1, Late DEF SilentFor, TickEvery
<1>3. SilentFor(tracked[s]) \in Int /\ StaleAfter + QuietHold + Lateness \in Int
  BY Late DEF SilentFor
<1> QED
  BY <1>1, <1>2, <1>3 DEF Sound, Quieted

(* Nothing lost and nothing left to send: the recording has what the journal remembers. *)
LEMMA AllFromStanding == IInv => RecordingTellsAll
<1> SUFFICES ASSUME IInv, rec.held, Idle, ~rec.lostComment, ~rec.caughtUp, fixSeen # Unwritten
             PROVE  /\ {l.says : l \in booked[TheFix]} = {fixSeen}
                    /\ \A s \in Sources :
                         /\ tracked[s].status \in {"ok", "ended"} =>
                               booked[s] = {Plain(tracked[s].status)}
                         /\ tracked[s].status = "error" =>
                               \/ tracked[s].message \in Errors(booked[s])
                               \/ Cardinality(Errors(booked[s])) >= MessagesPerOutage
  BY DEF RecordingTellsAll
<1>1. /\ \A s \in Sources : Standing(seen[s], booked[s])
      /\ {l.says : l \in booked[TheFix]} = {fixSeen}
  BY DEF IInv, Whole, Idle
<1>2. ASSUME NEW s \in Sources, tracked[s].status \in {"ok", "ended"}
      PROVE  booked[s] = {Plain(tracked[s].status)}
  BY <1>1, <1>2 DEF IInv, Sound, Standing
<1>3. ASSUME NEW s \in Sources, tracked[s].status = "error"
      PROVE  \/ tracked[s].message \in Errors(booked[s])
             \/ Cardinality(Errors(booked[s])) >= MessagesPerOutage
  <2>1. /\ seen[s].errors \subseteq Errors(booked[s]) /\ IsFiniteSet(Errors(booked[s]))
        /\ tracked[s].message \in seen[s].errors
           \/ Cardinality(seen[s].errors) >= MessagesPerOutage
    BY <1>1, <1>3 DEF IInv, Types, Sound, Standing
  <2>2. /\ Cardinality(seen[s].errors) \in Nat /\ Cardinality(Errors(booked[s])) \in Nat
        /\ Cardinality(seen[s].errors) <= Cardinality(Errors(booked[s]))
    BY <2>1, FS_Subset, FS_CardinalityType
  <2>3. MessagesPerOutage \in Nat
    BY JournalAssumption
  <2> QED
    BY <2>1, <2>2, <2>3
<1> QED
  BY <1>1, <1>2, <1>3

-----------------------------------------------------------------------------
(* A step taken with no news to send is a turn, or leaves the sources and the news alone. *)
LEMMA IdleStep ==
    ASSUME IInv, Idle, Next
    PROVE  \/ UNCHANGED <<tracked, outbox>>
           \/ \E tr, n, sn, r :
                 /\ Turn(tr, n, sn, r) /\ r \in {rec, Send(rec, AnyLine, FALSE)}
                 /\ \A s \in Sources : sn[s].status = seen[s].status
<1>1. seen \in [Sources -> Seens]
  BY DEF IInv, Types, TypeOK
<1>2. ASSUME NEW s \in Sources, Connect(s)
      PROVE  \E tr, n, sn, r :
                /\ Turn(tr, n, sn, r) /\ r \in {rec, Send(rec, AnyLine, FALSE)}
                /\ \A x \in Sources : sn[x].status = seen[x].status
  <2> DEFINE sn == [seen EXCEPT ![s] = Reached(seen[s], now)]
  <2>1. \E tr : Turn(tr, nav, sn, rec)
    BY <1>2 DEF Connect
  <2>2. Reached(seen[s], now).status = seen[s].status
    BY <1>1 DEF Reached, Seens
  <2>3. \A x \in Sources : sn[x].status = seen[x].status
    BY <1>1, <2>2
  <2>4. PICK tr : Turn(tr, nav, sn, rec)
    BY <2>1
  <2> HIDE DEF sn
  <2> QED
    BY <2>3, <2>4
<1>3. CASE Tick \/ Accept
  BY <1>3 DEF Tick, Accept
<1>4. ASSUME NEW s \in Sources, NEW gps, NEW last, NEW n, HearLine(s, gps, last, n)
      PROVE  \E tr, m, sn, r :
                /\ Turn(tr, m, sn, r) /\ r \in {rec, Send(rec, AnyLine, FALSE)}
                /\ \A x \in Sources : sn[x].status = seen[x].status
  <2>1. \E tr : Turn(tr, n, seen, Send(rec, AnyLine, FALSE))
    BY <1>4 DEF HearLine
  <2> QED
    BY <2>1
<1>5. ASSUME NEW s \in Sources, NEW status, NEW m, HearStatus(s, status, m)
      PROVE  \E tr, n, sn, r :
                /\ Turn(tr, n, sn, r) /\ r \in {rec, Send(rec, AnyLine, FALSE)}
                /\ \A x \in Sources : sn[x].status = seen[x].status
  <2>1. \E tr : Turn(tr, nav, seen, rec)
    BY <1>5 DEF HearStatus
  <2> QED
    BY <2>1
<1>6. CASE SendNews
  BY <1>6 DEF SendNews
<1>7. CASE TakeLine \/ StopRecording \/ Advance
  BY <1>7 DEF TakeLine, StopRecording, Advance
<1> QED
  BY <1>2, <1>3, <1>4, <1>5, <1>6, <1>7
     DEF Next, HearPosition, HearTalk, HearAis, Fail, GiveUp, End

(* The `ok` of a recovery is written when an outage was, and only then. *)
LEMMA RecoveryStep ==
    ASSUME IInv, Next, Idle, ~rec.lostComment, ~rec.caughtUp, NEW s \in Sources,
           tracked'[s].status = "ok"
    PROVE  LET told == Record(s, Plain("ok")) \in outbox'
           IN /\ outage[s] # <<>> => told
              /\ outage[s] = <<>> /\ seen[s].status # Unwritten
                 /\ tracked[s].status \in {"ok", "quiet"} => ~told
<1>1. Sound(tracked[s], seen[s], outage[s], tickDue) /\ Remembers(seen[s], outage[s])
  BY DEF IInv, Sound
<1>2. CASE UNCHANGED <<tracked, outbox>>
  BY <1>1, <1>2 DEF Sound, Idle
<1>3. ASSUME NEW tr, NEW n, NEW sn, NEW r, Turn(tr, n, sn, r),
             r \in {rec, Send(rec, AnyLine, FALSE)},
             sn[s].status = seen[s].status
      PROVE  LET told == Record(s, Plain("ok")) \in outbox'
             IN /\ outage[s] # <<>> => told
                /\ outage[s] = <<>> /\ seen[s].status # Unwritten
                   /\ tracked[s].status \in {"ok", "quiet"} => ~told
  <2> DEFINE line == NewsOf(tr[s], sn[s], Again(r)).line
  <2>1. ~Again(r)
    <3>1. rec \in Recorders /\ Len(rec.lines) <= RecordLimit
      BY DEF IInv, Types, TypeOK
    <3>2. ~Send(rec, AnyLine, FALSE).caughtUp
      BY <3>1, SendKeeps
    <3> QED
      BY <1>3, <3>2 DEF Again
  <2>2. Judged(tr[s]).status = "ok"
    BY <1>3, TurnLeaves DEF Judgement
  <2>3. line = IF sn[s].status = "ok" THEN NoLine ELSE Plain("ok")
    BY <2>1, <2>2 DEF NewsOf, SourceNews, WorkingNews, News
  <2>4. Plain("ok") # NoLine
    BY DEF Plain, NoLine, Line
  <2>5. /\ line # NoLine => Record(s, line) \in outbox'
        /\ \A c \in outbox' : c.about = s => line # NoLine
    <3>1. s # TheFix
      BY HubAssumption DEF Sources, TheFix
    <3>2. line # NoLine => Record(s, line) \in outbox'
      BY <1>3, TurnTells
    <3>3. ASSUME NEW c \in outbox', c.about = s PROVE line # NoLine
      <4>1. \/ \E x \in Sources : /\ NewsOf(tr[x], sn[x], Again(r)).line # NoLine
                                  /\ c = Record(x, NewsOf(tr[x], sn[x], Again(r)).line)
            \/ FixChanged(n, r) /\ c = Record(TheFix, FixNews(tr, n))
        BY <1>3, TurnTells
      <4> QED
        BY <3>1, <3>3, <4>1 DEF Record
    <3> QED
      BY <3>2, <3>3
  <2>6. Record(s, Plain("ok")).about = s
    BY DEF Record
  <2>7. outage[s] # <<>> => seen[s].status # "ok"
    BY <1>1 DEF Remembers
  <2>8. ASSUME outage[s] = <<>>, seen[s].status # Unwritten, tracked[s].status \in {"ok", "quiet"}
        PROVE  seen[s].status = "ok"
    <3>1. Says(Range(outage[s])) = {}
      BY <2>8, NothingSaid
    <3> QED
      BY <1>1, <2>8, <3>1 DEF Sound, Remembers, Unsaid
  <2> HIDE DEF line
  <2> QED
    BY <1>3, <2>3, <2>4, <2>5, <2>6, <2>7, <2>8
<1> QED
  BY <1>2, <1>3, IdleStep

-----------------------------------------------------------------------------
(* A source that falls silent is quiet in time, whatever else happens. *)
THEOREM SilenceIsNoticed == Spec => []QuietOnTime
  BY QuietFromTick, InvariantHolds, PTL

(* Apps are not left reading ok of a position older than StaleAfter, beyond a tick and the
   lateness of the loop; no more is said of the other statuses. *)
THEOREM StaleFixIsShown == Spec => []ShownOnTime
  BY ShownFromTick, InvariantHolds, PTL

(* `connected` gives the threshold, however late the poll that noticed. *)
THEOREM ConnectedGivesThreshold == Spec => []ConnectedIsExact
<1>1. IInv => ConnectedIsExact
  BY DEF IInv
<1> QED
  BY <1>1, InvariantHolds, PTL

(* No line is written twice in one outage. *)
THEOREM NothingTwice == Spec => []EachOnceAnOutage
  BY OnceFromJournal, InvariantHolds, PTL

(* An error, or a silence that lasts, is written. *)
THEOREM OutagesAreTold == Spec => []OutageIsTold
  BY ToldFromJournal, InvariantHolds, PTL

(* A recording that lost no comment tells how every source and the fix stand. *)
THEOREM RecordingIsWhole == Spec => []RecordingTellsAll
  BY AllFromStanding, InvariantHolds, PTL

(* The `ok` that ends an outage is written when something of the outage was. *)
THEOREM RecoveriesAreTold == Spec => RecoveryIsTold
<1>1. IInv /\ [Next]_vars =>
         [Idle /\ ~rec.lostComment /\ ~rec.caughtUp =>
             \A s \in Sources :
                tracked'[s].status = "ok" =>
                   LET told == Record(s, Plain("ok")) \in outbox'
                   IN /\ outage[s] # <<>> => told
                      /\ outage[s] = <<>> /\ seen[s].status # Unwritten
                         /\ tracked[s].status \in {"ok", "quiet"} => ~told]_vars
  BY RecoveryStep
<1> QED
  BY <1>1, InvariantHolds, PTL DEF Spec, RecoveryIsTold

-----------------------------------------------------------------------------
(* A turn takes the fix from its event and leaves the clock. *)
LEMMA TurnFix ==
    ASSUME NEW tr, NEW n, NEW sn, NEW r, Turn(tr, n, sn, r)
    PROVE  nav' = n /\ now' = now
  BY TurnLeaves

(* The hub's step, as Navigation sees it. *)
LEMMA StepOfFix == [Next]_vars => [Nav!Next]_(Nav!vars)
<1> SUFFICES ASSUME [Next]_vars PROVE Nav!Next \/ UNCHANGED Nav!vars
  OBVIOUS
<1>1. ASSUME NEW s \in Sources, NEW gps, NEW last, NEW n, HearLine(s, gps, last, n)
      PROVE  nav' = n /\ now' = now
  BY <1>1, TurnFix DEF HearLine
<1>2. ASSUME NEW s \in Sources, NEW status, NEW m, HearStatus(s, status, m)
      PROVE  nav' = nav /\ now' = now
  BY <1>2, TurnFix DEF HearStatus
<1>3. ASSUME NEW s \in Sources, NEW p \in Positions, NEW gps \in BOOLEAN, HearPosition(s, p, gps)
      PROVE  Nav!Next
  BY <1>1, <1>3 DEF HearPosition, Nav!Next, Nav!Hear
<1>4. ASSUME NEW s \in Sources,
             \/ HearTalk(s) \/ HearAis(s) \/ End(s) \/ Connect(s)
             \/ \E m \in Messages : Fail(s, m) \/ GiveUp(s, m)
      PROVE  nav' = nav /\ now' = now
  BY <1>1, <1>2, <1>4, TurnFix DEF HearTalk, HearAis, End, Connect, Fail, GiveUp
<1>5. CASE Tick \/ Accept
  BY <1>5, TurnFix DEF Tick, Accept, Nav!vars
<1>6. CASE SendNews \/ TakeLine \/ StopRecording
  BY <1>6 DEF SendNews, TakeLine, StopRecording, Nav!vars
<1>7. CASE Advance
  BY <1>7 DEF Advance, Nav!Next, Nav!Advance
<1>8. CASE UNCHANGED vars
  BY <1>8 DEF vars, Nav!vars
<1> QED
  BY <1>3, <1>4, <1>5, <1>6, <1>7, <1>8 DEF Next, Nav!vars

(* The hub implements Navigation: with any number of sources its fix starts, and moves, by
   those rules alone. *)
THEOREM ImplementsNavigation == Spec => FixIsNavigation
<1>1. Init => Nav!Init
  BY DEF Init, Nav!Init
<1> QED
  BY <1>1, StepOfFix, PTL DEF Spec, FixIsNavigation, Nav!Spec

-----------------------------------------------------------------------------
(* What the fix has heard is the newest position sentence of all: an invariant once it
   is known to be of the past. *)
AllHeard(tr, heard) ==
    /\ \A s \in Sources : tr[s].lastPosition <= heard
    /\ \E s \in Sources : tr[s].lastPosition = heard

Heard == AllHeard(tracked, nav.heard) /\ nav.heard <= now

(* A turn judges, and leaves what was heard when. *)
LEMMA TurnHeard ==
    ASSUME NEW tr, NEW n, NEW sn, NEW r, Turn(tr, n, sn, r), AllHeard(tr, n.heard), n.heard <= now
    PROVE  Heard'
<1>1. tracked' = [s \in Sources |-> Judged(tr[s])] /\ nav' = n /\ now' = now
  BY TurnLeaves DEF Judgement
<1>2. ASSUME NEW s \in Sources PROVE tracked'[s].lastPosition = tr[s].lastPosition
  BY <1>1 DEF Judged
<1> QED
  BY <1>1, <1>2 DEF Heard, AllHeard

(* A line of one source, with a position or not. *)
LEMMA LineHeard ==
    ASSUME IInv, Heard, NEW s \in Sources, NEW gps, NEW last, NEW n, HearLine(s, gps, last, n),
           \/ last = tracked[s].lastPosition /\ n = nav
           \/ last = now /\ n.heard = now
    PROVE  Heard'
<1> DEFINE t == [tracked[s] EXCEPT !.status = "ok", !.message = NoMessage, !.heard = now,
                                   !.connected = Never, !.lastPosition = last,
                                   !.heardGps = IF gps THEN now ELSE tracked[s].heardGps]
           tr == [tracked EXCEPT ![s] = t]
<1>1. tracked \in [Sources -> Trackeds] /\ nav \in Nav!Navigations /\ now \in Nat
  BY DEF IInv, Types, TypeOK
<1>2. Turn(tr, n, seen, Send(rec, AnyLine, FALSE))
  BY <1>1 DEF HearLine
<1>3. t.lastPosition = last
  BY <1>1 DEF Trackeds
<1> HIDE DEF t
<1>4. tr[s].lastPosition = last /\ \A x \in Sources : x # s => tr[x] = tracked[x]
  BY <1>1, <1>3
<1> HIDE DEF tr
<1>5. \A x \in Sources : tracked[x].lastPosition \in Int
  BY <1>1 DEF Trackeds, Instants, Never
<1>6. nav.heard \in Int
  BY <1>1 DEF Nav!Navigations, Nav!Instants, Nav!Never
<1>7. AllHeard(tr, n.heard) /\ n.heard <= now
  <2>1. CASE last = tracked[s].lastPosition /\ n = nav
    <3>1. \A x \in Sources : tr[x].lastPosition = tracked[x].lastPosition
      BY <1>4, <2>1
    <3> QED
      BY <2>1, <3>1 DEF Heard, AllHeard
  <2>2. CASE last = now /\ n.heard = now
    <3>1. \A x \in Sources : tracked[x].lastPosition <= now
      BY <1>1, <1>5, <1>6 DEF Heard, AllHeard
    <3> QED
      BY <1>1, <1>4, <2>2, <3>1 DEF AllHeard
  <2> QED
    BY <2>1, <2>2
<1> QED
  BY <1>2, <1>7, TurnHeard

(* Whatever is done with one source, its positions apart, leaves what was heard when. *)
LEMMA OtherHeard ==
    ASSUME Heard, NEW tr, NEW sn, NEW r, Turn(tr, nav, sn, r),
           \A s \in Sources : tr[s].lastPosition = tracked[s].lastPosition
    PROVE  Heard'
<1>1. AllHeard(tr, nav.heard) /\ nav.heard <= now
  BY DEF Heard, AllHeard
<1> QED
  BY <1>1, TurnHeard

LEMMA HeardInit == Init => Heard
<1> SUFFICES ASSUME Init PROVE Heard
  OBVIOUS
<1>1. 1 \in Sources
  BY HubAssumption DEF Sources
<1>2. /\ \A s \in Sources : tracked[s].lastPosition = Never
      /\ nav.heard = Never /\ now = 0 /\ Never = -1
  BY DEF Init, NewTracked, Nav!NoNavigation, Nav!Never, Never
<1> QED
  BY <1>1, <1>2 DEF Heard, AllHeard

LEMMA HeardNext == IInv /\ Heard /\ [Next]_vars => Heard'
<1> SUFFICES ASSUME IInv, Heard, [Next]_vars PROVE Heard'
  OBVIOUS
<1>0. tracked \in [Sources -> Trackeds] /\ nav \in Nav!Navigations /\ now \in Nat
  BY DEF IInv, Types, TypeOK
<1>1. ASSUME NEW s \in Sources, NEW p \in Positions, NEW gps \in BOOLEAN, HearPosition(s, p, gps)
      PROVE  Heard'
  <2>1. Nav!Update(nav, p, now).heard = now
    BY <1>0, HubAssumption DEF Nav!Update, Nav!Navigations, Nav!AnyPosition
  <2> QED
    BY <1>1, <2>1, LineHeard DEF HearPosition
<1>2. ASSUME NEW s \in Sources, HearTalk(s) \/ HearAis(s) PROVE Heard'
  BY <1>2, LineHeard DEF HearTalk, HearAis
<1>3. ASSUME NEW s \in Sources, NEW status, NEW m, HearStatus(s, status, m) PROVE Heard'
  <2> DEFINE t == [tracked[s] EXCEPT !.status = status, !.message = m, !.connected = Never]
             tr == [tracked EXCEPT ![s] = t]
  <2>1. Turn(tr, nav, seen, rec)
    BY <1>0, <1>3 DEF HearStatus
  <2>2. \A x \in Sources : tr[x].lastPosition = tracked[x].lastPosition
    BY <1>0 DEF Trackeds
  <2> HIDE DEF tr
  <2> QED
    BY <2>1, <2>2, OtherHeard
<1>4. ASSUME NEW s \in Sources, Connect(s) PROVE Heard'
  <2> DEFINE t == [tracked[s] EXCEPT !.connected = now, !.status = "connecting",
                                     !.message = NoMessage]
             tr == [tracked EXCEPT ![s] = t]
  <2>1. Turn(tr, nav, [seen EXCEPT ![s] = Reached(@, now)], rec)
    BY <1>0, <1>4 DEF Connect
  <2>2. \A x \in Sources : tr[x].lastPosition = tracked[x].lastPosition
    BY <1>0 DEF Trackeds
  <2> HIDE DEF tr
  <2> QED
    BY <2>1, <2>2, OtherHeard
<1>5. CASE Tick \/ Accept
  BY <1>5, OtherHeard DEF Tick, Accept
<1>6. CASE SendNews \/ TakeLine \/ StopRecording
  BY <1>6 DEF SendNews, TakeLine, StopRecording, Heard
<1>7. CASE Advance
  <2>1. nav.heard \in Int
    BY <1>0 DEF Nav!Navigations, Nav!Instants, Nav!Never
  <2> QED
    BY <1>0, <1>7, <2>1 DEF Advance, Heard
<1>8. CASE UNCHANGED vars
  BY <1>8 DEF vars, Heard
<1> QED
  BY <1>1, <1>2, <1>3, <1>4, <1>5, <1>6, <1>7, <1>8 DEF Next, Fail, GiveUp, End

(* No source is passed over: the fix has heard the newest position sentence of all of
   them, and no other. *)
THEOREM NoSourceIsPassedOver == Spec => []EverySourceIsHeard
<1>1. Heard => EverySourceIsHeard
  BY DEF Heard, AllHeard, EverySourceIsHeard
<1> QED
  BY <1>1, HeardInit, HeardNext, InvariantHolds, PTL DEF Spec
================================================================================

# omakeel in TLA+

omakeel is a boat's navigation hub. It reads NMEA 0183 sentences from serial
ports, TCP links and recordings, keeps one fix and one table of AIS traffic,
serves both to any number of apps over a Unix socket, and can record what it
hears. This directory holds a model of it in TLA+, the configurations that TLC
checks, and proofs that TLAPS checks.

`src/...` below is a path in the repository. Every definition that models code
names its lines in `PROJECT.json` ("map").

## The system

| Part | Code | State | Operations |
|---|---|---|---|
| The fix | `src/fix.rs` | `Navigation`: when a sentence was last heard, whether the last said there is no fix, the last position, what RMC and GGA each said of it | `update` by a position sentence; `state`, a judgement of all this at an instant |
| The journal | `src/journal.rs` | for each source, what was written of it; the fix's status last written | `connected`, `source`, `fix`, `forget` |
| The hub's turn | `src/hub.rs` `run`, `Tracked` | each source's status, message and instants; the interval of the tick | event (line, status, connected), tick, accept; then, in every turn: judge the sources, judge the fix, write the news, offer the apps what changed |
| The recording | `src/hub.rs` `Recorder`, `record` | a queue of 4096 lines; whether it is behind, has lost a comment, has caught up; the thread's unsynced lines | `send`, `record`, `caught_up`; the thread's writes and syncs; drop, which waits for the disk |
| The apps' connections | `src/hub.rs` `Client` | for each app a queue and a task; the last state and targets sent | accept and hello; offer; write with a timeout; find that an app left |
| The socket | `src/hub.rs` `bind`, `lock`, `SocketFile` | the lock file, its flock, the socket file | lock, look, remove a stale socket, bind; remove and let go |
| AIS messages | `src/ais.rs` `Assembler` | up to four unfinished messages for each source | `feed` |
| AIS payloads | `src/ais.rs` `decode` | none | six-bit characters to a report |
| The traffic | `src/targets.rs` | a table of up to 1000 vessels | `update`, `expire`, `targets` with range and closest approach |
| The sources' readers | `src/source.rs` | a task or a thread for each source, a channel of 1024 events | connect, read lines, fail and retry, replay a recording by its stamps |
| NMEA sentences | `src/nmea.rs` | none | framing, checksum, fields |
| The wire protocol | `protocol/` | none | one JSON line to a message and back |
| stderr | `src/journal.rs` `Stderr` | a queue to a thread | `say`, which drops lines when full |
| `watch`, command line | `src/watch.rs`, `src/main.rs` | none | input and output |

How they meet:

- The hub is one task on a single-threaded runtime. It waits for an event, a
  connection or a tick, and then runs the rest of the turn without giving way:
  no app's task and no TCP or replay reader runs inside a turn. Only threads
  do: the recorder's, stderr's, and the readers of serial ports.
- Readers hand the hub events through one bounded channel: a reader whose event finds
  it full waits with it, and learns that the hub has gone by its end of the channel.
- The hub hands lines to the recorder's thread through a bounded queue and
  never waits for it but at exit. All it learns of the disk is whether the
  queue had room, and whether the thread is gone.
- The hub hands messages to each app's task through a bounded queue, and lets an
  app go when its queue is full or its task has ended.
- Processes meet on the file system, through `flock` and the path of the socket.

What is hard here: judgements that depend on *when* (a fix that goes stale with
nothing arriving, a poll that comes late); a few fields that must stand for a
whole history (the fix, the journal); lines written once an outage though a link
is tried every two seconds; queues that fill between two lines of one turn; a
disk that stalls, fails or loses power between a write and a sync; an exit that
races the last write; processes that start and die in any order on one path;
messages joined from sentences of which some never come. `PROJECT.json` lists
each such place ("hazards") with the properties that watch it.

## Modules

| Module | Models | Correspondence |
|---|---|---|
| `Navigation` | `Navigation::update`, `::state` | `nav` is the struct; `Update`, `Status`, `PartShown`, `State` are the two functions, an instant given as a parameter. Actions: `Hear`, `Advance`. |
| `NavigationHistory` | a reader of every sentence heard | adds `log` to `Navigation` and defines `ReadFix` from it alone. |
| `Journal` | `Journal::source` and the rest | operators from one `Seen` record to the next and the line written. No variables. |
| `RecordQueue` | `Recorder::send` | operators on the hub's side of the queue. Shared by `Hub` and `Recorder`. |
| `Hub` | `run`, `Tracked`, what readers may send | one action for each kind of event, for the tick and for a connection, each ending in `Turn`, the judgement that every turn makes; `SendNews` sends one comment, so that the recorder's thread may act between two. Uses `Journal`, `RecordQueue` and `Nav == INSTANCE Navigation`. |
| `Recorder` | the thread `record`, sync, drop, power cuts | one action for each call of the thread that may block. Uses `RecordQueue`. |
| `DurableLog` | what a recording promises | abstract: accept, secure a longer prefix, close whole. |
| `Clients` | `Client`, its task, the end of a turn | `EventTurn`, `Tick` and `Accept` are turns; `Take`, `Written`, `WriteFails` and `FindLeft` the task; `Leave` the app. |
| `SocketLock` | `bind`, `lock`, `SocketFile` | one action for each system call, for any number of processes; `Crash` at any step. |
| `Assembler` | `Assembler::feed` | one action for each branch of `feed`; ships, losses and noise around it. |
| `AssemblerHistory` | what came of each message | adds `came` to `Assembler`, the sentences that arrived, forgotten with their message. |
| `Traffic` | `Traffic::update`, `::expire`, which vessels are shown | `Hear`, `Tick`, `Advance`. |
| `Sources` | `serial`, `tcp`, `replay` and their channel | `at[s]` is where a reader is: opening, reading, pacing, sending, retrying, stopped; one action for each way on from there. `Take` and `Leave` are the hub. |
| `Links` | what the hub may count on from a source | abstract: connected, lines in order, failed, over and over; or lines and an end. Its steps have the guards of `link` in `Hub`. |
| `Nmea` | `parse`, `position`, `coord`, `utc` and their helpers | operators on a line as a sequence of characters. |
| `AisPayload` | `decode`, `Bits` | operators on a payload as a sequence of ASCII codes, down to the bits; `Decoded` is what is made of the bits. |
| `Approach` | `Vessel::target`, `velocity`, `offset`, `closest`, the order of `targets` | operators on a plane of whole steps. |
| `Wire` | `to_line`, `from_line` and what they call | operators on messages and JSON values. |
| `Inputs` | what may come to the four modules above | one step gives one input, and each property says what must be made of it. What a receiver or a transponder writes is laid out field by field there, and is what the operators are read against. |
| `*Proofs` | theorems | see below. |
| `MC*` | what TLC needs: sets of inputs, symmetry | |

`Hub`, `Clients`, `Assembler` and `Traffic` are four views of the same loop,
split by state: what a turn does in one neither reads nor writes the variables of
another, but through the inputs each view takes freely (any state may change in
any turn, any report may arrive, an app may connect at any time). A step of one
is a stutter or a free input of the others.

Conventions. Time is a count of units, and `Never` stands for `None`. A value is
told by where or when it came from (a speed by the instant of its sentence, a
payload by its message and number), which is what the properties distinguish. An
operator whose comment starts with *Mutation:* is a plausible bug; nothing in
the specifications uses it. It shows that a property can fail: put in place of
the definition that follows it, TLC finds the property violated
(`PROJECT.json`, "mutants").

Abstractions a reader should know of:

- A turn reads the clock twice, before and after its event; here it is one instant.
- A line is a position sentence, or "talk" of the GPS, or AIS. The hub tells the GPS
  talking by a first character that is no `!`, and reads a position of either
  (`nmea::parse` takes both): `HearPosition` has both. The counts of sentences and rejected lines are left out:
  only apps read them. That any turn may change the state is in `Clients`.
- A failed `accept` pauses the loop for 100 ms. That, and a long run of events
  before a tick, is `Lateness`: the longest the loop may come late to a tick. A series of
  failed accepts longer than that is not followed, and nothing is claimed of one.
- `Hub.link` is what a reader may do next (connect, fail, send, end), and is what
  `Links` says. `Sources` is what the readers and the channel do, and implements
  `Links` (`FollowsLinks`): the events the hub takes of a source come as `Hub` has
  them, whatever is in the channel meanwhile.
- `Sources` tells a line of a wire by its number among those read. A blank line is
  read past; one longer than `MAX_LINE` counts as several. A port or a link opens, or
  it does not: how a serial port is set up is left out, and so is the command line's
  way of writing a source. A thread asleep for `RETRY` cannot learn that the hub has
  gone, and so wakes, opens the port and finds out when it sends: `StopsWithHub` says
  that it waits for no more than one line after that.
- In `Hub` the lines of a recording are all alike; `Recorder` follows their order.
- `Recorder` begins with the file created; a refused `create` ends the program. A line
  is on the disk or not: one that a failure or a power cut left in half is left out.
- `Clients` writes a message whole, or fails having perhaps written part of it.
- `SocketLock` leaves out the making of the directory. What another program puts
  at the path is a file that is not a socket.
- `Assembler` limits a count to `MaxCount` where the code limits it to 9.
- `Traffic` leaves out a vessel's class, and what `Approach` has: ranges, closest
  approach and the order they give decide nothing about what is kept.
  Of vessels worth the least alike any may go, as the order of a HashMap has it.
- `Approach` is exact where the code uses floating point. The plane is counted in whole
  steps, directions and the width of a step of longitude come from tables (the sine and
  cosine of the code), distances are kept squared and quotients as pairs, so that
  nothing is lost but where the code rounds for an app. A bearing is left out, and so
  are the words for a ship's type and status.
- A danger is one whose closest approach is within `DANGER_CPA` *and* comes within
  `DANGER_TCPA`: a vessel near already, and nearing for longer than that, is none by
  the code, and `ClosestIsClosest` says so.
- `Nmea` keeps an angle as a number of parts of a minute, without the division; a speed,
  a course and a dilution are told by their fields. Numbers with an exponent or by name
  (`inf`), which the code parses or refuses and no receiver sends, are left out. So is the
  grave accent, of all that can be printed, and every byte that cannot.
- `Wire` starts from JSON values: the text of JSON is serde's. A number is counted in
  halves, and knows whether it was written as an integer. A target written as a list,
  which serde takes as well as an object, is left out. `MaxCount` stands for the largest
  integers of u32 and u64.

## Runs

| Run | Instance | Shows |
|---|---|---|
| `navigation` | 6 sentences, 4 heard, StaleAfter 2, 6 instants | the fix is what a reader of the whole history would give (`FixTellsHistory`); a receiver that said it has no fix is never ok; parts of a fix are bounded in age |
| `speed` | the same | **violated**: `SpeedIsCurrent` |
| `hub_journal` | a source, 3 error messages of which 2 are written, hold 1, a tick up to 1 late, 7 instants | each line once an outage, none withheld for good, quiet and shown on time, `connected` exact, recovery told |
| `hub_recording` | a source, a queue of 2, a thread that stalls and stops, 3 instants | when no comment is known to be lost, the comments taken tell how the fix and the source stand |
| `catch_up` | the same, StaleAfter 2 | **violated**: `CatchUpIsTold` |
| `recorder` | 5 lines, a queue of 2, sync every 2, 6 instants | order, sync on time, and `IsDurableLog`: the recorder implements `DurableLog`, with a clean exit that keeps all |
| `clients` | 2 apps, queues of 3, 3 states, 2 targets | nothing skipped, nothing after half a message; one that left is let go; nobody waits for ever |
| `socket_lock` | 3 processes, 7 files | one hub past the lock, the socket is the server's, only sockets are taken |
| `assembler` | 3 keys, room for 2, messages of up to 3 sentences, 3 messages, 1 senseless sentence | what is decoded goes from its first sentence to its last, as many as they say, on one key (`NeverWithAHole`); no two unfinished messages are alike; what lost sentences let join passes over nothing that came (`JoinedOverLossOnly`); what arrives whole is joined |
| `traffic` | 3 vessels, room for 2, lost after 2, 3 instants after the first, 2 fields of 2 values, said one or both at a time | who is kept, who makes room, when the lost go; while a vessel is kept each field is what it last said of it, and nothing said before it left is known when it is back (`SaysItsLast`) |
| `sources` | 2 sources of every pair of kinds, room for 1 event, 2 lines and a failure of a wire, a recording of 3 stamps that start late, go on and go back before the first, with a record between them that is none | the channel loses and reorders nothing of a source (`FollowsLinks`); no line early (`NoneEarly`); every reader lets go of a hub that has gone (`StopsWithHub`); none is kept waiting (`CarriesOn`) |
| `inputs` | 2 sentences with each character changed for each other; angles at, below and above their limits with the point at 10 places; every status and quality a receiver gives its fix, and every mode; the first and last days of months, one before and one after, and times of day to and past the leap second; AIS messages of every type read, cut at every bit; 23 messages to apps, one key of one of their objects given 16 other values or none; pairs of vessels at 12 places with 16 motions, 3 ages; tables of 3 vessels at 3 ranges, in every order | what is read is what was sent, or it is refused (`DamageIsCaught`, `PositionAsSent`, `WholeOrNothing`, `HubIsRead`, `NeverMisread`); the closest approach is one (`ClosestIsClosest`); apps are sent one order (`OneOrder`) |

Why these bounds. The code compares times only by differences against a
threshold, so a threshold of one or two units with room for a difference below,
at and above it meets every comparison; horizons are two to three thresholds, long
enough for an outage, a recovery and a second outage. Queues of two or three are
the least that can be empty, part full and full; a queue of an app must hold the
first three messages, as the real one does. One more message, vessel or
process than there is room for makes the limits bite. With room for one event, two
readers meet a full channel at every step, and one can wait behind the other; one
failure of a wire is enough for a retry, and a second source fails or plays beside it.
`inputs` has no behaviours longer than a step: what matters is that its inputs lie on
both sides of every comparison in the code they go through. In `hub_journal` three
messages with room for two make the limit of messages bite. In `traffic` a field can be said again,
otherwise, alone or not at all, and there is time to be lost and to come back. In
`assembler` a key can be used by three messages, of which the first loses its end and the
next its beginning. `SocketLock` needs
three processes: one with the lock, one with the lock file open, one afresh.
Deadlock is not checked where a bound ends a behaviour (`CHECK_DEADLOCK FALSE`);
`clients` has no such end and is checked.

Symmetry is used for processes, keys, vessels, values and error messages, in runs without
liveness properties.

Fairness. `Clients` and `Sources` need it. In `Clients` the tick comes every second
(`WF` of `Tick`); a task that can run does (`WF` of `Take`); a write ends, by success,
failure or its timeout (`WF` of either); and `select!` picks its branches at random, so
a task that finds again and again that its app has left takes that branch in the
end (`SF` of `FindLeft`). Nothing is assumed of an app: it may stall for ever,
which is what the timeout is for. In `Sources` the hub takes events as long as it runs
and time passes (`WF` of `Take` and `Advance`); a reader goes on by itself where
nothing outside holds it (`WF` of `Moves`): an open ends one way or the other, a file is
read, a timer that is over and a hub that has gone are noticed. Room in the channel is
given first come, first served (tokio's channel waits on a fair semaphore), so a reader
that asks again and again gets its turn (`SF` of `Put`). Nothing is assumed of a wire,
which may be silent for ever, nor that a hub ever goes.

## What the runs found

Two runs have a property violated, which is each time what the documentation says, and
what the code does not do in a corner:

- `speed`: README says that speed and course are never passed off as current once the
  GPS stopped sending them. The RMC's part is dropped when it is `STALE_AFTER` older
  than the newest *position*, and that position makes an ok fix until it is
  itself `STALE_AFTER` old. With a GGA after the last RMC, an ok fix carries a speed
  of up to twice `STALE_AFTER`: `PartsBounded` is that bound, and is proved.
- `catch_up`: docs/protocol.md says that after a dropped comment everything is
  written again once the recording catches up. The hub notices room in the queue
  only when it sends another line. With nothing arriving and nothing changing, the
  recording stays as it was. What does hold is `RecordingTellsAll`.

Two more places where documentation and code differ were met while modelling, and are told
here:

- src/docs/protocol.md:137 says of a message in several sentences "If one of its
  sentences is lost, so is the message." When the last sentences of one and the first of
  the next with its id, channel and count are lost, `Assembler::feed` (src/src/ais.rs:108)
  joins the rest of the two and decodes them as one: the first sentence of message 1 and
  the second of message 2, for one. What does hold, and is checked and proved, is that
  nothing that came is passed over for it: `JoinedOverLossOnly`.
- src/README.md:97 says of a stale fix "`· no sentences` means nothing was arriving from
  anywhere", and :100 "`· sentences still arriving` means lines kept coming without a
  position in them". `last_position` moves at any RMC or GGA sentence (src/src/hub.rs:146), also
  one whose coordinates cannot be read and which is no position to the fix: a receiver
  that keeps sending those has a fix that goes stale with `no sentences`.

## Proofs

The proofs are for every value of the constants, under the named assumptions of
the module (positive thresholds, inputs of their type, no process with the name
that stands for nobody). A module's bounds on counters (`Horizon`, `MaxState`, `MaxLines`
and the like) are constants too, so that what is proved holds however far they are put.

- `NavigationProofs`. Invariant: `IInv == TypeOK /\ InOrder`. The
  safety invariants are not inductive: that a lost receiver is never ok depends on
  the position being no younger than the last sentence heard. `InOrder` says so:
  clock, last sentence, position, parts come in that order, and one part is as young
  as the position. `UpdateInOrder` is the lemma about `Navigation::update`;
  `NextInv` has one step for each action; each property then follows from `IInv`
  at one instant, except `OnlyAPositionMakesOk`, which is about a step
  (`StepMakesOk`: time only makes a fix older, and a sentence that is not a usable
  position leaves `at` as it was, and `lost` set if it was).
- The same module proves `FixTellsHistory` for histories of any length, without
  induction over them: `Summary` says which sentence of the history each field of
  `Navigation` was taken from (the newest of its sort), and a sentence more either is
  the newest of a sort or leaves it.
- `SocketProofs`, about `SocketLock`. Invariant: `LockInv == LockTypeOK /\ LockIsOne /\
  SeenIsASocket /\ ServedAtPath`. `OneHub` alone is not inductive: two hubs could hold locks of
  two different files. `LockIsOne` says that every hub that has started has the one
  lock file open, since nobody removes it, and that one past the lock holds its
  lock. `SeenIsASocket` carries what a hub saw at the path to the step that removes
  it: others may only add a file where there is none. Lemmas `OpenLockInv`,
  `TakeLockInv`, `HolderInv` (every step of the holder) and `EndsInv` (every way a
  hub ends) are one for each kind of step.
- `TrafficProofs`. `IInv == TypeOK /\ InTime /\ SaysItsLast /\ Untold`: an entry is as old as the
  last report of its vessel and its position as the last position, and what is shown
  was not lost at the last tick, which `Lateness` bounds; what is known of it is what it
  has said since it came in, and of one outside nothing (`Untold`). `UpdateRoom` reads
  `Traffic::update` as a report taken by a table with room for it, or left. Who is kept
  takes two more arguments on top of that invariant. `AllKept`: a table of no more
  than `MAX_VESSELS` vessels that are about is never full for one of them, so nobody makes
  room (`AboutInTable`, `KeptInTable`, `TakenInTable`). `PlacedKept`: when the vessel that
  makes room has a position, so has every other of the table, and each was heard no
  earlier (`LeastHasManyAfter`); together with the newcomer these are as many others as
  there is room for, which is what the property excludes. That a full table has a least
  entry rests on the order of the naturals being well-founded (`LeastOfMany`).
- `RecorderProofs`. `IInv == Types /\ AtWork /\ SinceTheFirst /\ NothingReordered`: what
  the thread has in hand in each of its states, that a line unsynced was written no
  earlier than `since`, and the order of lines. Facts about sequences come first
  (`PrefixByElement` and the lemmas after it). `StepRefines` maps every step of the
  recorder to a step of `DurableLog` or to none: a send that finds room accepts, a sync
  secures, the exit of a thread that is done closes, and everything else, a power cut and
  a failed disk among it, leaves what is safe as it was.
- `HubProofs`. `IInv == Types /\ InTime /\ ConnectedIsExact /\ Whole /\ Sound of every
  source`. No property of the journal is inductive, for `Journal::source` looks at what it
  remembers of a source and not at what it wrote. `Sound` says what the two have to do
  with each other: that the errors, the silence and the reach remembered are those of the
  outage's lines, each there once (`Remembers`), and what a source's status says of both.
  What is due at a time is said as of the last tick (`tickDue - TickEvery`), since between
  two ticks nothing is judged but by an event's turn. `Ready` is the same with an event on
  the source and not yet judged, so that a turn is two lemmas: an event of each kind
  leaves a source `Ready`, and `Judged` with `SourceNews` takes `Ready` to `Sound`. `Whole`
  is about the recording: `Standing` of what it was told so far, or will have been with
  this turn's line that still waits in `outbox`, and it holds whenever no comment is known
  to be lost. A comment that finds the queue full ends that until everything has been
  forgotten and written again. `RecoveryIsTold` is about a turn, from `Sound` before it;
  `StepOfFix` maps every step to one of `Navigation` or to none. That no source is passed over is an invariant
  of its own beside `IInv`, `Heard`: every position heard is of the past.
- `SocketProofs`, about `Clients`. `IInv`: an app's queue fits, at most one message is in hand, and one
  that was cut short belongs to a task that has ended. Every turn of the hub, and every
  step of a task, leaves what a torn connection received as it was. `NobodySkips` has an
  invariant of its own, `InStep`: everything an app was sent, received or in hand or
  queued, is unbroken and ends with the versions the hub last sent (`UpToDate`), and a
  task that goes on moves messages from one place to the next without changing the whole.
- `AssemblerProofs`. `IInv == TypeOK /\ Sound(pending) /\ JoinedWhole(joined) /\ Follows
  of every key`, and every message on the air is one. `Sound`, that what is in hand is the
  beginning of as many sentences as it awaits, is what makes `JoinedWhole` of what is
  decoded, and the two are `NeverWithAHole`.
  `ArrivedIsJoined` needs `Follows`: the message being sent on a key, when all of it came so
  far, is in hand up to its last sentence, and no more stand behind it than were started
  since, so that fewer than `PENDING` of these cannot have pushed it out. What
  `retain`, `RemoveAt` and `Tail` do to places in a sequence comes first, as lemmas.
  `JoinedOverLossOnly` is of `AssemblerHistory`, with `HInv`: what is in hand has every
  sentence that came of the messages it is made of, and of the one being sent on its key
  that it may go on with (`PassesNoneOver`). The second half is what makes it inductive: it
  says that a sentence that came and is not in hand has taken what was in hand out.
  `FedSet` says what `feed` leaves in hand as a set, whatever the places.
- `SourcesProofs`. `IInv` says, while the hub is there, for every source: the events of it
  in the channel may be told in their order after what was told (`Legal`); the reader is
  where one may be whose newest event is the last of them (`GoesOn`); the lines let go of
  a recording are due (`Timely`). Putting one in extends the chain at its end and taking one
  shortens it at its head (`PutIsLegal`, `TakeIsLegal`), and neither disturbs another
  source's (`PutOfAnother`, `TakeOfAnother`). Each step of a reader goes on from where it
  was (`StepKeeps`). `Take` is then a step of `Links`, every other step none of its.
  Nothing is claimed of the channel once the hub has gone: it is dropped with it.
- `InputsProofs`. `Inputs` has one step, which picks an input, so that each property is
  its own invariant and the work is in the operators: whatever is picked, the property holds
  of it. Six arguments, of the modules that have no state.
  - *The checksum* (`LineDamageIsCaught`). An exclusive-or is stated by parity, bit by bit:
    a bit is set that an odd number of the bytes has. Two characters differ in a bit
    (`CodesTell`, `BitsOfByte`), the bearers of that bit are then one more or one less
    (`BearersDiffer`), and the parity is another (`OneChangeIsSeen`). `DataIs` and `DamageOf`
    go through the places a change may come at: the first character, the data, the star, the
    two digits of the checksum, where one may become the same digit in lower case. A star
    put into the data moves nothing, for the last star counts, and a star that is lost
    leaves the line without one in its place.
  - *The position* (`PositionsAreRead`). A field has two digits or three, and `WholeIs` and
    `PaddedReads` say what number they tell. `ThreeJoined` is what stands where when three
    fields are joined, `CutIs` and `CutsAgree` that a cut of that is the field it was.
    `WithPointIs` puts the point among the digits: behind the minutes the angle is the one
    sent (`PointInPlace`), and anywhere else one of the three cuts that `coord` makes is
    not of digits, or what is left does not begin with a point (`MisplacedPoint`).
    `DaysAre` is the calendar, `RmcIsRead` and `GgaIsRead` which field is which.
  - *The AIS messages* (`PayloadsAreRead`). From the bits up. `BitsReadBack` follows a number
    through its bits, at every bit of the way in the same relation to its halves and to the
    powers of 2: `UnsignedReads` and `SignedReads` are its two ends. `PackedReads` takes bits to
    characters and back: `SixApart` says that six bits are told from the number they make, and
    what fills the last character up is what is left off again. `MessageBitsAre` says which
    bits of a message are which field's, from the ends of the fields being in order
    (`EndsInOrder`), so that the first bits of it have each field that ends within them
    (`CutHasField`), and `FieldIsTold` what is read there: a number, a number with a sign, or
    a text (`TextReads`: the first @, the last character that is no space). `ClassATold` and
    the five like it are the six layouts with their offsets worked out, which is where a
    wrong offset of `decode` would show; `PlaceIsRead`, `SizeIsRead` and `ParticularsAreRead`
    are the reports; and `ClassAReads` and the five like it put a message together, with the
    length from which it is read (`ReadOrNot`).
  - *The closest approach* (`ApproachIsClosest`). The square of the distance is a
    quadratic of time. `SquareCompleted` and `NeverCloser` are its algebra, in integers, as
    the model has it: a quotient is a pair, and nothing is divided. `TurnedTogether` is the line
    where longitudes begin anew: a turn of the world is a remainder, and the same one
    for both vessels.
  - *The one order* (`TableHasOneOrder`). `Sorted` puts an entry at the place that counts those
    before it. `BeforeIsAnOrder` is the order; no two entries have as many before them
    (`PlaceFollows`), as many places as entries are thus all taken (`PlacesAreTaken`), and
    how many are before one does not depend on the order of the table
    (`PlaceInAnyOrder`), a bijection.
  - *The messages* (`MessagesAreRead`, `MessagesAreNeverMisread`). `HelloLine`, `StateLine` and
    `TargetsLine` say what is on the line of each message, key by key; `WrittenReads` that a
    value reads back from what serde writes of it; `SourceAsSent`, `FixAsSent` and
    `TargetAsSent` that a structure does. Of an altered line, `AlteredLineIs` says which
    keys are as they were, and `PlaceIs` and `SaidIs` what any object at all is read as.
    `AlteredFix`, `AlteredSource` and `AlteredTarget` are then what one key costs the
    object it is in, and `AlteredState`, `AlteredSources` and `AlteredTargets` what that
    object costs the message: a source without a name is left out alone
    (`FlattenedWithout`). `filter_map` (`FlattenSeq`, a recursive function of
    the community modules) is `Flattened`, by the shortest list for which it would be
    false.

The type invariant is proved of `Navigation`, `SocketLock`, `Traffic`, `Recorder`, `Clients`,
`Hub` and `Assembler`, and the types of `Sources` with its invariant; so are `NofixIsFresh`,
`PartsTogether` and `OnlyAPositionMakesOk` of `Navigation`. Every safety invariant and every
refinement that the passing runs check is proved. Two properties of `Hub` are only proved, for any
number of sources: that the one fix follows `Navigation` whatever the sources do
(`FixIsNavigation`), and that it passes none of them over (`EverySourceIsHeard`). The hub with
one source, which the runs can follow far enough, would show little of either.

What is assumed of the inputs is said in `Inputs`. `SentencesAssumption`: the data of a line
is of characters and begins with an address. `PositionsAssumption`: what is sent fits the
digits that its field has room for, and a year is one that two digits can tell, from 1980 to
2079. `AisAssumption`: a message is of a type that is read, type 24 in one of its two parts,
and has a value for each field that is read: a text of six-bit characters, a place in the
world or the value that says there is none, a course of up to 360 degrees or none, a heading of
up to 359 or none, and any number else that its field has room for. `TracksAssumption` and `TableAssumption`:
directions, widths, speeds, ages and ranges are numbers, of any size. `MessagesAssumption`: a
message is one of the Rust types can hold, a fix but `none` may have a place, the place
is in the world or a number of it is not finite, a target has two coordinates or none
(`Vessel::target` sets both from one report), and a JSON text is nothing but what it says. The
altered values of `NeverMisread` are any JSON values at all: of them only the last of these
is assumed.

The prover cannot use induction over data, nor what a selection or a fold makes of a
sequence. Where a definition was of that kind it is stated by places instead, and means the
same: `Assembler.Without`, `Sources.Stamp` and `Clients.NothingSkipped` rank or quantify the
places of a sequence, and `Hub.outbox` is a set, sent in the order of `NextNews`;
`Nmea.Computed` is by the parity of each bit, `Nmea.Whole` and `TenTo` are recursive functions,
of which what they are for two digits and three can be proved place by place; so are
`AisPayload.Uint`, `TwoTo` and the bits of `Inputs.BitsOf`, which the well-founded naturals
reach for every length (`StepsExist`, `StepsAreOne`); and `Wire.WithoutNulls` is `without_nulls` called
as deep as a message goes, a list of objects under a key, and no deeper. Where a
least or a greatest is needed it comes from the naturals being well-founded, as a relation
(`GreatestOf`, `LeastOfMany`).

Only model-checked: the liveness of `Clients` and `Sources` (no prover here reasons
about fairness), of which `ThreadsStayAway` is the half of `StopsWithHub` that is about a
step.

## Not modelled

- `watch` reads messages from the socket and prints them: input, output and wording.
- The command line: reads the options, and what it refuses never starts a hub. With it,
  how a source is written (`Spec` in src/src/source.rs) and which baud rates there are.
- Lines on stderr: a bounded queue to a thread, which drops what finds it full. It is
  `RecordQueue` without its memory of what was lost; no other part reads its state.
- Within the parts that are modelled: the setting up of a serial port (it opens or it
  does not), the making of the socket's directory and of the recording's file, the
  wording of comments, words for codes (ship types, statuses), a bearing, counts that
  nothing reads, and the text of JSON.
- src/src/protocol.rs only re-exports the protocol's crate; its lines are tests, and so
  are those at the end of every other file of src/src.

## What could come next

The bearing, and with it a plane that is not one of whole steps, is the largest part of the
traffic's arithmetic left out. A course or a heading that no transponder should send reads as
none; the messages of `Inputs` do not have them yet.

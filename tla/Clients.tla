-------------------------------- MODULE Clients --------------------------------
(***************************************************************************)
(* The apps on the hub's socket: `Client`, its writer task, and the end of *)
(* each turn of the hub's loop, which offers every app what has changed    *)
(* (src/hub.rs).                                                           *)
(*                                                                         *)
(* A state message is a version of the state, a targets message a version  *)
(* of the traffic.  The runtime is single-threaded, so a turn of the hub   *)
(* and a step of a task never overlap; a write to a socket may take any    *)
(* time, and give up at WRITE_TIMEOUT.                                     *)
(***************************************************************************)
EXTENDS Integers, SequencesExt

CONSTANTS
    Apps,        \* the apps that may connect
    Queue,       \* QUEUE: messages waiting for an app
    MaxState,    \* bound: versions of the state
    MaxTargets   \* bound: versions of the traffic

VARIABLES
    state,       \* last_state
    targets,     \* last_targets
    clients      \* each app: the hub's Client for it, its task and its end of the socket

vars == <<state, targets, clients>>

(* Hello, the state and the targets are all offered in the turn that accepts an
   app, before its task first runs. *)
ASSUME ClientsAssumption ==
    /\ Queue \in Nat /\ Queue >= 3
    /\ MaxState \in Nat /\ MaxTargets \in Nat

-----------------------------------------------------------------------------
Message(kind, version) == [kind |-> kind, version |-> version]
Hello == Message("hello", 0)

(* held: in the hub's list.  fresh, queue: Client.fresh and the channel behind
   Client.tx.  task: selecting between the queue and the app's end; writing a
   message (in hand); ended.  open: the app has not closed its end.  received:
   the messages written whole to its socket; torn: part of one came after them. *)
Away == [held |-> FALSE, fresh |-> FALSE, queue |-> <<>>, task |-> "ended",
         hand |-> <<>>, open |-> FALSE, received |-> <<>>, torn |-> FALSE]

(* Client::spawn and the hello. *)
Spawned == [held |-> TRUE, fresh |-> TRUE, queue |-> <<Hello>>, task |-> "selecting",
            hand |-> <<>>, open |-> TRUE, received |-> <<>>, torn |-> FALSE]

Init ==
    /\ state = 0 /\ targets = 0
    /\ clients = [a \in Apps |-> Away]

-----------------------------------------------------------------------------
(* Drop for Client: the task is aborted, and the queue goes with it.  A message it
   was writing may be cut short. *)
LetGo(c) ==
    [c EXCEPT !.held = FALSE, !.fresh = FALSE, !.task = "ended", !.queue = <<>>,
              !.hand = <<>>, !.torn = @ \/ c.hand # <<>>]

(* Mutation: a message that does not fit is skipped, and the app kept. *)
OfferSkips(c, messages) ==
    CASE c.task = "ended" -> LetGo(c)
      [] c.task # "ended" /\ Len(c.queue) + Len(messages) <= Queue ->
            [c EXCEPT !.fresh = FALSE, !.queue = @ \o messages]
      [] c.task # "ended" /\ Len(c.queue) + Len(messages) > Queue -> [c EXCEPT !.fresh = FALSE]

(* Mutation: an app that has left is found out at the next message to it. *)
OfferBlindly(c, messages) ==
    CASE messages = <<>> -> c
      [] messages # <<>> /\ c.task # "ended" /\ Len(c.queue) + Len(messages) <= Queue ->
            [c EXCEPT !.fresh = FALSE, !.queue = @ \o messages]
      [] messages # <<>> /\ (c.task = "ended" \/ Len(c.queue) + Len(messages) > Queue) -> LetGo(c)

(* The end of a turn for one app: let go when its task has ended, even when there
   is nothing new, or when a message does not fit in its queue. *)
Offer(c, messages) ==
    IF c.task # "ended" /\ Len(c.queue) + Len(messages) <= Queue
    THEN [c EXCEPT !.fresh = FALSE, !.queue = @ \o messages]
    ELSE LetGo(c)

(* Mutation: an app that connects waits for the next change of each. *)
DueWhenChanged(c) ==
    (IF state' # state THEN <<Message("state", state')>> ELSE <<>>)
        \o (IF targets' # targets THEN <<Message("targets", targets')>> ELSE <<>>)

(* What an app is due: what has changed this turn, or both messages when it has
   had neither. *)
Due(c) ==
    (IF c.fresh \/ state' # state THEN <<Message("state", state')>> ELSE <<>>)
        \o (IF c.fresh \/ targets' # targets THEN <<Message("targets", targets')>> ELSE <<>>)

(* The end of a turn, its event having left the clients at cs: retain_mut. *)
EndOfTurn(cs) ==
    clients' = [a \in Apps |-> IF cs[a].held THEN Offer(cs[a], Due(cs[a])) ELSE cs[a]]

StateMayChange == state' \in {state, state + 1} /\ state' <= MaxState

(* A source's event. *)
EventTurn ==
    /\ StateMayChange /\ UNCHANGED targets
    /\ EndOfTurn(clients)

(* The tick, which also sends the traffic when it has changed. *)
Tick ==
    /\ StateMayChange
    /\ targets' \in {targets, targets + 1} /\ targets' <= MaxTargets
    /\ EndOfTurn(clients)

(* An app connects. *)
Accept(a) ==
    /\ ~clients[a].held
    /\ StateMayChange /\ UNCHANGED targets
    /\ EndOfTurn([clients EXCEPT ![a] = Spawned])

(* The task is over: its end of the queue goes with it. *)
Ended(c) == [c EXCEPT !.task = "ended", !.queue = <<>>, !.hand = <<>>]

(* A step of one app's task, or of the app, leaves the rest alone. *)
Becomes(a, c) == clients' = [clients EXCEPT ![a] = c] /\ UNCHANGED <<state, targets>>

(* The task takes a message off its queue. *)
Take(a) ==
    LET c == clients[a]
    IN /\ c.task = "selecting" /\ c.queue # <<>>
       /\ Becomes(a, [c EXCEPT !.task = "writing", !.hand = <<Head(c.queue)>>,
                               !.queue = Tail(c.queue)])

(* write_all succeeds. *)
Written(a) ==
    LET c == clients[a]
    IN /\ c.task = "writing" /\ c.open
       /\ Becomes(a, [c EXCEPT !.task = "selecting", !.received = @ \o c.hand, !.hand = <<>>])

(* Mutation: a write that fails is passed over. *)
WriteFailsOn(a) ==
    LET c == clients[a]
    IN /\ c.task = "writing"
       /\ Becomes(a, [c EXCEPT !.task = "selecting", !.hand = <<>>, !.torn = TRUE])

(* write_all fails, or takes WRITE_TIMEOUT: the task ends, and the hub finds the
   channel closed. *)
WriteFails(a) ==
    LET c == clients[a]
    IN /\ c.task = "writing"
       /\ Becomes(a, [Ended(c) EXCEPT !.torn = TRUE])

(* The task reads the end of what the app sends: it has left. *)
FindLeft(a) ==
    LET c == clients[a]
    IN /\ c.task = "selecting" /\ ~c.open
       /\ Becomes(a, Ended(c))

(* The app closes its end. *)
Leave(a) ==
    LET c == clients[a]
    IN /\ c.open
       /\ Becomes(a, [c EXCEPT !.open = FALSE])

Next ==
    \/ EventTurn
    \/ Tick
    \/ \E a \in Apps : \/ Accept(a)
                       \/ Take(a) \/ Written(a) \/ WriteFails(a) \/ FindLeft(a)
                       \/ Leave(a)

(* The tick comes every second; a task runs when it can, its reads as well as its
   writes (select! is fair), and no write lasts longer than WRITE_TIMEOUT. *)
Fairness ==
    /\ WF_vars(Tick)
    /\ \A a \in Apps : /\ WF_vars(Take(a))
                       /\ WF_vars(Written(a) \/ WriteFails(a))
                       /\ SF_vars(FindLeft(a))

Spec == Init /\ [][Next]_vars /\ Fairness

-----------------------------------------------------------------------------
(* What an app has been sent whole, is being sent, and has waiting for it. *)
Sent(c) == c.received \o c.hand \o c.queue

TypeOK ==
    /\ state \in 0..MaxState /\ targets \in 0..MaxTargets
    /\ \A a \in Apps :
        /\ clients[a].task \in {"selecting", "writing", "ended"}
        /\ clients[a].held \in BOOLEAN /\ clients[a].open \in BOOLEAN
        /\ Len(clients[a].queue) <= Queue
        /\ Len(clients[a].hand) <= 1

(* Between a message and the next of its kind, no version is missing. *)
Consecutive(ms) ==
    \A i, j \in DOMAIN ms :
        /\ i < j /\ ms[i].kind = ms[j].kind
        /\ \A k \in DOMAIN ms : i < k /\ k < j => ms[k].kind # ms[i].kind
        => ms[j].version = ms[i].version + 1

(* The last of its kind. *)
Newest(m, ms) ==
    \E i \in DOMAIN ms : ms[i] = m /\ \A j \in DOMAIN ms : i < j => ms[j].kind # m.kind

(* An app first gets the hello, then the state, then the traffic; and after that
   every version of either there has been since, each once and in order, up to
   the current one.  An app that cannot keep up is let go, never skipped ahead. *)
NothingSkipped ==
    \A a \in Apps :
        LET c == clients[a]
            sent == Sent(c)
        IN /\ \A i \in DOMAIN sent : i <= 3 => sent[i].kind = <<"hello", "state", "targets">>[i]
           /\ Consecutive(sent)
           /\ c.held /\ c.task # "ended" =>
                /\ Len(sent) >= 3
                /\ Newest(Message("state", state), sent)
                /\ Newest(Message("targets", targets), sent)

(* A message cut short by a timeout or by being let go is the last an app gets
   on that connection: a reader never sees another run on from half a line. *)
NothingAfterTorn ==
    [][\A a \in Apps : clients[a].torn =>
          \/ clients'[a].received = clients[a].received
          \/ ~clients[a].held /\ clients'[a].held]_vars

(* An app that has left is let go, even when there is never anything new to send
   it and even if the task is stuck writing to it. *)
LeftIsLetGo == \A a \in Apps : clients[a].held /\ ~clients[a].open ~> ~clients[a].held

(* Nobody is kept waiting for ever: the current state reaches every app the hub
   holds, or the app is let go. *)
Delivered ==
    \A a \in Apps : \A v \in 0..MaxState :
        clients[a].held /\ state = v ~>
            \/ ~clients[a].held
            \/ \E i \in DOMAIN clients[a].received : clients[a].received[i] = Message("state", v)
=============================================================================

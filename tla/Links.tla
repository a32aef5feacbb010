--------------------------------- MODULE Links ---------------------------------
(***************************************************************************)
(* What the hub may count on from a source, as the guards of its actions   *)
(* do (`link` in Hub): told only of what it has taken from the channel, a   *)
(* serial or TCP source is connected, sends lines and fails, over and over; *)
(* a recording sends lines and is then done.  Lines come in the order they  *)
(* were read and none is left out.                                         *)
(***************************************************************************)
EXTENDS Naturals

CONSTANT Sources   \* the sources of the command line

VARIABLES
    kind,   \* of each, "serial", "tcp" or "replay"
    told    \* of each, the kind of its last event and the number of its last line

Wires == {s \in Sources : kind[s] # "replay"}
Replays == Sources \ Wires

Nothing == [last |-> "nothing", line |-> 0]

Tell(s, last, line) ==
    /\ told' = [told EXCEPT ![s] = [last |-> last, line |-> line]]
    /\ UNCHANGED kind

Down(s) == s \in Wires /\ told[s].last \in {"nothing", "error"}
Up(s) == s \in Wires /\ told[s].last \in {"connected", "line"}
Playing(s) == s \in Replays /\ told[s].last \in {"nothing", "line"}

Connect(s) == Down(s) /\ Tell(s, "connected", told[s].line)
Hear(s) == (Up(s) \/ Playing(s)) /\ Tell(s, "line", told[s].line + 1)
Fail(s) == (Down(s) \/ Up(s) \/ Playing(s)) /\ Tell(s, "error", told[s].line)
End(s) == Playing(s) /\ Tell(s, "ended", told[s].line)

Init ==
    /\ kind \in [Sources -> {"serial", "tcp", "replay"}]
    /\ told = [s \in Sources |-> Nothing]
Next == \E s \in Sources : Connect(s) \/ Hear(s) \/ Fail(s) \/ End(s)
Spec == Init /\ [][Next]_<<kind, told>>
================================================================================

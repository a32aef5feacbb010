------------------------------- MODULE SocketProofs -------------------------------
(***************************************************************************)
(* Proofs about the hub's socket: about SocketLock, one hub to a socket,   *)
(* for any number of processes and files, and about Clients, what the apps *)
(* that connect to it are promised, for every set of apps and length of    *)
(* their queues.                                                           *)
(***************************************************************************)
EXTENDS Clients, SocketLock, SequenceTheorems, TLAPS

-----------------------------------------------------------------------------
(* SocketLock.  The lock file is never taken away, so every process that has one open
   has the same one open, and flock admits one of them.  Everything bind and SocketFile
   do to the path of the socket is done by that one. *)

(* Every open lock file is the one at the path, and a hub past the lock holds it. *)
LockIsOne ==
    \A h \in Hubs :
        /\ hubs[h].at # "idle" => lockFile # None /\ hubs[h].fd = lockFile
        /\ Entitled(h) => flock[lockFile] = h

(* What a hub has seen at the path stays a socket until it removes it. *)
SeenIsASocket == \A h \in Hubs : hubs[h].at = "seen" => sockFile.socket

LockInv == LockTypeOK /\ LockIsOne /\ SeenIsASocket /\ ServedAtPath

-----------------------------------------------------------------------------
(* Two hubs past the lock would both hold the lock of the one file. *)
LEMMA OneFromLock == LockInv => OneHub
<1> SUFFICES ASSUME LockInv, NEW h \in Hubs, NEW k \in Hubs, Entitled(h), Entitled(k)
             PROVE  h = k
  BY DEF OneHub
<1>1. flock[lockFile] = h /\ flock[lockFile] = k
  BY DEF LockInv, LockIsOne
<1> QED
  BY <1>1

(* LockInit: no process has started. *)
LEMMA LockInitInv == LockInit => LockInv
<1> SUFFICES ASSUME LockInit PROVE LockInv
  OBVIOUS
<1>1. LockTypeOK
  BY MaxFilesAssumption DEF LockInit, LockTypeOK, Nothing, At, None, Idle, Steps
<1>2. LockIsOne /\ SeenIsASocket /\ ServedAtPath
  BY DEF LockInit, LockIsOne, SeenIsASocket, ServedAtPath, Entitled, Serving, Idle
<1> QED
  BY <1>1, <1>2 DEF LockInv

(* A hub that ends leaves every other's lock and place as they were. *)
LEMMA EndsInv ==
    ASSUME LockInv, NEW h \in Hubs, Ends(h), UNCHANGED <<files, lockFile, sockFile>>
    PROVE  LockInv'
<1>1. LockTypeOK'
  BY MaxFilesAssumption DEF LockInv, LockTypeOK, Ends, Idle, None, Steps
<1>2. \A k \in Hubs : hubs'[k] = IF k = h THEN Idle ELSE hubs[k]
  BY DEF LockInv, LockTypeOK, Ends
<1>3. LockIsOne'
  <2> SUFFICES ASSUME NEW k \in Hubs
               PROVE  /\ hubs'[k].at # "idle" => lockFile # None /\ hubs'[k].fd = lockFile
                      /\ Entitled(k)' => flock'[lockFile] = k
    BY DEF LockIsOne
  <2>1. CASE k = h
    BY <2>1, <1>2 DEF Idle, Entitled
  <2>2. CASE k # h
    <3>1. hubs'[k] = hubs[k]
      BY <2>2, <1>2
    <3>2. hubs[k].at # "idle" => lockFile # None /\ hubs[k].fd = lockFile
      BY DEF LockInv, LockIsOne
    <3>3. Entitled(k) => flock[lockFile] = k /\ lockFile \in 1..MaxFiles
      BY MaxFilesAssumption DEF LockInv, LockIsOne, Entitled, LockTypeOK, None
    <3>4. Entitled(k) => flock'[lockFile] = k
      BY <3>3, <2>2 DEF LockInv, LockTypeOK, Ends
    <3> QED
      BY <3>1, <3>2, <3>4 DEF Entitled
  <2> QED
    BY <2>1, <2>2
<1>4. SeenIsASocket' /\ ServedAtPath'
  BY <1>2 DEF LockInv, SeenIsASocket, ServedAtPath, Serving, Idle, At
<1> QED
  BY <1>1, <1>3, <1>4 DEF LockInv

(* A hub past the lock that serves or not is the only one that may: what it does to
   the path of the socket disturbs no other. *)
LEMMA HolderInv ==
    ASSUME LockInv, NEW h \in Hubs, Entitled(h), UNCHANGED <<lockFile, flock>>,
           files' \in 0..MaxFiles, sockFile' \in [file : 0..MaxFiles, socket : BOOLEAN],
           NEW at \in Steps \ {"idle", "opened"}, NEW socket \in 0..MaxFiles,
           hubs' = [hubs EXCEPT ![h] = [@ EXCEPT !.at = at, !.socket = socket]],
           at = "serving" => sockFile' = At(socket, TRUE),
           at = "seen" => sockFile'.socket
    PROVE  LockInv'
<1>1. LockTypeOK'
  BY DEF LockInv, LockTypeOK
<1>2. \A k \in Hubs : /\ hubs'[k].fd = hubs[k].fd
                      /\ hubs'[k].at = IF k = h THEN at ELSE hubs[k].at
                      /\ hubs'[k].socket = IF k = h THEN socket ELSE hubs[k].socket
  BY DEF LockInv, LockTypeOK
<1>3. LockIsOne'
  BY <1>2 DEF LockInv, LockIsOne, Entitled
<1>4. ServedAtPath'
  <2> SUFFICES ASSUME NEW k \in Hubs, Serving(k)'
               PROVE  sockFile' = At(hubs'[k].socket, TRUE)
    BY DEF ServedAtPath
  <2>1. Entitled(k)
    BY <1>2 DEF Serving, Entitled, Steps
  <2>2. k = h
    BY <2>1, OneFromLock DEF OneHub
  <2> QED
    BY <2>2, <1>2 DEF Serving
<1>5. SeenIsASocket'
  <2> SUFFICES ASSUME NEW k \in Hubs, hubs'[k].at = "seen"
               PROVE  sockFile'.socket
    BY DEF SeenIsASocket
  <2>1. Entitled(k)
    BY <1>2 DEF Entitled, Steps
  <2>2. k = h
    BY <2>1, OneFromLock DEF OneHub
  <2> QED
    BY <2>2, <1>2
<1> QED
  BY <1>1, <1>3, <1>4, <1>5 DEF LockInv

(* A process opens the lock file, or makes it where there is none. *)
LEMMA OpenLockInv ==
    ASSUME LockInv, NEW h \in Hubs, OpenLock(h)
    PROVE  LockInv'
<1>1. lockFile' \in 1..MaxFiles /\ files' \in 0..MaxFiles /\ lockFile \in {None, lockFile'}
  BY MaxFilesAssumption DEF LockInv, LockTypeOK, OpenLock, MakesFile, None
<1>2. LockTypeOK'
  BY <1>1 DEF LockInv, LockTypeOK, OpenLock, Steps
<1>3. \A k \in Hubs : hubs'[k] = IF k = h THEN [hubs[k] EXCEPT !.at = "opened", !.fd = lockFile']
                                          ELSE hubs[k]
  BY DEF LockInv, LockTypeOK, OpenLock
<1>4. hubs \in [Hubs -> [at : Steps, fd : 0..MaxFiles, socket : 0..MaxFiles]]
  BY DEF LockInv, LockTypeOK
<1>5. LockIsOne'
  <2> SUFFICES ASSUME NEW k \in Hubs
               PROVE  /\ hubs'[k].at # "idle" => lockFile' # None /\ hubs'[k].fd = lockFile'
                      /\ Entitled(k)' => flock'[lockFile'] = k
    BY DEF LockIsOne
  <2>1. CASE k = h
    <3>1. hubs'[k].at = "opened" /\ hubs'[k].fd = lockFile'
      BY <2>1, <1>3, <1>4
    <3> QED
      BY <3>1, <1>1 DEF Entitled, None
  <2>2. CASE k # h
    BY <2>2, <1>1, <1>3 DEF LockInv, LockIsOne, Entitled, OpenLock
  <2> QED
    BY <2>1, <2>2
<1>6. SeenIsASocket' /\ ServedAtPath'
  <2>1. \A k \in Hubs : hubs'[k].at \in {"seen", "serving"} => hubs'[k] = hubs[k]
    BY <1>3, <1>4
  <2> QED
    BY <2>1 DEF LockInv, SeenIsASocket, ServedAtPath, Serving, OpenLock, At
<1> QED
  BY <1>2, <1>5, <1>6 DEF LockInv

(* It takes the lock if nobody has it, and is then the only holder. *)
LEMMA TakeLockInv ==
    ASSUME LockInv, NEW h \in Hubs, TakeLock(h)
    PROVE  LockInv'
<1>1. lockFile \in 1..MaxFiles /\ hubs[h].fd = lockFile /\ flock[lockFile] = NoHub
  BY MaxFilesAssumption DEF LockInv, LockTypeOK, LockIsOne, TakeLock, None
<1>2. LockTypeOK'
  BY DEF LockInv, LockTypeOK, TakeLock, Steps
<1>3. \A k \in Hubs : /\ hubs'[k].fd = hubs[k].fd /\ hubs'[k].socket = hubs[k].socket
                      /\ hubs'[k].at = IF k = h THEN "locked" ELSE hubs[k].at
  BY DEF LockInv, LockTypeOK, TakeLock
<1>4. \A k \in Hubs : ~Entitled(k)
  BY <1>1, HubsAssumption DEF LockInv, LockIsOne
<1>5. flock'[lockFile] = h
  BY <1>1 DEF TakeLock, LockInv, LockTypeOK
<1>6. LockIsOne'
  <2> SUFFICES ASSUME NEW k \in Hubs
               PROVE  /\ hubs'[k].at # "idle" => lockFile # None /\ hubs'[k].fd = lockFile
                      /\ Entitled(k)' => flock'[lockFile] = k
    BY DEF LockIsOne, TakeLock
  <2>1. CASE k = h
    BY <2>1, <1>1, <1>3, <1>5 DEF None
  <2>2. CASE k # h
    BY <2>2, <1>3, <1>4 DEF LockInv, LockIsOne, Entitled
  <2> QED
    BY <2>1, <2>2
<1>7. SeenIsASocket' /\ ServedAtPath'
  BY <1>3 DEF LockInv, SeenIsASocket, ServedAtPath, Serving, TakeLock, At
<1> QED
  BY <1>2, <1>6, <1>7 DEF LockInv

(* The next step, one case for each action. *)
LEMMA LockNextInv == LockInv /\ [LockNext]_lockVars => LockInv'
<1> SUFFICES ASSUME LockInv, [LockNext]_lockVars PROVE LockInv'
  OBVIOUS
<1> USE DEF Steps, None
<1>t. hubs \in [Hubs -> [at : Steps, fd : 0..MaxFiles, socket : 0..MaxFiles]]
  BY DEF LockInv, LockTypeOK
<1>1. ASSUME NEW h \in Hubs, OpenLock(h) PROVE LockInv'
  BY <1>1, OpenLockInv
<1>2. ASSUME NEW h \in Hubs, TakeLock(h) PROVE LockInv'
  BY <1>2, TakeLockInv
<1>3. ASSUME NEW h \in Hubs,
             Refused(h) \/ LookRefuses(h) \/ BindFails(h) \/ LetLockGo(h) \/ Crash(h)
      PROVE  LockInv'
  BY <1>3, EndsInv DEF Refused, LookRefuses, BindFails, LetLockGo, Crash
<1>4. ASSUME NEW h \in Hubs, Look(h) PROVE LockInv'
  <2> DEFINE at == IF sockFile = Nothing THEN "clear" ELSE "seen"
  <2>1. Entitled(h) /\ at \in Steps \ {"idle", "opened"} /\ at # "serving"
    BY <1>4 DEF Look, Entitled
  <2>2. hubs' = [hubs EXCEPT ![h] = [@ EXCEPT !.at = at, !.socket = hubs[h].socket]]
    BY <1>4, <1>t DEF Look
  <2>3. /\ files' \in 0..MaxFiles /\ sockFile' \in [file : 0..MaxFiles, socket : BOOLEAN]
        /\ hubs[h].socket \in 0..MaxFiles
    BY <1>4, <1>t DEF Look, LockInv, LockTypeOK
  <2>4. at = "seen" => sockFile'.socket
    BY <1>4 DEF Look
  <2> HIDE DEF at
  <2> QED
    BY <1>4, <2>1, <2>2, <2>3, <2>4, HolderInv DEF Look
<1>5. ASSUME NEW h \in Hubs, RemoveStale(h) PROVE LockInv'
  <2>1. Entitled(h)
    BY <1>5 DEF RemoveStale, Entitled
  <2>2. hubs' = [hubs EXCEPT ![h] = [@ EXCEPT !.at = "clear", !.socket = hubs[h].socket]]
    BY <1>5, <1>t DEF RemoveStale
  <2>3. /\ files' \in 0..MaxFiles /\ sockFile' \in [file : 0..MaxFiles, socket : BOOLEAN]
        /\ hubs[h].socket \in 0..MaxFiles
    BY <1>5, <1>t, MaxFilesAssumption DEF RemoveStale, LockInv, LockTypeOK, Nothing, At
  <2>4. "clear" \in Steps \ {"idle", "opened"} /\ "clear" \notin {"serving", "seen"}
    OBVIOUS
  <2> QED
    BY <1>5, <2>1, <2>2, <2>3, <2>4, HolderInv DEF RemoveStale
<1>6. ASSUME NEW h \in Hubs, Bind(h) PROVE LockInv'
  <2>1. Entitled(h)
    BY <1>6 DEF Bind, Entitled
  <2>2. files' \in 0..MaxFiles /\ sockFile' \in [file : 0..MaxFiles, socket : BOOLEAN]
    BY <1>6, MaxFilesAssumption DEF Bind, MakesFile, At, LockInv, LockTypeOK
  <2>3. "serving" \in Steps \ {"idle", "opened"} /\ "serving" # "seen"
    OBVIOUS
  <2> QED
    BY <1>6, <2>1, <2>2, <2>3, HolderInv DEF Bind
<1>7. ASSUME NEW h \in Hubs, RemoveOwn(h) PROVE LockInv'
  <2>1. Entitled(h)
    BY <1>7 DEF RemoveOwn, Entitled
  <2>2. files' \in 0..MaxFiles /\ sockFile' \in [file : 0..MaxFiles, socket : BOOLEAN]
    BY <1>7, MaxFilesAssumption DEF RemoveOwn, LockInv, LockTypeOK, Nothing, At
  <2>3. /\ 0 \in 0..MaxFiles
        /\ "removed" \in Steps \ {"idle", "opened"} /\ "removed" \notin {"serving", "seen"}
    BY MaxFilesAssumption
  <2> QED
    BY <1>7, <2>1, <2>2, <2>3, HolderInv DEF RemoveOwn
<1>8. ASSUME Intrude PROVE LockInv'
  <2>1. LockTypeOK'
    BY <1>8, MaxFilesAssumption DEF Intrude, MakesFile, At, LockInv, LockTypeOK
  <2>2. LockIsOne'
    BY <1>8 DEF Intrude, LockInv, LockIsOne, Entitled
  <2>3. ASSUME NEW h \in Hubs PROVE ~Serving(h)
    BY <1>8, <2>3 DEF Intrude, LockInv, ServedAtPath, Nothing, At
  <2>4. SeenIsASocket'
    BY <1>8 DEF Intrude, LockInv, SeenIsASocket, Nothing, At
  <2> QED
    BY <1>8, <2>1, <2>2, <2>3, <2>4 DEF Intrude, LockInv, ServedAtPath, Serving
<1>9. CASE UNCHANGED lockVars
  BY <1>9 DEF lockVars, LockInv, LockTypeOK, LockIsOne, SeenIsASocket, ServedAtPath, Entitled, Serving
<1> QED
  BY <1>1, <1>2, <1>3, <1>4, <1>5, <1>6, <1>7, <1>8, <1>9 DEF LockNext

(* Only a stale socket, or a hub's own as it leaves, is ever taken from the path. *)
LEMMA StepTakes ==
    LockInv /\ [LockNext]_lockVars =>
        [sockFile # Nothing /\ sockFile' # sockFile =>
            /\ sockFile.socket
            /\ \A h \in Hubs : Serving(h) => hubs'[h].at = "removed"]_lockVars
<1> SUFFICES ASSUME LockInv, LockNext, sockFile # Nothing, sockFile' # sockFile
             PROVE  /\ sockFile.socket
                    /\ \A h \in Hubs : Serving(h) => hubs'[h].at = "removed"
  OBVIOUS
<1>1. PICK h \in Hubs : RemoveStale(h) \/ RemoveOwn(h)
  BY DEF LockNext, OpenLock, TakeLock, Refused, Look, LookRefuses, Bind, BindFails, LetLockGo, Crash,
         Intrude
<1>2. Entitled(h)
  BY <1>1 DEF RemoveStale, RemoveOwn, Entitled, Steps
<1>3. \A k \in Hubs : Serving(k) => k = h
  BY <1>2, OneFromLock DEF OneHub, Serving, Entitled, Steps
<1>4. CASE RemoveStale(h)
  BY <1>3, <1>4 DEF RemoveStale, Serving, LockInv, SeenIsASocket
<1>5. CASE RemoveOwn(h)
  <2>1. sockFile.socket
    BY <1>5 DEF RemoveOwn, LockInv, ServedAtPath, Serving, At
  <2>2. hubs'[h].at = "removed"
    BY <1>5 DEF RemoveOwn, LockInv, LockTypeOK
  <2> QED
    BY <1>3, <2>1, <2>2
<1> QED
  BY <1>1, <1>4, <1>5

(* The invariant holds of every reachable state, for any number of processes. *)
THEOREM LockInvariantHolds == LockSpec => []LockInv
  BY LockInitInv, LockNextInv, PTL DEF LockSpec

(* Type correctness of the file system and of the hubs. *)
THEOREM LockTypeCorrect == LockSpec => []LockTypeOK
<1>1. LockInv => LockTypeOK
  BY DEF LockInv
<1> QED
  BY <1>1, LockInvariantHolds, PTL

(* However many hubs are started on a path, killed and started again, no two are
   ever past the lock. *)
THEOREM OneHubAtATime == LockSpec => []OneHub
  BY OneFromLock, LockInvariantHolds, PTL

(* The socket at the path of a hub that serves is that hub's. *)
THEOREM ServingIsReached == LockSpec => []ServedAtPath
<1>1. LockInv => ServedAtPath
  BY DEF LockInv
<1> QED
  BY <1>1, LockInvariantHolds, PTL

(* Nothing but a socket is ever taken from the path, and from under no hub that
   serves. *)
THEOREM OnlySocketsTaken == LockSpec => TakesOnlySockets
  BY LockInvariantHolds, StepTakes, PTL DEF LockSpec, TakesOnlySockets

-----------------------------------------------------------------------------
(* Clients: a queue is never overfilled, an app that was sent part of a message is sent
   nothing after it, and none misses a version. *)
Messages == [kind : {"hello", "state", "targets"}, version : Nat]
Connections ==
    [held : BOOLEAN, fresh : BOOLEAN, queue : Seq(Messages),
     task : {"selecting", "writing", "ended"}, hand : Seq(Messages), open : BOOLEAN,
     received : Seq(Messages), torn : BOOLEAN]

(* Within its queue, one message in hand; cut short only by a task that has ended. *)
Fits(c) ==
    /\ c \in Connections
    /\ Len(c.queue) <= Queue
    /\ Len(c.hand) <= 1
    /\ c.torn => c.task = "ended"

IInv ==
    /\ state \in 0..MaxState /\ targets \in 0..MaxTargets
    /\ DOMAIN clients = Apps
    /\ \A a \in Apps : Fits(clients[a])

-----------------------------------------------------------------------------
(* An empty queue is a queue. *)
LEMMA EmptyQueue == <<>> \in Seq(Messages) /\ Len(<<>>) = 0
  OBVIOUS

(* The hub lets an app go with nothing waiting, and what it received as it was. *)
LEMMA LetGoFits ==
    ASSUME NEW c, Fits(c)
    PROVE  Fits(LetGo(c)) /\ LetGo(c).received = c.received
<1> DEFINE torn == (c.torn \/ c.hand # <<>>)
<1>1. torn \in BOOLEAN
  BY DEF Fits, Connections
<1>2. LetGo(c) = [c EXCEPT !.held = FALSE, !.fresh = FALSE, !.task = "ended", !.queue = <<>>,
                          !.hand = <<>>, !.torn = torn]
  BY DEF LetGo
<1> HIDE DEF torn
<1>3. /\ LetGo(c) \in Connections /\ LetGo(c).task = "ended" /\ LetGo(c).queue = <<>>
      /\ LetGo(c).hand = <<>> /\ LetGo(c).received = c.received
  BY <1>1, <1>2, EmptyQueue, ZenonT(60) DEF Fits, Connections
<1>4. Queue \in Nat
  BY ClientsAssumption
<1> QED
  BY <1>3, <1>4, EmptyQueue DEF Fits

(* An app is offered what fits in its queue, or let go. *)
LEMMA OfferFits ==
    ASSUME NEW c, Fits(c), NEW messages \in Seq(Messages)
    PROVE  /\ Fits(Offer(c, messages))
           /\ Offer(c, messages).received = c.received
           /\ c.task # "ended" /\ Len(c.queue) + Len(messages) <= Queue =>
                Offer(c, messages).held = c.held
<1>1. CASE c.task # "ended" /\ Len(c.queue) + Len(messages) <= Queue
  <2>1. Offer(c, messages) = [c EXCEPT !.fresh = FALSE, !.queue = @ \o messages]
    BY <1>1 DEF Offer
  <2>2. c \in Connections /\ c.queue \in Seq(Messages)
    BY DEF Fits, Connections
  <2>3. /\ c.queue \o messages \in Seq(Messages)
        /\ Len(c.queue \o messages) = Len(c.queue) + Len(messages)
    BY <2>2, ConcatProperties
  <2> DEFINE q == c.queue \o messages
  <2>4. q \in Seq(Messages) /\ Len(q) <= Queue /\ Offer(c, messages) = [c EXCEPT !.fresh = FALSE, !.queue = q]
    BY <1>1, <2>1, <2>3
  <2> HIDE DEF q
  <2>5. /\ Offer(c, messages) \in Connections /\ Offer(c, messages).queue = q
        /\ Offer(c, messages).hand = c.hand /\ Offer(c, messages).received = c.received
        /\ Offer(c, messages).held = c.held /\ Offer(c, messages).task = c.task
        /\ Offer(c, messages).torn = c.torn
    BY <2>2, <2>4 DEF Connections
  <2> QED
    BY <2>4, <2>5 DEF Fits
<1>2. CASE ~(c.task # "ended" /\ Len(c.queue) + Len(messages) <= Queue)
  <2>1. Offer(c, messages) = LetGo(c)
    BY <1>2 DEF Offer
  <2> QED
    BY <1>2, <2>1, LetGoFits
<1> QED
  BY <1>1, <1>2

(* An app is due two messages at most. *)
LEMMA DueIsShort ==
    ASSUME state' \in Nat, targets' \in Nat, NEW c
    PROVE  Due(c) \in Seq(Messages) /\ Len(Due(c)) <= 2
<1> DEFINE s == IF c.fresh \/ state' # state THEN <<Message("state", state')>> ELSE <<>>
           t == IF c.fresh \/ targets' # targets THEN <<Message("targets", targets')>> ELSE <<>>
<1>1. Message("state", state') \in Messages /\ Message("targets", targets') \in Messages
  BY DEF Message, Messages
<1>2. s \in Seq(Messages) /\ Len(s) \in 0..1
  BY <1>1
<1>3. t \in Seq(Messages) /\ Len(t) \in 0..1
  BY <1>1
<1>4. Due(c) = s \o t
  BY DEF Due
<1> HIDE DEF s, t
<1>5. s \o t \in Seq(Messages) /\ Len(s \o t) = Len(s) + Len(t)
  BY <1>2, <1>3, ConcatProperties
<1> QED
  BY <1>2, <1>3, <1>4, <1>5

(* The end of a turn leaves each app what it received, and keeps a new one. *)
LEMMA TurnFits ==
    ASSUME NEW cs, DOMAIN cs = Apps, \A a \in Apps : Fits(cs[a]),
           state' \in Nat, targets' \in Nat, EndOfTurn(cs)
    PROVE  /\ DOMAIN clients' = Apps
           /\ \A a \in Apps : /\ Fits(clients'[a])
                              /\ clients'[a].received = cs[a].received
                              /\ cs[a] = Spawned => clients'[a].held
<1>1. clients' = [a \in Apps |-> IF cs[a].held THEN Offer(cs[a], Due(cs[a])) ELSE cs[a]]
  BY DEF EndOfTurn
<1>2. ASSUME NEW a \in Apps
      PROVE  /\ Fits(clients'[a])
             /\ clients'[a].received = cs[a].received
             /\ cs[a] = Spawned => clients'[a].held
  <2>1. CASE ~cs[a].held
    BY <1>1, <2>1 DEF Spawned
  <2>2. CASE cs[a].held
    <3>1. Due(cs[a]) \in Seq(Messages) /\ Len(Due(cs[a])) <= 2
      BY DueIsShort
    <3>2. /\ Fits(Offer(cs[a], Due(cs[a])))
          /\ Offer(cs[a], Due(cs[a])).received = cs[a].received
          /\ cs[a].task # "ended" /\ Len(cs[a].queue) + Len(Due(cs[a])) <= Queue =>
                Offer(cs[a], Due(cs[a])).held = cs[a].held
      BY <3>1, OfferFits
    <3>3. clients'[a] = Offer(cs[a], Due(cs[a]))
      BY <1>1, <2>2
    <3>4. ASSUME cs[a] = Spawned
          PROVE  cs[a].task # "ended" /\ Len(cs[a].queue) + Len(Due(cs[a])) <= Queue
      <4>1. cs[a].task = "selecting" /\ Len(cs[a].queue) = 1
        BY <3>4 DEF Spawned
      <4>2. Len(Due(cs[a])) \in Nat
        BY <3>1, LenProperties
      <4> QED
        BY <3>1, <4>1, <4>2, ClientsAssumption
    <3> QED
      BY <2>2, <3>2, <3>3, <3>4
  <2> QED
    BY <2>1, <2>2
<1> QED
  BY <1>1, <1>2

(* An app that has just connected, and one that is not there, are as the invariant says. *)
LEMMA SpawnedFits == Fits(Spawned) /\ Fits(Away)
<1>1. Hello \in Messages
  BY DEF Hello, Message, Messages
<1>2. <<Hello>> \in Seq(Messages) /\ Len(<<Hello>>) = 1
  BY <1>1
<1>3. Spawned \in Connections /\ Away \in Connections
  BY <1>2, EmptyQueue DEF Spawned, Away, Connections
<1> QED
  BY <1>2, <1>3, EmptyQueue, ClientsAssumption DEF Fits, Spawned, Away

-----------------------------------------------------------------------------
(* Init: nobody is connected. *)
LEMMA InitInv == Init => IInv
  BY SpawnedFits, ClientsAssumption DEF Init, IInv

(* What a turn of the hub keeps: the invariant, and what was received. *)
LEMMA HubTurn ==
    ASSUME IInv, EventTurn \/ Tick \/ (\E a \in Apps : Accept(a))
    PROVE  /\ IInv'
           /\ \A a \in Apps : \/ clients'[a].received = clients[a].received
                              \/ ~clients[a].held /\ clients'[a].held
<1>1. /\ state' \in 0..MaxState /\ targets' \in 0..MaxTargets
      /\ state' \in Nat /\ targets' \in Nat
  <2>1. StateMayChange /\ targets' \in {targets, targets + 1} /\ targets' <= MaxTargets
    <3>1. targets \in {targets, targets + 1} /\ targets <= MaxTargets
      BY ClientsAssumption DEF IInv
    <3>2. CASE EventTurn
      BY <3>1, <3>2 DEF EventTurn
    <3>3. CASE Tick
      BY <3>3 DEF Tick
    <3>4. ASSUME NEW a \in Apps, Accept(a)
          PROVE  StateMayChange /\ targets' = targets
      BY <3>4 DEF Accept
    <3> QED
      BY <3>1, <3>2, <3>3, <3>4
  <2>2. state' \in {state, state + 1} /\ state' <= MaxState
    BY <2>1 DEF StateMayChange
  <2>3. state' \in 0..MaxState
    BY <2>2, ClientsAssumption DEF IInv
  <2>4. targets' \in 0..MaxTargets
    BY <2>1, ClientsAssumption DEF IInv
  <2> QED
    BY <2>3, <2>4
<1>2. CASE EndOfTurn(clients)
  <2>1. /\ DOMAIN clients' = Apps
        /\ \A a \in Apps : Fits(clients'[a]) /\ clients'[a].received = clients[a].received
    BY <1>1, <1>2, TurnFits DEF IInv
  <2>2. IInv'
    BY <1>1, <2>1 DEF IInv, Fits
  <2> QED
    BY <2>1, <2>2
<1>3. ASSUME NEW b \in Apps, Accept(b)
      PROVE  /\ IInv'
             /\ \A a \in Apps : \/ clients'[a].received = clients[a].received
                                \/ ~clients[a].held /\ clients'[a].held
  <2> DEFINE cs == [clients EXCEPT ![b] = Spawned]
  <2>1. /\ DOMAIN cs = Apps /\ \A a \in Apps : Fits(cs[a])
        /\ cs[b] = Spawned /\ \A a \in Apps \ {b} : cs[a] = clients[a]
    BY SpawnedFits DEF IInv
  <2>2. EndOfTurn(cs) /\ ~clients[b].held
    BY <1>3 DEF Accept
  <2> HIDE DEF cs
  <2>3. /\ DOMAIN clients' = Apps
        /\ \A a \in Apps : /\ Fits(clients'[a])
                           /\ clients'[a].received = cs[a].received
                           /\ cs[a] = Spawned => clients'[a].held
    BY <1>1, <2>1, <2>2, TurnFits
  <2>4. IInv'
    BY <1>1, <2>3 DEF IInv, Fits
  <2> QED
    BY <2>1, <2>2, <2>3, <2>4
<1> QED
  BY <1>2, <1>3 DEF EventTurn, Tick

(* A step of a task, or of the app, leaves the others alone. *)
LEMMA OneBecomes ==
    ASSUME IInv, NEW a \in Apps, NEW c, Fits(c), Becomes(a, c)
    PROVE  IInv' /\ clients'[a] = c /\ \A b \in Apps \ {a} : clients'[b] = clients[b]
<1>1. /\ clients' = [clients EXCEPT ![a] = c] /\ state' = state /\ targets' = targets
  BY DEF Becomes
<1>2. /\ DOMAIN clients' = Apps /\ clients'[a] = c
      /\ \A b \in Apps \ {a} : clients'[b] = clients[b]
  BY <1>1 DEF IInv
<1>3. \A b \in Apps : Fits(clients'[b])
  BY <1>2 DEF IInv
<1> QED
  BY <1>1, <1>2, <1>3 DEF IInv, Fits

(* So is an app whose task has ended, after a whole message or after part of one; it received what it had. *)
LEMMA EndedFits ==
    ASSUME NEW c, Fits(c)
    PROVE  /\ Fits(Ended(c)) /\ Fits([Ended(c) EXCEPT !.torn = TRUE])
           /\ Ended(c).received = c.received
           /\ [Ended(c) EXCEPT !.torn = TRUE].received = c.received
<1>1. /\ Ended(c) \in Connections /\ Ended(c).task = "ended" /\ Ended(c).queue = <<>>
      /\ Ended(c).hand = <<>> /\ Ended(c).received = c.received
  BY EmptyQueue DEF Fits, Connections, Ended
<1> DEFINE d == Ended(c)
           e == [d EXCEPT !.torn = TRUE]
<1>2. /\ e \in Connections /\ e.task = "ended" /\ e.queue = <<>>
      /\ e.hand = <<>> /\ e.received = c.received
  <2> HIDE DEF d
  <2> QED
    BY <1>1 DEF Connections, d
<1>3. Queue \in Nat
  BY ClientsAssumption
<1> QED
  BY <1>1, <1>2, <1>3, EmptyQueue DEF Fits

(* What a step of an app's task, or of the app, may make of it. *)
StepsTo(c, d) ==
    /\ Fits(d)
    /\ c.torn => d.received = c.received

(* The task takes a message from the queue. *)
LEMMA TakeSteps ==
    ASSUME NEW c, Fits(c), c.task = "selecting", c.queue # <<>>
    PROVE  StepsTo(c, [c EXCEPT !.task = "writing", !.hand = <<Head(c.queue)>>,
                                !.queue = Tail(c.queue)])
<1> DEFINE h == <<Head(c.queue)>>
           t == Tail(c.queue)
<1>1. /\ c.queue \in Seq(Messages) /\ c \in Connections /\ ~c.torn /\ Len(c.queue) \in Nat
      /\ Len(c.queue) <= Queue /\ Queue \in Nat
  BY LenProperties, ClientsAssumption DEF Fits, Connections
<1>2. Head(c.queue) \in Messages /\ t \in Seq(Messages) /\ Len(t) = Len(c.queue) - 1
  BY <1>1, HeadTailProperties
<1>3. h \in Seq(Messages) /\ Len(h) = 1
  BY <1>2
<1>4. Len(t) <= Queue
  BY <1>1, <1>2
<1> DEFINE d == [c EXCEPT !.task = "writing", !.hand = h, !.queue = t]
<1>5. d \in Connections /\ d.queue = t /\ d.hand = h /\ d.torn = c.torn
  <2> HIDE DEF h, t
  <2> QED
    BY <1>1, <1>2, <1>3 DEF Connections
<1> HIDE DEF d, h, t
<1>6. Len(d.queue) <= Queue /\ Len(d.hand) <= 1
  <2>1. Len(h) <= 1
    BY <1>3
  <2> QED
    BY <1>4, <1>5, <2>1, Zenon
<1>7. ~d.torn
  BY <1>1, <1>5, Zenon
<1>8. StepsTo(c, d)
  BY <1>1, <1>5, <1>6, <1>7, Zenon DEF StepsTo, Fits
<1> QED
  BY <1>8 DEF d, h, t

(* It has written it whole, which it does only where nothing was torn. *)
LEMMA WrittenSteps ==
    ASSUME NEW c, Fits(c), c.task = "writing"
    PROVE  StepsTo(c, [c EXCEPT !.task = "selecting", !.received = @ \o c.hand, !.hand = <<>>])
<1> DEFINE r == c.received \o c.hand
           d == [c EXCEPT !.task = "selecting", !.received = r, !.hand = <<>>]
<1>1. c \in Connections /\ c.received \in Seq(Messages) /\ c.hand \in Seq(Messages) /\ ~c.torn
  BY DEF Fits, Connections
<1>2. r \in Seq(Messages)
  BY <1>1, ConcatProperties
<1>3. /\ d \in Connections /\ d.queue = c.queue /\ d.hand = <<>> /\ d.torn = c.torn
  <2> HIDE DEF r
  <2> QED
    BY <1>1, <1>2, EmptyQueue DEF Connections
<1> HIDE DEF d
<1>4. StepsTo(c, d)
  BY <1>1, <1>3, EmptyQueue DEF StepsTo, Fits
<1> QED
  BY <1>4 DEF d, r

(* The app leaves, and its end of the socket closes. *)
LEMMA LeaveSteps ==
    ASSUME NEW c, Fits(c)
    PROVE  StepsTo(c, [c EXCEPT !.open = FALSE])
<1> DEFINE d == [c EXCEPT !.open = FALSE]
<1>1. /\ d \in Connections /\ d.queue = c.queue /\ d.hand = c.hand /\ d.torn = c.torn
      /\ d.task = c.task /\ d.received = c.received
  BY DEF Fits, Connections
<1> HIDE DEF d
<1>2. StepsTo(c, d)
  BY <1>1 DEF StepsTo, Fits
<1> QED
  BY <1>2 DEF d

(* Every step keeps the invariant, and what an app received after part of a message. *)
LEMMA NextStep ==
    ASSUME IInv, [Next]_vars
    PROVE  /\ IInv'
           /\ \A a \in Apps : clients[a].torn =>
                 \/ clients'[a].received = clients[a].received
                 \/ ~clients[a].held /\ clients'[a].held
<1> DEFINE Kept(a) == clients[a].torn =>
                        \/ clients'[a].received = clients[a].received
                        \/ ~clients[a].held /\ clients'[a].held
<1>1. CASE EventTurn \/ Tick \/ (\E a \in Apps : Accept(a))
  BY <1>1, HubTurn
<1>2. ASSUME NEW a \in Apps, NEW d, StepsTo(clients[a], d), Becomes(a, d)
      PROVE  IInv' /\ \A b \in Apps : Kept(b)
  BY <1>2, OneBecomes DEF StepsTo
<1>3. ASSUME NEW a \in Apps, Take(a) PROVE IInv' /\ \A b \in Apps : Kept(b)
  <2>1. Fits(clients[a])
    BY DEF IInv
  <2>2. StepsTo(clients[a], [clients[a] EXCEPT !.task = "writing",
                                 !.hand = <<Head(clients[a].queue)>>, !.queue = Tail(clients[a].queue)])
    BY <1>3, <2>1, TakeSteps DEF Take
  <2> QED
    BY <1>2, <1>3, <2>2 DEF Take
<1>4. ASSUME NEW a \in Apps, Written(a) PROVE IInv' /\ \A b \in Apps : Kept(b)
  <2>1. Fits(clients[a])
    BY DEF IInv
  <2>2. StepsTo(clients[a], [clients[a] EXCEPT !.task = "selecting",
                                 !.received = @ \o clients[a].hand, !.hand = <<>>])
    BY <1>4, <2>1, WrittenSteps DEF Written
  <2> QED
    BY <1>2, <1>4, <2>2 DEF Written
<1>5. ASSUME NEW a \in Apps, WriteFails(a) \/ FindLeft(a)
      PROVE  IInv' /\ \A b \in Apps : Kept(b)
  <2>1. Fits(clients[a])
    BY DEF IInv
  <2>2. /\ StepsTo(clients[a], Ended(clients[a]))
        /\ StepsTo(clients[a], [Ended(clients[a]) EXCEPT !.torn = TRUE])
    BY <2>1, EndedFits DEF StepsTo
  <2> QED
    BY <1>2, <1>5, <2>2 DEF WriteFails, FindLeft
<1>6. ASSUME NEW a \in Apps, Leave(a) PROVE IInv' /\ \A b \in Apps : Kept(b)
  <2>1. Fits(clients[a])
    BY DEF IInv
  <2>2. StepsTo(clients[a], [clients[a] EXCEPT !.open = FALSE])
    BY <2>1, LeaveSteps
  <2> QED
    BY <1>2, <1>6, <2>2 DEF Leave
<1>7. CASE UNCHANGED vars
  BY <1>7 DEF vars, IInv, Fits
<1> QED
  BY <1>1, <1>3, <1>4, <1>5, <1>6, <1>7 DEF Next

-----------------------------------------------------------------------------
(* The invariant holds of every reachable state, for any number of apps. *)
THEOREM InvariantHolds == Spec => []IInv
<1>1. IInv /\ [Next]_vars => IInv'
  BY NextStep
<1> QED
  BY <1>1, InitInv, PTL DEF Spec

(* No more than QUEUE messages wait for an app, and one is written at a time. *)
THEOREM TypeCorrect == Spec => []TypeOK
<1>1. IInv => TypeOK
  BY DEF IInv, Fits, Connections, TypeOK
<1> QED
  BY <1>1, InvariantHolds, PTL

(* An app that was sent part of a message is sent nothing more on that connection. *)
THEOREM TornIsLast == Spec => NothingAfterTorn
<1>1. IInv /\ [Next]_vars =>
         [\A a \in Apps : clients[a].torn =>
             \/ clients'[a].received = clients[a].received
             \/ ~clients[a].held /\ clients'[a].held]_vars
  BY NextStep
<1> QED
  BY <1>1, InvariantHolds, PTL DEF Spec, NothingAfterTorn

-----------------------------------------------------------------------------
(* What an app is sent, as a sequence: the first three in turn, no version missing. *)
Unbroken(ms) ==
    /\ \A i \in DOMAIN ms : i <= 3 => ms[i].kind = <<"hello", "state", "targets">>[i]
    /\ Consecutive(ms)

(* As much as there is: the newest state, and the newest traffic. *)
UpToDate(ms, s, t) ==
    /\ Len(ms) >= 3
    /\ Newest(Message("state", s), ms) /\ Newest(Message("targets", t), ms)

(* NothingSkipped, with what the tasks keep it by: nobody is new once a turn is over, and
   a task that waits for a message has none in hand. *)
InStep ==
    \A a \in Apps :
        /\ Unbroken(Sent(clients[a]))
        /\ clients[a].held /\ clients[a].task # "ended" =>
              UpToDate(Sent(clients[a]), state, targets)
        /\ ~clients[a].fresh
        /\ clients[a].task = "selecting" => clients[a].hand = <<>>

(* What was sent first of an unbroken sequence is unbroken. *)
LEMMA FirstUnbroken ==
    ASSUME NEW ms \in Seq(Messages), NEW rest \in Seq(Messages), Unbroken(ms \o rest)
    PROVE  Unbroken(ms)
<1> DEFINE all == ms \o rest
<1>1. /\ Len(ms) \in Nat /\ DOMAIN ms = 1..Len(ms) /\ Len(rest) \in Nat
      /\ DOMAIN all = 1..Len(ms) + Len(rest)
      /\ \A i \in 1..Len(ms) : all[i] = ms[i]
  BY ConcatProperties, LenProperties
<1>2. DOMAIN ms \subseteq DOMAIN all
  BY <1>1
<1> HIDE DEF all
<1>3. Unbroken(all)
  BY DEF all
<1>4. ASSUME NEW i \in DOMAIN ms, NEW j \in DOMAIN ms, i < j, ms[i].kind = ms[j].kind,
             \A k \in DOMAIN ms : i < k /\ k < j => ms[k].kind # ms[i].kind
      PROVE  ms[j].version = ms[i].version + 1
  <2>1. \A k \in DOMAIN all : i < k /\ k < j => k \in DOMAIN ms /\ all[k] = ms[k]
    BY <1>1
  <2>2. i \in DOMAIN all /\ j \in DOMAIN all /\ all[i] = ms[i] /\ all[j] = ms[j]
    BY <1>1
  <2> QED
    BY <1>3, <1>4, <2>1, <2>2 DEF Unbroken, Consecutive
<1>5. \A i \in DOMAIN ms : i <= 3 => ms[i].kind = <<"hello", "state", "targets">>[i]
  BY <1>1, <1>2, <1>3 DEF Unbroken
<1> QED
  BY <1>4, <1>5 DEF Unbroken, Consecutive

(* The next version of a kind, sent after the newest of it. *)
LEMMA OneMoreSent ==
    ASSUME NEW ms \in Seq(Messages), Unbroken(ms), Len(ms) >= 3,
           NEW kind \in {"state", "targets"}, NEW v \in Nat, Newest(Message(kind, v), ms)
    PROVE  LET new == Message(kind, v + 1)
               all == ms \o <<new>>
           IN /\ all \in Seq(Messages) /\ Len(all) >= 3 /\ Unbroken(all) /\ Newest(new, all)
              /\ \A m : m.kind # kind /\ Newest(m, ms) => Newest(m, all)
<1> DEFINE new == Message(kind, v + 1)
           all == ms \o <<new>>
           n == Len(ms)
<1>1. /\ new \in Messages /\ new.kind = kind /\ new.version = v + 1
      /\ Message(kind, v).kind = kind /\ Message(kind, v).version = v
  BY DEF Message, Messages
<1> HIDE DEF new
<1>2. /\ all \in Seq(Messages) /\ n \in Nat /\ n >= 3 /\ DOMAIN ms = 1..n
      /\ Len(all) = n + 1 /\ DOMAIN all = 1..n + 1
      /\ \A i \in 1..n : all[i] = ms[i]
      /\ all[n + 1] = new
  <2>1. all = Append(ms, new)
    BY <1>1, AppendIsConcat
  <2> QED
    BY <1>1, <2>1, AppendProperties, LenProperties
<1> HIDE DEF all, n
<1>3. PICK l \in DOMAIN ms : /\ ms[l] = Message(kind, v)
                             /\ \A j \in DOMAIN ms : l < j => ms[j].kind # kind
  BY <1>1 DEF Newest
<1>4. ASSUME NEW i \in DOMAIN all, NEW j \in DOMAIN all, i < j, all[i].kind = all[j].kind,
             \A k \in DOMAIN all : i < k /\ k < j => all[k].kind # all[i].kind
      PROVE  all[j].version = all[i].version + 1
  <2>1. i \in 1..n /\ all[i] = ms[i]
    BY <1>2, <1>4
  <2>2. CASE j = n + 1
    <3>1. ms[i].kind = kind
      BY <1>1, <1>2, <1>4, <2>1, <2>2
    <3>2. ~(l < i)
      BY <1>2, <1>3, <2>1, <3>1
    <3>3. ~(i < l)
      <4>1. l \in 1..n /\ all[l] = ms[l] /\ all[l].kind = kind /\ l \in DOMAIN all /\ l < j
        BY <1>1, <1>2, <1>3, <2>2
      <4> QED
        BY <1>4, <2>1, <3>1, <4>1
    <3>4. i = l
      BY <1>2, <1>3, <2>1, <3>2, <3>3
    <3> QED
      BY <1>1, <1>2, <1>3, <2>1, <2>2, <3>4
  <2>3. CASE j # n + 1
    <3>1. j \in 1..n /\ all[j] = ms[j]
      BY <1>2, <2>3
    <3>2. \A k \in 1..n : i < k /\ k < j => ms[k].kind # ms[i].kind
      BY <1>2, <1>4, <2>1
    <3> QED
      BY <1>2, <1>4, <2>1, <3>1, <3>2 DEF Unbroken, Consecutive
  <2> QED
    BY <2>2, <2>3
<1>5. \A i \in DOMAIN all : i <= 3 => all[i].kind = <<"hello", "state", "targets">>[i]
  <2>1. \A i \in DOMAIN all : i <= 3 => i \in DOMAIN ms /\ all[i] = ms[i]
    BY <1>2
  <2> QED
    BY <2>1 DEF Unbroken
<1>6. Newest(new, all)
  BY <1>2 DEF Newest
<1>7. ASSUME NEW m, m.kind # kind, Newest(m, ms)
      PROVE  Newest(m, all)
  <2>1. PICK i \in DOMAIN ms : ms[i] = m /\ \A j \in DOMAIN ms : i < j => ms[j].kind # m.kind
    BY <1>7 DEF Newest
  <2>2. i \in DOMAIN all /\ all[i] = m
    BY <1>2, <2>1
  <2>3. ASSUME NEW j \in DOMAIN all, i < j PROVE all[j].kind # m.kind
    BY <1>1, <1>2, <1>7, <2>1, <2>3
  <2> QED
    BY <2>2, <2>3 DEF Newest
<1>8. Unbroken(all)
  BY <1>4, <1>5 DEF Unbroken, Consecutive
<1>9. Len(all) >= 3
  BY <1>2
<1> QED
  BY <1>2, <1>6, <1>7, <1>8, <1>9, Zenon DEF new, all

(* What an app that keeps up is due leaves it up to date. *)
LEMMA DueSent ==
    ASSUME NEW ms \in Seq(Messages), Unbroken(ms), UpToDate(ms, state, targets), NEW c, ~c.fresh,
           state \in Nat, targets \in Nat, state' \in {state, state + 1},
           targets' \in {targets, targets + 1}
    PROVE  Unbroken(ms \o Due(c)) /\ UpToDate(ms \o Due(c), state', targets')
<1> DEFINE s == IF c.fresh \/ state' # state THEN <<Message("state", state')>> ELSE <<>>
           t == IF c.fresh \/ targets' # targets THEN <<Message("targets", targets')>> ELSE <<>>
           half == ms \o s
<1>1. Message("state", state') \in Messages /\ Message("targets", targets') \in Messages
      /\ Message("state", state).kind = "state" /\ Message("targets", targets).kind = "targets"
      /\ Message("state", state').kind = "state"
  BY DEF Message, Messages
<1>2. s \in Seq(Messages) /\ t \in Seq(Messages)
  BY <1>1
<1>3. Due(c) = s \o t
  BY DEF Due
<1>4. (ms \o s) \o t = ms \o (s \o t)
  <2> HIDE DEF s, t
  <2> QED
    BY <1>2, ConcatAssociative
<1>5. /\ half \in Seq(Messages) /\ Unbroken(half) /\ UpToDate(half, state', targets)
  <2>1. CASE state' = state
    <3>1. half = ms
      BY <2>1, ConcatEmptySeq
    <3> QED
      BY <2>1, <3>1
  <2>2. CASE state' = state + 1 /\ state' # state
    <3>1. half = ms \o <<Message("state", state + 1)>>
      BY <2>2
    <3> HIDE DEF half
    <3>2. Newest(Message("state", state), ms) /\ Newest(Message("targets", targets), ms)
          /\ Len(ms) >= 3
      BY DEF UpToDate
    <3>3. /\ half \in Seq(Messages) /\ Len(half) >= 3 /\ Unbroken(half)
          /\ Newest(Message("state", state + 1), half)
          /\ Newest(Message("targets", targets), half)
      BY <1>1, <3>1, <3>2, OneMoreSent
    <3> QED
      BY <2>2, <3>3 DEF UpToDate
  <2> QED
    BY <2>1, <2>2
<1> HIDE DEF half
<1>6. Unbroken(half \o t) /\ UpToDate(half \o t, state', targets')
  <2>1. CASE targets' = targets
    <3>1. half \o t = half
      BY <1>5, <2>1, ConcatEmptySeq
    <3> QED
      BY <1>5, <2>1, <3>1
  <2>2. CASE targets' = targets + 1 /\ targets' # targets
    <3>1. half \o t = half \o <<Message("targets", targets + 1)>>
      BY <2>2
    <3> HIDE DEF t
    <3>2. Newest(Message("state", state'), half) /\ Newest(Message("targets", targets), half)
          /\ Len(half) >= 3
      BY <1>5 DEF UpToDate
    <3>3. LET all == half \o <<Message("targets", targets + 1)>>
          IN /\ Len(all) >= 3 /\ Unbroken(all)
             /\ Newest(Message("targets", targets + 1), all)
             /\ Newest(Message("state", state'), all)
      BY <1>1, <1>5, <3>2, OneMoreSent
    <3> QED
      BY <2>2, <3>1, <3>3 DEF UpToDate
  <2> QED
    BY <2>1, <2>2
<1> QED
  BY <1>3, <1>4, <1>6 DEF half

(* What an app that was let go, or whose task is over, was sent is what it received. *)
LEMMA OnlyReceived ==
    ASSUME NEW c \in Connections
    PROVE  /\ Sent(LetGo(c)) = c.received
           /\ Sent(Ended(c)) = c.received
           /\ Sent([Ended(c) EXCEPT !.torn = TRUE]) = c.received
           /\ Unbroken(Sent(c)) => Unbroken(c.received)
<1>1. c.received \in Seq(Messages) /\ c.hand \in Seq(Messages) /\ c.queue \in Seq(Messages)
  BY DEF Connections
<1>2. c.received \o <<>> \o <<>> = c.received
  BY <1>1, ConcatEmptySeq
<1>3. /\ LetGo(c).received = c.received /\ LetGo(c).hand = <<>> /\ LetGo(c).queue = <<>>
  BY DEF LetGo, Connections
<1>4. /\ Ended(c).received = c.received /\ Ended(c).hand = <<>> /\ Ended(c).queue = <<>>
      /\ [Ended(c) EXCEPT !.torn = TRUE].received = c.received
      /\ [Ended(c) EXCEPT !.torn = TRUE].hand = <<>>
      /\ [Ended(c) EXCEPT !.torn = TRUE].queue = <<>>
  BY DEF Ended, Connections
<1>5. Sent(c) = c.received \o (c.hand \o c.queue) /\ c.hand \o c.queue \in Seq(Messages)
  <2>1. (c.received \o c.hand) \o c.queue = c.received \o (c.hand \o c.queue)
    <3> DEFINE x == c.received
               y == c.hand
               z == c.queue
    <3>1. x \in Seq(Messages) /\ y \in Seq(Messages) /\ z \in Seq(Messages)
      BY <1>1
    <3> HIDE DEF x, y, z
    <3>2. (x \o y) \o z = x \o (y \o z)
      BY <3>1, ConcatAssociative
    <3> QED
      BY <3>2 DEF x, y, z
  <2>2. c.hand \o c.queue \in Seq(Messages)
    BY <1>1, ConcatProperties
  <2> QED
    BY <2>1, <2>2 DEF Sent
<1>6. Unbroken(Sent(c)) => Unbroken(c.received)
  BY <1>1, <1>5, FirstUnbroken
<1> QED
  BY <1>2, <1>3, <1>4, <1>6 DEF Sent

(* An app offered what it is due is in step with the hub, or let go. *)
LEMMA OfferInStep ==
    ASSUME NEW c \in Connections, Unbroken(Sent(c)), c.held,
           c.task # "ended" => UpToDate(Sent(c), state, targets), ~c.fresh,
           state \in Nat, targets \in Nat, state' \in {state, state + 1},
           targets' \in {targets, targets + 1}
    PROVE  LET d == Offer(c, Due(c))
           IN /\ Unbroken(Sent(d))
              /\ d.held /\ d.task # "ended" => UpToDate(Sent(d), state', targets')
              /\ ~d.fresh
              /\ d.task = "selecting" => d.hand = c.hand /\ c.task = "selecting"
<1> DEFINE d == Offer(c, Due(c))
<1>1. CASE c.task # "ended" /\ Len(c.queue) + Len(Due(c)) <= Queue
  <2> DEFINE q == c.queue \o Due(c)
  <2>1. d = [c EXCEPT !.fresh = FALSE, !.queue = q]
    BY <1>1 DEF Offer
  <2>2. /\ d.queue = q /\ ~d.fresh /\ d.task = c.task /\ d.hand = c.hand
        /\ d.received = c.received
    <3> HIDE DEF q
    <3> QED
      BY <2>1 DEF Connections
  <2>3. /\ c.received \in Seq(Messages) /\ c.hand \in Seq(Messages) /\ c.queue \in Seq(Messages)
        /\ Due(c) \in Seq(Messages)
    <3>1. state' \in Nat /\ targets' \in Nat
      OBVIOUS
    <3> QED
      BY <3>1, DueIsShort DEF Connections
  <2>4. /\ c.received \o c.hand \in Seq(Messages) /\ Sent(c) \in Seq(Messages)
    <3>1. c.received \o c.hand \in Seq(Messages)
      BY <2>3, ConcatProperties
    <3>2. (c.received \o c.hand) \o c.queue \in Seq(Messages)
      BY <2>3, <3>1, ConcatProperties
    <3> QED
      BY <3>1, <3>2 DEF Sent
  <2>5. Sent(d) = Sent(c) \o Due(c)
    <3> DEFINE x == c.received \o c.hand
               y == c.queue
               z == Due(c)
    <3>1. x \in Seq(Messages) /\ y \in Seq(Messages) /\ z \in Seq(Messages)
      BY <2>3, <2>4
    <3>2. Sent(d) = x \o (y \o z) /\ Sent(c) = x \o y
      <4> HIDE DEF d
      <4> QED
        BY <2>2 DEF Sent
    <3> HIDE DEF x, y
    <3>3. Sent(d) = x \o (y \o z) /\ Sent(c) = x \o y
      BY <3>2
    <3> HIDE DEF z, d
    <3>4. (x \o y) \o z = x \o (y \o z)
      BY <3>1, ConcatAssociative
    <3> QED
      BY <3>3, <3>4 DEF z
  <2>6. Unbroken(Sent(d)) /\ UpToDate(Sent(d), state', targets')
    BY <1>1, <2>4, <2>5, DueSent
  <2> QED
    BY <2>2, <2>6
<1>2. CASE ~(c.task # "ended" /\ Len(c.queue) + Len(Due(c)) <= Queue)
  <2>1. d = LetGo(c)
    BY <1>2 DEF Offer
  <2>2. ~LetGo(c).held /\ ~LetGo(c).fresh /\ LetGo(c).task = "ended"
    BY DEF LetGo, Connections
  <2> QED
    BY <2>1, <2>2, OnlyReceived
<1> QED
  BY <1>1, <1>2

(* A message, and what is sent after it. *)
LEMMA OneThenMore ==
    ASSUME NEW h \in Messages, NEW rest \in Seq(Messages)
    PROVE  LET all == <<h>> \o rest
           IN /\ all \in Seq(Messages) /\ Len(all) = Len(rest) + 1 /\ all[1] = h
              /\ \A i \in 1..Len(rest) : all[i + 1] = rest[i]
<1> DEFINE x == <<h>>
           all == x \o rest
<1>1. x \in Seq(Messages) /\ Len(x) = 1 /\ x[1] = h /\ Len(rest) \in Nat
  BY LenProperties
<1> HIDE DEF x
<1>2. /\ all \in Seq(Messages) /\ Len(all) = Len(rest) + 1
      /\ \A i \in 1..Len(rest) + 1 : all[i] = IF i <= 1 THEN x[i] ELSE rest[i - 1]
  <2>1. /\ all \in Seq(Messages) /\ Len(all) = Len(x) + Len(rest)
        /\ \A i \in 1..Len(x) + Len(rest) :
              all[i] = IF i <= Len(x) THEN x[i] ELSE rest[i - Len(x)]
    BY <1>1, ConcatProperties
  <2> HIDE DEF all
  <2> QED
    BY <1>1, <2>1
<1> HIDE DEF all
<1>3. all[1] = h
  <2>1. 1 \in 1..Len(rest) + 1
    BY <1>1
  <2> QED
    BY <1>1, <1>2, <2>1
<1>4. ASSUME NEW i \in 1..Len(rest) PROVE all[i + 1] = rest[i]
  <2>1. i + 1 \in 1..Len(rest) + 1 /\ ~(i + 1 <= 1) /\ i + 1 - 1 = i
    BY <1>1
  <2> QED
    BY <1>2, <2>1
<1> QED
  BY <1>2, <1>3, <1>4 DEF all, x

(* An app that has just connected is offered all three, and is in step. *)
LEMMA SpawnedInStep ==
    ASSUME state' \in Nat, targets' \in Nat
    PROVE  LET d == Offer(Spawned, Due(Spawned))
           IN /\ Unbroken(Sent(d)) /\ UpToDate(Sent(d), state', targets')
              /\ ~d.fresh /\ d.hand = <<>>
<1> DEFINE S == Message("state", state')
           T == Message("targets", targets')
           d == Offer(Spawned, Due(Spawned))
<1>1. /\ S.kind = "state" /\ T.kind = "targets" /\ Hello.kind = "hello"
  BY DEF Message, Hello
<1>2. Due(Spawned) = <<S>> \o <<T>>
  BY DEF Due, Spawned
<1>3. S \in Messages /\ T \in Messages /\ Hello \in Messages
  BY DEF Message, Messages, Hello
<1> DEFINE all == <<Hello>> \o (<<S>> \o <<T>>)
<1> HIDE DEF S, T
<1>4. <<T>> \in Seq(Messages) /\ Len(<<T>>) = 1 /\ <<T>>[1] = T /\ Len(<<Hello>>) = 1
  BY <1>3
<1>5. /\ <<S>> \o <<T>> \in Seq(Messages) /\ Len(<<S>> \o <<T>>) = 2
      /\ (<<S>> \o <<T>>)[1] = S /\ (<<S>> \o <<T>>)[2] = T
  BY <1>3, <1>4, OneThenMore
<1>6. /\ all \in Seq(Messages) /\ Len(all) = 3
      /\ all[1] = Hello /\ all[2] = S /\ all[3] = T
  BY <1>3, <1>5, OneThenMore
<1>7. DOMAIN all = 1..3
  BY <1>6, LenProperties
<1> HIDE DEF all
<1>8. Offer(Spawned, Due(Spawned)) = [Spawned EXCEPT !.fresh = FALSE, !.queue = all]
  <2>1. Spawned.queue \o Due(Spawned) = all
    BY <1>2 DEF Spawned, all
  <2>2. Spawned.task # "ended" /\ Len(Spawned.queue) + Len(Due(Spawned)) <= Queue
    <3>1. Len(Spawned.queue) = 1 /\ Len(Due(Spawned)) = 2 /\ Spawned.task = "selecting"
      BY <1>2, <1>4, <1>5 DEF Spawned
    <3> QED
      BY <3>1, ClientsAssumption
  <2> QED
    BY <2>1, <2>2 DEF Offer
<1>9. /\ d.queue = all /\ ~d.fresh /\ d.hand = <<>> /\ d.received = <<>>
  BY <1>8 DEF Spawned
<1> HIDE DEF d
<1>10. Sent(d) = all
  <2>1. <<>> \o <<>> = <<>> /\ <<>> \o all = all
    BY <1>6, ConcatEmptySeq, EmptyQueue
  <2> QED
    BY <1>9, <2>1 DEF Sent
<1>11. \A i \in DOMAIN all : i <= 3 => all[i].kind = <<"hello", "state", "targets">>[i]
  <2>1. \A i \in DOMAIN all : i = 1 \/ i = 2 \/ i = 3
    BY <1>7
  <2> QED
    BY <1>1, <1>6, <1>7, <2>1
<1>12. Consecutive(all)
  <2>1. \A i, j \in DOMAIN all : i < j => all[i].kind # all[j].kind
    <3>1. \A i \in DOMAIN all : i = 1 \/ i = 2 \/ i = 3
      BY <1>7
    <3> QED
      BY <1>1, <1>6, <1>7, <3>1
  <2> QED
    BY <2>1 DEF Consecutive
<1>13. Newest(S, all)
  <2>1. \A j \in DOMAIN all : 2 < j => j = 3
    BY <1>7
  <2>2. 2 \in DOMAIN all
    BY <1>7
  <2> QED
    BY <1>1, <1>6, <1>7, <2>1, <2>2 DEF Newest
<1>14. Newest(T, all)
  <2>1. \A j \in DOMAIN all : ~(3 < j)
    BY <1>7
  <2>2. 3 \in DOMAIN all
    BY <1>7
  <2> QED
    BY <1>6, <1>7, <2>1, <2>2 DEF Newest
<1>15. Unbroken(all)
  BY <1>11, <1>12 DEF Unbroken
<1>16. UpToDate(all, state', targets')
  BY <1>6, <1>13, <1>14 DEF UpToDate, S, T
<1> QED
  BY <1>15, <1>16, <1>9, <1>10 DEF d

(* A turn of the hub leaves every app in step. *)
LEMMA TurnInStep ==
    ASSUME IInv, InStep, NEW cs,
           \A a \in Apps : cs[a] = clients[a] \/ cs[a] = Spawned, EndOfTurn(cs),
           state' \in {state, state + 1}, targets' \in {targets, targets + 1}
    PROVE  InStep'
<1>1. state \in Nat /\ targets \in Nat /\ state' \in Nat /\ targets' \in Nat
  BY ClientsAssumption DEF IInv
<1>2. ASSUME NEW a \in Apps
      PROVE  /\ Unbroken(Sent(clients'[a]))
             /\ clients'[a].held /\ clients'[a].task # "ended" =>
                   UpToDate(Sent(clients'[a]), state', targets')
             /\ ~clients'[a].fresh
             /\ clients'[a].task = "selecting" => clients'[a].hand = <<>>
  <2>1. clients'[a] = IF cs[a].held THEN Offer(cs[a], Due(cs[a])) ELSE cs[a]
    BY DEF EndOfTurn
  <2>2. CASE cs[a] = Spawned
    <3>1. clients'[a] = Offer(Spawned, Due(Spawned))
      BY <2>1, <2>2 DEF Spawned
    <3> QED
      BY <1>1, <3>1, SpawnedInStep
  <2>3. CASE cs[a] = clients[a] /\ ~clients[a].held
    BY <2>1, <2>3 DEF InStep
  <2>4. CASE cs[a] = clients[a] /\ clients[a].held
    <3>1. clients'[a] = Offer(clients[a], Due(clients[a]))
      BY <2>1, <2>4
    <3>2. /\ clients[a] \in Connections /\ Unbroken(Sent(clients[a])) /\ ~clients[a].fresh
          /\ clients[a].task # "ended" => UpToDate(Sent(clients[a]), state, targets)
          /\ clients[a].task = "selecting" => clients[a].hand = <<>>
      BY <2>4 DEF IInv, Fits, InStep
    <3>3. LET d == Offer(clients[a], Due(clients[a]))
          IN /\ Unbroken(Sent(d))
             /\ d.held /\ d.task # "ended" => UpToDate(Sent(d), state', targets')
             /\ ~d.fresh
             /\ d.task = "selecting" => d.hand = clients[a].hand /\ clients[a].task = "selecting"
      BY <1>1, <2>4, <3>2, OfferInStep
    <3> QED
      BY <3>1, <3>2, <3>3
  <2> QED
    BY <2>2, <2>3, <2>4
<1> QED
  BY <1>2 DEF InStep

(* A step of a task, or of the app, that keeps what was sent, or ends the task. *)
LEMMA BecomesInStep ==
    ASSUME IInv, InStep, NEW a \in Apps, NEW d, Becomes(a, d), Unbroken(Sent(d)),
           d.held /\ d.task # "ended" =>
              Sent(d) = Sent(clients[a]) /\ clients[a].held /\ clients[a].task # "ended",
           ~d.fresh, d.task = "selecting" => d.hand = <<>>
    PROVE  InStep'
<1>1. /\ clients' = [clients EXCEPT ![a] = d] /\ state' = state /\ targets' = targets
      /\ DOMAIN clients = Apps
  BY DEF Becomes, IInv
<1>2. ASSUME NEW b \in Apps
      PROVE  /\ Unbroken(Sent(clients'[b]))
             /\ clients'[b].held /\ clients'[b].task # "ended" =>
                   UpToDate(Sent(clients'[b]), state', targets')
             /\ ~clients'[b].fresh
             /\ clients'[b].task = "selecting" => clients'[b].hand = <<>>
  <2>1. CASE b = a
    <3>1. clients'[b] = d
      BY <1>1, <2>1
    <3>2. d.held /\ d.task # "ended" => UpToDate(Sent(d), state, targets)
      BY DEF InStep
    <3> QED
      BY <1>1, <3>1, <3>2
  <2>2. CASE b # a
    <3>1. clients'[b] = clients[b]
      BY <1>1, <2>2
    <3> QED
      BY <1>1, <3>1 DEF InStep
  <2> QED
    BY <2>1, <2>2
<1> QED
  BY <1>2 DEF InStep

(* Three queues of messages joined one after another, whichever pair is joined first. *)
LEMMA JoinedInTurn ==
    ASSUME NEW k \in Seq(Messages), NEW l \in Seq(Messages), NEW m \in Seq(Messages)
    PROVE  (k \o l) \o m = k \o (l \o m)
BY ConcatAssociative

(* A message taken off the queue, or written, is still among those sent. *)
LEMMA SameSent ==
    ASSUME NEW c \in Connections
    PROVE  /\ c.queue # <<>> /\ c.hand = <<>> =>
                 Sent([c EXCEPT !.task = "writing", !.hand = <<Head(c.queue)>>,
                                !.queue = Tail(c.queue)]) = Sent(c)
           /\ Sent([c EXCEPT !.task = "selecting", !.received = @ \o c.hand, !.hand = <<>>])
                 = Sent(c)
           /\ Sent([c EXCEPT !.open = FALSE]) = Sent(c)
<1> DEFINE r == c.received
           h == c.hand
           q == c.queue
           x == <<Head(q)>>
           y == Tail(q)
           rh == r \o h
<1>1. r \in Seq(Messages) /\ h \in Seq(Messages) /\ q \in Seq(Messages)
  BY DEF Connections
<1>2. ASSUME q # <<>>, h = <<>>
      PROVE  (r \o x) \o y = (r \o h) \o q
  <2>1. x \in Seq(Messages) /\ y \in Seq(Messages) /\ x \o y = q
    <3> HIDE DEF q
    <3>1. Head(q) \in Messages /\ y \in Seq(Messages)
      BY <1>1, <1>2, HeadTailProperties
    <3>2. x \in Seq(Messages)
      BY <3>1
    <3>3. x \o y = q
      <4>1. Len(q) \in Nat /\ Len(q) >= 1 /\ Head(q) = q[1]
        BY <1>1, <1>2, LenProperties, EmptySeq
      <4>2. SubSeq(q, 1, Len(q)) = <<q[1]>> \o SubSeq(q, 1 + 1, Len(q))
        BY <1>1, <4>1, SubSeqRecursiveFirst
      <4>3. SubSeq(q, 1, Len(q)) = q /\ Tail(q) = SubSeq(q, 2, Len(q))
        BY <1>1, <1>2, SubSeqFull, TailIsSubSeq
      <4>4. 1 + 1 = 2
        OBVIOUS
      <4> QED
        BY <4>1, <4>2, <4>3, <4>4, Zenon DEF x, y
    <3> QED
      BY <3>1, <3>2, <3>3
  <2> HIDE DEF x, y, r, q
  <2>2. (r \o x) \o y = r \o (x \o y)
    <3>1. r \in Seq(Messages) /\ x \in Seq(Messages) /\ y \in Seq(Messages)
      BY <1>1, <2>1
    <3> HIDE <1>1, <1>2, <2>1
    <3> QED
      BY <3>1, JoinedInTurn, Zenon
  <2>3. r \o h = r
    BY <1>1, <1>2, ConcatEmptySeq
  <2> QED
    BY <2>1, <2>2, <2>3
<1>3. rh \in Seq(Messages) /\ rh \o <<>> = rh
  <2> HIDE DEF r, h
  <2>1. r \o h \in Seq(Messages)
    BY <1>1, ConcatProperties
  <2> HIDE DEF rh
  <2>2. rh \in Seq(Messages)
    BY <2>1 DEF rh
  <2> QED
    BY <2>2, ConcatEmptySeq
<1> HIDE DEF rh, x, y
<1>4. Sent([c EXCEPT !.task = "writing", !.hand = x, !.queue = y]) = (r \o x) \o y
  BY DEF Sent, Connections
<1>5. Sent([c EXCEPT !.task = "selecting", !.received = rh, !.hand = <<>>]) = (rh \o <<>>) \o q
  BY DEF Sent, Connections
<1>6. Sent([c EXCEPT !.open = FALSE]) = Sent(c) /\ Sent(c) = (r \o h) \o q
  BY DEF Sent, Connections
<1> QED
  BY <1>2, <1>3, <1>4, <1>5, <1>6 DEF rh, x, y

(* Nobody is skipped ahead, or sent anything twice or out of turn, by any step. *)
LEMMA NextInStep == IInv /\ InStep /\ [Next]_vars => InStep'
<1> SUFFICES ASSUME IInv, InStep, [Next]_vars PROVE InStep'
  OBVIOUS
<1>0. ASSUME NEW a \in Apps
      PROVE  /\ clients[a] \in Connections /\ Unbroken(Sent(clients[a])) /\ ~clients[a].fresh
             /\ clients[a].task = "selecting" => clients[a].hand = <<>>
  BY DEF IInv, Fits, InStep
<1>1. CASE EventTurn \/ Tick
  <2>1. /\ state' \in {state, state + 1} /\ targets' \in {targets, targets + 1}
        /\ EndOfTurn(clients)
    BY <1>1 DEF EventTurn, Tick, StateMayChange
  <2> QED
    BY <2>1, TurnInStep
<1>2. ASSUME NEW a \in Apps, Accept(a) PROVE InStep'
  <2> DEFINE cs == [clients EXCEPT ![a] = Spawned]
  <2>1. /\ state' \in {state, state + 1} /\ targets' \in {targets, targets + 1}
        /\ EndOfTurn(cs)
    BY <1>2 DEF Accept, StateMayChange
  <2>2. \A b \in Apps : cs[b] = clients[b] \/ cs[b] = Spawned
    BY DEF IInv
  <2> HIDE DEF cs
  <2> QED
    BY <2>1, <2>2, TurnInStep
<1>3. ASSUME NEW a \in Apps, Take(a) PROVE InStep'
  <2> DEFINE d == [clients[a] EXCEPT !.task = "writing", !.hand = <<Head(clients[a].queue)>>,
                                     !.queue = Tail(clients[a].queue)]
  <2>1. clients[a].task = "selecting" /\ clients[a].queue # <<>> /\ Becomes(a, d)
    BY <1>3 DEF Take
  <2>2. Sent(d) = Sent(clients[a])
    BY <1>0, <2>1, SameSent
  <2>3. d.task = "writing" /\ d.held = clients[a].held /\ d.fresh = clients[a].fresh
    BY <1>0 DEF Connections
  <2> HIDE DEF d
  <2> QED
    BY <1>0, <2>1, <2>2, <2>3, BecomesInStep
<1>4. ASSUME NEW a \in Apps, Written(a) PROVE InStep'
  <2> DEFINE d == [clients[a] EXCEPT !.task = "selecting", !.received = @ \o clients[a].hand,
                                     !.hand = <<>>]
  <2>1. clients[a].task = "writing" /\ Becomes(a, d)
    BY <1>4 DEF Written
  <2>2. Sent(d) = Sent(clients[a])
    BY <1>0, SameSent
  <2>3. d.hand = <<>> /\ d.held = clients[a].held /\ d.fresh = clients[a].fresh
    BY <1>0 DEF Connections
  <2> HIDE DEF d
  <2> QED
    BY <1>0, <2>1, <2>2, <2>3, BecomesInStep
<1>5. ASSUME NEW a \in Apps, WriteFails(a) \/ FindLeft(a) PROVE InStep'
  <2> DEFINE e == Ended(clients[a])
             t == [Ended(clients[a]) EXCEPT !.torn = TRUE]
  <2>1. Becomes(a, e) \/ Becomes(a, t)
    BY <1>5 DEF WriteFails, FindLeft
  <2>2. Unbroken(Sent(e)) /\ Unbroken(Sent(t))
    BY <1>0, OnlyReceived
  <2>3. e.task = "ended" /\ t.task = "ended" /\ ~e.fresh /\ ~t.fresh
    BY <1>0 DEF Connections, Ended
  <2> HIDE DEF e, t
  <2> QED
    BY <2>1, <2>2, <2>3, BecomesInStep
<1>6. ASSUME NEW a \in Apps, Leave(a) PROVE InStep'
  <2> DEFINE d == [clients[a] EXCEPT !.open = FALSE]
  <2>1. Becomes(a, d)
    BY <1>6 DEF Leave
  <2>2. Sent(d) = Sent(clients[a])
    BY <1>0, SameSent
  <2>3. /\ d.task = clients[a].task /\ d.held = clients[a].held /\ d.fresh = clients[a].fresh
        /\ d.hand = clients[a].hand
    BY <1>0 DEF Connections
  <2> HIDE DEF d
  <2> QED
    BY <1>0, <2>1, <2>2, <2>3, BecomesInStep
<1>7. CASE UNCHANGED vars
  BY <1>7 DEF vars, InStep
<1> QED
  BY <1>1, <1>2, <1>3, <1>4, <1>5, <1>6, <1>7 DEF Next

(* Nobody was sent anything yet. *)
LEMMA InitInStep == Init => InStep
<1>1. Sent(Away) = <<>>
  BY DEF Sent, Away
<1>2. Unbroken(<<>>)
  BY DEF Unbroken, Consecutive
<1> QED
  BY <1>1, <1>2 DEF Init, InStep, Away

(* An app gets every version of the state and of the traffic, each once and in order, or is
   let go. *)
THEOREM NobodySkips == Spec => []NothingSkipped
<1>1. InStep => NothingSkipped
  BY DEF InStep, NothingSkipped, Unbroken, UpToDate
<1> QED
  BY <1>1, InitInStep, NextInStep, InvariantHolds, PTL DEF Spec
================================================================================

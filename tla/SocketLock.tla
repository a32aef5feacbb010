------------------------------- MODULE SocketLock -------------------------------
(***************************************************************************)
(* One socket, one hub: bind, lock and SocketFile of src/hub.rs, run by    *)
(* any number of processes on the same path, that may be started again and *)
(* again, and killed at any step.                                          *)
(*                                                                         *)
(* A file is told by a number, its inode; flock belongs to the open file   *)
(* and goes with the process.  An app connects by the path.                *)
(***************************************************************************)
EXTENDS Integers, FiniteSets

CONSTANTS
    Hubs,       \* the processes
    MaxFiles    \* bound: files made in one behaviour

VARIABLES
    files,      \* how many files have been made: the next one's number
    lockFile,   \* the file at keel.sock.lock
    sockFile,   \* what is at keel.sock
    flock,      \* which hub holds the lock of each file
    hubs        \* each hub: where it is in bind, the lock file it opened, its socket

lockVars == <<files, lockFile, sockFile, flock, hubs>>

ASSUME MaxFilesAssumption == MaxFiles \in Nat

-----------------------------------------------------------------------------
None == 0                         \* no file at a path, and no hub's file
NoHub == "nobody"

ASSUME HubsAssumption == NoHub \notin Hubs

(* What is at the path of the socket: a file's number, and whether it is a socket. *)
At(file, socket) == [file |-> file, socket |-> socket]
Nothing == At(None, FALSE)

(* idle: not started, ended or killed.  opened: the lock file is open.  locked: the
   lock is held.  seen: a socket was found at the path.  clear: nothing is at the
   path.  serving: bound.  removed: leaving, the socket removed and the lock not
   yet let go. *)
Steps == {"idle", "opened", "locked", "seen", "clear", "serving", "removed"}
Idle == [at |-> "idle", fd |-> None, socket |-> None]

LockInit ==
    /\ files = 0
    /\ lockFile = None
    /\ sockFile = Nothing
    /\ flock = [f \in 1..MaxFiles |-> NoHub]
    /\ hubs = [h \in Hubs |-> Idle]

MakesFile == files < MaxFiles /\ files' = files + 1

(* The hub is over, however it ends: its descriptors are closed, and the lock of
   the file it had open goes with them. *)
Ends(h) ==
    /\ hubs' = [hubs EXCEPT ![h] = Idle]
    /\ flock' = [f \in DOMAIN flock |-> IF flock[f] = h THEN NoHub ELSE flock[f]]

-----------------------------------------------------------------------------
(* lock: open(create) finds the lock file or makes it. *)
OpenLock(h) ==
    /\ hubs[h].at = "idle"
    /\ \/ lockFile # None /\ UNCHANGED <<files, lockFile>>
       \/ lockFile = None /\ MakesFile /\ lockFile' = files'
    /\ hubs' = [hubs EXCEPT ![h] = [@ EXCEPT !.at = "opened", !.fd = lockFile']]
    /\ UNCHANGED <<sockFile, flock>>

(* Mutation: flock is asked for a shared lock. *)
TakeSharedLock(h) ==
    /\ hubs[h].at = "opened"
    /\ flock' = [flock EXCEPT ![hubs[h].fd] = h]
    /\ hubs' = [hubs EXCEPT ![h].at = "locked"]
    /\ UNCHANGED <<files, lockFile, sockFile>>

(* lock: flock(LOCK_EX | LOCK_NB) on the file that was opened. *)
TakeLock(h) ==
    /\ hubs[h].at = "opened" /\ flock[hubs[h].fd] = NoHub
    /\ flock' = [flock EXCEPT ![hubs[h].fd] = h]
    /\ hubs' = [hubs EXCEPT ![h].at = "locked"]
    /\ UNCHANGED <<files, lockFile, sockFile>>

(* lock: another holds it, and this one reports that a hub is already running. *)
Refused(h) ==
    /\ hubs[h].at = "opened" /\ flock[hubs[h].fd] # NoHub
    /\ Ends(h)
    /\ UNCHANGED <<files, lockFile, sockFile>>

(* Mutation: whatever is at the path is replaced. *)
LookTakesAll(h) ==
    /\ hubs[h].at = "locked"
    /\ hubs' = [hubs EXCEPT ![h].at = IF sockFile = Nothing THEN "clear" ELSE "seen"]
    /\ UNCHANGED <<files, lockFile, sockFile, flock>>

(* bind: what is at the path is a socket, or nothing. *)
Look(h) ==
    /\ hubs[h].at = "locked"
    /\ sockFile = Nothing \/ sockFile.socket
    /\ hubs' = [hubs EXCEPT ![h].at = IF sockFile = Nothing THEN "clear" ELSE "seen"]
    /\ UNCHANGED <<files, lockFile, sockFile, flock>>

(* bind: something else is there, and the hub leaves it alone. *)
LookRefuses(h) ==
    /\ hubs[h].at = "locked"
    /\ sockFile # Nothing /\ ~sockFile.socket
    /\ Ends(h)
    /\ UNCHANGED <<files, lockFile, sockFile>>

(* bind: the socket a crashed hub left is removed. *)
RemoveStale(h) ==
    /\ hubs[h].at = "seen"
    /\ sockFile' = Nothing
    /\ hubs' = [hubs EXCEPT ![h].at = "clear"]
    /\ UNCHANGED <<files, lockFile, flock>>

(* UnixListener::bind makes the socket, and fails if anything is at the path. *)
Bind(h) ==
    /\ hubs[h].at = "clear" /\ sockFile = Nothing /\ MakesFile
    /\ sockFile' = At(files', TRUE)
    /\ hubs' = [hubs EXCEPT ![h] = [@ EXCEPT !.at = "serving", !.socket = files']]
    /\ UNCHANGED <<lockFile, flock>>

BindFails(h) ==
    /\ hubs[h].at = "clear" /\ sockFile # Nothing
    /\ Ends(h)
    /\ UNCHANGED <<files, lockFile, sockFile>>

(* SocketFile's drop, at exit, on a signal, or when recording cannot start: the
   socket at the path is removed... *)
RemoveOwn(h) ==
    /\ hubs[h].at = "serving"
    /\ sockFile' = Nothing
    /\ hubs' = [hubs EXCEPT ![h] = [@ EXCEPT !.at = "removed", !.socket = None]]
    /\ UNCHANGED <<files, lockFile, flock>>

(* Mutation: the lock file is removed with the lock. *)
UnlinkLock(h) ==
    /\ hubs[h].at = "removed"
    /\ lockFile' = None
    /\ Ends(h)
    /\ UNCHANGED <<files, sockFile>>

(* ...and then the lock is let go. *)
LetLockGo(h) ==
    /\ hubs[h].at = "removed"
    /\ Ends(h)
    /\ UNCHANGED <<files, lockFile, sockFile>>

(* A crash, a power cut or kill -9: what is on the file system stays. *)
Crash(h) ==
    /\ hubs[h].at # "idle"
    /\ Ends(h)
    /\ UNCHANGED <<files, lockFile, sockFile>>

(* Someone else makes a file of their own where nothing was. *)
Intrude ==
    /\ sockFile = Nothing /\ MakesFile
    /\ sockFile' = At(files', FALSE)
    /\ UNCHANGED <<lockFile, flock, hubs>>

LockNext ==
    \/ \E h \in Hubs :
        \/ OpenLock(h) \/ TakeLock(h) \/ Refused(h)
        \/ Look(h) \/ LookRefuses(h) \/ RemoveStale(h) \/ Bind(h) \/ BindFails(h)
        \/ RemoveOwn(h) \/ LetLockGo(h) \/ Crash(h)
    \/ Intrude

LockSpec == LockInit /\ [][LockNext]_lockVars

-----------------------------------------------------------------------------
LockTypeOK ==
    /\ files \in 0..MaxFiles
    /\ lockFile \in 0..MaxFiles
    /\ sockFile \in [file : 0..MaxFiles, socket : BOOLEAN]
    /\ flock \in [1..MaxFiles -> Hubs \cup {NoHub}]
    /\ hubs \in [Hubs -> [at : Steps, fd : 0..MaxFiles, socket : 0..MaxFiles]]

Serving(h) == hubs[h].at = "serving"
Entitled(h) == hubs[h].at \in Steps \ {"idle", "opened"}

(* Two hubs are never past the lock at once, so one socket has one hub, however
   many are started, however they end, and whoever opened the lock file when. *)
OneHub == \A h, k \in Hubs : Entitled(h) /\ Entitled(k) => h = k

(* A hub that serves is the one an app reaches: the socket at the path is its own,
   not one that another start, another exit or a crash left or took away. *)
ServedAtPath ==
    \A h \in Hubs : Serving(h) => sockFile = At(hubs[h].socket, TRUE)

(* Nothing at the path is ever taken away but a socket, and the socket of a hub that
   serves only by that hub's own leaving. *)
TakesOnlySockets ==
    [][sockFile # Nothing /\ sockFile' # sockFile =>
          /\ sockFile.socket
          /\ \A h \in Hubs : Serving(h) => hubs'[h].at = "removed"]_lockVars
=============================================================================

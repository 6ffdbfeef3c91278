------------------------------ MODULE WorkerLock ------------------------------
(***************************************************************************)
(* The lock file of the worker (worker/lock.js): there is one tablet, so   *)
(* one worker process may drive it.  A process creates the file with the   *)
(* flag 'wx', writes its pid into it, and takes over a file whose pid      *)
(* belongs to no live process.  Every file operation is a step of its own, *)
(* between the steps of other processes, and a process may die anywhere.   *)
(*                                                                         *)
(* A process creates one file in its life, so a file is named after the    *)
(* process that created it.  Pids are not reused.                          *)
(***************************************************************************)

CONSTANTS Processes,  \* worker processes that are ever started (bound)
          Nobody,     \* no process, or no lock file
          OneStart    \* TRUE: a worker is not started while another one starts

ASSUME LockAssumption == Nobody \notin Processes /\ OneStart \in BOOLEAN

VARIABLES pc,       \* [Processes -> Control], what the process does next
          file,     \* the lock file: the process that created it, or Nobody
          written,  \* [Processes -> BOOLEAN], its file has the pid in it
          holder    \* [Processes -> Processes or Nobody], the pid it has read

vars == <<pc, file, written, holder>>

Starting == {"open", "write", "read", "check", "unlink", "reopen"}
Holding == {"running", "release", "unlinkOwn"}
Control == {"new", "refused", "gone"} \cup Starting \cup Holding

LockTypeOK ==
    /\ pc \in [Processes -> Control]
    /\ file \in Processes \cup {Nobody}
    /\ written \in [Processes -> BOOLEAN]
    /\ holder \in [Processes -> Processes \cup {Nobody}]

LockInit ==
    /\ pc = [p \in Processes |-> "new"]
    /\ file = Nobody
    /\ written = [p \in Processes |-> FALSE]
    /\ holder = [p \in Processes |-> Nobody]

Proceed(p, where) == pc' = [pc EXCEPT ![p] = where]

\* isProcessAlive: signal 0 reaches the process.  No pid means no process.
Alive(p) == p # Nobody /\ pc[p] \in Starting \cup Holding

\* readFile and parseInt: a missing or a still empty file gives no pid.
Pid == IF file # Nobody /\ written[file] THEN file ELSE Nobody
-----------------------------------------------------------------------------
Start(p) ==
    /\ pc[p] = "new"
    /\ OneStart => \A q \in Processes : pc[q] \notin Starting
    /\ Proceed(p, "open")
    /\ UNCHANGED <<file, written, holder>>

\* open(lockFile, 'wx') fails if the file exists.
Open(p) ==
    /\ pc[p] = "open"
    /\ IF file = Nobody THEN file' = p /\ Proceed(p, "write")
       ELSE UNCHANGED file /\ Proceed(p, "read")
    /\ UNCHANGED <<written, holder>>

WritePid(p) ==
    /\ pc[p] = "write"
    /\ written' = [written EXCEPT ![p] = TRUE]
    /\ Proceed(p, "running")
    /\ UNCHANGED <<file, holder>>

ReadHolder(p) ==
    /\ pc[p] = "read"
    /\ holder' = [holder EXCEPT ![p] = Pid]
    /\ Proceed(p, "check")
    /\ UNCHANGED <<file, written>>

MayTakeOver_Empty(p) == holder[p] = Nobody
MayTakeOver_Always(p) == TRUE
MayTakeOver(p) == ~Alive(holder[p])

CheckHolder(p) ==
    /\ pc[p] = "check"
    /\ Proceed(p, IF MayTakeOver(p) THEN "unlink" ELSE "refused")
    /\ UNCHANGED <<file, written, holder>>

\* unlink removes whatever file has that name by now.
Unlink(p) ==
    /\ pc[p] = "unlink"
    /\ file' = Nobody
    /\ Proceed(p, "reopen")
    /\ UNCHANGED <<written, holder>>

\* The second try is the last one.
Reopen(p) ==
    /\ pc[p] = "reopen"
    /\ IF file = Nobody THEN file' = p /\ Proceed(p, "write")
       ELSE UNCHANGED file /\ Proceed(p, "refused")
    /\ UNCHANGED <<written, holder>>

\* SIGTERM ends the loop of main, which then releases the lock.
Finish(p) ==
    /\ pc[p] = "running"
    /\ Proceed(p, "release")
    /\ UNCHANGED <<file, written, holder>>

\* release: only a file with the own pid in it is removed.
ReadOwn(p) ==
    /\ pc[p] = "release"
    /\ Proceed(p, IF Pid = p THEN "unlinkOwn" ELSE "gone")
    /\ UNCHANGED <<file, written, holder>>

UnlinkOwn(p) ==
    /\ pc[p] = "unlinkOwn"
    /\ file' = Nobody
    /\ Proceed(p, "gone")
    /\ UNCHANGED <<written, holder>>

\* The process is killed, or loses its power.
Die(p) ==
    /\ Alive(p)
    /\ Proceed(p, "gone")
    /\ UNCHANGED <<file, written, holder>>

LockNext ==
    \E p \in Processes :
        \/ Start(p) \/ Open(p) \/ WritePid(p) \/ ReadHolder(p)
        \/ CheckHolder(p) \/ Unlink(p) \/ Reopen(p)
        \/ Finish(p) \/ ReadOwn(p) \/ UnlinkOwn(p) \/ Die(p)

LockSpec == LockInit /\ [][LockNext]_vars
-----------------------------------------------------------------------------
\* At most one worker drives the tablet, across crashes, take-overs and clean
\* stops (the header of lock.js).
OneWorker ==
    \A p, q \in Processes : pc[p] = "running" /\ pc[q] = "running" => p = q

\* A worker is refused only while another one holds the lock: a lock file that
\* a dead process left behind, empty or not, never keeps the tablet without a
\* worker (lock.js:11).
RefusedByWorker ==
    [][\A p \in Processes :
          pc[p] # "refused" /\ pc'[p] = "refused" =>
             \E q \in Processes \ {p} : pc[q] \in Holding]_vars

\* Why they hold when starts do not overlap: whoever has the lock owns the
\* file, with its pid in it, and no starting process is about to remove it.
LockInv ==
    /\ LockTypeOK
    /\ \A p, q \in Processes : pc[p] \in Starting /\ pc[q] \in Starting => p = q
    /\ \A p \in Processes :
          /\ pc[p] \in Holding => file = p /\ written[p]
          /\ pc[p] = "write" => file = p
          /\ pc[p] \in {"new"} \cup (Starting \ {"write"}) => file # p
          /\ holder[p] # p
          /\ pc[p] = "check" /\ file # Nobody /\ Alive(file) => holder[p] = file
          /\ pc[p] = "unlink" => file = Nobody \/ ~Alive(file)
          /\ pc[p] = "reopen" => file = Nobody
=============================================================================

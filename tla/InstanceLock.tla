---------------------------- MODULE InstanceLock ----------------------------
(***************************************************************************)
(* The lockfile of instance_lock.py for one session: the processes that    *)
(* start with it, the file system entry, and the kernel's flock.           *)
(*                                                                         *)
(* A process opens or creates the file, takes the flock without waiting,   *)
(* checks that the path still names the file it locked, and writes its     *)
(* PID.  A process that finds the flock taken terminates the process named *)
(* in the file and tries again until its deadline.  A process may be       *)
(* killed between any two system calls, and its PID come back as another   *)
(* start of the program.                                                   *)
(***************************************************************************)
EXTENDS Integers, FiniteSets

CONSTANTS
    Procs,      \* process identifiers
    Inodes,     \* files the path may come to name
    None        \* no file, no process, no text

ASSUME InstanceLockAssumption == None \notin Procs /\ None \notin Inodes

VARIABLES
    pc,         \* where each process is
    fd,         \* the file it has open (candidate_fd, then _active_lock_fd)
    prey,       \* the PID it read from the lockfile and is terminating
    file,       \* the inode lock_path names
    flock,      \* who has the flock of each inode
    text        \* the PID written in each inode

vars == <<pc, fd, prey, file, flock, text>>

Steps == {"off", "open", "retry", "flock", "verify", "busy", "sigterm",
          "poll", "close", "truncate", "write", "held", "compare", "unlink",
          "release", "leaving", "unlocked"}

Init ==
    /\ pc = [p \in Procs |-> "off"]
    /\ fd = [p \in Procs |-> None]
    /\ prey = [p \in Procs |-> None]
    /\ file = None
    /\ flock = [i \in Inodes |-> None]
    /\ text = [i \in Inodes |-> None]

Goto(p, step) == pc' = [pc EXCEPT ![p] = step]

\* Closing a descriptor, or dying with it, gives its flock up.
Freed(p) == [i \in Inodes |-> IF flock[i] = p THEN None ELSE flock[i]]
CloseFd(p) == fd' = [fd EXCEPT ![p] = None] /\ flock' = Freed(p)

-----------------------------------------------------------------------------
(* acquire_instance_lock                                                   *)

Launch(p) ==
    /\ pc[p] = "off"
    /\ Goto(p, "open")
    /\ UNCHANGED <<fd, prey, file, flock, text>>

\* O_CREAT: the file the path names, or a new one.  The kernel reuses the
\* number of an inode once no path and no descriptor refers to it.
Unused(i) == i # file /\ \A q \in Procs : fd[q] # i

Open_Truncating(p) ==
    /\ pc[p] \in {"open", "retry"}
    /\ \E i \in Inodes :
          /\ IF file = None THEN Unused(i) ELSE i = file
          /\ file' = i
          /\ fd' = [fd EXCEPT ![p] = i]
          /\ text' = [text EXCEPT ![i] = None]
    /\ Goto(p, "flock")
    /\ UNCHANGED <<prey, flock>>
Open(p) ==
    /\ pc[p] \in {"open", "retry"}
    /\ \/ /\ file # None
          /\ fd' = [fd EXCEPT ![p] = file]
          /\ UNCHANGED <<file, text>>
       \/ /\ file = None
          /\ \E i \in Inodes :
                /\ Unused(i)
                /\ file' = i
                /\ fd' = [fd EXCEPT ![p] = i]
                /\ text' = [text EXCEPT ![i] = None]
    /\ Goto(p, "flock")
    /\ UNCHANGED <<prey, flock>>

FlockTaken(p) ==
    /\ pc[p] = "flock" /\ flock[fd[p]] = None
    /\ flock' = [flock EXCEPT ![fd[p]] = p]
    /\ Goto(p, "verify")
    /\ UNCHANGED <<fd, prey, file, text>>

FlockBusy(p) ==
    /\ pc[p] = "flock" /\ flock[fd[p]] # None
    /\ Goto(p, "busy")
    /\ UNCHANGED <<fd, prey, file, flock, text>>

\* The same device and inode behind the descriptor and the path.
SameFile_Assumed(p) == TRUE
SameFile(p) == file = fd[p]

Verified(p) ==
    /\ pc[p] = "verify" /\ SameFile(p)
    /\ Goto(p, "truncate")
    /\ UNCHANGED <<fd, prey, file, flock, text>>

Phantom(p) ==
    /\ pc[p] = "verify" /\ ~SameFile(p)
    /\ CloseFd(p)
    /\ Goto(p, "retry")
    /\ UNCHANGED <<prey, file, text>>

Truncate(p) ==
    /\ pc[p] = "truncate"
    /\ text' = [text EXCEPT ![fd[p]] = None]
    /\ Goto(p, "write")
    /\ UNCHANGED <<fd, prey, file, flock>>

Write_Descriptor(p) ==
    /\ pc[p] = "write"
    /\ text' = [text EXCEPT ![fd[p]] = fd[p]]
    /\ Goto(p, "held")
    /\ UNCHANGED <<fd, prey, file, flock>>
Write(p) ==
    /\ pc[p] = "write"
    /\ text' = [text EXCEPT ![fd[p]] = p]
    /\ Goto(p, "held")
    /\ UNCHANGED <<fd, prey, file, flock>>

\* Writing the PID fails; the exception reaches the caller, which ignores it.
WriteFails(p) ==
    /\ pc[p] \in {"truncate", "write"}
    /\ CloseFd(p)
    /\ Goto(p, "unlocked")
    /\ UNCHANGED <<prey, file, text>>

\* The deadline, after a try that failed: TimeoutError, which cli.py and web/__main__.py ignore too.
TimeOut(p) ==
    /\ pc[p] = "retry"
    /\ Goto(p, "unlocked")
    /\ UNCHANGED <<fd, prey, file, flock, text>>

-----------------------------------------------------------------------------
(* The flock is taken: terminate_existing_process, then another try.       *)

Alive(p) == pc[p] # "off"

\* The PID in the file the path names now, if it is that of a live process
\* of this program other than the reader.
ReadPid(p) ==
    /\ pc[p] = "busy"
    /\ IF file # None /\ text[file] \in Procs \ {p} /\ Alive(text[file])
         THEN prey' = [prey EXCEPT ![p] = text[file]] /\ Goto(p, "sigterm")
         ELSE prey' = prey /\ Goto(p, "close")
    /\ UNCHANGED <<fd, file, flock, text>>

\* A process dies, by a signal's default action or by itself.
Dies(q, others) ==
    /\ pc' = [others EXCEPT ![q] = "off"]
    /\ CloseFd(q)

\* SIGTERM: a holder's handler begins its cleanup, at once or, where the web
\* server has its own handler, when that has shut it down; within the cleanup
\* it cuts that short, to its finally block; without a handler it kills.
Sigterm(p, q) ==
    /\ pc[p] = "sigterm" /\ q = prey[p]
    /\ \/ /\ pc[q] = "held"
          /\ pc' = [pc EXCEPT ![p] = "poll", ![q] = "compare"]
          /\ UNCHANGED <<fd, flock>>
       \/ /\ pc[q] \in {"compare", "unlink", "release"}
          /\ pc' = [pc EXCEPT ![p] = "poll", ![q] = "release"]
          /\ UNCHANGED <<fd, flock>>
       \/ /\ pc[q] \in {"held", "leaving"}
          /\ Goto(p, "poll")
          /\ UNCHANGED <<fd, flock>>
       \/ /\ pc[q] \notin {"held", "compare", "unlink", "release", "leaving"}
          /\ Dies(q, [pc EXCEPT ![p] = "poll"])
    /\ UNCHANGED <<prey, file, text>>

\* Two seconds without its exit: SIGKILL.
Sigkill(p, q) ==
    /\ pc[p] = "poll" /\ q = prey[p] /\ Alive(q)
    /\ Dies(q, [pc EXCEPT ![p] = "close"])
    /\ prey' = [prey EXCEPT ![p] = None]
    /\ UNCHANGED <<file, text>>

Gone(p) ==
    /\ pc[p] = "poll" /\ ~Alive(prey[p])
    /\ prey' = [prey EXCEPT ![p] = None]
    /\ Goto(p, "close")
    /\ UNCHANGED <<fd, file, flock, text>>

CloseAndRetry(p) ==
    /\ pc[p] = "close"
    /\ CloseFd(p)
    /\ Goto(p, "retry")
    /\ UNCHANGED <<prey, file, text>>

-----------------------------------------------------------------------------
(* cleanup_instance_lock, from atexit or a signal handler.                 *)

Cleanup_ReleaseFirst(p) ==
    /\ pc[p] = "held"
    /\ flock' = Freed(p)
    /\ Goto(p, "compare")
    /\ UNCHANGED <<fd, prey, file, text>>
Cleanup(p) ==
    /\ pc[p] = "held"
    /\ Goto(p, "compare")
    /\ UNCHANGED <<fd, prey, file, flock, text>>

\* Unlinked only when the path still names the locked file; an error in the
\* comparison leaves it.
Compare(p) ==
    /\ pc[p] = "compare"
    /\ Goto(p, "release") \/ (SameFile(p) /\ Goto(p, "unlink"))
    /\ UNCHANGED <<fd, prey, file, flock, text>>

Unlink(p) ==
    /\ pc[p] = "unlink"
    /\ file' = None
    /\ Goto(p, "release")
    /\ UNCHANGED <<fd, prey, flock, text>>

Release(p) ==
    /\ pc[p] = "release"
    /\ CloseFd(p)
    /\ Goto(p, "leaving")
    /\ UNCHANGED <<prey, file, text>>

\* The process ends: it leaves after its cleanup, or an instance that never
\* had the lock ends its work, or it is killed wherever it is.
Die(p) ==
    /\ Alive(p)
    /\ Dies(p, pc)
    /\ prey' = [prey EXCEPT ![p] = None]
    /\ UNCHANGED <<file, text>>

Step(p) ==
    \/ Launch(p) \/ Open(p) \/ FlockTaken(p) \/ FlockBusy(p)
    \/ Verified(p) \/ Phantom(p) \/ Truncate(p) \/ Write(p) \/ WriteFails(p)
    \/ TimeOut(p) \/ ReadPid(p) \/ Gone(p)
    \/ \E q \in Procs \ {p} : Sigterm(p, q) \/ Sigkill(p, q)
    \/ CloseAndRetry(p) \/ Cleanup(p) \/ Compare(p) \/ Unlink(p) \/ Release(p)
    \/ Die(p)

Next == \E p \in Procs : Step(p)

Spec == Init /\ [][Next]_vars

-----------------------------------------------------------------------------
TypeOK ==
    /\ pc \in [Procs -> Steps]
    /\ fd \in [Procs -> Inodes \union {None}]
    /\ prey \in [Procs -> Procs \union {None}]
    /\ file \in Inodes \union {None}
    /\ flock \in [Inodes -> Procs \union {None}]
    /\ text \in [Inodes -> Procs \union {None}]

\* From the inode check until the cleanup unlinks or gives up the file.
Holds(p) == pc[p] \in {"truncate", "write", "held", "compare", "unlink"}

\* Two processes never hold the lock at once, although the file is unlinked
\* and created again while others wait with it open.
Exclusive == \A p, q \in Procs : Holds(p) /\ Holds(q) => p = q

\* The lock a process holds is the one a newcomer meets: the path names its
\* file, and the flock on it is its own, until it unlinks the file itself.
NotPhantom ==
    \A p \in Procs : Holds(p) => file = fd[p] /\ flock[fd[p]] = p

\* A newcomer reads the PID of the holder, not one left by an earlier one.
HolderNamed == \A p \in Procs : pc[p] = "held" => text[file] = p

Holders == {p \in Procs : Holds(p)}
Lock == INSTANCE SessionLock WITH holders <- Holders

\* The lockfile implements a lock that at most one process has, and that is
\* free before the next process takes it.
IsLock == Lock!Spec
=============================================================================

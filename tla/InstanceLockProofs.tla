------------------------- MODULE InstanceLockProofs -------------------------
(***************************************************************************)
(* Mutual exclusion of the lockfile, for any number of processes and       *)
(* inodes, and that it implements SessionLock.                             *)
(*                                                                         *)
(* The heart of the argument is NotPhantom: who holds the lock has the     *)
(* flock of the file the path names.  Exclusive follows, as a flock has    *)
(* one owner.  NotPhantom is kept because the path changes in two places   *)
(* only: Open creates a file when the path names none, so nobody holds;    *)
(* Unlink removes it, and the process that does so is the one holder.      *)
(* What must be added is that a process is still the owner of its flock    *)
(* when it compares inodes (Owner), and that a process about to try the    *)
(* flock has a file open (HasFile).                                        *)
(***************************************************************************)
EXTENDS InstanceLock, TLAPS

Owns(p) == pc[p] = "verify" \/ Holds(p)

Owner == \A p \in Procs : Owns(p) => fd[p] \in Inodes /\ flock[fd[p]] = p
AtPath == \A p \in Procs : Holds(p) => file = fd[p]
HasFile == \A p \in Procs : pc[p] = "flock" => fd[p] \in Inodes

IInv == TypeOK /\ Owner /\ AtPath /\ HasFile

\* Whoever holds the lock is the only one to: the flock of the file at the
\* path has one owner.
LEMMA HoldersAgree == ASSUME IInv PROVE Exclusive
BY DEF IInv, Owner, AtPath, Owns, Exclusive, TypeOK

LEMMA InitIInv == Init => IInv
BY InstanceLockAssumption
   DEF Init, IInv, TypeOK, Owner, AtPath, HasFile, Owns, Holds, Steps

\* Types are kept by every step.
LEMMA TypeStep ==
    ASSUME TypeOK, NEW p \in Procs, Step(p)
    PROVE  TypeOK'
<1> USE DEF TypeOK, Goto, CloseFd, Freed, Dies, Steps
<1>1. CASE Launch(p)         BY <1>1 DEF Launch
<1>2. CASE Open(p)           BY <1>2 DEF Open
<1>3. CASE FlockTaken(p)     BY <1>3 DEF FlockTaken
<1>4. CASE FlockBusy(p)      BY <1>4 DEF FlockBusy
<1>5. CASE Verified(p)       BY <1>5 DEF Verified
<1>6. CASE Phantom(p)        BY <1>6 DEF Phantom
<1>7. CASE Truncate(p)       BY <1>7 DEF Truncate
<1>8. CASE Write(p)          BY <1>8 DEF Write
<1>9. CASE WriteFails(p)     BY <1>9 DEF WriteFails
<1>10. CASE TimeOut(p)       BY <1>10 DEF TimeOut
<1>11. CASE ReadPid(p)       BY <1>11 DEF ReadPid
<1>12. ASSUME NEW q \in Procs \ {p}, Sigterm(p, q) PROVE TypeOK'
  BY <1>12 DEF Sigterm
<1>13. ASSUME NEW q \in Procs \ {p}, Sigkill(p, q) PROVE TypeOK'
  BY <1>13 DEF Sigkill
<1>14. CASE Gone(p)          BY <1>14 DEF Gone
<1>15. CASE CloseAndRetry(p) BY <1>15 DEF CloseAndRetry
<1>16. CASE Cleanup(p)       BY <1>16 DEF Cleanup
<1>17. CASE Compare(p)       BY <1>17 DEF Compare
<1>18. CASE Unlink(p)        BY <1>18 DEF Unlink
<1>19. CASE Release(p)       BY <1>19 DEF Release
<1>20. CASE Die(p)           BY <1>20 DEF Die
<1> QED
  BY <1>1, <1>2, <1>3, <1>4, <1>5, <1>6, <1>7, <1>8, <1>9, <1>10, <1>11, <1>12,
     <1>13, <1>14, <1>15, <1>16, <1>17, <1>18, <1>19, <1>20 DEF Step

\* So are ownership and the agreement of path and descriptor.
LEMMA OwnerStep ==
    ASSUME IInv, NEW p \in Procs, Step(p)
    PROVE  Owner' /\ AtPath' /\ HasFile'
<1> USE InstanceLockAssumption
    DEF IInv, TypeOK, Owner, AtPath, HasFile, Owns, Holds, Steps, Goto,
        CloseFd, Freed, Dies
<1>1. CASE Launch(p)         BY <1>1 DEF Launch
<1>2. CASE Open(p)           BY <1>2 DEF Open
<1>3. CASE FlockTaken(p)     BY <1>3 DEF FlockTaken
<1>4. CASE FlockBusy(p)      BY <1>4 DEF FlockBusy
<1>5. CASE Verified(p)       BY <1>5 DEF Verified, SameFile
<1>6. CASE Phantom(p)        BY <1>6 DEF Phantom
<1>7. CASE Truncate(p)       BY <1>7 DEF Truncate
<1>8. CASE Write(p)          BY <1>8 DEF Write
<1>9. CASE WriteFails(p)     BY <1>9 DEF WriteFails
<1>10. CASE TimeOut(p)       BY <1>10 DEF TimeOut
<1>11. CASE ReadPid(p)       BY <1>11 DEF ReadPid
<1>12. ASSUME NEW q \in Procs \ {p}, Sigterm(p, q) PROVE Owner' /\ AtPath' /\ HasFile'
  BY <1>12 DEF Sigterm
<1>13. ASSUME NEW q \in Procs \ {p}, Sigkill(p, q) PROVE Owner' /\ AtPath' /\ HasFile'
  BY <1>13 DEF Sigkill
<1>14. CASE Gone(p)          BY <1>14 DEF Gone
<1>15. CASE CloseAndRetry(p) BY <1>15 DEF CloseAndRetry
<1>16. CASE Cleanup(p)       BY <1>16 DEF Cleanup
<1>17. CASE Compare(p)       BY <1>17 DEF Compare
<1>18. CASE Unlink(p)        BY <1>18 DEF Unlink
<1>19. CASE Release(p)       BY <1>19 DEF Release
<1>20. CASE Die(p)           BY <1>20 DEF Die
<1> QED
  BY <1>1, <1>2, <1>3, <1>4, <1>5, <1>6, <1>7, <1>8, <1>9, <1>10, <1>11, <1>12,
     <1>13, <1>14, <1>15, <1>16, <1>17, <1>18, <1>19, <1>20 DEF Step

LEMMA NextIInv == IInv /\ [Next]_vars => IInv'
<1> SUFFICES ASSUME IInv, [Next]_vars PROVE IInv'
  OBVIOUS
<1>1. CASE Next
  BY <1>1, TypeStep, OwnerStep DEF Next, IInv
<1>2. CASE UNCHANGED vars
  BY <1>2 DEF vars, IInv, TypeOK, Owner, AtPath, HasFile, Owns, Holds
<1> QED
  BY <1>1, <1>2

LEMMA Invariance == Spec => []IInv
<1> QED
  BY InitIInv, NextIInv, PTL DEF Spec

\* The variables keep their types.
THEOREM TypeCorrect == Spec => []TypeOK
<1>1. IInv => TypeOK
  BY DEF IInv
<1> QED
  BY <1>1, Invariance, PTL

\* acquire_instance_lock and cleanup_instance_lock exclude one another: at
\* most one process holds the lock.
THEOREM MutualExclusion == Spec => []Exclusive
<1>1. IInv => Exclusive
  BY HoldersAgree
<1> QED
  BY <1>1, Invariance, PTL

\* A held lock is the one newcomers meet: the inode checks on acquisition and
\* on unlinking leave no holder of a file the path no longer names.
THEOREM NoPhantomLock == Spec => []NotPhantom
<1>1. IInv => NotPhantom
  BY DEF IInv, Owner, AtPath, Owns, NotPhantom
<1> QED
  BY <1>1, Invariance, PTL

-----------------------------------------------------------------------------
(* Refinement: the holders are the abstract lock's.                        *)

\* The holders change in two ways only: from none to one process, and from
\* one process to none.
LEMMA HoldersStep ==
    ASSUME IInv, NEW p \in Procs, Step(p)
    PROVE  \/ Holders' = Holders
           \/ Holders = {} /\ \E q \in Procs : Holders' = {q}
           \/ Holders # {} /\ Holders' = {}
<1> DEFINE Goal == \/ Holders' = Holders
                   \/ Holders = {} /\ \E q \in Procs : Holders' = {q}
                   \/ Holders # {} /\ Holders' = {}
<1>0. Exclusive
  BY HoldersAgree
<1>1. CASE Verified(p)
  <2>1. ~Holds(p) /\ Holds(p)'
    BY <1>1 DEF Verified, Holds, Goto, IInv, TypeOK
  <2>2. ASSUME NEW q \in Procs, q # p PROVE ~Holds(q) /\ ~Holds(q)'
    BY <1>1, <2>2 DEF Verified, SameFile, Goto, IInv, TypeOK, Owner, AtPath,
                      Owns, Holds
  <2> QED
    BY <2>1, <2>2 DEF Holders
<1>2. ASSUME ~Verified(p), NEW q \in Procs, Holds(q)' PROVE Holds(q)
  <2> USE InstanceLockAssumption
      DEF IInv, TypeOK, Holds, Steps, Goto, CloseFd, Freed, Dies
  <2>1. CASE Launch(p) \/ Open(p) \/ FlockTaken(p) \/ FlockBusy(p)
    BY <1>2, <2>1 DEF Launch, Open, FlockTaken, FlockBusy
  <2>2. CASE Phantom(p) \/ Truncate(p) \/ Write(p) \/ WriteFails(p) \/ TimeOut(p)
    BY <1>2, <2>2 DEF Phantom, Truncate, Write, WriteFails, TimeOut
  <2>3. CASE ReadPid(p) \/ Gone(p) \/ CloseAndRetry(p)
    BY <1>2, <2>3 DEF ReadPid, Gone, CloseAndRetry
  <2>4. ASSUME NEW r \in Procs \ {p}, Sigterm(p, r) PROVE Holds(q)
    BY <1>2, <2>4 DEF Sigterm
  <2>5. ASSUME NEW r \in Procs \ {p}, Sigkill(p, r) PROVE Holds(q)
    BY <1>2, <2>5 DEF Sigkill
  <2>6. CASE Cleanup(p) \/ Compare(p) \/ Unlink(p) \/ Release(p) \/ Die(p)
    BY <1>2, <2>6 DEF Cleanup, Compare, Unlink, Release, Die
  <2> QED
    BY <1>2, <2>1, <2>2, <2>3, <2>4, <2>5, <2>6 DEF Step
<1>3. CASE ~Verified(p)
  <2>1. Holders' \subseteq Holders
    BY <1>2, <1>3 DEF Holders
  <2>2. \A q, r \in Holders : q = r
    BY <1>0 DEF Holders, Exclusive
  <2> QED
    BY <2>1, <2>2
<1> QED
  BY <1>1, <1>3

\* The PID in the file is the holder's: only the holder truncates and writes
\* the file the path names, and a new file is made only when nobody holds.
LEMMA NamedStep ==
    ASSUME IInv, HolderNamed, NEW p \in Procs, Step(p)
    PROVE  HolderNamed'
<1> SUFFICES ASSUME NEW q \in Procs, pc'[q] = "held" PROVE text'[file'] = q
  BY DEF HolderNamed
<1>0. Exclusive
  BY HoldersAgree
<1> USE InstanceLockAssumption
    DEF IInv, TypeOK, AtPath, Owner, Owns, HolderNamed, Exclusive, Holds,
        Steps, Goto, CloseFd, Freed, Dies
<1>1. CASE Launch(p)         BY <1>1 DEF Launch
<1>2. CASE Open(p)           BY <1>2 DEF Open
<1>3. CASE FlockTaken(p)     BY <1>3 DEF FlockTaken
<1>4. CASE FlockBusy(p)      BY <1>4 DEF FlockBusy
<1>5. CASE Verified(p)       BY <1>5 DEF Verified
<1>6. CASE Phantom(p)        BY <1>6 DEF Phantom
<1>7. CASE Truncate(p)       BY <1>0, <1>7 DEF Truncate
<1>8. CASE Write(p)          BY <1>0, <1>8 DEF Write
<1>9. CASE WriteFails(p)     BY <1>9 DEF WriteFails
<1>10. CASE TimeOut(p)       BY <1>10 DEF TimeOut
<1>11. CASE ReadPid(p)       BY <1>11 DEF ReadPid
<1>12. ASSUME NEW r \in Procs \ {p}, Sigterm(p, r) PROVE text'[file'] = q
  BY <1>12 DEF Sigterm
<1>13. ASSUME NEW r \in Procs \ {p}, Sigkill(p, r) PROVE text'[file'] = q
  BY <1>13 DEF Sigkill
<1>14. CASE Gone(p)          BY <1>14 DEF Gone
<1>15. CASE CloseAndRetry(p) BY <1>15 DEF CloseAndRetry
<1>16. CASE Cleanup(p)       BY <1>16 DEF Cleanup
<1>17. CASE Compare(p)       BY <1>17 DEF Compare
<1>18. CASE Unlink(p)        BY <1>0, <1>18 DEF Unlink
<1>19. CASE Release(p)       BY <1>19 DEF Release
<1>20. CASE Die(p)           BY <1>20 DEF Die
<1> QED
  BY <1>1, <1>2, <1>3, <1>4, <1>5, <1>6, <1>7, <1>8, <1>9, <1>10, <1>11, <1>12,
     <1>13, <1>14, <1>15, <1>16, <1>17, <1>18, <1>19, <1>20 DEF Step

\* A newcomer that reads the file at the path while a process is done with
\* acquiring the lock finds that process's PID in it.
THEOREM NamesTheHolder == Spec => []HolderNamed
<1>1. Init => HolderNamed
  BY DEF Init, HolderNamed
<1>2. IInv /\ HolderNamed /\ [Next]_vars => HolderNamed'
  <2> SUFFICES ASSUME IInv, HolderNamed, [Next]_vars PROVE HolderNamed'
    OBVIOUS
  <2>1. CASE Next
    BY <2>1, NamedStep DEF Next
  <2>2. CASE UNCHANGED vars
    BY <2>2 DEF vars, HolderNamed
  <2> QED
    BY <2>1, <2>2
<1> QED
  BY <1>1, <1>2, Invariance, PTL DEF Spec

\* InstanceLock implements the lock that at most one process has and that is
\* free between two holders.
THEOREM Refinement == Spec => IsLock
<1>1. Init => Lock!Init
  BY DEF Init, Lock!Init, Holds, Holders
<1>2. IInv /\ [Next]_vars => [Lock!Next]_Holders
  <2> SUFFICES ASSUME IInv, [Next]_vars PROVE [Lock!Next]_Holders
    OBVIOUS
  <2>1. ASSUME NEW p \in Procs, Step(p) PROVE [Lock!Next]_Holders
    BY <2>1, HoldersStep DEF Lock!Next, Lock!Take, Lock!Leave, Holders
  <2>2. CASE UNCHANGED vars
    BY <2>2 DEF vars, Holders, Holds
  <2> QED
    BY <2>1, <2>2 DEF Next
<1> QED
  BY <1>1, <1>2, Invariance, PTL DEF Spec, IsLock, Lock!Spec
=============================================================================

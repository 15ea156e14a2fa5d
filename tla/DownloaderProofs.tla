-------------------------- MODULE DownloaderProofs --------------------------
(***************************************************************************)
(* What download_chat keeps true, for any chat, any bodies and any set of  *)
(* options.  Each of the groups below is inductive given the ones before:  *)
(*                                                                         *)
(*   TypeInv     the types, and that a message is in hand where one is used *)
(*   IntactInv   what is hashed is a whole file, and what is recorded is it *)
(*   JournalInv  a line follows its row                                     *)
(*   CoverInv    a sync run leaves nothing behind the cursor it moves       *)
(*                                                                         *)
(* The theorems that follow from them are at the end.                      *)
(***************************************************************************)
EXTENDS Downloader, TLAPS

InHand == pc \in {"message", "download", "flood", "check", "hashed", "link",
                  "drop", "replace", "record", "journal"}
Hashed == pc \in {"hashed", "link", "drop", "replace", "record", "journal"}
Placed == pc \in {"link", "drop", "replace", "record", "journal"}

TypeInv ==
    /\ TypeOK
    /\ InHand => cur \in Msgs
    /\ Hashed => sha \in Content
    /\ Placed => path \in Paths

-----------------------------------------------------------------------------
(* Types                                                                   *)

LEMMA OptionTypes ==
    ASSUME NEW o \in Options
    PROVE  /\ o.limit \in Nat /\ o.min_id \in Nat /\ o.max_id \in Nat
           /\ o.sync \in BOOLEAN /\ o.dry_run \in BOOLEAN
           /\ o.reverse \in BOOLEAN /\ o.resume \in BOOLEAN
BY DownloaderAssumption DEF DownloadOpts

LEMMA WholeAndCut ==
    ASSUME NEW m \in Msgs PROVE Whole(m) \in Content /\ Cut(m) \in Content
BY DownloaderAssumption DEF Whole, Cut, Content

LEMMA IdleOptsType == IdleOpts \in Options
BY DownloaderAssumption DEF IdleOpts

\* The state of a run that is over, and of one that has not begun.
LEMMA NoRunTypes ==
    ASSUME NoRun
    PROVE  /\ pc' = "idle" /\ opt' \in Options
           /\ low' \in Nat /\ high' \in Nat /\ left' \in Nat
           /\ cur' \in Msgs \union {0} /\ att' \in 0 .. MaxAttempts - 1
           /\ sha' \in Content \union {Absent}
           /\ path' \in Paths \union {NoPath}
           /\ mx' \in Msgs \union {0} /\ stop' \in BOOLEAN
<1>1. stop' \in BOOLEAN
  BY DEF NoRun
<1> QED
  BY <1>1, IdleOptsType DEF NoRun, MaxAttempts

LEMMA InitTypeInv == Init => TypeInv
<1> SUFFICES ASSUME Init PROVE TypeInv
  OBVIOUS
<1>1. stop \in BOOLEAN
  BY DEF Init
<1>2. TypeOK
  BY <1>1, IdleOptsType DEF Init, TypeOK, MaxAttempts
<1> QED
  BY <1>2 DEF Init, TypeInv, InHand, Hashed, Placed

LEMMA TypeStep == ASSUME TypeInv, Next PROVE TypeInv'
<1> USE DownloaderAssumption, OptionTypes, IdleOptsType, WholeAndCut
    DEF TypeInv, TypeOK, InHand, Hashed, Placed, Msgs, Max2, MaxAttempts,
        Downloaded, Rows, Paths, NoPath, disk, run, cursor
<1>1. ASSUME NEW o \in Options, Start(o) \/ StartUnread(o) PROVE TypeInv'
  <2>1. PICK min \in Nat : StartAfter(o, min)
    BY <1>1, OptionTypes DEF Start, StartUnread, EffectiveMinId
  <2>2. stop' \in BOOLEAN
    BY <2>1 DEF StartAfter
  <2> QED
    BY <2>1, <2>2 DEF StartAfter
<1>2. CASE Fetch
  <2>1. /\ cur' \in Msgs
        /\ low' \in {low, cur'} /\ high' \in {high, cur'}
    <3>1. PICK m \in Ahead :
             /\ cur' = m
             /\ IF opt.reverse THEN low' = m /\ high' = high
                               ELSE high' = m /\ low' = low
      BY <1>2 DEF Fetch
    <3>2. m \in Msgs
      BY <3>1 DEF Ahead
    <3> QED
      BY <3>1, <3>2
  <2>2. left' \in Nat
    BY <1>2 DEF Fetch, LimitReached
  <2> QED
    BY <1>2, <2>1, <2>2 DEF Fetch
<1>3. CASE EndOfMessages
  BY <1>3 DEF EndOfMessages, LeaveLoop
<1>4. CASE Break
  BY <1>4 DEF Break, LeaveLoop
<1>5. CASE SkipFiltered
  BY <1>5 DEF SkipFiltered, NextTurn, GoesOn, Wanted, IsDownloaded
<1>6. CASE SkipDownloaded
  BY <1>6 DEF SkipDownloaded, NextTurn, GoesOn, Wanted, IsDownloaded
<1>7. CASE DryRun
  BY <1>7 DEF DryRun, NextTurn, WithoutStale, GoesOn, Wanted, IsDownloaded
<1>8. CASE Prepare
  BY <1>8 DEF Prepare, WithoutStale, GoesOn, Wanted, IsDownloaded
<1>9. CASE DownloadDone
  BY <1>9 DEF DownloadDone, HasMedia
<1>10. CASE DownloadNothing
  BY <1>10 DEF DownloadNothing
<1>11. CASE Retry
  BY <1>11 DEF Retry
<1>12. CASE FloodStopped
  BY <1>12 DEF FloodStopped
<1>13. CASE GiveUp
  BY <1>13 DEF GiveUp, LeaveLoop
<1>14. CASE StopAfterDownload
  BY <1>14 DEF StopAfterDownload, LeaveLoop, StopSeen
<1>15. CASE NothingArrived
  BY <1>15 DEF NothingArrived, NextTurn, StopSeen
<1>16. CASE Hash
  BY <1>16 DEF Hash, StopSeen
<1>17. CASE ChooseAlias
  BY <1>17 DEF ChooseAlias, SameSha
<1>18. CASE ChooseOwn
  BY <1>18 DEF ChooseOwn, SameSha, Dst
<1>19. CASE Link
  BY <1>19 DEF Link, Dst
<1>20. CASE DropPart
  BY <1>20 DEF DropPart
<1>21. CASE Replace
  BY <1>21 DEF Replace, Dst
<1>22. CASE Record
  BY <1>22 DEF Record
<1>23. CASE Journal
  BY <1>23 DEF Journal, NextTurn
<1>24. CASE Finish
  BY <1>24, NoRunTypes DEF Finish, Advanced, Listed
<1>25. CASE IteratorFlood
  BY <1>25 DEF IteratorFlood, LeaveLoop
<1>26. CASE DownloadFlood
  BY <1>26 DEF DownloadFlood, HasMedia
<1>27. CASE RequestStop
  BY <1>27 DEF RequestStop
<1>28. CASE Abort
  BY <1>28, NoRunTypes DEF Abort
<1>29. CASE AbortInDownload
  <2>1. PICK c \in Content : parts' = [parts EXCEPT ![cur] = c]
    BY <1>29 DEF AbortInDownload, CanWrite
  <2>2. parts' \in [Msgs -> Content \union {Absent}]
    BY <2>1
  <2>3. NoRun
    BY <1>29 DEF AbortInDownload
  <2>4. UNCHANGED <<chat, files, deleted, manifest, lines, ckpt>>
    BY <1>29 DEF AbortInDownload
  <2> QED
    BY <2>2, <2>3, <2>4, NoRunTypes
<1>30. CASE Post
  BY <1>30 DEF Post
<1>31. CASE UserDeletes
  BY <1>31 DEF UserDeletes
<1> QED
  BY <1>1, <1>2, <1>3, <1>4, <1>5, <1>6, <1>7, <1>8, <1>9, <1>10, <1>11,
     <1>12, <1>13, <1>14, <1>15, <1>16, <1>17, <1>18, <1>19, <1>20,
     <1>21, <1>22, <1>23, <1>24, <1>25, <1>26, <1>27, <1>28, <1>29,
     <1>30, <1>31
     DEF Next, Calm, Step, Mishap

-----------------------------------------------------------------------------
(* Intact downloads.  Nothing is read off the .part of a message before    *)
(* download_media has written all of it, except after a stop, which ends   *)
(* the run first; the row is written after the file it names exists.       *)

Taken(m) == IF m \in NoMedia THEN Absent ELSE Whole(m)

PartsInv ==
    /\ \A m \in NoMedia : parts[m] = Absent
    /\ pc = "check" /\ ~stop => parts[cur] = Taken(cur)
    /\ Hashed => sha = Whole(cur) /\ cur \notin NoMedia

PlaceInv ==
    /\ pc = "replace" => path = Dst
    /\ Placed => path[2] = sha
    /\ pc \in {"link", "drop", "record", "journal"} =>
         path \in files \union deleted

IntactInv == PartsInv /\ PlaceInv /\ RecordedIntact

LEMMA InitIntactInv == Init => IntactInv
BY DownloaderAssumption
   DEF Init, IntactInv, PartsInv, PlaceInv, RecordedIntact, Hashed, Placed

LEMMA PartsStep ==
    ASSUME NothingLapses, TypeInv, PartsInv, Next
    PROVE  PartsInv'
<1> USE DownloaderAssumption
    DEF NothingLapses, TypeInv, TypeOK, PartsInv, InHand, Hashed, Taken, disk,
        run, cursor
<1>1. ASSUME NEW o \in Options, Start(o) \/ StartUnread(o) PROVE PartsInv'
  BY <1>1 DEF Start, StartUnread, StartAfter
<1>2. CASE Fetch
  BY <1>2 DEF Fetch
<1>3. CASE EndOfMessages
  BY <1>3 DEF EndOfMessages, LeaveLoop
<1>4. CASE Break
  BY <1>4 DEF Break, LeaveLoop
<1>5. CASE SkipFiltered
  BY <1>5 DEF SkipFiltered, NextTurn, GoesOn, Wanted, IsDownloaded
<1>6. CASE SkipDownloaded
  BY <1>6 DEF SkipDownloaded, NextTurn, GoesOn, Wanted, IsDownloaded
<1>7. CASE DryRun
  BY <1>7 DEF DryRun, NextTurn, WithoutStale, GoesOn, Wanted, IsDownloaded
<1>8. CASE Prepare
  BY <1>8 DEF Prepare, WithoutStale, GoesOn, Wanted, IsDownloaded
<1>9. CASE DownloadDone
  BY <1>9 DEF DownloadDone, HasMedia
<1>10. CASE DownloadNothing
  BY <1>10 DEF DownloadNothing
<1>11. CASE Retry
  BY <1>11 DEF Retry
<1>12. CASE FloodStopped
  BY <1>12 DEF FloodStopped
<1>13. CASE GiveUp
  BY <1>13 DEF GiveUp, LeaveLoop
<1>14. CASE StopAfterDownload
  BY <1>14 DEF StopAfterDownload, LeaveLoop, StopSeen
<1>15. CASE NothingArrived
  BY <1>15 DEF NothingArrived, NextTurn, StopSeen
<1>16. CASE Hash
  BY <1>16 DEF Hash, StopSeen
<1>17. CASE ChooseAlias
  BY <1>17 DEF ChooseAlias, SameSha
<1>18. CASE ChooseOwn
  BY <1>18 DEF ChooseOwn, SameSha, Dst
<1>19. CASE Link
  BY <1>19 DEF Link, Dst
<1>20. CASE DropPart
  BY <1>20 DEF DropPart
<1>21. CASE Replace
  BY <1>21 DEF Replace, Dst
<1>22. CASE Record
  BY <1>22 DEF Record
<1>23. CASE Journal
  BY <1>23 DEF Journal, NextTurn
<1>24. CASE Finish
  BY <1>24 DEF Finish, NoRun, Advanced, Listed
<1>25. CASE IteratorFlood
  BY <1>25 DEF IteratorFlood, LeaveLoop
<1>26. CASE DownloadFlood
  BY <1>26 DEF DownloadFlood, HasMedia
<1>27. CASE RequestStop
  BY <1>27 DEF RequestStop
<1>28. CASE Abort
  BY <1>28 DEF Abort, NoRun
<1>29. CASE AbortInDownload
  BY <1>29 DEF AbortInDownload, NoRun, CanWrite, HasMedia
<1>30. CASE Post
  BY <1>30 DEF Post
<1>31. CASE UserDeletes
  BY <1>31 DEF UserDeletes
<1> QED
  BY <1>1, <1>2, <1>3, <1>4, <1>5, <1>6, <1>7, <1>8, <1>9, <1>10, <1>11,
     <1>12, <1>13, <1>14, <1>15, <1>16, <1>17, <1>18, <1>19, <1>20, <1>21,
     <1>22, <1>23, <1>24, <1>25, <1>26, <1>27, <1>28, <1>29, <1>30, <1>31
     DEF Next, Calm, Step, Mishap

LEMMA PlaceStep ==
    ASSUME TypeInv, PlaceInv, RecordedIntact, Next
    PROVE  PlaceInv'
<1> USE DEF TypeInv, TypeOK, PlaceInv, InHand, Hashed, Placed, Dst, disk, run,
            cursor
<1>1. ASSUME NEW o \in Options, Start(o) \/ StartUnread(o) PROVE PlaceInv'
  BY <1>1 DEF Start, StartUnread, StartAfter
<1>2. CASE Fetch
  BY <1>2 DEF Fetch
<1>3. CASE EndOfMessages
  BY <1>3 DEF EndOfMessages, LeaveLoop
<1>4. CASE Break
  BY <1>4 DEF Break, LeaveLoop
<1>5. CASE SkipFiltered
  BY <1>5 DEF SkipFiltered, NextTurn, GoesOn, Wanted, IsDownloaded
<1>6. CASE SkipDownloaded
  BY <1>6 DEF SkipDownloaded, NextTurn, GoesOn, Wanted, IsDownloaded
<1>7. CASE DryRun
  BY <1>7 DEF DryRun, NextTurn, WithoutStale, GoesOn, Wanted, IsDownloaded
<1>8. CASE Prepare
  BY <1>8 DEF Prepare, WithoutStale, GoesOn, Wanted, IsDownloaded
<1>9. CASE DownloadDone
  BY <1>9 DEF DownloadDone, HasMedia
<1>10. CASE DownloadNothing
  BY <1>10 DEF DownloadNothing
<1>11. CASE Retry
  BY <1>11 DEF Retry
<1>12. CASE FloodStopped
  BY <1>12 DEF FloodStopped
<1>13. CASE GiveUp
  BY <1>13 DEF GiveUp, LeaveLoop
<1>14. CASE StopAfterDownload
  BY <1>14 DEF StopAfterDownload, LeaveLoop, StopSeen
<1>15. CASE NothingArrived
  BY <1>15 DEF NothingArrived, NextTurn, StopSeen
<1>16. CASE Hash
  BY <1>16 DEF Hash, StopSeen
<1>17. CASE ChooseAlias
  <2>1. PICK r \in manifest : r.sha = sha /\ r.path \in files /\ path' = r.path
    BY <1>17 DEF ChooseAlias, SameSha
  <2>2. path'[2] = sha /\ path' \in files
    BY <2>1 DEF RecordedIntact
  <2> QED
    BY <1>17, <2>2 DEF ChooseAlias
<1>18. CASE ChooseOwn
  BY <1>18 DEF ChooseOwn, SameSha, Dst
<1>19. CASE Link
  BY <1>19 DEF Link, Dst
<1>20. CASE DropPart
  BY <1>20 DEF DropPart
<1>21. CASE Replace
  BY <1>21 DEF Replace, Dst
<1>22. CASE Record
  BY <1>22 DEF Record
<1>23. CASE Journal
  BY <1>23 DEF Journal, NextTurn
<1>24. CASE Finish
  BY <1>24 DEF Finish, NoRun, Advanced, Listed
<1>25. CASE IteratorFlood
  BY <1>25 DEF IteratorFlood, LeaveLoop
<1>26. CASE DownloadFlood
  BY <1>26 DEF DownloadFlood, HasMedia
<1>27. CASE RequestStop
  BY <1>27 DEF RequestStop
<1>28. CASE Abort
  BY <1>28 DEF Abort, NoRun
<1>29. CASE AbortInDownload
  BY <1>29 DEF AbortInDownload, NoRun, CanWrite, HasMedia
<1>30. CASE Post
  BY <1>30 DEF Post
<1>31. CASE UserDeletes
  BY <1>31 DEF UserDeletes
<1> QED
  BY <1>1, <1>2, <1>3, <1>4, <1>5, <1>6, <1>7, <1>8, <1>9, <1>10, <1>11,
     <1>12, <1>13, <1>14, <1>15, <1>16, <1>17, <1>18, <1>19, <1>20, <1>21,
     <1>22, <1>23, <1>24, <1>25, <1>26, <1>27, <1>28, <1>29, <1>30, <1>31
     DEF Next, Calm, Step, Mishap

LEMMA RecordedStep ==
    ASSUME TypeInv, IntactInv, Next
    PROVE  RecordedIntact'
<1> USE DEF TypeInv, TypeOK, IntactInv, PartsInv, PlaceInv, RecordedIntact,
            Hashed, Placed, disk
<1>1. ASSUME NEW o \in Options, Start(o) \/ StartUnread(o) PROVE RecordedIntact'
  BY <1>1 DEF Start, StartUnread, StartAfter
<1>2. CASE Fetch
  BY <1>2 DEF Fetch
<1>3. CASE EndOfMessages
  BY <1>3 DEF EndOfMessages, LeaveLoop
<1>4. CASE Break
  BY <1>4 DEF Break, LeaveLoop
<1>5. CASE SkipFiltered
  BY <1>5 DEF SkipFiltered, NextTurn, GoesOn, Wanted, IsDownloaded
<1>6. CASE SkipDownloaded
  BY <1>6 DEF SkipDownloaded, NextTurn, GoesOn, Wanted, IsDownloaded
<1>7. CASE DryRun
  BY <1>7 DEF DryRun, NextTurn, WithoutStale, GoesOn, Wanted, IsDownloaded
<1>8. CASE Prepare
  BY <1>8 DEF Prepare, WithoutStale, GoesOn, Wanted, IsDownloaded
<1>9. CASE DownloadDone
  BY <1>9 DEF DownloadDone, HasMedia
<1>10. CASE DownloadNothing
  BY <1>10 DEF DownloadNothing
<1>11. CASE Retry
  BY <1>11 DEF Retry
<1>12. CASE FloodStopped
  BY <1>12 DEF FloodStopped
<1>13. CASE GiveUp
  BY <1>13 DEF GiveUp, LeaveLoop
<1>14. CASE StopAfterDownload
  BY <1>14 DEF StopAfterDownload, LeaveLoop, StopSeen
<1>15. CASE NothingArrived
  BY <1>15 DEF NothingArrived, NextTurn, StopSeen
<1>16. CASE Hash
  BY <1>16 DEF Hash, StopSeen
<1>17. CASE ChooseAlias
  BY <1>17 DEF ChooseAlias, SameSha
<1>18. CASE ChooseOwn
  BY <1>18 DEF ChooseOwn, SameSha, Dst
<1>19. CASE Link
  BY <1>19 DEF Link, Dst
<1>20. CASE DropPart
  BY <1>20 DEF DropPart
<1>21. CASE Replace
  BY <1>21 DEF Replace, Dst
<1>22. CASE Record
  BY <1>22 DEF Record
<1>23. CASE Journal
  BY <1>23 DEF Journal, NextTurn
<1>24. CASE Finish
  BY <1>24 DEF Finish, NoRun, Advanced, Listed
<1>25. CASE IteratorFlood
  BY <1>25 DEF IteratorFlood, LeaveLoop
<1>26. CASE DownloadFlood
  BY <1>26 DEF DownloadFlood, HasMedia
<1>27. CASE RequestStop
  BY <1>27 DEF RequestStop
<1>28. CASE Abort
  BY <1>28 DEF Abort, NoRun
<1>29. CASE AbortInDownload
  BY <1>29 DEF AbortInDownload, NoRun, CanWrite, HasMedia
<1>30. CASE Post
  BY <1>30 DEF Post
<1>31. CASE UserDeletes
  BY <1>31 DEF UserDeletes
<1> QED
  BY <1>1, <1>2, <1>3, <1>4, <1>5, <1>6, <1>7, <1>8, <1>9, <1>10, <1>11,
     <1>12, <1>13, <1>14, <1>15, <1>16, <1>17, <1>18, <1>19, <1>20, <1>21,
     <1>22, <1>23, <1>24, <1>25, <1>26, <1>27, <1>28, <1>29, <1>30, <1>31
     DEF Next, Calm, Step, Mishap

-----------------------------------------------------------------------------
(* The journal.  Only Record adds a row, for the message in hand, which    *)
(* had none; Journal comes next and adds its line.                         *)

Taking == pc \in {"download", "flood", "check", "hashed", "link", "drop",
                  "replace", "record"}

JournalInv ==
    /\ JournalFollowsManifest
    /\ Taking => cur \notin Downloaded
    /\ pc = "journal" => cur \in Downloaded /\ lines[cur] = 0

\* INSERT OR IGNORE leaves the message with a row and the others as they were.
LEMMA RecordAdds ==
    ASSUME Record PROVE Downloaded' = Downloaded \union {cur}
<1> DEFINE row == [msg |-> cur, sha |-> sha, path |-> path]
<1>1. CASE cur \in Downloaded
  <2>1. manifest' = manifest
    BY <1>1 DEF Record
  <2> QED
    BY <1>1, <2>1 DEF Downloaded
<1>2. CASE cur \notin Downloaded
  <2>1. manifest' = manifest \union {row}
    BY <1>2 DEF Record
  <2>2. row.msg = cur
    OBVIOUS
  <2> HIDE DEF row
  <2> QED
    BY <2>1, <2>2 DEF Downloaded
<1> QED
  BY <1>1, <1>2

LEMMA SameRows ==
    ASSUME manifest' = manifest PROVE Downloaded' = Downloaded
BY DEF Downloaded

LEMMA InitJournalInv == Init => JournalInv
BY DEF Init, JournalInv, JournalFollowsManifest, Taking

LEMMA JournalStep ==
    ASSUME TypeInv, JournalInv, Next PROVE JournalInv'
<1> USE DEF TypeInv, TypeOK, JournalInv, JournalFollowsManifest, InHand, Taking,
            disk, run, cursor
<1>1. ASSUME NEW o \in Options, Start(o) \/ StartUnread(o) PROVE JournalInv'
  <2>1. pc' = "loop" /\ lines' = lines /\ manifest' = manifest
    BY <1>1 DEF Start, StartUnread, StartAfter
  <2> QED
    BY <2>1, SameRows
<1>2. CASE Fetch
  BY <1>2, SameRows DEF Fetch
<1>3. CASE EndOfMessages
  BY <1>3, SameRows DEF EndOfMessages, LeaveLoop
<1>4. CASE Break
  BY <1>4, SameRows DEF Break, LeaveLoop
<1>5. CASE SkipFiltered
  BY <1>5, SameRows DEF SkipFiltered, NextTurn
<1>6. CASE SkipDownloaded
  BY <1>6, SameRows DEF SkipDownloaded, NextTurn
<1>7. CASE DryRun
  BY <1>7, SameRows DEF DryRun, NextTurn
<1>8. CASE Prepare
  BY <1>8, SameRows DEF Prepare, GoesOn, IsDownloaded
<1>9. CASE DownloadDone
  BY <1>9, SameRows DEF DownloadDone
<1>10. CASE DownloadNothing
  BY <1>10, SameRows DEF DownloadNothing
<1>11. CASE Retry
  BY <1>11, SameRows DEF Retry
<1>12. CASE FloodStopped
  BY <1>12, SameRows DEF FloodStopped
<1>13. CASE GiveUp
  BY <1>13, SameRows DEF GiveUp, LeaveLoop
<1>14. CASE StopAfterDownload
  BY <1>14, SameRows DEF StopAfterDownload, LeaveLoop
<1>15. CASE NothingArrived
  BY <1>15, SameRows DEF NothingArrived, NextTurn
<1>16. CASE Hash
  BY <1>16, SameRows DEF Hash
<1>17. CASE ChooseAlias
  BY <1>17, SameRows DEF ChooseAlias
<1>18. CASE ChooseOwn
  BY <1>18, SameRows DEF ChooseOwn
<1>19. CASE Link
  BY <1>19, SameRows DEF Link
<1>20. CASE DropPart
  BY <1>20, SameRows DEF DropPart
<1>21. CASE Replace
  BY <1>21, SameRows DEF Replace
<1>22. CASE Record
  <2>1. Downloaded' = Downloaded \union {cur} /\ lines' = lines
    BY <1>22, RecordAdds DEF Record
  <2>2. cur \in Msgs /\ lines[cur] = 0
    BY <1>22 DEF Record
  <2> QED
    BY <1>22, <2>1, <2>2 DEF Record
<1>23. CASE Journal
  BY <1>23, SameRows DEF Journal, NextTurn
<1>24. CASE Finish
  BY <1>24, SameRows DEF Finish, NoRun
<1>25. CASE IteratorFlood
  BY <1>25, SameRows DEF IteratorFlood, LeaveLoop
<1>26. CASE DownloadFlood
  BY <1>26, SameRows DEF DownloadFlood
<1>27. CASE RequestStop
  BY <1>27, SameRows DEF RequestStop
<1>28. CASE Abort
  BY <1>28, SameRows DEF Abort, NoRun
<1>29. CASE AbortInDownload
  BY <1>29, SameRows DEF AbortInDownload, NoRun
<1>30. CASE Post
  BY <1>30, SameRows DEF Post
<1>31. CASE UserDeletes
  BY <1>31, SameRows DEF UserDeletes
<1> QED
  BY <1>1, <1>2, <1>3, <1>4, <1>5, <1>6, <1>7, <1>8, <1>9, <1>10, <1>11,
     <1>12, <1>13, <1>14, <1>15, <1>16, <1>17, <1>18, <1>19, <1>20, <1>21,
     <1>22, <1>23, <1>24, <1>25, <1>26, <1>27, <1>28, <1>29, <1>30, <1>31
     DEF Next, Calm, Step, Mishap

-----------------------------------------------------------------------------
(* Coverage.  A sync run looks at every message above its cursor, oldest   *)
(* first, and goes past one only when it is recorded or has no media; so   *)
(* everything at or below the cursor is covered, and mx stays behind it.   *)

Covered(k) == \A m \in chat \ NoMedia : m <= k => m \in Downloaded
Posted == chat \union {0}
SyncRun == pc # "idle" /\ opt.sync /\ ~opt.dry_run

CursorInv ==
    /\ low \in Posted /\ high = MaxId + 1
    /\ mx <= low
    /\ pc = "loop" => Covered(low)
    /\ InHand => cur = low /\ mx < cur
    /\ InHand => \A m \in chat \ NoMedia : m < cur => m \in Downloaded
    /\ pc = "checkpoint" => Covered(mx)

CoverInv ==
    /\ Covered(ckpt)
    /\ ckpt \in Posted /\ mx \in Posted
    /\ InHand => cur \in chat
    /\ pc = "idle" => mx = 0
    /\ SyncRun => CursorInv

LEMMA InitCoverInv == Init => CoverInv
BY DEF Init, CoverInv, Covered, Posted, InHand, SyncRun

\* What CoverInv asks of the options of a sync run.
LEMMA SyncOption ==
    ASSUME OldestFirst, NEW o \in Options, o.sync
    PROVE  o.reverse /\ o.min_id = 0 /\ o.asks = Msgs /\ o.keeps = Msgs
BY DEF OldestFirst

LEMMA CoverStep ==
    ASSUME OldestFirst, NothingLapses, TypeInv, PartsInv, JournalInv, CoverInv,
           Next
    PROVE  CoverInv'
<1> USE DownloaderAssumption
    DEF TypeInv, TypeOK, CoverInv, CursorInv, SyncRun, Covered, Posted,
        InHand, Max2, Msgs, disk, run, cursor
<1>1. ASSUME NEW o \in Options, Start(o) \/ StartUnread(o) PROVE CoverInv'
  <2>1. PICK min \in {o.min_id, EffectiveMinId(o)} : StartAfter(o, min)
    BY <1>1 DEF Start, StartUnread
  <2>2. UNCHANGED <<chat, manifest, ckpt, mx>>
    BY <2>1 DEF StartAfter
  <2>3. ASSUME o.sync PROVE min \in {0, ckpt}
    BY <2>1, <2>3, SyncOption DEF EffectiveMinId
  <2>4. pc = "idle" /\ pc' = "loop" /\ opt' = o /\ low' = min
        /\ high' = MaxId + 1
    BY <2>1 DEF StartAfter
  <2> QED
    BY <2>2, <2>3, <2>4, SameRows
<1>2. CASE Fetch
  <2>1. PICK m \in Ahead :
           /\ NextMessage(m) /\ cur' = m
           /\ IF opt.reverse THEN low' = m /\ high' = high
                             ELSE high' = m /\ low' = low
    BY <1>2 DEF Fetch
  <2>2. /\ pc = "loop" /\ pc' = "message"
        /\ UNCHANGED <<chat, manifest, ckpt, opt, mx>>
    BY <1>2 DEF Fetch
  <2>3. m \in chat /\ low < m
    BY <2>1 DEF Ahead
  <2>4. ASSUME SyncRun
        PROVE  /\ low' = m /\ high' = high
               /\ \A n \in chat \ NoMedia : n < m => n \in Downloaded
    <3>1. opt.reverse /\ opt.asks = Msgs
      BY <2>4, SyncOption
    <3>2. ASSUME NEW n \in chat \ NoMedia, n < m PROVE n \in Downloaded
      <4>1. n \notin Ahead
        BY <2>1, <3>1, <3>2 DEF NextMessage, Ahead
      <4>2. n <= low
        BY <2>2, <2>4, <3>1, <4>1 DEF Ahead
      <4> QED
        BY <2>2, <2>4, <4>2
    <3> QED
      BY <2>1, <3>1, <3>2
  <2> QED
    BY <2>1, <2>2, <2>3, <2>4, SameRows
<1>3. CASE EndOfMessages
  BY <1>3, SameRows DEF EndOfMessages, LeaveLoop
<1>4. CASE Break
  BY <1>4, SameRows DEF Break, LeaveLoop
<1>5. CASE SkipFiltered
  <2>1. ~SyncRun
    <3>1. SUFFICES ASSUME SyncRun PROVE FALSE
      OBVIOUS
    <3>2. opt.reverse /\ opt.keeps = Msgs
      BY <3>1, SyncOption
    <3>3. ~(cur >= opt.max_id)
      BY <1>5, <3>2 DEF SkipFiltered, GoesOn
    <3>4. cur < opt.max_id /\ cur \in opt.keeps
      BY <1>5, <3>2, <3>3, OptionTypes DEF SkipFiltered, GoesOn
    <3> QED
      BY <1>5, <3>4 DEF SkipFiltered, Wanted
  <2> QED
    BY <1>5, <2>1, SameRows DEF SkipFiltered, NextTurn, GoesOn
<1>6. CASE SkipDownloaded
  BY <1>6, SameRows DEF SkipDownloaded, NextTurn, GoesOn, IsDownloaded
<1>7. CASE DryRun
  BY <1>7, SameRows DEF DryRun, NextTurn, GoesOn
<1>8. CASE Prepare
  BY <1>8, SameRows DEF Prepare, GoesOn
<1>9. CASE DownloadDone
  BY <1>9, SameRows DEF DownloadDone
<1>10. CASE DownloadNothing
  BY <1>10, SameRows DEF DownloadNothing
<1>11. CASE Retry
  BY <1>11, SameRows DEF Retry
<1>12. CASE FloodStopped
  BY <1>12, SameRows DEF FloodStopped
<1>13. CASE GiveUp
  BY <1>13, SameRows DEF GiveUp, LeaveLoop
<1>14. CASE StopAfterDownload
  BY <1>14, SameRows DEF StopAfterDownload, LeaveLoop
<1>15. CASE NothingArrived
  <2>1. cur \in NoMedia
    BY <1>15, WholeAndCut DEF NothingArrived, StopSeen, PartsInv, Taken
  <2> QED
    BY <1>15, <2>1, SameRows DEF NothingArrived, NextTurn
<1>16. CASE Hash
  BY <1>16, SameRows DEF Hash
<1>17. CASE ChooseAlias
  BY <1>17, SameRows DEF ChooseAlias
<1>18. CASE ChooseOwn
  BY <1>18, SameRows DEF ChooseOwn
<1>19. CASE Link
  BY <1>19, SameRows DEF Link
<1>20. CASE DropPart
  BY <1>20, SameRows DEF DropPart
<1>21. CASE Replace
  BY <1>21, SameRows DEF Replace
<1>22. CASE Record
  <2>1. /\ Downloaded' = Downloaded \union {cur}
        /\ pc = "record" /\ pc' = "journal"
        /\ UNCHANGED <<chat, ckpt, opt, low, high, cur, mx>>
    BY <1>22, RecordAdds DEF Record
  <2> QED
    BY <2>1
<1>23. CASE Journal
  BY <1>23, SameRows DEF Journal, NextTurn, JournalInv
<1>24. CASE Finish
  BY <1>24, SameRows DEF Finish, NoRun, Advanced, Listed
<1>25. CASE IteratorFlood
  BY <1>25, SameRows DEF IteratorFlood, LeaveLoop
<1>26. CASE DownloadFlood
  BY <1>26, SameRows DEF DownloadFlood
<1>27. CASE RequestStop
  BY <1>27, SameRows DEF RequestStop
<1>28. CASE Abort
  BY <1>28, SameRows DEF Abort, NoRun
<1>29. CASE AbortInDownload
  BY <1>29, SameRows DEF AbortInDownload, NoRun
<1>30. CASE Post
  <2>1. PICK m \in Msgs \ chat :
           (\A n \in chat : n < m) /\ chat' = chat \union {m}
    BY <1>30 DEF Post
  <2>2. UNCHANGED <<manifest, ckpt, pc, opt, low, high, cur, mx>>
    BY <1>30 DEF Post
  <2> QED
    BY <2>1, <2>2, SameRows
<1>31. CASE UserDeletes
  BY <1>31, SameRows DEF UserDeletes
<1> QED
  BY <1>1, <1>2, <1>3, <1>4, <1>5, <1>6, <1>7, <1>8, <1>9, <1>10, <1>11,
     <1>12, <1>13, <1>14, <1>15, <1>16, <1>17, <1>18, <1>19, <1>20, <1>21,
     <1>22, <1>23, <1>24, <1>25, <1>26, <1>27, <1>28, <1>29, <1>30, <1>31
     DEF Next, Calm, Step, Mishap

-----------------------------------------------------------------------------
(* Who writes what: of all the steps one adds rows, one moves the          *)
(* checkpoint, one adds messages.                                          *)

LEMMA Writers ==
    ASSUME Next
    PROVE  /\ manifest' = manifest \/ Record
           /\ ckpt' = ckpt \/ Finish
           /\ chat' = chat \/ Post
<1> USE DEF disk, run, cursor, LeaveLoop, NextTurn, NoRun
<1>1. ASSUME NEW o \in Options, Start(o) \/ StartUnread(o)
      PROVE  UNCHANGED <<chat, manifest, ckpt>>
  BY <1>1 DEF Start, StartUnread, StartAfter
<1>2. ASSUME Step
      PROVE  /\ manifest' = manifest \/ Record
             /\ ckpt' = ckpt \/ Finish
             /\ chat' = chat
  BY <1>2
     DEF Step, Fetch, EndOfMessages, Break, SkipFiltered, SkipDownloaded,
         DryRun, Prepare, DownloadDone, DownloadNothing, Retry, FloodStopped,
         GiveUp, StopAfterDownload, NothingArrived, Hash, ChooseAlias,
         ChooseOwn, Link, DropPart, Replace, Record, Journal, Finish
<1>3. ASSUME Mishap, ~(\E o \in Options : StartUnread(o))
      PROVE  UNCHANGED <<chat, manifest, ckpt>>
  BY <1>3
     DEF Mishap, IteratorFlood, DownloadFlood, RequestStop, Abort,
         AbortInDownload
<1>4. CASE UserDeletes
  BY <1>4 DEF UserDeletes
<1>5. CASE Post
  BY <1>5 DEF Post
<1> QED
  BY <1>1, <1>2, <1>3, <1>4, <1>5 DEF Next, Calm, Mishap

\* A dry run goes no further than the head of the loop.
DryInv == opt.dry_run => pc \in {"idle", "loop", "message", "checkpoint"}

LEMMA DryStep ==
    ASSUME TypeInv, DryInv, Next
    PROVE  /\ DryInv'
           /\ opt.dry_run /\ pc # "idle" =>
                manifest' = manifest /\ files' \subseteq files /\ ckpt' = ckpt
<1> DEFINE TakesNothing ==
             opt.dry_run /\ pc # "idle" =>
                manifest' = manifest /\ files' \subseteq files /\ ckpt' = ckpt
<1> USE DEF DryInv, disk, run, cursor
<1>1. ASSUME NEW o \in Options, Start(o) \/ StartUnread(o) 
      PROVE  DryInv' /\ TakesNothing
  BY <1>1 DEF Start, StartUnread, StartAfter
<1>2. CASE Fetch
  BY <1>2 DEF Fetch
<1>3. CASE EndOfMessages
  BY <1>3 DEF EndOfMessages, LeaveLoop
<1>4. CASE Break
  BY <1>4 DEF Break, LeaveLoop
<1>5. CASE SkipFiltered
  BY <1>5 DEF SkipFiltered, NextTurn
<1>6. CASE SkipDownloaded
  BY <1>6 DEF SkipDownloaded, NextTurn
<1>7. CASE DryRun
  BY <1>7 DEF DryRun, NextTurn
<1>8. CASE Prepare
  BY <1>8 DEF Prepare
<1>9. CASE DownloadDone
  BY <1>9 DEF DownloadDone
<1>10. CASE DownloadNothing
  BY <1>10 DEF DownloadNothing
<1>11. CASE Retry
  BY <1>11 DEF Retry
<1>12. CASE FloodStopped
  BY <1>12 DEF FloodStopped
<1>13. CASE GiveUp
  BY <1>13 DEF GiveUp, LeaveLoop
<1>14. CASE StopAfterDownload
  BY <1>14 DEF StopAfterDownload, LeaveLoop
<1>15. CASE NothingArrived
  BY <1>15 DEF NothingArrived, NextTurn
<1>16. CASE Hash
  BY <1>16 DEF Hash
<1>17. CASE ChooseAlias
  BY <1>17 DEF ChooseAlias
<1>18. CASE ChooseOwn
  BY <1>18 DEF ChooseOwn
<1>19. CASE Link
  BY <1>19 DEF Link
<1>20. CASE DropPart
  BY <1>20 DEF DropPart
<1>21. CASE Replace
  BY <1>21 DEF Replace
<1>22. CASE Record
  BY <1>22 DEF Record
<1>23. CASE Journal
  BY <1>23 DEF Journal, NextTurn
<1>24. CASE Finish
  BY <1>24 DEF Finish, NoRun, Advanced, Listed
<1>25. CASE IteratorFlood
  BY <1>25 DEF IteratorFlood, LeaveLoop
<1>26. CASE DownloadFlood
  BY <1>26 DEF DownloadFlood
<1>27. CASE RequestStop
  BY <1>27 DEF RequestStop
<1>28. CASE Abort
  BY <1>28 DEF Abort, NoRun
<1>29. CASE AbortInDownload
  BY <1>29 DEF AbortInDownload, NoRun
<1>30. CASE Post
  BY <1>30 DEF Post
<1>31. CASE UserDeletes
  BY <1>31 DEF UserDeletes
<1> QED
  BY <1>1, <1>2, <1>3, <1>4, <1>5, <1>6, <1>7, <1>8, <1>9, <1>10, <1>11,
     <1>12, <1>13, <1>14, <1>15, <1>16, <1>17, <1>18, <1>19, <1>20, <1>21,
     <1>22, <1>23, <1>24, <1>25, <1>26, <1>27, <1>28, <1>29, <1>30, <1>31
     DEF Next, Calm, Step, Mishap

-----------------------------------------------------------------------------
(* The theorems.                                                           *)


LEMMA TypeAlways == Spec => []TypeInv
<1>1. TypeInv /\ [Next]_vars => TypeInv'
  <2>1. CASE UNCHANGED vars
    BY <2>1
       DEF vars, disk, run, cursor, TypeInv, TypeOK, InHand, Hashed, Placed
  <2> QED
    BY <2>1, TypeStep
<1> QED
  BY <1>1, InitTypeInv, PTL DEF Spec

LEMMA JournalAlways == Spec => []JournalInv
<1>1. TypeInv /\ JournalInv /\ [Next]_vars => JournalInv'
  <2>1. CASE UNCHANGED vars
    BY <2>1, SameRows
       DEF vars, disk, run, cursor, JournalInv, JournalFollowsManifest, Taking
  <2> QED
    BY <2>1, JournalStep
<1> QED
  BY <1>1, InitJournalInv, TypeAlways, PTL DEF Spec

LEMMA IntactAlways == ASSUME NothingLapses PROVE Spec => []IntactInv
<1>1. TypeInv /\ IntactInv /\ [Next]_vars => IntactInv'
  <2>1. CASE UNCHANGED vars
    BY <2>1
       DEF vars, disk, run, cursor, IntactInv, PartsInv, PlaceInv,
           RecordedIntact, Hashed, Placed, Taken, Dst
  <2>2. ASSUME TypeInv, IntactInv, Next PROVE IntactInv'
    BY <2>2, PartsStep, PlaceStep, RecordedStep DEF IntactInv
  <2> QED
    BY <2>1, <2>2
<1> QED
  BY <1>1, InitIntactInv, TypeAlways, PTL DEF Spec

LEMMA CoverAlways ==
    ASSUME NothingLapses, OldestFirst PROVE Spec => []CoverInv
<1>1. /\ TypeInv /\ IntactInv /\ JournalInv /\ CoverInv
      /\ [Next]_vars
      => CoverInv'
  <2>1. CASE UNCHANGED vars
    BY <2>1, SameRows
       DEF vars, disk, run, cursor, CoverInv, CursorInv, Covered, Posted,
           SyncRun, InHand
  <2> QED
    BY <2>1, CoverStep DEF IntactInv
<1> QED
  BY <1>1, InitCoverInv, TypeAlways, JournalAlways, IntactAlways, PTL DEF Spec

\* Every variable of a run and of what it leaves on the disk keeps its type.
THEOREM TypeCorrect == Spec => []TypeOK
<1>1. TypeInv => TypeOK
  BY DEF TypeInv
<1> QED
  BY <1>1, TypeAlways, PTL

\* Every row of the manifest names a whole file of its message: stops, kills,
\* floods and failed links included, as long as announced media can be had.
THEOREM DownloadsIntact ==
    ASSUME NothingLapses PROVE Spec => []RecordedIntact
<1>1. IntactInv => RecordedIntact
  BY DEF IntactInv
<1> QED
  BY <1>1, IntactAlways, PTL

\* A line of messages.jsonl follows the row of its message, and is the only
\* one, under any options.
THEOREM JournalFollows == Spec => []JournalFollowsManifest
<1>1. JournalInv => JournalFollowsManifest
  BY DEF JournalInv
<1> QED
  BY <1>1, JournalAlways, PTL

\* Nothing with media is left below the checkpoint when sync runs look at all
\* messages, oldest first, and announced media can be had.
THEOREM NothingLeftBehind ==
    ASSUME NothingLapses, OldestFirst PROVE Spec => []CheckpointCovers
<1>1. CoverInv => CheckpointCovers
  BY DEF CoverInv, Covered, CheckpointCovers
<1> QED
  BY <1>1, CoverAlways, PTL

\* The checkpoint never moves back, under any options.
THEOREM CheckpointOnlyAdvances == Spec => CheckpointMonotonic
<1>1. TypeInv /\ [Next]_vars => [ckpt' >= ckpt]_vars
  <2>1. ASSUME TypeInv, Next PROVE ckpt' >= ckpt
    <3>1. CASE ckpt' = ckpt
      BY <2>1, <3>1 DEF TypeInv, TypeOK
    <3>2. CASE Finish
      BY <2>1, <3>2
         DEF Finish, Advanced, Listed, Max2, TypeInv, TypeOK, Msgs
    <3> QED
      BY <2>1, <3>1, <3>2, Writers
  <2> QED
    BY <2>1
<1> QED
  BY <1>1, TypeAlways, PTL DEF Spec, CheckpointMonotonic

\* A dry run leaves the manifest, the files and the checkpoint as they are.
THEOREM DryRunsTakeNothing == Spec => DryRunTakesNothing
<1>1. Init => DryInv
  BY DEF Init, DryInv
<1>2. TypeInv /\ DryInv /\ [Next]_vars => DryInv'
  <2>1. CASE UNCHANGED vars
    BY <2>1 DEF vars, run, DryInv
  <2> QED
    BY <2>1, DryStep
<1>3. TypeInv /\ DryInv /\ [Next]_vars
      => [opt.dry_run /\ pc # "idle" =>
            manifest' = manifest /\ files' \subseteq files /\ ckpt' = ckpt]_vars
  BY DryStep
<1> QED
  BY <1>1, <1>2, <1>3, TypeAlways, PTL DEF Spec, DryRunTakesNothing

\* A step of the downloader is a step of the mirror, or none.
LEMMA MirrorStep ==
    ASSUME TypeInv, IntactInv, JournalInv, CoverInv, Next
    PROVE  Mirror!Next \/ UNCHANGED Mirror!vars
<1>1. CASE UNCHANGED <<chat, manifest, ckpt>>
  BY <1>1, SameRows DEF Mirror!vars
<1>2. CASE Post
  <2>1. PICK m \in Msgs \ chat :
           (\A n \in chat : n < m) /\ chat' = chat \union {m}
    BY <1>2 DEF Post
  <2>2. UNCHANGED <<Downloaded, ckpt>>
    BY <1>2, SameRows DEF Post, disk
  <2> QED
    BY <2>1, <2>2 DEF Mirror!Next, Mirror!Post, Msgs
<1>3. CASE Record
  <2>1. /\ Downloaded' = Downloaded \union {cur}
        /\ UNCHANGED <<chat, ckpt>>
    BY <1>3, RecordAdds DEF Record
  <2>2. cur \in Msgs /\ cur \in chat /\ cur \notin Downloaded /\ cur \notin NoMedia
    BY <1>3
       DEF Record, TypeInv, CoverInv, InHand, JournalInv, Taking, IntactInv,
           PartsInv, Hashed
  <2> QED
    BY <2>1, <2>2 DEF Mirror!Next, Mirror!Keep, Msgs
<1>4. CASE Finish /\ ckpt' # ckpt
  <2>1. /\ ckpt' = mx /\ mx > ckpt
        /\ opt.sync /\ ~opt.dry_run /\ pc = "checkpoint"
    BY <1>4
       DEF Finish, Advanced, Listed, Max2, TypeInv, TypeOK, Msgs
  <2>2. mx \in chat /\ Covered(mx)
    BY <2>1
       DEF CoverInv, CursorInv, SyncRun, Posted, TypeInv, TypeOK
  <2>3. UNCHANGED <<chat, Downloaded>>
    BY <1>4, SameRows DEF Finish
  <2>4. mx \in Msgs
    BY <2>2 DEF TypeInv, TypeOK
  <2> QED
    BY <2>1, <2>2, <2>3, <2>4
       DEF Mirror!Next, Mirror!Advance, Mirror!Covered, Covered, Msgs
<1>5. Finish => UNCHANGED <<chat, manifest>>
  BY DEF Finish
<1>6. Record => UNCHANGED <<chat, ckpt>>
  BY DEF Record
<1>7. Post => UNCHANGED <<manifest, ckpt>>
  BY DEF Post, disk
<1> QED
  BY <1>1, <1>2, <1>3, <1>4, <1>5, <1>6, <1>7, Writers

\* The downloader implements the mirror of ChatMirror: it keeps messages one
\* by one and moves its mark over nothing that is missing.
THEOREM MirrorsTheChat ==
    ASSUME NothingLapses, OldestFirst PROVE Spec => IsMirror
<1>1. Init => Mirror!Init
  BY DEF Init, Mirror!Init, Downloaded
<1>2. /\ TypeInv /\ IntactInv /\ JournalInv /\ CoverInv
      /\ [Next]_vars
      => [Mirror!Next]_(Mirror!vars)
  <2>1. CASE UNCHANGED vars
    BY <2>1, SameRows DEF vars, disk, Mirror!vars
  <2> QED
    BY <2>1, MirrorStep
<1> QED
  BY <1>1, <1>2, TypeAlways, JournalAlways, IntactAlways, CoverAlways, PTL
     DEF Spec, IsMirror, Mirror!Spec
=============================================================================

----------------------------- MODULE Downloader -----------------------------
(***************************************************************************)
(* One chat being mirrored into one output directory: download_chat of     *)
(* downloader.py, the manifest of store.py and the files it leaves behind. *)
(*                                                                         *)
(* Runs follow one another (a user repeats the command, a web client       *)
(* starts another job); a run may be asked to stop, be rate limited, fail  *)
(* or be killed between any two of its effects on the disk.  Message       *)
(* bodies are opaque: two messages with the same body have the same SHA.   *)
(***************************************************************************)
EXTENDS Integers, FiniteSets

CONSTANTS
    MaxId,      \* message identifiers are 1..MaxId
    Bodies,     \* what a media file can hold
    Body,       \* the media of each message, [Msgs -> Bodies]
    NoMedia,    \* messages with nothing to download (plain text)
    Lapsing,    \* messages whose media may be gone when it is asked for
    Options,    \* the DownloadOpts the runs are started with
    Absent      \* "there is no such .part file"

Msgs == 1 .. MaxId

(***************************************************************************)
(* The fields of DownloadOpts that decide what a run does.  asks is what   *)
(* Telegram is asked for (search, from_user, ids), keeps what passes the   *)
(* filters applied here (size, pattern, date, sender, kind); capped says   *)
(* that timeout_s or max_bytes is set, either of which may end the run     *)
(* before any message.  limit is 0 for no limit.                           *)
(***************************************************************************)
DownloadOpts ==
    [sync : BOOLEAN, dry_run : BOOLEAN, resume : BOOLEAN, reverse : BOOLEAN,
     capped : BOOLEAN, limit : Nat, min_id : Nat, max_id : Nat,
     asks : SUBSET Msgs, keeps : SUBSET Msgs]

(***************************************************************************)
(* What a file holds: a body, all of it or a beginning.  Its SHA-256 is    *)
(* taken to identify it.  A finished file is named after its message and   *)
(* its hash, so a path is such a pair.                                     *)
(***************************************************************************)
Content == [body : Bodies, whole : BOOLEAN]
Paths == Msgs \X Content
Rows == [msg : Msgs, sha : Content, path : Paths]

ASSUME DownloaderAssumption ==
    /\ MaxId \in Nat
    /\ Body \in [Msgs -> Bodies]
    /\ NoMedia \subseteq Msgs
    /\ Lapsing \subseteq Msgs
    /\ Options \subseteq DownloadOpts
    /\ Options # {}
    /\ Absent \notin Content

Whole(m) == [body |-> Body[m], whole |-> TRUE]
Cut(m) == [body |-> Body[m], whole |-> FALSE]

VARIABLES
    chat,       \* messages posted so far
    parts,      \* the .part file of each message
    files,      \* paths of the finished files on disk
    deleted,    \* history: finished files the user removed since
    manifest,   \* rows of the downloads table
    lines,      \* download lines of messages.jsonl, per message
    ckpt,       \* sync_state.max_msg_id, 0 when there is no row
    pc,         \* where download_chat is
    opt,        \* its options
    low, high,  \* the message iterator: what it has not passed yet
    left,       \* messages the limit still allows
    cur,        \* the message in hand, 0 when none
    att,        \* download attempts made for it
    sha, path,  \* the hash computed, and the path being recorded
    mx,         \* highest message downloaded, skipped or listed
    stop        \* _stop or cancel_event is set

disk == <<parts, files, deleted, manifest, lines, ckpt>>
cursor == <<low, high, left>>
run == <<opt, cursor, cur, att, sha, path, mx, stop>>
vars == <<chat, disk, pc, run>>

Downloaded == {r.msg : r \in manifest}
Max2(a, b) == IF a > b THEN a ELSE b
NoPath == <<0, Absent>>
IdleOpts == CHOOSE o \in Options : TRUE

-----------------------------------------------------------------------------
(* Starting a run.                                                         *)

\* The run's local state once it is over: nothing of it survives.
NoRun ==
    /\ pc' = "idle"
    /\ opt' = IdleOpts
    /\ low' = 0 /\ high' = 0 /\ left' = 0
    /\ cur' = 0 /\ att' = 0 /\ sha' = Absent /\ path' = NoPath
    /\ mx' = 0 /\ stop' = FALSE

Init ==
    /\ chat = {}
    /\ parts = [m \in Msgs |-> Absent]
    /\ files = {} /\ deleted = {} /\ manifest = {}
    /\ lines = [m \in Msgs |-> 0]
    /\ ckpt = 0
    /\ pc = "idle"
    /\ opt = IdleOpts
    /\ low = 0 /\ high = 0 /\ left = 0
    /\ cur = 0 /\ att = 0 /\ sha = Absent /\ path = NoPath
    /\ mx = 0 /\ stop = FALSE

\* Where the iterator starts: after min_id and, in a sync run, after the
\* checkpoint.
EffectiveMinId_Next(o) ==
    IF o.sync THEN Max2(o.min_id, ckpt + 1) ELSE o.min_id
EffectiveMinId(o) == IF o.sync THEN Max2(o.min_id, ckpt) ELSE o.min_id

StartAfter(o, min) ==
    /\ pc = "idle"
    /\ pc' = "loop"
    /\ opt' = o
    /\ low' = min /\ high' = MaxId + 1 /\ left' = o.limit
    /\ stop' = FALSE
    /\ UNCHANGED <<chat, disk, cur, att, sha, path, mx>>

Start(o) == StartAfter(o, EffectiveMinId(o))

\* A checkpoint that cannot be read is ignored with a warning.
StartUnread(o) == o.sync /\ StartAfter(o, o.min_id)

-----------------------------------------------------------------------------
(* The message loop.  The iterator yields the messages above low, oldest   *)
(* first, or, when reverse is off, those between low and high, newest      *)
(* first; a new message may be posted while it runs.                       *)

Ahead == {m \in chat \intersect opt.asks : low < m /\ m < high}
LimitReached == opt.limit > 0 /\ left = 0

NextMessage(m) ==
    /\ m \in Ahead
    /\ \A n \in Ahead : IF opt.reverse THEN m <= n ELSE m >= n

Fetch ==
    /\ pc = "loop" /\ ~LimitReached
    /\ \E m \in Ahead :
          /\ NextMessage(m)
          /\ cur' = m
          /\ IF opt.reverse THEN low' = m /\ high' = high
                            ELSE high' = m /\ low' = low
    /\ left' = IF opt.limit > 0 THEN left - 1 ELSE left
    /\ pc' = "message"
    /\ UNCHANGED <<chat, disk, opt, att, sha, path, mx, stop>>

\* The loop is left in order: download_chat goes on to its checkpoint.
LeaveLoop ==
    /\ pc' = "checkpoint"
    /\ cur' = 0 /\ att' = 0 /\ sha' = Absent /\ path' = NoPath
    /\ UNCHANGED <<chat, disk, opt, cursor, mx, stop>>

NextTurn(newMx) ==
    /\ pc' = "loop"
    /\ cur' = 0 /\ att' = 0 /\ sha' = Absent /\ path' = NoPath
    /\ mx' = newMx
    /\ UNCHANGED <<chat, opt, cursor, stop>>

\* No message is left, or the iterator itself met a FloodWait within the cap:
\* the run sleeps and ends there.
EndOfMessages ==
    /\ pc = "loop"
    /\ LimitReached \/ Ahead = {}
    /\ LeaveLoop

IteratorFlood ==
    /\ pc = "loop"
    /\ LeaveLoop

-----------------------------------------------------------------------------
(* One message, up to the download.                                        *)

Wanted(m) == m < opt.max_id /\ m \in opt.keeps
Dst == <<cur, sha>>

\* The checks at the head of the loop body that end the run: the iterator
\* passed max_id, a stop was asked for, the time or the bytes are used up.
Break ==
    /\ pc = "message"
    /\ \/ opt.reverse /\ cur >= opt.max_id
       \/ stop
       \/ opt.capped
    /\ LeaveLoop

GoesOn == pc = "message" /\ ~stop /\ ~(opt.reverse /\ cur >= opt.max_id)

SkipFiltered ==
    /\ GoesOn /\ ~Wanted(cur)
    /\ NextTurn(mx)
    /\ UNCHANGED disk

IsDownloaded_Forgets(m) == FALSE
IsDownloaded(m) == m \in Downloaded

SkipDownloaded ==
    /\ GoesOn /\ Wanted(cur) /\ IsDownloaded(cur)
    /\ NextTurn(Max2(mx, cur))
    /\ UNCHANGED disk

\* A leftover .part is removed, by a dry run as well, unless --resume is on.
WithoutStale == IF opt.resume THEN parts ELSE [parts EXCEPT ![cur] = Absent]

\* A dry run lists the message in messages.jsonl and takes nothing; those
\* lines are told apart from download lines and are not counted here.
DryRun ==
    /\ GoesOn /\ Wanted(cur) /\ ~IsDownloaded(cur) /\ opt.dry_run
    /\ parts' = WithoutStale
    /\ NextTurn(Max2(mx, cur))
    /\ UNCHANGED <<files, deleted, manifest, lines, ckpt>>

Prepare ==
    /\ GoesOn /\ Wanted(cur) /\ ~IsDownloaded(cur) /\ ~opt.dry_run
    /\ parts' = WithoutStale
    /\ att' = 0
    /\ pc' = "download"
    /\ UNCHANGED <<chat, files, deleted, manifest, lines, ckpt, opt, cursor,
                   cur, sha, path, mx, stop>>

-----------------------------------------------------------------------------
(* download_media, outside this repository: it writes the .part file from  *)
(* its beginning, raises, or returns having written nothing when there is  *)
(* no media.                                                               *)

HasMedia(m) == m \notin NoMedia
CanWrite == {Whole(cur), Cut(cur)}

DownloadDone ==
    /\ pc = "download" /\ HasMedia(cur)
    /\ parts' = [parts EXCEPT ![cur] = Whole(cur)]
    /\ pc' = "check"
    /\ UNCHANGED <<chat, files, deleted, manifest, lines, ckpt, run>>

DownloadNothing ==
    /\ pc = "download" /\ cur \in NoMedia \union Lapsing
    /\ pc' = "check"
    /\ UNCHANGED <<chat, disk, run>>

\* A FloodWait within the cap, before the first byte or in the middle.
DownloadFlood ==
    /\ pc = "download"
    /\ \/ UNCHANGED parts
       \/ HasMedia(cur) /\ parts' = [parts EXCEPT ![cur] = Cut(cur)]
    /\ pc' = "flood"
    /\ UNCHANGED <<chat, files, deleted, manifest, lines, ckpt, run>>

MaxAttempts == 3

\* The sleep is over: another attempt, unless a stop cut it short or this
\* was the last one.
Retry_Uncounted ==
    /\ pc = "flood" /\ ~stop /\ att + 1 < MaxAttempts
    /\ pc' = "download"
    /\ UNCHANGED <<chat, disk, run>>
Retry_OneMore ==
    /\ pc = "flood" /\ ~stop /\ att + 1 <= MaxAttempts
    /\ att' = att + 1
    /\ pc' = "download"
    /\ UNCHANGED <<chat, disk, opt, cursor, cur, sha, path, mx, stop>>
Retry ==
    /\ pc = "flood" /\ ~stop /\ att + 1 < MaxAttempts
    /\ att' = att + 1
    /\ pc' = "download"
    /\ UNCHANGED <<chat, disk, opt, cursor, cur, sha, path, mx, stop>>

FloodStopped ==
    /\ pc = "flood" /\ stop
    /\ pc' = "check"
    /\ UNCHANGED <<chat, disk, run>>

GiveUp_NextMessage ==
    /\ pc = "flood" /\ ~stop /\ att + 1 = MaxAttempts
    /\ NextTurn(mx) /\ UNCHANGED disk
GiveUp ==
    /\ pc = "flood" /\ ~stop /\ att + 1 = MaxAttempts
    /\ LeaveLoop

-----------------------------------------------------------------------------
(* After the attempts: hash what arrived and put it in its place.          *)

StopSeen_Ignored == FALSE
StopSeen == stop

StopAfterDownload ==
    /\ pc = "check" /\ StopSeen
    /\ LeaveLoop

NothingArrived ==
    /\ pc = "check" /\ ~StopSeen /\ parts[cur] = Absent
    /\ NextTurn(mx)
    /\ UNCHANGED disk

Hash ==
    /\ pc = "check" /\ ~StopSeen /\ parts[cur] # Absent
    /\ sha' = parts[cur]
    /\ pc' = "hashed"
    /\ UNCHANGED <<chat, disk, opt, cursor, cur, att, path, mx, stop>>

\* find_by_sha returns one row with this hash, any of them.
SameSha == {r \in manifest : r.sha = sha}

ChooseAlias ==
    /\ pc = "hashed"
    /\ \E r \in SameSha : r.path \in files /\ path' = r.path
    /\ pc' = "link"
    /\ UNCHANGED <<chat, disk, opt, cursor, cur, att, sha, mx, stop>>

\* No row has this hash, or the file of the one found is gone.  A finished
\* file of this name and size is kept, else the .part takes its place.
ChooseOwn ==
    /\ pc = "hashed"
    /\ SameSha = {} \/ \E r \in SameSha : r.path \notin files
    /\ path' = Dst
    /\ pc' = IF Dst \in files THEN "drop" ELSE "replace"
    /\ UNCHANGED <<chat, disk, opt, cursor, cur, att, sha, mx, stop>>

Link_NamesOwn ==
    /\ pc = "link"
    /\ path' = Dst
    /\ \/ UNCHANGED <<files, deleted>>
       \/ /\ path \in files
          /\ files' = files \union {Dst} /\ deleted' = deleted \ {Dst}
    /\ pc' = "drop"
    /\ UNCHANGED <<chat, parts, manifest, lines, ckpt, opt, cursor, cur, att,
                   sha, mx, stop>>

\* os.link fails when the earlier file has just gone and on filesystems
\* without hard links; the row then names the earlier file.
Link ==
    /\ pc = "link"
    /\ \/ /\ Dst \in files
          /\ path' = Dst
          /\ UNCHANGED <<files, deleted>>
       \/ /\ Dst \notin files /\ path \in files
          /\ files' = files \union {Dst} /\ deleted' = deleted \ {Dst}
          /\ path' = Dst
       \/ /\ Dst \notin files
          /\ UNCHANGED <<files, deleted, path>>
    /\ pc' = "drop"
    /\ UNCHANGED <<chat, parts, manifest, lines, ckpt, opt, cursor, cur, att,
                   sha, mx, stop>>

DropPart ==
    /\ pc = "drop"
    /\ parts' = [parts EXCEPT ![cur] = Absent]
    /\ pc' = "record"
    /\ UNCHANGED <<chat, files, deleted, manifest, lines, ckpt, run>>

Replace ==
    /\ pc = "replace"
    /\ files' = files \union {Dst} /\ deleted' = deleted \ {Dst}
    /\ parts' = [parts EXCEPT ![cur] = Absent]
    /\ pc' = "record"
    /\ UNCHANGED <<chat, manifest, lines, ckpt, run>>

\* INSERT OR IGNORE under UNIQUE(chat_id, msg_id), committed at once.
Record ==
    /\ pc = "record"
    /\ manifest' = IF cur \in Downloaded THEN manifest
                   ELSE manifest \union
                        {[msg |-> cur, sha |-> sha, path |-> path]}
    /\ pc' = "journal"
    /\ UNCHANGED <<chat, parts, files, deleted, lines, ckpt, run>>

Journal ==
    /\ pc = "journal"
    /\ lines' = [lines EXCEPT ![cur] = @ + 1]
    /\ NextTurn(Max2(mx, cur))
    /\ UNCHANGED <<parts, files, deleted, manifest, ckpt>>

-----------------------------------------------------------------------------
(* The checkpoint, on the normal way out only.  (A write that fails is     *)
(* logged and forgotten, which is Abort here.)                             *)

Listed_AlsoDry == opt.sync /\ mx > 0
Listed == opt.sync /\ mx > 0 /\ ~opt.dry_run

\* A plain upsert, without the guard and the max() of the SQL.
Advanced_Blindly == IF Listed THEN mx ELSE ckpt
Advanced == IF Listed THEN Max2(ckpt, mx) ELSE ckpt

Finish ==
    /\ pc = "checkpoint"
    /\ ckpt' = Advanced
    /\ NoRun
    /\ UNCHANGED <<chat, parts, files, deleted, manifest, lines>>

-----------------------------------------------------------------------------
(* What happens around a run.                                              *)

\* Ctrl-C (_mark) or the job's cancel event.
RequestStop ==
    /\ pc # "idle" /\ ~stop
    /\ stop' = TRUE
    /\ UNCHANGED <<chat, disk, pc, opt, cursor, cur, att, sha, path, mx>>

\* The run ends where it stands: the process is killed, the task cancelled at
\* an await, or an exception (no space, a locked database, a FloodWait over
\* the cap, a lost connection) leaves download_chat.
Abort ==
    /\ pc # "idle"
    /\ NoRun
    /\ UNCHANGED <<chat, disk>>

\* The same while download_media writes.
AbortInDownload ==
    /\ pc = "download" /\ HasMedia(cur)
    /\ \E c \in CanWrite : parts' = [parts EXCEPT ![cur] = c]
    /\ NoRun
    /\ UNCHANGED <<chat, files, deleted, manifest, lines, ckpt>>

Post ==
    /\ \E m \in Msgs \ chat :
          /\ \A n \in chat : n < m
          /\ chat' = chat \union {m}
    /\ UNCHANGED <<disk, pc, run>>

UserDeletes ==
    /\ \E p \in files : files' = files \ {p} /\ deleted' = deleted \union {p}
    /\ UNCHANGED <<chat, parts, manifest, lines, ckpt, pc, run>>

-----------------------------------------------------------------------------
\* Steps download_chat takes by itself.
Step ==
    \/ Fetch \/ EndOfMessages
    \/ Break \/ SkipFiltered \/ SkipDownloaded \/ DryRun \/ Prepare
    \/ DownloadDone \/ DownloadNothing
    \/ Retry \/ FloodStopped \/ GiveUp
    \/ StopAfterDownload \/ NothingArrived \/ Hash
    \/ ChooseAlias \/ ChooseOwn \/ Link \/ DropPart \/ Replace
    \/ Record \/ Journal \/ Finish

Mishap ==
    \/ \E o \in Options : StartUnread(o)
    \/ IteratorFlood \/ DownloadFlood
    \/ RequestStop \/ Abort \/ AbortInDownload

Calm ==
    \/ \E o \in Options : Start(o)
    \/ Step
    \/ Post \/ UserDeletes

Next == Calm \/ Mishap

Spec == Init /\ [][Next]_vars

(***************************************************************************)
(* Fairness.  A run that is under way makes its next step, since nothing   *)
(* in it waits for another actor.  Catching up on a chat needs more: sync  *)
(* runs are repeated (a cron job, a user who comes back), and from some    *)
(* point on Telegram, the machine and the user let them end.               *)
(***************************************************************************)
RunFairness == WF_vars(Step)
Repeated == SF_vars(\E o \in Options : o.sync /\ ~o.dry_run /\ Start(o))
CalmAtLast == <>[][Calm]_vars

FairSpec == Spec /\ RunFairness
CatchUpSpec == Spec /\ RunFairness /\ Repeated /\ CalmAtLast

-----------------------------------------------------------------------------
TypeOK ==
    /\ chat \subseteq Msgs
    /\ parts \in [Msgs -> Content \union {Absent}]
    /\ files \subseteq Paths /\ deleted \subseteq Paths
    /\ manifest \subseteq Rows
    /\ lines \in [Msgs -> Nat]
    /\ ckpt \in Nat
    /\ pc \in {"idle", "loop", "message", "download", "flood", "check",
               "hashed", "link", "drop", "replace", "record", "journal",
               "checkpoint"}
    /\ opt \in Options
    /\ low \in Nat /\ high \in Nat /\ left \in Nat
    /\ cur \in Msgs \union {0} /\ att \in 0 .. MaxAttempts - 1
    /\ sha \in Content \union {Absent} /\ path \in Paths \union {NoPath}
    /\ mx \in Msgs \union {0} /\ stop \in BOOLEAN

\* What the guarantees below ask of the constants: media that is announced can
\* be had, and sync runs look at all messages, oldest first, from the start.
NothingLapses == Lapsing = {}
OldestFirst ==
    \A o \in Options :
        o.sync => o.reverse /\ o.min_id = 0 /\ o.asks = Msgs /\ o.keeps = Msgs

\* A row of the manifest names a file holding all of that message's media
\* under the hash recorded, as long as the user leaves that file alone: no
\* crash, stop, flood or failed link makes a beginning of a file, or a file
\* that is not there, pass for a finished download.
RecordedIntact ==
    \A r \in manifest :
        /\ r.sha = Whole(r.msg)
        /\ r.path[2] = r.sha
        /\ r.path \in files \union deleted

\* A message at or below the checkpoint is done with: no later sync run sees
\* it again, so every such message that has media has its row.
CheckpointCovers ==
    \A m \in chat \ NoMedia : m <= ckpt => m \in Downloaded

\* messages.jsonl names a download at most once, and only one the manifest
\* has: a run that died between the two left no line, never a second one.
JournalFollowsManifest ==
    \A m \in Msgs : lines[m] <= 1 /\ (lines[m] = 1 => m \in Downloaded)

\* The checkpoint never moves back, whatever a run read at its start.
CheckpointMonotonic == [][ckpt' >= ckpt]_vars

\* A dry run records nothing: no row, no finished file, no checkpoint.
DryRunTakesNothing ==
    [][opt.dry_run /\ pc # "idle" =>
         manifest' = manifest /\ files' \subseteq files /\ ckpt' = ckpt]_vars

\* The downloader is a mirror of the chat: one message is recorded at a time,
\* and the mark moves only over messages that are recorded or have no media.
Mirror == INSTANCE ChatMirror
            WITH posted <- chat, kept <- Downloaded, mark <- ckpt
IsMirror == Mirror!Spec

\* Every run that starts ends, however often Telegram asks it to wait.
EveryRunEnds == (pc # "idle") ~> (pc = "idle")

\* Sync runs repeated over a chat end up with every message that has media.
CatchesUp ==
    \A m \in Msgs : (m \in chat \ NoMedia) ~> (m \in Downloaded)
=============================================================================

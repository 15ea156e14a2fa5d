# TelegramFilesDownloader: a verification project

TLA+ models of TelegramFilesDownloader (TeleVault), with the TLC configurations
that check them on small instances and proofs checked by TLAPS. Paths below are
relative to the repository; line numbers of every definition are in
`PROJECT.json` under `map`.

## The system

The program downloads the media of Telegram chats, from a command line
(`src/cli.py`) or from a web interface (`src/web/`). Both drive one routine,
`download_chat` of `src/downloader.py`.

| Part | State it keeps | Operations | Interacts with | What makes it correct |
|---|---|---|---|---|
| Downloader (`downloader.py`) | local variables of a run, the global `_stop` | `download_chat`, SIGINT | Telegram (messages, media, FloodWait), manifest, output directory | what is recorded is whole and in place; nothing below the checkpoint is missing; a run ends |
| Manifest (`store.py`) | tables `downloads`, `sync_state`; `messages.jsonl` | record, look up by message or hash, checkpoint, append | downloader, ZIP routes | one row per message; a monotonic checkpoint; lines follow rows |
| File helpers (`filesafe.py`) | none | names, disk check, atomic replace | downloader | names identify message and content |
| Job manager (`web/job_manager.py`) | busy flag, active task and id, cancel event, snapshot, subscribers | start, cancel, cancel and wait, run | download routes, downloader, WebSocket | one job at a time; cancels reach their job; the flag clears; connections are closed |
| Download routes (`web/routes_jobs.py`) | none | start, cancel, state, live | job manager, session pool, resolver | every request is answered |
| Instance lock (`instance_lock.py`) | lockfile, flock, PID in the file | acquire, terminate the previous instance, clean up | kernel, other processes | at most one holder, of the file the path names |
| Session pool (`web/session_manager.py`, `web/client_helpers.py`) | LRU map of tenants | get or create, evict, sweep, log out, close all | every route | a client in use is not disconnected; a job is reachable until it ends |
| Application (`web/app.py`) | default job manager, sweeper task | lifespan, middleware | pool, job manager | nobody reaches a visitor's data without a client of their own |
| ZIP and direct downloads (`web/zip_stream.py`, `web/routes_direct.py`) | tickets | chat scan, size calculation, deduplication, streaming | session pool, Telegram | scans are complete; the announced length and the central directory are true of what is streamed; names are unique |
| Media routes (`web/routes_media.py`) | none | Range parsing, file serving | output directory | served bytes are the range asked for |
| Sign-in (`web/routes_tg.py`, `web/qr.py`, `auth.py`) | phone hash, QR login | phone and QR steps | pool, Telegram | steps in order, one login per session |
| Limiters and tokens (`web/security.py`) | sliding windows per address | check, record | middleware, sign-in | quotas hold, entries are bounded |
| Resolver, dialogs, configuration, cookies, entry points | none | parsing, formatting | | |
| Browser interface (`web/static/app.js`) | view state | rendering | routes, WebSocket | |

What is hard in it: a run may be stopped, rate limited, fail or be killed
between any two effects on the disk; the handlers of the web server interleave
at every `await` around shared managers; several processes meet at one
lockfile; and the checkpoint compresses a history of downloads into one number.
`PROJECT.json` lists these hazards one by one, at the line where each bites.

## The modules

| Module | What it is |
|---|---|
| `Downloader` | `download_chat`, the manifest and the files, over a sequence of runs |
| `ChatMirror` | what the downloader promises about a chat, abstractly |
| `JobManager` | one job manager and the start and cancel handlers around it |
| `Telemetry` | `JobManager` composed with its subscribers: queues, sockets, the status a page shows |
| `InstanceLock` | the processes that start with one session, and its lockfile |
| `SessionLock` | the abstract lock it implements |
| `SessionPool` | the visitors' clients: LRU pool, sweeper, logout, and the handlers that use them |
| `ByteRange` | the Range parser, and what a header selects (the reference it is compared with) |
| `ZipArchive` | the layout of an archive, the size announced for it, the renaming of duplicates |
| `DirectDownload` | a browser that scans a chat and streams a file or an archive from it; composes the two above with tickets |
| `RateLimit` | the two sliding-window limiters |
| `Subsequences` | filtered and sorted sequences, which the two above use |
| `DownloaderProofs`, `JobManagerProofs`, `TelemetryProofs`, `InstanceLockProofs`, `SessionPoolProofs`, `OperatorProofs`, `DirectDownloadProofs`, `RateLimitProofs` | theorems |
| `MCDownloader`, `MCInstanceLock`, `MCSessionPool`, `MCDirectDownload` | constants and symmetry for the runs |

### Downloader

`pc` follows the body of `download_chat`; every action is the code between two
points where the process may be killed or the task suspended with something on
the disk to show for it. `parts`, `files`, `manifest`, `lines` and `ckpt` are
the disk; `low`, `high`, `left` are the position of `iter_messages`; `cur`,
`att`, `sha`, `path`, `mx` are the locals of the same role. All locals are
reset between runs.

- Bodies are opaque and a hash identifies what was hashed. A file holds a body,
  whole or cut. Two messages may have the same body, so that the alias path
  (`find_by_sha`, `os.link`) is taken; equal names are then of equal content.
- Filters are two sets in the options: what Telegram is asked for (`search`,
  `from_user`, `ids`) and what `_ok` keeps. `timeout_s` and `max_bytes` are the
  flag `capped`: they may end the run before any message.
- With explicit `ids` Telethon ignores `min_id`; the options with a proper
  subset in `asks` therefore have `min_id` 0 in the runs.
- `Abort` and `AbortInDownload` stand for a kill, a cancelled task, and every
  exception that leaves the function: no space, a locked database, a FloodWait
  over the cap.
- `download_media` is outside the repository: it writes the file from its
  beginning, raises, or returns with nothing written. `Lapsing` names the
  messages where it may do the last although they have media.
- `deleted` is a history variable. The user may remove finished files at any
  time; the manifest is still right about what was there.

### JobManager and Telemetry

A start request is the model's job name too, since it makes at most one.
Coroutines of one loop interleave only at awaits, which are the boundaries of
the actions; the manager's `asyncio.Lock` is never held across one and is left
out. `TaskNeverRuns` is asyncio's rule that a task cancelled before its first
step raises before the first line of its coroutine. Time limits are actions
that may be taken at any moment, except that the five seconds of `wait_for` do
not pass before a task that is scheduled has had its first step.
`DownloadReturns`, `DownloadRaises` and `DownloadCancelled` are the ways out of
`download_chat` that the downloader's model has.

`Telemetry` extends it: every action that broadcasts is conjoined with what it
puts into the subscribers' queues, and the progress callbacks, which change no
other state, become actions. A page connects (`Connect`: `subscribe` and the
snapshot, without a suspension between), is greeted with that snapshot
(`Greet`), is sent its queue in order (`SendEvent`) and may lose its connection
anywhere. `shown` is the status `app.js` keeps: it changes with `INIT_STATE`,
`PROGRESS`, `COMPLETED` and `FAILED`. The page takes no state from a `CANCELLED`
event, so `EndIsShown` speaks of the other two ends. The history `missed` marks
a page whose last state event met a full queue.

### InstanceLock

One action per system call of `acquire_instance_lock`, of
`terminate_existing_process` and of `cleanup_instance_lock`, for each process;
`file`, `flock` and `text` are the kernel's. Processes die anywhere and their
number comes back as another start. Inode numbers are reused as soon as nothing
refers to them. How a PID is matched to the program (`is_pid_matching_app`) is
not modelled: every live process of the model is one.

### SessionPool

A tenant of the model is a `TenantSession` object, so that a visitor who is
evicted and comes back has another one, with another client on the same session
file; objects nothing refers to are used again. `pool` and `older` are the
ordered `_sessions`; `lock` is the `asyncio.Lock`, which is visible only where it
is held across an await: the disconnect of an evicted client (`Evict`,
`EvictDone`). The sweeper and the logout take their tenants out under the lock
and disconnect after giving it up (`Sweep`, `SweepClose`; `LogoutPop`,
`LoggedOut`).

A handler is a record `req[h]`: where it is, whose it is, the tenant whose
client it holds and, for `start_download`, the job manager it found on arrival.
The three look-ups of that handler (manager, client, directory) happen at three
moments (`FindManager`; `Hit`, `Create` or `EvictDone`; `StartJob`) with
anything between. Reading the pool at `StartJob` is what decides
whether the job writes to its visitor's directory (`home`) or to the shared one.

The histories name the two ways a tenant in use is taken away: `cut` (it left the
pool while a request held it, or in a logout) and `revived` (it was made while a
logout of the same visitor was under way). The properties that mention them say
that nothing else goes wrong. A stream that loses its client to an eviction or a
sweep is such a case: only running jobs protect a tenant.

`JobManager` is the other half of the same handler: it follows one manager and
takes the client for granted, where `SessionPool` follows the clients and takes a
manager for one job at a time.

### DirectDownload, ByteRange, ZipArchive

`ByteRange!ParseRange` is the parser with its three callers' decisions (whole
file, 206, 416). `Selected` is what its answer is compared with: the positions
within the bounds a header writes, taken literally. For a range that ends before it
starts that is none, as `tests/test_web_api.py:209` has it, where RFC 7233 has a
server ignore the header; it says nothing of malformed headers, which
`SentIsSelected` leaves to the run `range_malformed`.
`ZipArchive` describes records by their lengths: the announced size
(`CalculateArchiveSize`) is a sum over the files, the writer's closing records
depend on what was written. The three ZIP64 thresholds are the constants `Max32`
and `Max16`, scaled down so that archives on both sides of each are reached. A name is
a sequence of pieces before its last dot, and an extension; that every file has
such a name (`IsName`) is part of the assumption on the constants, since the code
makes a name up for media that have none.

`DirectDownload` is one browser: it pages through the chat (`ScanPage`) while
messages are posted and deleted, then opens one file with a Range header
(`OpenFile`, `Chunk`) or prepares an archive and redeems its ticket (`Prepare`,
`Redeem`, then `BeginEntry`, `Payload`, `EndEntry`, `CloseArchive`). `OtherTicket`
and `Tick` are the other visitors and the clock that push its ticket out or let
it expire. `offset` and `entries` are the writer's variables; `sent`, `true_at`
and `short` are histories: the bytes that went out, where each entry and then the
directory began among them, and whether anything was left out. `DirectoryTrue`
compares the two: the size the directory names, cut to 32 bits as the code does
(`NamedSize`), is the distance the histories give. An entry is skipped when its
message is gone and cut when its media fails halfway.

### RateLimit

The trackers share nothing, so a behaviour follows one of them. Times are kept as
ages up to the window's length. What a request does between two awaits is one
action: check and record are not separated by a suspension in the middleware nor
in the sign-in routes. `record_failure` at the table's limit prunes, then evicts
the entry with the oldest failure, which may be that of the address that fails
now. `rejected`, `granted` and `admitted` (the sign-ins of all addresses) are
histories, kept apart from the code's tables: they lose an event when the clock
takes it out of the window, the tables when somebody looks.

## What the runs show

| Run | Question | States, time |
|---|---|---|
| `downloader` | Is what is recorded intact, is everything below the checkpoint recorded, and does every run end, whatever happens to runs of five kinds? Does the downloader implement `ChatMirror`? | 673,000, 75 s |
| `catch_up` | Do repeated sync runs end up with every media message? | 116,000, 30 s |
| `sync_starves` (violated) | The same when the chat begins with as many text messages as the limit | |
| `newest_first` (violated) | Is everything below the checkpoint recorded when a sync run goes newest first? | |
| `jobs` | One job, cancels that hit it, no leak, an answer for every request that waits, and a page that learns how the job ended, with three overlapping requests | 370,000, 40 s |
| `jobs_wedge` (violated) | Does a cancelled job always clear the manager? | |
| `lock` | One holder, of the file at the path, with its own PID in it, for three processes? Does the lockfile implement `SessionLock`? | 779,000, 50 s |
| `pool` | The pool's limit, a running job's client and directory, no client nobody will disconnect, no tenant without its file, and service for whoever waits | 215,000, 60 s |
| `pool_shared` (violated) | Do all jobs write to their visitor's directory? | |
| `direct` | Complete scans, tickets that go no earlier than they may, places and sizes in the central directory that are those of what was sent, announced lengths, unique names, and exactly the bytes asked for | 4,434,000, 60 s |
| `range_malformed` (violated) | Are malformed Range headers refused? | |
| `limits` | Both quotas, the table's limit, no limit without cause, and its end for a client that keeps trying | 26,000, 5 s |

The five violated runs are disagreements between the code and what its
documents, comments or tests say; `PROJECT.json` quotes each:

1. *Newest-first sync.* The checkpoint is the highest identifier a run reached.
   With `reverse` off that is the first one it reaches, and a stop after it
   leaves everything older behind for good.
2. *Starving sync.* `limit` counts every message looked at, `mx` only those
   recorded. A row of text messages as long as the limit (500 by default) right
   above the checkpoint is looked at again by every later run.
3. *Wedged manager.* `cancel_job_async` on a task that has not begun leaves
   `_is_running` set and the connection open.
4. *Shared directory.* `start_download` looks its directory up in the pool at the
   end of its awaits. A tenant gone by then gets the directory all share.
5. *Malformed Range headers.* The parser answers `None` both to no header and to
   one it cannot read, and the routes send the whole file, where `CHANGELOG.md:12`
   names malformed headers among those refused with 416.

Smaller disagreements read off while modelling, for which there is no run:

- the name given to a renamed duplicate is not looked up among the names of the
  other entries (`src/web/zip_stream.py:214`): `a_1.jpg`, `a.jpg`, `a.jpg` with the
  last message numbered 1 gives `a_1.jpg` twice, where line 199 says "Ensure all
  archive entries possess unique filenames". `NamesUnique` leaves such collections
  out;
- a process that cannot take the lock in time, or cannot write its PID, gets an
  exception that both callers swallow (`src/cli.py:132`, `src/web/__main__.py:48`),
  and works on the session beside the holder, where `README.md:187` speaks of
  "preventing concurrent session conflicts". `InstanceLock` has this state
  (`unlocked`); its properties are about the processes that hold the lock;
- a download that yields no file is passed over, and the next success carries
  the checkpoint over it (`src/downloader.py:275`); with `--resume`, a part kept from
  an earlier run would be recorded in its place. Whether Telethon ever writes
  nothing for media it announced is not decided here, so the runs have no
  `Lapsing` messages, and the theorems say `NothingLapses`;
- a visitor's request during a logout makes a tenant whose session file is then
  unlinked (`src/web/session_manager.py:123`). No document denies it: `NoGhost`
  excepts these tenants (`revived`) and says that there are no others;
- a run killed between the manifest row and the journal line never writes that
  line, since the next run skips the message (`src/downloader.py:305`);
- a start beside a running job cancels that job, where `docs/USAGE.md:206`
  speaks of a 409; the 409 remains for requests that overlap;
- an archive from which a message was skipped or cut is shorter than the exact
  length announced (`README.md:43`); `LengthAnnounced` excludes that case and
  `DirectoryTrue` holds in it;
- the page keeps showing a cancelled job as it was before the event
  (`src/web/static/app.js:321`);
- `suppress(Exception)` does not catch the sweeper's `CancelledError`
  (`src/web/app.py:84`), so the shutdown goes no further.

### Bounds

- `downloader`: four messages: two with the same media, one text, one more with
  media of its own, so that there is something below, at and above the checkpoint
  in every combination. They are posted in the order of their identifiers.
  `catch_up` takes them two at a time, so that runs end at their limit; the
  violated runs need only two messages. `MaxAttempts` is the code's 3. Nothing
  else needs a bound: journal lines are at most one per message, which
  `JournalFollowsManifest` says.
- `jobs`: three requests: one whose job runs, one that waits for it, and one that
  comes between. One page, whose queue holds two events instead of 200, so that
  it overflows.
- `lock`: three processes and four inodes: a holder, two that wait with different
  files open, and the file the path names.
- `pool`: a pool of one client (`MaxClients`), so that any second visitor evicts;
  two visitors, of which one may have two tenant objects at a time; one handler
  each for what a visitor does in one window and in another, and one running job
  (`MaxJobs`).
- `direct`: four messages in pages of two; tickets live one tick, two of them at a
  time, three are made; `Max32` is 100 and `Max16` 3, chunks have up to two bytes.
  The Range headers have every form with positions in, at and past the ends.
- `limits`: three addresses where the table holds two; the window has four ticks,
  and ages stop there, since an expired time is dropped whatever its age.

### Fairness

- `downloader`: weak fairness of the run's own steps. Nothing in a run
  waits for another actor, and sleeps end. Telegram may answer every attempt
  with a FloodWait; the attempt counter is what ends the run then.
- `catch_up`, `sync_starves`: also strong fairness of starting sync runs (a cron
  job, a user who comes back), and that from some point on every step is one of
  `Calm`: no more stops, kills, floods or unread checkpoints. Without the last a
  run could be killed before its checkpoint for ever. In `catch_up` the limit is
  larger than the longest row of text messages; in `sync_starves` it is not.
- `jobs`, `jobs_wedge`: weak fairness of each handler's and each task's steps: the
  loop runs what is ready, timers fire, and a download ends by itself. Pages are
  under no fairness: `EndIsShown` is an invariant.
- `pool`: weak fairness of each handler's steps, of disconnects and of the end of
  jobs; strong fairness of what a handler does with the pool's lock, because
  `asyncio.Lock` wakes its waiters in their order. Streams may last for ever.
- `limits`: time passes. A client may send any requests at any time.

## What is proved

For every value of the constants allowed by the modules' assumptions:

- `DownloaderProofs`. `TypeCorrect`, `JournalFollows`, `CheckpointOnlyAdvances`
  and `DryRunsTakeNothing` hold under any options. `DownloadsIntact` needs
  `NothingLapses`: a download that silently leaves nothing, met with a kept
  `.part` of an earlier attempt, would have that part recorded.
  `NothingLeftBehind` and `MirrorsTheChat` also need `OldestFirst`: sync runs
  start from the first message, look at all, oldest first. The run
  `newest_first` shows that the order cannot be dropped.

  The invariants are not inductive by themselves. `RecordedIntact` needs that
  what is hashed is whole, so `PartsInv` says what is on disk when the attempts
  are over and no stop was seen, and `PlaceInv` that the path to be recorded
  exists by then. `CheckpointCovers` needs `CoverInv`: in a sync run everything
  at or below the cursor is recorded or has no media, and `mx` is never above
  the cursor. The step at the iterator is the heart of it: the next message is
  the least one above the cursor, so nothing lies between.
- `JobManagerProofs`. `JobInv`: a request has no job before it is answered, a
  live job is the active one with its connection open, and the event is set
  beside a running job only if that job was asked to cancel. From it
  `AtMostOneJob`, `CancelsHitTheirJob`, `BusyExplained`, `LeftoversExplained`,
  `TypeCorrect`.
- `InstanceLockProofs`. A process past the inode check has the flock of its
  file, its file is the one the path names, and only it unlinks that file. From
  it `MutualExclusion`, `NoPhantomLock`, `NamesTheHolder` and `Refinement` to
  `SessionLock`.
- `SessionPoolProofs`. Four invariants, each on top of the ones before.
  `PoolInv`: while a request holds the lock across its suspension there is room
  for one tenant and none of its visitor's in the pool, so filling the room after
  the suspension keeps the limit (`LimitKept`). `KeptInv`: what a request knows of
  its manager and its tenant is still so unless they were `cut`; with it a job
  starts on the tenant it belongs to (`JobsStayAtHome`). The step that matters is
  the same for all actions and stated once, as `Frame`: a tenant in use leaves
  the pool only marked, the mark stays, and no step disconnects a client of the
  pool. `Watches` is its counterpart for clients (`NoneForgotten`), and `Remade`
  for session files (`FilesStay`).
- `TelemetryProofs`. `Composition`: the manager among its subscribers takes the
  steps of `JobManager` only, so that everything proved of the manager alone is
  true of it there, and `JobInv` may be used. `EndReachesPages`, for any number of
  pages and queues of any size: `EndIsShown` speaks of pages that have nothing
  left to be sent, so `PageInv` says what is on its way to the others. Once the
  job has ended, either the last event in the queue that changes the page tells
  the end (`EndIsQueued`), or no event will change it, and the page tells the end
  already or its greeting will (`EndIsKnown`).
- `OperatorProofs`. What the operators on sequences compute, for sequences of any
  length. `RangeAnswersHeader`: the parser's answer to a header that is not malformed
  stands for exactly the bytes within the bounds it writes. `AnnouncedIsWritten`: the announced size is the length
  of what the writer sends for the same files, since both pass from a record's
  local to its ZIP64 form at the same entry. The lemmas under it say what
  filtering keeps (`PickProperties`), sorting orders (`DescendingProperties`), and
  renaming leaves different (`DeduplicateProperties`).

  A filtered sequence is defined by the rank of a position among those kept
  (`Subsequences`), and a fold is the function its definition chooses, so that
  neither needs an induction rule with an operator for a parameter. Where an
  induction is needed, the proof takes the set of the numbers for which the claim
  holds, and the least number outside it (`LeastExists`, `AllNumbers`).
- `DirectDownloadProofs`. `TicketsLast`, by `TableInv`: tickets are numbered as
  they are made and the table holds at most `MaxTickets`; the least ticket is
  pushed out only from a full table, and that many different numbers from its own
  on leave the new ticket at least `MaxTickets` above it.
  `StreamIsSelection`, by `StreamInv`: what is planned is what `ParseRange`
  answered (`RangeAnswersHeader` says that this is what the header selects), and
  until all that was announced is sent, the media has been read exactly from
  the start of the selection to as many bytes as were sent.

  `ScanListsAll`, by `ScanInv`: between two pages everything listed is at or above
  the cursor, and everything wanted that is still there at or above the cursor is
  listed. New messages do not disturb it, because they are not in `there`. A page
  that is not full is all that was left (`PageProperties`); one of text messages
  only still moves the cursor. `NamesDiffer`, by `TicketInv`: every ticket's
  files are `Deduplicate` of items with numbers of their own, which `ScanInv`
  provides.

  `DirectoryIsTrue` and `LengthIsAnnounced`, by `Archived`, which holds of the
  response at every step of the writer: `offset` is what was sent (`Written`);
  each entry begins where its header went out and right where the one before it
  ends by its name and size, and so does the directory after the last (`Ordered`),
  whatever was skipped or cut between; and as long as nothing was left out, the
  entries are those of the files so far (`Full`). `Ordered` makes the size of an
  entry the distance to what follows; it is what the directory names unless 32 bits
  cannot hold it (`FitsItsField`). At the end `Ordered` and `Full` are the
  hypothesis of `AnnouncedIsWritten`. `DirectTypes` combines all of them.
- `RateLimitProofs`. `TableKeepsItsLimit`: `record_failure` makes room before it
  adds a client, whatever the clients and the window. The others come from
  `RateInv`: the tables are sorted, oldest first, and what is still fresh in them
  is the history. Sortedness is what makes it inductive: `_prune` judges a
  list by its newest time and eviction a client by its oldest, and only in a sorted
  list do these decide whether anything fresh is lost. From it `RateTypes`,
  `FailuresAreBounded`, `NoAlarmIsFalse` and `QuotasAreKept`.

The assumptions are those on the constants, stated in the modules and evaluated
in every run: bounds are natural numbers, limits are not zero, names are names.

With this every invariant and every action property that a passing run checks
is stated by a theorem, `CheckpointCovers`, `RecordedIntact` and `IsMirror` under
the hypotheses given above. What is only model-checked is liveness (`EveryRunEnds`,
`CatchesUp`, `AllAnswered`, `RequestsServed`, `LimitIsLifted`), which is outside the
prover's reach, as is ENABLED.

## Not modelled

- Details no property depends on: `ScanPage` is one action, though the iterator
  suspends between the messages of a page; the browser's selection is a set; one
  log event of a subscriber and some `OSError` paths of the lock, which end like the
  modelled ones, are left out.
- `close_all` and the rest of the shutdown: the code stops before it
  (`src/web/app.py:84`), and nothing runs beside it.
- Two runs at once in one process or on one output directory: they share the
  global `_stop` and may write one `.part` file together, whose content is then
  up to the file system. `Downloader` has one run at a time.
- Power loss: whether data reaches the disk before the rename that names it is a
  property of the file system.
- Fractions of a second in `Retry-After`: ages in `RateLimit` are whole ticks.
- The sign-in steps themselves (`phone_hash`, QR polling, two factors): Telegram
  decides their outcome, and what they change in the server is the tenant's
  `is_authorized` and the limiters, both of which are modelled.
- The command line, the configuration, the resolver, the dialogs, cookies and
  origin checks, the gallery and storage routes: parsing, formatting or reading,
  with no state of their own.
- Column migration, pragmas, message metadata, name sanitising, the takeout
  session, progress figures, the interface's rendering, deployment files, and
  what Telethon, asyncio and SQLite do inside.

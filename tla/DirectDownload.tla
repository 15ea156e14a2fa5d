---------------------------- MODULE DirectDownload ----------------------------
(***************************************************************************)
(* One browser that downloads from Telegram through the server, which      *)
(* keeps nothing on its disk (routes_direct.py, zip_stream.py): it scans a *)
(* chat page by page, then streams one file, or prepares an archive of     *)
(* some and streams that with the ticket it was given.  Meanwhile messages *)
(* are posted and deleted, other browsers take tickets and time passes.    *)
(***************************************************************************)
EXTENDS ByteRange, ZipArchive, Subsequences

CONSTANTS
    MaxId,      \* bound: the last message number
    Media,      \* the messages with media the scan's filter wants
    Name,       \* the file name of each, and
    Size,       \* its length in bytes
    EffLimit,   \* messages per page of the scan
    Ttl,        \* ZipTicketManager._ttl
    MaxTickets, \* ZipTicketManager._max
    MaxMade,    \* bound: tickets made
    Asks,       \* bound: the Range headers browsers send
    MaxChunk    \* bytes per chunk of iter_download

ASSUME DirectAssumption ==
    /\ MaxId \in Nat /\ Media \subseteq 1..MaxId /\ Size \in [Media -> Nat]
    /\ EffLimit \in Nat \ {0} /\ MaxTickets \in Nat \ {0} /\ Ttl \in Nat
    /\ Asks \subseteq Headers(Nat)
    /\ \A m \in Media : IsName(Name[m])

VARIABLES
    chat,       \* the messages of the chat
    top,        \* the newest number given out
    there,      \* history: messages there since the scan began
    phase,      \* what the browser is about
    cursor,     \* offset_id of the next page
    listed,     \* the items of the pages so far
    tickets,    \* ZipTicketManager._tickets: the files of each, by number
    age,        \* time since each ticket was made
    mine,       \* the browser's ticket
    download    \* the response that is being streamed

scan == <<chat, top, there, cursor, listed>>
table == <<tickets, age, mine>>
vars == <<scan, phase, table, download>>

Messages == 1..MaxId
NoDownload == [kind |-> "none"]
MadeTickets == DOMAIN age

Init ==
    /\ top \in 0..MaxId /\ chat = 1..top /\ there = chat
    /\ phase = "scanning" /\ cursor = 0 /\ listed = <<>>
    /\ tickets = <<>> /\ age = <<>> /\ mine = 0
    /\ download = NoDownload

-----------------------------------------------------------------------------
(* The chat, until the browser is through with it.                         *)

Looking == phase \in {"scanning", "scanned", "prepared", "streaming"}

Post ==
    /\ Looking /\ top < MaxId /\ top' = top + 1 /\ chat' = chat \union {top + 1}
    /\ UNCHANGED <<there, cursor, listed, phase, table, download>>

Delete(m) ==
    /\ Looking /\ m \in chat /\ chat' = chat \ {m}
    /\ there' = there \ {m}
    /\ UNCHANGED <<top, cursor, listed, phase, table, download>>

-----------------------------------------------------------------------------
(* scan_chat_media: a page of the newest messages before the cursor.       *)

Reached == {m \in chat : cursor = 0 \/ m < cursor}
Page == {m \in Reached : Cardinality({n \in Reached : n >= m}) <= EffLimit}

NextOffset == CHOOSE m \in Page : \A n \in Page : m <= n

HasMore_Beyond == Cardinality(Page) > EffLimit
HasMore == Cardinality(Page) >= EffLimit

ScanPage ==
    /\ phase = "scanning"
    /\ listed' = listed \o Descending(Page \intersect Media)
    /\ IF HasMore THEN cursor' = NextOffset /\ phase' = phase
                  ELSE cursor' = cursor /\ phase' = "scanned"
    /\ UNCHANGED <<chat, top, there, table, download>>

\* Telegram's answer to get_messages for the items the browser chose.
Item(m) == [id |-> m, name |-> Name[m], size |-> Size[m]]
Items(found) == [i \in DOMAIN found |-> Item(found[i])]
Fetched(sel) ==
    Items(Pick(listed, {i \in DOMAIN listed : listed[i] \in sel \intersect chat}))

-----------------------------------------------------------------------------
(* ZipTicketManager.                                                       *)

Expired(n) == age[n] > Ttl
Pruned == {n \in DOMAIN tickets : ~Expired(n)}

\* At the limit, the oldest goes.
Kept_Full == Pruned
Kept ==
    IF Cardinality(Pruned) >= MaxTickets
      THEN Pruned \ {CHOOSE n \in Pruned : \A k \in Pruned : n <= k} ELSE Pruned

CreateTicket(files) ==
    LET n == Len(age) + 1
    IN /\ tickets' = [k \in Kept \union {n} |-> IF k = n THEN files ELSE tickets[k]]
       /\ age' = Append(age, 0)

OtherTicket ==
    /\ Len(age) < MaxMade
    /\ CreateTicket(<<>>)
    /\ UNCHANGED <<scan, phase, mine, download>>

Tick ==
    /\ \E n \in MadeTickets : age[n] <= Ttl
    /\ age' = [n \in MadeTickets |-> Smaller(age[n] + 1, Ttl + 1)]
    /\ UNCHANGED <<scan, phase, tickets, mine, download>>

\* prepare_zip_download for a selection, as long as any of it is there.
Prepare(sel) ==
    /\ phase \in {"scanning", "scanned"} /\ Len(age) < MaxMade
    /\ Fetched(sel) # <<>>
    /\ CreateTicket(Deduplicate(Fetched(sel)))
    /\ mine' = Len(age) + 1 /\ phase' = "prepared"
    /\ UNCHANGED <<scan, download>>

\* stream_zip_download: 404, or the stream begins with the announced length.
TicketGone ==
    /\ phase = "prepared" /\ mine \notin Pruned
    /\ tickets' = [k \in Pruned |-> tickets[k]]
    /\ phase' = "refused"
    /\ UNCHANGED <<scan, age, mine, download>>

Redeem ==
    /\ phase = "prepared" /\ mine \in Pruned
    /\ tickets' = [k \in Pruned |-> tickets[k]]
    /\ phase' = "streaming"
    /\ download' = [kind |-> "zip", files |-> tickets[mine], next |-> 1, step |-> "fetch",
                    announced |-> CalculateArchiveSize(tickets[mine]),
                    sent |-> 0, offset |-> 0, size |-> 0, at |-> 0,
                    entries |-> <<>>, true_at |-> <<>>, short |-> FALSE]
    /\ UNCHANGED <<scan, age, mine>>

-----------------------------------------------------------------------------
(* StreamingZipBuilder.stream_archive.  offset and entries are the code's; *)
(* sent, true_at and short are histories: the bytes that went out, where   *)
(* each entry and then the directory began among them, and whether         *)
(* anything was left out.                                                  *)

File == download.files[download.next]
Zipping(step) == phase = "streaming" /\ download.kind = "zip" /\ download.step = step
Left == download.next <= Len(download.files)

\* The message is gone, or cannot be fetched.
SkipEntry ==
    /\ Zipping("fetch") /\ Left
    /\ download' = [download EXCEPT !.next = @ + 1, !.short = TRUE]
    /\ UNCHANGED <<scan, phase, table>>

BeginEntry ==
    /\ Zipping("fetch") /\ Left /\ File.id \in chat
    /\ download' = [download EXCEPT !.step = "payload", !.size = 0, !.at = download.offset,
                                    !.sent = @ + LocalHeader(File.name),
                                    !.offset = @ + LocalHeader(File.name),
                                    !.true_at = Append(@, download.sent)]
    /\ UNCHANGED <<scan, phase, table>>

Payload_LastChunk(k) ==
    /\ Zipping("payload") /\ download.size + k <= File.size
    /\ download' = [download EXCEPT !.sent = @ + k, !.offset = @ + k, !.size = k]
    /\ UNCHANGED <<scan, phase, table>>
Payload(k) ==
    /\ Zipping("payload") /\ download.size + k <= File.size
    /\ download' = [download EXCEPT !.sent = @ + k, !.offset = @ + k, !.size = @ + k]
    /\ UNCHANGED <<scan, phase, table>>

\* All of it, or as much as came before an error: the descriptor and the
\* entry tell what was sent.
EndEntry ==
    /\ Zipping("payload")
    /\ download' = [download EXCEPT !.step = "fetch", !.next = @ + 1,
                        !.sent = @ + DataDescriptor, !.offset = @ + DataDescriptor,
                        !.short = @ \/ download.size < File.size,
                        !.entries = Append(@, [name |-> File.name, size |-> download.size,
                                               offset |-> download.at])]
    /\ UNCHANGED <<scan, phase, table>>

CloseArchive ==
    /\ Zipping("fetch") /\ ~Left
    /\ download' = [download EXCEPT !.step = "closed",
                        !.sent = @ + Closing(download.entries, download.offset),
                        !.true_at = Append(@, download.sent)]
    /\ phase' = "done"
    /\ UNCHANGED <<scan, table>>

-----------------------------------------------------------------------------
(* direct_stream_media: 404, 416, the whole file or a part of it.          *)

OpenFile(m, h) ==
    /\ phase \in {"scanning", "scanned"} /\ m \in ToSet(listed) \intersect chat
    /\ LET r == ParseRange(h, Size[m])
           first == IF r.answer = "part" THEN r.start ELSE 0
           n == IF r.answer = "part" THEN r.end - r.start + 1 ELSE Size[m]
       IN IF r = Unsatisfiable
            THEN phase' = "refused" /\ download' = [kind |-> "refused", file |-> m, ask |-> h]
            ELSE /\ phase' = "streaming"
                 /\ download' = [kind |-> "file", file |-> m, ask |-> h, part |-> r.answer = "part",
                                 announced |-> n, first |-> first, read |-> first,
                                 left |-> n, sent |-> 0]
    /\ UNCHANGED <<scan, table>>

FileGone(m) ==
    /\ phase \in {"scanning", "scanned"} /\ m \in ToSet(listed) \ chat
    /\ phase' = "refused"
    /\ UNCHANGED <<scan, table, download>>

Filing == phase = "streaming" /\ download.kind = "file"

\* A chunk arrives; of one that reaches past the range, the rest is dropped.
TakeChunk_All(k) ==
    download' = [download EXCEPT !.read = @ + k, !.sent = @ + k, !.left = @ - k]
TakeChunk(k) ==
    LET n == IF download.part THEN Smaller(k, download.left) ELSE k
    IN download' = [download EXCEPT !.read = @ + k, !.sent = @ + n, !.left = @ - n]
Chunk(k) ==
    /\ Filing /\ download.read + k <= Size[download.file]
    /\ download.part => download.left > 0
    /\ TakeChunk(k)
    /\ UNCHANGED <<scan, phase, table>>

FileSent ==
    /\ Filing
    /\ download.read = Size[download.file] \/ (download.part /\ download.left = 0)
    /\ phase' = "done"
    /\ UNCHANGED <<scan, table, download>>

\* The browser hangs up, or the stream of one file fails.
HangUp ==
    /\ phase = "streaming" /\ phase' = "gone"
    /\ UNCHANGED <<scan, table, download>>

-----------------------------------------------------------------------------
Next ==
    \/ Post \/ (\E m \in Messages : Delete(m)) \/ ScanPage
    \/ OtherTicket \/ Tick \/ TicketGone \/ Redeem
    \/ \E sel \in SUBSET Media : Prepare(sel)
    \/ SkipEntry \/ BeginEntry \/ EndEntry \/ CloseArchive
    \/ \E k \in 1..MaxChunk : Payload(k) \/ Chunk(k)
    \/ \E m \in Media : FileGone(m) \/ \E h \in Asks : OpenFile(m, h)
    \/ FileSent \/ HangUp

Spec == Init /\ [][Next]_vars

-----------------------------------------------------------------------------
TypeOK ==
    /\ chat \subseteq Messages /\ top \in 0..MaxId /\ there \subseteq chat
    /\ phase \in {"scanning", "scanned", "prepared", "refused", "streaming", "done", "gone"}
    /\ cursor \in 0..MaxId /\ listed \in Seq(Media)
    /\ age \in Seq(0..(Ttl + 1)) /\ mine \in 0..Len(age)
    /\ DOMAIN tickets \subseteq MadeTickets
    /\ download.kind \in {"none", "zip", "file", "refused"}
    /\ download.kind \in {"zip", "file"} => download.announced \in Nat /\ download.sent \in Nat
    /\ download.kind = "file" => download.first \in Nat

\* Whatever is posted and deleted between the pages, no message is listed
\* twice, and a scan that came to its end lists every wanted message that was
\* there all the time.
ScanComplete ==
    /\ IsInjective(listed)
    /\ phase = "scanned" => there \intersect Media \subseteq ToSet(listed)

\* The table stays within its limit, and a ticket that was not used for too
\* long is the only one missing, or one that as many newer ones pushed out as
\* the table holds.
TicketsKept ==
    /\ Cardinality(DOMAIN tickets) <= MaxTickets
    /\ \A n \in MadeTickets \ DOMAIN tickets :
          age[n] > Ttl \/ Len(age) >= n + MaxTickets

\* The central directory says where each entry's header really began, names
\* as its size just the bytes that went out between its header and its
\* descriptor, if 32 bits can hold that number, and is itself where the end
\* records say, whatever was skipped or cut.
DirectoryTrue ==
    LET entries == download.entries
        true_at == download.true_at
        SentFor(i) ==
            true_at[i + 1] - true_at[i] - LocalHeader(entries[i].name) - DataDescriptor
    IN download.kind = "zip" =>
         /\ \A i \in DOMAIN entries :
               /\ entries[i].offset = true_at[i]
               /\ i + 1 \in DOMAIN true_at /\ SentFor(i) <= Max32 =>
                     NamedSize(entries[i].size) = SentFor(i)
         /\ download.step = "closed" => true_at[Len(entries) + 1] = download.offset

\* An archive from which nothing was left out is as long as was announced,
\* on either side of the ZIP64 thresholds.
LengthAnnounced ==
    phase = "done" /\ download.kind = "zip" /\ ~download.short =>
        download.sent = download.announced

\* Entries of one archive have names of their own, unless a file's own name
\* looks like a rename of another's.
NamesUnique ==
    \A n \in DOMAIN tickets :
        LET raw == [i \in DOMAIN tickets[n] |->
                      [tickets[n][i] EXCEPT !.name = Name[tickets[n][i].id]]]
        IN Lookalike(raw) \/ Unique(tickets[n])

\* A response is never longer than it announced; what a finished one sent are
\* the bytes a well-formed header selects, and when that header is refused it
\* selects none.
SentIsSelected ==
    LET sound == download.ask.form # "malformed"
        selected == Selected(download.ask, Size[download.file])
    IN /\ download.kind = "file" =>
             /\ download.sent <= download.announced
             /\ phase = "done" /\ sound =>
                   download.first..(download.first + download.sent - 1) = selected
       /\ download.kind = "refused" /\ sound => selected = {}

\* CHANGELOG.md:12: "Malformed and unsatisfiable ranges return `HTTP 416 Range
\* Not Satisfiable`": no file is streamed in answer to a malformed header.
MalformedRefused ==
    download.kind = "file" => download.ask.form # "malformed"
=============================================================================

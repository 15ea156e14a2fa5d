------------------------ MODULE DirectDownloadProofs ------------------------
(***************************************************************************)
(* Tickets and streams of single files, for any chat, files and headers.   *)
(***************************************************************************)
EXTENDS DirectDownload, OperatorProofs

-----------------------------------------------------------------------------
(* The table of tickets.                                                   *)

\* Tickets are numbered in the order in which they are made.
TableInv ==
    /\ age \in Seq(Nat) /\ DOMAIN tickets \subseteq 1..Len(age)
    /\ TicketsKept

LEMMA PrunedTickets ==
    ASSUME TableInv
    PROVE  /\ Pruned \subseteq DOMAIN tickets /\ IsFiniteSet(Pruned)
           /\ Cardinality(Pruned) \in Nat /\ Cardinality(Pruned) <= MaxTickets
<1>1. IsFiniteSet(1..Len(age))
  BY FS_Interval DEF TableInv
<1>2. IsFiniteSet(DOMAIN tickets) /\ Pruned \subseteq DOMAIN tickets
  BY <1>1, FS_Subset DEF TableInv, Pruned
<1>3. IsFiniteSet(Pruned) /\ Cardinality(Pruned) <= Cardinality(DOMAIN tickets)
  BY <1>2, FS_Subset
<1> QED
  BY <1>2, <1>3, FS_CardinalityType, DirectAssumption DEF TableInv, TicketsKept

\* What a new ticket pushes out is older than as many as the table holds.
LEMMA KeptTickets ==
    ASSUME TableInv
    PROVE  /\ Kept \subseteq Pruned /\ IsFiniteSet(Kept)
           /\ Cardinality(Kept) \in Nat /\ Cardinality(Kept) < MaxTickets
           /\ \A n \in Pruned \ Kept : Len(age) + 1 >= n + MaxTickets
<1> USE DirectAssumption
<1>1. CASE ~(Cardinality(Pruned) >= MaxTickets)
  BY <1>1, PrunedTickets DEF Kept
<1>2. CASE Cardinality(Pruned) >= MaxTickets
  <2>1. Pruned \subseteq Nat /\ Pruned \subseteq 1..Len(age)
    BY PrunedTickets DEF TableInv
  <2>2. Pruned # {}
    BY <1>2, FS_EmptySet
  <2>3. PICK n \in Pruned : n = CHOOSE m \in Pruned : \A k \in Pruned : m <= k
    BY <2>1, <2>2, LeastExists
  <2>4. \A k \in Pruned : n <= k
    BY <2>1, <2>2, <2>3, LeastExists
  <2>5. Kept = Pruned \ {n}
    BY <1>2, <2>3 DEF Kept
  <2>6. Cardinality(Kept) = Cardinality(Pruned) - 1 /\ IsFiniteSet(Kept)
    BY <2>5, PrunedTickets, FS_RemoveElement
  <2>7. Pruned \subseteq n..Len(age) /\ n \in Nat /\ n <= Len(age)
    BY <2>1, <2>4
  <2>8. IsFiniteSet(n..Len(age)) /\ Cardinality(n..Len(age)) = Len(age) - n + 1
    BY <2>7, FS_Interval DEF TableInv
  <2>9. Cardinality(Pruned) <= Len(age) - n + 1
    BY <2>7, <2>8, FS_Subset
  <2>10. Len(age) + 1 >= n + MaxTickets
    BY <1>2, <2>7, <2>9, PrunedTickets DEF TableInv
  <2>11. Cardinality(Kept) \in Nat /\ Cardinality(Kept) < MaxTickets
    BY <2>6, PrunedTickets, FS_CardinalityType
  <2>12. ASSUME NEW m \in Pruned \ Kept PROVE Len(age) + 1 >= m + MaxTickets
    <3>1. m = n
      BY <2>5
    <3> QED
      BY <2>10, <3>1
  <2> QED
    BY <2>5, <2>6, <2>11, <2>12
<1> QED
  BY <1>1, <1>2

LEMMA TableStep == ASSUME TableInv, Next PROVE TableInv'
<1> USE DirectAssumption
<1>1. ASSUME NEW files, CreateTicket(files) PROVE TableInv'
  <2> DEFINE n == Len(age) + 1
  <2>1. /\ DOMAIN tickets' = Kept \union {n} /\ age' = Append(age, 0)
    BY <1>1 DEF CreateTicket
  <2>2. /\ age' \in Seq(Nat) /\ Len(age') = n /\ DOMAIN age' = 1..n
        /\ \A m \in 1..Len(age) : age'[m] = age[m]
    BY <2>1 DEF TableInv
  <2>3. Kept \subseteq 1..Len(age)
    BY KeptTickets, PrunedTickets DEF TableInv
  <2>4. n \notin Kept /\ DOMAIN tickets' \subseteq 1..Len(age')
    <3>1. Len(age) \in Nat
      BY DEF TableInv
    <3>2. n \notin 1..Len(age) /\ n \in 1..n /\ 1..Len(age) \subseteq 1..n
      BY <3>1
    <3> HIDE DEF n
    <3> QED
      BY <2>1, <2>2, <2>3, <3>2
  <2>5. Cardinality(DOMAIN tickets') <= MaxTickets
    <3>1. Cardinality(Kept \union {n}) = Cardinality(Kept) + 1
      BY <2>4, KeptTickets, FS_AddElement
    <3> QED
      BY <2>1, <3>1, KeptTickets
  <2>6. ASSUME NEW m \in 1..n, m \notin DOMAIN tickets'
        PROVE  age'[m] > Ttl \/ Len(age') >= m + MaxTickets
    <3>1. m \in 1..Len(age) /\ m \notin Kept /\ age'[m] = age[m] /\ Len(age) \in Nat
      BY <2>1, <2>2, <2>6 DEF TableInv
    <3>2. CASE m \in Pruned
      BY <2>2, <3>1, <3>2, KeptTickets
    <3>3. CASE m \in DOMAIN tickets \ Pruned
      BY <3>1, <3>3 DEF Pruned, Expired
    <3>4. CASE m \notin DOMAIN tickets
      BY <2>2, <3>1, <3>4 DEF TableInv, TicketsKept, MadeTickets
    <3> QED
      BY <3>2, <3>3, <3>4
  <2> QED
    BY <2>2, <2>4, <2>5, <2>6 DEF TableInv, TicketsKept, MadeTickets
<1>2. CASE Tick
  <2>1. /\ age' \in Seq(Nat) /\ Len(age') = Len(age) /\ DOMAIN age' = DOMAIN age
        /\ \A m \in DOMAIN age : age[m] > Ttl => age'[m] > Ttl
    <3>1. age' = [m \in 1..Len(age) |-> Smaller(age[m] + 1, Ttl + 1)]
      BY <1>2 DEF Tick, TableInv, MadeTickets
    <3>2. ASSUME NEW m \in 1..Len(age)
          PROVE  age'[m] \in Nat /\ (age[m] > Ttl => age'[m] > Ttl)
      <4>1. age[m] \in Nat
        BY DEF TableInv
      <4> QED
        BY <3>1, <4>1 DEF Smaller
    <3>3. age' \in [1..Len(age) -> Nat] /\ Len(age) \in Nat /\ DOMAIN age = 1..Len(age)
      BY <3>1, <3>2 DEF TableInv
    <3>4. age' \in Seq(Nat) /\ Len(age') = Len(age)
      BY <3>3
    <3> QED
      BY <3>2, <3>3, <3>4
  <2> QED
    BY <1>2, <2>1 DEF Tick, TableInv, TicketsKept, MadeTickets
<1>3. ASSUME tickets' = [k \in Pruned |-> tickets[k]], age' = age PROVE TableInv'
  <2>1. DOMAIN tickets' = Pruned
    BY <1>3
  <2>2. ASSUME NEW m \in DOMAIN age, m \notin Pruned
        PROVE  age[m] > Ttl \/ Len(age) >= m + MaxTickets
    BY <2>2 DEF Pruned, Expired, TableInv, TicketsKept, MadeTickets
  <2> QED
    BY <1>3, <2>1, <2>2, PrunedTickets DEF TableInv, TicketsKept, MadeTickets
<1>4. ASSUME UNCHANGED <<tickets, age>> PROVE TableInv'
  BY <1>4 DEF TableInv, TicketsKept, MadeTickets
<1> QED
  BY <1>1, <1>2, <1>3, <1>4
     DEF Next, Post, Delete, ScanPage, OtherTicket, Prepare, TicketGone, Redeem, SkipEntry,
         BeginEntry, Payload, EndEntry, CloseArchive, OpenFile, FileGone, Chunk, FileSent,
         HangUp, table

\* The table keeps its limit, and a ticket is missing only if it expired or as
\* many newer ones were made as the table holds.
THEOREM TicketsLast == Spec => []TicketsKept
<1>1. Init => TableInv
  BY FS_EmptySet, DirectAssumption DEF Init, TableInv, TicketsKept, MadeTickets
<1>2. TableInv /\ UNCHANGED vars => TableInv'
  BY DEF TableInv, TicketsKept, MadeTickets, vars, table
<1>3. TableInv => TicketsKept
  BY DEF TableInv
<1> QED
  BY <1>1, <1>2, <1>3, TableStep, PTL DEF Spec

-----------------------------------------------------------------------------
(* The stream of one file.                                                 *)

\* What the handler has made of the header, and how far it has come: until it
\* has sent all it announced, it has sent what it read.
FileStreams ==
    [kind : {"file"}, file : Media, ask : Asks, part : BOOLEAN, announced : Nat,
     first : Nat, read : Nat, left : Int, sent : Nat]

Planned(d, r) ==
    /\ r # Unsatisfiable
    /\ d.part = (r.answer = "part")
    /\ d.part => d.first = r.start /\ d.announced = r.end - r.start + 1
    /\ ~d.part => d.first = 0 /\ d.announced = Size[d.file]

Progressed(d) ==
    /\ d.left = d.announced - d.sent /\ d.left >= 0
    /\ d.read <= Size[d.file] /\ d.read >= d.first + d.sent
    /\ d.left > 0 \/ ~d.part => d.read = d.first + d.sent

StreamInv ==
    /\ "kind" \in DOMAIN download
    /\ download.kind = "file" =>
          /\ download \in FileStreams
          /\ Planned(download, ParseRange(download.ask, Size[download.file]))
          /\ Progressed(download)
          /\ phase = "done" => download.read = Size[download.file]
                               \/ (download.part /\ download.left = 0)
    /\ download.kind = "refused" /\ download.ask.form # "malformed" =>
          Selected(download.ask, Size[download.file]) = {}

\* The answer to a header, as a plan for the stream.
LEMMA PlanMade ==
    ASSUME NEW m \in Media, NEW h \in Asks
    PROVE  LET r == ParseRange(h, Size[m])
               first == IF r.answer = "part" THEN r.start ELSE 0
               n == IF r.answer = "part" THEN r.end - r.start + 1 ELSE Size[m]
           IN /\ r = Unsatisfiable /\ h.form # "malformed" => Selected(h, Size[m]) = {}
              /\ r # Unsatisfiable => first \in Nat /\ n \in Nat /\ first <= Size[m]
<1> DEFINE r == ParseRange(h, Size[m])
<1>1. Size[m] \in Nat /\ h \in Headers(Nat)
  BY DirectAssumption
<1>2. /\ h.form # "malformed" => Bytes(r, Size[m]) = Selected(h, Size[m])
      /\ r.answer = "part" => r.start \in 0..r.end /\ r.end \in r.start..(Size[m] - 1)
  BY <1>1, RangeAnswersHeader
<1> HIDE DEF r
<1>3. r = Unsatisfiable => Bytes(r, Size[m]) = {}
  BY DEF Bytes, Unsatisfiable, Whole
<1> QED
  BY <1>1, <1>2, <1>3 DEF r

LEMMA StreamStep == ASSUME StreamInv, Next PROVE StreamInv'
<1> USE DirectAssumption
<1>1. ASSUME download' = download, phase' # "done" \/ phase' = phase PROVE StreamInv'
  BY <1>1 DEF StreamInv, Progressed
<1>2. ASSUME "kind" \in DOMAIN download', download'.kind \notin {"file", "refused"}
      PROVE  StreamInv'
  BY <1>2 DEF StreamInv
<1>3. ASSUME NEW m \in Media, NEW h \in Asks, OpenFile(m, h) PROVE StreamInv'
  <2> DEFINE r == ParseRange(h, Size[m])
             first == IF r.answer = "part" THEN r.start ELSE 0
             n == IF r.answer = "part" THEN r.end - r.start + 1 ELSE Size[m]
  <2>1. CASE r = Unsatisfiable
    <3>1. download' = [kind |-> "refused", file |-> m, ask |-> h]
      BY <1>3, <2>1 DEF OpenFile
    <3> QED
      BY <2>1, <3>1, PlanMade DEF StreamInv
  <2>2. CASE r # Unsatisfiable
    <3>1. /\ download' = [kind |-> "file", file |-> m, ask |-> h, part |-> r.answer = "part",
                          announced |-> n, first |-> first, read |-> first,
                          left |-> n, sent |-> 0]
          /\ phase' = "streaming"
      BY <1>3, <2>2 DEF OpenFile
    <3>2. first \in Nat /\ n \in Nat /\ first <= Size[m] /\ Size[m] \in Nat
      BY <2>2, PlanMade
    <3>3. (r.answer = "part") \in BOOLEAN
      OBVIOUS
    <3>4. download' \in FileStreams /\ "kind" \in DOMAIN download' /\ download'.kind = "file"
      BY <3>1, <3>2, <3>3 DEF FileStreams
    <3>5. Progressed(download')
      BY <3>1, <3>2 DEF Progressed
    <3>6. Planned(download', r)
      BY <2>2, <3>1 DEF Planned
    <3>7. r = ParseRange(download'.ask, Size[download'.file])
      BY <3>1
    <3> HIDE DEF r
    <3> QED
      BY <3>1, <3>4, <3>5, <3>6, <3>7 DEF StreamInv
  <2> QED
    BY <2>1, <2>2
<1>4. ASSUME NEW k \in 1..MaxChunk, Chunk(k) PROVE StreamInv'
  <2> DEFINE n == IF download.part THEN Smaller(k, download.left) ELSE k
  <2>1. /\ download \in FileStreams /\ Progressed(download)
        /\ Planned(download, ParseRange(download.ask, Size[download.file]))
        /\ phase' = "streaming" /\ k \in Nat /\ k > 0
        /\ download.read + k <= Size[download.file]
        /\ download.part => download.left > 0
    BY <1>4 DEF Chunk, Filing, StreamInv
  <2>2. download' = [download EXCEPT !.read = @ + k, !.sent = @ + n, !.left = @ - n]
    BY <1>4 DEF Chunk, TakeChunk
  <2>3. n \in Nat /\ n <= k /\ (~download.part => n = k)
        /\ (download.part => n <= download.left /\ (n = k \/ n = download.left))
    BY <2>1 DEF FileStreams, Smaller
  <2>4. /\ download'.kind = "file" /\ "kind" \in DOMAIN download'
        /\ download'.file = download.file
        /\ download'.ask = download.ask /\ download'.part = download.part
        /\ download'.announced = download.announced /\ download'.first = download.first
        /\ download'.read = download.read + k /\ download'.sent = download.sent + n
        /\ download'.left = download.left - n
    BY <2>1, <2>2 DEF FileStreams
  <2> HIDE DEF n
  <2>5. download' \in FileStreams
    <3>1. /\ download.read + k \in Nat /\ download.sent + n \in Nat
          /\ download.left - n \in Int
      BY <2>1, <2>3 DEF FileStreams
    <3> QED
      BY <2>1, <2>2, <3>1 DEF FileStreams
  <2>6. Planned(download', ParseRange(download'.ask, Size[download'.file]))
    BY <2>1, <2>4 DEF Planned
  <2>7. Progressed(download')
    <3>1. /\ download.left \in Int /\ download.announced \in Nat /\ download.sent \in Nat
          /\ download.read \in Nat /\ download.first \in Nat
          /\ Size[download.file] \in Nat
      BY <2>1 DEF FileStreams
    <3>2. download'.left = download'.announced - download'.sent
          /\ download'.read <= Size[download'.file]
          /\ download'.read >= download'.first + download'.sent
      BY <2>1, <2>3, <2>4, <3>1 DEF Progressed
    <3>3. CASE download.part
      BY <2>1, <2>3, <2>4, <3>1, <3>2, <3>3 DEF Progressed
    <3>4. CASE ~download.part
      <4>1. n = k /\ download.read = download.first + download.sent /\ download.first = 0
            /\ download.announced = Size[download.file]
        BY <2>1, <2>3, <3>4 DEF Progressed, Planned
      <4> QED
        BY <2>1, <2>4, <3>1, <3>2, <4>1 DEF Progressed
    <3> QED
      BY <3>3, <3>4
  <2> QED
    BY <2>1, <2>4, <2>5, <2>6, <2>7 DEF StreamInv
<1>5. CASE FileSent
  BY <1>5 DEF FileSent, Filing, StreamInv, Progressed
<1>6. CASE Redeem
  <2>1. "kind" \in DOMAIN download' /\ download'.kind = "zip"
    BY <1>6 DEF Redeem
  <2> QED
    BY <1>2, <2>1
<1>7. ASSUME SkipEntry \/ BeginEntry \/ (\E k \in 1..MaxChunk : Payload(k)) \/ EndEntry
             \/ CloseArchive
      PROVE  StreamInv'
  <2>1. download.kind = "zip" /\ "kind" \in DOMAIN download
    BY <1>7 DEF SkipEntry, BeginEntry, Payload, EndEntry, CloseArchive, Zipping, StreamInv
  <2>2. "kind" \in DOMAIN download' /\ download'.kind = "zip"
    BY <1>7, <2>1 DEF SkipEntry, BeginEntry, Payload, EndEntry, CloseArchive
  <2> QED
    BY <1>2, <2>2
<1>8. ASSUME Post \/ (\E m \in Messages : Delete(m)) \/ ScanPage \/ OtherTicket \/ Tick
             \/ TicketGone \/ (\E sel \in SUBSET Media : Prepare(sel))
             \/ (\E m \in Media : FileGone(m)) \/ HangUp
      PROVE  StreamInv'
  <2>1. download' = download
    BY <1>8 DEF Post, Delete, ScanPage, OtherTicket, Tick, TicketGone, Prepare, FileGone, HangUp
  <2>2. phase' # "done" \/ phase' = phase
    BY <1>8 DEF Post, Delete, ScanPage, OtherTicket, Tick, TicketGone, Prepare, FileGone, HangUp
  <2> QED
    BY <1>1, <2>1, <2>2
<1> QED
  BY <1>3, <1>4, <1>5, <1>6, <1>7, <1>8 DEF Next

LEMMA SentSelected == StreamInv => SentIsSelected
<1> SUFFICES ASSUME StreamInv PROVE SentIsSelected
  OBVIOUS
<1> DEFINE d == download
           r == ParseRange(d.ask, Size[d.file])
<1>1. ASSUME d.kind = "file"
      PROVE  /\ d.sent <= d.announced
             /\ phase = "done" /\ d.ask.form # "malformed" =>
                   d.first..(d.first + d.sent - 1) = Selected(d.ask, Size[d.file])
  <2>1. d \in FileStreams /\ Planned(d, r) /\ Progressed(d)
    BY <1>1 DEF StreamInv
  <2>2. /\ d.left \in Int /\ d.announced \in Nat /\ d.sent \in Nat /\ d.read \in Nat
        /\ d.first \in Nat /\ d.file \in Media /\ d.ask \in Headers(Nat)
        /\ Size[d.file] \in Nat
    BY <2>1, DirectAssumption DEF FileStreams
  <2>3. /\ d.ask.form # "malformed" => Bytes(r, Size[d.file]) = Selected(d.ask, Size[d.file])
        /\ r.answer = "part" => r.start \in 0..r.end /\ r.end \in r.start..(Size[d.file] - 1)
    BY <2>2, RangeAnswersHeader
  <2>4. r = Whole \/ r.answer = "part"
    BY <2>1, AnswerKinds DEF Planned
  <2>5. phase = "done" => d.read = Size[d.file] \/ (d.part /\ d.left = 0)
    BY <1>1 DEF StreamInv
  <2> HIDE DEF d, r
  <2>6. d.sent <= d.announced
    BY <2>1, <2>2 DEF Progressed
  <2>7. ASSUME phase = "done" PROVE d.first..(d.first + d.sent - 1) = Bytes(r, Size[d.file])
    <3>1. CASE d.part
      <4>1. r.answer = "part" /\ d.first = r.start /\ d.announced = r.end - r.start + 1
        BY <2>1, <3>1 DEF Planned
      <4>2. r.end \in Int /\ r.start \in Nat /\ r.end <= Size[d.file] - 1
        BY <2>2, <2>3, <4>1
      <4>3. d.left = 0
        BY <2>1, <2>2, <2>5, <2>7, <4>1, <4>2 DEF Progressed
      <4>4. d.first + d.sent - 1 = r.end
        BY <2>1, <2>2, <4>1, <4>2, <4>3 DEF Progressed
      <4>5. Bytes(r, Size[d.file]) = r.start..r.end
        BY <4>1 DEF Bytes, Whole, Unsatisfiable
      <4> QED
        BY <4>1, <4>4, <4>5
    <3>2. CASE ~d.part
      <4>1. r.answer # "part" /\ d.first = 0
        BY <2>1, <3>2 DEF Planned
      <4>2. Bytes(r, Size[d.file]) = 0..(Size[d.file] - 1)
        BY <2>4, <4>1 DEF Bytes, Whole
      <4>3. d.sent = Size[d.file]
        BY <2>1, <2>2, <2>5, <2>7, <3>2, <4>1 DEF Progressed
      <4> QED
        BY <4>1, <4>2, <4>3, <2>2
    <3> QED
      BY <3>1, <3>2
  <2> QED
    BY <2>3, <2>6, <2>7
<1>2. d.kind = "refused" /\ d.ask.form # "malformed" => Selected(d.ask, Size[d.file]) = {}
  BY DEF StreamInv
<1> QED
  BY <1>1, <1>2 DEF SentIsSelected

\* A response is never longer than announced, and a finished one sent exactly
\* the bytes its header selects, unless that is malformed, however the media
\* comes in chunks.
THEOREM StreamIsSelection == Spec => []SentIsSelected
<1>1. Init => StreamInv
  BY DEF Init, StreamInv, NoDownload
<1>2. StreamInv /\ UNCHANGED vars => StreamInv'
  BY DEF StreamInv, Progressed, vars
<1> QED
  BY <1>1, <1>2, StreamStep, SentSelected, PTL DEF Spec

-----------------------------------------------------------------------------
(* The scan.                                                               *)

Phases == {"scanning", "scanned", "prepared", "refused", "streaming", "done", "gone"}

\* While it goes on, what is listed reaches down to the cursor, and nothing
\* wanted above it is missing.
ScanInv ==
    /\ top \in 0..MaxId /\ chat \subseteq 1..top /\ there \subseteq chat
    /\ cursor \in 0..MaxId /\ phase \in Phases
    /\ listed \in Seq(Media) /\ IsInjective(listed)
    /\ phase = "scanning" /\ cursor = 0 => listed = <<>>
    /\ phase = "scanning" /\ cursor # 0 =>
          /\ \A i \in DOMAIN listed : cursor <= listed[i]
          /\ \A m \in there \intersect Media : cursor <= m => m \in ToSet(listed)
    /\ phase = "scanned" => there \intersect Media \subseteq ToSet(listed)

\* A page has every message that is left down to its last one, and all that is
\* left when it is not full.
LEMMA PageProperties ==
    ASSUME ScanInv
    PROVE  /\ Reached \subseteq 1..MaxId /\ Page \subseteq Reached /\ IsFiniteSet(Page)
           /\ \A m \in Page, n \in Reached : m <= n => n \in Page
           /\ HasMore => NextOffset \in Page /\ \A n \in Page : NextOffset <= n
           /\ ~HasMore => Page = Reached
<1> DEFINE Above(m) == {n \in Reached : n >= m}
<1>1. Reached \subseteq 1..MaxId /\ Reached \in SUBSET (0..MaxId) /\ IsFiniteSet(Reached)
  <2>1. \A m \in 1..top : m \in 1..MaxId /\ m \in 0..MaxId
    BY DirectAssumption DEF ScanInv
  <2>2. Reached \subseteq 1..MaxId /\ Reached \in SUBSET (0..MaxId)
    BY <2>1 DEF ScanInv, Reached
  <2>3. IsFiniteSet(1..MaxId)
    BY FS_Interval, DirectAssumption
  <2> QED
    BY <2>2, <2>3, FS_Subset
<1>2. Page \subseteq Reached /\ IsFiniteSet(Page) /\ Cardinality(Page) \in Nat
  BY <1>1, FS_Subset, FS_CardinalityType DEF Page
<1>3. ASSUME NEW m \in Reached
      PROVE  /\ IsFiniteSet(Above(m)) /\ Cardinality(Above(m)) \in Nat
             /\ m \in Page <=> Cardinality(Above(m)) <= EffLimit
  BY <1>1, FS_Subset, FS_CardinalityType DEF Page
<1>4. ASSUME NEW m \in Page, NEW n \in Reached, m <= n PROVE n \in Page
  <2>1. m \in Reached /\ m \in Nat /\ n \in Nat /\ Reached \subseteq Nat
    BY <1>1, <1>2
  <2>2. ASSUME NEW k \in Above(n) PROVE k \in Above(m)
    <3>1. k \in Reached /\ k \in Nat /\ k >= n
      BY <2>1
    <3> QED
      BY <1>4, <2>1, <3>1
  <2>3. Cardinality(Above(n)) <= Cardinality(Above(m))
    BY <1>3, <2>1, <2>2, FS_Subset
  <2>4. Cardinality(Above(m)) <= EffLimit
    BY <1>3, <2>1
  <2> HIDE DEF Above
  <2>5. Cardinality(Above(n)) \in Nat /\ Cardinality(Above(m)) \in Nat
    BY <1>3, <2>1
  <2>6. Cardinality(Above(n)) <= EffLimit
    BY <2>3, <2>4, <2>5, DirectAssumption
  <2> QED
    BY <1>3, <2>6
<1>5. ASSUME HasMore PROVE NextOffset \in Page /\ \A n \in Page : NextOffset <= n
  <2>1. Page # {}
    BY <1>5, FS_EmptySet, DirectAssumption DEF HasMore
  <2>2. \E m \in Page : \A n \in Page : m <= n
    BY <1>1, <1>2, <2>1, LeastExists
  <2> QED
    BY <2>2 DEF NextOffset
<1>6. ASSUME ~HasMore PROVE Page = Reached
  <2>1. SUFFICES ASSUME Reached \ Page # {} PROVE FALSE
    BY <1>2
  <2>2. Reached \ Page \in SUBSET (0..MaxId) /\ MaxId \in Nat
    BY <1>1, DirectAssumption
  <2>3. PICK g \in Reached \ Page : \A k \in Reached \ Page : k <= g
    BY <2>1, <2>2, GreatestExists
  <2>4. ASSUME NEW k \in Above(g) PROVE k \in Page \union {g}
    <3>1. k \in Reached /\ k >= g /\ k \in Nat /\ g \in Nat
      BY <1>1, <2>3
    <3>2. k \notin Page => k <= g
      BY <2>3, <3>1
    <3> QED
      BY <3>1, <3>2
  <2>5. IsFiniteSet(Page \union {g}) /\ Cardinality(Page \union {g}) = Cardinality(Page) + 1
    BY <1>2, <2>3, FS_AddElement
  <2>6. Cardinality(Above(g)) <= Cardinality(Page) + 1
    BY <2>4, <2>5, FS_Subset
  <2>7. Cardinality(Above(g)) \in Nat /\ Cardinality(Above(g)) > EffLimit
    BY <1>3, <2>3, DirectAssumption
  <2>8. Cardinality(Page) < EffLimit
    BY <1>2, <1>6, DirectAssumption DEF HasMore
  <2> QED
    BY <1>2, <2>6, <2>7, <2>8, DirectAssumption
<1> QED
  BY <1>1, <1>2, <1>4, <1>5, <1>6

LEMMA ScanPageStep == ASSUME ScanInv, ScanPage PROVE ScanInv'
<1> DEFINE P == Page \intersect Media
           new == Descending(P)
           n == Len(listed)
<1>1. listed' = listed \o new /\ phase = "scanning" /\ UNCHANGED <<chat, top, there>>
  BY DEF ScanPage
<1>2. P \subseteq Media /\ P \subseteq Page /\ P \subseteq Reached /\ P \in SUBSET Nat
      /\ IsFiniteSet(P) /\ Media \subseteq Nat
  BY PageProperties, FS_Subset, DirectAssumption
<1>3. /\ new \in Seq(P) /\ DOMAIN new = 1..Len(new) /\ IsInjective(new)
      /\ \A m \in P : \E k \in DOMAIN new : new[k] = m
  BY <1>2, DescendingProperties
<1> HIDE DEF P, new
<1>4. n \in Nat /\ Len(new) \in Nat /\ DOMAIN listed = 1..n
  BY <1>3 DEF ScanInv
<1>5. /\ listed' \in Seq(Media) /\ DOMAIN listed' = 1..(n + Len(new))
      /\ \A i \in 1..n : listed'[i] = listed[i]
      /\ \A k \in 1..Len(new) : listed'[n + k] = new[k]
  <2>1. listed \in Seq(Media) /\ new \in Seq(Media)
    <3>1. new \in [1..Len(new) -> P] /\ Len(new) \in Nat
      BY <1>3
    <3>2. new \in [1..Len(new) -> Media]
      BY <1>2, <3>1
    <3> QED
      BY <3>1, <3>2, MadeOfSequence DEF ScanInv
  <2>2. listed \o new \in Seq(Media) /\ Len(listed \o new) = n + Len(new)
    BY <2>1, ConcatProperties
  <2>3. DOMAIN listed' = 1..(n + Len(new))
    BY <1>1, <2>2
  <2>4. \A k \in 1..Len(new) : (listed \o new)[n + k] = new[k]
    <3>1. ASSUME NEW k \in 1..Len(new) PROVE (listed \o new)[n + k] = new[k]
      <4>1. n + k \in 1..(n + Len(new)) /\ ~(n + k <= n) /\ (n + k) - n = k
        BY <1>4
      <4> QED
        BY <2>1, <4>1, ConcatProperties
    <3> QED
      BY <3>1
  <2>5. \A i \in 1..n : (listed \o new)[i] = listed[i]
    BY <1>4, <2>1, ConcatProperties
  <2> QED
    BY <1>1, <2>2, <2>3, <2>4, <2>5
<1>6. \A i \in DOMAIN listed' :
         \/ i \in 1..n /\ listed'[i] = listed[i]
         \/ i - n \in 1..Len(new) /\ listed'[i] = new[i - n]
  <2>1. ASSUME NEW i \in DOMAIN listed', i \notin 1..n
        PROVE  i - n \in 1..Len(new) /\ n + (i - n) = i
    BY <1>4, <1>5, <2>1
  <2> QED
    BY <1>5, <2>1
<1>7. /\ \A i \in 1..n : cursor # 0 /\ cursor <= listed[i] /\ listed[i] \in Nat
      /\ \A k \in 1..Len(new) : new[k] \in P
      /\ \A m \in P : m \in Nat /\ (cursor # 0 => m < cursor)
  <2>1. ASSUME NEW i \in 1..n PROVE cursor # 0 /\ cursor <= listed[i] /\ listed[i] \in Nat
    <3>1. listed # <<>> /\ listed[i] \in Media
      BY <1>4 DEF ScanInv
    <3> QED
      BY <1>1, <1>2, <1>4, <3>1 DEF ScanInv
  <2>2. \A m \in P : m \in Nat /\ (cursor # 0 => m < cursor)
    BY <1>2 DEF Reached
  <2> QED
    BY <1>3, <2>1, <2>2
<1>8. IsInjective(listed')
  <2>1. ASSUME NEW i \in DOMAIN listed', NEW k \in DOMAIN listed', listed'[i] = listed'[k]
        PROVE  i = k
    <3>0. cursor \in Nat /\ i \in Nat /\ k \in Nat
      BY <1>4, <1>5 DEF ScanInv
    <3>1. CASE i \in 1..n /\ k \in 1..n
      BY <1>4, <1>5, <2>1, <3>1 DEF ScanInv, IsInjective
    <3>2. CASE i \notin 1..n /\ k \notin 1..n
      <4>1. new[i - n] = new[k - n] /\ i - n \in DOMAIN new /\ k - n \in DOMAIN new
        BY <1>3, <1>6, <2>1, <3>2
      <4>2. i - n = k - n
        BY <1>3, <4>1 DEF IsInjective
      <4> QED
        BY <1>4, <3>0, <4>2
    <3>3. ASSUME NEW a \in 1..n, NEW b \in 1..Len(new), listed[a] = new[b] PROVE FALSE
      BY <1>7, <3>0, <3>3
    <3> QED
      BY <1>6, <2>1, <3>1, <3>2, <3>3
  <2> QED
    BY <2>1 DEF IsInjective
<1>9. \A m \in P : m \in ToSet(listed')
  <2>1. ASSUME NEW m \in P PROVE m \in ToSet(listed')
    <3>1. PICK k \in 1..Len(new) : new[k] = m
      BY <1>3
    <3>2. n + k \in DOMAIN listed'
      BY <1>4, <1>5
    <3> QED
      BY <1>5, <3>1, <3>2 DEF ToSet
  <2> QED
    BY <2>1
<1>10. \A m \in ToSet(listed) : m \in ToSet(listed')
  <2>1. \A i \in 1..n : i \in DOMAIN listed'
    BY <1>4, <1>5
  <2> QED
    BY <1>4, <1>5, <2>1 DEF ToSet
\* What was there and is wanted is on this page, was listed, or is further down.
<1>11. ASSUME NEW m \in there \intersect Media
       PROVE  m \in ToSet(listed') \/ m \in Reached \ Page
  <2>1. m \in chat /\ m \in Nat
    BY <1>2 DEF ScanInv
  <2>2. CASE m \in Reached
    BY <1>9, <2>2 DEF P
  <2>3. CASE m \notin Reached
    <3>1. cursor # 0 /\ cursor <= m
      BY <2>1, <2>3 DEF Reached, ScanInv
    <3> QED
      BY <1>1, <1>10, <3>1 DEF ScanInv
  <2> QED
    BY <2>2, <2>3
<1>12. CASE HasMore
  <2>1. cursor' = NextOffset /\ phase' = "scanning"
    BY <1>1, <1>12 DEF ScanPage
  <2>2. NextOffset \in Page /\ (\A m \in Page : NextOffset <= m) /\ NextOffset \in Nat
        /\ NextOffset \in 1..MaxId
    BY <1>12, PageProperties
  <2>3. ASSUME NEW i \in DOMAIN listed' PROVE cursor' <= listed'[i]
    <3>1. CASE i \in 1..n /\ listed'[i] = listed[i]
      <4>1. cursor # 0 /\ cursor <= listed[i] /\ listed[i] \in Nat /\ cursor \in Nat
        BY <1>7, <3>1 DEF ScanInv
      <4>2. NextOffset < cursor
        BY <2>2, <4>1, PageProperties DEF Reached
      <4> QED
        BY <2>1, <2>2, <3>1, <4>1, <4>2
    <3>2. CASE i - n \in 1..Len(new) /\ listed'[i] = new[i - n]
      BY <1>2, <1>7, <2>1, <2>2, <3>2
    <3> QED
      BY <1>6, <3>1, <3>2
  <2>4. ASSUME NEW m \in there \intersect Media, cursor' <= m PROVE m \in ToSet(listed')
    <3>1. m \notin Reached \ Page
      BY <2>1, <2>2, <2>4, PageProperties
    <3> QED
      BY <1>11, <3>1
  <2>5. cursor' # 0 /\ cursor' \in 0..MaxId
    BY <2>1, <2>2
  <2> QED
    BY <1>1, <1>5, <1>8, <2>1, <2>3, <2>4, <2>5 DEF ScanInv
<1>13. CASE ~HasMore
  <2>1. cursor' = cursor /\ phase' = "scanned"
    BY <1>13 DEF ScanPage
  <2>2. there \intersect Media \subseteq ToSet(listed')
    BY <1>11, <1>13, PageProperties
  <2> QED
    BY <1>1, <1>5, <1>8, <2>1, <2>2 DEF ScanInv, Phases
<1> QED
  BY <1>12, <1>13

LEMMA ScanStep == ASSUME ScanInv, Next PROVE ScanInv'
<1>1. CASE Post
  <2>1. /\ top' = top + 1 /\ top < MaxId /\ chat' = chat \union {top + 1}
        /\ UNCHANGED <<there, cursor, listed, phase>>
    BY <1>1 DEF Post
  <2>2. top' \in 0..MaxId /\ chat' \subseteq 1..top'
    BY <2>1, DirectAssumption DEF ScanInv
  <2> QED
    BY <2>1, <2>2 DEF ScanInv
<1>2. ASSUME NEW m \in Messages, Delete(m) PROVE ScanInv'
  BY <1>2 DEF Delete, ScanInv
<1>3. ASSUME UNCHANGED scan, phase' \in Phases \ {"scanning", "scanned"} \/ phase' = phase
      PROVE  ScanInv'
  BY <1>3 DEF ScanInv, scan
<1>4. ASSUME OtherTicket \/ Tick \/ TicketGone \/ Redeem \/ SkipEntry \/ BeginEntry
             \/ EndEntry \/ CloseArchive \/ FileSent \/ HangUp
             \/ (\E sel \in SUBSET Media : Prepare(sel))
             \/ (\E k \in 1..MaxChunk : Payload(k) \/ Chunk(k))
             \/ (\E m \in Media : FileGone(m) \/ \E h \in Asks : OpenFile(m, h))
      PROVE  ScanInv'
  <2>1. UNCHANGED scan
    BY <1>4 DEF OtherTicket, Tick, TicketGone, Redeem, SkipEntry, BeginEntry, EndEntry,
                CloseArchive, FileSent, HangUp, Prepare, Payload, Chunk, FileGone, OpenFile
  <2>2. phase' \in Phases \ {"scanning", "scanned"} \/ phase' = phase
    BY <1>4 DEF OtherTicket, Tick, TicketGone, Redeem, SkipEntry, BeginEntry, EndEntry,
                CloseArchive, FileSent, HangUp, Prepare, Payload, Chunk, FileGone, OpenFile,
                Phases
  <2> QED
    BY <1>3, <2>1, <2>2
<1> QED
  BY <1>1, <1>2, <1>4, ScanPageStep DEF Next

LEMMA ScanInit == Init => ScanInv
<1> SUFFICES ASSUME Init PROVE ScanInv
  OBVIOUS
<1>1. listed = <<>> /\ IsInjective(listed) /\ listed \in Seq(Media)
  BY DEF Init, IsInjective
<1> QED
  BY <1>1, DirectAssumption DEF Init, ScanInv, Phases

\* Whatever comes and goes between the pages, no message is listed twice, and
\* the finished scan lists every wanted message that was there all the time.
THEOREM ScanListsAll == Spec => []ScanComplete
<1>1. ScanInv /\ UNCHANGED vars => ScanInv'
  BY DEF ScanInv, vars, scan
<1>2. ScanInv => ScanComplete
  BY DEF ScanInv, ScanComplete
<1> QED
  BY <1>1, <1>2, ScanInit, ScanStep, PTL DEF Spec

-----------------------------------------------------------------------------
(* The files of a ticket.                                                  *)

\* They are what deduplicate_filenames made of messages of their own.
IsDeduplicated(files) ==
    \E found \in Seq(Media) : IsInjective(found) /\ files = Deduplicate(Items(found))

TicketInv == ScanInv /\ \A n \in DOMAIN tickets : IsDeduplicated(tickets[n])

LEMMA ItemsProperties ==
    ASSUME NEW found \in Seq(Media)
    PROVE  LET n == Len(found)
               items == Items(found)
           IN /\ n \in Nat /\ DOMAIN items = 1..n
              /\ \A i \in 1..n : /\ items[i] = Item(found[i]) /\ IsItem(items[i])
                                 /\ items[i].id = found[i] /\ found[i] \in Media
<1>1. Len(found) \in Nat /\ DOMAIN found = 1..Len(found)
      /\ \A i \in 1..Len(found) : found[i] \in Media
  OBVIOUS
<1>2. ASSUME NEW m \in Media PROVE IsItem(Item(m)) /\ Item(m).id = m
  <2>1. IsName(Name[m]) /\ Size[m] \in Nat
    BY DirectAssumption
  <2> QED
    BY <2>1 DEF Item, IsItem
<1> QED
  BY <1>1, <1>2 DEF Items

LEMMA DeduplicatedFiles ==
    ASSUME NEW files, IsDeduplicated(files)
    PROVE  /\ IsFiles(files)
           /\ LET raw == [i \in DOMAIN files |->
                            [files[i] EXCEPT !.name = Name[files[i].id]]]
              IN Lookalike(raw) \/ Unique(files)
<1>1. PICK found \in Seq(Media) : IsInjective(found) /\ files = Deduplicate(Items(found))
  BY DEF IsDeduplicated
<1> DEFINE n == Len(found)
           items == Items(found)
           raw == [i \in DOMAIN files |-> [files[i] EXCEPT !.name = Name[files[i].id]]]
<1>2. /\ n \in Nat /\ DOMAIN items = 1..n
      /\ \A i \in 1..n : /\ items[i] = Item(found[i]) /\ IsItem(items[i])
                         /\ items[i].id = found[i] /\ found[i] \in Media
  BY ItemsProperties
<1> HIDE DEF n, items
<1>3. /\ IsSequence(files) /\ Len(files) = n /\ DOMAIN files = 1..n
      /\ \A i \in 1..n : /\ IsItem(files[i]) /\ files[i].id = items[i].id
                         /\ items[i] = [files[i] EXCEPT !.name = items[i].name]
      /\ (\A i, j \in 1..n : items[i].id = items[j].id => i = j) /\ ~Lookalike(items)
            => Unique(files)
  <2>1. n \in Nat /\ IsItemList(items, n)
    BY <1>2 DEF IsItemList
  <2>2. files = Deduplicate(items)
    BY <1>1 DEF items
  <2>3. ItemsRenamed(items, files, n)
    BY <2>1, <2>2, DeduplicateProperties
  <2> QED
    BY <2>3 DEF ItemsRenamed
<1>4. \A i, j \in 1..n : items[i].id = items[j].id => i = j
  <2>1. DOMAIN found = 1..n
    BY DEF n
  <2> QED
    BY <1>1, <1>2, <2>1 DEF IsInjective
<1>5. raw = items
  <2>1. ASSUME NEW i \in 1..n PROVE raw[i] = items[i]
    <3>1. items[i].name = Name[files[i].id]
      BY <1>2, <1>3 DEF Item
    <3> QED
      BY <1>3, <3>1
  <2>2. items = [i \in 1..n |-> items[i]]
    BY DEF items, Items, n
  <2> QED
    BY <1>3, <2>1, <2>2
<1> QED
  BY <1>3, <1>4, <1>5 DEF IsFiles

LEMMA TicketStep == ASSUME TicketInv, Next PROVE TicketInv'
<1>1. ScanInv'
  BY ScanStep DEF TicketInv
<1>2. IsDeduplicated(<<>>)
  <2>1. <<>> \in Seq(Media) /\ IsInjective(<<>>)
    BY DEF IsInjective
  <2>2. Deduplicate(Items(<<>>)) = <<>>
    BY DEF Deduplicate, Items
  <2> QED
    BY <2>1, <2>2 DEF IsDeduplicated
<1>3. ASSUME NEW files, CreateTicket(files), IsDeduplicated(files), Kept \subseteq DOMAIN tickets
      PROVE  \A n \in DOMAIN tickets' : IsDeduplicated(tickets'[n])
  <2> DEFINE m == Len(age) + 1
  <2>1. tickets' = [k \in Kept \union {m} |-> IF k = m THEN files ELSE tickets[k]]
    BY <1>3 DEF CreateTicket
  <2> HIDE DEF m
  <2> QED
    BY <1>3, <2>1 DEF TicketInv
<1>4. Pruned \subseteq DOMAIN tickets /\ Kept \subseteq DOMAIN tickets
  BY DEF Pruned, Kept
<1>5. CASE OtherTicket
  BY <1>1, <1>2, <1>3, <1>4, <1>5 DEF OtherTicket, TicketInv
<1>6. ASSUME NEW sel \in SUBSET Media, Prepare(sel) PROVE TicketInv'
  <2> DEFINE P == {i \in DOMAIN listed : listed[i] \in sel \intersect chat}
             found == Pick(listed, P)
  <2>1. found \in Seq(Media) /\ IsInjective(found)
    BY PickProperties DEF TicketInv, ScanInv
  <2>2. CreateTicket(Deduplicate(Items(found)))
    BY <1>6 DEF Prepare, Fetched
  <2> HIDE DEF found
  <2>3. IsDeduplicated(Deduplicate(Items(found)))
    BY <2>1 DEF IsDeduplicated
  <2> QED
    BY <1>1, <1>3, <1>4, <2>2, <2>3 DEF TicketInv
<1>7. CASE TicketGone \/ Redeem
  <2>1. tickets' = [k \in Pruned |-> tickets[k]]
    BY <1>7 DEF TicketGone, Redeem
  <2> QED
    BY <1>1, <1>4, <2>1 DEF TicketInv
<1>8. ASSUME tickets' = tickets PROVE TicketInv'
  BY <1>1, <1>8 DEF TicketInv
<1> QED
  BY <1>5, <1>6, <1>7, <1>8
     DEF Next, Post, Delete, ScanPage, Tick, SkipEntry, BeginEntry, Payload, EndEntry,
         CloseArchive, OpenFile, FileGone, Chunk, FileSent, HangUp, table

LEMMA TicketInit == Init => TicketInv
BY ScanInit DEF Init, TicketInv

\* The files of a ticket bear different names, unless one of the chat's own
\* names looks like a rename.
THEOREM NamesDiffer == Spec => []NamesUnique
<1>1. TicketInv /\ UNCHANGED vars => TicketInv'
  BY DEF TicketInv, ScanInv, vars, scan, table
<1>2. TicketInv => NamesUnique
  BY DeduplicatedFiles DEF TicketInv, NamesUnique
<1> QED
  BY <1>1, <1>2, TicketInit, TicketStep, PTL DEF Spec

-----------------------------------------------------------------------------
(* The stream of an archive.                                               *)

Entry(files) ==
    [name : {files[i].name : i \in DOMAIN files}, size : Nat, offset : Nat]
ZipStreams(files) ==
    [kind : {"zip"}, files : {files}, next : Nat, step : {"fetch", "payload", "closed"},
     announced : Nat, sent : Nat, offset : Nat, size : Nat, at : Nat,
     entries : Seq(Entry(files)), true_at : Seq(Nat), short : BOOLEAN]

\* Where the next entry begins, or the one that is being written began.
Stop(d) == IF d.step = "payload" THEN d.at ELSE d.offset

\* What was sent is what was counted; an entry that is being written has its
\* header and size bytes out.
Written(d) ==
    /\ d.step # "closed" => d.sent = d.offset
    /\ d.step = "closed" =>
          d.next > Len(d.files) /\ d.sent = d.offset + Closing(d.entries, d.offset)
    /\ d.step = "payload" =>
          /\ d.next <= Len(d.files) /\ d.size <= d.files[d.next].size
          /\ d.offset = d.at + LocalHeader(d.files[d.next].name) + d.size
    /\ d.next \in 1..(Len(d.files) + 1)

\* Entries begin where their headers went out, each right where the one before
\* it ends by its name and size, and what follows the last begins at its end.
Adjoins(entries, i) == entries[i].offset = IF i = 1 THEN 0 ELSE EndOf(entries[i - 1])
Ordered(d) ==
    LET n == Len(d.entries)
    IN /\ Len(d.true_at) = n + (IF d.step = "fetch" THEN 0 ELSE 1)
       /\ d.step # "fetch" => d.true_at[n + 1] = Stop(d)
       /\ Stop(d) = EndOfAll(d.entries)
       /\ \A i \in 1..n : d.entries[i].offset = d.true_at[i] /\ Adjoins(d.entries, i)

\* As long as nothing was left out, there is an entry for each file before next.
Full(d) ==
    ~d.short =>
        /\ Len(d.entries) = d.next - 1
        /\ \A i \in 1..Len(d.entries) :
              d.entries[i].name = d.files[i].name /\ d.entries[i].size = d.files[i].size

Archived(d) ==
    /\ IsFiles(d.files) /\ d \in ZipStreams(d.files)
    /\ d.announced = CalculateArchiveSize(d.files)
    /\ Written(d) /\ Ordered(d) /\ Full(d)

LEMMA ArchiveTypes ==
    ASSUME NEW d, Archived(d)
    PROVE  /\ d.kind = "zip" /\ "kind" \in DOMAIN d
           /\ d.next \in Nat /\ d.sent \in Nat /\ d.offset \in Nat /\ d.size \in Nat
           /\ d.at \in Nat /\ d.short \in BOOLEAN /\ d.true_at \in Seq(Nat)
           /\ d.entries \in Seq(Entry(d.files)) /\ Len(d.entries) \in Nat
           /\ Len(d.files) \in Nat /\ DOMAIN d.files = 1..Len(d.files)
           /\ \A i \in 1..Len(d.files) :
                 LocalHeader(d.files[i].name) \in Nat /\ d.files[i].size \in Nat
           /\ \A i \in 1..Len(d.entries) :
                 /\ d.entries[i].offset \in Nat /\ d.entries[i].size \in Nat
                 /\ LocalHeader(d.entries[i].name) \in Nat
                 /\ CentralHeader(d.entries[i]) \in Nat
<1>1. /\ Len(d.files) \in Nat /\ DOMAIN d.files = 1..Len(d.files)
      /\ \A i \in 1..Len(d.files) :
            NameLength(d.files[i].name) \in Nat /\ d.files[i].size \in Nat
  BY FileLengths DEF Archived
<1>2. /\ d.kind = "zip" /\ "kind" \in DOMAIN d
      /\ d.next \in Nat /\ d.sent \in Nat /\ d.offset \in Nat /\ d.size \in Nat
      /\ d.at \in Nat /\ d.short \in BOOLEAN /\ d.true_at \in Seq(Nat)
      /\ d.entries \in Seq(Entry(d.files))
  BY DEF Archived, ZipStreams
<1>3. ASSUME NEW i \in 1..Len(d.entries)
      PROVE  /\ d.entries[i].offset \in Nat /\ d.entries[i].size \in Nat
             /\ LocalHeader(d.entries[i].name) \in Nat
             /\ CentralHeader(d.entries[i]) \in Nat
  <2>1. d.entries[i] \in Entry(d.files)
    BY <1>2
  <2>2. PICK k \in 1..Len(d.files) : d.entries[i].name = d.files[k].name
    BY <1>1, <2>1 DEF Entry
  <2>3. /\ d.entries[i].size \in Nat /\ d.entries[i].offset \in Nat
        /\ NameLength(d.entries[i].name) \in Nat
    BY <1>1, <2>1, <2>2 DEF Entry
  <2> DEFINE l == NameLength(d.entries[i].name)
             x == IF d.entries[i].offset >= Max32 THEN 12 ELSE 0
  <2>4. CentralHeader(d.entries[i]) = 46 + l + x /\ LocalHeader(d.entries[i].name) = 30 + l
    BY DEF CentralHeader, LocalHeader
  <2>5. l \in Nat /\ x \in Nat
    BY <2>3
  <2> HIDE DEF l, x
  <2> QED
    BY <2>3, <2>4, <2>5
<1>4. \A i \in 1..Len(d.files) : LocalHeader(d.files[i].name) \in Nat
  BY <1>1 DEF LocalHeader
<1> QED
  BY <1>1, <1>2, <1>3, <1>4

LEMMA SkipArchived ==
    ASSUME NEW d, Archived(d), d.step = "fetch", d.next <= Len(d.files),
           NEW e, e = [d EXCEPT !.next = @ + 1, !.short = TRUE]
    PROVE  Archived(e)
<1> DEFINE F == d.files
<1>1. d \in ZipStreams(F)
  BY DEF Archived
<1>2. d.next \in Nat /\ Len(d.files) \in Nat
  BY ArchiveTypes
<1> HIDE DEF F
<1>3. /\ e.files = d.files /\ e.next = d.next + 1 /\ e.short
      /\ e.step = d.step /\ e.announced = d.announced /\ e.sent = d.sent
      /\ e.offset = d.offset /\ e.at = d.at /\ e.entries = d.entries
      /\ e.true_at = d.true_at
  BY <1>1 DEF ZipStreams
<1>6. e \in ZipStreams(F)
  <2> DEFINE m == d.next + 1
  <2>1. m \in Nat /\ e = [d EXCEPT !.next = m, !.short = TRUE]
    BY <1>2
  <2> HIDE DEF m
  <2> QED
    BY <1>1, <2>1 DEF ZipStreams
<1>4. Written(e)
  BY <1>2, <1>3 DEF Archived, Written
<1>5. Ordered(e)
  BY <1>3 DEF Archived, Ordered, Stop
<1> QED
  BY <1>3, <1>4, <1>5, <1>6 DEF Archived, Full, F

LEMMA BeginArchived ==
    ASSUME NEW d, Archived(d), d.step = "fetch", d.next <= Len(d.files),
           NEW e,
           e = [d EXCEPT !.step = "payload", !.size = 0, !.at = d.offset,
                         !.sent = @ + LocalHeader(d.files[d.next].name),
                         !.offset = @ + LocalHeader(d.files[d.next].name),
                         !.true_at = Append(@, d.sent)]
    PROVE  Archived(e)
<1> DEFINE h == LocalHeader(d.files[d.next].name)
<1>1. d \in ZipStreams(d.files) /\ Written(d) /\ Ordered(d) /\ Full(d)
  BY DEF Archived
<1>2. /\ d.next \in 1..Len(d.files) /\ d.sent \in Nat /\ d.offset \in Nat
      /\ d.true_at \in Seq(Nat)
      /\ Len(d.files) \in Nat /\ Len(d.entries) \in Nat
  BY <1>1, ArchiveTypes DEF Written
<1>3. h \in Nat /\ d.files[d.next].size \in Nat
  BY <1>2, ArchiveTypes
<1> DEFINE F == d.files
<1>0. d \in ZipStreams(F)
  BY <1>1
<1> HIDE DEF F, h
<1>4. /\ Append(d.true_at, d.sent) \in Seq(Nat)
      /\ Len(Append(d.true_at, d.sent)) = Len(d.true_at) + 1
      /\ \A i \in 1..Len(d.true_at) : Append(d.true_at, d.sent)[i] = d.true_at[i]
      /\ Append(d.true_at, d.sent)[Len(d.true_at) + 1] = d.sent
  BY <1>2, AppendProperties
<1>5. e = [d EXCEPT !.step = "payload", !.size = 0, !.at = d.offset,
                    !.sent = d.sent + h, !.offset = d.offset + h,
                    !.true_at = Append(d.true_at, d.sent)]
  BY <1>1 DEF h, ZipStreams
<1>6. /\ e \in ZipStreams(F) /\ e.files = d.files /\ e.next = d.next
      /\ e.short = d.short /\ e.step = "payload" /\ e.announced = d.announced
      /\ e.sent = d.sent + h /\ e.offset = d.offset + h /\ e.at = d.offset /\ e.size = 0
      /\ e.entries = d.entries /\ e.true_at = Append(d.true_at, d.sent)
  <2> DEFINE t == Append(d.true_at, d.sent)
             s == d.sent + h
             o == d.offset + h
             a == d.offset
  <2>1. t \in Seq(Nat) /\ s \in Nat /\ o \in Nat /\ a \in Nat
    BY <1>2, <1>3, <1>4
  <2>2. e = [d EXCEPT !.step = "payload", !.size = 0, !.at = a, !.sent = s,
                      !.offset = o, !.true_at = t]
    BY <1>5
  <2> HIDE DEF t, s, o, a
  <2>3. /\ e.files = d.files /\ e.next = d.next
        /\ e.short = d.short /\ e.step = "payload" /\ e.announced = d.announced
        /\ e.sent = s /\ e.offset = o /\ e.at = a /\ e.size = 0
        /\ e.entries = d.entries /\ e.true_at = t
    BY <1>0, <2>2 DEF ZipStreams
  <2>4. e \in ZipStreams(F)
    <3>1. e = [kind |-> d.kind, files |-> d.files, next |-> d.next, step |-> "payload",
               announced |-> d.announced, sent |-> s, offset |-> o, size |-> 0, at |-> a,
               entries |-> d.entries, true_at |-> t, short |-> d.short]
      BY <1>0, <2>2 DEF ZipStreams
    <3>2. /\ d.kind \in {"zip"} /\ d.files \in {F} /\ d.next \in Nat /\ d.announced \in Nat
          /\ d.entries \in Seq(Entry(F)) /\ d.short \in BOOLEAN
      BY <1>0 DEF ZipStreams
    <3> QED
      BY <2>1, <3>1, <3>2 DEF ZipStreams
  <2> QED
    BY <2>3, <2>4 DEF t, s, o, a
<1>7. Stop(d) = d.offset /\ Stop(e) = d.offset /\ d.sent = d.offset
  BY <1>1, <1>6 DEF Stop, Written
<1>8. Written(e)
  BY <1>1, <1>2, <1>3, <1>6, <1>7 DEF Written, h
<1>9. Ordered(e)
  <2>0. Len(d.true_at) = Len(d.entries) + 0 /\ Stop(d) = EndOfAll(d.entries)
    BY <1>1 DEF Ordered
  <2>1. Len(d.true_at) = Len(d.entries) /\ Stop(e) = EndOfAll(e.entries)
    BY <1>2, <1>6, <1>7, <2>0
  <2>2. Len(e.true_at) = Len(e.entries) + 1 /\ e.true_at[Len(e.entries) + 1] = Stop(e)
    BY <1>4, <1>6, <1>7, <2>1
  <2>3. \A i \in 1..Len(e.entries) : e.entries[i].offset = e.true_at[i] /\ Adjoins(e.entries, i)
    BY <1>1, <1>4, <1>6, <2>1 DEF Ordered
  <2> QED
    BY <1>6, <2>1, <2>2, <2>3 DEF Ordered
<1>10. Full(e)
  BY <1>1, <1>6, <1>7 DEF Full
<1> QED
  BY <1>6, <1>8, <1>9, <1>10 DEF Archived, F

LEMMA PayloadArchived ==
    ASSUME NEW d, Archived(d), d.step = "payload", NEW k \in Nat,
           d.size + k <= d.files[d.next].size,
           NEW e, e = [d EXCEPT !.sent = @ + k, !.offset = @ + k, !.size = @ + k]
    PROVE  Archived(e)
<1>1. d \in ZipStreams(d.files) /\ Written(d) /\ Ordered(d) /\ Full(d)
  BY DEF Archived
<1>2. d.next \in 1..Len(d.files) /\ d.sent \in Nat /\ d.offset \in Nat /\ d.size \in Nat
      /\ d.at \in Nat
  BY <1>1, ArchiveTypes DEF Written
<1>3. LocalHeader(d.files[d.next].name) \in Nat
  BY <1>2, ArchiveTypes
<1> DEFINE F == d.files
<1>0. d \in ZipStreams(F)
  BY <1>1
<1> HIDE DEF F
<1>4. /\ e.files = d.files /\ e.next = d.next
      /\ e.short = d.short /\ e.step = d.step /\ e.announced = d.announced
      /\ e.sent = d.sent + k /\ e.offset = d.offset + k /\ e.at = d.at
      /\ e.size = d.size + k /\ e.entries = d.entries /\ e.true_at = d.true_at
  BY <1>0 DEF ZipStreams
<1>8. e \in ZipStreams(F)
  <2> DEFINE s == d.sent + k
             o == d.offset + k
             z == d.size + k
  <2>1. s \in Nat /\ o \in Nat /\ z \in Nat /\ e = [d EXCEPT !.sent = s, !.offset = o, !.size = z]
    BY <1>0, <1>2 DEF ZipStreams
  <2> HIDE DEF s, o, z
  <2> QED
    BY <1>0, <2>1 DEF ZipStreams
<1>5. Written(e)
  BY <1>1, <1>2, <1>3, <1>4 DEF Written
<1>6. Stop(e) = Stop(d)
  BY <1>4 DEF Stop
<1>7. Ordered(e) /\ Full(e)
  BY <1>1, <1>4, <1>6 DEF Ordered, Full
<1> QED
  BY <1>4, <1>5, <1>7, <1>8 DEF Archived, F

Ended(d) ==
    [d EXCEPT !.step = "fetch", !.next = @ + 1,
              !.sent = @ + DataDescriptor, !.offset = @ + DataDescriptor,
              !.short = @ \/ d.size < d.files[d.next].size,
              !.entries = Append(@, [name |-> d.files[d.next].name,
                                     size |-> d.size, offset |-> d.at])]

LEMMA EndArchived ==
    ASSUME NEW d, Archived(d), d.step = "payload", NEW e, e = Ended(d)
    PROVE  Archived(e)
<1> DEFINE F == d.files
           n == Len(d.entries)
           new == [name |-> d.files[d.next].name, size |-> d.size, offset |-> d.at]
           all == Append(d.entries, new)
           cut == d.short \/ d.size < d.files[d.next].size
           m == d.next + 1
           s == d.sent + DataDescriptor
           o == d.offset + DataDescriptor
<1>1. d \in ZipStreams(F) /\ Written(d) /\ Ordered(d) /\ Full(d)
  BY DEF Archived
<1>2. /\ d.next \in 1..Len(d.files) /\ d.sent \in Nat /\ d.offset \in Nat /\ d.size \in Nat
      /\ d.at \in Nat /\ d.short \in BOOLEAN /\ d.entries \in Seq(Entry(F)) /\ n \in Nat
      /\ DOMAIN d.files = 1..Len(d.files) /\ Len(d.files) \in Nat
      /\ d.files[d.next].size \in Nat /\ LocalHeader(d.files[d.next].name) \in Nat
  <2>1. d.next \in 1..Len(d.files)
    BY <1>1 DEF Written
  <2> QED
    BY <2>1, ArchiveTypes
<1>4. new \in Entry(F)
  BY <1>2 DEF Entry
<1>5. new.name = d.files[d.next].name /\ new.size = d.size /\ new.offset = d.at
  OBVIOUS
<1> HIDE DEF F, new
<1>6. /\ all \in Seq(Entry(F)) /\ Len(all) = n + 1 /\ all[n + 1] = new
      /\ \A i \in 1..n : all[i] = d.entries[i]
  BY <1>2, <1>4, AppendProperties
<1>7. \A i \in 1..(n + 1) : i \in 1..n \/ i = n + 1
  BY <1>2
<1>8. m \in Nat /\ s \in Nat /\ o \in Nat /\ cut \in BOOLEAN
  BY <1>2 DEF DataDescriptor
<1>9. e = [d EXCEPT !.step = "fetch", !.next = m, !.sent = s, !.offset = o, !.short = cut,
                    !.entries = all]
  <2> HIDE DEF cut, all
  <2>1. d \in ZipStreams(F)
    BY <1>1
  <2> QED
    BY <2>1 DEF ZipStreams, Ended, cut, all, new
<1> HIDE DEF all, cut, m, s, o, n
<1>10. e = [kind |-> d.kind, files |-> d.files, next |-> m, step |-> "fetch",
            announced |-> d.announced, sent |-> s, offset |-> o, size |-> d.size,
            at |-> d.at, entries |-> all, true_at |-> d.true_at, short |-> cut]
  BY <1>1, <1>9 DEF ZipStreams
<1>11. e \in ZipStreams(F)
  <2>1. /\ d.kind \in {"zip"} /\ d.files \in {F} /\ d.announced \in Nat /\ d.size \in Nat
        /\ d.at \in Nat /\ d.true_at \in Seq(Nat)
    BY <1>1 DEF ZipStreams
  <2> QED
    BY <1>6, <1>8, <1>10, <2>1 DEF ZipStreams
<1>12. /\ e.files = d.files /\ e.next = m /\ e.step = "fetch"
       /\ e.announced = d.announced /\ e.sent = s /\ e.offset = o /\ e.entries = all
       /\ e.true_at = d.true_at /\ e.short = cut
  BY <1>10
\* The descriptor ends the new entry.
<1>13. Stop(e) = o /\ Stop(d) = d.at /\ EndOf(new) = o /\ d.at <= o /\ o \in Nat
  <2>1. d.offset = d.at + LocalHeader(d.files[d.next].name) + d.size
    BY <1>1 DEF Written
  <2>2. EndOf(new) = d.at + LocalHeader(d.files[d.next].name) + d.size + DataDescriptor
    BY <1>5 DEF EndOf
  <2>3. EndOf(new) = o /\ d.at <= o
    BY <1>2, <2>1, <2>2 DEF o, DataDescriptor
  <2> QED
    BY <1>8, <1>12, <2>3 DEF Stop
<1>14. Written(e)
  <2>1. e.sent = e.offset
    BY <1>1, <1>12 DEF Written, s, o
  <2>2. e.next \in 1..(Len(e.files) + 1)
    BY <1>2, <1>12 DEF m
  <2> QED
    BY <1>12, <2>1, <2>2 DEF Written
<1>15. /\ Len(d.true_at) = n + 1 /\ d.true_at[n + 1] = d.at /\ d.at = EndOfAll(d.entries)
       /\ \A i \in 1..n : d.entries[i].offset = d.true_at[i] /\ Adjoins(d.entries, i)
  BY <1>1, <1>13 DEF Ordered, n
<1>16. Ordered(e)
  <2>1. Stop(e) = EndOfAll(all)
    <3>1. Len(all) # 0
      BY <1>2, <1>6
    <3> QED
      BY <1>6, <1>13, <3>1 DEF EndOfAll
  <2>2. ASSUME NEW i \in 1..(n + 1) PROVE all[i].offset = d.true_at[i] /\ Adjoins(all, i)
    <3>1. CASE i \in 1..n
      <4>1. i = 1 \/ i - 1 \in 1..n
        BY <1>2, <3>1
      <4>2. i # 1 => all[i - 1] = d.entries[i - 1]
        BY <1>6, <4>1
      <4> QED
        BY <1>6, <1>15, <3>1, <4>2 DEF Adjoins
    <3>2. CASE i = n + 1
      <4>1. all[i].offset = d.at
        BY <1>5, <1>6, <3>2
      <4>2. d.at = IF n = 0 THEN 0 ELSE EndOf(d.entries[n])
        BY <1>15 DEF EndOfAll, n
      <4>3. i = 1 <=> n = 0
        BY <1>2, <3>2
      <4>4. i # 1 => i - 1 = n /\ n \in 1..n
        BY <1>2, <3>2
      <4>5. i # 1 => all[i - 1] = d.entries[n]
        BY <1>6, <4>4
      <4> QED
        BY <1>15, <3>2, <4>1, <4>2, <4>3, <4>5 DEF Adjoins
    <3> QED
      BY <1>7, <3>1, <3>2
  <2>3. Len(e.entries) = n + 1 /\ e.entries = all /\ e.true_at = d.true_at
    BY <1>6, <1>12
  <2>4. Len(e.true_at) = Len(e.entries) + 0
    BY <1>2, <1>15, <2>3
  <2> QED
    BY <1>12, <2>1, <2>2, <2>3, <2>4 DEF Ordered
<1>17. Full(e)
  <2>1. SUFFICES ASSUME ~cut PROVE Full(e)
    BY <1>12 DEF Full
  <2>2. ~d.short /\ d.size = d.files[d.next].size
    BY <1>1, <1>2, <2>1 DEF cut, Written
  <2>3. /\ n = d.next - 1
        /\ \A i \in 1..n :
              d.entries[i].name = d.files[i].name /\ d.entries[i].size = d.files[i].size
    BY <1>1, <2>2 DEF Full, n
  <2>4. d.next = n + 1 /\ m = n + 2 /\ Len(all) = m - 1
    BY <1>2, <1>6, <2>3 DEF m
  <2>5. ASSUME NEW i \in 1..(n + 1)
        PROVE  all[i].name = d.files[i].name /\ all[i].size = d.files[i].size
    <3>1. CASE i \in 1..n
      BY <1>6, <2>3, <3>1
    <3>2. CASE i = n + 1
      BY <1>5, <1>6, <2>2, <2>4, <3>2
    <3> QED
      BY <1>7, <3>1, <3>2
  <2>6. Len(all) = n + 1
    BY <1>6
  <2> QED
    BY <1>12, <2>4, <2>5, <2>6 DEF Full
<1> QED
  BY <1>11, <1>12, <1>14, <1>16, <1>17 DEF Archived, F

LEMMA ClosingLength ==
    ASSUME NEW n \in Nat, NEW entries, Counted(entries, n), Len(entries) = n, NEW at \in Nat
    PROVE  Closing(entries, at) \in Nat
<1>1. PICK t \in [0..n -> Nat] : CentralSize(entries) = t[n]
  BY CentralSums
<1>2. CentralSize(entries) \in Nat
  BY <1>1
<1>3. EndRecords(entries, at, CentralSize(entries)) \in Nat
  BY DEF EndRecords
<1> QED
  BY <1>2, <1>3 DEF Closing

LEMMA CloseArchived ==
    ASSUME NEW d, Archived(d), d.step = "fetch", ~(d.next <= Len(d.files)),
           NEW e,
           e = [d EXCEPT !.step = "closed", !.sent = @ + Closing(d.entries, d.offset),
                         !.true_at = Append(@, d.sent)]
    PROVE  Archived(e) /\ e.step = "closed"
<1> DEFINE F == d.files
           c == d.sent + Closing(d.entries, d.offset)
           t == Append(d.true_at, d.sent)
           n == Len(d.entries)
<1>1. d \in ZipStreams(F) /\ Written(d) /\ Ordered(d) /\ Full(d)
  BY DEF Archived
<1>2. d.next \in Nat /\ d.sent \in Nat /\ d.offset \in Nat /\ Len(d.files) \in Nat
  BY ArchiveTypes
<1>3. c \in Nat
  <2>1. Counted(d.entries, Len(d.entries)) /\ Len(d.entries) \in Nat
    BY ArchiveTypes DEF Counted
  <2>2. Closing(d.entries, d.offset) \in Nat
    BY <1>2, <2>1, ClosingLength
  <2> QED
    BY <1>2, <2>2
<1> HIDE DEF F
<1>4. e = [d EXCEPT !.step = "closed", !.sent = c, !.true_at = t]
  BY <1>1 DEF ZipStreams
<1>5. /\ t \in Seq(Nat) /\ Len(t) = Len(d.true_at) + 1
      /\ \A i \in 1..Len(d.true_at) : t[i] = d.true_at[i]
      /\ t[Len(d.true_at) + 1] = d.sent
  BY <1>2, ArchiveTypes, AppendProperties
<1> HIDE DEF c, t
<1>6. e \in ZipStreams(F)
  BY <1>1, <1>3, <1>4, <1>5 DEF ZipStreams
<1>7. /\ e.files = d.files /\ e.next = d.next /\ e.short = d.short /\ e.step = "closed"
      /\ e.announced = d.announced /\ e.sent = c /\ e.offset = d.offset
      /\ e.entries = d.entries /\ e.true_at = t
  BY <1>1, <1>4 DEF ZipStreams
<1>8. Stop(e) = Stop(d) /\ Stop(d) = d.sent
  BY <1>1, <1>7 DEF Stop, Written
<1>9. Written(e)
  BY <1>1, <1>2, <1>7 DEF Written, c
<1>10. Ordered(e)
  <2>1. Len(d.true_at) = n /\ n \in Nat
    BY <1>1, ArchiveTypes DEF Ordered
  <2>2. /\ Stop(d) = EndOfAll(d.entries)
        /\ \A i \in 1..n : d.entries[i].offset = d.true_at[i] /\ Adjoins(d.entries, i)
    BY <1>1 DEF Ordered
  <2> QED
    BY <1>5, <1>7, <1>8, <2>1, <2>2 DEF Ordered
<1>11. Full(e)
  BY <1>1, <1>7 DEF Full
<1> QED
  BY <1>6, <1>7, <1>9, <1>10, <1>11 DEF Archived, F

DirectInv ==
    /\ TicketInv /\ StreamInv /\ TableInv
    /\ age \in Seq(0..(Ttl + 1)) /\ mine \in 0..Len(age)
    /\ download.kind \in {"none", "zip", "file", "refused"}
    /\ download.kind = "zip" =>
          Archived(download) /\ (phase = "done" => download.step = "closed")

LEMMA RedeemArchived ==
    ASSUME NEW files, IsFiles(files), NEW d,
           d = [kind |-> "zip", files |-> files, next |-> 1, step |-> "fetch",
                announced |-> CalculateArchiveSize(files),
                sent |-> 0, offset |-> 0, size |-> 0, at |-> 0,
                entries |-> <<>>, true_at |-> <<>>, short |-> FALSE]
    PROVE  Archived(d)
<1>1. CalculateArchiveSize(files) \in Nat
  BY AnnouncedType
<1>2. Len(files) \in Nat
  BY FileLengths
<1> DEFINE a == CalculateArchiveSize(files)
<1> HIDE DEF a
<1>3. /\ d.kind = "zip" /\ d.files = files /\ d.next = 1 /\ d.step = "fetch"
      /\ d.announced = CalculateArchiveSize(files) /\ d.sent = 0 /\ d.offset = 0
      /\ d.entries = <<>> /\ d.true_at = <<>> /\ d.short = FALSE
  OBVIOUS
<1>4. d \in ZipStreams(files)
  <2>1. <<>> \in Seq(Entry(files)) /\ <<>> \in Seq(Nat)
    OBVIOUS
  <2>2. a \in Nat /\ a = CalculateArchiveSize(files)
    BY <1>1 DEF a
  <2> QED
    BY <2>1, <2>2 DEF ZipStreams
<1>5. Len(d.entries) = 0 /\ Len(d.true_at) = 0
  BY <1>3
<1>6. Written(d)
  BY <1>2, <1>3 DEF Written
<1>7. Ordered(d)
  BY <1>3, <1>5 DEF Ordered, Stop, EndOfAll
<1>8. Full(d)
  BY <1>3, <1>5 DEF Full
<1> QED
  BY <1>3, <1>4, <1>6, <1>7, <1>8 DEF Archived

\* The table's ticket numbers and ages.
LEMMA TableTypes ==
    ASSUME age \in Seq(0..(Ttl + 1)), mine \in 0..Len(age), Next
    PROVE  age' \in Seq(0..(Ttl + 1)) /\ mine' \in 0..Len(age')
<1> USE DirectAssumption
<1>1. ASSUME NEW files, CreateTicket(files)
      PROVE  age' \in Seq(0..(Ttl + 1)) /\ Len(age') = Len(age) + 1
  <2>1. age' = Append(age, 0) /\ 0 \in 0..(Ttl + 1)
    BY <1>1 DEF CreateTicket
  <2> QED
    BY <2>1, AppendProperties
<1>2. Len(age) \in Nat
  OBVIOUS
<1>3. CASE OtherTicket
  BY <1>1, <1>2, <1>3 DEF OtherTicket
<1>4. ASSUME NEW sel \in SUBSET Media, Prepare(sel)
      PROVE  age' \in Seq(0..(Ttl + 1)) /\ mine' \in 0..Len(age')
  BY <1>1, <1>2, <1>4 DEF Prepare
<1>5. CASE Tick
  <2>1. age' = [n \in 1..Len(age) |-> Smaller(age[n] + 1, Ttl + 1)]
    BY <1>5 DEF Tick, MadeTickets
  <2>2. ASSUME NEW n \in 1..Len(age) PROVE Smaller(age[n] + 1, Ttl + 1) \in 0..(Ttl + 1)
    <3>1. age[n] \in 0..(Ttl + 1)
      OBVIOUS
    <3> QED
      BY <3>1 DEF Smaller
  <2>3. age' \in [1..Len(age) -> 0..(Ttl + 1)]
    BY <2>1, <2>2
  <2>4. age' \in Seq(0..(Ttl + 1)) /\ Len(age') = Len(age)
    BY <1>2, <2>3, MadeOfSequence
  <2> QED
    BY <1>5, <2>4 DEF Tick
<1>6. ASSUME UNCHANGED <<age, mine>>
      PROVE  age' \in Seq(0..(Ttl + 1)) /\ mine' \in 0..Len(age')
  BY <1>6
<1> QED
  BY <1>3, <1>4, <1>5, <1>6
     DEF Next, Post, Delete, ScanPage, TicketGone, Redeem, SkipEntry, BeginEntry, Payload,
         EndEntry, CloseArchive, OpenFile, FileGone, Chunk, FileSent, HangUp, table

DownloadOK ==
    /\ download.kind \in {"none", "zip", "file", "refused"}
    /\ download.kind = "zip" =>
          Archived(download) /\ (phase = "done" => download.step = "closed")

LEMMA DownloadStep == ASSUME DirectInv, Next PROVE DownloadOK'
<1> USE DirectAssumption
<1>1. DownloadOK
  BY DEF DirectInv, DownloadOK
<1>2. CASE Redeem
  <2> DEFINE files == tickets[mine]
  <2>1. IsFiles(files)
    <3>1. mine \in DOMAIN tickets
      BY <1>2 DEF Redeem, Pruned
    <3> QED
      BY <3>1, DeduplicatedFiles DEF DirectInv, TicketInv
  <2>2. /\ download' = [kind |-> "zip", files |-> files, next |-> 1, step |-> "fetch",
                        announced |-> CalculateArchiveSize(files),
                        sent |-> 0, offset |-> 0, size |-> 0, at |-> 0,
                        entries |-> <<>>, true_at |-> <<>>, short |-> FALSE]
        /\ phase' = "streaming"
    BY <1>2 DEF Redeem
  <2> HIDE DEF files
  <2>3. Archived(download')
    BY <2>1, <2>2, RedeemArchived
  <2>4. download'.kind = "zip"
    BY <2>3, ArchiveTypes
  <2> QED
    BY <2>2, <2>3, <2>4 DEF DownloadOK
<1>3. ASSUME NEW step, Zipping(step) PROVE Archived(download) /\ download.step = step
  BY <1>1, <1>3 DEF Zipping, DownloadOK
<1>4. ASSUME Archived(download'), phase' # "done" \/ download'.step = "closed"
      PROVE  DownloadOK'
  <2>1. download'.kind = "zip"
    BY <1>4, ArchiveTypes
  <2> QED
    BY <1>4, <2>1 DEF DownloadOK
<1>5. CASE SkipEntry
  <2>1. Archived(download) /\ download.step = "fetch" /\ phase' = "streaming"
        /\ download.next <= Len(download.files)
    BY <1>3, <1>5 DEF SkipEntry, Left, Zipping
  <2>2. download' = [download EXCEPT !.next = @ + 1, !.short = TRUE]
    BY <1>5 DEF SkipEntry
  <2> QED
    BY <1>4, <2>1, <2>2, SkipArchived
<1>6. CASE BeginEntry
  <2>1. Archived(download) /\ download.step = "fetch" /\ phase' = "streaming"
        /\ download.next <= Len(download.files)
    BY <1>3, <1>6 DEF BeginEntry, Left, Zipping
  <2>2. download' = [download EXCEPT !.step = "payload", !.size = 0, !.at = download.offset,
                       !.sent = @ + LocalHeader(download.files[download.next].name),
                       !.offset = @ + LocalHeader(download.files[download.next].name),
                       !.true_at = Append(@, download.sent)]
    BY <1>6 DEF BeginEntry, File
  <2> QED
    BY <1>4, <2>1, <2>2, BeginArchived
<1>7. ASSUME NEW k \in 1..MaxChunk, Payload(k) PROVE DownloadOK'
  <2>1. Archived(download) /\ download.step = "payload" /\ phase' = "streaming" /\ k \in Nat
        /\ download.size + k <= download.files[download.next].size
    BY <1>3, <1>7 DEF Payload, File, Zipping
  <2>2. download' = [download EXCEPT !.sent = @ + k, !.offset = @ + k, !.size = @ + k]
    BY <1>7 DEF Payload
  <2> QED
    BY <1>4, <2>1, <2>2, PayloadArchived
<1>8. CASE EndEntry
  <2>1. Archived(download) /\ download.step = "payload" /\ phase' = "streaming"
    BY <1>3, <1>8 DEF EndEntry, Zipping
  <2>2. download' = Ended(download)
    BY <1>8 DEF EndEntry, Ended, File
  <2> QED
    BY <1>4, <2>1, <2>2, EndArchived
<1>9. CASE CloseArchive
  <2>1. Archived(download) /\ download.step = "fetch"
        /\ ~(download.next <= Len(download.files))
    BY <1>3, <1>9 DEF CloseArchive, Left
  <2>2. download' = [download EXCEPT !.step = "closed",
                       !.sent = @ + Closing(download.entries, download.offset),
                       !.true_at = Append(@, download.sent)]
    BY <1>9 DEF CloseArchive
  <2>3. Archived(download') /\ download'.step = "closed"
    BY <2>1, <2>2, CloseArchived
  <2> QED
    BY <1>4, <2>3
<1>10. ASSUME NEW m \in Media, NEW h \in Asks, OpenFile(m, h) PROVE DownloadOK'
  <2>1. download'.kind \in {"file", "refused"}
    BY <1>10 DEF OpenFile
  <2> QED
    BY <2>1 DEF DownloadOK
<1>11. ASSUME NEW k \in 1..MaxChunk, Chunk(k) PROVE DownloadOK'
  <2>1. download'.kind = "file"
    BY <1>11 DEF Chunk, Filing, TakeChunk, DirectInv, StreamInv
  <2> QED
    BY <2>1 DEF DownloadOK
<1>12. ASSUME download' = download, phase' # "done" \/ phase' = phase PROVE DownloadOK'
  BY <1>1, <1>12 DEF DownloadOK
<1>13. CASE FileSent
  BY <1>1, <1>13 DEF FileSent, Filing, DownloadOK
<1>14. ASSUME Post \/ (\E m \in Messages : Delete(m)) \/ ScanPage \/ OtherTicket \/ Tick
              \/ TicketGone \/ (\E sel \in SUBSET Media : Prepare(sel))
              \/ (\E m \in Media : FileGone(m)) \/ HangUp
       PROVE  DownloadOK'
  <2>1. download' = download /\ (phase' # "done" \/ phase' = phase)
    BY <1>14 DEF Post, Delete, ScanPage, OtherTicket, Tick, TicketGone, Prepare, FileGone, HangUp
  <2> QED
    BY <1>12, <2>1
<1> QED
  BY <1>2, <1>5, <1>6, <1>7, <1>8, <1>9, <1>10, <1>11, <1>13, <1>14 DEF Next

LEMMA DirectStep == ASSUME DirectInv, Next PROVE DirectInv'
BY TicketStep, StreamStep, TableStep, TableTypes, DownloadStep DEF DirectInv, DownloadOK

LEMMA DirectInit == Init => DirectInv
<1> SUFFICES ASSUME Init PROVE DirectInv
  OBVIOUS
<1>1. TicketInv
  BY TicketInit
<1>2. StreamInv
  BY DEF Init, StreamInv, NoDownload
<1>3. TableInv
  BY FS_EmptySet, DirectAssumption DEF Init, TableInv, TicketsKept, MadeTickets
<1>4. age \in Seq(0..(Ttl + 1)) /\ mine \in 0..Len(age) /\ download.kind = "none"
  BY DEF Init, NoDownload
<1> QED
  BY <1>1, <1>2, <1>3, <1>4 DEF DirectInv

LEMMA DirectStutter == DirectInv /\ UNCHANGED vars => DirectInv'
BY DEF DirectInv, TicketInv, ScanInv, StreamInv, Progressed, TableInv, TicketsKept,
       MadeTickets, vars, scan, table

\* Chat, pages, tickets and responses have their types.
THEOREM DirectTypes == Spec => []TypeOK
<1>1. DirectInv => TypeOK
  <2> SUFFICES ASSUME DirectInv PROVE TypeOK
    OBVIOUS
  <2>1. chat \subseteq Messages
    <3>1. \A m \in 1..top : m \in 1..MaxId
      BY DirectAssumption DEF DirectInv, TicketInv, ScanInv
    <3> QED
      BY <3>1 DEF DirectInv, TicketInv, ScanInv, Messages
  <2>2. DOMAIN tickets \subseteq MadeTickets
    BY DEF DirectInv, TableInv, MadeTickets
  <2>3. download.kind = "zip" => download.announced \in Nat /\ download.sent \in Nat
    BY DEF DirectInv, Archived, ZipStreams
  <2>4. download.kind = "file" =>
           download.announced \in Nat /\ download.sent \in Nat /\ download.first \in Nat
    BY DEF DirectInv, StreamInv, FileStreams
  <2> QED
    BY <2>1, <2>2, <2>3, <2>4 DEF DirectInv, TicketInv, ScanInv, Phases, TypeOK
<1> QED
  BY <1>1, DirectInit, DirectStep, DirectStutter, PTL DEF Spec

LEMMA FitsItsField == ASSUME NEW size \in Nat, size <= Max32 PROVE NamedSize(size) = size
<1>1. Max32 \in Nat
  BY ZipAssumption
<1> QED
  BY <1>1 DEF NamedSize

\* The directory names the place where each entry's header really began, and
\* the number of bytes sent for it, whatever files there are and whichever of
\* them were skipped or cut; a size is lost only where 32 bits cannot hold it.
THEOREM DirectoryIsTrue == Spec => []DirectoryTrue
<1>1. DirectInv => DirectoryTrue
  <2> SUFFICES ASSUME DirectInv, download.kind = "zip" PROVE DirectoryTrue
    BY DEF DirectoryTrue
  <2> DEFINE d == download
             n == Len(d.entries)
             SentFor(i) == d.true_at[i + 1] - d.true_at[i]
                              - LocalHeader(d.entries[i].name) - DataDescriptor
  <2>1. Archived(d)
    BY DEF DirectInv
  <2>2. n \in Nat /\ DOMAIN d.entries = 1..n /\ DOMAIN d.true_at = 1..Len(d.true_at)
    BY <2>1, ArchiveTypes
  <2> HIDE DEF d
  <2>3. /\ Len(d.true_at) \in {n, n + 1}
        /\ d.step # "fetch" => d.true_at[n + 1] = Stop(d)
        /\ Len(d.true_at) = n + 1 => d.step # "fetch"
        /\ Stop(d) = EndOfAll(d.entries)
        /\ \A i \in 1..n : d.entries[i].offset = d.true_at[i] /\ Adjoins(d.entries, i)
    <3>1. Ordered(d)
      BY <2>1 DEF Archived
    <3>2. Len(d.true_at) = n + (IF d.step = "fetch" THEN 0 ELSE 1)
      BY <3>1 DEF Ordered
    <3>3. Len(d.true_at) \in {n, n + 1} /\ (Len(d.true_at) = n + 1 => d.step # "fetch")
      <4>1. n \in Nat
        BY <2>2
      <4> HIDE DEF n
      <4> QED
        BY <3>2, <4>1
    <3> QED
      BY <3>1, <3>3 DEF Ordered
  <2>4. d.step = "closed" => d.true_at[n + 1] = d.offset
    BY <2>3 DEF Stop
  <2>5. ASSUME NEW i \in 1..n, i + 1 \in DOMAIN d.true_at
        PROVE  d.true_at[i + 1] = EndOf(d.entries[i])
    <3>1. CASE i = n
      <4>1. Len(d.true_at) = n + 1 /\ n # 0
        BY <2>2, <2>3, <2>5, <3>1
      <4> QED
        BY <2>3, <3>1, <4>1 DEF EndOfAll
    <3>2. CASE i # n
      <4>1. i + 1 \in 1..n /\ i + 1 # 1 /\ (i + 1) - 1 = i
        BY <2>2, <3>2
      <4> QED
        BY <2>3, <4>1 DEF Adjoins
    <3> QED
      BY <3>1, <3>2
  <2>6. ASSUME NEW i \in 1..n, i + 1 \in DOMAIN d.true_at, SentFor(i) <= Max32
        PROVE  NamedSize(d.entries[i].size) = SentFor(i)
    <3> DEFINE o == d.entries[i].offset
               l == LocalHeader(d.entries[i].name)
               z == d.entries[i].size
    <3>1. d.true_at[i + 1] = o + l + z + DataDescriptor /\ d.true_at[i] = o
      BY <2>3, <2>5, <2>6 DEF EndOf
    <3>2. o \in Nat /\ l \in Nat /\ z \in Nat
      BY <2>1, ArchiveTypes
    <3>3. SentFor(i) = d.true_at[i + 1] - d.true_at[i] - l - DataDescriptor
      OBVIOUS
    <3> HIDE DEF o, l, z, SentFor
    <3>4. SentFor(i) = z
      BY <3>1, <3>2, <3>3 DEF DataDescriptor
    <3> QED
      BY <2>6, <3>2, <3>4, FitsItsField DEF z
  <2> QED
    BY <2>2, <2>3, <2>4, <2>6 DEF DirectoryTrue, d
<1> QED
  BY <1>1, DirectInit, DirectStep, DirectStutter, PTL DEF Spec

\* A complete archive is as long as its Content-Length said.
THEOREM LengthIsAnnounced == Spec => []LengthAnnounced
<1>1. DirectInv => LengthAnnounced
  <2> SUFFICES ASSUME DirectInv, phase = "done", download.kind = "zip", ~download.short
               PROVE  download.sent = download.announced
    BY DEF LengthAnnounced
  <2> DEFINE d == download
  <2>1. Archived(d) /\ d.step = "closed" /\ ~d.short
    BY DEF DirectInv
  <2> HIDE DEF d
  <2>2. /\ IsFiles(d.files) /\ d.announced = CalculateArchiveSize(d.files)
        /\ d.next > Len(d.files) /\ d.next \in 1..(Len(d.files) + 1)
        /\ d.sent = d.offset + Closing(d.entries, d.offset)
        /\ d.offset = EndOfAll(d.entries)
        /\ Len(d.entries) = d.next - 1
    BY <2>1 DEF Archived, Written, Ordered, Full, Stop
  <2>3. Len(d.files) \in Nat /\ DOMAIN d.files = 1..Len(d.files)
        /\ DOMAIN d.entries = 1..Len(d.entries)
    BY <2>1, ArchiveTypes
  <2>4. Len(d.entries) = Len(d.files)
    BY <2>2, <2>3
  <2>5. EntriesOf(d.entries, d.files)
    BY <2>1, <2>3, <2>4 DEF Archived, Ordered, Adjoins, Full, EntriesOf
  <2>6. CalculateArchiveSize(d.files)
           = EndOfAll(d.entries) + Closing(d.entries, EndOfAll(d.entries))
    BY <2>2, <2>5, AnnouncedIsWritten
  <2> QED
    BY <2>2, <2>6 DEF d
<1> QED
  BY <1>1, DirectInit, DirectStep, DirectStutter, PTL DEF Spec
=============================================================================

------------------------------ MODULE ZipArchive ------------------------------
(***************************************************************************)
(* The layout of the streamed ZIP archives (zip_stream.py): the lengths of *)
(* its records, the size that is announced before anything is read, and    *)
(* the names of the entries.  Records count by their bytes; the thresholds *)
(* of ZIP64 are parameters.                                                *)
(*                                                                         *)
(* A name is the part before its last dot, as a sequence of pieces, and    *)
(* the extension; a rename appends the message's number as a piece.        *)
(***************************************************************************)
EXTENDS Integers, Sequences, SequencesExt

CONSTANTS
    Max32,      \* 0xFFFFFFFF
    Max16       \* 0xFFFF

ASSUME ZipAssumption == {Max32, Max16} \subseteq Nat

IsSequence(s) == Len(s) \in Nat /\ s = [i \in 1..Len(s) |-> s[i]]
IsName(name) == name \in [base : {name.base}, ext : {name.ext}] /\ IsSequence(name.base)

NameLength(name) == Len(name.base) + 1

-----------------------------------------------------------------------------
(* The writer.                                                             *)

LocalHeader(name) == 30 + NameLength(name)
DataDescriptor == 16

\* The size field of the descriptor and of the central header: 32 bits.
NamedSize(size) == size % (Max32 + 1)

CentralHeader_Beyond(entry) ==
    46 + NameLength(entry.name) + (IF entry.offset > Max32 THEN 12 ELSE 0)
CentralHeader(entry) ==
    46 + NameLength(entry.name) + (IF entry.offset >= Max32 THEN 12 ELSE 0)
EndRecords(entries, cd_offset, cd_size) ==
    22 + (IF cd_offset >= Max32 \/ cd_size >= Max32 \/ Len(entries) >= Max16
            THEN 56 + 20 ELSE 0)

CentralSize(entries) == FoldLeft(LAMBDA sum, e : sum + CentralHeader(e), 0, entries)

\* The central directory and what follows it, for entries after cd_offset.
Closing(entries, cd_offset) ==
    CentralSize(entries) + EndRecords(entries, cd_offset, CentralSize(entries))

-----------------------------------------------------------------------------
(* calculate_archive_size.                                                 *)

AddFile(at, f) ==
    [offset |-> at.offset + 30 + NameLength(f.name) + f.size + 16,
     cd |-> at.cd + 46 + NameLength(f.name) + (IF at.offset >= Max32 THEN 12 ELSE 0)]
AllFiles(files) == FoldLeft(AddFile, [offset |-> 0, cd |-> 0], files)

CalculateArchiveSize(files) ==
    LET end == AllFiles(files)
        zip64 == end.offset >= Max32 \/ end.cd >= Max32 \/ Len(files) >= Max16
    IN end.offset + end.cd + (IF zip64 THEN 56 + 20 + 22 ELSE 22)

-----------------------------------------------------------------------------
(* deduplicate_filenames.                                                  *)

\* A name that is nothing but an extension is repeated in front of it.
Renamed(name, id) ==
    [name EXCEPT !.base = Append(IF @ = <<>> THEN <<name.ext>> ELSE @, id)]

\* The first item of a name keeps it.
SeenBefore_ById(items, i) == \E j \in 1..(i - 1) : items[j].id = items[i].id
SeenBefore(items, i) == \E j \in 1..(i - 1) : items[j].name = items[i].name
Deduplicate(items) ==
    [i \in DOMAIN items |->
        IF SeenBefore(items, i)
          THEN [items[i] EXCEPT !.name = Renamed(items[i].name, items[i].id)]
          ELSE items[i]]

\* Some file bears the name another one would be given.
Lookalike(items) ==
    \E i, j \in DOMAIN items : items[i].name = Renamed(items[j].name, items[j].id)

Unique(items) ==
    \A i, j \in DOMAIN items : items[i].name = items[j].name => i = j
=============================================================================

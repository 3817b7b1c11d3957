----------------------------- MODULE FileSystem -----------------------------
(***************************************************************************)
(* The Nachos file system of filesys/ on a disk of sectors: the directory    *)
(* and the bitmap of free sectors kept in files of their own, file headers,  *)
(* open files, and what a crash leaves on the disk.                          *)
(*                                                                           *)
(* One client uses it at a time (filesys.cc says it assumes so).  An         *)
(* operation reads what it needs, works in memory, and then writes sectors   *)
(* one by one: "todo" is the list of sector writes it still has to do.  A    *)
(* crash may come between any two of them; a restart opens the disk as it    *)
(* is.  Requests that fail leave the disk and the open file alone, so they   *)
(* are steps that change nothing.                                            *)
(*                                                                           *)
(* Open and Remove take what the sector of an entry holds for a header.  If  *)
(* it holds the bytes of a file, the sectors they then write or free are any *)
(* at all: the operation "misread" ends the behaviour there.                 *)
(*                                                                           *)
(* A sector holds a record tagged with what was last written there.  The     *)
(* directory takes two sectors and the entry number Straddle lies across     *)
(* them: its inUse and sector fields in the first, its name in the second    *)
(* (ten entries of 20 bytes on sectors of 128: the seventh).                 *)
(***************************************************************************)
EXTENDS Integers, Sequences, FiniteSetsExt, SequencesExt

CONSTANTS
  NumSectors, SectorSize, NumDirEntries, Straddle, NumDirect,
  Sizes, Bytes, MaxRequest, NoFile,
  FileNames, \* the names the client uses, for each setup: "orderly", "crash" or "stale"
  Requests,  \* the sequences of bytes it writes, for each setup
  HeapBytes  \* what an uninitialized buffer may hold, for each setup

ASSUME LayoutAssumption ==
  /\ NumSectors > 5 /\ SectorSize > 0 /\ Straddle \in 1..NumDirEntries
  /\ \A n \in Sizes : n <= NumDirect * SectorSize

VARIABLES
  disk,      \* the contents of every sector
  todo,      \* sector writes left: a sequence of [sector, data]
  current,   \* the operation in progress: [op, name, ...], op = "idle" when there is none;
             \* "aborted" after a failed ASSERT, "misread" as said above
  file,      \* the client's open file, NoFile or [name, hdr, seekPosition]
  got,       \* what the Read just done returned; empty after any other step
  setup, crashed,
  victim,    \* the directory entry of the Create or Remove that the crash cut short, or 0
  spread     \* the victim's file was removed, or written, on sectors of another file

vars == <<disk, todo, current, file, got, setup, crashed, victim, spread>>

Sectors == 0 .. NumSectors - 1
FreeMapSector == 0
DirectorySector == 1
MapData == 2
DirData1 == 3
DirData2 == 4

divRoundUp(n, s) == (n + s - 1) \div s

-----------------------------------------------------------------------------
(* The structures, in memory and on disk *)

\* BitMap: the set of marked sectors.  Find gives the lowest clear bit and marks it.
NumClear(map) == Cardinality(Sectors \ map)
Find(map) == Min(Sectors \ map)

\* Directory: a sequence of entries.
FindIndex(dir, name) ==
  SelectInSeq(dir, LAMBDA e : e.inUse /\ e.name = name)
FreeIndex(dir) == SelectInSeq(dir, LAMBDA e : ~e.inUse)
Add(dir, name, newSector) ==
  [dir EXCEPT ![FreeIndex(dir)] = [inUse |-> TRUE, sector |-> newSector, name |-> name]]
RemoveEntry(dir, name) == [dir EXCEPT ![FindIndex(dir, name)].inUse = FALSE]

\* FileHeader::Allocate: the lowest clear sectors, in order; the map it leaves.
Allocate(map, fileSize) ==
  LET numSectors == divRoundUp(fileSize, SectorSize)
      taken[k \in 0..numSectors] ==
        IF k = 0 THEN << >> ELSE Append(taken[k-1], Find(map \cup Range(taken[k-1])))
  IN  [hdr |-> [kind |-> "header", numBytes |-> fileSize, dataSectors |-> taken[numSectors]],
       map |-> map \cup Range(taken[numSectors])]
CanAllocate(map, fileSize) == NumClear(map) >= divRoundUp(fileSize, SectorSize)

(* Mutant: the header's sectors stay marked. *)
DeallocateNothing(map, hdr) == map

Deallocate(map, hdr) == map \ Range(hdr.dataSectors)

\* WriteBack and FetchFrom of the bitmap and of the directory.
MapWrites(map) == << [sector |-> MapData, data |-> [kind |-> "map", marked |-> map]] >>
Place(e) == [inUse |-> e.inUse, sector |-> e.sector]
DirWrites(dir) ==
  << [sector |-> DirData1,
      data |-> [kind |-> "dir1",
                places |-> [i \in 1..Straddle |-> Place(dir[i])],
                names |-> [i \in 1 .. Straddle - 1 |-> dir[i].name]]],
     [sector |-> DirData2,
      data |-> [kind |-> "dir2",
                places |-> [i \in Straddle + 1 .. NumDirEntries |-> Place(dir[i])],
                names |-> [i \in Straddle .. NumDirEntries |-> dir[i].name]]] >>
FreeMap == disk[MapData].marked
Directory ==
  [i \in 1..NumDirEntries |->
     LET place == IF i <= Straddle THEN disk[DirData1].places[i] ELSE disk[DirData2].places[i]
     IN  [inUse |-> place.inUse, sector |-> place.sector,
          name |-> IF i < Straddle THEN disk[DirData1].names[i] ELSE disk[DirData2].names[i]]]

\* What FileHeader::FetchFrom finds at the sector is a header, and not the bytes of a file.
HeaderAt(sector) == disk[sector].kind = "header"
Entries == {i \in DOMAIN Directory : Directory[i].inUse}
Metadata == {FreeMapSector, DirectorySector, MapData, DirData1, DirData2}

\* The sectors an entry of the directory leads to.
Owned(i) ==
  LET sector == Directory[i].sector
  IN  {sector} \cup IF HeaderAt(sector) THEN Range(disk[sector].dataSectors) ELSE {}

\* The sectors of the entry are marked and no other entry leads to them.
Intact(i) ==
  /\ HeaderAt(Directory[i].sector)
  /\ Owned(i) \subseteq FreeMap
  /\ \A j \in Entries \ {i} : Owned(i) \cap Owned(j) = {}

-----------------------------------------------------------------------------
(* FileSystem::FileSystem with format = TRUE, on a disk of garbage *)

Applied(d, writes) == FoldLeft(LAMBDA e, w : [e EXCEPT ![w.sector] = w.data], d, writes)
Garbage == [kind |-> "data", bytes |-> [b \in 1..SectorSize |-> 0]]

(* Mutant: the bitmap that is flushed was taken before the directory's sectors were allocated. *)
FormatWritesUnmarked ==
  LET mapFile == Allocate({FreeMapSector, DirectorySector}, SectorSize)
      dirFile == Allocate(mapFile.map, 2 * SectorSize)
      empty == [i \in 1..NumDirEntries |-> [inUse |-> FALSE, sector |-> 0, name |-> NoFile]]
  IN  << [sector |-> FreeMapSector, data |-> mapFile.hdr],
         [sector |-> DirectorySector, data |-> dirFile.hdr] >>
      \o MapWrites(mapFile.map) \o DirWrites(empty)

FormatWrites ==
  LET mapFile == Allocate({FreeMapSector, DirectorySector}, SectorSize)
      dirFile == Allocate(mapFile.map, 2 * SectorSize)
      empty == [i \in 1..NumDirEntries |-> [inUse |-> FALSE, sector |-> 0, name |-> NoFile]]
  IN  << [sector |-> FreeMapSector, data |-> mapFile.hdr],
         [sector |-> DirectorySector, data |-> dirFile.hdr] >>
      \o MapWrites(dirFile.map) \o DirWrites(empty)

Idle == [op |-> "idle", name |-> NoFile, entry |-> 0]

Init ==
  /\ disk = Applied([s \in Sectors |-> Garbage], FormatWrites)
  /\ todo = << >> /\ current = Idle
  /\ file = NoFile /\ got = << >>
  /\ setup \in DOMAIN FileNames /\ crashed = FALSE /\ victim = 0 /\ spread = FALSE

-----------------------------------------------------------------------------
(* The operations.  Begin computes in memory, WriteSector does the disk writes. *)

Begin(op, name, entry, writes) ==
  /\ current = Idle
  /\ current' = [op |-> op, name |-> name, entry |-> entry]
  /\ todo' = writes

\* The entry is written anew: if it was the victim's, there is none any more.
Replaces(entry) == victim' = IF entry = victim THEN 0 ELSE victim

(* Mutant: the bitmap is flushed before the directory. *)
CreateMapFirst(name, initialSize) ==
  /\ FindIndex(Directory, name) = 0
  /\ NumClear(FreeMap) > 0
  /\ FreeIndex(Directory) # 0
  /\ LET sector == Find(FreeMap)
         map == FreeMap \cup {sector}
         new == Allocate(map, initialSize)
     IN  /\ CanAllocate(map, initialSize)
         /\ Begin("create", name, FreeIndex(Directory),
                  << [sector |-> sector, data |-> new.hdr] >>
                  \o MapWrites(new.map) \o DirWrites(Add(Directory, name, sector)))
  /\ Replaces(FreeIndex(Directory))
  /\ got' = << >>
  /\ UNCHANGED <<disk, file, setup, crashed, spread>>

Create(name, initialSize) ==
  /\ FindIndex(Directory, name) = 0
  /\ NumClear(FreeMap) > 0
  /\ FreeIndex(Directory) # 0
  /\ LET sector == Find(FreeMap)
         map == FreeMap \cup {sector}
         new == Allocate(map, initialSize)
     IN  /\ CanAllocate(map, initialSize)
         /\ Begin("create", name, FreeIndex(Directory),
                  << [sector |-> sector, data |-> new.hdr] >>
                  \o DirWrites(Add(Directory, name, sector)) \o MapWrites(new.map))
  /\ Replaces(FreeIndex(Directory))
  /\ got' = << >>
  /\ UNCHANGED <<disk, file, setup, crashed, spread>>

\* Directory::Find, and what is then fetched as the file's header.
Leads(name) == FindIndex(Directory, name) # 0
SectorOf(name) == Directory[FindIndex(Directory, name)].sector
HeaderOf(name) == disk[SectorOf(name)]

IsOpen(name) == file # NoFile /\ file.name = name

\* The name finds the victim's entry; the sectors belong to a file other than the victim's.
IsVictim(name) == victim # 0 /\ FindIndex(Directory, name) = victim
HitsOthers(sectors) == \E i \in Entries \ {victim} : sectors \cap Owned(i) # {}

\* The bytes of a file are taken for its header.
Misread(name) ==
  /\ current' = [op |-> "misread", name |-> name, entry |-> FindIndex(Directory, name)]
  /\ UNCHANGED <<todo, file, victim, spread>>

Open(name) ==
  /\ current = Idle /\ Leads(name)
  /\ \/ /\ HeaderAt(SectorOf(name))
        /\ file' = [name |-> name, hdr |-> HeaderOf(name), seekPosition |-> 0]
        /\ UNCHANGED <<todo, current, victim, spread>>
     \/ ~HeaderAt(SectorOf(name)) /\ Misread(name)
  /\ got' = << >>
  /\ UNCHANGED <<disk, setup, crashed>>

\* Deallocate asserts that the data sectors are marked.  Only the setup "stale" removes a file
\* that is open.
RemoveFile(name) ==
  /\ current = Idle /\ Leads(name)
  /\ setup # "stale" => ~IsOpen(name)
  /\ \/ /\ HeaderAt(SectorOf(name))
        /\ Range(HeaderOf(name).dataSectors) \subseteq FreeMap
        /\ Begin("remove", name, FindIndex(Directory, name),
                 MapWrites(Deallocate(FreeMap, HeaderOf(name)) \ {SectorOf(name)})
                 \o DirWrites(RemoveEntry(Directory, name)))
        /\ Replaces(FindIndex(Directory, name))
        /\ spread' = (spread \/ (IsVictim(name) /\ HitsOthers(Owned(victim))))
        /\ UNCHANGED file
     \/ /\ HeaderAt(SectorOf(name))
        /\ ~(Range(HeaderOf(name).dataSectors) \subseteq FreeMap)
        /\ current' = [op |-> "aborted", name |-> name, entry |-> FindIndex(Directory, name)]
        /\ UNCHANGED <<todo, file, victim, spread>>
     \/ ~HeaderAt(SectorOf(name)) /\ Misread(name)
  /\ got' = << >>
  /\ UNCHANGED <<disk, setup, crashed>>

Close ==
  /\ current = Idle /\ file # NoFile
  /\ file' = NoFile
  /\ got' = << >>
  /\ UNCHANGED <<disk, todo, current, setup, crashed, victim, spread>>

Seek(position) ==
  /\ current = Idle /\ file # NoFile
  /\ file' = [file EXCEPT !.seekPosition = position]
  /\ got' = << >>
  /\ UNCHANGED <<disk, todo, current, setup, crashed, victim, spread>>

\* FileHeader::ByteToSector, and a byte of a sector: the bytes of what is not file data
\* do not matter here and read as 0.
ByteToSector(hdr, offset) == hdr.dataSectors[(offset \div SectorSize) + 1]
ByteAt(hdr, offset) ==
  LET content == disk[ByteToSector(hdr, offset)]
  IN  IF content.kind = "data" THEN content.bytes[(offset % SectorSize) + 1] ELSE 0

\* The number of bytes ReadAt and WriteAt transfer.
Transfer(hdr, numBytes, position) ==
  IF numBytes <= 0 \/ position >= hdr.numBytes THEN 0
  ELSE Min({numBytes, hdr.numBytes - position})

ReadAt(hdr, numBytes, position) ==
  [i \in 1..Transfer(hdr, numBytes, position) |-> ByteAt(hdr, position + i - 1)]

Read(numBytes) ==
  /\ current = Idle /\ file # NoFile
  /\ got' = ReadAt(file.hdr, numBytes, file.seekPosition)
  /\ file' = [file EXCEPT !.seekPosition = @ + Len(got')]
  /\ UNCHANGED <<disk, todo, current, setup, crashed, victim, spread>>

(* Mutant: the last sector is not read when it is also the first. *)
WriteAtOneSector(hdr, from, position, uninit) ==
  LET n == Transfer(hdr, Len(from), position)
      firstSector == position \div SectorSize
      lastSector == (position + n - 1) \div SectorSize
      firstAligned == position = firstSector * SectorSize
      lastAligned == position + n = (lastSector + 1) * SectorSize
      fetched == {s \in {firstSector} : ~firstAligned}
                 \cup {s \in {lastSector} : ~lastAligned /\ firstSector # lastSector}
      buf(offset) == IF offset \div SectorSize \in fetched /\ offset < hdr.numBytes
                     THEN ByteAt(hdr, offset) ELSE uninit
      byte(offset) == IF offset \in position .. position + n - 1
                      THEN from[offset - position + 1] ELSE buf(offset)
  IN  IF n = 0 THEN << >>
      ELSE [k \in 1 .. lastSector - firstSector + 1 |->
              LET base == (firstSector + k - 1) * SectorSize
              IN  [sector |-> ByteToSector(hdr, base),
                   data |-> [kind |-> "data",
                             bytes |-> [b \in 1..SectorSize |-> byte(base + b - 1)]]]]

\* WriteAt: whole sectors are written from a buffer.  The first sector is read into it if the
\* request does not begin there, the last if the request does not end there and it is not
\* read already; a read ends with the file, and the rest of the buffer is uninitialized.
WriteAt(hdr, from, position, uninit) ==
  LET n == Transfer(hdr, Len(from), position)
      firstSector == position \div SectorSize
      lastSector == (position + n - 1) \div SectorSize
      firstAligned == position = firstSector * SectorSize
      lastAligned == position + n = (lastSector + 1) * SectorSize
      fetched == {s \in {firstSector} : ~firstAligned}
                 \cup {s \in {lastSector} : ~lastAligned /\ (firstSector # lastSector \/ firstAligned)}
      buf(offset) == IF offset \div SectorSize \in fetched /\ offset < hdr.numBytes
                     THEN ByteAt(hdr, offset) ELSE uninit
      byte(offset) == IF offset \in position .. position + n - 1
                      THEN from[offset - position + 1] ELSE buf(offset)
  IN  IF n = 0 THEN << >>
      ELSE [k \in 1 .. lastSector - firstSector + 1 |->
              LET base == (firstSector + k - 1) * SectorSize
              IN  [sector |-> ByteToSector(hdr, base),
                   data |-> [kind |-> "data",
                             bytes |-> [b \in 1..SectorSize |-> byte(base + b - 1)]]]]

\* "data" is what is asked for from the position on.
Write(from, uninit) ==
  /\ current = Idle /\ file # NoFile
  /\ LET n == Transfer(file.hdr, Len(from), file.seekPosition)
     IN  /\ n > 0
         /\ current' = [op |-> "write", name |-> file.name, entry |-> 0,
                        data |-> SubSeq(from, 1, n)]
         /\ todo' = WriteAt(file.hdr, from, file.seekPosition, uninit)
  /\ spread' = (spread \/ (/\ IsVictim(file.name)
                          /\ HitsOthers({w.sector : w \in Range(todo')})))
  /\ got' = << >>
  /\ UNCHANGED <<disk, file, setup, crashed, victim>>

\* SynchDisk::WriteSector for the next sector of the operation, which returns after the
\* last; Write then moves the position.
WriteSector ==
  /\ todo # << >>
  /\ disk' = Applied(disk, << Head(todo) >>)
  /\ todo' = Tail(todo)
  /\ current' = IF todo' = << >> THEN Idle ELSE current
  /\ file' = IF current.op = "write" /\ todo' = << >>
             THEN [file EXCEPT !.seekPosition = @ + Len(current.data)] ELSE file
  /\ got' = << >>
  /\ UNCHANGED <<setup, crashed, victim, spread>>

\* Nachos stops between two sector writes and is started again without -f: only what is on
\* the disk is left.  One crash is enough to show what it can do.
Crash ==
  /\ setup = "crash" /\ ~crashed /\ todo # << >>
  /\ todo' = << >> /\ current' = Idle /\ file' = NoFile
  /\ crashed' = TRUE /\ victim' = current.entry
  /\ got' = << >>
  /\ UNCHANGED <<disk, setup, spread>>

Next ==
  \/ \E name \in FileNames[setup], n \in Sizes : Create(name, n)
  \/ \E name \in FileNames[setup] : RemoveFile(name)
  \/ \E name \in FileNames[setup] : Open(name)
  \/ Close
  \/ setup = "orderly" /\ \E p \in 0..MaxRequest : Seek(p)
  \/ setup = "orderly" /\ \E n \in 1..MaxRequest : Read(n)
  \/ \E from \in Requests[setup], uninit \in HeapBytes[setup] : Write(from, uninit)
  \/ WriteSector
  \/ Crash

Spec == Init /\ [][Next]_vars
-----------------------------------------------------------------------------
\* Between operations the bitmap marks exactly the sectors of the bitmap, the directory and
\* the files the directory lists, no two files share a sector, and names are unique
\* (filesys.cc:205, 279: header, directory and bitmap are written separately).
MapExact ==
  (setup = "orderly" /\ current = Idle) =>
    /\ FreeMap = Metadata \cup UNION {Owned(i) : i \in Entries}
    /\ \A i \in Entries : Intact(i) /\ Owned(i) \cap Metadata = {}
    /\ \A i, j \in Entries : Directory[i].name = Directory[j].name => i = j

\* Whatever is created, removed, written through a file opened before its removal, or cut
\* short by a crash, no sector of the bitmap, of the directory or of their headers is given to
\* a file or written as one (filesys.cc:94 marks them before anything else), up to the first
\* Open or Remove of a file whose header was overwritten: from then on bytes of a file serve as
\* dataSectors, and nothing is claimed.
MetadataSafe ==
  current.op # "misread" =>
    /\ Metadata \subseteq FreeMap
    /\ disk[FreeMapSector] = Applied([s \in Sectors |-> Garbage], FormatWrites)[FreeMapSector]
    /\ disk[DirectorySector] =
         Applied([s \in Sectors |-> Garbage], FormatWrites)[DirectorySector]
    /\ disk[DirData1].kind = "dir1" /\ disk[DirData2].kind = "dir2"

\* What a crash between the sector writes of Create, Remove or Write costs, after the restart:
\* no sector is lost (marked but not in a file), and all files but the one that was being
\* created or removed keep their headers and their sectors, marked and shared with none of
\* the others, while files are created, removed, opened and written.  It stays so until the
\* one left over is removed or written where it shares a sector with another file
\* (filesys.cc:205, 279); once its entry is given up, it holds of all files.
CrashDamage ==
  (setup = "crash" /\ current = Idle /\ ~spread) =>
    /\ FreeMap \subseteq Metadata \cup UNION {Owned(i) : i \in Entries}
    /\ \A i \in Entries \ {victim} :
         /\ HeaderAt(Directory[i].sector) /\ Owned(i) \subseteq FreeMap
         /\ \A j \in Entries \ {i, victim} : Owned(i) \cap Owned(j) = {}

\* The client's view, for FileStore: a file exists from the write of the bitmap that marks its
\* header to the one that clears it.
Live == {i \in Entries : Directory[i].sector \in FreeMap}
EntryOf(name) == CHOOSE i \in Live : Directory[i].name = name
Contents(hdr) == [i \in 1..hdr.numBytes |-> ByteAt(hdr, i - 1)]
StoreFiles ==
  [name \in {Directory[i].name : i \in Live} |-> Contents(disk[Directory[EntryOf(name)].sector])]
\* The bytes of the write in progress whose sector is still to be written, by offset.
StoreWant ==
  IF current.op # "write" THEN << >>
  ELSE LET first == file.seekPosition \div SectorSize
           last == file.seekPosition + Len(current.data) - 1
           written == (last \div SectorSize) - first + 1 - Len(todo)
       IN  [o \in {p \in file.seekPosition .. last : p \div SectorSize >= first + written} |->
              current.data[o - file.seekPosition + 1]]
Store ==
  INSTANCE FileStore WITH
    Names <- FileNames["orderly"], MaxBytes <- MaxRequest,
    files <- IF setup = "orderly" THEN StoreFiles ELSE << >>,
    open <- IF setup # "orderly" \/ file = NoFile THEN NoFile
            ELSE [name |-> file.name, pos |-> file.seekPosition],
    want <- IF setup = "orderly" THEN StoreWant ELSE << >>,
    got <- IF setup = "orderly" THEN got ELSE << >>

\* With one client and no crash, the file system is the store of named byte arrays: a Write
\* installs the bytes it was given, up to the end of the file and no others, whatever its ends
\* do to sectors (openfile.cc:167-175), a Read returns what the file holds, and creating or
\* removing a file changes no other.
ImplementsStore == Store!Spec
=============================================================================

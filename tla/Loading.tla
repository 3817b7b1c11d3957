------------------------------ MODULE Loading ------------------------------
(***************************************************************************)
(* From an object file to the memory of a process: the conversion of COFF  *)
(* to Nachos' own format (bin/coff2noff.c) and to a flat image             *)
(* (bin/coff2flat.c), and the address spaces that are filled from it       *)
(* (userprog/addrspace.cc): loaded, copied by Fork, replaced by Exec and   *)
(* released by Exit.  The loader of the stand-alone interpreter            *)
(* (load_program in bin/main.c), which puts each section at its address,   *)
(* is the reference for what a program's memory should hold.               *)
(*                                                                         *)
(* A byte of an object file is a value of its own, so that one that ends   *)
(* up in the wrong place is seen there.                                    *)
(***************************************************************************)
EXTENDS Integers, Sequences, FiniteSets, SequencesExt, FiniteSetsExt

CONSTANTS PageSize, NumPhysPages, UserStackSize,
          StackSize,      \* of coff2flat.c
          BlankWord,      \* bytes in the word it puts at the end
          Programs,       \* names of the executables on the disk
          Objects,        \* other object files to convert
          Coff,           \* object file -> its sections, in file order: name, s_paddr,
                          \* s_vaddr (the linker makes them equal) and bytes
          Processes, None

ASSUME LoadingAssumption ==
  /\ {PageSize, NumPhysPages} \subseteq Nat \ {0}
  /\ {UserStackSize, StackSize} \subseteq Nat
  /\ Programs \subseteq DOMAIN Coff /\ Objects \subseteq DOMAIN Coff

VARIABLES
  mainMemory,   \* physical address -> byte
  inUse,        \* MemoryManager's BitMap: the frames taken
  space,        \* process -> [table, program], or None
  outcome,      \* what the last step returned
  strayed,      \* a piece of a file went to a frame not its page's
  object        \* the object file last converted, None once Nachos runs

vars == <<mainMemory, inUse, space, outcome, strayed, object>>

Zero == <<>>
Zeroes(n) == [i \in 1 .. n |-> Zero]
divRoundUp(n, s) == (n + s - 1) \div s
-----------------------------------------------------------------------------
(* bin/coff2noff.c                                                         *)

NoSegment == [virtualAddr |-> 0, inFileAddr |-> 0, size |-> 0]
EmptyNoff == [ok |-> TRUE, code |-> NoSegment, initData |-> NoSegment,
              uninitData |-> NoSegment, file |-> <<>>]

Refused(noff) == [noff EXCEPT !.ok = FALSE]

\* A section whose bytes are copied to the end of the file.
Stored(noff, section) ==
  [virtualAddr |-> section.paddr, inFileAddr |-> Len(noff.file),
   size |-> Len(section.bytes)]

(* Mutant: initialised data is taken to start where the code ends. *)
ConvertSectionPacked(noff, section) ==
  LET size == Len(section.bytes)
  IN  CASE ~ noff.ok \/ size = 0 -> noff
        [] section.name = ".text" ->
             [noff EXCEPT !.code = Stored(noff, section), !.file = @ \o section.bytes]
        [] section.name \in {".data", ".rdata"} ->
             [noff EXCEPT !.initData = [Stored(noff, section) EXCEPT
                                          !.virtualAddr = noff.code.size],
                          !.file = @ \o section.bytes]
        [] OTHER -> noff
\* One turn of the loop over the sections.
ConvertSection(noff, section) ==
  LET size == Len(section.bytes)
  IN  CASE ~ noff.ok \/ size = 0 -> noff
        [] section.name = ".text" ->
             [noff EXCEPT !.code = Stored(noff, section), !.file = @ \o section.bytes]
        [] section.name \in {".data", ".rdata"} ->
             IF noff.initData.size # 0 THEN Refused(noff)
             ELSE [noff EXCEPT !.initData = Stored(noff, section),
                               !.file = @ \o section.bytes]
        [] section.name \in {".bss", ".sbss"} ->
             IF noff.uninitData.size = 0
             THEN [noff EXCEPT !.uninitData =
                     [virtualAddr |-> section.paddr, inFileAddr |-> 0, size |-> size]]
             ELSE IF section.paddr = noff.uninitData.virtualAddr + noff.uninitData.size
             THEN Refused(noff)
             ELSE [noff EXCEPT !.uninitData.size = @ + size]
        [] OTHER -> Refused(noff)

Noff ==
  [f \in DOMAIN Coff |-> FoldLeft(ConvertSection, EmptyNoff, Coff[f])]
Segment(noff, s) == SubSeq(noff.file, s.inFileAddr + 1, s.inFileAddr + s.size)

(* bin/coff2flat.c: sections one after the other, then room for the stack  *)

FlatSection(flat, section) ==
  [top |-> Max({flat.top, section.paddr + Len(section.bytes)}),
   file |-> IF section.name \in {".bss", ".sbss"} THEN flat.file
            ELSE flat.file \o section.bytes]

\* The blank word is written at top + StackSize - 4, over or past the rest.
Flat(f) ==
  LET flat == FoldLeft(FlatSection, [top |-> 0, file |-> <<>>], Coff[f])
      blank == flat.top + StackSize - BlankWord
  IN  [a \in 0 .. Max({blank + BlankWord, Len(flat.file)}) - 1 |->
         IF a < Len(flat.file) /\ a \notin blank .. blank + BlankWord - 1
         THEN flat.file[a + 1] ELSE Zero]

(* bin/main.c: load_program, a section after the other at its address      *)

LoadOrder == <<".text", ".rdata", ".data", ".sdata">>
\* It exits, here with no memory, when a section reaches the end of the memory.
LoadSection(memory, section) ==
  LET pc == section.vaddr
      size == Len(section.bytes)
  IN  IF pc + size >= Cardinality(DOMAIN memory) THEN << >>
      ELSE [a \in DOMAIN memory |->
              IF a \in pc .. pc + size - 1 THEN section.bytes[a - pc + 1] ELSE memory[a]]
\* ldnshread finds the first section of a name
FirstNamed(f, name) ==
  LET found == SelectSeq(Coff[f], LAMBDA section : section.name = name)
  IN  IF found = <<>> THEN <<>> ELSE <<Head(found)>>
load_program(f, n) ==
  FoldLeft(LoadSection, [a \in 0 .. n - 1 |-> Zero],
           FlattenSeq([i \in 1 .. Len(LoadOrder) |-> FirstNamed(f, LoadOrder[i])]))
-----------------------------------------------------------------------------
(* userprog/memorymanager.cc, userprog/bitmap.cc                           *)

Frames == 0 .. NumPhysPages - 1
getFree == NumPhysPages - Cardinality(inUse)

\* n calls of getPage: each takes the lowest clear bit.
GetPages(taken, n) ==
  SubSeq(SetToSortSeq(Frames \ taken, LAMBDA x, y : x < y), 1, n)

(* userprog/addrspace.cc                                                   *)

TableSize(noff) ==
  divRoundUp(noff.code.size + noff.initData.size + noff.uninitData.size
               + UserStackSize, PageSize)

Translate(table, virtualAddress) ==
  IF virtualAddress < 0 \/ virtualAddress \div PageSize >= Len(table) THEN -1
  ELSE table[virtualAddress \div PageSize + 1] * PageSize
         + (virtualAddress % PageSize)

\* bcopy; what is past the end of the memory is outside the model
Copied(memory, to, bytes) ==
  [a \in DOMAIN memory |->
     IF a \in to .. to + Len(bytes) - 1 THEN bytes[a - to + 1] ELSE memory[a]]

(* Mutant: the frames keep what their last owner left. *)
ClearedNot(memory, table) == memory
\* InitializePageTable
Cleared(memory, table) ==
  [a \in DOMAIN memory |->
     IF a \div PageSize \in ToSet(table) THEN Zero ELSE memory[a]]

PieceSize(virtAddr, left) ==
  IF left < PageSize THEN left ELSE PageSize - (virtAddr % PageSize)

RECURSIVE ReadFile(_, _, _, _)
\* state: memory, ok (no ASSERT failed), and whether a piece left its frame
ReadFile(state, table, virtAddr, bytes) ==
  IF bytes = <<>> \/ ~ state.ok THEN state
  ELSE LET readSize == PieceSize(virtAddr, Len(bytes))
           physAddr == Translate(table, virtAddr)
       IN  ReadFile([memory |-> Copied(state.memory, physAddr,
                                       SubSeq(bytes, 1, readSize)),
                     ok |-> physAddr >= 0,
                     strayed |-> state.strayed \/
                       \E i \in 1 .. readSize - 1 :
                         Translate(table, virtAddr + i) # physAddr + i],
                    table, virtAddr + readSize,
                    SubSeq(bytes, readSize + 1, Len(bytes)))

\* The part that the constructor and Replace have in common: a cleared page
\* table over the frames "table", then the code and the initialised data.
Filled(noff, table) ==
  LET blank == [memory |-> Cleared(mainMemory, table), ok |-> TRUE,
                strayed |-> strayed]
      coded == ReadFile(blank, table, noff.code.virtualAddr,
                        Segment(noff, noff.code))
  IN  ReadFile(coded, table, noff.initData.virtualAddr,
               Segment(noff, noff.initData))

Become(p, f, table, taken) ==
  LET filled == Filled(Noff[f], table)
  IN  /\ mainMemory' = filled.memory
      /\ strayed' = filled.strayed
      /\ inUse' = taken \cup ToSet(table)
      /\ space' = [space EXCEPT ![p] = [table |-> table, program |-> f]]
      /\ outcome' = IF filled.ok THEN "loaded" ELSE "aborted"
      /\ object' = None

Live == {p \in Processes : space[p] # None}

\* StartProcess: the first program
StartProcess(p, f) ==
  /\ Live = {} /\ outcome = "none"
  /\ LET n == TableSize(Noff[f])
     IN  IF n <= getFree THEN Become(p, f, GetPages(inUse, n), inUse)
         ELSE /\ outcome' = "aborted" /\ object' = None
              /\ UNCHANGED <<mainMemory, inUse, space, strayed>>

\* copy: the child's frames are taken one by one and filled from the parent's
Fork(p, child) ==
  LET table == space[p].table
      new == GetPages(inUse, Len(table))
  IN  /\ p \in Live /\ child \notin Live
      /\ IF Len(table) > getFree
         THEN /\ outcome' = "refused"
              /\ UNCHANGED <<mainMemory, inUse, space, strayed, object>>
         ELSE /\ inUse' = inUse \cup ToSet(new)
              /\ space' = [space EXCEPT ![child] = [space[p] EXCEPT !.table = new]]
              /\ mainMemory' = [a \in DOMAIN mainMemory |->
                   IF \E i \in DOMAIN new : new[i] = a \div PageSize
                   THEN LET i == CHOOSE i \in DOMAIN new : new[i] = a \div PageSize
                        IN  mainMemory[table[i] * PageSize + (a % PageSize)]
                   ELSE mainMemory[a]]
              /\ outcome' = "forked"
              /\ UNCHANGED <<strayed, object>>

\* "newNumPages - numPages > getFree()" is compared as unsigned: a smaller
\* program is refused, whatever is free.
Refuses(old, new) == new < old \/ new - old > getFree

(* Mutant: the memory is given up before it is known to suffice. *)
ReplaceEager(p, f) ==
  LET n == TableSize(Noff[f])
      kept == inUse \ ToSet(space[p].table)
  IN  /\ p \in Live
      /\ IF Refuses(Len(space[p].table), n)
         THEN /\ inUse' = kept
              /\ outcome' = "refused"
              /\ UNCHANGED <<mainMemory, space, strayed, object>>
         ELSE Become(p, f, GetPages(kept, n), kept)
Replace(p, f) ==
  LET n == TableSize(Noff[f])
      kept == inUse \ ToSet(space[p].table)
  IN  /\ p \in Live
      /\ IF Refuses(Len(space[p].table), n)
         THEN /\ outcome' = "refused"
              /\ UNCHANGED <<mainMemory, inUse, space, strayed, object>>
         ELSE Become(p, f, GetPages(kept, n), kept)

\* ReleasePhysicalMemory, as Exit and Kill call it
Release(p) ==
  /\ p \in Live
  /\ inUse' = inUse \ ToSet(space[p].table)
  /\ space' = [space EXCEPT ![p] = None]
  /\ outcome' = "released"
  /\ UNCHANGED <<mainMemory, strayed, object>>
-----------------------------------------------------------------------------
\* What memory held before the machine was started is nothing a program may
\* rely on: it differs from every byte of the files.
Init ==
  /\ mainMemory = [a \in 0 .. NumPhysPages * PageSize - 1 |-> <<"old">>]
  /\ inUse = {}
  /\ space = [p \in Processes |-> None]
  /\ outcome = "none"
  /\ strayed = FALSE
  /\ object = None

\* test/Makefile: an object file is converted before Nachos is run.
Convert(f) ==
  /\ outcome = "none"
  /\ object' = f
  /\ UNCHANGED <<mainMemory, inUse, space, outcome, strayed>>

Next ==
  /\ outcome # "aborted"
  /\ \/ \E f \in Objects : Convert(f)
     \/ \E p \in Processes, f \in Programs : StartProcess(p, f) \/ Replace(p, f)
     \/ \E p, child \in Processes : Fork(p, child)
     \/ \E p \in Processes : Release(p)

Spec == Init /\ [][Next]_vars
-----------------------------------------------------------------------------
Image(p) ==
  [a \in 0 .. Len(space[p].table) * PageSize - 1 |->
     mainMemory[Translate(space[p].table, a)]]

\* What a process finds in its memory is its program, each section where the
\* linker put it and zeroes elsewhere, whichever frames it was given, whoever
\* had them before, and whatever the other processes load, copy and release.
ImageIntact ==
  ~ strayed =>
    \A p \in Live :
      Image(p) = load_program(space[p].program, Len(space[p].table) * PageSize)

\* A refused Fork or Exec changes nothing; an Exec that is carried out leaves
\* every other process the memory it had.
AllOrNothing ==
  [][/\ outcome' = "refused" => UNCHANGED <<mainMemory, inUse, space>>
     /\ ~ strayed' =>
          \A p \in Live : space'[p] = space[p] => Image(p)' = Image(p)]_vars

\* The layouts for which coff2flat's output is a memory image: the sections
\* lie in file order without gaps, those that are not copied last.
Contiguous(f) ==
  \A i \in DOMAIN Coff[f] :
    /\ Coff[f][i].paddr = FoldSeq(LAMBDA s, n : Len(s.bytes) + n, 0,
                                  SubSeq(Coff[f], 1, i - 1))
    /\ Coff[f][i].name \in {".bss", ".sbss"} =>
         \A j \in i .. Len(Coff[f]) : Coff[f][j].name \in {".bss", ".sbss"}

\* The converters agree with the loader of the interpreter: a file that
\* coff2noff accepts says of every initialised byte where it goes, and
\* coff2flat's image is the same memory for a contiguous file.
ConvertersAgree ==
  object # None =>
  LET noff == Noff[object]
      n == 2 * PageSize * NumPhysPages
      at(s) == [name |-> "", vaddr |-> s.virtualAddr, bytes |-> Segment(noff, s)]
  IN  /\ noff.ok => FoldLeft(LoadSection, [a \in 0 .. n - 1 |-> Zero],
                             <<at(noff.code), at(noff.initData)>>)
                      = load_program(object, n)
      /\ Contiguous(object) =>
           \A a \in DOMAIN Flat(object) : Flat(object)[a] = load_program(object, n)[a]

\* "Loads the code and data segment into the translated memory": every byte
\* of a loaded program is where the page table says.
LoadsTranslated ==
  \A p \in Live :
    outcome = "loaded" =>
      Image(p) = load_program(space[p].program, Len(space[p].table) * PageSize)
=============================================================================

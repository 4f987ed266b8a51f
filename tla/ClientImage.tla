----------------------------- MODULE ClientImage -----------------------------
(***************************************************************************)
(* Loading a container's image into its program region: the load segments  *)
(* of the ELF file one after the other, each checked just before it is     *)
(* copied, then the symbols that the image's symbol table gives new values *)
(* for.  The first thing wrong ends the attempt and leaves what was        *)
(* written so far.  Addresses and sizes are unsigned words.                *)
(* Sources: src/miscutils.c (tsldr_miscutil_load_elf),                     *)
(* src/trustedlo_cfuncs.c (mktxlo_client_image_load), src/mktsymb.c.       *)
(***************************************************************************)
EXTENDS Integers, Sequences, FiniteSets

CONSTANTS
  Words,       \* how many words there are: 2^64
  Images,      \* what the monitor may put in the container image region
  PhdrSize,    \* sizeof(Elf64_Phdr)
  Base, Size,  \* the region that is loaded: tsldr_vm_layout.container_program
  MaxAttempts  \* bound: images loaded one after the other

ASSUME WordsAssumption == Words \in Nat \ {0}
ASSUME PhdrSizeAssumption == PhdrSize \in Nat \ {0}
(* tools/gen_vm_layout.py refuses a region that reaches the last word. *)
ASSUME RegionAssumption == Base \in Nat /\ Size \in Nat /\ Base + Size < Words
ASSUME AttemptsAssumption == MaxAttempts \in Nat

Word == 0 .. Words - 1
Region == Base .. Base + Size - 1
Phdr == [type : {"load", "other"}, offset : Word, vaddr : Word,
         filesz : Word, memsz : Word]
Symbol == [name : STRING, value : Word]
NewValue == [name : STRING, data_len : Word]
(* phdrs is the table as far as it is filled; the header has its own idea  *)
(* of where it is and how long.  symtab lists the symbols of all symbol    *)
(* tables, symbols the names and lengths of the new values.                *)
Image == [elf_size : Word, entry : Word, phoff : Word, phentsize : Word,
          phnum : Word, phdrs : Seq(Phdr), symtab : Seq(Symbol),
          symbols : Seq(NewValue)]

ASSUME ImagesAssumption ==
  /\ Images \subseteq Image
  /\ Images # {}
  /\ \A img \in Images : img.phnum <= Len(img.phdrs)

VARIABLES
  pc,        \* where mktxlo_client_image_load is, or how it ended
  attempts,  \* images tried so far
  image,     \* the one that is being loaded
  at,        \* index of the loop it is in
  memory,    \* what each word of the address space holds
  written,   \* addresses written by this attempt
  read       \* offsets into the ELF file read by this attempt

vars == <<pc, attempts, image, at, memory, written, read>>

(* A byte is the file byte at an offset of the n-th image, zero, a byte of *)
(* a new symbol value, or what was there before any image.                 *)
File(o) == <<attempts, "file", 0, o>>
Value(s, j) == <<attempts, "value", s, j>>
Zero == <<0, "zero", 0, 0>>
Unknown == <<0, "unknown", 0, 0>>

(* Unsigned subtraction wraps around. *)
Minus(a, b) == (a - b) % Words

Init ==
  /\ pc = "idle" /\ attempts = 0 /\ at = 1
  /\ image = CHOOSE img \in Images : TRUE
  /\ memory = [a \in Word |-> Unknown]
  /\ written = {} /\ read = {}

-----------------------------------------------------------------------------
(* The program-header table lies inside the file. *)
TableFits ==
  /\ image.phentsize = PhdrSize
  /\ image.phoff <= image.elf_size
  /\ image.phnum <= Minus(image.elf_size, image.phoff) \div PhdrSize

EntryInside ==
  /\ image.entry >= Base
  /\ Minus(image.entry, Base) < Size

BeginLoad(img) ==
  /\ pc \in {"idle", "loaded", "rejected"}
  /\ attempts < MaxAttempts
  /\ pc' = "headers"
  /\ attempts' = attempts + 1
  /\ image' = img
  /\ at' = 1
  /\ written' = {} /\ read' = {}
  /\ UNCHANGED memory

CheckHeaders ==
  /\ pc = "headers"
  /\ pc' = IF TableFits /\ EntryInside THEN "segments" ELSE "rejected"
  /\ UNCHANGED <<attempts, image, at, memory, written, read>>

(* Mutant of FileBytesInside: the sum is compared, and may wrap around. *)
FileBytesInsideSum(ph) ==
  /\ ph.filesz <= ph.memsz
  /\ (ph.offset + ph.filesz) % Words <= image.elf_size

FileBytesInside(ph) ==
  /\ ph.filesz <= ph.memsz
  /\ ph.offset <= image.elf_size
  /\ ph.filesz <= Minus(image.elf_size, ph.offset)

(* Mutants of SegmentInside: only the start of a segment is checked; a      *)
(* segment below the region is not refused.                                *)
SegmentInsideStart(ph) == ph.vaddr >= Base /\ Minus(ph.vaddr, Base) <= Size
SegmentInsideUnlessBelow(ph) ==
  LET seg_offset == Minus(ph.vaddr, Base) IN
  ph.memsz <= Minus(Size, seg_offset)

SegmentInside(ph) ==
  LET seg_offset == Minus(ph.vaddr, Base) IN
  /\ ph.vaddr >= Base
  /\ seg_offset <= Size
  /\ ph.memsz <= Minus(Size, seg_offset)

InSegments == pc = "segments" /\ at <= image.phnum

(* Where entry n of the program-header table is in the file. *)
HeaderBytes(n) ==
  image.phoff + (n - 1) * PhdrSize .. image.phoff + n * PhdrSize - 1

SkipSegment ==
  /\ InSegments
  /\ image.phdrs[at].type # "load"
  /\ read' = read \cup HeaderBytes(at)
  /\ at' = at + 1
  /\ UNCHANGED <<pc, attempts, image, memory, written>>

RejectSegment ==
  LET ph == image.phdrs[at] IN
  /\ InSegments
  /\ ph.type = "load"
  /\ ~(FileBytesInside(ph) /\ SegmentInside(ph))
  /\ pc' = "rejected"
  /\ read' = read \cup HeaderBytes(at)
  /\ UNCHANGED <<attempts, image, at, memory, written>>

(* Mutant of SegmentByte: bytes past the file's are left as they are. *)
SegmentByteFileOnly(ph, o) ==
  IF o < ph.filesz THEN File(ph.offset + o) ELSE memory[(ph.vaddr + o) % Words]

(* What the copy of a segment leaves at offset o of it. *)
SegmentByte(ph, o) == IF o < ph.filesz THEN File(ph.offset + o) ELSE Zero

LoadSegment ==
  LET ph == image.phdrs[at]
      addresses == ph.vaddr .. ph.vaddr + ph.memsz - 1
  IN
  /\ InSegments
  /\ ph.type = "load"
  /\ FileBytesInside(ph) /\ SegmentInside(ph)
  /\ memory' = [a \in Word |-> IF a \in addresses
                               THEN SegmentByte(ph, a - ph.vaddr)
                               ELSE memory[a]]
  /\ written' = written \cup addresses
  /\ read' = read \cup HeaderBytes(at)
                  \cup (ph.offset .. ph.offset + ph.filesz - 1)
  /\ at' = at + 1
  /\ UNCHANGED <<pc, attempts, image>>

SegmentsDone ==
  /\ pc = "segments"
  /\ at > image.phnum
  /\ pc' = "symbols"
  /\ at' = 1
  /\ UNCHANGED <<attempts, image, memory, written, read>>
-----------------------------------------------------------------------------
(* mktxlo_elf_find_symbol: the first one of the name; 0 stands for NULL. *)
FindSymbol(img, name) ==
  LET hits == {n \in 1 .. Len(img.symtab) : img.symtab[n].name = name}
  IN  IF hits = {} THEN 0 ELSE CHOOSE n \in hits : \A m \in hits : n <= m

(* The addresses that the s-th new value is written to. *)
Target(img, s) ==
  LET n == FindSymbol(img, img.symbols[s].name)
      value == img.symtab[n].value
  IN  IF n = 0 THEN {}
      ELSE {(value + j) % Words : j \in 0 .. img.symbols[s].data_len - 1}

InSymbols == pc = "symbols" /\ at <= Len(image.symbols)

(* Where the symbol is and how long its value: neither is checked. *)
PatchSymbol ==
  LET n == FindSymbol(image, image.symbols[at].name) IN
  /\ InSymbols
  /\ n # 0
  /\ memory' = [a \in Word |-> IF a \in Target(image, at)
                               THEN Value(at, Minus(a, image.symtab[n].value))
                               ELSE memory[a]]
  /\ written' = written \cup Target(image, at)
  /\ at' = at + 1
  /\ UNCHANGED <<pc, attempts, image, read>>

RejectSymbol ==
  /\ InSymbols
  /\ FindSymbol(image, image.symbols[at].name) = 0
  /\ pc' = "rejected"
  /\ UNCHANGED <<attempts, image, at, memory, written, read>>

SymbolsDone ==
  /\ pc = "symbols"
  /\ at > Len(image.symbols)
  /\ pc' = "loaded"
  /\ UNCHANGED <<attempts, image, at, memory, written, read>>

Next ==
  \/ \E img \in Images : BeginLoad(img)
  \/ CheckHeaders
  \/ SkipSegment \/ RejectSegment \/ LoadSegment \/ SegmentsDone
  \/ PatchSymbol \/ RejectSymbol \/ SymbolsDone

Spec == Init /\ [][Next]_vars
-----------------------------------------------------------------------------
(* Properties.                                                             *)

(* Every variable has its type. *)
TypeOK ==
  /\ pc \in {"idle", "headers", "segments", "symbols", "loaded", "rejected"}
  /\ attempts \in Nat /\ at \in Nat \ {0}
  /\ image \in Image
  /\ DOMAIN memory = Word
  /\ written \subseteq Word /\ read \subseteq Nat

(* Whatever the program headers say, and whatever wraps around, nothing is *)
(* written outside the region, for images whose symbols lie in it.  Of     *)
(* others this says nothing: a new value is written to the address that    *)
(* the ELF file gives, which mktxlo_client_patch_symbols does not check.   *)
WritesInside ==
  (\A s \in 1 .. Len(image.symbols) : Target(image, s) \subseteq Region)
    => written \subseteq Region

(* Neither the program-header table nor a segment is read past the end of  *)
(* the file as the image's own header gives it.                            *)
ReadsInside == read \subseteq 0 .. image.elf_size - 1

Loads(n) == image.phdrs[n].type = "load"
Covered(n) ==
  image.phdrs[n].vaddr .. image.phdrs[n].vaddr + image.phdrs[n].memsz - 1
Last(S) == CHOOSE n \in S : \A m \in S : m <= n

(* An accepted image is laid out as ELF has it, whatever an earlier or a   *)
(* rejected one left there: a word that gets a new symbol value has that,  *)
(* any other word of a segment the file's bytes or zero, of the last       *)
(* segment if they overlap, and all other words nothing of this image.     *)
LaidOut ==
  pc = "loaded" =>
    \A a \in Word :
      LET segments == {n \in 1 .. image.phnum : Loads(n) /\ a \in Covered(n)}
          symbols == {s \in 1 .. Len(image.symbols) : a \in Target(image, s)}
          ph == image.phdrs[Last(segments)]
          value == image.symtab[FindSymbol(image, image.symbols[Last(symbols)].name)].value
      IN  IF symbols # {} THEN memory[a] = Value(Last(symbols), Minus(a, value))
          ELSE IF segments # {} /\ a < ph.vaddr + ph.filesz
               THEN memory[a] = File(ph.offset + a - ph.vaddr)
          ELSE IF segments # {} THEN memory[a] = Zero
          ELSE memory[a][1] # attempts
=============================================================================

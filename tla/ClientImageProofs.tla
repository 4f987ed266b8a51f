------------------------- MODULE ClientImageProofs -------------------------
(***************************************************************************)
(* Theorems about ClientImage for every image, region and word width.      *)
(***************************************************************************)
EXTENDS ClientImage, NumberProofs, TLAPS

(* A subtraction that the code has checked first does not wrap around. *)
LEMMA MinusExact ==
  ASSUME NEW a \in Word, NEW b \in Word, b <= a
  PROVE  Minus(a, b) = a - b
<1>1. a - b \in 0 .. Words - 1
  BY WordsAssumption DEF Word
<1> QED
  BY <1>1, WordsAssumption DEF Minus

(* One that has not been checked is a word all the same. *)
LEMMA MinusWord ==
  ASSUME NEW a \in Word, NEW b \in Word
  PROVE  Minus(a, b) \in Word
BY WordsAssumption DEF Minus, Word

(* A segment that passes the checks lies in the region and in the file. *)
LEMMA SegmentFits ==
  ASSUME NEW ph \in Phdr, image \in Image, FileBytesInside(ph), SegmentInside(ph)
  PROVE  /\ ph.vaddr >= Base /\ ph.vaddr + ph.memsz <= Base + Size
         /\ ph.offset + ph.filesz <= image.elf_size
         /\ ph.filesz <= ph.memsz
<1>1. ph.vaddr \in Word /\ ph.memsz \in Word /\ ph.offset \in Word /\ ph.filesz \in Word
      /\ image.elf_size \in Word
  BY DEF Phdr, Image
<1>2. Base \in Word /\ Size \in Word
  BY RegionAssumption, WordsAssumption DEF Word
<1>3. Minus(ph.vaddr, Base) = ph.vaddr - Base
  BY <1>1, <1>2, MinusExact DEF SegmentInside
<1>4. ph.vaddr - Base \in Word
  BY <1>1, <1>2, <1>3, MinusWord
<1>5. Minus(Size, ph.vaddr - Base) = Size - (ph.vaddr - Base)
  BY <1>2, <1>3, <1>4, MinusExact DEF SegmentInside
<1>6. Minus(image.elf_size, ph.offset) = image.elf_size - ph.offset
  BY <1>1, MinusExact DEF FileBytesInside
<1>7. /\ ph.vaddr >= Base /\ ph.memsz <= Size - (ph.vaddr - Base)
      /\ ph.filesz <= ph.memsz /\ ph.filesz <= image.elf_size - ph.offset
  BY <1>3, <1>5, <1>6 DEF SegmentInside, FileBytesInside
<1> QED
  BY <1>1, <1>2, <1>7 DEF Word

LEMMA RegionInWord == Region \subseteq Word
BY RegionAssumption, WordsAssumption DEF Region, Word

LEMMA CurrentHeader ==
  ASSUME TypeOK, image \in Images, InSegments
  PROVE  at \in 1 .. image.phnum /\ image.phdrs[at] \in Phdr
<1>1. image.phnum \in Nat /\ image.phdrs \in Seq(Phdr)
  BY WordsAssumption DEF TypeOK, Image, Word
<1>2. image.phnum <= Len(image.phdrs)
  BY ImagesAssumption
<1> QED
  BY <1>1, <1>2 DEF TypeOK, InSegments

LEMMA TargetInWord ==
  ASSUME image \in Image, NEW s \in 1 .. Len(image.symbols)
  PROVE  Target(image, s) \subseteq Word
<1> DEFINE n == FindSymbol(image, image.symbols[s].name)
           value == image.symtab[n].value
<1>1. CASE n = 0
  BY <1>1 DEF Target
<1>2. CASE n # 0
  <2>1. n \in 1 .. Len(image.symtab)
    <3> DEFINE hits == {m \in 1 .. Len(image.symtab) :
                          image.symtab[m].name = image.symbols[s].name}
    <3>1. hits # {} /\ n = CHOOSE m \in hits : \A k \in hits : m <= k
      BY <1>2 DEF FindSymbol
    <3>2. hits \subseteq Nat
      OBVIOUS
    <3>3. n \in hits
      <4> HIDE DEF hits, n
      <4> QED
        BY <3>1, <3>2, LeastNumber
    <3> QED
      BY <3>3
  <2>2. value \in Word
    <3>1. image.symtab \in Seq(Symbol)
      BY DEF Image
    <3>2. image.symtab[n] \in Symbol
      BY <2>1, <3>1
    <3> QED
      BY <3>2 DEF Symbol
  <2>3. image.symbols[s].data_len \in Nat
    <3>1. image.symbols \in Seq(NewValue)
      BY DEF Image
    <3>2. image.symbols[s] \in NewValue
      BY <3>1
    <3> QED
      BY <3>2 DEF NewValue, Word
  <2>4. Target(image, s) =
          {(value + j) % Words : j \in 0 .. image.symbols[s].data_len - 1}
    BY <1>2 DEF Target
  <2>5. \A j \in 0 .. image.symbols[s].data_len - 1 : (value + j) % Words \in Word
    <3> HIDE DEF value
    <3> QED
      BY <2>2, <2>3, WordsAssumption DEF Word
  <2> QED
    BY <2>4, <2>5
<1> QED
  BY <1>1, <1>2

(* The program-header table, as far as it is read, lies in the file. *)
LEMMA HeaderInFile ==
  ASSUME image \in Image, TableFits, NEW n \in 1 .. image.phnum
  PROVE  HeaderBytes(n) \subseteq 0 .. image.elf_size - 1
<1>1. image.phoff \in Word /\ image.phnum \in Word /\ image.elf_size \in Word
  BY DEF Image
<1>2. image.phnum <= (image.elf_size - image.phoff) \div PhdrSize
  BY <1>1, MinusExact DEF TableFits
<1>3. image.phnum * PhdrSize <= image.elf_size - image.phoff
  <2>1. image.elf_size - image.phoff \in Nat /\ image.phnum \in Nat
    BY <1>1, WordsAssumption DEF TableFits, Word
  <2> QED
    BY <1>2, <2>1, QuotientBound, PhdrSizeAssumption
<1>4. 0 <= (n - 1) * PhdrSize /\ n * PhdrSize <= image.phnum * PhdrSize
  BY <1>1, PhdrSizeAssumption, WordsAssumption DEF Word
<1>5. image.phoff \in Nat /\ image.elf_size \in Nat
      /\ (n - 1) * PhdrSize \in Int /\ n * PhdrSize \in Int
  BY <1>1, PhdrSizeAssumption, WordsAssumption DEF Word
<1>6. HeaderBytes(n) = image.phoff + (n - 1) * PhdrSize .. image.phoff + n * PhdrSize - 1
  BY DEF HeaderBytes
<1> DEFINE first == (n - 1) * PhdrSize
           next == n * PhdrSize
           all == image.phnum * PhdrSize
<1>7. first \in Nat /\ next \in Int /\ next <= all /\ all <= image.elf_size - image.phoff
      /\ all \in Int
  BY <1>1, <1>3, <1>4, <1>5, PhdrSizeAssumption, WordsAssumption DEF Word
<1>8. image.phoff + first .. image.phoff + next - 1 \subseteq 0 .. image.elf_size - 1
  <2> HIDE DEF first, next, all
  <2> QED
    BY <1>5, <1>7
<1> QED
  BY <1>6, <1>8

(* The checks in the order of the code make each read and each write of a  *)
(* segment safe; what the symbols are given is written to their targets.   *)
LoadInv ==
  /\ image \in Images
  /\ pc = "segments" => TableFits
  /\ ReadsInside
  /\ pc \in {"idle", "headers", "segments"} => written \subseteq Region
  /\ written \subseteq
       Region \cup UNION {Target(image, s) : s \in 1 .. Len(image.symbols)}

LEMMA LoadSegmentStep ==
  ASSUME TypeOK, LoadInv, LoadSegment
  PROVE  TypeOK' /\ LoadInv'
<1> DEFINE ph == image.phdrs[at]
<1>1. at \in 1 .. image.phnum /\ ph \in Phdr /\ image \in Image
  BY CurrentHeader DEF LoadSegment, LoadInv, TypeOK
<1>2. HeaderBytes(at) \subseteq 0 .. image.elf_size - 1
  BY <1>1, HeaderInFile DEF LoadSegment, InSegments, LoadInv
<1>3. /\ ph.vaddr >= Base /\ ph.vaddr + ph.memsz <= Base + Size
      /\ ph.offset + ph.filesz <= image.elf_size
  BY <1>1, SegmentFits DEF LoadSegment
<1>4. /\ ph.vaddr \in Nat /\ ph.memsz \in Nat /\ ph.offset \in Nat
      /\ ph.filesz \in Nat /\ image.elf_size \in Nat
  <2>1. Word \subseteq Nat
    BY WordsAssumption DEF Word
  <2>2. image.elf_size \in Word
    BY <1>1 DEF Image
  <2> HIDE DEF ph
  <2> QED
    BY <1>1, <2>1, <2>2 DEF Phdr
<1>5. /\ ph.vaddr .. ph.vaddr + ph.memsz - 1 \subseteq Region
      /\ ph.offset .. ph.offset + ph.filesz - 1 \subseteq 0 .. image.elf_size - 1
  <2> HIDE DEF ph
  <2> QED
    BY <1>3, <1>4, RegionAssumption DEF Region
<1>6. written' \subseteq Region
  BY <1>5 DEF LoadSegment, InSegments, LoadInv
<1>7. read' \subseteq 0 .. image.elf_size - 1
  BY <1>2, <1>5 DEF LoadSegment, LoadInv, ReadsInside
<1>8. TypeOK'
  BY <1>4, <1>6, <1>7, RegionInWord DEF TypeOK, LoadSegment
<1> QED
  BY <1>6, <1>7, <1>8 DEF LoadSegment, InSegments, LoadInv, ReadsInside, TableFits

LEMMA LoadStep ==
  ASSUME TypeOK, LoadInv, [Next]_vars
  PROVE  TypeOK' /\ LoadInv'
<1> USE DEF TypeOK, LoadInv, ReadsInside, TableFits
<1>1. ASSUME NEW img \in Images, BeginLoad(img)
      PROVE  TypeOK' /\ LoadInv'
  BY <1>1, ImagesAssumption DEF BeginLoad
<1>2. CASE CheckHeaders
  BY <1>2 DEF CheckHeaders
<1>3. CASE SkipSegment \/ RejectSegment
  <2>1. InSegments
    BY <1>3 DEF SkipSegment, RejectSegment
  <2>2. HeaderBytes(at) \subseteq 0 .. image.elf_size - 1
    <3>1. at \in 1 .. image.phnum
      BY <2>1, CurrentHeader
    <3>2. TableFits
      BY <2>1 DEF InSegments
    <3> HIDE DEF TableFits
    <3> QED
      BY <3>1, <3>2, HeaderInFile
  <2>3. read' \subseteq 0 .. image.elf_size - 1 /\ read' \subseteq Nat
    <3>1. read' = read \cup HeaderBytes(at)
      BY <1>3 DEF SkipSegment, RejectSegment
    <3>2. read \subseteq 0 .. image.elf_size - 1
      OBVIOUS
    <3>3. 0 .. image.elf_size - 1 \subseteq Nat
      <4>1. image.elf_size \in Word
        BY DEF Image
      <4> QED
        BY <4>1, WordsAssumption DEF Word
    <3> QED
      BY <2>2, <3>1, <3>2, <3>3
  <2> QED
    BY <1>3, <2>1, <2>3 DEF SkipSegment, RejectSegment, InSegments
<1>4. CASE SegmentsDone
  BY <1>4 DEF SegmentsDone
<1>5. CASE PatchSymbol
  <2>1. at \in 1 .. Len(image.symbols)
    BY <1>5 DEF PatchSymbol, InSymbols, Image
  <2>2. written' = written \cup Target(image, at)
    BY <1>5 DEF PatchSymbol
  <2>3. Target(image, at) \subseteq Word
    BY <2>1, TargetInWord
  <2> QED
    BY <1>5, <2>1, <2>2, <2>3 DEF PatchSymbol, InSymbols
<1>6. CASE RejectSymbol \/ SymbolsDone
  BY <1>6 DEF RejectSymbol, SymbolsDone, InSymbols
<1>7. CASE UNCHANGED vars
  BY <1>7 DEF vars
<1> QED
  BY <1>1, <1>2, <1>3, LoadSegmentStep, <1>4, <1>5, <1>6, <1>7 DEF Next

LEMMA LoadInit == Init => TypeOK /\ LoadInv
<1> SUFFICES ASSUME Init PROVE TypeOK /\ LoadInv
  OBVIOUS
<1>1. image \in Images /\ image \in Image
  BY ImagesAssumption DEF Init
<1> QED
  BY <1>1 DEF Init, TypeOK, LoadInv, ReadsInside

LEMMA LoadInvariant == Spec => [](TypeOK /\ LoadInv)
<1>1. (TypeOK /\ LoadInv) /\ [Next]_vars => (TypeOK /\ LoadInv)'
  BY LoadStep
<1> QED
  BY <1>1, LoadInit, PTL DEF Spec

(* Types, which for written says that no address wraps around. *)
THEOREM ImageTypeCorrect == Spec => []TypeOK
BY LoadInvariant, PTL

(* No load segment of any image, accepted or rejected half way, is written *)
(* outside the region.                                                     *)
THEOREM NeverOutside == Spec => []WritesInside
<1>1. LoadInv => WritesInside
  BY DEF LoadInv, WritesInside
<1> QED
  BY <1>1, LoadInvariant, PTL

(* No image makes the loader read past the end of the ELF file. *)
THEOREM NeverPastFile == Spec => []ReadsInside
<1>1. LoadInv => ReadsInside
  BY DEF LoadInv
<1> QED
  BY <1>1, LoadInvariant, PTL
-----------------------------------------------------------------------------
(* What is where.  LaidOut speaks of an image that is loaded; its          *)
(* strengthening speaks of the segments, then of the symbols, that the     *)
(* loops have passed, and of the attempt that each byte comes from.        *)
SegmentsBefore(a, n) == {m \in 1 .. n - 1 : Loads(m) /\ a \in Covered(m)}
SymbolsBefore(a, n) == {s \in 1 .. n - 1 : a \in Target(image, s)}

(* Word a as the last of the segments S leaves it. *)
LaidBySegments(a, S) ==
  LET ph == image.phdrs[Last(S)] IN
  IF S # {} /\ a < ph.vaddr + ph.filesz
  THEN memory[a] = File(ph.offset + a - ph.vaddr)
  ELSE IF S # {} THEN memory[a] = Zero
  ELSE memory[a][1] # attempts

(* Word a as the last of the symbols T leaves it, or else the segments. *)
LaidBySymbols(a, S, T) ==
  LET value == image.symtab[FindSymbol(image, image.symbols[Last(T)].name)].value
  IN  IF T # {} THEN memory[a] = Value(Last(T), Minus(a, value))
      ELSE LaidBySegments(a, S)

AllSegments(a) == SegmentsBefore(a, image.phnum + 1)
AllSymbols(a) == SymbolsBefore(a, Len(image.symbols) + 1)

LayoutInv ==
  /\ \A a \in Word : memory[a][1] \in 0 .. attempts
  /\ pc = "headers" => at = 1 /\ \A a \in Word : memory[a][1] # attempts
  /\ pc = "segments" =>
       /\ at <= image.phnum + 1
       /\ \A a \in Word : LaidBySegments(a, SegmentsBefore(a, at))
  /\ pc = "symbols" =>
       /\ at <= Len(image.symbols) + 1
       /\ \A a \in Word : LaidBySymbols(a, AllSegments(a), SymbolsBefore(a, at))
  /\ pc = "loaded" =>
       \A a \in Word : LaidBySymbols(a, AllSegments(a), AllSymbols(a))

LEMMA LastIs ==
  ASSUME NEW S, S \subseteq Int, NEW n \in S, \A m \in S : m <= n
  PROVE  Last(S) = n
<1>1. \A k \in S : (\A m \in S : m <= k) => k = n
  OBVIOUS
<1> QED
  BY <1>1 DEF Last

(* One more turn of either loop. *)
LEMMA SegmentsGrow ==
  ASSUME NEW a, NEW n \in Nat \ {0}
  PROVE  /\ Loads(n) /\ a \in Covered(n) =>
              SegmentsBefore(a, n + 1) # {} /\ Last(SegmentsBefore(a, n + 1)) = n
         /\ ~ (Loads(n) /\ a \in Covered(n)) =>
              SegmentsBefore(a, n + 1) = SegmentsBefore(a, n)
<1> DEFINE S == SegmentsBefore(a, n + 1)
<1>1. ASSUME Loads(n), a \in Covered(n)
      PROVE  S # {} /\ Last(S) = n
  <2>1. S \subseteq Int /\ n \in S /\ \A m \in S : m <= n
    BY <1>1 DEF SegmentsBefore
  <2> HIDE DEF S
  <2> QED
    BY <2>1, LastIs
<1>2. ASSUME ~ (Loads(n) /\ a \in Covered(n))
      PROVE  S = SegmentsBefore(a, n)
  BY <1>2 DEF SegmentsBefore
<1> QED
  BY <1>1, <1>2

LEMMA SymbolsGrow ==
  ASSUME NEW a, NEW n \in Nat \ {0}
  PROVE  /\ a \in Target(image, n) =>
              SymbolsBefore(a, n + 1) # {} /\ Last(SymbolsBefore(a, n + 1)) = n
         /\ a \notin Target(image, n) =>
              SymbolsBefore(a, n + 1) = SymbolsBefore(a, n)
<1> DEFINE S == SymbolsBefore(a, n + 1)
<1>1. ASSUME a \in Target(image, n)
      PROVE  S # {} /\ Last(S) = n
  <2>1. S \subseteq Int /\ n \in S /\ \A m \in S : m <= n
    BY <1>1 DEF SymbolsBefore
  <2> HIDE DEF S
  <2> QED
    BY <2>1, LastIs
<1>2. ASSUME a \notin Target(image, n)
      PROVE  S = SymbolsBefore(a, n)
  BY <1>2 DEF SymbolsBefore
<1> QED
  BY <1>1, <1>2

LEMMA LoadSegmentLays ==
  ASSUME TypeOK, LoadInv, LayoutInv, LoadSegment
  PROVE  LayoutInv'
<1> DEFINE ph == image.phdrs[at]
<1>1. at \in 1 .. image.phnum /\ ph \in Phdr /\ image \in Image
  BY CurrentHeader DEF LoadSegment, LoadInv, TypeOK
<1>2. ph.vaddr \in Int /\ ph.memsz \in Int /\ ph.filesz \in Int /\ ph.offset \in Int
  <2>1. Word \subseteq Int
    BY DEF Word
  <2> HIDE DEF ph
  <2> QED
    BY <1>1, <2>1 DEF Phdr
<1>3. /\ pc' = "segments" /\ pc = "segments" /\ at' = at + 1 /\ image' = image
      /\ attempts' = attempts /\ Loads(at) /\ attempts \in Nat
      /\ \A a \in Word : memory'[a] = IF a \in Covered(at)
                                      THEN SegmentByte(ph, a - ph.vaddr)
                                      ELSE memory[a]
  BY DEF LoadSegment, InSegments, Loads, Covered, TypeOK
<1>4. ASSUME NEW a \in Word
      PROVE  memory'[a][1] \in 0 .. attempts
  <2>1. memory[a][1] \in 0 .. attempts
    BY DEF LayoutInv
  <2>2. \A o : File(o)[1] = attempts /\ Zero[1] = 0
    BY DEF File, Zero
  <2>3. SegmentByte(ph, a - ph.vaddr)[1] \in {0, attempts}
    BY <2>2 DEF SegmentByte
  <2> HIDE DEF ph
  <2> QED
    BY <1>3, <2>1, <2>3
<1>5. ASSUME NEW a \in Word
      PROVE  LaidBySegments(a, SegmentsBefore(a, at))'
  <2> DEFINE S == SegmentsBefore(a, at + 1)
  <2>1. SegmentsBefore(a, at)' = S
    BY <1>3 DEF SegmentsBefore, Loads, Covered
  <2>2. at \in Nat \ {0} /\ a \in Int
    BY DEF TypeOK, Word
  <2>3. CASE a \in Covered(at)
    <3>1. S # {} /\ Last(S) = at
      BY <1>3, <2>2, <2>3, SegmentsGrow
    <3>2. memory'[a] = SegmentByte(ph, a - ph.vaddr)
      BY <1>3, <2>3
    <3>3. a - ph.vaddr < ph.filesz <=> a < ph.vaddr + ph.filesz
      <4> HIDE DEF ph
      <4> QED
        BY <1>2, <2>2
    <3>4. ph.offset + (a - ph.vaddr) = ph.offset + a - ph.vaddr
      <4> HIDE DEF ph
      <4> QED
        BY <1>2, <2>2
    <3>5. memory'[a] = IF a < ph.vaddr + ph.filesz
                       THEN File(ph.offset + a - ph.vaddr) ELSE Zero
      BY <3>2, <3>3, <3>4 DEF SegmentByte
    <3> HIDE DEF S
    <3> QED
      BY <1>3, <2>1, <3>1, <3>5 DEF LaidBySegments, File, Zero
  <2>4. CASE a \notin Covered(at)
    <3>1. S = SegmentsBefore(a, at)
      BY <2>2, <2>4, SegmentsGrow
    <3>2. memory'[a] = memory[a]
      BY <1>3, <2>4
    <3>3. LaidBySegments(a, S)
      BY <1>3, <3>1 DEF LayoutInv
    <3> HIDE DEF S
    <3> QED
      BY <1>3, <2>1, <3>2, <3>3 DEF LaidBySegments, File, Zero
  <2> QED
    BY <2>3, <2>4
<1>6. at' <= image'.phnum + 1
  <2>1. image.phnum \in Int
    BY <1>1 DEF Image, Word
  <2> QED
    BY <1>1, <1>3, <2>1
<1> QED
  BY <1>3, <1>4, <1>5, <1>6 DEF LayoutInv

LEMMA PatchSymbolLays ==
  ASSUME TypeOK, LoadInv, LayoutInv, PatchSymbol
  PROVE  LayoutInv'
<1> DEFINE name == image.symbols[at].name
           base == image.symtab[FindSymbol(image, name)].value
<1>1. /\ pc' = "symbols" /\ pc = "symbols" /\ at' = at + 1 /\ image' = image
      /\ attempts' = attempts /\ attempts \in Nat /\ at \in Nat \ {0}
      /\ \A a \in Word : memory'[a] = IF a \in Target(image, at)
                                      THEN Value(at, Minus(a, base))
                                      ELSE memory[a]
  BY DEF PatchSymbol, InSymbols, TypeOK
<1>2. ASSUME NEW a \in Word
      PROVE  memory'[a][1] \in 0 .. attempts
  <2>1. memory[a][1] \in 0 .. attempts
    BY DEF LayoutInv
  <2>2. Value(at, Minus(a, base))[1] = attempts
    BY DEF Value
  <2> HIDE DEF base
  <2> QED
    BY <1>1, <2>1, <2>2
<1>3. ASSUME NEW a \in Word
      PROVE  LaidBySymbols(a, AllSegments(a), SymbolsBefore(a, at))'
  <2> DEFINE S == AllSegments(a)
             T == SymbolsBefore(a, at + 1)
  <2>1. SymbolsBefore(a, at)' = T /\ AllSegments(a)' = S
    BY <1>1 DEF SymbolsBefore, AllSegments, SegmentsBefore, Loads, Covered, Target
  <2>2. CASE a \in Target(image, at)
    <3>1. T # {} /\ Last(T) = at
      BY <1>1, <2>2, SymbolsGrow
    <3>2. memory'[a] = Value(at, Minus(a, base))
      BY <1>1, <2>2
    <3> HIDE DEF S, T
    <3> QED
      BY <1>1, <2>1, <3>1, <3>2 DEF LaidBySymbols, Value
  <2>3. CASE a \notin Target(image, at)
    <3>1. T = SymbolsBefore(a, at)
      BY <1>1, <2>3, SymbolsGrow
    <3>2. memory'[a] = memory[a]
      BY <1>1, <2>3
    <3>3. LaidBySymbols(a, S, T)
      BY <1>1, <3>1 DEF LayoutInv
    <3> HIDE DEF S, T
    <3> QED
      BY <1>1, <2>1, <3>2, <3>3 DEF LaidBySymbols, LaidBySegments, Value, File, Zero
  <2> QED
    BY <2>2, <2>3
<1>4. at' <= Len(image'.symbols) + 1
  <2>1. Len(image.symbols) \in Nat
    BY DEF TypeOK, Image
  <2> QED
    BY <1>1, <2>1 DEF PatchSymbol, InSymbols
<1> QED
  BY <1>1, <1>2, <1>3, <1>4 DEF LayoutInv

LEMMA LayoutStep ==
  ASSUME TypeOK, LoadInv, LayoutInv, [Next]_vars
  PROVE  LayoutInv'
<1>1. ASSUME NEW img \in Images, BeginLoad(img)
      PROVE  LayoutInv'
  BY <1>1 DEF BeginLoad, LayoutInv, TypeOK
<1>2. CASE CheckHeaders
  <2>1. memory' = memory /\ image' = image /\ attempts' = attempts /\ at' = at
        /\ pc = "headers" /\ pc' \in {"segments", "rejected"}
    BY <1>2 DEF CheckHeaders
  <2>2. at = 1 /\ \A a \in Word : memory[a][1] # attempts
    BY <2>1 DEF LayoutInv
  <2>3. at <= image.phnum + 1
    BY <2>2, WordsAssumption DEF TypeOK, Image, Word
  <2>4. ASSUME NEW a \in Word
        PROVE  LaidBySegments(a, SegmentsBefore(a, at))'
    BY <2>1, <2>2 DEF LaidBySegments, SegmentsBefore
  <2> QED
    BY <2>1, <2>2, <2>3, <2>4 DEF LayoutInv
<1>3. CASE SkipSegment
  <2>1. memory' = memory /\ image' = image /\ attempts' = attempts
        /\ at' = at + 1 /\ pc = "segments" /\ pc' = "segments" /\ ~ Loads(at)
    BY <1>3 DEF SkipSegment, InSegments, Loads
  <2>2. at \in Nat \ {0} /\ at + 1 <= image.phnum + 1
    BY <1>3 DEF SkipSegment, InSegments, TypeOK, Image, Word
  <2>3. ASSUME NEW a \in Word
        PROVE  LaidBySegments(a, SegmentsBefore(a, at))'
    <3>1. SegmentsBefore(a, at)' = SegmentsBefore(a, at)
      <4>1. SegmentsBefore(a, at)' = SegmentsBefore(a, at + 1)
        BY <2>1 DEF SegmentsBefore, Loads, Covered
      <4> QED
        BY <2>1, <2>2, <4>1, SegmentsGrow
    <3>2. LaidBySegments(a, SegmentsBefore(a, at))
      BY <2>1 DEF LayoutInv
    <3> QED
      BY <2>1, <3>1, <3>2 DEF LaidBySegments, File, Zero
  <2> QED
    BY <2>1, <2>2, <2>3 DEF LayoutInv
<1>4. CASE SegmentsDone
  <2>1. memory' = memory /\ image' = image /\ attempts' = attempts
        /\ at' = 1 /\ pc = "segments" /\ pc' = "symbols" /\ at > image.phnum
    BY <1>4 DEF SegmentsDone
  <2>2. at = image.phnum + 1
    BY <2>1 DEF LayoutInv, TypeOK, Image, Word
  <2>3. ASSUME NEW a \in Word
        PROVE  LaidBySymbols(a, AllSegments(a), SymbolsBefore(a, at))'
    <3>1. SymbolsBefore(a, at)' = {}
      BY <2>1 DEF SymbolsBefore
    <3>2. AllSegments(a)' = SegmentsBefore(a, at)
      BY <2>1, <2>2 DEF AllSegments, SegmentsBefore, Loads, Covered
    <3>3. LaidBySegments(a, SegmentsBefore(a, at))
      BY <2>1 DEF LayoutInv
    <3> QED
      BY <2>1, <3>1, <3>2, <3>3 DEF LaidBySymbols, LaidBySegments, File, Zero
  <2>4. Len(image.symbols) \in Nat
    BY DEF TypeOK, Image
  <2> QED
    BY <2>1, <2>3, <2>4 DEF LayoutInv
<1>5. CASE SymbolsDone
  <2>1. memory' = memory /\ image' = image /\ attempts' = attempts
        /\ pc = "symbols" /\ pc' = "loaded" /\ at > Len(image.symbols)
    BY <1>5 DEF SymbolsDone
  <2>2. at = Len(image.symbols) + 1
    <3>1. Len(image.symbols) \in Nat /\ at \in Nat
      BY DEF TypeOK, Image
    <3> QED
      BY <2>1, <3>1 DEF LayoutInv
  <2>3. ASSUME NEW a \in Word
        PROVE  LaidBySymbols(a, AllSegments(a), AllSymbols(a))'
    <3>1. /\ AllSymbols(a)' = SymbolsBefore(a, at)
          /\ AllSegments(a)' = AllSegments(a)
      BY <2>1, <2>2
      DEF AllSymbols, SymbolsBefore, Target, AllSegments, SegmentsBefore, Loads, Covered
    <3>2. LaidBySymbols(a, AllSegments(a), SymbolsBefore(a, at))
      BY <2>1 DEF LayoutInv
    <3> QED
      BY <2>1, <3>1, <3>2 DEF LaidBySymbols, LaidBySegments, Value, File, Zero
  <2> QED
    BY <2>1, <2>3 DEF LayoutInv
<1>6. CASE RejectSegment \/ RejectSymbol
  BY <1>6 DEF RejectSegment, RejectSymbol, LayoutInv
<1>7. CASE UNCHANGED vars
  <2>1. /\ pc' = pc /\ attempts' = attempts /\ image' = image /\ at' = at
        /\ memory' = memory
    BY <1>7 DEF vars
  <2>2. ASSUME NEW a \in Word, NEW n
        PROVE  /\ SegmentsBefore(a, n)' = SegmentsBefore(a, n)
               /\ SymbolsBefore(a, n)' = SymbolsBefore(a, n)
    BY <2>1 DEF SegmentsBefore, SymbolsBefore, Loads, Covered, Target
  <2>3. ASSUME NEW a \in Word, NEW S, NEW T
        PROVE  /\ LaidBySegments(a, S)' = LaidBySegments(a, S)
               /\ LaidBySymbols(a, S, T)' = LaidBySymbols(a, S, T)
    BY <2>1 DEF LaidBySymbols, LaidBySegments, Value, File, Zero
  <2> QED
    BY <2>1, <2>2, <2>3 DEF LayoutInv, AllSegments, AllSymbols
<1> QED
  BY <1>1, <1>2, <1>3, <1>4, <1>5, <1>6, <1>7, LoadSegmentLays, PatchSymbolLays
  DEF Next

(* Every accepted image is laid out as ELF has it: for any number of       *)
(* segments and symbols, in any order, overlapping in any way, and over    *)
(* whatever earlier images left behind.                                    *)
THEOREM LaidOutAsElfHasIt == Spec => []LaidOut
<1>1. Init => LayoutInv
  BY DEF Init, LayoutInv, Unknown
<1>2. TypeOK /\ LoadInv /\ LayoutInv /\ [Next]_vars => LayoutInv'
  BY LayoutStep
<1>3. TypeOK /\ LayoutInv => LaidOut
  <2> SUFFICES ASSUME TypeOK, LayoutInv, pc = "loaded"
               PROVE  LaidOut
    BY DEF LaidOut
  <2>1. image.phnum \in Nat /\ Len(image.symbols) \in Nat
    BY WordsAssumption DEF TypeOK, Image, Word
  <2>2. ASSUME NEW a \in Word
        PROVE  /\ AllSegments(a) =
                     {n \in 1 .. image.phnum : Loads(n) /\ a \in Covered(n)}
               /\ AllSymbols(a) =
                     {s \in 1 .. Len(image.symbols) : a \in Target(image, s)}
    BY <2>1 DEF AllSegments, SegmentsBefore, AllSymbols, SymbolsBefore
  <2>3. ASSUME NEW a \in Word
        PROVE  LaidBySymbols(a, AllSegments(a), AllSymbols(a))
    BY DEF LayoutInv
  <2> QED
    BY <2>2, <2>3 DEF LaidOut, LaidBySymbols, LaidBySegments
<1> QED
  BY <1>1, <1>2, <1>3, LoadInvariant, PTL DEF Spec
=============================================================================

--------------------------- MODULE MCClientImage ---------------------------
(***************************************************************************)
(* Small instances of ClientImage: sixteen words, a region of four at 10,  *)
(* files of eight.                                                         *)
(***************************************************************************)
EXTENDS ClientImage

P(type, offset, vaddr, filesz, memsz) ==
  [type |-> type, offset |-> offset, vaddr |-> vaddr, filesz |-> filesz,
   memsz |-> memsz]
Img(entry, phoff, phentsize, phnum, phdrs, symtab, symbols) ==
  [elf_size |-> 8, entry |-> entry, phoff |-> phoff, phentsize |-> phentsize,
   phnum |-> phnum, phdrs |-> phdrs, symtab |-> symtab, symbols |-> symbols]

(* A segment of any shape: in the region, below it, past its end, with     *)
(* sizes that wrap around when added to an offset.                         *)
AnySegment ==
  {P("load", o, v, f, m) : o \in {0, 7, 15}, v \in {9, 10, 12, 14, 15},
                           f \in {0, 1, 2, 9}, m \in {0, 2, 4, 12}}
    \cup {P("other", 15, 0, 15, 15)}

(* It comes before and after another one; and headers of any shape.        *)
Second == P("load", 1, 12, 1, 1)
AnyHeaders ==
  {Img(10, 4, 2, 2, phdrs, <<>>, <<>>) :
     phdrs \in UNION {{<<p, Second>>, <<Second, p>>} : p \in AnySegment}}
    \cup {Img(entry, phoff, phentsize, phnum, <<Second, Second>>, <<>>, <<>>) :
            entry \in {9, 10, 13, 14}, phoff \in {0, 4, 5, 8, 9},
            phentsize \in {1, 2}, phnum \in 0 .. 2}

Sym(name, value) == [name |-> name, value |-> value]
New(name, data_len) == [name |-> name, data_len |-> data_len]

(* Images that overlap themselves and each other, with symbols that are    *)
(* found, found twice, missing, longer than they should be, or outside.    *)
Overlapping ==
  {Img(10, 0, 2, Len(phdrs), phdrs, <<Sym("x", 11), Sym("y", 13), Sym("x", 10)>>, symbols) :
     phdrs \in {<<P("load", 4, 10, 2, 4)>>,
                <<P("load", 0, 10, 1, 1), P("load", 4, 11, 1, 2)>>,
                <<P("load", 0, 10, 3, 3), P("load", 4, 11, 1, 3)>>,
                <<P("load", 0, 12, 1, 2), P("load", 0, 10, 1, 9)>>},
     symbols \in {<<>>, <<New("x", 2)>>, <<New("y", 2), New("x", 1)>>,
                  <<New("x", 2), New("z", 1)>>, <<New("x", 2), New("x", 1)>>}}

MCImages == AnyHeaders \cup Overlapping
=============================================================================

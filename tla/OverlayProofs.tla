--------------------------- MODULE OverlayProofs ---------------------------
(* Proofs about Overlay: for every width of an immediate, every well-formed
   overlay and every place it may be loaded to, relocation in place makes of it
   what the linker would have made, and that is what the processor executes. *)
EXTENDS Overlay, TLAPS

-----------------------------------------------------------------------------
(* Arithmetic: a number is put together from its quotient and its remainder, in
   one way only.                                                             *)
LEMMA Division ==
    ASSUME NEW x \in Nat
    PROVE  /\ x \div Half \in Nat
           /\ x % Half \in 0 .. Half - 1
           /\ x = Half * (x \div Half) + (x % Half)
BY WidthAssumption

LEMMA Monotone ==
    ASSUME NEW a \in Nat, NEW b \in Nat, a >= b
    PROVE  Half * a >= Half * b
<1> DEFINE d == a - b
<1>1. d \in Nat /\ a = b + d
  OBVIOUS
<1>2. Half * d \in Nat
  BY <1>1, WidthAssumption
<1>3. Half * (b + d) = Half * b + Half * d
  BY <1>1, WidthAssumption
<1> QED BY <1>1, <1>2, <1>3, WidthAssumption

LEMMA OneMore ==
    ASSUME NEW a \in Nat
    PROVE  Half * (a + 1) = Half * a + Half /\ Half * a \in Nat /\ Half \in Nat
BY WidthAssumption

LEMMA DivisionUnique ==
    ASSUME NEW q \in Nat, NEW r \in 0 .. Half - 1
    PROVE  (Half * q + r) \div Half = q
<1> DEFINE x == Half * q + r
<1>1. x \in Nat
  BY WidthAssumption
<1>2. /\ x \div Half \in Nat /\ x % Half \in 0 .. Half - 1
      /\ x = Half * (x \div Half) + (x % Half)
  BY <1>1, Division
<1> HIDE DEF x
<1> DEFINE d == x \div Half
           m == x % Half
<1>3. d \in Nat /\ m \in 0 .. Half - 1 /\ Half * q + r = Half * d + m
  BY <1>2 DEF x
<1> HIDE DEF d, m
<1> DEFINE a == Half * q
           b == Half * d
<1>4. a \in Nat /\ b \in Nat /\ Half \in Nat /\ a + r = b + m
  BY <1>3, OneMore
<1>5. d > q => b >= a + Half
  BY <1>3, OneMore, Monotone
<1>6. d < q => a >= b + Half
  BY <1>3, OneMore, Monotone
<1>7. d = q
  <2> HIDE DEF a, b
  <2> QED BY <1>3, <1>4, <1>5, <1>6
<1> QED BY <1>7 DEF x, d

(* The upper half a linker puts into a LUI is the one DoRelocation computes. *)
LEMMA HiCarries ==
    ASSUME NEW x \in Nat
    PROVE  Hi(x) = x \div Half + IF 2 * (x % Half) >= Half THEN 1 ELSE 0
<1> DEFINE q == x \div Half
           r == x % Half
           m == Half \div 2
<1>1. /\ q \in Nat /\ r \in 0 .. Half - 1 /\ x = Half * q + r
  BY Division
<1>2. m \in Nat /\ Half = 2 * m
  BY WidthAssumption
<1>3. CASE 2 * r >= Half
  <2>1. x + m = Half * (q + 1) + (r - m)
    <3>1. Half * (q + 1) = Half * q + Half
      BY <1>1, WidthAssumption
    <3> QED BY <3>1, <1>1, <1>2, WidthAssumption
  <2>2. r - m \in 0 .. Half - 1 /\ q + 1 \in Nat
    BY <1>1, <1>2, <1>3, WidthAssumption
  <2>3. (x + m) \div Half = q + 1
    <3> HIDE DEF q, r, m
    <3> QED BY <2>1, <2>2, DivisionUnique
  <2> QED BY <2>3, <1>3 DEF Hi
<1>4. CASE ~(2 * r >= Half)
  <2>1. x + m = Half * q + (r + m)
    BY <1>1, <1>2, WidthAssumption
  <2>2. r + m \in 0 .. Half - 1
    BY <1>1, <1>2, <1>4, WidthAssumption
  <2>3. (x + m) \div Half = q
    <3> HIDE DEF q, r, m
    <3> QED BY <2>1, <2>2, <1>1, DivisionUnique
  <2> QED BY <2>3, <1>1, <1>4 DEF Hi
<1> QED BY <1>3, <1>4

(* A pair of halves makes up the address it was made from. *)
LEMMA HalvesMeet ==
    ASSUME NEW x \in Nat
    PROVE  /\ Hi(x) \in Nat /\ Lo(x) \in 0 .. Half - 1
           /\ Signed(Lo(x)) \in Int
           /\ 2 * Signed(Lo(x)) \in -Half .. Half
           /\ Hi(x) * Half + Signed(Lo(x)) = x
<1>1. /\ x \div Half \in Nat /\ x % Half \in 0 .. Half - 1
      /\ x = Half * (x \div Half) + (x % Half)
  BY Division
<1>2. Hi(x) = x \div Half + IF 2 * (x % Half) >= Half THEN 1 ELSE 0
  BY HiCarries
<1>3. /\ (x \div Half) * Half = Half * (x \div Half)
      /\ (x \div Half + 1) * Half = Half * (x \div Half) + Half
  BY <1>1, WidthAssumption
<1>4. CASE 2 * (x % Half) >= Half
  BY <1>1, <1>2, <1>3, <1>4, WidthAssumption DEF Lo, Signed
<1>5. CASE ~(2 * (x % Half) >= Half)
  BY <1>1, <1>2, <1>3, <1>5, WidthAssumption DEF Lo, Signed
<1> QED BY <1>4, <1>5

-----------------------------------------------------------------------------
(* What WellFormed says of an entry of the table of an image. *)
LEMMA ImageTypes ==
    ASSUME NEW img \in Images, NEW addr \in Allocs
    PROVE  /\ img.words \in Seq(SymbolicWords)
           /\ img.bss \in Nat /\ img.text \in Nat /\ img.data \in Nat /\ img.vram \in Nat
           /\ img.text <= Len(img.words)
           /\ img.table \in Seq(Relocations)
           /\ Region(img, addr) \subseteq Ram
           /\ addr \in Nat
           /\ FileAt(img, addr) \subseteq Ram
           /\ TextAt(img, addr) \subseteq FileAt(img, addr)
           /\ Region(img, addr) = FileAt(img, addr) \cup BssAt(img, addr)
<1>1. WellFormed(img, addr)
  BY OverlayAssumption
<1>2. addr \in Nat
  BY OverlayAssumption
<1>3. /\ img.words \in Seq(SymbolicWords)
      /\ img.bss \in Nat /\ img.text \in Nat /\ img.data \in Nat /\ img.vram \in Nat
      /\ img.text <= Len(img.words)
      /\ img.table \in Seq(Relocations)
      /\ Region(img, addr) \subseteq Ram
  BY <1>1 DEF WellFormed
<1>4. Len(img.words) \in Nat
  BY <1>3
<1> QED BY <1>2, <1>3, <1>4 DEF Region, FileAt, BssAt, TextAt

LEMMA EntryFacts ==
    ASSUME NEW img \in Images, NEW addr \in Allocs, NEW k \in Entries(img)
    PROVE  /\ Place(img, 1, k) \in 1 .. Len(img.words)
           /\ Place(img, addr, k) = addr + Place(img, 1, k) - 1
           /\ Place(img, addr, k) \in FileAt(img, addr)
           /\ WordOf(img, k) \in [reg : Registers, ref : {"32", "26", "HI", "LO"}, to : Nat]
           /\ img.table[k].type = WordOf(img, k).ref
           /\ \A start \in {img.vram, addr} :
                 Half <= start + WordOf(img, k).to /\ start + WordOf(img, k).to < Segment - Half
           /\ \A j \in Entries(img) : Place(img, addr, j) = Place(img, addr, k) => j = k
<1>1. WellFormed(img, addr)
  BY OverlayAssumption
<1>2. /\ Place(img, 1, k) \in 1 .. Len(img.words)
      /\ img.table[k].type = WordOf(img, k).ref
      /\ \A start \in {img.vram, addr} :
            Half <= start + WordOf(img, k).to /\ start + WordOf(img, k).to < Segment - Half
      /\ \A j \in Entries(img) : Place(img, 1, j) = Place(img, 1, k) => j = k
  BY <1>1 DEF WellFormed
<1>3. /\ img.words \in Seq(SymbolicWords)
      /\ img.table \in Seq(Relocations)
      /\ addr \in Nat /\ img.text \in Nat /\ img.data \in Nat /\ img.vram \in Nat
  BY ImageTypes
<1>31. addr \in Nat /\ img.text \in Nat /\ img.data \in Nat
  BY <1>3
<1>4. ASSUME NEW j \in Entries(img)
      PROVE  /\ img.table[j] \in Relocations
             /\ Place(img, 1, j) \in 1 .. Len(img.words)
             /\ Place(img, addr, j) = addr + Place(img, 1, j) - 1
  <2>1. img.table[j] \in Relocations
    BY <1>3 DEF Entries
  <2>2. Place(img, 1, j) \in 1 .. Len(img.words)
    BY <1>1 DEF WellFormed
  <2>3. /\ img.table[j].off \in Nat
        /\ img.table[j].sec \in {"TEXT", "DATA", "RODATA"}
    BY <2>1 DEF Relocations
  <2>4. Place(img, addr, j) = addr + Place(img, 1, j) - 1
    <3>1. /\ Sections(img, addr).TEXT = addr + Sections(img, 1).TEXT - 1
          /\ Sections(img, addr).DATA = addr + Sections(img, 1).DATA - 1
          /\ Sections(img, addr).RODATA = addr + Sections(img, 1).RODATA - 1
          /\ Sections(img, 1).TEXT \in Nat
          /\ Sections(img, 1).DATA \in Nat
          /\ Sections(img, 1).RODATA \in Nat
      BY <1>31 DEF Sections
    <3> QED BY <1>31, <2>3, <3>1 DEF Place
  <2> QED BY <2>1, <2>2, <2>4
<1>5. WordOf(img, k) \in SymbolicWords
  BY <1>2, <1>3 DEF WordOf
<1>6. WordOf(img, k).ref # "none"
  BY <1>2, <1>4 DEF Relocations
<1>7. WordOf(img, k) \in [reg : Registers, ref : {"32", "26", "HI", "LO"}, to : Nat]
  BY <1>5, <1>6 DEF SymbolicWords
<1>8. Place(img, addr, k) \in FileAt(img, addr)
  BY <1>2, <1>3, <1>4 DEF FileAt
<1>9. \A j \in Entries(img) : Place(img, addr, j) = Place(img, addr, k) => j = k
  BY <1>2, <1>3, <1>4
<1> QED BY <1>2, <1>4, <1>7, <1>8, <1>9

(* The word an entry is about, as linked for one address or the other. *)
LEMMA EntryWord ==
    ASSUME NEW img \in Images, NEW addr \in Allocs, NEW k \in Entries(img)
    PROVE  /\ WordAt(img, addr, Place(img, addr, k)) = LinkedWord(WordOf(img, k), addr)
           /\ WordAt(img, img.vram, Place(img, addr, k) - addr + img.vram)
                = LinkedWord(WordOf(img, k), img.vram)
<1>1. /\ Place(img, addr, k) - addr + 1 = Place(img, 1, k)
      /\ (Place(img, addr, k) - addr + img.vram) - img.vram + 1 = Place(img, 1, k)
  BY EntryFacts, ImageTypes
<1> QED BY <1>1 DEF WordAt, WordOf

LEMMA LinkedType ==
    ASSUME NEW w \in SymbolicWords,
           NEW addr \in Nat
    PROVE  LinkedWord(w, addr) \in Words
<1>1. addr + w.to \in Nat
  BY DEF SymbolicWords
<1>2. Hi(addr + w.to) \in Int /\ Lo(addr + w.to) \in Int
  BY <1>1, HalvesMeet, WidthAssumption
<1> QED BY <1>1, <1>2 DEF LinkedWord, SymbolicWords, Words

LEMMA FileType ==
    ASSUME NEW img \in Images, NEW addr \in Allocs, NEW p \in FileAt(img, addr)
    PROVE  /\ WordAt(img, addr, p) \in Words
           /\ WordAt(img, img.vram, p - addr + img.vram) \in Words
<1>1. /\ p - addr + 1 \in 1 .. Len(img.words)
      /\ (p - addr + img.vram) - img.vram + 1 = p - addr + 1
      /\ addr \in Nat /\ img.vram \in Nat
  BY ImageTypes DEF FileAt
<1>2. img.words[p - addr + 1]
        \in SymbolicWords
  BY <1>1, ImageTypes
<1> QED BY <1>1, <1>2, LinkedType DEF WordAt

(* The LUI of an instruction is the only one, and the same for both addresses. *)
LEMMA OneLui ==
    ASSUME NEW img \in Images, NEW addr \in Allocs,
           NEW k \in Entries(img), WordOf(img, k).ref = "LO"
    PROVE  \E h \in Entries(img) :
              /\ HiOf(img, h, k)
              /\ Hi(img.vram + WordOf(img, h).to) = Hi(img.vram + WordOf(img, k).to)
              /\ Hi(addr + WordOf(img, h).to) = Hi(addr + WordOf(img, k).to)
              /\ \A j \in Entries(img) : HiOf(img, j, k) => j = h
<1>1. WellFormed(img, addr)
  BY OverlayAssumption
<1>2. PICK h \in Entries(img) :
         /\ HiOf(img, h, k)
         /\ \A start \in {img.vram, addr} :
               Hi(start + WordOf(img, h).to) = Hi(start + WordOf(img, k).to)
  BY <1>1 DEF WellFormed
<1>3. ASSUME NEW j \in Entries(img), HiOf(img, j, k) PROVE j = h
  BY <1>2, <1>3, ImageTypes DEF HiOf, Entries
<1> QED BY <1>2, <1>3


-----------------------------------------------------------------------------
(* What one entry of the table brings up to date. *)
LEMMA UpdatedGrows ==
    ASSUME NEW img \in Images, NEW addr \in Allocs,
           NEW n \in Nat, n < Len(img.table)
    PROVE  /\ n + 1 \in Entries(img)
           /\ Place(img, addr, n + 1) \notin Updated(img, addr, n)
           /\ WordOf(img, n + 1).ref \in {"32", "26"} =>
                 Updated(img, addr, n + 1) = Updated(img, addr, n) \cup {Place(img, addr, n + 1)}
           /\ WordOf(img, n + 1).ref = "HI" =>
                 Updated(img, addr, n + 1) = Updated(img, addr, n)
           /\ WordOf(img, n + 1).ref = "LO" =>
                 \A h \in 1 .. n : HiOf(img, h, n + 1) /\ (\A j \in 1 .. n : HiOf(img, j, n + 1) => j = h) =>
                    Updated(img, addr, n + 1) = Updated(img, addr, n)
                       \cup {Place(img, addr, n + 1), Place(img, addr, h)}
<1>1. n + 1 \in Entries(img) /\ 1 .. n \subseteq Entries(img) /\ n + 1 \notin 1 .. n
  BY ImageTypes DEF Entries
<1>2. Place(img, addr, n + 1) \notin Updated(img, addr, n)
  BY <1>1, EntryFacts DEF Updated
<1>3. 1 .. n + 1 = 1 .. n \cup {n + 1}
  OBVIOUS
<1>4. \A k \in 1 .. n : ~HiOf(img, n + 1, k)
  BY DEF HiOf
<1>5. ~HiOf(img, n + 1, n + 1)
  BY DEF HiOf
<1>6. ASSUME WordOf(img, n + 1).ref \in {"32", "26"}
      PROVE  Updated(img, addr, n + 1) = Updated(img, addr, n) \cup {Place(img, addr, n + 1)}
  <2>1. WordOf(img, n + 1).ref # "HI" /\ WordOf(img, n + 1).ref # "LO"
    BY <1>6
  <2>2. {k \in 1 .. n + 1 : WordOf(img, k).ref # "HI"}
          = {k \in 1 .. n : WordOf(img, k).ref # "HI"} \cup {n + 1}
    BY <1>3, <2>1
  <2>3. {h \in 1 .. n + 1 : \E k \in 1 .. n + 1 : WordOf(img, k).ref = "LO" /\ HiOf(img, h, k)}
          = {h \in 1 .. n : \E k \in 1 .. n : WordOf(img, k).ref = "LO" /\ HiOf(img, h, k)}
    BY <1>3, <1>4, <2>1
  <2> QED BY <2>2, <2>3 DEF Updated
<1>7. ASSUME WordOf(img, n + 1).ref = "HI"
      PROVE  Updated(img, addr, n + 1) = Updated(img, addr, n)
  <2>1. {k \in 1 .. n + 1 : WordOf(img, k).ref # "HI"} = {k \in 1 .. n : WordOf(img, k).ref # "HI"}
    BY <1>3, <1>7
  <2>2. {h \in 1 .. n + 1 : \E k \in 1 .. n + 1 : WordOf(img, k).ref = "LO" /\ HiOf(img, h, k)}
          = {h \in 1 .. n : \E k \in 1 .. n : WordOf(img, k).ref = "LO" /\ HiOf(img, h, k)}
    BY <1>3, <1>4, <1>7
  <2> QED BY <2>1, <2>2 DEF Updated
<1>8. ASSUME WordOf(img, n + 1).ref = "LO", NEW h \in 1 .. n, HiOf(img, h, n + 1),
             \A j \in 1 .. n : HiOf(img, j, n + 1) => j = h
      PROVE  Updated(img, addr, n + 1) = Updated(img, addr, n)
                \cup {Place(img, addr, n + 1), Place(img, addr, h)}
  <2>1. {k \in 1 .. n + 1 : WordOf(img, k).ref # "HI"}
          = {k \in 1 .. n : WordOf(img, k).ref # "HI"} \cup {n + 1}
    BY <1>3, <1>8
  <2>2. {g \in 1 .. n + 1 : \E k \in 1 .. n + 1 : WordOf(img, k).ref = "LO" /\ HiOf(img, g, k)}
          = {g \in 1 .. n : \E k \in 1 .. n : WordOf(img, k).ref = "LO" /\ HiOf(img, g, k)} \cup {h}
    BY <1>3, <1>4, <1>5, <1>8
  <2> QED BY <2>1, <2>2 DEF Updated
<1> QED BY <1>1, <1>2, <1>6, <1>7, <1>8

(* When the table is done, everything is up to date. *)
LEMMA AllUpdated ==
    ASSUME NEW img \in Images, NEW addr \in Allocs,
           NEW p \in FileAt(img, addr), p \notin Updated(img, addr, Len(img.table))
    PROVE  WordAt(img, img.vram, p - addr + img.vram) = WordAt(img, addr, p)
<1> DEFINE m == p - addr + 1
           w == img.words[m]
<1>1. /\ m \in 1 .. Len(img.words) /\ p = addr + m - 1
      /\ (p - addr + img.vram) - img.vram + 1 = m
  BY ImageTypes DEF FileAt
<1>2. WellFormed(img, addr)
  BY OverlayAssumption
<1>3. ASSUME NEW k \in Entries(img), Place(img, 1, k) = m PROVE Place(img, addr, k) = p
  BY <1>1, <1>3, EntryFacts
<1>4. ASSUME NEW k \in Entries(img), Place(img, 1, k) = m PROVE WordOf(img, k).ref = "HI"
  BY <1>3, <1>4 DEF Updated, Entries
<1>5. w.ref # "HI"
  <2>1. ASSUME w.ref = "HI" PROVE FALSE
    <3>1. PICK h, k \in Entries(img) :
             Place(img, 1, h) = m /\ WordOf(img, k).ref = "LO" /\ HiOf(img, h, k)
      BY <1>1, <1>2, <2>1 DEF WellFormed
    <3>2. Place(img, addr, h) \in Updated(img, addr, Len(img.table))
      BY <3>1 DEF Updated, Entries
    <3> QED BY <3>1, <3>2, <1>3
  <2> QED BY <2>1
<1>6. w.ref = "none"
  <2>1. ASSUME w.ref # "none" PROVE FALSE
    <3>1. PICK k \in Entries(img) : Place(img, 1, k) = m
      BY <1>1, <1>2, <2>1 DEF WellFormed
    <3> QED BY <3>1, <1>4, <1>5 DEF WordOf
  <2> QED BY <2>1
<1> QED BY <1>1, <1>6 DEF WordAt, LinkedWord


-----------------------------------------------------------------------------
(* The types that all steps of the relocation share. *)
LEMMA Typed ==
    ASSUME TypeOK, pc # "idle"
    PROVE  /\ ovl \in Images /\ base \in Allocs /\ base \in Nat /\ ovl.vram \in Nat
           /\ FileAt(ovl, base) \subseteq Ram
           /\ Len(ovl.table) \in Nat
           /\ mem \in [Ram -> Words]
BY ImageTypes DEF TypeOK

(* The place of the next entry still holds what the file holds there. *)
LEMMA NextEntry ==
    ASSUME RelocInv, pc = "relocate", i < Len(ovl.table)
    PROVE  /\ i \in Nat /\ i + 1 \in Entries(ovl)
           /\ Here \in FileAt(ovl, base) /\ Here \in Ram
           /\ Here \notin Updated(ovl, base, i)
           /\ mem[Here] = LinkedWord(WordOf(ovl, i + 1), ovl.vram)
           /\ mem[Here].reg = WordOf(ovl, i + 1).reg
           /\ WordAt(ovl, base, Here) = LinkedWord(WordOf(ovl, i + 1), base)
           /\ ovl.table[i + 1].type = WordOf(ovl, i + 1).ref
           /\ WordOf(ovl, i + 1).to \in Int /\ WordOf(ovl, i + 1).reg \in Registers
           /\ \A start \in {ovl.vram, base} :
                 /\ start + WordOf(ovl, i + 1).to \in Nat
                 /\ Half <= start + WordOf(ovl, i + 1).to
                 /\ start + WordOf(ovl, i + 1).to < Segment - Half
<1>1. TypeOK /\ ovl \in Images /\ base \in Allocs /\ i \in Nat
  BY Typed, ImageTypes DEF RelocInv, TypeOK
<1>2. i + 1 \in Entries(ovl) /\ Here \notin Updated(ovl, base, i)
  BY <1>1, UpdatedGrows DEF Here
<1>3. /\ Here \in FileAt(ovl, base)
      /\ WordOf(ovl, i + 1) \in [reg : Registers, ref : {"32", "26", "HI", "LO"}, to : Nat]
      /\ ovl.table[i + 1].type = WordOf(ovl, i + 1).ref
      /\ \A start \in {ovl.vram, base} :
                 /\ Half <= start + WordOf(ovl, i + 1).to
                 /\ start + WordOf(ovl, i + 1).to < Segment - Half
  BY <1>1, <1>2, EntryFacts DEF Here
<1>4. mem[Here] = LinkedWord(WordOf(ovl, i + 1), ovl.vram)
  BY <1>1, <1>2, <1>3, EntryWord DEF RelocInv, HalfRelocated, Here
<1>5. WordAt(ovl, base, Here) = LinkedWord(WordOf(ovl, i + 1), base)
  BY <1>1, <1>2, EntryWord DEF Here
<1>6. mem[Here].reg = WordOf(ovl, i + 1).reg
  BY <1>4 DEF LinkedWord
<1>7. Here \in Ram /\ ovl.vram \in Nat /\ base \in Nat
  BY <1>1, <1>3, ImageTypes
<1> QED BY <1>1, <1>2, <1>3, <1>4, <1>5, <1>6, <1>7

(* A step that brings the words at S up to date, as the next entry asks for. *)
LEMMA Fixed ==
    ASSUME RelocInv, pc = "relocate", i < Len(ovl.table),
           i' = i + 1,
           UNCHANGED <<pc, ovl, base, registers, ram, icache>>,
           WordOf(ovl, i + 1).ref # "HI",
           NEW S \in SUBSET FileAt(ovl, base),
           Updated(ovl, base, i + 1) = Updated(ovl, base, i) \cup S,
           mem' = [p \in Ram |-> IF p \in S THEN WordAt(ovl, base, p) ELSE mem[p]]
    PROVE  RelocInv'
<1>1. /\ TypeOK /\ ovl \in Images /\ base \in Allocs /\ i \in Nat /\ Len(ovl.table) \in Nat
      /\ FileAt(ovl, base) \subseteq Ram
      /\ i + 1 \in 0 .. Len(ovl.table)
  BY Typed, NextEntry DEF RelocInv
<1>2. mem' \in [Ram -> Words]
  BY <1>1, FileType DEF TypeOK
<1>3. TypeOK'
  BY <1>1, <1>2 DEF TypeOK, registers
<1>4. HalfRelocated'
  <2> SUFFICES ASSUME NEW p \in FileAt(ovl, base)
               PROVE  mem'[p] = IF p \in Updated(ovl, base, i + 1) THEN WordAt(ovl, base, p)
                                ELSE WordAt(ovl, ovl.vram, p - base + ovl.vram)
    BY DEF HalfRelocated
  <2> QED BY <1>1 DEF RelocInv, HalfRelocated
<1>5. LuisRemembered'
  <2> SUFFICES ASSUME NEW h \in 1 .. i + 1, NEW k \in i + 1 + 1 .. Len(ovl.table),
                      HiOf(ovl, h, k)
               PROVE  /\ luiRef[WordOf(ovl, k).reg] = Place(ovl, base, h)
                      /\ luiVal[WordOf(ovl, k).reg] = Hi(ovl.vram + WordOf(ovl, h).to)
    BY DEF LuisRemembered, registers
  <2>1. h \in 1 .. i /\ k \in i + 1 .. Len(ovl.table)
    BY <1>1 DEF HiOf
  <2> QED BY <2>1 DEF RelocInv, LuisRemembered
<1> QED BY <1>3, <1>4, <1>5 DEF RelocInv

LEMMA Moved ==
    ASSUME NEW from \in Int, NEW addr \in Int, NEW to \in Int
    PROVE  (from + to) - from + addr = addr + to
OBVIOUS

LEMMA Relocate32Keeps ==
    ASSUME RelocInv, Relocate32 PROVE RelocInv'
<1> DEFINE w == WordOf(ovl, i + 1)
<1>1. /\ pc = "relocate" /\ i < Len(ovl.table) /\ w.ref = "32"
      /\ ovl \in Images /\ base \in Allocs /\ mem \in [Ram -> Words]
      /\ base \in Nat /\ ovl.vram \in Nat
  BY NextEntry, Typed DEF Relocate32, At, RelocInv
<1>2. mem[Here] = [reg |-> w.reg, val |-> ovl.vram + w.to]
  BY <1>1, NextEntry DEF LinkedWord
<1>3. WordAt(ovl, base, Here) = [reg |-> w.reg, val |-> base + w.to]
  BY <1>1, NextEntry DEF LinkedWord
<1>4. InSegment(mem[Here].val)
  BY <1>1, <1>2, NextEntry, WidthAssumption, OverlayAssumption DEF InSegment
<1>9. ovl.vram \in Int /\ base \in Int /\ w.to \in Int
  BY <1>1, NextEntry
<1>5. mem' = [mem EXCEPT ![Here] = WordAt(ovl, base, Here)]
  <2>1. mem' = [mem EXCEPT ![Here].val = @ - ovl.vram + base]
    BY <1>4 DEF Relocate32
  <2>2. mem[Here].val - ovl.vram + base = base + w.to
    BY <1>2, Moved, <1>9
  <2>3. mem' = [mem EXCEPT ![Here] = [mem[Here] EXCEPT !.val = base + w.to]]
    BY <2>1, <2>2
  <2>4. [mem[Here] EXCEPT !.val = base + w.to] = WordAt(ovl, base, Here)
    BY <1>2, <1>3
  <2> QED BY <2>3, <2>4
<1>6. mem' = [p \in Ram |-> IF p \in {Here} THEN WordAt(ovl, base, p) ELSE mem[p]]
  BY <1>1, <1>5, NextEntry
<1>7. Updated(ovl, base, i + 1) = Updated(ovl, base, i) \cup {Here}
  BY <1>1, NextEntry, UpdatedGrows DEF Here
<1>8. {Here} \in SUBSET FileAt(ovl, base)
  BY <1>1, NextEntry
<1> QED BY <1>1, <1>6, <1>7, <1>8, Fixed DEF Relocate32

LEMMA Relocate26Keeps ==
    ASSUME RelocInv, Relocate26 PROVE RelocInv'
<1> DEFINE w == WordOf(ovl, i + 1)
<1>1. /\ pc = "relocate" /\ i < Len(ovl.table) /\ w.ref = "26"
      /\ ovl \in Images /\ base \in Allocs /\ mem \in [Ram -> Words]
      /\ base \in Nat /\ ovl.vram \in Nat
  BY NextEntry, Typed DEF Relocate26, At, RelocInv
<1>2. mem[Here] = [reg |-> w.reg, val |-> ovl.vram + w.to]
  BY <1>1, NextEntry DEF LinkedWord
<1>3. WordAt(ovl, base, Here) = [reg |-> w.reg, val |-> base + w.to]
  BY <1>1, NextEntry DEF LinkedWord
<1>9. ovl.vram \in Int /\ base \in Int /\ w.to \in Int
  BY <1>1, NextEntry
<1>5. mem' = [mem EXCEPT ![Here] = WordAt(ovl, base, Here)]
  <2>1. mem' = [mem EXCEPT ![Here].val = @ - ovl.vram + base]
    BY DEF Relocate26
  <2>2. mem[Here].val - ovl.vram + base = base + w.to
    BY <1>2, Moved, <1>9
  <2>3. mem' = [mem EXCEPT ![Here] = [mem[Here] EXCEPT !.val = base + w.to]]
    BY <2>1, <2>2
  <2>4. [mem[Here] EXCEPT !.val = base + w.to] = WordAt(ovl, base, Here)
    BY <1>2, <1>3
  <2> QED BY <2>3, <2>4
<1>6. mem' = [p \in Ram |-> IF p \in {Here} THEN WordAt(ovl, base, p) ELSE mem[p]]
  BY <1>1, <1>5, NextEntry
<1>7. Updated(ovl, base, i + 1) = Updated(ovl, base, i) \cup {Here}
  BY <1>1, NextEntry, UpdatedGrows DEF Here
<1>8. {Here} \in SUBSET FileAt(ovl, base)
  BY <1>1, NextEntry
<1> QED BY <1>1, <1>6, <1>7, <1>8, Fixed DEF Relocate26

LEMMA RememberHiKeeps ==
    ASSUME RelocInv, RememberHi PROVE RelocInv'
<1> DEFINE w == WordOf(ovl, i + 1)
<1>1. /\ pc = "relocate" /\ i < Len(ovl.table) /\ w.ref = "HI" /\ w.reg \in Registers
      /\ ovl \in Images /\ base \in Allocs /\ mem \in [Ram -> Words]
      /\ i \in Nat /\ Len(ovl.table) \in Nat /\ Here \in Ram
  BY NextEntry, Typed DEF RememberHi, At, RelocInv
<1>2. mem[Here].reg = w.reg /\ mem[Here].val = Hi(ovl.vram + w.to) /\ mem[Here].val \in Int
  <2>1. mem[Here] = [reg |-> w.reg, val |-> Hi(ovl.vram + w.to)]
    BY <1>1, NextEntry DEF LinkedWord
  <2>2. mem[Here].val \in Int
    BY <1>1 DEF Words
  <2> QED BY <2>1, <2>2
<1>3. /\ luiRef' = [luiRef EXCEPT ![w.reg] = Here]
      /\ luiVal' = [luiVal EXCEPT ![w.reg] = Hi(ovl.vram + w.to)]
      /\ Hi(ovl.vram + w.to) \in Int
  BY <1>2 DEF RememberHi
<1>4. TypeOK'
  <2>1. TypeOK /\ i + 1 \in 0 .. Len(ovl.table)
    BY <1>1 DEF RelocInv
  <2>2. luiRef' \in [Registers -> Ram \cup {NoRef}] /\ luiVal' \in [Registers -> Int]
    BY <1>1, <1>3, <2>1 DEF TypeOK
  <2> QED BY <1>1, <2>1, <2>2 DEF TypeOK, RememberHi
<1>5. HalfRelocated'
  <2>1. Updated(ovl, base, i + 1) = Updated(ovl, base, i)
    BY <1>1, UpdatedGrows
  <2> QED BY <1>1, <2>1 DEF RelocInv, RememberHi, HalfRelocated
<1>6. LuisRemembered'
  <2> SUFFICES ASSUME NEW h \in 1 .. i + 1, NEW k \in i + 1 + 1 .. Len(ovl.table),
                      HiOf(ovl, h, k)
               PROVE  /\ luiRef'[WordOf(ovl, k).reg] = Place(ovl, base, h)
                      /\ luiVal'[WordOf(ovl, k).reg] = Hi(ovl.vram + WordOf(ovl, h).to)
    BY DEF LuisRemembered, RememberHi
  <2>1. luiRef \in [Registers -> Ram \cup {NoRef}] /\ luiVal \in [Registers -> Int]
    BY DEF RelocInv, TypeOK
  <2>2. CASE h = i + 1
    <3>1. WordOf(ovl, k).reg = w.reg
      BY <2>2 DEF HiOf
    <3> QED BY <1>1, <1>3, <2>1, <2>2, <3>1 DEF Here
  <2>3. CASE h # i + 1
    <3>1. h \in 1 .. i /\ k \in i + 1 .. Len(ovl.table) /\ h < i + 1 /\ i + 1 < k
      BY <1>1, <2>3
    <3>2. WordOf(ovl, k).reg # w.reg
      BY <1>1, <3>1, NextEntry DEF HiOf
    <3>3. /\ luiRef[WordOf(ovl, k).reg] = Place(ovl, base, h)
          /\ luiVal[WordOf(ovl, k).reg] = Hi(ovl.vram + WordOf(ovl, h).to)
      BY <1>1, <3>1 DEF RelocInv, LuisRemembered
    <3>4. WordOf(ovl, k).reg \in Registers
      <4>1. k \in Entries(ovl)
        BY <1>1, <3>1 DEF Entries
      <4> QED BY <1>1, <4>1, EntryFacts
    <3> QED BY <1>3, <2>1, <3>2, <3>3, <3>4
  <2> QED BY <2>2, <2>3
<1> QED BY <1>1, <1>4, <1>5, <1>6 DEF RelocInv, RememberHi

(* What DoRelocation finds when it comes to the lower half of an address. *)
LEMMA LuiFound ==
    ASSUME RelocInv, pc = "relocate", i < Len(ovl.table), WordOf(ovl, i + 1).ref = "LO"
    PROVE  \E h \in 1 .. i :
              LET x == ovl.vram + WordOf(ovl, i + 1).to
                  y == base + WordOf(ovl, i + 1).to
                  lui == Place(ovl, base, h)
              IN  /\ HiOf(ovl, h, i + 1)
                  /\ \A j \in 1 .. i : HiOf(ovl, j, i + 1) => j = h
                  /\ luiRef[WordOf(ovl, i + 1).reg] = lui
                  /\ luiVal[WordOf(ovl, i + 1).reg] = Hi(x)
                  /\ lui \in FileAt(ovl, base) /\ lui # Here
                  /\ mem[lui].val \in {Hi(x), Hi(y)}
                  /\ WordAt(ovl, base, lui) = [reg |-> mem[lui].reg, val |-> Hi(y)]
<1> DEFINE w == WordOf(ovl, i + 1)
<1>1. /\ ovl \in Images /\ base \in Allocs /\ i \in Nat /\ i + 1 \in Entries(ovl)
  BY NextEntry, Typed DEF RelocInv
<1>2. PICK h \in Entries(ovl) :
              /\ HiOf(ovl, h, i + 1)
              /\ Hi(ovl.vram + WordOf(ovl, h).to) = Hi(ovl.vram + w.to)
              /\ Hi(base + WordOf(ovl, h).to) = Hi(base + w.to)
              /\ \A j \in Entries(ovl) : HiOf(ovl, j, i + 1) => j = h
  BY <1>1, OneLui
<1> DEFINE lui == Place(ovl, base, h)
           v == WordOf(ovl, h)
<1>3. /\ h \in 1 .. i /\ i + 1 \in i + 1 .. Len(ovl.table) /\ 1 .. i \subseteq Entries(ovl)
      /\ h # i + 1 /\ v.ref = "HI"
  BY <1>1, <1>2 DEF HiOf, Entries
<1>4. luiRef[w.reg] = lui /\ luiVal[w.reg] = Hi(ovl.vram + w.to)
  BY <1>2, <1>3 DEF RelocInv, LuisRemembered
<1>5. lui \in FileAt(ovl, base) /\ lui # Here
  BY <1>1, <1>2, <1>3, EntryFacts DEF Here
<1>6. /\ WordAt(ovl, base, lui) = [reg |-> v.reg, val |-> Hi(base + w.to)]
      /\ WordAt(ovl, ovl.vram, lui - base + ovl.vram) = [reg |-> v.reg, val |-> Hi(ovl.vram + w.to)]
  BY <1>1, <1>2, <1>3, EntryWord DEF LinkedWord
<1>7. mem[lui] \in {[reg |-> v.reg, val |-> Hi(base + w.to)],
                    [reg |-> v.reg, val |-> Hi(ovl.vram + w.to)]}
  BY <1>5, <1>6 DEF RelocInv, HalfRelocated
<1>8. mem[lui].reg = v.reg /\ mem[lui].val \in {Hi(ovl.vram + w.to), Hi(base + w.to)}
  <2> HIDE DEF v, lui, w
  <2> QED BY <1>7
<1> QED BY <1>2, <1>3, <1>4, <1>5, <1>6, <1>8

(* The address it checks has the upper half of the old address or of the new one
   and the lower half of the old one: not the address it relocates, but still
   one of the segment.                                                       *)
LEMMA MixedAddress ==
    ASSUME NEW x \in Nat, NEW y \in Nat, NEW hi \in {Hi(x), Hi(y)},
           Half <= x, x < Segment - Half, Half <= y, y < Segment - Half
    PROVE  InSegment(hi * Half + Signed(Lo(x)))
<1> DEFINE a == Signed(Lo(x))
           b == Signed(Lo(y))
<1>1. /\ a \in Int /\ 2 * a \in -Half .. Half /\ Hi(x) * Half + a = x
      /\ b \in Int /\ 2 * b \in -Half .. Half /\ Hi(y) * Half + b = y
      /\ Hi(x) \in Nat /\ Hi(y) \in Nat
  BY HalvesMeet
<1>2. Segment \in Nat /\ Half \in Nat
  BY OverlayAssumption, WidthAssumption
<1>3. Hi(y) * Half \in Int
  BY <1>1, <1>2
<1> DEFINE c == Hi(y) * Half
<1> HIDE DEF a, b
<1>4. CASE hi = Hi(x)
  BY <1>1, <1>2, <1>4 DEF InSegment, a
<1>5. CASE hi = Hi(y)
  <2>1. c \in Int /\ c + b = y
    BY <1>1, <1>3
  <2> HIDE DEF c
  <2>2. c + a \in 0 .. Segment - 1
    BY <2>1, <1>1, <1>2
  <2> QED BY <2>2, <1>5 DEF InSegment, a, c
<1> QED BY <1>4, <1>5

LEMMA RelocateLoKeeps ==
    ASSUME RelocInv, RelocateLo PROVE RelocInv'
<1> DEFINE w == WordOf(ovl, i + 1)
           x == ovl.vram + w.to
           y == base + w.to
<1>1. /\ pc = "relocate" /\ i < Len(ovl.table) /\ w.ref = "LO"
      /\ ovl \in Images /\ base \in Allocs /\ mem \in [Ram -> Words]
      /\ base \in Nat /\ ovl.vram \in Nat /\ i \in Nat
      /\ FileAt(ovl, base) \subseteq Ram
  BY NextEntry, Typed DEF RelocateLo, At, RelocInv
<1>2. PICK h \in 1 .. i :
         LET lui == Place(ovl, base, h)
         IN  /\ HiOf(ovl, h, i + 1)
             /\ \A j \in 1 .. i : HiOf(ovl, j, i + 1) => j = h
             /\ luiRef[w.reg] = lui
             /\ luiVal[w.reg] = Hi(x)
             /\ lui \in FileAt(ovl, base) /\ lui # Here
             /\ mem[lui].val \in {Hi(x), Hi(y)}
             /\ WordAt(ovl, base, lui) = [reg |-> mem[lui].reg, val |-> Hi(y)]
  BY <1>1, LuiFound
<1> DEFINE lui == Place(ovl, base, h)
<1>3. mem[Here].reg = w.reg /\ mem[Here].val = Lo(x)
  BY <1>1, NextEntry DEF LinkedWord
<1>4. WordAt(ovl, base, Here) = [reg |-> mem[Here].reg, val |-> Lo(y)]
  BY <1>1, NextEntry DEF LinkedWord
<1>5. /\ x \in Nat /\ y \in Nat
      /\ Half <= x /\ x < Segment - Half /\ Half <= y /\ y < Segment - Half
  BY NextEntry, <1>1
<1>6. InSegment(mem[lui].val * Half + Signed(mem[Here].val))
  <2> HIDE DEF x, y, lui
  <2> QED BY <1>2, <1>3, <1>5, MixedAddress DEF lui
<1>7. Hi(x) * Half + Signed(Lo(x)) - ovl.vram + base = y
  <2>1. Hi(x) * Half + Signed(Lo(x)) = x
    <3> HIDE DEF x
    <3> QED BY <1>5, HalvesMeet
  <2>2. ovl.vram \in Int /\ base \in Int /\ w.to \in Int
    BY <1>1, NextEntry
  <2> HIDE DEF w
  <2>3. x - ovl.vram + base = y
    BY <2>2, Moved
  <2> DEFINE upper == Hi(x) * Half
             lower == Signed(Lo(x))
  <2>4. upper \in Int /\ lower \in Int
    <3> HIDE DEF x
    <3> QED BY <1>5, HalvesMeet, WidthAssumption
  <2>5. upper + lower = x
    BY <2>1
  <2> HIDE DEF upper, lower, x, y
  <2>6. upper + lower - ovl.vram + base = y
    BY <2>2, <2>3, <2>4, <2>5
  <2> QED BY <2>6 DEF upper, lower
<1>8. y \div Half + (IF 2 * (y % Half) >= Half THEN 1 ELSE 0) = Hi(y)
  <2> HIDE DEF y
  <2> QED BY <1>5, HiCarries
<1>9. mem' = [mem EXCEPT ![lui].val = Hi(y), ![Here].val = Lo(y)]
  <2>1. LET addr == Hi(x) * Half + Signed(Lo(x)) - ovl.vram + base
            isLoNeg == IF 2 * (addr % Half) >= Half THEN 1 ELSE 0
        IN  mem' = [mem EXCEPT ![lui].val = addr \div Half + isLoNeg,
                               ![Here].val = addr % Half]
    BY <1>2, <1>3, <1>6 DEF RelocateLo
  <2> HIDE DEF x, y, lui
  <2>2. mem' = [mem EXCEPT ![lui].val = y \div Half + (IF 2 * (y % Half) >= Half THEN 1 ELSE 0),
                           ![Here].val = y % Half]
    BY <2>1, <1>7
  <2> QED BY <2>2, <1>8 DEF Lo
<1>10. mem' = [p \in Ram |-> IF p \in {Here, lui} THEN WordAt(ovl, base, p) ELSE mem[p]]
  <2>1. /\ mem[Here] = [reg |-> mem[Here].reg, val |-> mem[Here].val]
        /\ mem[lui] = [reg |-> mem[lui].reg, val |-> mem[lui].val]
        /\ Here \in Ram /\ lui \in Ram /\ lui # Here
    <3>1. Here \in Ram /\ lui \in Ram /\ lui # Here
      BY <1>1, <1>2, NextEntry
    <3> HIDE DEF lui
    <3> QED BY <1>1, <3>1 DEF Words
  <2>2. /\ [mem[Here] EXCEPT !.val = Lo(y)] = WordAt(ovl, base, Here)
        /\ [mem[lui] EXCEPT !.val = Hi(y)] = WordAt(ovl, base, lui)
    <3>1. WordAt(ovl, base, lui) = [reg |-> mem[lui].reg, val |-> Hi(y)]
      BY <1>2
    <3> HIDE DEF lui, x, y
    <3> QED BY <2>1, <1>4, <3>1
  <2> HIDE DEF lui, y
  <2>3. mem' = [mem EXCEPT ![lui] = WordAt(ovl, base, lui), ![Here] = WordAt(ovl, base, Here)]
    BY <1>9, <1>1, <2>1, <2>2
  <2> QED BY <1>1, <2>1, <2>3
<1>11. Updated(ovl, base, i + 1) = Updated(ovl, base, i) \cup {Here, lui}
  BY <1>1, <1>2, UpdatedGrows DEF Here
<1>12. {Here, lui} \in SUBSET FileAt(ovl, base)
  BY <1>1, <1>2, NextEntry
<1>13. i' = i + 1 /\ UNCHANGED <<pc, ovl, base, registers, ram, icache>>
  BY DEF RelocateLo
<1> QED BY <1>1, <1>10, <1>11, <1>12, <1>13, Fixed

-----------------------------------------------------------------------------
(* The steps before and after the relocation, and those of others. *)
LEMMA InitHolds == Init => RelocInv
<1> SUFFICES ASSUME Init PROVE RelocInv
  OBVIOUS
<1>1. Garbage \in Words
  BY OverlayAssumption
<1> QED BY <1>1 DEF Init, RelocInv, TypeOK

LEMMA AllocateKeeps ==
    ASSUME RelocInv, NEW img \in Images, NEW addr \in Allocs, Allocate(img, addr)
    PROVE  RelocInv'
BY DEF RelocInv, TypeOK, Allocate, registers

LEMMA TransferKeeps ==
    ASSUME RelocInv, Transfer PROVE RelocInv'
<1> DEFINE File(p) == WordAt(ovl, ovl.vram, p - base + ovl.vram)
<1>1. /\ TypeOK /\ ovl \in Images /\ base \in Allocs /\ Len(ovl.table) \in Nat
      /\ FileAt(ovl, base) \subseteq Ram
      /\ mem' = [p \in Ram |-> IF p \in FileAt(ovl, base) THEN File(p) ELSE mem[p]]
      /\ ram' = [p \in Ram |-> IF p \in FileAt(ovl, base) THEN File(p) ELSE ram[p]]
      /\ pc' = "relocate" /\ i' = 0 /\ ovl' = ovl /\ base' = base
  BY Typed DEF RelocInv, Transfer
<1>2. \A p \in FileAt(ovl, base) : File(p) \in Words
  BY <1>1, FileType
<1>3. mem' \in [Ram -> Words] /\ ram' \in [Ram -> Words]
  BY <1>1, <1>2 DEF TypeOK
<1>4. TypeOK'
  BY <1>1, <1>3 DEF TypeOK, Transfer, registers
<1>5. HalfRelocated'
  <2>1. Updated(ovl, base, 0) = {}
    BY DEF Updated
  <2> QED BY <1>1, <2>1 DEF HalfRelocated
<1>6. LuisRemembered'
  BY <1>1 DEF LuisRemembered
<1> QED BY <1>1, <1>4, <1>5, <1>6 DEF RelocInv

LEMMA ClearBssKeeps ==
    ASSUME RelocInv, ClearBss PROVE RelocInv'
<1>1. /\ TypeOK /\ ovl \in Images /\ base \in Allocs
      /\ Region(ovl, base) \subseteq Ram
      /\ Region(ovl, base) = FileAt(ovl, base) \cup BssAt(ovl, base)
      /\ FileAt(ovl, base) \cap BssAt(ovl, base) = {}
  <2>1. TypeOK /\ ovl \in Images /\ base \in Allocs
    BY Typed DEF RelocInv, ClearBss
  <2>2. Len(ovl.words) \in Nat /\ base \in Nat /\ ovl.bss \in Nat
    BY <2>1, ImageTypes
  <2> QED BY <2>1, <2>2, ImageTypes DEF FileAt, BssAt
<1>2. Zero \in Words
  BY OverlayAssumption DEF Zero, Words
<1>3. /\ mem' = [p \in Ram |-> IF p \in BssAt(ovl, base) THEN Zero ELSE mem[p]]
      /\ pc' = "flush" /\ UNCHANGED <<ovl, base, i, luiRef, luiVal, ram, icache>>
  BY DEF ClearBss, registers
<1>4. mem' \in [Ram -> Words]
  BY <1>1, <1>2, <1>3 DEF TypeOK
<1>5. TypeOK'
  BY <1>1, <1>3, <1>4 DEF TypeOK
<1>6. \A p \in FileAt(ovl, base) : mem'[p] = WordAt(ovl, base, p)
  <2> SUFFICES ASSUME NEW p \in FileAt(ovl, base) PROVE mem'[p] = WordAt(ovl, base, p)
    OBVIOUS
  <2>1. mem'[p] = mem[p]
    BY <1>1, <1>3
  <2>2. /\ i = Len(ovl.table)
        /\ mem[p] = IF p \in Updated(ovl, base, i) THEN WordAt(ovl, base, p)
                    ELSE WordAt(ovl, ovl.vram, p - base + ovl.vram)
    BY DEF RelocInv, HalfRelocated, ClearBss
  <2> QED BY <1>1, <2>1, <2>2, AllUpdated
<1>7. \A p \in BssAt(ovl, base) : mem'[p] = Zero
  BY <1>1, <1>3
<1> QED BY <1>3, <1>5, <1>6, <1>7 DEF RelocInv

LEMMA FlushKeeps ==
    ASSUME RelocInv, Flush PROVE RelocInv'
<1>1. /\ TypeOK /\ ovl \in Images /\ base \in Allocs
      /\ TextAt(ovl, base) \subseteq FileAt(ovl, base)
      /\ TextAt(ovl, base) \subseteq Region(ovl, base)
      /\ TextAt(ovl, base) \subseteq Ram
  <2>1. TypeOK /\ ovl \in Images /\ base \in Allocs
    BY Typed DEF RelocInv, Flush
  <2> QED BY <2>1, ImageTypes
<1>2. TypeOK'
  BY <1>1 DEF TypeOK, Flush, registers
<1>3. CachesAgree'
  BY <1>1 DEF RelocInv, Flush, CachesAgree
<1> QED BY <1>2, <1>3 DEF RelocInv, Flush

LEMMA ExecuteKeeps ==
    ASSUME RelocInv, NEW p \in Ram, Execute(p) PROVE RelocInv'
<1>1. Fetch(p) \in Words /\ Fetch(p) = WordAt(ovl, base, p)
  BY DEF RelocInv, TypeOK, Execute, CachesAgree, Fetch
<1>2. icache' = [icache EXCEPT ![p] = WordAt(ovl, base, p)]
      /\ WordAt(ovl, base, p) \in Words /\ pc = "loaded"
      /\ UNCHANGED <<pc, ovl, base, i, luiRef, luiVal, mem, ram>>
  BY <1>1 DEF Execute, registers
<1>3. TypeOK'
  BY <1>2 DEF RelocInv, TypeOK
<1>4. CachesAgree'
  BY <1>2 DEF RelocInv, TypeOK, CachesAgree
<1> QED BY <1>2, <1>3, <1>4 DEF RelocInv

LEMMA ScribbleKeeps ==
    ASSUME RelocInv, NEW p \in Ram, Scribble(p) PROVE RelocInv'
<1>1. Garbage \in Words
  BY OverlayAssumption
<1>2. TypeOK'
  BY <1>1 DEF RelocInv, TypeOK, Scribble, registers
<1>3. CachesAgree'
  BY DEF RelocInv, Scribble, CachesAgree, TypeOK
<1> QED BY <1>2, <1>3 DEF RelocInv, Scribble

LEMMA EvictKeeps ==
    ASSUME RelocInv, NEW p \in Ram, Evict(p) PROVE RelocInv'
<1>1. TypeOK'
  BY DEF RelocInv, TypeOK, Evict, registers
<1>2. pc = "loaded" => CachesAgree'
  BY DEF RelocInv, Evict, CachesAgree, TypeOK
<1>3. pc = "relocate" => HalfRelocated' /\ LuisRemembered'
  BY DEF RelocInv, Evict, HalfRelocated, LuisRemembered, registers
<1> QED BY <1>1, <1>2, <1>3 DEF RelocInv, Evict

LEMMA UnloadKeeps ==
    ASSUME RelocInv, Unload PROVE RelocInv'
<1>1. Garbage \in Words /\ Stale \in Words
  BY OverlayAssumption
<1>2. TypeOK'
  BY <1>1 DEF RelocInv, TypeOK, Unload
<1> QED BY <1>2 DEF RelocInv, Unload

LEMMA StepKeeps == RelocInv /\ [Next]_vars => RelocInv'
<1> SUFFICES ASSUME RelocInv, [Next]_vars PROVE RelocInv'
  OBVIOUS
<1>1. CASE UNCHANGED vars
  BY <1>1 DEF vars, registers, RelocInv, TypeOK, HalfRelocated, LuisRemembered, CachesAgree
<1>2. CASE Load
  BY <1>2, AllocateKeeps, TransferKeeps, Relocate32Keeps, Relocate26Keeps,
     RememberHiKeeps, RelocateLoKeeps, ClearBssKeeps, FlushKeeps DEF Load, DoRelocation
<1>3. CASE \E p \in Ram : Execute(p) \/ Scribble(p) \/ Evict(p)
  BY <1>3, ExecuteKeeps, ScribbleKeeps, EvictKeeps
<1>4. CASE Unload
  BY <1>4, UnloadKeeps
<1> QED BY <1>1, <1>2, <1>3, <1>4 DEF Next

(* Every word the relocation has come by is as linked for the address the overlay
   is loaded to, every other one is as in the file, and once Overlay_Load has
   returned no cache holds another instruction.                              *)
THEOREM RelocationHolds == Spec => []RelocInv
BY InitHolds, StepKeeps, PTL DEF Spec

(* Overlay_Load turns a file into the program the linker would have made for the
   address, and nothing the processor's caches held makes it run another.    *)
THEOREM LoadedRunsLinked == Spec => []RunsLinkedCode
<1>1. RelocInv => RunsLinkedCode
  BY DEF RelocInv, CachesAgree, RunsLinkedCode, Fetch
<1> QED BY <1>1, RelocationHolds, PTL

(* When Overlay_Load returns, the data are as linked too, and the BSS is zero. *)
THEOREM LoadedStartsWithLinked == Spec => StartsWithLinkedData
<1>1. RelocInv /\ Flush => /\ \A p \in FileAt(ovl, base) : mem'[p] = WordAt(ovl, base, p)
                           /\ \A p \in BssAt(ovl, base) : mem'[p] = Zero
  BY DEF RelocInv, Flush
<1>2. RelocInv /\ [Next]_vars =>
         [Flush => /\ \A p \in FileAt(ovl, base) : mem'[p] = WordAt(ovl, base, p)
                   /\ \A p \in BssAt(ovl, base) : mem'[p] = Zero]_vars
  BY <1>1
<1> QED BY <1>2, RelocationHolds, PTL DEF Spec, StartsWithLinkedData
=============================================================================

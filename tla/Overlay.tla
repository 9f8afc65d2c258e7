------------------------------ MODULE Overlay ------------------------------
(***************************************************************************)
(* The overlay loader of src/main/O2/loadfragment2.c: code that was linked   *)
(* for one address is read from the cartridge to another, relocated there in *)
(* place, its BSS cleared and the caches of the processor brought in line.   *)
(*                                                                         *)
(* One address is one word.  An instruction or a word of data is a register  *)
(* and a value: the 16 bits of an immediate, of which Half is the number of  *)
(* values, the target of a jump or a pointer.  Addresses are those of KSEG0  *)
(* without the bits all of them share.                                       *)
(***************************************************************************)
EXTENDS Integers, Sequences

CONSTANTS
    Half,       \* 65536
    Segment,    \* 0x01000000: no address of an overlay is beyond it
    Registers,
    Ram,        \* the addresses overlays are loaded to
    Allocs,     \* what func_80064DD0 may return, other than NULL
    Images,     \* the overlays, see WellFormed
    Garbage,    \* a word somebody has written
    Stale,      \* a word of somebody who is gone
    None, NoRef, Absent

Signed(imm) == IF 2 * imm >= Half THEN imm - Half ELSE imm

-----------------------------------------------------------------------------
(* What the linker does.  A word of an image that refers to an address has that
   address, counted from the start of the overlay, in the field to.  A pair of a
   LUI and an instruction with a signed immediate makes up an address, and
   several of the latter may share one LUI.                                  *)
Hi(addr) == (addr + Half \div 2) \div Half
Lo(addr) == addr % Half

LinkedWord(w, addr) ==
    [reg |-> w.reg,
     val |-> IF w.ref = "none" THEN w.to
             ELSE IF w.ref = "HI" THEN Hi(addr + w.to)
             ELSE IF w.ref = "LO" THEN Lo(addr + w.to)
             ELSE addr + w.to]

(* An image: words with text first, then data and rodata; bss, the number of
   words cleared behind them; vram, the address it was linked for; table, its
   relocations.                                                              *)
SymbolicWords == [reg : Registers, ref : {"none", "32", "26", "HI", "LO"}, to : Nat]
Relocations == [type : {"32", "26", "HI", "LO"}, sec : {"TEXT", "DATA", "RODATA"}, off : Nat]

WordAt(img, addr, p) == LinkedWord(img.words[p - addr + 1], addr)

FileAt(img, addr) == addr .. addr + Len(img.words) - 1
TextAt(img, addr) == addr .. addr + img.text - 1
BssAt(img, addr) == addr + Len(img.words) .. addr + Len(img.words) + img.bss - 1
Region(img, addr) == addr .. addr + Len(img.words) + img.bss - 1

Words == [reg : Registers, val : Int]

Sections(img, addr) ==
    [TEXT |-> addr, DATA |-> addr + img.text, RODATA |-> addr + img.text + img.data]

(* sections[RELOC_SECTION(reloc)] + RELOC_OFFSET(reloc) *)
Place(img, addr, k) == Sections(img, addr)[img.table[k].sec] + img.table[k].off

WordOf(img, k) == img.words[Place(img, 1, k)]

Entries(img) == 1 .. Len(img.table)

(* h is the LUI that entry k goes with: the one before it in the table that is
   next to it among those for its register.                                  *)
HiOf(img, h, k) ==
    /\ h < k
    /\ WordOf(img, h).ref = "HI"
    /\ WordOf(img, h).reg = WordOf(img, k).reg
    /\ \A j \in Entries(img) : h < j /\ j < k /\ WordOf(img, j).ref = "HI"
                                 => WordOf(img, j).reg # WordOf(img, k).reg

(* What the tools that make overlays see to: the table has one entry for each
   reference, entries are in an order in which each LO16 finds its HI16, and no
   two LO16 that share one are so far from each other, and the overlay is never
   loaded so badly aligned, that they would need different ones.             *)
WellFormed(img, addr) ==
    /\ img.words \in Seq(SymbolicWords)
    /\ img.bss \in Nat /\ img.text \in Nat /\ img.data \in Nat /\ img.vram \in Nat
    /\ img.text <= Len(img.words)
    /\ img.table \in Seq(Relocations)
    /\ Region(img, addr) \subseteq Ram
    /\ \A k \in Entries(img) :
          /\ Place(img, 1, k) \in 1 .. Len(img.words)
          /\ img.table[k].type = WordOf(img, k).ref
          /\ \A j \in Entries(img) : Place(img, 1, j) = Place(img, 1, k) => j = k
          /\ \A start \in {img.vram, addr} :
                Half <= start + WordOf(img, k).to /\ start + WordOf(img, k).to < Segment - Half
    /\ \A n \in 1 .. Len(img.words) :
          img.words[n].ref # "none" => \E k \in Entries(img) : Place(img, 1, k) = n
    /\ \A n \in 1 .. Len(img.words) :
          img.words[n].ref = "HI" =>
             \E h, k \in Entries(img) :
                Place(img, 1, h) = n /\ WordOf(img, k).ref = "LO" /\ HiOf(img, h, k)
    /\ \A k \in Entries(img) :
          WordOf(img, k).ref = "LO" =>
             \E h \in Entries(img) :
                /\ HiOf(img, h, k)
                /\ \A start \in {img.vram, addr} :
                      Hi(start + WordOf(img, h).to) = Hi(start + WordOf(img, k).to)

ASSUME WidthAssumption == Half \in Nat \ {0} /\ Half % 2 = 0

ASSUME OverlayAssumption ==
    /\ Segment \in Nat
    /\ Ram \subseteq Nat /\ Allocs \subseteq Ram
    /\ 0 \in Registers
    /\ {Garbage, Stale} \subseteq Words
    /\ NoRef \notin Nat
    /\ \A img \in Images, addr \in Allocs : WellFormed(img, addr)
    /\ None \notin Images

VARIABLES
    pc,      \* where Overlay_AllocateAndLoad is
    ovl,     \* the overlay it loads or that is loaded
    base,    \* allocatedRamAddr
    i,       \* the number of relocations done
    luiRef,  \* luiRefs, by register: where the LUI is
    luiVal,  \* luiVals, by register: what its immediate was
    mem,     \* memory as the processor reads it, through its data cache
    ram,     \* memory as it is behind that cache
    icache   \* the words in the instruction cache

vars == <<pc, ovl, base, i, luiRef, luiVal, mem, ram, icache>>

registers == <<luiRef, luiVal>>

Zero == [reg |-> 0, val |-> 0]

Init ==
    /\ pc = "idle" /\ ovl = None /\ base = 0 /\ i = 0
    /\ luiRef = [r \in Registers |-> NoRef]
    /\ luiVal = [r \in Registers |-> 0]
    /\ mem = [p \in Ram |-> Garbage]
    /\ ram = mem
    /\ icache = [p \in Ram |-> Absent]

-----------------------------------------------------------------------------
(* func_80064DD0 found room for the overlay, but who had it last left words in
   the caches.  If there is no room, nothing happens.                        *)
Allocate(img, addr) ==
    /\ pc = "idle"
    /\ pc' = "transfer"
    /\ ovl' = img /\ base' = addr
    /\ UNCHANGED <<i, registers, mem, ram, icache>>

(* DmaMgr_RequestSync: the data cache is invalidated, and then the file arrives. *)
Transfer ==
    /\ pc = "transfer"
    /\ pc' = "relocate" /\ i' = 0
    /\ LET arrived(m) == [p \in Ram |-> IF p \in FileAt(ovl, base)
                                        THEN WordAt(ovl, ovl.vram, p - base + ovl.vram)
                                        ELSE m[p]]
       IN  mem' = arrived(mem) /\ ram' = arrived(ram)
    /\ UNCHANGED <<ovl, base, registers, icache>>

(* (address & 0x0F000000) == 0 *)
InSegment(addr) == addr \in 0 .. Segment - 1

(* The next entry of the table and the place it is about. *)
At(type) ==
    /\ pc = "relocate" /\ i < Len(ovl.table)
    /\ ovl.table[i + 1].type = type

Here == Place(ovl, base, i + 1)

Relocate32 ==
    /\ At("32")
    /\ i' = i + 1
    /\ mem' = IF InSegment(mem[Here].val)
              THEN [mem EXCEPT ![Here].val = @ - ovl.vram + base]
              ELSE mem
    /\ UNCHANGED <<pc, ovl, base, registers, ram, icache>>

Relocate26 ==
    /\ At("26")
    /\ i' = i + 1
    /\ mem' = [mem EXCEPT ![Here].val = @ - ovl.vram + base]
    /\ UNCHANGED <<pc, ovl, base, registers, ram, icache>>

RememberHi ==
    /\ At("HI")
    /\ i' = i + 1
    /\ luiRef' = [luiRef EXCEPT ![mem[Here].reg] = Here]
    /\ luiVal' = [luiVal EXCEPT ![mem[Here].reg] = mem[Here].val]
    /\ UNCHANGED <<pc, ovl, base, mem, ram, icache>>

(* Variant: the immediate of the LUI is not what it was, but what it is now. *)
RelocateLoFromRef ==
    /\ At("LO")
    /\ i' = i + 1
    /\ LET r == mem[Here].reg
           lui == luiRef[r]
           addr == mem[lui].val * Half + Signed(mem[Here].val) - ovl.vram + base
           isLoNeg == IF 2 * (addr % Half) >= Half THEN 1 ELSE 0
       IN  mem' = IF InSegment(mem[lui].val * Half + Signed(mem[Here].val))
                  THEN [mem EXCEPT ![lui].val = addr \div Half + isLoNeg,
                                   ![Here].val = addr % Half]
                  ELSE mem
    /\ UNCHANGED <<pc, ovl, base, registers, ram, icache>>

(* The address is checked with the LUI as it is now, and computed from the LUI as
   it was.                                                                   *)
RelocateLo ==
    /\ At("LO")
    /\ i' = i + 1
    /\ LET r == mem[Here].reg
           lui == luiRef[r]
           addr == luiVal[r] * Half + Signed(mem[Here].val) - ovl.vram + base
           isLoNeg == IF 2 * (addr % Half) >= Half THEN 1 ELSE 0
       IN  mem' = IF InSegment(mem[lui].val * Half + Signed(mem[Here].val))
                  THEN [mem EXCEPT ![lui].val = addr \div Half + isLoNeg,
                                   ![Here].val = addr % Half]
                  ELSE mem
    /\ UNCHANGED <<pc, ovl, base, registers, ram, icache>>

DoRelocation == Relocate32 \/ Relocate26 \/ RememberHi \/ RelocateLo

(* Variant: the file is taken to be as large as the overlay. *)
ClearNothing ==
    /\ pc = "relocate" /\ i = Len(ovl.table)
    /\ pc' = "flush"
    /\ UNCHANGED <<ovl, base, i, registers, mem, ram, icache>>

ClearBss ==
    /\ pc = "relocate" /\ i = Len(ovl.table)
    /\ pc' = "flush"
    /\ mem' = [p \in Ram |-> IF p \in BssAt(ovl, base) THEN Zero ELSE mem[p]]
    /\ UNCHANGED <<ovl, base, i, registers, ram, icache>>

(* Variant: the instruction cache is left alone. *)
FlushDataOnly ==
    /\ pc = "flush"
    /\ pc' = "loaded"
    /\ ram' = [p \in Ram |-> IF p \in Region(ovl, base) THEN mem[p] ELSE ram[p]]
    /\ UNCHANGED <<ovl, base, i, registers, mem, icache>>

(* osWritebackDCache, osInvalICache *)
Flush ==
    /\ pc = "flush"
    /\ pc' = "loaded"
    /\ ram' = [p \in Ram |-> IF p \in Region(ovl, base) THEN mem[p] ELSE ram[p]]
    /\ icache' = [p \in Ram |-> IF p \in Region(ovl, base) THEN Absent ELSE icache[p]]
    /\ UNCHANGED <<ovl, base, i, registers, mem>>

-----------------------------------------------------------------------------
(* What goes on around the loader. *)

(* The instruction that is executed at p. *)
Fetch(p) == IF icache[p] # Absent THEN icache[p] ELSE ram[p]

Execute(p) ==
    /\ pc = "loaded" /\ p \in TextAt(ovl, base)
    /\ icache' = [icache EXCEPT ![p] = Fetch(p)]
    /\ UNCHANGED <<pc, ovl, base, i, registers, mem, ram>>

(* A program writes its data. *)
Scribble(p) ==
    /\ pc = "loaded" /\ p \in Region(ovl, base) \ TextAt(ovl, base)
    /\ mem' = [mem EXCEPT ![p] = Garbage]
    /\ UNCHANGED <<pc, ovl, base, i, registers, ram, icache>>

(* A line leaves the data cache, at any time. *)
Evict(p) ==
    /\ ram[p] # mem[p]
    /\ ram' = [ram EXCEPT ![p] = mem[p]]
    /\ UNCHANGED <<pc, ovl, base, i, registers, mem, icache>>

(* The overlay is given up and its memory goes to others, who write it.  Whatever
   words are left in the caches and behind them count as Garbage and Stale.  *)
Unload ==
    /\ pc = "loaded"
    /\ pc' = "idle" /\ ovl' = None /\ base' = 0 /\ i' = 0
    /\ luiRef' = [r \in Registers |-> NoRef]
    /\ luiVal' = [r \in Registers |-> 0]
    /\ mem' = [p \in Ram |-> IF p \in Region(ovl, base) THEN Garbage ELSE mem[p]]
    /\ ram' = [p \in Ram |-> IF p \in Region(ovl, base) THEN Stale ELSE ram[p]]
    /\ icache' = [p \in Ram |-> IF icache[p] = Absent THEN Absent ELSE Stale]

Load ==
    \/ \E img \in Images, addr \in Allocs : Allocate(img, addr)
    \/ Transfer
    \/ DoRelocation
    \/ ClearBss
    \/ Flush

Next ==
    \/ Load
    \/ \E p \in Ram : Execute(p) \/ Scribble(p) \/ Evict(p)
    \/ Unload

Spec == Init /\ [][Next]_vars

-----------------------------------------------------------------------------
TypeOK ==
    /\ pc \in {"idle", "transfer", "relocate", "flush", "loaded"}
    /\ IF pc = "idle" THEN ovl = None ELSE ovl \in Images /\ base \in Allocs
    /\ pc = "relocate" => i \in 0 .. Len(ovl.table)
    /\ luiRef \in [Registers -> Ram \cup {NoRef}]
    /\ luiVal \in [Registers -> Int]
    /\ mem \in [Ram -> Words]
    /\ ram \in [Ram -> Words]
    /\ icache \in [Ram -> Words \cup {Absent}]

(* The words of the file that the first n relocations have brought up to date: a
   LUI is as soon as the first instruction that goes with it is.             *)
Updated(img, addr, n) ==
    {Place(img, addr, k) : k \in {k \in 1 .. n : WordOf(img, k).ref # "HI"}}
       \cup {Place(img, addr, h) : h \in
               {h \in 1 .. n : \E k \in 1 .. n : WordOf(img, k).ref = "LO" /\ HiOf(img, h, k)}}

(* On the way, a file is as linked for the new address where it is up to date and
   as linked for the old one elsewhere, ...                                  *)
HalfRelocated ==
    \A p \in FileAt(ovl, base) :
       mem[p] = IF p \in Updated(ovl, base, i) THEN WordAt(ovl, base, p)
                ELSE WordAt(ovl, ovl.vram, p - base + ovl.vram)

(* ... and the registers remember the LUIs that later entries need. *)
LuisRemembered ==
    \A h \in 1 .. i, k \in i + 1 .. Len(ovl.table) :
       HiOf(ovl, h, k) =>
          /\ luiRef[WordOf(ovl, k).reg] = Place(ovl, base, h)
          /\ luiVal[WordOf(ovl, k).reg] = Hi(ovl.vram + WordOf(ovl, h).to)

(* In the end, no cache and no memory has other instructions. *)
CachesAgree ==
    \A p \in TextAt(ovl, base) :
       /\ mem[p] = WordAt(ovl, base, p)
       /\ ram[p] = WordAt(ovl, base, p)
       /\ icache[p] \in {Absent, WordAt(ovl, base, p)}

RelocInv ==
    /\ TypeOK
    /\ pc = "relocate" => HalfRelocated /\ LuisRemembered
    /\ pc = "flush" => /\ \A p \in FileAt(ovl, base) : mem[p] = WordAt(ovl, base, p)
                       /\ \A p \in BssAt(ovl, base) : mem[p] = Zero
    /\ pc = "loaded" => CachesAgree

(* An overlay runs the instructions that the linker would have made for the
   address it was loaded to, from the moment Overlay_Load returns on, whatever
   was there before and whatever it does to its data.                        *)
RunsLinkedCode ==
    pc = "loaded" => \A p \in TextAt(ovl, base) : Fetch(p) = WordAt(ovl, base, p)

(* At that moment its data are as linked for that address, and its BSS is zero. *)
StartsWithLinkedData ==
    [][Flush => /\ \A p \in FileAt(ovl, base) : mem'[p] = WordAt(ovl, base, p)
                /\ \A p \in BssAt(ovl, base) : mem'[p] = Zero]_vars
=============================================================================

----------------------------- MODULE MCOverlay -----------------------------
(* Overlay with four values of an immediate and a few overlays that differ in
   how the LUIs and the instructions they go with follow each other.         *)
EXTENDS Overlay

Word(reg, ref, to) == [reg |-> reg, ref |-> ref, to |-> to]
Text(type, off) == [type |-> type, sec |-> "TEXT", off |-> off]
Image(words, text, data, bss, vram, table) ==
    [words |-> words, text |-> text, data |-> data, bss |-> bss, vram |-> vram,
     table |-> table]

(* One LUI, two instructions that use it; data points to a place in the text. *)
SharedLui(t, u, vram) ==
    Image(<<Word(1, "HI", t), Word(1, "LO", t), Word(1, "LO", u), Word(0, "32", 1)>>,
          3, 1, 1, vram,
          <<Text("HI", 0), Text("LO", 1), Text("LO", 2),
            [type |-> "32", sec |-> "DATA", off |-> 0]>>)

(* Two LUIs, their instructions crossed, and a jump; no BSS. *)
TwoLuis(t, u, vram) ==
    Image(<<Word(1, "HI", t), Word(2, "HI", u), Word(1, "LO", t), Word(2, "LO", u),
            Word(0, "26", u)>>,
          5, 0, 0, vram,
          <<Text("HI", 1), Text("26", 4), Text("HI", 0), Text("LO", 3), Text("LO", 2)>>)

(* The same register used again; a constant and read-only data. *)
OneRegister(t, u, vram) ==
    Image(<<Word(1, "HI", t), Word(1, "LO", t), Word(1, "HI", u), Word(1, "LO", u),
            Word(0, "none", 3), Word(0, "32", u)>>,
          4, 1, 0, vram,
          <<Text("HI", 0), Text("LO", 1), Text("HI", 2), Text("LO", 3),
            [type |-> "32", sec |-> "RODATA", off |-> 0]>>)

ThreeImages ==
    {SharedLui(3, 4, 20), TwoLuis(3, 1, 21), OneRegister(0, 5, 20)}

TwoAllocs == {8, 9}
SmallRam == 8 .. 14
TheGarbage == [reg |-> 0, val |-> 7]
TheStale == [reg |-> 0, val |-> 6]
=============================================================================

------------------------------ MODULE Section ------------------------------
(***************************************************************************)
(* A section of the world and the way it is written to a client, as        *)
(* operators. World.tla drives them.                                       *)
(*                                                                         *)
(* A section is a palette and one palette index per cell, or a palette     *)
(* alone when it is one block everywhere. It has one horizontal axis, so a *)
(* cell is <<x, y>>. The order cells are stored in is private to the code  *)
(* and is not modelled: a cell indexes the array itself. The order they    *)
(* are written in is the client's, and is. An optional value is a sequence *)
(* of one element or none.                                                 *)
(***************************************************************************)
EXTENDS Integers, Sequences, SequencesExt

CONSTANTS
  Air, Stone,   \* the two blocks the generator places
  Others,       \* other blocks a caller may place
  AirLike,      \* the blocks named air, whatever their properties
  Known,        \* the blocks that have a runtime id
  Edge,         \* blocks along an edge of a section (16)
  MaxIndex,     \* largest palette index (u16::MAX)
  WordBits      \* bits in a word of the packed array (32)

Blocks == {Air, Stone} \cup Others

ASSUME BlocksAssumption == Air # Stone /\ Air \in AirLike /\ Stone \notin AirLike
ASSUME KnownAssumption == Air \in Known /\ AirLike \cap Known = {Air} /\ Known \subseteq Blocks
ASSUME SizesAssumption == Edge \in Nat \ {0} /\ MaxIndex \in Nat \ {0} /\ WordBits \in Nat \ {0}

Cells == (0 .. Edge - 1) \X (0 .. Edge - 1)

-----------------------------------------------------------------------------
(* Section: uniform, from_fn, get, index_at, is_empty, with_block           *)

Uniform(block) == [palette |-> <<block>>, indices |-> <<>>]

\* The palette index of a block that is in the palette.
IndexIn(palette, block) == (CHOOSE i \in DOMAIN palette : palette[i] = block) - 1

\* The palette with the block in it: where it was, or at the end.
Naming(palette, block) == IF block \in Range(palette) THEN palette ELSE Append(palette, block)

\* from_fn visits x first; the palette is in the order of the first visits.
Visits == [k \in 1 .. Edge * Edge |-> <<(k - 1) \div Edge, (k - 1) % Edge>>]

FromFn(blockAt) ==
  LET palette == FoldLeft(LAMBDA p, cell : Naming(p, blockAt[cell]), <<>>, Visits)
      indices == [cell \in Cells |-> IndexIn(palette, blockAt[cell])]
  IN [palette |-> palette, indices |-> IF Len(palette) = 1 THEN <<>> ELSE <<indices>>]

\* None outside the section.
IndexAt(s, cell) ==
  IF cell \notin Cells THEN <<>> ELSE IF s.indices = <<>> THEN <<0>> ELSE <<s.indices[1][cell]>>

Get(s, cell) ==
  LET index == IndexAt(s, cell)
  IN IF index = <<>> THEN <<>> ELSE <<s.palette[index[1] + 1]>>

IsUniform(s) == s.indices = <<>>

\* What every section is: a palette that names each block once, no longer than
\* an index can count, and an index array that points into it.
IndexArrays(s) == [Cells -> 0 .. Len(s.palette) - 1]

WellFormed(s) ==
  /\ s.palette \in Seq(Blocks) /\ IsInjective(s.palette)
  /\ Len(s.palette) \in 1 .. MaxIndex + 1
  /\ \/ s.indices = <<>> /\ Len(s.palette) = 1
     \/ \E indices \in IndexArrays(s) : s.indices = <<indices>>

IsEmpty(s) == Range(s.palette) \subseteq AirLike

\* Mutants: one index more, and one fewer, than there are.
FitsIndexAbove(index) == index <= MaxIndex + 1
FitsIndexBelow(index) == index < MaxIndex
FitsIndex(index) == index <= MaxIndex

\* The palette keeps a block that is no longer anywhere, and when it is full a
\* block it does not name is refused.
WithBlock(s, cell, block) ==
  LET palette == Naming(s.palette, block)
      index   == IndexIn(palette, block)
      indices == [c \in Cells |-> IndexAt(s, c)[1]]
  IN IF cell \notin Cells THEN <<>>
     ELSE IF Get(s, cell) = <<block>> THEN <<s>>
     ELSE IF ~ FitsIndex(index) THEN <<>>
     ELSE <<[palette |-> palette, indices |-> <<[indices EXCEPT ![cell] = index]>>]>>

-----------------------------------------------------------------------------
(* A section on the wire: encode_section, write_subchunk. Runtime ids are   *)
(* the blocks they stand for; a block without one is written as air.        *)

RuntimeId(block) == IF block \in Known THEN block ELSE Air

\* block_offset, and the cell it is the offset of.
BlockOffset(cell) == cell[1] * Edge + cell[2]
CellAt(offset) == <<offset \div Edge, offset % Edge>>

EncodeSection(s) ==
  LET palette == [i \in DOMAIN s.palette |-> RuntimeId(s.palette[i])]
  IN [palette |-> palette,
      indices |-> IF IsUniform(s) \/ Len(palette) <= 1 THEN <<>>
                  ELSE <<[offset \in 0 .. Edge * Edge - 1 |-> IndexAt(s, CellAt(offset))[1]]>>]

\* Mutant: a palette of three is given one bit.
BitsPerBlockShort(len) == IF len <= 3 THEN 1 ELSE 2

BitsPerBlock(len) ==
  CASE len <= 1  -> 0
    [] len = 2   -> 1
    [] len \in 3 .. 4    -> 2
    [] len \in 5 .. 8    -> 3
    [] len \in 9 .. 16   -> 4
    [] len \in 17 .. 32  -> 5
    [] len \in 33 .. 64  -> 6
    [] len \in 65 .. 256 -> 8
    [] OTHER -> 16

\* An index fits the bits of its slot, and the slots a word.
ASSUME WidthsAssumption == MaxIndex < 65536 /\ BitsPerBlock(MaxIndex + 1) <= WordBits

\* What goes into a slot: the index of its position, shifted there; nothing past
\* the last position.
InSlot(indices, bits, position, slot) ==
  IF position < Edge * Edge THEN indices[position] * 2 ^ (slot * bits) ELSE 0

\* The slots of a word are disjoint while an index fits its bits, so or-ing
\* them together adds them up.
Or(packed, part) == packed + part

PackedWord(indices, bits, perWord, word) ==
  FoldLeft(Or, 0,
           [k \in 1 .. perWord |-> InSlot(indices, bits, word * perWord + k - 1, k - 1)])

WriteSubchunk(encoded) ==
  LET bits    == BitsPerBlock(Len(encoded.palette))
      perWord == WordBits \div bits
      words   == (Edge * Edge + perWord - 1) \div perWord
  IN IF encoded.indices = <<>> \/ Len(encoded.palette) <= 1
       THEN [bits |-> 0, words |-> <<>>, palette |-> <<Head(encoded.palette)>>]
       ELSE [bits |-> bits, palette |-> encoded.palette,
             words |-> [w \in 1 .. words |-> PackedWord(encoded.indices[1], bits, perWord, w - 1)]]

\* The client's reading of it: the block at a cell.
ReadSubchunk(subchunk, cell) ==
  LET perWord == WordBits \div subchunk.bits
      word    == subchunk.words[BlockOffset(cell) \div perWord + 1]
      slot    == BlockOffset(cell) % perWord
      index   == (word \div 2 ^ (slot * subchunk.bits)) % 2 ^ subchunk.bits
  IN IF subchunk.bits = 0 THEN subchunk.palette[1] ELSE subchunk.palette[index + 1]
=============================================================================

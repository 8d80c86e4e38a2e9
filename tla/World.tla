------------------------------- MODULE World -------------------------------
(***************************************************************************)
(* World, Chunk and the flat generator: columns that are generated when    *)
(* first asked for, changed block by block, forgotten and generated again, *)
(* and written to a client as a LevelChunk. Section.tla has the sections.  *)
(*                                                                         *)
(* The world has one horizontal axis. A column holds its sections bottom   *)
(* first. Sections are shared by Arc and never changed in place, so they   *)
(* are values here.                                                        *)
(***************************************************************************)
EXTENDS Section, FiniteSetsExt

CONSTANTS
  MinSection, MaxSection,   \* the lowest and highest section (-4 and 19)
  Heights,                  \* the surfaces a world may be made with
  Positions,                \* bound: positions <<x, y>> that callers use
  MaxWrites                 \* bound: calls of set_block

ASSUME SpanAssumption ==
  MinSection \in Int /\ MaxSection \in Int /\ MinSection <= MaxSection
ASSUME InputsAssumption == Heights \subseteq Int /\ Positions \subseteq Int \X Int

VARIABLES
  surface,   \* surface_height of the generator
  chunks,    \* the columns held, by position
  placed,    \* history: the blocks set_block said it placed, since their column was generated
  refused,   \* history: the positions of columns held at which it refused one
  writes     \* calls of set_block, for the bound

vars == <<surface, chunks, placed, refused, writes>>

SectionCount == MaxSection - MinSection + 1
Slots == 1 .. SectionCount

-----------------------------------------------------------------------------
(* Coordinates: section_index, section_offset, chunk_of, local_of. TLA+'s   *)
(* division rounds down, as div_euclid does by a positive number.           *)

\* Mutant: rounds towards zero.
SectionIndexTruncated(y) == IF y >= 0 THEN y \div Edge ELSE - ((- y) \div Edge)
SectionIndex(y) == y \div Edge

SectionOffset(y) == y % Edge
ChunkOf(x) == x \div Edge
LocalOf(x) == x % Edge

\* The slot of a section, or none outside the column.
SlotOf(index) == IF index - MinSection + 1 \in Slots THEN <<index - MinSection + 1>> ELSE <<>>

-----------------------------------------------------------------------------
(* Flat: new, generate, cut_section                                         *)

\* What from_fn makes of the blocks of a cut: the first cell it visits is stone.
CutSection(height) ==
  [palette |-> <<Stone, Air>>, indices |-> <<[cell \in Cells |-> IF cell[2] < height THEN 0 ELSE 1]>>]

ASSUME CutAssumption ==
  \A height \in 1 .. Edge - 1 :
    CutSection(height) = FromFn([cell \in Cells |-> IF cell[2] < height THEN Stone ELSE Air])

Template(height) ==
  [slot \in Slots |->
     LET bottom == (MinSection + slot - 1) * Edge
     IN IF bottom + Edge <= height THEN Uniform(Stone)
        ELSE IF bottom >= height THEN Uniform(Air)
        ELSE CutSection(height - bottom)]

Generate == Template(surface)

-----------------------------------------------------------------------------
(* Chunk: block_at, set_block, highest_used_section                         *)

BlockAtIn(chunk, x, y) ==
  LET slot == SlotOf(SectionIndex(y))
  IN IF slot = <<>> THEN <<>> ELSE Get(chunk[slot[1]], <<x, SectionOffset(y)>>)

\* The column with the block in it, or none when set_block answers false.
SetBlockIn(chunk, x, y, block) ==
  LET slot    == SlotOf(SectionIndex(y))
      updated == WithBlock(chunk[slot[1]], <<x, SectionOffset(y)>>, block)
  IN IF slot = <<>> \/ updated = <<>> THEN <<>> ELSE <<[chunk EXCEPT ![slot[1]] = updated[1]]>>

\* The number of sections up to the highest that is not all air.
HighestUsed(chunk) == Max({0} \cup {slot \in Slots : ~ IsEmpty(chunk[slot])})

-----------------------------------------------------------------------------
(* column_packet: what a client is sent of a column, and what it draws      *)

ColumnPacket(chunk) ==
  [count |-> HighestUsed(chunk),
   subchunks |-> [slot \in 1 .. HighestUsed(chunk) |-> WriteSubchunk(EncodeSection(chunk[slot]))]]

Drawn(packet, x, y) ==
  LET slot == SectionIndex(y) - MinSection + 1
  IN IF slot > packet.count THEN Air
     ELSE ReadSubchunk(packet.subchunks[slot], <<x, SectionOffset(y)>>)

-----------------------------------------------------------------------------
(* World: chunk, set_block, unload                                          *)

Init ==
  /\ surface \in Heights
  /\ chunks = [c \in {} |-> <<>>]
  /\ placed = [p \in {} |-> Air]
  /\ refused = {}
  /\ writes = 0

\* The column at c with those held: generated when it was not there.
Loaded(c) ==
  [k \in DOMAIN chunks \cup {c} |-> IF k \in DOMAIN chunks THEN chunks[k] ELSE Generate]

\* chunk, and block_at, which asks for the column first.
Chunk(c) ==
  /\ chunks' = Loaded(c)
  /\ UNCHANGED <<surface, placed, refused, writes>>

SetBlock(p, block) ==
  LET c       == ChunkOf(p[1])
      loaded  == Loaded(c)
      changed == SetBlockIn(loaded[c], LocalOf(p[1]), p[2], block)
  IN /\ writes < MaxWrites
     /\ writes' = writes + 1
     /\ chunks' = IF changed = <<>> THEN loaded ELSE [loaded EXCEPT ![c] = changed[1]]
     /\ placed' = IF changed = <<>> THEN placed
                  ELSE [q \in DOMAIN placed \cup {p} |-> IF q = p THEN block ELSE placed[q]]
     /\ refused' = IF changed = <<>> THEN refused \cup {p} ELSE refused
     /\ UNCHANGED surface

Unload(c) ==
  /\ c \in DOMAIN chunks
  /\ chunks' = [k \in DOMAIN chunks \ {c} |-> chunks[k]]
  /\ placed' = [q \in {r \in DOMAIN placed : ChunkOf(r[1]) # c} |-> placed[q]]
  /\ refused' = {r \in refused : ChunkOf(r[1]) # c}
  /\ UNCHANGED <<surface, writes>>

Columns == {ChunkOf(p[1]) : p \in Positions}

Next ==
  \/ \E c \in Columns : Chunk(c) \/ Unload(c)
  \/ \E p \in Positions, block \in Blocks : SetBlock(p, block)

Spec == Init /\ [][Next]_vars

-----------------------------------------------------------------------------
(* The heights of a column and the positions of column c.                   *)
Ys == (MinSection * Edge) .. ((MaxSection + 1) * Edge - 1)
PositionsOf(c) == {<<c * Edge + x, y>> : x \in 0 .. Edge - 1, y \in Ys}

(* Every variable has its type, every section is well formed, and the      *)
(* histories speak of columns that are held.                               *)
TypeOK ==
  /\ surface \in Heights
  /\ DOMAIN chunks \subseteq Columns
  /\ DOMAIN placed \subseteq Positions /\ refused \subseteq Positions
  /\ \A p \in DOMAIN placed \cup refused : ChunkOf(p[1]) \in DOMAIN chunks
  /\ \A c \in DOMAIN chunks :
       DOMAIN chunks[c] = Slots /\ \A slot \in Slots : WellFormed(chunks[c][slot])

\* What belongs at a position of a column that is held.
Expected(p) == IF p \in DOMAIN placed THEN placed[p] ELSE IF p[2] < surface THEN Stone ELSE Air

(* World, Chunk and Section together: at every position of every column    *)
(* held, block_at answers the block last placed there since the column was *)
(* generated, or what the generator puts there. No write is lost, lands    *)
(* elsewhere, is half done when it is refused, or outlives unload.         *)
ReadsBack ==
  \A c \in DOMAIN chunks : \A p \in PositionsOf(c) :
    BlockAtIn(chunks[c], LocalOf(p[1]), p[2]) = <<Expected(p)>>

(* set_block: inside the world it refuses only in a section that has named *)
(* as many blocks as an index can tell apart, however many calls it takes  *)
(* to get there.                                                           *)
RefusedWhenFull ==
  \A p \in refused :
    LET slot == SlotOf(SectionIndex(p[2]))
    IN slot = <<>> \/ Len(chunks[ChunkOf(p[1])][slot[1]].palette) = MaxIndex + 1

(* column_packet: the client draws at every position the block that is     *)
(* there, or air for a block without a runtime id: in the sections sent,   *)
(* through palette, index width and packing, and in those left out.        *)
ClientDrawsWorld ==
  \A c \in DOMAIN chunks :
    LET packet == ColumnPacket(chunks[c])
    IN \A p \in PositionsOf(c) :
         Drawn(packet, LocalOf(p[1]), p[2]) =
           RuntimeId(BlockAtIn(chunks[c], LocalOf(p[1]), p[2])[1])
=============================================================================

------------------------------ MODULE MCWorld ------------------------------
(***************************************************************************)
(* A world for World.tla: three cells to an edge, two sections to a        *)
(* column, one of them below zero, and two columns.                        *)
(***************************************************************************)
EXTENDS World

CONSTANTS b1, b2, b3

Lowest == -1

\* No ground; a section cut by the surface, low and high; a surface between two.
Surfaces == {-3, -1, 0, 1}

\* Blocks nothing tells apart: none has a runtime id.
Alike == Permutations({b1, b2, b3})

\* Two in one section, one above them, one over the top of the world. (The
\* column of the last is generated and unloaded, and never changed.)
Spots == {<<-1, -1>>, <<-3, -2>>, <<-1, 0>>, <<0, 3>>}
=============================================================================

------------------------------------ MODULE Grid ------------------------------------
(***************************************************************************)
(* The rules of the game of life as grid.c of lab09 computes them: a grid  *)
(* is an array of grid_height * grid_width cells, row by row, whose        *)
(* neighbourhoods end at the border.                                       *)
(***************************************************************************)
EXTENDS Integers, FiniteSets

CONSTANTS
    grid_height, grid_width,
    Seeds               \* the grids init_grid may fill in

Size == grid_height * grid_width
Cells == 0 .. Size - 1
Grids == [Cells -> BOOLEAN]

ASSUME GridAssumption ==
    /\ grid_height \in Nat \ {0} /\ grid_width \in Nat \ {0}
    /\ Seeds \subseteq Grids

Row(cell) == cell \div grid_width
Col(cell) == cell % grid_width

Neighbours(cell) ==
    {other \in Cells \ {cell} : Row(other) - Row(cell) \in -1 .. 1 /\ Col(other) - Col(cell) \in -1 .. 1}

(* is_alive: survival with two or three neighbours, birth with three. *)
is_alive(cell, grid) ==
    LET count == Cardinality({other \in Neighbours(cell) : grid[other]})
    IN  IF grid[cell] THEN count \in {2, 3} ELSE count = 3
=============================================================================

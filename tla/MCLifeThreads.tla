----------------------------- MODULE MCLifeThreads -----------------------------
(* LifeThreads with small sets of initial grids. *)
EXTENDS LifeThreads

AllGrids == [0 .. grid_height * grid_width - 1 -> BOOLEAN]
ThreeAlive == {grid \in AllGrids : Cardinality({cell \in DOMAIN grid : grid[cell]}) = 3 /\ grid[0] /\ grid[5]
                                   /\ (grid[1] \/ grid[2])}
FullGrid == {[cell \in 0 .. grid_height * grid_width - 1 |-> TRUE]}
=============================================================================

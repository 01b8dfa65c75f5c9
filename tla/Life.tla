------------------------------------ MODULE Life ------------------------------------
(***************************************************************************)
(* The sequential game of life: update_grid of grid.c takes one generation *)
(* to the next.                                                            *)
(***************************************************************************)
EXTENDS Grid

VARIABLE world

update_grid(src) == [cell \in Cells |-> is_alive(cell, src)]

LifeInit == world \in Seeds
Generation == world' = update_grid(world)
LifeSpec == LifeInit /\ [][Generation]_world
=============================================================================

--------------------------- MODULE MCBarrierSync ---------------------------
(***************************************************************************)
(* Instances of BarrierSync for TLC.  Barrier 0 is the anonymous one, 1 a  *)
(* tagged one, as in blts_sync.c:55.                                       *)
(***************************************************************************)
EXTENDS BarrierSync

\* Never the same barrier twice in a row.
Alternating == <<0, 1, 0>>

\* The anonymous barrier twice: the shortest schedule with a reuse.
Twice == <<0, 0>>
=============================================================================

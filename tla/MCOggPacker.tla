---------------------------- MODULE MCOggPacker ----------------------------
(* Model checking of OggPacker: the limits of the format scaled down. *)
EXTENDS OggPacker

SomeSizes == {1, 12}
SomeSteps == {1}
SomeDelays == {2}
=============================================================================

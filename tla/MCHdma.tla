------------------------------- MODULE MCHdma -------------------------------
(* Hdma with a PPU of 2 visible lines and one blank line. *)
EXTENDS Hdma

const_DrawLengths == {1, 2}
=============================================================================

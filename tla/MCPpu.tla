------------------------------- MODULE MCPpu -------------------------------
(* Ppu on a screen of 2 visible and 2 blank lines with short modes. *)
EXTENDS Ppu

const_DrawLengths == {1, 2}
const_LycValues == {0, 2}
const_WyValues == {1, 9}
============================================================================

---------------------------- MODULE Mode3Length ----------------------------
(***************************************************************************)
(* How long mode 3 of a line lasts: calc_mode3_len() of ppu/ppu.rs.  Its   *)
(* loop moves a column over the line and fetches each sprite of the buffer *)
(* when the column reaches it; a fetch costs cycles, and so does the part  *)
(* of a background tile that was still to be fetched.  The length goes     *)
(* into the countdown of mode 3 and, as 94 - length, into that of mode 0,  *)
(* where it must not under-run (Ppu, DrawLengthsFit).                      *)
(*                                                                         *)
(* A definition Op_Fault is Op with a plausible mistake in it; nothing     *)
(* uses it.                                                                *)
(***************************************************************************)
EXTENDS Integers, Sequences, FiniteSets

CONSTANTS
    Tile,         \* pixels of a tile in each direction: 8
    Width,        \* pixels of a line: 160
    MaxSprites,   \* sprites the PPU shows in a line: 10
    DrawCycles    \* CYCLES_PER_DRAW, mode 3 without penalties: 43

ASSUME Sizes ==
    /\ Tile \in Nat \ {0} /\ Width \in Nat
    /\ MaxSprites \in Nat /\ DrawCycles \in Nat

VARIABLES
    sprite_buffer,      \* the sprites of the line, the first to be painted first
    column,             \* x of the loop
    bg_fifo_count,
    did_sprite_fetch,
    sprite_mask,        \* sprites fetched, counted from the end of the buffer
    sprite_penalty

loopVars == <<column, bg_fifo_count, did_sprite_fetch, sprite_mask, sprite_penalty>>
lengthVars == <<sprite_buffer, loopVars>>

FetchCycles == 6
WindowCycles == 6

\* The loop before its first round; objects switched off end it at once.
LoopStart(obj_enable) ==
    /\ column = IF obj_enable THEN 0 ELSE Width
    /\ bg_fifo_count = Tile
    /\ did_sprite_fetch = FALSE
    /\ sprite_mask = {}
    /\ sprite_penalty = 0

StartLoop(obj_enable) ==
    /\ column' = (IF obj_enable THEN 0 ELSE Width)
    /\ bg_fifo_count' = Tile
    /\ did_sprite_fetch' = FALSE
    /\ sprite_mask' = {}
    /\ sprite_penalty' = 0

Sprites == 1 .. Len(sprite_buffer)
FromEnd(i) == sprite_buffer[Len(sprite_buffer) + 1 - i]

\* The column has come to the sprite, and it was not fetched.
Reached(i) == i \notin sprite_mask /\ FromEnd(i).x < column + Tile

FetchSprite ==
    /\ column < Width
    /\ \E i \in Sprites :
          /\ Reached(i) /\ \A j \in 1 .. i - 1 : ~Reached(j)
          /\ sprite_mask' = sprite_mask \cup {i}
    /\ sprite_penalty' = sprite_penalty + FetchCycles
    /\ did_sprite_fetch' = TRUE
    /\ UNCHANGED <<sprite_buffer, column, bg_fifo_count>>

\* saturating_sub
Remaining == IF bg_fifo_count < 6 THEN 6 - bg_fifo_count ELSE 0

NextColumn_KeepsFetch ==
    /\ column < Width
    /\ \A i \in Sprites : ~Reached(i)
    /\ sprite_penalty' = IF did_sprite_fetch THEN sprite_penalty + Remaining ELSE sprite_penalty
    /\ bg_fifo_count' = Tile - (column % Tile)
    /\ column' = column + 1
    /\ UNCHANGED <<sprite_buffer, sprite_mask, did_sprite_fetch>>

NextColumn ==
    /\ column < Width
    /\ \A i \in Sprites : ~Reached(i)
    /\ sprite_penalty' = IF did_sprite_fetch THEN sprite_penalty + Remaining ELSE sprite_penalty
    /\ did_sprite_fetch' = FALSE
    /\ bg_fifo_count' = Tile - (column % Tile)
    /\ column' = column + 1
    /\ UNCHANGED <<sprite_buffer, sprite_mask>>

LoopStep == FetchSprite \/ NextColumn
LoopEnded == column = Width

calc_mode3_len(scx, window) ==
    DrawCycles + ((scx % Tile) + (IF window THEN WindowCycles ELSE 0) + sprite_penalty) \div 4

\* calc_mode3_len() on its own, for any buffer an OAM scan may leave.
LengthInit ==
    /\ sprite_buffer \in Seq([x : Nat])
    /\ Len(sprite_buffer) <= MaxSprites
    /\ \E obj_enable \in BOOLEAN : LoopStart(obj_enable)

LengthSpec == LengthInit /\ [][LoopStep]_lengthVars

----------------------------------------------------------------------------
\* Whatever the sprites, their order and the scrolling, mode 3 stays below a
\* bound; with the sizes of the Game Boy the bound is 73, so that 94 - length,
\* the next countdown, is 21 at least.
LongestDraw == DrawCycles + (Tile - 1 + WindowCycles + 11 * MaxSprites) \div 4

\* A sprite is fetched once, when the column has come to it and before it has
\* gone on, and each costs its fetch and at most five cycles more: no pattern
\* of sprites makes the loop pay twice for one or leave one out.
FetchedOnce ==
    /\ sprite_penalty >= FetchCycles * Cardinality(sprite_mask)
    /\ sprite_penalty <= 11 * Cardinality(sprite_mask)
    /\ \A i \in sprite_mask : FromEnd(i).x < column + Tile
    /\ 0 < column /\ column < Width =>
          \A i \in Sprites : FromEnd(i).x < column + Tile - 1 => i \in sprite_mask

\* The length is that of mode 3 without penalties at least, and below the bound.
LengthBounded ==
    \A scx \in Nat, window \in BOOLEAN : calc_mode3_len(scx, window) \in DrawCycles .. LongestDraw
============================================================================

----------------------------- MODULE Scanline ------------------------------
(***************************************************************************)
(* One line of the picture, ppu/ppu.rs: mode_oam_scan() at the start of    *)
(* mode 2 picks the sprites; the program, or an OAM DMA, changes registers *)
(* and OAM; mode_draw() at the start of mode 3 paints background, window   *)
(* and sprites into the line and computes the length of mode 3.            *)
(*                                                                         *)
(* A pixel is the place in VRAM its two bits come from: tile, row in it,   *)
(* bit in the row (bit Tile - 1 is the leftmost).  Ink says which of them  *)
(* are not color 0, which is all that priorities depend on; palettes are   *)
(* left out.  A definition Op_Fault is Op with a plausible mistake in it.  *)
(***************************************************************************)
EXTENDS Mode3Length, SequencesExt

CONSTANTS
    MapTiles,     \* tiles of a tile map in each direction: 32
    MapTile,      \* [tilemap bit -> [row, column -> the tile number and its CGB attributes]]
    TileNumbers,      \* tile numbers a map can hold: 256
    Ink,          \* set of <<tile, row, bit>> in VRAM that are not color 0
    VisibleLines,
    Scenes,       \* registers and OAM at the start of a frame
    Changes       \* registers a program may change in mode 2

SpriteType == [x : Nat, y : Nat, tile : Nat,
               behind : BOOLEAN, x_flip : BOOLEAN, y_flip : BOOLEAN, bank : BOOLEAN]

\* The registers that drawing reads; opri, which the scan reads, with them.
Flags == {"obj_enable", "obj_size", "wnd_enable", "wnd_tilemap", "bg_tilemap", "bg_wnd_tiles",
          "bit_0", "opri"}
Positions == {"scx", "scy", "wx", "wy"}
Typed(values) ==
    \A r \in DOMAIN values : (r \in Flags /\ values[r] \in BOOLEAN) \/ (r \in Positions /\ values[r] \in Nat)

\* A line and the lines of a frame fit in a map, a tile number is one.
ASSUME Maps ==
    /\ {MapTiles, TileNumbers, VisibleLines} \subseteq Nat \ {0}
    /\ Width <= Tile * (MapTiles - 1) /\ VisibleLines <= Tile * MapTiles
    /\ \A tilemap \in BOOLEAN, row, col \in 0 .. MapTiles - 1 :
          MapTile[tilemap][<<row, col>>].number \in 0 .. TileNumbers - 1

ASSUME Inputs ==
    /\ \A scene \in Scenes :
          /\ scene.cgb \in BOOLEAN /\ scene.oam \in Seq(SpriteType)
          /\ Typed(scene.regs) /\ DOMAIN scene.regs = Flags \cup Positions
    /\ \A change \in Changes : Typed(change)

\* Where a sprite of height 8 or 16 is shown starts at y - 16 and x - 8.
TopMargin == 2 * Tile
Columns == 0 .. Width - 1

VARIABLES
    phase,        \* where the line is
    ly,
    cgb,
    regs,
    oam,
    draw_window, window_line_counter,
    fetcher_x,
    pos,            \* x in the loops
    window_pos,   \* what draw_window() returns
    line,         \* rt[ly]
    bg_scanline_mask,
    draw_length,
    seen          \* history: OAM, obj_size and opri as the scan has found them

inputVars == <<cgb, regs, oam, seen>>
lineVars == <<line, bg_scanline_mask>>
windowVars == <<draw_window, window_line_counter, window_pos>>
lineStateVars == <<phase, ly, inputVars, windowVars, fetcher_x, pos, lineVars, draw_length, lengthVars>>

NoWindow == -1
Blank == <<"blank">>                                \* get_dmg_color(0)
Pixel(kind, bank, tile, row, bit) == <<kind, bank, tile, row, bit>>
HasInk(pixel) == pixel # Blank /\ <<pixel[3], pixel[4], pixel[5]>> \in Ink

LineInit ==
    /\ phase = "Scan" /\ ly = 0
    /\ \E scene \in Scenes : cgb = scene.cgb /\ regs = scene.regs /\ oam = scene.oam
    /\ draw_window = FALSE /\ window_line_counter = 0 /\ window_pos = NoWindow
    /\ fetcher_x = 0 /\ pos = 0
    /\ line = [c \in Columns |-> Blank]
    /\ bg_scanline_mask = [c \in Columns |-> [pixel |-> Blank, prio |-> FALSE]]
    /\ draw_length = 0
    /\ sprite_buffer = <<>> /\ LoopStart(FALSE)
    /\ seen = [oam |-> oam, obj_size |-> regs.obj_size, opri |-> regs.opri]

-----------------------------------------------------------------------------
(* mode_oam_scan() *)

Height(obj_size) == IF obj_size THEN 2 * Tile ELSE Tile
OnLine(o, obj_size) == ly + TopMargin >= o.y /\ ly + TopMargin < o.y + Height(obj_size)

\* The sprites pushed when the first n entries of OAM are scanned; ten at most.
Selected ==
    LET Pushed[n \in 0 .. Len(oam)] ==
            IF n = 0 THEN <<>>
            ELSE IF OnLine(oam[n], regs.obj_size) /\ Len(Pushed[n - 1]) < MaxSprites
                 THEN Append(Pushed[n - 1], oam[n])
                 ELSE Pushed[n - 1]
    IN  Pushed[Len(oam)]

\* sort_by, descending and stable: after those that are not less
Insert(sorted, o) ==
    LET before == {k \in DOMAIN sorted : sorted[k].x >= o.x}
    IN  [k \in 1 .. Len(sorted) + 1 |->
            IF k \in before THEN sorted[k]
            ELSE IF k = 1 \/ k - 1 \in before THEN o
            ELSE sorted[k - 1]]

SortedByX(s) ==
    LET Sorted[n \in 0 .. Len(s)] == IF n = 0 THEN <<>> ELSE Insert(Sorted[n - 1], s[n])
    IN  Sorted[Len(s)]

PaintOrder_NoReverse == IF regs.opri THEN SortedByX(Selected) ELSE Selected
PaintOrder == IF regs.opri THEN SortedByX(Reverse(Selected)) ELSE Reverse(Selected)

mode_oam_scan ==
    /\ phase = "Scan" /\ phase' = "Scanned"
    /\ sprite_buffer' = PaintOrder
    /\ seen' = [oam |-> oam, obj_size |-> regs.obj_size, opri |-> regs.opri]
    /\ UNCHANGED <<ly, cgb, regs, oam, windowVars, fetcher_x, pos, lineVars, draw_length, loopVars>>

\* write_opri() writes nothing on a DMG.
Writes(r) == r = "opri" => cgb

\* A register written in mode 2.
WriteRegister ==
    /\ phase = "Scanned" /\ phase' = "Changed"
    /\ \E change \in Changes :
          regs' = [r \in DOMAIN regs |->
                      IF r \in DOMAIN change /\ Writes(r) THEN change[r] ELSE regs[r]]
    /\ UNCHANGED <<ly, cgb, oam, seen, windowVars, fetcher_x, pos, lineVars, draw_length, lengthVars>>

\* oam_dma() in mode 2: it is not locked out and may move any sprite.
oam_dma ==
    /\ phase = "Scanned" /\ phase' = "Changed"
    /\ oam' = [i \in DOMAIN oam |-> [oam[i] EXCEPT !.y = 0]]
    /\ UNCHANGED <<ly, cgb, regs, seen, windowVars, fetcher_x, pos, lineVars, draw_length, lengthVars>>

\* update_mode() at the end of mode 2 calls mode_draw().
StartDraw ==
    /\ phase \in {"Scanned", "Changed"} /\ phase' = "Background"
    /\ draw_window' = (draw_window \/ regs.wy = ly)
    /\ window_pos' = NoWindow
    /\ fetcher_x' = 0 /\ pos' = 0
    /\ UNCHANGED <<ly, inputVars, window_line_counter, lineVars, draw_length, lengthVars>>

-----------------------------------------------------------------------------
(* draw_background() and draw_window() *)

\* fetch_bg_tile_number()
fetch_bg_tile_number(is_window) ==
    IF is_window
    THEN MapTile[regs.wnd_tilemap][<<window_line_counter \div Tile, fetcher_x>>]
    ELSE MapTile[regs.bg_tilemap][<<((ly + regs.scy) % (Tile * MapTiles)) \div Tile,
                                    ((regs.scx \div Tile) + fetcher_x) % MapTiles>>]

SignedNumber(number) == IF number < TileNumbers \div 2 THEN number ELSE number - TileNumbers
\* Addressing from 8000 counts up from 0, addressing from 9000 is signed.
TileIndex(number) == IF regs.bg_wnd_tiles THEN number ELSE TileNumbers + SignedNumber(number)

\* fetch_bg_tile_tuple(): bank, tile and row
FetchRow(cell, is_window) ==
    LET y_base == IF is_window THEN window_line_counter ELSE ly + regs.scy
    IN  <<cgb /\ cell.bank, TileIndex(cell.number),
          (IF cgb /\ cell.y_flip THEN Tile - y_base - 1 ELSE y_base) % Tile>>

\* One round of 'outer: the bits first .. last of a fetched tile, from the left.
PaintTile(is_window, first, last) ==
    LET cell == fetch_bg_tile_number(is_window)
        row  == FetchRow(cell, is_window)
        Shown(c) == LET bit == last - (c - pos)
                    IN  Pixel("bg", row[1], row[2], row[3],
                              IF cgb /\ cell.x_flip THEN Tile - 1 - bit ELSE bit)
        painted == {c \in Columns : c >= pos /\ c - pos <= last - first}
    IN  /\ line' = [c \in Columns |-> IF c \in painted THEN Shown(c) ELSE line[c]]
        /\ bg_scanline_mask' =
              [c \in Columns |-> IF c \in painted THEN [pixel |-> Shown(c), prio |-> cgb /\ cell.prio]
                                                  ELSE bg_scanline_mask[c]]
        /\ fetcher_x' = fetcher_x + 1
        /\ pos' = IF pos + last - first + 1 < Width THEN pos + last - first + 1 ELSE Width

BlankLine ==
    /\ line' = [c \in Columns |-> Blank]
    /\ bg_scanline_mask' = [c \in Columns |-> [pixel |-> Blank, prio |-> FALSE]]
    /\ pos' = Width
    /\ UNCHANGED fetcher_x

\* Bits left of the fine scroll are not shown of the first tile.
LastBit_NoFineScroll == Tile - 1
LastBit == Tile - 1 - (IF pos = 0 THEN regs.scx % Tile ELSE 0)

draw_background ==
    /\ phase = "Background" /\ pos < Width
    /\ IF ~cgb /\ ~regs.bit_0 THEN BlankLine ELSE PaintTile(FALSE, 0, LastBit)
    /\ UNCHANGED <<phase, ly, inputVars, windowVars, draw_length, lengthVars>>

WindowShown ==
    /\ regs.wnd_enable /\ draw_window
    /\ cgb \/ regs.bit_0

\* saturating_sub
wx_sub7 == IF regs.wx < Tile - 1 THEN 0 ELSE regs.wx - (Tile - 1)
\* Of a window left of the screen the first tile starts as many bits early;
\* the bits left out are those on its right.
skip_pixels == IF regs.wx < Tile - 1 THEN Tile - 1 - regs.wx ELSE 0

BackgroundDone ==
    /\ phase = "Background" /\ pos = Width
    /\ fetcher_x' = 0
    /\ \/ /\ WindowShown /\ wx_sub7 < Width
          /\ phase' = "Window" /\ pos' = wx_sub7
       \/ /\ ~(WindowShown /\ wx_sub7 < Width)
          /\ phase' = "Sprites" /\ pos' = 0
    /\ UNCHANGED <<ly, inputVars, windowVars, lineVars, draw_length, lengthVars>>

draw_window_tile ==
    /\ phase = "Window" /\ pos < Width
    /\ PaintTile(TRUE, IF fetcher_x = 0 THEN skip_pixels ELSE 0, Tile - 1)
    /\ UNCHANGED <<phase, ly, inputVars, windowVars, draw_length, lengthVars>>

WindowDone ==
    /\ phase = "Window" /\ pos = Width
    /\ window_line_counter' = window_line_counter + 1
    /\ window_pos' = wx_sub7
    /\ phase' = "Sprites" /\ pos' = 0
    /\ UNCHANGED <<ly, inputVars, draw_window, fetcher_x, lineVars, draw_length, lengthVars>>

-----------------------------------------------------------------------------
(* draw_sprites(): the last painted is on top.  pos counts the sprites. *)

\* With obj_size as it is now, which need not be what the scan has seen.
SpriteRow(o) ==
    LET height == Height(regs.obj_size)
        row    == IF o.y_flip THEN height - (ly - o.y) - 1 ELSE ly - o.y
    IN  row % height

SpriteBase(o) == IF regs.obj_size THEN o.tile - (o.tile % 2) ELSE o.tile

SpritePixel(o, c) ==
    LET bit == o.x - 1 - c
        row == SpriteRow(o)
    IN  Pixel("obj", cgb /\ o.bank, SpriteBase(o) + row \div Tile, row % Tile,
              IF o.x_flip THEN Tile - 1 - bit ELSE bit)

Spans(o, c) == c < o.x /\ o.x <= c + Tile

PriorityOff == cgb /\ ~regs.bit_0     \* cgb_bg_wnd_prio_master_disable
OnGround(c) == HasInk(bg_scanline_mask[c].pixel)

\* The CGB map attribute that puts the background first.
MapHides(o, c) == ~PriorityOff /\ bg_scanline_mask[c].prio /\ OnGround(c)
SpriteHides(o, c) == ~PriorityOff /\ o.behind /\ OnGround(c)

\* A sprite behind the background still covers, on the DMG, those below it.
Painted(o, c) ==
    CASE ~Spans(o, c) \/ MapHides(o, c) \/ ~HasInk(SpritePixel(o, c)) -> line[c]
      [] OTHER -> IF SpriteHides(o, c)
                  THEN (IF cgb THEN line[c] ELSE bg_scanline_mask[c].pixel)
                  ELSE SpritePixel(o, c)

draw_sprite ==
    /\ phase = "Sprites" /\ regs.obj_enable /\ pos < Len(sprite_buffer)
    /\ pos' = pos + 1
    /\ line' = [c \in Columns |-> Painted(sprite_buffer[pos + 1], c)]
    /\ UNCHANGED <<phase, ly, inputVars, windowVars, fetcher_x, bg_scanline_mask, draw_length, lengthVars>>

SpritesDone ==
    /\ phase = "Sprites" /\ (pos = Len(sprite_buffer) \/ ~regs.obj_enable)
    /\ phase' = "Length"
    /\ pos' = 0
    /\ UNCHANGED <<ly, inputVars, windowVars, fetcher_x, lineVars, draw_length, sprite_buffer>>
    /\ StartLoop(regs.obj_enable)

-----------------------------------------------------------------------------
CountLength ==
    /\ phase = "Length" /\ LoopStep
    /\ UNCHANGED <<phase, ly, inputVars, windowVars, fetcher_x, pos, lineVars, draw_length>>

LengthDone ==
    /\ phase = "Length" /\ LoopEnded
    /\ phase' = "Drawn"
    /\ draw_length' = calc_mode3_len(regs.scx, window_pos # NoWindow)
    /\ StartLoop(FALSE)
    /\ UNCHANGED <<ly, inputVars, windowVars, fetcher_x, pos, lineVars, sprite_buffer>>

\* Modes 3 and 0 go by, and after the last line the blank ones: the buffers
\* keep what the line has left in them.
NextLine ==
    /\ phase = "Drawn" /\ phase' = "Scan"
    /\ ly' = (ly + 1) % VisibleLines
    /\ IF ly' = 0 THEN draw_window' = FALSE /\ window_line_counter' = 0
                  ELSE UNCHANGED <<draw_window, window_line_counter>>
    /\ fetcher_x' = 0 /\ window_pos' = NoWindow
    /\ UNCHANGED <<inputVars, pos, lineVars, draw_length, lengthVars>>

mode_draw ==
    \/ StartDraw \/ draw_background \/ BackgroundDone \/ draw_window_tile \/ WindowDone
    \/ draw_sprite \/ SpritesDone \/ CountLength \/ LengthDone

LineNext == mode_oam_scan \/ WriteRegister \/ oam_dma \/ mode_draw \/ NextLine

LineSpec == LineInit /\ [][LineNext]_lineStateVars

-----------------------------------------------------------------------------
(* The picture as the hardware promises it, pixel by pixel *)

MapPixel(tilemap, py, px) ==
    LET cell == MapTile[tilemap][<<py \div Tile, px \div Tile>>]
        row  == IF cgb /\ cell.y_flip THEN Tile - 1 - (py % Tile) ELSE py % Tile
        bit  == IF cgb /\ cell.x_flip THEN px % Tile ELSE Tile - 1 - (px % Tile)
        \* numbers of the upper half are the same tile in both addressing modes
        tile == IF regs.bg_wnd_tiles \/ cell.number >= TileNumbers \div 2 THEN cell.number
                                                                      ELSE cell.number + TileNumbers
    IN  [pixel |-> Pixel("bg", cgb /\ cell.bank, tile, row, bit), prio |-> cgb /\ cell.prio]

InWindow(c) == window_pos # NoWindow /\ c >= window_pos

\* The window, where it is shown, is the line of its map after the last one
\* shown in this frame, from its left edge; elsewhere the map at scy and scx,
\* which wraps.
Ground(c) ==
    IF ~cgb /\ ~regs.bit_0 THEN [pixel |-> Blank, prio |-> FALSE]
    ELSE IF InWindow(c) THEN MapPixel(regs.wnd_tilemap, window_line_counter - 1, c - (regs.wx - (Tile - 1)))
    ELSE MapPixel(regs.bg_tilemap, (ly + regs.scy) % (Tile * MapTiles), (c + regs.scx) % (Tile * MapTiles))

\* Every pixel below the sprites is that of its place on the map, under any
\* scrolling, start of the window and flips.  WX below 7 is left out: there
\* the window lacks columns on the right of its first tile.
GroundShown ==
    phase \in {"Sprites", "Length", "Drawn"} =>
        \A c \in Columns : (InWindow(c) /\ regs.wx < Tile - 1) \/ bg_scanline_mask[c] = Ground(c)

\* The sprites of the line: the first MaxSprites that the scan saw on it.
Candidates ==
    LET on == {i \in DOMAIN seen.oam : OnLine(seen.oam[i], seen.obj_size)}
    IN  {i \in on : Cardinality({j \in on : j < i}) < MaxSprites}

Above(i, j) ==
    \/ seen.opri /\ seen.oam[i].x < seen.oam[j].x
    \/ (~seen.opri \/ seen.oam[i].x = seen.oam[j].x) /\ i < j

InkAt(c) == {i \in Candidates : Spans(seen.oam[i], c) /\ HasInk(SpritePixel(seen.oam[i], c))}
Hidden(i, c) == MapHides(seen.oam[i], c) \/ SpriteHides(seen.oam[i], c)

\* Of these sprites the one above all others, and what a column shows when that
\* sprite decides: the ground, if it hides the sprite.
Uppermost(sprites) == {i \in sprites : \A j \in sprites \ {i} : Above(i, j)}
DecidedBy(sprites, c) ==
    LET above == Uppermost(sprites)
    IN  IF ~regs.obj_enable \/ above = {} \/ \E i \in above : Hidden(i, c)
        THEN bg_scanline_mask[c].pixel
        ELSE SpritePixel(seen.oam[CHOOSE i \in above : TRUE], c)

\* The masking rule that the comment in draw_sprites() states: the uppermost
\* sprite decides, and where the ground hides it those below are not shown
\* either.
Masked(c) == line[c] = DecidedBy(InkAt(c), c)
SpritesMasked == phase \in {"Length", "Drawn"} => \A c \in Columns : Masked(c)

\* What the code does instead, on the CGB: a hidden sprite covers nothing, so
\* the uppermost of those that are not hidden decides.
Deciding(c) == IF cgb THEN {i \in InkAt(c) : ~Hidden(i, c)} ELSE InkAt(c)

\* Of the first ten sprites of OAM on the line, whether visible or not, the
\* uppermost that decides is shown: the order they are kept and painted in
\* gives just that, though registers and OAM change between scan and painting.
\* Which sprites decide is the masking rule on the DMG.  On the CGB it is the
\* code's own rule, which departs from the comment in draw_sprites() (there
\* marked as a @todo): through a sprite that the ground hides one below it
\* shows.
SpritesShown ==
    phase \in {"Length", "Drawn"} => \A c \in Columns : line[c] = DecidedBy(Deciding(c), c)

\* The masking rule holds on the DMG, and on the CGB wherever the uppermost
\* sprite is not hidden.
MaskedButOnCgb ==
    phase \in {"Length", "Drawn"} =>
        \A c \in Columns : Masked(c) \/ (cgb /\ \E i \in Uppermost(InkAt(c)) : Hidden(i, c))
=============================================================================

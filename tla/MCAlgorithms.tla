--------------------------- MODULE MCAlgorithms ---------------------------
(* The two algorithms of the emulator that are functions of their input,   *)
(* arithmetic on bytes and the drawing of a line.  They share nothing: a    *)
(* behavior is a run of the one or of the other.                           *)
EXTENDS MultiByte, Scanline

\* the ends of the digits, of the nibbles, of the signed and unsigned bytes
const_Operands == {0, 1, 9, 15, 16, 80, 128, 143, 153, 255}

Cell(n, f, b) == [number |-> n, x_flip |-> f, y_flip |-> ~f, bank |-> f, prio |-> b]

\* Neighbours differ in number, flips and priority.
const_MapTile ==
    [tilemap \in BOOLEAN |->
        [rc \in (0 .. MapTiles - 1) \X (0 .. MapTiles - 1) |->
            Cell((rc[1] + rc[2] + IF tilemap THEN 2 ELSE 0) % TileNumbers, rc[2] = 1, rc[1] # rc[2])]]

\* Full tiles, empty ones, and tiles with ink on one side or in one row.
const_Ink ==
    {<<t, r, b>> \in (0 .. 2 * TileNumbers - 1) \X (0 .. Tile - 1) \X (0 .. Tile - 1) :
        CASE t = 0 -> TRUE [] t = 1 -> b = 0 [] t = 2 -> r = 0 [] t = 3 -> b = r
          [] t = 4 -> FALSE [] OTHER -> b # r}

Sprite(px, py, t, behind, flip) ==
    [x |-> px, y |-> py, tile |-> t, behind |-> behind, x_flip |-> flip, y_flip |-> flip, bank |-> flip]

Registers ==
    [obj_enable |-> TRUE, obj_size |-> FALSE, wnd_enable |-> FALSE, wnd_tilemap |-> TRUE,
     bg_tilemap |-> FALSE, bg_wnd_tiles |-> TRUE, bit_0 |-> TRUE, opri |-> TRUE,
     scx |-> 0, scy |-> 0, wx |-> 0, wy |-> 1]

Scene(c, r, o) == [cgb |-> c, regs |-> r, oam |-> o]
Off == Sprite(2, 0, 0, FALSE, FALSE)

\* Ground: scrolls and window positions on both models, with one sprite.
GroundScenes ==
    {Scene(c, [Registers EXCEPT !.scx = sx, !.scy = sy, !.wnd_enable = w[1], !.wx = w[2], !.wy = wy,
                                !.bg_wnd_tiles = d[1], !.bit_0 = d[2]],
           <<Sprite(2, 4, 1, TRUE, FALSE), Off, Off>>) :
        c \in BOOLEAN, sx \in 0 .. Tile * MapTiles - 1, sy \in {0, Tile * MapTiles - 1},
        w \in {<<FALSE, 0>>, <<TRUE, 0>>, <<TRUE, 1>>, <<TRUE, 3>>}, wy \in {0, 1},
        d \in {<<TRUE, TRUE>>, <<FALSE, TRUE>>, <<FALSE, FALSE>>}}

\* Sprites: any three of these, both orders of priority.
Some ==
    {Sprite(1, 4, 0, FALSE, FALSE), Sprite(3, 4, 0, TRUE, FALSE), Sprite(3, 4, 1, FALSE, FALSE),
     Sprite(3, 3, 3, FALSE, TRUE), Sprite(4, 5, 2, TRUE, TRUE), Sprite(0, 4, 0, FALSE, FALSE), Off}
SpriteScenes ==
    {Scene(m[1], [Registers EXCEPT !.opri = m[2], !.bit_0 = m[3], !.obj_size = m[4]], o) :
        m \in {<<FALSE, TRUE, TRUE, FALSE>>, <<TRUE, FALSE, TRUE, FALSE>>, <<TRUE, TRUE, FALSE, TRUE>>},
        o \in Some \X Some \X Some}

const_Scenes == GroundScenes \cup SpriteScenes

const_Changes == {[obj_size |-> TRUE, opri |-> FALSE], [scx |-> 3, wnd_enable |-> TRUE, opri |-> TRUE]}

VARIABLE drawing      \* which of the two runs

AlgorithmsInit ==
    /\ Init /\ LineInit
    /\ \/ drawing = TRUE
       \/ drawing = FALSE /\ ~cgb /\ regs = Registers /\ oam = <<Off, Off, Off>>

AlgorithmsNext ==
    /\ UNCHANGED drawing
    /\ \/ ~drawing /\ Next /\ UNCHANGED lineStateVars
       \/ drawing /\ LineNext /\ UNCHANGED vars

AlgorithmsSpec == AlgorithmsInit /\ [][AlgorithmsNext]_<<drawing, vars, lineStateVars>>
===========================================================================

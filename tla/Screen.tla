-------------------------------- MODULE Screen --------------------------------
(***************************************************************************)
(* What the monitor shows: the two terminals and the tty task (dev_tty.c)  *)
(* over the frame buffer (dev_video.c).  Input models what happens to an   *)
(* event on its way here and to a character that is cooked.                *)
(*                                                                         *)
(* The tty task is the only task of this kernel that writes to a terminal, *)
(* so an event is one step.  The monitor is a function from pixels to bits *)
(* (foreground or background).  A character is its code.                   *)
(***************************************************************************)
EXTENDS Integers, Sequences

CONSTANTS
  Width, Height,           \* pixels of the monitor
  TEXTURE_W, TEXTURE_H,    \* of a texture (8 and 8): a glyph is two, one above the other
  Font,                    \* code -> its rows from the top, numbers of TEXTURE_W bits
  Letters,                 \* characters that can be typed and are drawn as themselves
  WelcomeText

NUL == 0
BS == 8
LF == 10
CR == 13
CURSOR == 219

columns == Width \div TEXTURE_W
lines == Height \div (2 * TEXTURE_H)

ASSUME ScreenAssumption ==
  /\ Width \in Nat /\ Height \in Nat /\ TEXTURE_W \in Nat \ {0} /\ TEXTURE_H \in Nat \ {0}
  /\ columns \in Nat \ {0, 1} /\ lines \in Nat \ {0, 1}
  /\ DOMAIN Font \subseteq Nat /\ WelcomeText \in Seq(DOMAIN Font \cup {LF})
  /\ Letters \cup {NUL, CURSOR} \subseteq DOMAIN Font /\ Letters \cap {NUL, BS, LF, CR} = {}

Ttys == {"tty1", "tty2"}
Displays == [tty1 |-> 0, tty2 |-> 1]     \* ttydev->id - 1
Size == lines * columns
Cells == 0 .. Size - 1
Pixels == (0 .. Width - 1) \X (0 .. Height - 1)

VARIABLES
  tty,             \* terminal -> its cells, cursor and dirty marks
  panel,           \* pixel -> its bit on the monitor
  current,         \* info->current
  show_cursor,
  ttydev           \* the terminal that the tty task serves

screenVars == <<tty, panel, current, show_cursor, ttydev>>

-----------------------------------------------------------------------------
(* The frame buffer *)

(* The textures 2 ch + 1 and 2 ch + 2 are the halves of the glyph of ch;   *)
(* the highest bit of a row is its left pixel.                             *)
Texture(i) ==
  LET ch == (i - 1) \div 2  down == IF i % 2 = 1 THEN 0 ELSE TEXTURE_H
  IN [y \in 0 .. TEXTURE_H - 1 |-> [x \in 0 .. TEXTURE_W - 1 |->
        (Font[ch][y + down + 1] \div 2^(TEXTURE_W - 1 - x)) % 2]]

(* gpu_fbdraw writes the pixel q; what is beyond the monitor is cut off. *)
fbdraws(sp, q) ==
  LET len == IF sp.x + TEXTURE_W >= Width THEN Width - sp.x ELSE TEXTURE_W
  IN q[1] \in sp.x .. sp.x + len - 1 /\ q[2] \in sp.y .. sp.y + TEXTURE_H - 1

(* fb_write of sprites: those of the display that is shown are drawn.  No  *)
(* two sprites of a terminal overlap.                                      *)
fb_write(pixels, sprites, shown) ==
  [q \in Pixels |->
     LET drawn == {sp \in sprites : sp.texture > 0 /\ sp.display = shown /\ fbdraws(sp, q)}
     IN IF drawn = {} THEN pixels[q]
        ELSE LET sp == CHOOSE sp \in drawn : TRUE
             IN Texture(sp.texture)[q[2] - sp.y][q[1] - sp.x]]

-----------------------------------------------------------------------------
(* The operations on a terminal t, with the fields of tty_t. *)

Marked(t, cells) == [t EXCEPT !.dirty = @ \cup cells]
MarkAll(t) == Marked(t, Cells)
LineOf(c) == {d \in Cells : d \div columns = c \div columns}
StartOfLine(c) == (c \div columns) * columns

(* The first line goes, cells and marks; the last one is empty. *)
ScrollUp(t) ==
  [buf |-> [c \in Cells |-> IF c + columns \in Cells THEN t.buf[c + columns] ELSE NUL],
   dirty |-> {c \in Cells : c + columns \in t.dirty} \cup (t.dirty \cap LineOf(Size - 1)),
   cursor |-> t.cursor - columns]

MutMoved(t, cells) == IF t.cursor = Size THEN ScrollUp(t) ELSE Marked(t, cells)

(* Scrolls when the cursor is behind the last cell, else marks the cells. *)
Moved(t, cells) == IF t.cursor = Size THEN MarkAll(ScrollUp(t)) ELSE Marked(t, cells)

Back(t) ==
  IF t.cursor = 0 THEN t
  ELSE [t EXCEPT !.cursor = @ - 1, !.buf[t.cursor - 1] = NUL]

tty_putc(t, ch) ==
  CASE ch = CR -> LET at == StartOfLine(t.cursor)
                  IN Marked([t EXCEPT !.cursor = at], LineOf(at))
    [] ch = BS -> Marked(Back(t), {Back(t).cursor, Back(t).cursor + 1})
    [] ch = LF -> LET next == StartOfLine(t.cursor) + columns
                  IN Moved([t EXCEPT !.cursor = next], LineOf(next - columns) \cup LineOf(next))
    [] OTHER -> Moved([t EXCEPT !.buf[t.cursor] = ch, !.cursor = @ + 1],
                      {t.cursor, t.cursor + 1})

(* The character drawn in a cell: 0xdb, a full block, at a shown cursor. *)
Glyph(t, shown, c) == IF shown /\ c = t.cursor THEN CURSOR ELSE t.buf[c]

(* tty_render: two sprites for every dirty cell. *)
Sprites(t, shown, n) ==
  LET Half(c, h) == [x |-> (c % columns) * TEXTURE_W,
                     y |-> (c \div columns) * 2 * TEXTURE_H + h * TEXTURE_H,
                     display |-> Displays[n], texture |-> Glyph(t, shown, c) * 2 + 1 + h]
  IN {Half(c, h) : c \in t.dirty, h \in {0, 1}}

(* The marks are cleared whether or not anything was drawn. *)
Rendered(t) == [t EXCEPT !.dirty = {}]

Blank == [buf |-> [c \in Cells |-> NUL], dirty |-> {}, cursor |-> 0]

(* The welcome text is written to the empty terminal, up to its character i. *)
welcomed[i \in 0 .. Len(WelcomeText)] ==
  IF i = 0 THEN Blank ELSE tty_putc(welcomed[i - 1], WelcomeText[i])

(* tty_init of both terminals prints the welcome text, tty2's unseen; the  *)
(* tty task begins by drawing all of tty1.                                 *)
ScreenInit ==
  LET t == welcomed[Len(WelcomeText)] IN
  /\ tty = [n \in Ttys |-> Rendered(t)]
  /\ current = 0 /\ show_cursor = TRUE /\ ttydev = "tty1"
  /\ panel = fb_write([q \in Pixels |-> 0], Sprites(MarkAll(t), TRUE, "tty1"), 0)

-----------------------------------------------------------------------------
(* Events of the tty task *)

(* tty_write of t to the terminal n, then the end of the loop: the cursor  *)
(* is marked, and drawn as `shown' says.                                   *)
ShowWith(n, t, shown) ==
  LET marked == Marked(Rendered(t), {t.cursor})
      written == fb_write(panel, Sprites(t, show_cursor, n), current')
  IN /\ show_cursor' = shown
     /\ panel' = fb_write(written, Sprites(marked, shown, n), current')
     /\ tty' = [tty EXCEPT ![n] = Rendered(marked)]

(* A character that tty_cook accepts is echoed, and the cursor shown; a    *)
(* backspace at the start of a line is not echoed.                         *)
TypeChar(ch, echoed) ==
  /\ ch # BS => echoed
  /\ UNCHANGED <<current, ttydev>>
  /\ ShowWith(ttydev, IF echoed THEN tty_putc(tty[ttydev], ch) ELSE tty[ttydev], TRUE)

(* alt-1 and alt-2: a switch redraws everything.  Any other combination of *)
(* keys shows the cursor, as if to switch to the same terminal.            *)
TypeAlt(next) ==
  /\ ttydev' = next
  /\ current' = IF next # ttydev THEN Displays[next] ELSE current
  /\ ShowWith(next, IF next # ttydev THEN MarkAll(tty[next]) ELSE tty[next], TRUE)

(* A blank event: more than 500 ms after the last change the cursor blinks. *)
Blink ==
  /\ UNCHANGED <<current, ttydev>>
  /\ ShowWith(ttydev, tty[ttydev], ~show_cursor)

ScreenNext ==
  \/ \E ch \in Letters \cup {LF, BS}, echoed \in BOOLEAN : TypeChar(ch, echoed)
  \/ \E next \in Ttys : TypeAlt(next)
  \/ Blink

ScreenSpec == ScreenInit /\ [][ScreenNext]_screenVars

-----------------------------------------------------------------------------
(* Between events the monitor shows, bit by bit of the font, exactly the   *)
(* terminal that the task serves, with its cursor and no other, although   *)
(* only the cells that were marked are ever drawn; pixels beyond the last  *)
(* column and line are never touched; and no cursor has left its terminal, *)
(* where the next write through it would go astray.                        *)
ScreenFresh ==
  /\ current = Displays[ttydev]
  /\ \A n \in Ttys : tty[n].cursor \in Cells
  /\ \A q \in Pixels :
       LET x == q[1] \div TEXTURE_W  y == q[2] \div (2 * TEXTURE_H)
           row == Font[Glyph(tty[ttydev], show_cursor, y * columns + x)][(q[2] % (2 * TEXTURE_H)) + 1]
       IN panel[q] = IF x < columns /\ y < lines
                     THEN (row \div 2^(TEXTURE_W - 1 - (q[1] % TEXTURE_W))) % 2 ELSE 0
=============================================================================

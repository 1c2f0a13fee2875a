------------------------------ MODULE Console -----------------------------
(***************************************************************************)
(* The display and formatted output: kprintf and kputchar of libk          *)
(* (kstdio), which reach the display of the kernel (i386/display.c)        *)
(* through the putc callback.                                              *)
(*                                                                         *)
(* A character is a string, a control character its name. The tasks that   *)
(* print cannot be preempted, so a call of kprintf is one step. What the   *)
(* display ought to show is given by a terminal that never scrolls: a      *)
(* sheet of paper to which lines are added.                                *)
(***************************************************************************)
EXTENDS Integers, SequencesExt

CONSTANTS VGA_WIDTH, VGA_HEIGHT,
          TAB,                    \* columns between tab stops
          Colors, DefaultColor,
          Calls,                  \* calls of kprintf: sequences of items
          Numbers,                \* calls of arch_display_number
          MAX_CALLS               \* bound on the calls

ASSUME ConsoleAssumption ==
    /\ {VGA_WIDTH, VGA_HEIGHT, TAB, MAX_CALLS} \subseteq Nat \ {0}
    /\ VGA_WIDTH % TAB = 0 /\ DefaultColor \in Colors

VARIABLES display,                \* screen, row, column, color, initialized, outside
          sheet,                  \* the terminal: lines, row, column
          calls

vars == <<display, sheet, calls>>

Cells == 0 .. VGA_WIDTH * VGA_HEIGHT - 1
make_vgaentry(c, color) == <<c, color>>
BlankLine(color) == [x \in 1 .. VGA_WIDTH |-> make_vgaentry(" ", color)]

---------------------------------------------------------------------------
(* The display. outside tells whether anything was written beyond it.      *)
display_putentryat(d, c, x, y) ==
    LET index == y * VGA_WIDTH + x
    IN  [d EXCEPT !.screen = [@ EXCEPT ![index] = make_vgaentry(c, d.color)],
                  !.outside = @ \/ index \notin Cells]

display_scroll(d) ==
    IF d.row < VGA_HEIGHT THEN d
    ELSE [d EXCEPT !.row = VGA_HEIGHT - 1,
                   !.screen = [i \in Cells |-> IF i + VGA_WIDTH \in Cells THEN @[i + VGA_WIDTH]
                                               ELSE make_vgaentry(" ", d.color)]]

Wrap_no_row(d) == IF d.column < VGA_WIDTH THEN d ELSE [d EXCEPT !.column = @ - VGA_WIDTH]

Wrap(d) ==
    IF d.column < VGA_WIDTH THEN d
    ELSE [d EXCEPT !.column = @ - VGA_WIDTH, !.row = @ + 1]

arch_display_putc(d, c) ==
    LET back == IF d.column > 0 THEN d.column - 1 ELSE 0
    IN  IF ~d.initialized THEN d
        ELSE display_scroll(Wrap(
            CASE c = "newline" -> [d EXCEPT !.column = 0, !.row = @ + 1]
              [] c = "return" -> [d EXCEPT !.column = 0]
              [] c = "backspace" ->
                     display_putentryat([d EXCEPT !.column = back], " ", back, d.row)
              [] c = "tab" -> [d EXCEPT !.column = (@ \div TAB + 1) * TAB]
              [] OTHER -> [display_putentryat(d, c, d.column, d.row) EXCEPT !.column = @ + 1]))

Digit(n) == <<"0", "1", "2", "3", "4", "5", "6", "7", "8", "9", "a", "b", "c", "d", "e", "f">>[n + 1]

(* i_convert; arch_display_number stores the same digits in its buffer.    *)
i_convert(val, base) ==
    LET convert[v \in 0 .. val] ==
            IF v < base THEN <<Digit(v)>> ELSE Append(convert[v \div base], Digit(v % base))
    IN  convert[val]

Abs(n) == IF n < 0 THEN -n ELSE n
Sign(n) == IF n < 0 THEN <<"-">> ELSE <<>>

arch_display_number(d, num, x0, y0) ==
    LET put(e, c) ==
            LET wraps == e.x = VGA_WIDTH
                x == IF wraps THEN 0 ELSE e.x
                y == IF wraps THEN e.y + 1 ELSE e.y
            IN  IF y = VGA_HEIGHT THEN [e EXCEPT !.x = x, !.y = y]
                ELSE [d |-> display_putentryat(e.d, c, x, y), x |-> x + 1, y |-> y]
    IN  IF x0 >= VGA_WIDTH \/ y0 >= VGA_HEIGHT THEN d
        ELSE FoldLeft(put, [d |-> d, x |-> x0, y |-> y0], Sign(num) \o i_convert(Abs(num), 10)).d

(* What kprintf passes to kputchar for the items of its format.            *)
Format(item) ==
    CASE item.is \in {"text", "s"} -> item.value
      [] item.is = "c" -> <<item.value>>
      [] item.is \in {"d", "i"} -> Sign(item.value) \o i_convert(Abs(item.value), 10)
      [] item.is = "u" -> i_convert(item.value, 10)
      [] item.is \in {"x", "p"} -> i_convert(item.value, 16)
      [] item.is = "o" -> i_convert(item.value, 8)
      [] item.is = "%" -> <<"%">>
      [] item.is = "unknown" -> <<"%", item.value>>
      [] item.is = "end" -> <<>>

kprintf(d, items) == FoldLeft(arch_display_putc, d, FlattenSeq([i \in DOMAIN items |-> Format(items[i])]))

---------------------------------------------------------------------------
(* The terminal that the display stands for.                               *)
Numeral(n, base) ==
    LET value(s) == FoldLeft(LAMBDA v, k : v * base + k, 0, s)
        digits == CHOOSE s \in UNION {[1 .. k -> 0 .. base - 1] : k \in 1 .. 2} :
                      value(s) = Abs(n) /\ (Len(s) > 1 => s[1] # 0)
    IN  Sign(n) \o [i \in DOMAIN digits |-> Digit(digits[i])]

Meaning(item) ==
    CASE item.is \in {"d", "i", "u"} -> Numeral(item.value, 10)
      [] item.is \in {"x", "p"} -> Numeral(item.value, 16)
      [] item.is = "o" -> Numeral(item.value, 8)
      [] OTHER -> Format(item)

Write(s, c, color) == [s EXCEPT !.lines = [@ EXCEPT ![s.row][s.column] = make_vgaentry(c, color)]]

(* To the next line when the line is full, with a new line when needed.    *)
Advance(s, color) ==
    LET next == IF s.column > VGA_WIDTH THEN [s EXCEPT !.column = 1, !.row = @ + 1] ELSE s
    IN  IF next.row > Len(next.lines)
        THEN [next EXCEPT !.lines = Append(@, BlankLine(color))] ELSE next

Type(s, c, color) ==
    Advance(CASE c = "newline" -> [s EXCEPT !.column = 1, !.row = @ + 1]
              [] c = "return" -> [s EXCEPT !.column = 1]
              [] c = "backspace" -> Write([s EXCEPT !.column = Max({@ - 1, 1})], " ", color)
              [] c = "tab" -> [s EXCEPT !.column =
                                   Min({n \in @ + 1 .. VGA_WIDTH + 1 : (n - 1) % TAB = 0})]
              [] OTHER -> [Write(s, c, color) EXCEPT !.column = @ + 1], color)

TypeAll(s, items, color) ==
    FoldLeft(LAMBDA t, c : Type(t, c, color), s,
             FlattenSeq([i \in DOMAIN items |-> Meaning(items[i])]))

(* A number lies over the lines that the display shows.                    *)
Overlay(s, num, x, y, color) ==
    LET text == Numeral(num, 10)
        first == (Len(s.lines) - VGA_HEIGHT + y) * VGA_WIDTH + x
        place(r, n) == (r - 1) * VGA_WIDTH + n - first
    IN  IF x >= VGA_WIDTH \/ y >= VGA_HEIGHT THEN s
        ELSE [s EXCEPT !.lines = [r \in DOMAIN @ |-> [n \in 1 .. VGA_WIDTH |->
                 IF place(r, n) \in DOMAIN text THEN make_vgaentry(text[place(r, n)], color)
                 ELSE @[r][n]]]]

---------------------------------------------------------------------------
Cleared(initialized) ==
    [screen |-> [i \in Cells |-> make_vgaentry(" ", DefaultColor)], row |-> 0, column |-> 0,
     color |-> DefaultColor, initialized |-> initialized, outside |-> FALSE]

Init ==
    /\ display = Cleared(FALSE)
    /\ sheet = [lines |-> [r \in 1 .. VGA_HEIGHT |-> BlankLine(DefaultColor)],
                row |-> 1, column |-> 1]
    /\ calls = 0

(* arch_init_display clears the screen and sets the default color.         *)
arch_init_display ==
    /\ ~display.initialized
    /\ display' = Cleared(TRUE)
    /\ UNCHANGED <<sheet, calls>>

Kprintf(items) ==
    /\ calls < MAX_CALLS
    /\ calls' = calls + 1
    /\ display' = kprintf(display, items)
    /\ sheet' = IF display.initialized THEN TypeAll(sheet, items, display.color) ELSE sheet

DisplayNumber(num, x, y) ==
    /\ display.initialized /\ calls < MAX_CALLS
    /\ calls' = calls + 1
    /\ display' = arch_display_number(display, num, x, y)
    /\ sheet' = Overlay(sheet, num, x, y, display.color)

arch_display_setcolor(color) ==
    /\ display.color # color
    /\ display' = [display EXCEPT !.color = color]
    /\ UNCHANGED <<sheet, calls>>

Next ==
    \/ arch_init_display
    \/ \E items \in Calls : Kprintf(items)
    \/ \E n \in Numbers : DisplayNumber(n[1], n[2], n[3])
    \/ \E color \in Colors : arch_display_setcolor(color)

Spec == Init /\ [][Next]_vars

---------------------------------------------------------------------------
(* The screen shows the end of what was printed, as if every line ever     *)
(* printed were on one long sheet: scrolling loses and repeats no line,    *)
(* numbers read as their values, and nothing is stored outside of the      *)
(* video memory, wherever the cursor is.                                   *)
ShowsEnd ==
    LET top == Len(sheet.lines) - VGA_HEIGHT
    IN  /\ ~display.outside
        /\ \A i \in Cells : display.screen[i] =
               sheet.lines[top + 1 + (i \div VGA_WIDTH)][1 + (i % VGA_WIDTH)]
        /\ display.row + 1 = sheet.row - top /\ display.column + 1 = sheet.column
============================================================================

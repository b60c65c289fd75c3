----------------------------- MODULE MeterModes -----------------------------
(***************************************************************************)
(* What a meter draws into the rectangle that Header_draw gives it         *)
(* (Meter.c): bars, the graph of the last readings, and LEDs.              *)
(*                                                                         *)
(* Columns are counted from the left end of the rectangle.  The caption of *)
(* a bar or a graph takes CaptionLen columns; values are parts of total.   *)
(***************************************************************************)
EXTENDS Integers, FiniteSets, SequencesExt, Sums

CONSTANTS
  CaptionLen,       \* 3
  MeterTotal,       \* this->total; 0 for the swap of a machine that has none
  MaxItems,         \* values of a bar
  Readings,         \* values a reading may find, also invalid ones
  Texts,            \* what updateValues may write: sequences of "t" and "blank"
  Widths,           \* of the rectangle
  BufferLen,        \* METER_BUFFER_LEN
  PixPerRow, GraphHeight,
  DrawDelay,        \* CRT_delay
  MaxClock, MaxTaken    \* bounds: time, readings of a graph

ASSUME MeterModesAssumption ==
  /\ {CaptionLen, MeterTotal, MaxItems, MaxClock, MaxTaken} \subseteq Nat
  /\ {PixPerRow, GraphHeight, DrawDelay} \subseteq Nat \ {0}
  /\ MeterTotal = 0 => \A value \in Readings : value <= 0    \* no part of nothing
  /\ Readings \subseteq Int /\ Widths \subseteq Nat /\ Texts \subseteq Seq({"t", "blank"})
  /\ BufferLen \in Nat \ {0} /\ BufferLen % 2 = 0

VARIABLES
  screen,   \* the cells a meter has drawn, without its caption
  input,    \* history: what it drew
  graph,    \* drawData: when the next reading is due, and the values
  taken,    \* history: the readings since the mode was set
  wallTime  \* gettimeofday

meterVars == <<screen, input, graph, taken, wallTime>>

NoGraph == [time |-> 0, values |-> [i \in 0 .. BufferLen - 1 |-> 0]]
NotDrawn == [kind |-> "none"]

MetersInit ==
  /\ screen = NotDrawn /\ input = NotDrawn
  /\ graph = NoGraph /\ taken = <<>>
  /\ wallTime \in {0, DrawDelay}
-----------------------------------------------------------------------------
Within(n, low, high) == IF n > high THEN high ELSE IF n < low THEN low ELSE n

(* BarMeterMode_draw: the text at the right end of w columns, cut off      *)
(* behind them; then the blocks of the items over its blanks.              *)

Printed(text, w) ==
  [j \in 0 .. w - 1 |->
    IF Len(text) >= w THEN text[j + 1]
    ELSE IF j < w - Len(text) THEN "blank" ELSE text[j - (w - Len(text)) + 1]]

BlockSize(value, w) ==
  LET v == Within(value, 0, MeterTotal)
  IN  IF v > 0 THEN (v * w + MeterTotal - 1) \div MeterTotal ELSE 0

\* Defect: a block ends where its size says, behind the bar if the items are
\* more than their total.
OffsetsUnbounded(values, w) ==
  LET end[i \in 0 .. Len(values)] == IF i = 0 THEN 0 ELSE end[i - 1] + BlockSize(values[i], w)
  IN  end

\* Where the block of each item ends; the next one begins there.
Offsets(values, w) ==
  LET end[i \in 0 .. Len(values)] ==
        IF i = 0 THEN 0 ELSE Within(end[i - 1] + BlockSize(values[i], w), 0, w)
  IN  end

(* The first loop fills the buffer, the second prints it, in the color of  *)
(* each item; mvaddnstr stops at the end of the buffer.                    *)
Bar(values, text, w) ==
  LET end == Offsets(values, w)
      last == end[Len(values)]
      isIn(j) == {i \in DOMAIN values : end[i - 1] <= j /\ j < end[i]}
  IN  [j \in 0 .. (IF last > w THEN last ELSE w) - 1 |->
        [char |-> IF j < w /\ Printed(text, w)[j] # "blank" THEN "t"
                  ELSE IF isIn(j) # {} THEN "block" ELSE "blank",
         color |-> IF isIn(j) # {} THEN CHOOSE i \in isIn(j) : TRUE ELSE 0]]

\* Two columns for the brackets, one that stays free.
BarWidth(w) == w - 2 - CaptionLen - 1

\* Bars and LEDs keep nothing, so in this model they are drawn only at the beginning.
FreshMeter == input = NotDrawn /\ graph = NoGraph /\ wallTime = 0

DrawBar ==
  /\ FreshMeter
  /\ \E w \in Widths, values \in SeqOf(Readings, MaxItems), text \in Texts :
       /\ input' = [kind |-> "bar", w |-> w, values |-> values, text |-> text]
       /\ screen' = [kind |-> "bar",
                     brackets |-> {CaptionLen, CaptionLen + w - 2 - CaptionLen},
                     cells |-> IF BarWidth(w) < 1 THEN <<>> ELSE Bar(values, text, BarWidth(w))]
       /\ UNCHANGED <<graph, taken, wallTime>>
-----------------------------------------------------------------------------
(* GraphMeterMode_draw: a reading if one is due, then two values in each   *)
(* column, the last ones at the right end.                                 *)

\* Defect: the values are moved whenever the meter is drawn.
ReadGraphAlways(value) ==
  /\ graph' = [time |-> wallTime + DrawDelay,
               values |-> [i \in 0 .. BufferLen - 1 |->
                             IF i < BufferLen - 1 THEN graph.values[i + 1] ELSE value]]
  /\ taken' = IF wallTime >= graph.time THEN Append(taken, value) ELSE taken

ReadGraph(value) ==
  IF wallTime >= graph.time
  THEN /\ graph' = [time |-> wallTime + DrawDelay,
                    values |-> [i \in 0 .. BufferLen - 1 |->
                                  IF i < BufferLen - 1 THEN graph.values[i + 1] ELSE value]]
       /\ taken' = Append(taken, value)
  ELSE UNCHANGED <<graph, taken>>

Pix == PixPerRow * GraphHeight

\* lround of the part of the total, at least one dot; that is also what 0 / 0
\* comes to in each of the builds, as an int that is not above 0.
Dots(value) == IF MeterTotal = 0 THEN 1
               ELSE Within((2 * value * Pix + MeterTotal) \div (2 * MeterTotal), 1, Pix)
DotsInLine(dots, line) == Within(dots - PixPerRow * (GraphHeight - 1 - line), 0, PixPerRow)

\* Defect: one column too many for the width.
GraphColumnsFromStart(w) ==
  LET first == BufferLen - 2 * w
      i == IF first < 0 THEN 0 ELSE first
      k == IF first < 0 THEN (-first) \div 2 ELSE 0
  IN  [c \in {k + (j - i) \div 2 : j \in {n \in i .. BufferLen - 2 : n % 2 = 0}} |-> i + 2 * (c - k)]

\* For each column that is drawn the index of its first value.
GraphColumns(w) ==
  LET first == BufferLen - 2 * w + 2
      i == IF first < 0 THEN 0 ELSE first
      k == IF first < 0 THEN (-first) \div 2 ELSE 0
  IN  [c \in {k + (j - i) \div 2 : j \in {n \in i .. BufferLen - 2 : n % 2 = 0}} |-> i + 2 * (c - k)]

GraphCells(values, w) ==
  LET at == GraphColumns(w)
  IN  [c \in DOMAIN at |-> [line \in 0 .. GraphHeight - 1 |->
        <<DotsInLine(Dots(values[at[c]]), line), DotsInLine(Dots(values[at[c] + 1]), line)>>]]

DrawGraph ==
  /\ input.kind \in {"none", "graph"}
  /\ \E w \in Widths, value \in Readings :
       /\ Len(taken) < MaxTaken
       /\ ReadGraph(value)
       /\ input' = [kind |-> "graph", w |-> w]
       /\ screen' = [kind |-> "graph", cells |-> GraphCells(graph'.values, w - CaptionLen)]
       /\ UNCHANGED wallTime

\* Meter_setMode drops what the graph has.
SetMeterMode ==
  /\ graph' = NoGraph /\ taken' = <<>>
  /\ screen' = NotDrawn /\ input' = NotDrawn
  /\ UNCHANGED wallTime

\* Time goes on; the clock may be set back.
ClockMoves ==
  /\ wallTime' \in 0 .. MaxClock /\ wallTime' # wallTime
  /\ UNCHANGED <<screen, input, graph, taken>>
-----------------------------------------------------------------------------
(* LEDMeterMode_draw: a digit has four columns and three lines, any other  *)
(* character one column, in the line of the text.                          *)

LedWidth(char) == IF char = "t" THEN 4 ELSE 1
LedColumn(text, i) == SumTo([j \in DOMAIN text |-> LedWidth(text[j])], i - 1)
LedCells(text, yText) ==
  UNION {{<<i, x, y>> : x \in LedColumn(text, i) .. LedColumn(text, i) + LedWidth(text[i]) - 1,
                        y \in IF text[i] = "t" THEN 0 .. 2 ELSE {yText}} : i \in DOMAIN text}

DrawLed ==
  /\ FreshMeter
  /\ \E w \in Widths, text \in Texts, utf8 \in BOOLEAN :
       /\ input' = [kind |-> "led", w |-> w, text |-> text]
       /\ screen' = [kind |-> "led",
                     cells |-> LedCells(text, IF utf8 THEN 1 ELSE 2)]
       /\ UNCHANGED <<graph, taken, wallTime>>

MetersNext == DrawBar \/ DrawGraph \/ DrawLed \/ SetMeterMode \/ ClockMoves

MetersSpec == MetersInit /\ [][MetersNext]_meterVars
-----------------------------------------------------------------------------
SumShown(values) == SumTo([i \in DOMAIN values |-> Within(values[i], 0, MeterTotal)], Len(values))

(* A bar stays between its brackets, and these in the rectangle if it has  *)
(* room for them.  Its text can be read over any blocks.  The items follow *)
(* each other; each that is a part of the total is seen, unless those      *)
(* before it fill the bar; a bar is full if the items add up to a total,   *)
(* empty if there is no total, and the blocks are too long by less than    *)
(* one column for each item.                                               *)
BarIsRight ==
  screen.kind = "bar" =>
    LET w == BarWidth(input.w)
        cells == screen.cells
        sizes == [i \in DOMAIN input.values |->
                    Cardinality({j \in DOMAIN cells : cells[j].color = i})]
        filled == Cardinality({j \in DOMAIN cells : cells[j].color # 0})
    IN  /\ input.w >= CaptionLen + 2 => screen.brackets \subseteq 0 .. input.w - 1
        /\ w >= 1 =>
           /\ DOMAIN cells = 0 .. w - 1
           /\ \A j \in DOMAIN cells : Printed(input.text, w)[j] = "t" <=> cells[j].char = "t"
           /\ \A j, k \in DOMAIN cells :
                j < k /\ cells[k].color # 0 => cells[j].color \in 1 .. cells[k].color
           /\ \A i \in DOMAIN input.values :
                Within(input.values[i], 0, MeterTotal) > 0 /\ filled < w => sizes[i] > 0
           /\ MeterTotal > 0 /\ SumShown(input.values) >= MeterTotal => filled = w
           /\ filled < w \/ MeterTotal = 0 =>
                /\ filled * MeterTotal >= SumShown(input.values) * w
                /\ \/ filled = 0
                   \/ filled * MeterTotal < SumShown(input.values) * w + Len(input.values) * MeterTotal

\* The n-th reading before the last one; 0 before the first one.
Before(readings, n) == IF n < Len(readings) THEN readings[Len(readings) - n] ELSE 0

\* The readings in two values of each of w columns.
GraphShows(cells, w, readings) ==
  \A c \in DOMAIN cells :
    /\ c \in 0 .. w - 2
    /\ \A half \in {1, 2} :
         LET dots == [line \in 0 .. GraphHeight - 1 |-> cells[c][line][half]]
         IN  /\ SumTo([l \in 1 .. GraphHeight |-> dots[l - 1]], GraphHeight)
                  = Dots(Before(readings, 2 * (w - 2 - c) + 2 - half))
             /\ \A line \in 1 .. GraphHeight - 1 :
                  dots[line - 1] > 0 => dots[line] = PixPerRow

(* The graph shows the last readings, each once and in their order, the    *)
(* last one at its right end, before a column that stays free, whatever    *)
(* the width is and was; they grow from the bottom without gaps, and       *)
(* nothing is drawn beside the rectangle.                                  *)
GraphIsRight ==
  screen.kind = "graph" => GraphShows(screen.cells, input.w - CaptionLen, taken)

(* No LED covers another one, and all are in the three lines of the meter. *)
LedIsRight ==
  screen.kind = "led" =>
    /\ \A a, b \in screen.cells : a[2] = b[2] /\ a[3] = b[3] => a = b
    /\ \A a \in screen.cells : a[3] \in 0 .. 2

MetersAreRight == BarIsRight /\ GraphIsRight /\ LedIsRight
=============================================================================

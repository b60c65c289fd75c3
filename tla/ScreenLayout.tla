---------------------------- MODULE ScreenLayout ----------------------------
(***************************************************************************)
(* Where things are on the terminal: the two columns of meters in the      *)
(* header, the single CPUs of the meters of many, and the panels below the *)
(* header that a screen manager puts side by side (Header.c, CPUMeter.c,   *)
(* ScreenManager.c).  The sizes are kept in several places, are computed   *)
(* by whoever changes something, and the size of the terminal changes      *)
(* whatever is shown.                                                      *)
(***************************************************************************)
EXTENDS Integers, FiniteSets, SequencesExt, Sums

CONSTANTS
  Terminals,    \* sizes, <<COLS, LINES>>
  CpuCounts,    \* the numbers of CPUs looked at
  MeterTypes,   \* "single", a meter of one thing, and meters of many CPUs
  Configured,   \* the columns of the settings: sequences of <<type, mode>>
  ListWidths,   \* of the lists of an action
  MaxInHeader,  \* bound: meters in the header
  MaxSetups     \* bound: how often the setup screen is opened

AllOfThem == {"AllCPUs", "AllCPUs2"}
LeftHalf == {"LeftCPUs", "LeftCPUs2"}
RightHalf == {"RightCPUs", "RightCPUs2"}
InTwoColumns == {"AllCPUs2", "LeftCPUs2", "RightCPUs2"}

Types == {"single"} \cup AllOfThem \cup LeftHalf \cup RightHalf

\* Of a terminal of less than ten columns two margins leave nothing for a meter.
ASSUME LayoutAssumption ==
  /\ Terminals \subseteq {t \in Nat \X Nat : t[1] >= 10} /\ CpuCounts \subseteq Nat \ {0}
  /\ MeterTypes \subseteq Types
  /\ Configured \subseteq Seq(Types \X (1 .. 4)) \X Seq(Types \X (1 .. 4))
  /\ ListWidths \subseteq Nat /\ MaxInHeader \in Nat /\ MaxSetups \in Nat

VARIABLES
  term,          \* <<COLS, LINES>>
  cpus,          \* ProcessList.cpuCount
  margin,        \* settings->headerMargin
  columns,       \* header->columns
  headerHeight,  \* header->height
  headerPad,     \* header->pad
  mainPanel,     \* the process list: [x, y, w, h]
  layer,         \* what is shown: the "main" screen, a list beside it ("pick"), the
                 \* "setup", or something that covers all ("info")
  scr,           \* the screen manager of pick or setup: y1, its panels (but the process
                 \* list), the page of setup, and where the list was
  setups,        \* bound: openings of the setup screen so far
  missed         \* history: the terminal got its size while the main screen was covered

layoutVars == <<term, cpus, margin, columns, headerHeight, headerPad, mainPanel, layer, scr, setups, missed>>
headerVars == <<columns, headerHeight, headerPad>>

\* The heights of the first n meters of a column.
HeightOfFirst(meters, n) == SumTo([i \in DOMAIN meters |-> meters[i].h], n)
NoManager == [y1 |-> 0, panels |-> << >>, page |-> 0, y |-> 0]
-----------------------------------------------------------------------------
(* Meters.                                                                 *)

\* Meter_modes: bar, text, graph, LED.
ModeHeight == <<1, 1, 4, 3>>

\* Defect: both halves of an odd number of CPUs are of one size.
CpuRangeRounded(type, n) ==
  CASE type \in AllOfThem -> [start |-> 0, count |-> n]
    [] type \in LeftHalf -> [start |-> 0, count |-> n \div 2]
    [] type \in RightHalf -> [start |-> n \div 2, count |-> n \div 2]
    [] OTHER -> [start |-> 0, count |-> 0]

\* AllCPUsMeter_getRange: by the first letter of the name.
CpuRange(type, n) ==
  CASE type \in AllOfThem -> [start |-> 0, count |-> n]
    [] type \in LeftHalf -> [start |-> 0, count |-> (n + 1) \div 2]
    [] type \in RightHalf -> [start |-> (n + 1) \div 2, count |-> n \div 2]
    [] OTHER -> [start |-> 0, count |-> 0]

\* AllCPUsMeter_init and _updateMode.
HeightOf(type, mode) ==
  LET count == CpuRange(type, cpus).count
  IN  CASE type = "single" -> ModeHeight[mode]
        [] type \in InTwoColumns -> ModeHeight[mode] * ((count + 1) \div 2)
        [] OTHER -> ModeHeight[mode] * count

\* Meter_setMode; the meters of the single CPUs follow.
WithMode(meter, mode) ==
  IF mode = meter.mode THEN meter
  ELSE [meter EXCEPT !.mode = mode, !.each = mode, !.h = HeightOf(meter.type, mode)]

\* Meter_new: meters of CPUs begin as bars, others in a mode of their own.
NewMeter(type, mode) == [type |-> type, mode |-> mode, each |-> mode, h |-> HeightOf(type, mode)]
DefaultModes(type) == IF type = "single" THEN {1, 2} ELSE {1}

\* Header_reinit: CPUMeter_init only writes the names, AllCPUsMeter_init computes the height.
Reinitialised(meter) ==
  IF meter.type = "single" THEN meter
  ELSE [meter EXCEPT !.h = HeightOf(meter.type, meter.mode)]

\* Header_calculateHeight for these columns and this margin.
Calculated(cols, wide) ==
  LET pad == IF wide THEN 2 ELSE 0
      heights == {pad} \cup {pad + HeightOfFirst(cols[c], Len(cols[c])) : c \in 1 .. 2}
  IN  [height |-> CHOOSE h \in heights : \A k \in heights : h >= k, pad |-> pad]

\* Header_populateFromSettings.
Populated(entries) == [c \in 1 .. 2 |->
  [i \in DOMAIN entries[c] |-> WithMode(NewMeter(entries[c][i][1], 1), entries[c][i][2])]]

\* Where a meter draws: rectangles, and the CPU that is shown there.
Single(meter, x, y, w) == {[x |-> x, y |-> y, w |-> w, h |-> ModeHeight[meter.each], cpu |-> 0]}

\* SingleColCPUsMeter_draw.
OneColumn(meter, x, y, w) ==
  LET range == CpuRange(meter.type, cpus)
      h == ModeHeight[meter.each]
  IN  {[x |-> x, y |-> y + i * h, w |-> w, h |-> h, cpu |-> range.start + i + 1] :
         i \in 0 .. range.count - 1}

\* DualColCPUsMeter_draw; the gap is that of the settings.
TwoColumns(meter, x, y, w) ==
  LET range == CpuRange(meter.type, cpus)
      pad == IF margin THEN 2 ELSE 0
      rows == (range.count + 1) \div 2
      h == ModeHeight[meter.each]
  IN  {[x |-> IF i < rows THEN x ELSE x + (w - 1) \div 2 + 1 + pad \div 2,
        y |-> y + (IF i < rows THEN i ELSE i - rows) * h,
        w |-> (w - pad) \div 2, h |-> h, cpu |-> range.start + i + 1] :
         i \in 0 .. range.count - 1}

MeterDraw(meter, x, y, w) ==
  CASE meter.type = "single" -> Single(meter, x, y, w)
    [] meter.type \in InTwoColumns -> TwoColumns(meter, x, y, w)
    [] OTHER -> OneColumn(meter, x, y, w)

\* Header_draw: what the meters cover, by column and place.
HeaderDraw ==
  LET width == term[1] \div 2 - (headerPad * 2 - 1) - 1
  IN  [c \in 1 .. 2 |-> [i \in DOMAIN columns[c] |->
        MeterDraw(columns[c][i], headerPad + (c - 1) * (width + headerPad),
                  headerPad \div 2 + HeightOfFirst(columns[c], i - 1), width)]]
-----------------------------------------------------------------------------
(* Panels.                                                                 *)

\* Panel_resize and Panel_move: every one of these panels has a header, which takes a line.
PanelAt(x, y, w, h) == [x |-> x, y |-> y, w |-> w, h |-> h - 1]

NextX(panels) == IF panels = << >> THEN 0 ELSE Last(panels).x + Last(panels).w + 1

\* ScreenManager_add; a size of -1 is what is left.
Beside(panels, y1, size) ==
  Append(panels, PanelAt(NextX(panels), y1, IF size > 0 THEN size ELSE term[1] - NextX(panels),
                         term[2] - y1 - 1))

\* ScreenManager_resize: all but the last panel keep their width.
Arranged(panels, y1, t) ==
  LET placed[n \in 0 .. Len(panels)] ==
        IF n = 0 THEN << >>
        ELSE Append(placed[n - 1],
                    PanelAt(NextX(placed[n - 1]), y1,
                            IF n < Len(panels) THEN panels[n].w ELSE t[1] - NextX(placed[n - 1]),
                            t[2] - y1 - 1))
  IN  placed[Len(panels)]

\* The widths of the panels of a page of setup (CategoriesPanel_make..Page).
PageWidths == <<  <<20, 20, -1>>, <<-1>>, <<-1>>, <<20, -1>> >>
WithPage(panels, y1, page) ==
  LET sizes == PageWidths[page + 1]
      made[n \in 0 .. Len(sizes)] == IF n = 0 THEN panels ELSE Beside(made[n - 1], y1, sizes[n])
  IN  made[Len(sizes)]

LayoutInit ==
  /\ term \in Terminals /\ cpus \in CpuCounts /\ margin \in BOOLEAN
  /\ \E entries \in Configured : columns = Populated(entries)
  /\ LET calc == Calculated(columns, margin)
     IN  headerHeight = calc.height /\ headerPad = calc.pad
  /\ mainPanel = Beside(<< >>, headerHeight, -1)[1]
  /\ layer = "main" /\ scr = NoManager /\ setups = 0 /\ missed = FALSE
-----------------------------------------------------------------------------
(* The terminal gets another size: KEY_RESIZE, to whom it may concern.     *)

\* actionResize, and IncSet_handleKey while the user types.
ResizeMain ==
  /\ layer = "main"
  /\ \E t \in Terminals \ {term} :
       /\ term' = t
       /\ mainPanel' = PanelAt(mainPanel.x, mainPanel.y, t[1], t[2] - mainPanel.y - 1)
  /\ missed' = FALSE
  /\ UNCHANGED <<cpus, margin, headerVars, layer, scr, setups>>

\* No panel of these handles the key: ScreenManager_run does.
ResizePick ==
  /\ layer = "pick"
  /\ \E t \in Terminals \ {term} :
       LET panels == Arranged(Append(scr.panels, mainPanel), scr.y1, t)
       IN  /\ term' = t
           /\ scr' = [scr EXCEPT !.panels = Front(panels)]
           /\ mainPanel' = Last(panels)
  /\ UNCHANGED <<cpus, margin, headerVars, layer, missed, setups>>

ResizeSetup ==
  /\ layer = "setup"
  /\ \E t \in Terminals \ {term} :
       /\ term' = t
       /\ scr' = [scr EXCEPT !.panels = Arranged(scr.panels, scr.y1, t)]
  /\ UNCHANGED <<cpus, margin, headerVars, mainPanel, layer, missed, setups>>

\* The key ends the help, and an info screen takes it for its own panel.
ResizeInfo ==
  /\ layer = "info"
  /\ \E t \in Terminals \ {term} : term' = t
  /\ missed' = TRUE
  /\ UNCHANGED <<cpus, margin, headerVars, mainPanel, layer, scr, setups>>
-----------------------------------------------------------------------------
(* Actions of the main screen.                                             *)

OpenInfo == layer = "main" /\ layer' = "info"
            /\ UNCHANGED <<term, cpus, margin, headerVars, mainPanel, scr, missed, setups>>
CloseInfo == layer = "info" /\ layer' = "main"
             /\ UNCHANGED <<term, cpus, margin, headerVars, mainPanel, scr, missed, setups>>

\* Action_pickFromVector.
OpenPick ==
  /\ layer = "main" /\ layer' = "pick"
  /\ \E width \in ListWidths :
       LET panels == Beside(Beside(<< >>, headerHeight, width), headerHeight, -1)
       IN  /\ scr' = [y1 |-> headerHeight, panels |-> Front(panels), page |-> 0, y |-> mainPanel.y]
           /\ mainPanel' = Last(panels)
  /\ missed' = FALSE
  /\ UNCHANGED <<term, cpus, margin, headerVars, setups>>

ClosePick ==
  /\ layer = "pick" /\ layer' = "main"
  /\ LET y == scr.y IN mainPanel' = PanelAt(0, y, term[1], term[2] - y - 1)
  /\ scr' = NoManager
  /\ UNCHANGED <<term, cpus, margin, headerVars, missed, setups>>

\* Action_runSetup.
OpenSetup ==
  /\ layer = "main" /\ layer' = "setup"
  /\ setups < MaxSetups /\ setups' = setups + 1
  /\ scr' = [y1 |-> headerHeight,
             panels |-> WithPage(Beside(<< >>, headerHeight, 16), headerHeight, 0), page |-> 0, y |-> 0]
  /\ UNCHANGED <<term, cpus, margin, headerVars, mainPanel, missed>>

\* Defect: the list stays where it was.
CloseSetupStill ==
  /\ layer = "setup" /\ layer' = "main"
  /\ LET calc == Calculated(columns, margin)
     IN  /\ headerHeight' = calc.height /\ headerPad' = calc.pad
         /\ mainPanel' = PanelAt(0, mainPanel.y, term[1], term[2] - mainPanel.y - 1)
  /\ scr' = NoManager /\ missed' = FALSE
  /\ UNCHANGED <<term, cpus, margin, columns, setups>>

\* The end of actionSetup.
CloseSetup ==
  /\ layer = "setup" /\ layer' = "main"
  /\ LET calc == Calculated(columns, margin)
     IN  /\ headerHeight' = calc.height /\ headerPad' = calc.pad
         /\ mainPanel' = PanelAt(0, calc.height, term[1], term[2] - calc.height - 1)
  /\ scr' = NoManager /\ missed' = FALSE
  /\ UNCHANGED <<term, cpus, margin, columns, setups>>
-----------------------------------------------------------------------------
(* The setup screen.                                                       *)

\* CategoriesPanel_eventHandler: the panels of another page, or of the same again.
ShowPage ==
  /\ layer = "setup"
  /\ \E page \in 0 .. 3 :
       scr' = [scr EXCEPT !.page = page,
                          !.panels = WithPage(SubSeq(@, 1, 1), scr.y1, page)]
  /\ UNCHANGED <<term, cpus, margin, headerVars, mainPanel, layer, missed, setups>>

\* Defect: the height of the header is that of before.
ColumnsChangedLate(cols) ==
  /\ scr.page = 0 /\ columns' = cols
  /\ LET calc == Calculated(columns, margin)
     IN  /\ headerHeight' = calc.height /\ headerPad' = calc.pad
         /\ scr' = [scr EXCEPT !.y1 = calc.height, !.panels = Arranged(@, calc.height, term)]
  /\ UNCHANGED <<term, cpus, margin, mainPanel, layer, missed, setups>>

\* What MetersPanel and AvailableMetersPanel do after a change.
ColumnsChanged(cols) ==
  /\ scr.page = 0 /\ columns' = cols
  /\ LET calc == Calculated(cols, margin)
     IN  /\ headerHeight' = calc.height /\ headerPad' = calc.pad
         /\ scr' = [scr EXCEPT !.y1 = calc.height, !.panels = Arranged(@, calc.height, term)]
  /\ UNCHANGED <<term, cpus, margin, mainPanel, layer, missed, setups>>

AddMeter ==
  /\ layer = "setup" /\ Len(columns[1]) + Len(columns[2]) < MaxInHeader
  /\ \E c \in 1 .. 2, type \in MeterTypes : \E mode \in DefaultModes(type) :
       ColumnsChanged([columns EXCEPT ![c] = Append(@, NewMeter(type, mode))])

\* Keys of MetersPanel: the next mode, away with it, further up, to the other column.
ChangeMeter ==
  /\ layer = "setup"
  /\ \E c \in 1 .. 2 : \E i \in DOMAIN columns[c] :
       LET meter == columns[c][i]
       IN  \/ ColumnsChanged([columns EXCEPT ![c][i] =
                WithMode(meter, IF meter.mode = Len(ModeHeight) THEN 1 ELSE meter.mode + 1)])
           \/ ColumnsChanged([columns EXCEPT ![c] = RemoveAt(@, i)])
           \/ i > 1 /\ ColumnsChanged([columns EXCEPT ![c][i] = columns[c][i - 1], ![c][i - 1] = meter])
           \/ LET other == columns[3 - c]
                  to == IF i > Len(other) THEN Len(other) + 1 ELSE i
              IN  ColumnsChanged([columns EXCEPT ![c] = RemoveAt(@, i),
                                                 ![3 - c] = InsertAt(other, to, meter)])

\* DisplayOptionsPanel_eventHandler: the margin, or another option.
ChangeOption ==
  /\ layer = "setup" /\ scr.page = 1
  /\ margin' \in BOOLEAN
  /\ LET calc == Calculated(columns, margin')
     IN  /\ headerHeight' = calc.height /\ headerPad' = calc.pad
         /\ scr' = [scr EXCEPT !.y1 = calc.height, !.panels = Arranged(@, calc.height, term)]
  /\ columns' = [c \in 1 .. 2 |-> [i \in DOMAIN columns[c] |-> Reinitialised(columns[c][i])]]
  /\ UNCHANGED <<term, cpus, mainPanel, layer, missed, setups>>

\* ColorsPanel_eventHandler.
ChangeColors ==
  /\ layer = "setup" /\ scr.page = 2
  /\ scr' = [scr EXCEPT !.y1 = headerHeight, !.panels = Arranged(@, headerHeight, term)]
  /\ UNCHANGED <<term, cpus, margin, headerVars, mainPanel, layer, missed, setups>>

LayoutNext ==
  \/ ResizeMain \/ ResizePick \/ ResizeSetup \/ ResizeInfo
  \/ OpenInfo \/ CloseInfo \/ OpenPick \/ ClosePick \/ OpenSetup \/ CloseSetup
  \/ ShowPage \/ AddMeter \/ ChangeMeter \/ ChangeOption \/ ChangeColors

LayoutSpec == LayoutInit /\ [][LayoutNext]_layoutVars
-----------------------------------------------------------------------------
(* What must hold.                                                         *)

ShownPanels == CASE layer = "main" -> <<mainPanel>>
                 [] layer = "pick" -> Append(scr.panels, mainPanel)
                 [] layer = "setup" -> scr.panels
                 [] OTHER -> << >>

Apart(p, q) == \/ p.x + p.w <= q.x \/ q.x + q.w <= p.x
               \/ p.y + p.h <= q.y \/ q.y + q.h <= p.y

\* Each meter, and each CPU of a meter of many, has a place of its own in the header,
\* and none reaches into the panels; whatever is configured in whichever order and the
\* terminal does meanwhile.  A meter of CPUs shows each of its CPUs once, and the meters
\* for the left and the right half show all of them between them.
MetersFitHeader ==
  LET drawing == HeaderDraw
      places == UNION {{c} \X DOMAIN columns[c] : c \in 1 .. 2}
      at(p) == drawing[p[1]][p[2]]
      type(p) == columns[p[1]][p[2]].type
      all == UNION {at(p) : p \in places}
      shows(S, n) == Cardinality(S) = n /\ {r.cpu : r \in S} = 1 .. n
  IN  /\ \A r \in all : r.x >= 0 /\ r.x + r.w <= term[1] /\ r.y >= 0 /\ r.y + r.h <= headerHeight
      /\ \A r, s \in all : r # s => Apart(r, s)
      /\ \A p, q \in places : p # q => at(p) \cap at(q) = {}
      /\ \A p \in places : type(p) \in AllOfThem => shows(at(p), cpus)
      /\ \A p, q \in places : type(p) \in LeftHalf /\ type(q) \in RightHalf
                                 => shows(at(p) \cup at(q), cpus)

\* The panels that are shown begin under the header, leave the last line to the function
\* bar and stand side by side with a column between them, up to the right edge; except
\* that the list has the size of before if the terminal got another while something
\* covered it.
PanelsFillScreen ==
  layer \in {"main", "pick", "setup"} /\ ~missed =>
    /\ \A i \in DOMAIN ShownPanels :
         LET p == ShownPanels[i]
         IN  /\ p.y = headerHeight /\ p.y + p.h = term[2] - 2
             /\ p.x = IF i = 1 THEN 0 ELSE ShownPanels[i - 1].x + ShownPanels[i - 1].w + 1
    /\ Last(ShownPanels).x + Last(ShownPanels).w = term[1]

\* The header and the panels divide the screen between them: Header_draw,
\* Header_calculateHeight, ScreenManager_add and ScreenManager_resize.
ScreenIsDivided == MetersFitHeader /\ PanelsFillScreen
=============================================================================

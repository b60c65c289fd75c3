---------------------------- MODULE SetupScreen ----------------------------
(***************************************************************************)
(* What the user configures and what becomes of it: the settings file, the *)
(* columns of meters in the header, the columns of the process list, and   *)
(* the pages of the setup screen that edit both (Settings.c, Header.c,     *)
(* CategoriesPanel.c and the panels of its pages), over any number of      *)
(* starts and ends of the program.                                         *)
(*                                                                         *)
(* The same meters are kept in four places: the file, the settings, the    *)
(* header, and the rows of two panels.                                     *)
(***************************************************************************)
EXTENDS Integers, FiniteSets, SequencesExt

CONSTANTS
  Type,           \* meters of this build (Platform_meterTypes)
  Foreign,        \* names that only another version of htop knows
  Param,          \* Param[t]: the numbers meters of type t come with, 0 is none
  DefaultMode,    \* DefaultMode[t]
  Modes,          \* LAST_METERMODE - 1
  Defaults,       \* the meters of Settings_defaultMeters
  Field, Comm,    \* columns of the process list, and its last one
  DefaultFields,  \* Platform_defaultFields
  Files,          \* what the settings file may contain at first
  NoFile,         \* there is none, or none that can be read
  MaxStarts,      \* bound: how often the program is started
  MaxOpenings,    \* bound: how often the setup screen is opened
  MaxMeters,      \* bound: meters in the header
  MaxFields       \* bound: columns of the list

Sides == {"left", "right"}
Other(side) == IF side = "left" THEN "right" ELSE "left"

(* A meter, or an entry of the settings for one: its name, the number in   *)
(* brackets behind the name, and its mode.                                 *)
Meter == {m \in [type : Type, param : UNION {Param[t] : t \in Type}, mode : 1 .. Modes] :
            m.param \in Param[m.type]}

MetersOf(columns) == columns["left"] \o columns["right"]

(* What the settings and the file have; names of other versions stay there. *)
Entry == Meter \cup [type : Foreign, param : Nat, mode : 1 .. Modes]
Entries == [Sides -> Seq(Entry)]
Settings == [columns : Entries, fields : Seq(Field) \ {<<>>}]

ASSUME SetupAssumption ==
  /\ Type \cap Foreign = {}
  /\ Modes \in Nat \ {0}
  /\ \A t \in Type : Param[t] \subseteq Nat /\ 0 \in Param[t] /\ DefaultMode[t] \in 1 .. Modes
  /\ Defaults \in [Sides -> Seq(Meter)]
  /\ DefaultFields \in Seq(Field) \ {<<>>} /\ Last(DefaultFields) = Comm
  /\ Files \subseteq {NoFile} \cup {f \in Settings : Last(f.fields) = Comm}
  /\ NoFile \notin Settings
  /\ MaxStarts \in Nat /\ MaxOpenings \in Nat
  /\ MaxMeters \in Nat /\ MaxFields \in Nat

VARIABLES
  file,       \* htoprc: its meters and its fields
  columns,    \* settings->columns: names and modes
  fields,     \* settings->fields
  changed,    \* settings->changed
  header,     \* header->columns: the meters themselves
  screen,     \* "off", "main", or "setup"
  category,   \* the selected row of CategoriesPanel
  page,       \* the page beside it
  focus,      \* the panel that has the focus
  panel,      \* rows, selection and moving mode of the panels of a page
  starts,     \* bound: starts of the program so far
  openings,   \* bound: openings of the setup screen so far
  configured  \* history: the setup screen was closed with changes since the start

vars == <<file, columns, fields, changed, header, screen, category, page, focus, panel, starts, openings, configured>>
settingVars == <<columns, fields, changed>>
pageVars == <<category, page, focus, panel>>

Upper(a, b) == IF a > b THEN a ELSE b
Lower(a, b) == IF a < b THEN a ELSE b
-----------------------------------------------------------------------------
(* Reading and writing.                                                    *)

(* Header_populateFromSettings.  Names that nobody knows are left out.  A  *)
(* mode is set by its index in the settings, and behind such a name that   *)
(* is an index behind the last meter: those meters keep their default.     *)
Known(entries) == {i \in DOMAIN entries : entries[i].type \in Type}
WithDefaultMode(m) == [m EXCEPT !.mode = DefaultMode[m.type]]

Populated(entries) ==
  LET Place(k) == CHOOSE i \in Known(entries) : Cardinality({j \in Known(entries) : j <= i}) = k
  IN  [k \in 1 .. Cardinality(Known(entries)) |->
         IF Place(k) = k THEN entries[k] ELSE WithDefaultMode(entries[Place(k)])]

(* Header_addMeterByName cuts the number off the name, in the settings.    *)
Cut(entries) == [i \in DOMAIN entries |-> [entries[i] EXCEPT !.param = 0]]

(* Settings_read of a file: lines without meters are as good as no lines,  *)
(* and without any the default meters are taken.  (The lines that an owner *)
(* of a single board computer may add by hand count as well.)              *)
MetersIn(f) ==
  IF f = NoFile \/ MetersOf(f.columns) = <<>> THEN Defaults ELSE f.columns

FieldsIn(f) == IF f = NoFile THEN DefaultFields ELSE f.fields

(* What a start with the file f shows. *)
HeaderFor(f) == [side \in Sides |-> Populated(MetersIn(f)[side])]

NoPanel == [rows |-> <<>>, selected |-> 0, moving |-> FALSE]
NoPage == [p \in Sides \cup {"active"} |-> NoPanel]
NoMeters == [side \in Sides |-> <<>>]

Init ==
  /\ file \in Files
  /\ columns = NoMeters
  /\ fields = DefaultFields
  /\ changed = FALSE
  /\ header = NoMeters
  /\ screen = "off" /\ starts = 0 /\ openings = 0
  /\ category = 0 /\ page = 0 /\ focus = "none" /\ panel = NoPage
  /\ configured = FALSE

(* The program ends, and of all this only the file is left. *)
Off ==
  /\ columns' = NoMeters
  /\ fields' = DefaultFields
  /\ changed' = FALSE
  /\ header' = NoMeters
  /\ screen' = "off"
  /\ category' = 0 /\ page' = 0 /\ focus' = "none" /\ panel' = NoPage
  /\ configured' = FALSE

(* Settings_new and Header_populateFromSettings. *)
Start ==
  /\ screen = "off" /\ starts < MaxStarts
  /\ screen' = "main" /\ starts' = starts + 1
  /\ columns' = [side \in Sides |-> Cut(MetersIn(file)[side])]
  /\ header' = HeaderFor(file)
  /\ fields' = FieldsIn(file)
  /\ changed' = (file = NoFile)
  /\ UNCHANGED <<file, pageVars, openings, configured>>

(* An action with HTOP_SAVE_SETTINGS: one of the options that are saved. *)
ChangeOption ==
  /\ screen = "main"
  /\ changed' = TRUE
  /\ UNCHANGED <<file, columns, fields, header, screen, pageVars, starts, openings, configured>>

(* The end of main: Settings_write, if the file can be opened. *)
Quit ==
  /\ screen = "main"
  /\ file' = IF changed THEN [columns |-> columns, fields |-> fields] ELSE file
  /\ Off
  /\ UNCHANGED <<starts, openings>>

QuitUnwritable ==
  /\ screen = "main" /\ changed
  /\ Off
  /\ UNCHANGED <<file, starts, openings>>

(* A signal ends the program, and nothing is written. *)
Killed ==
  /\ screen # "off"
  /\ Off
  /\ UNCHANGED <<file, starts, openings>>
-----------------------------------------------------------------------------
(* The setup screen.                                                       *)

PageOf(c) ==
  CASE c = 0 -> <<"categories", "left", "right", "available">>
    [] c = 3 -> <<"categories", "active", "available">>
    [] OTHER -> <<"categories", "options">>

PanelOf(rows) == [NoPanel EXCEPT !.rows = rows]

(* The panels of a page are made anew from header and settings. *)
PanelsOf(c) ==
  CASE c = 0 -> [NoPage EXCEPT !["left"] = PanelOf(header["left"]),
                               !["right"] = PanelOf(header["right"])]
    [] c = 3 -> [NoPage EXCEPT !["active"] = PanelOf(fields)]
    [] OTHER -> NoPage

OpenSetup ==
  /\ screen = "main" /\ openings < MaxOpenings
  /\ screen' = "setup" /\ openings' = openings + 1
  /\ category' = 0 /\ page' = 0 /\ focus' = "categories"
  /\ panel' = PanelsOf(0)
  /\ UNCHANGED <<file, settingVars, header, starts, configured>>

(* Defect: the settings are left as they were read. *)
CloseSetupOnly ==
  /\ screen = "setup"
  /\ screen' = "main"
  /\ category' = 0 /\ page' = 0 /\ focus' = "none" /\ panel' = NoPage
  /\ configured' = (configured \/ changed)
  /\ UNCHANGED <<file, settingVars, header, starts, openings>>

(* Action_runSetup, when its loop has ended. *)
CloseSetup ==
  /\ screen = "setup"
  /\ screen' = "main"
  /\ category' = 0 /\ page' = 0 /\ focus' = "none" /\ panel' = NoPage
  /\ columns' = IF changed THEN header ELSE columns
  /\ configured' = (configured \/ changed)
  /\ UNCHANGED <<file, fields, changed, header, starts, openings>>

(* A step of the setup screen that ends with the focus on p: a click takes *)
(* it there, a key needs it there.                                         *)
Clicked(p) ==
  /\ screen = "setup"
  /\ p \in ToSet(PageOf(page))
  /\ focus' = p
  /\ UNCHANGED <<file, screen, starts, openings, configured>>

Key(p) == focus = p /\ Clicked(p)

(* Another row of CategoriesPanel is selected. *)
SelectCategory ==
  /\ Clicked("categories")
  /\ category' \in 0 .. 3
  /\ page' = category'
  /\ panel' = PanelsOf(page')
  /\ UNCHANGED <<settingVars, header>>

(* A letter selects a row too.  The page of that row is made, and then, as *)
(* the handler goes on with the row that it has read before, the page of   *)
(* that one in its place.                                                  *)
TypeCategory ==
  /\ Key("categories")
  /\ category' \in 0 .. 3
  /\ page' = category
  /\ panel' = PanelsOf(page')
  /\ UNCHANGED <<settingVars, header>>

(* A check box of the display options, or a color scheme. *)
SetOption ==
  /\ Clicked("options")
  /\ changed' = TRUE
  /\ UNCHANGED <<columns, fields, header, category, page, panel>>

Size(p) == IF p \in DOMAIN panel THEN Len(panel[p].rows) ELSE 1

(* ScreenManager_run passes over empty panels, if it can. *)
Beside(p, step) ==
  LET order == PageOf(page)
      at == SelectInSeq(order, LAMBDA q : q = p)
      ahead == {i \in DOMAIN order : (i - at) * step > 0}
      goal == {i \in ahead : Size(order[i]) > 0 \/ i + step \notin DOMAIN order}
  IN  IF goal = {} THEN p
      ELSE order[CHOOSE i \in goal : \A j \in goal : (j - i) * step >= 0]

(* The arrows, Tab, the control keys and the mouse.  All but the arrows    *)
(* move the focus even from a meters panel in moving mode.                 *)
MoveFocus ==
  /\ screen = "setup"
  /\ focus' \in {Beside(focus, 1), Beside(focus, -1)} \cup (ToSet(PageOf(page)) \cap {"available"})
  /\ UNCHANGED <<file, settingVars, header, screen, category, page, panel, starts, openings, configured>>
-----------------------------------------------------------------------------
(* The page of the meters: MetersPanel and AvailableMetersPanel.  Their    *)
(* handlers change the vector of the header and the rows of the panel, one *)
(* after the other.                                                        *)

WithRows(pn, rows) == [pn EXCEPT !.rows = rows]
WithRow(pn, i, row) == WithRows(pn, [pn.rows EXCEPT ![i + 1] = row])
WithMoved(pn, rows, i) == [pn EXCEPT !.rows = rows, !.selected = i]
WithSelected(pn, i) == [pn EXCEPT !.selected = Upper(Lower(i, Len(pn.rows) - 1), 0)]
InsertedAt(seq, i, e) == InsertAt(seq, Lower(i, Len(seq)) + 1, e)

(* Defect: the first of the two is overwritten before it is kept. *)
SwappedUnkept(seq, i) == [seq EXCEPT ![i + 1] = seq[i + 2]]

Swapped(seq, i) == [seq EXCEPT ![i + 1] = seq[i + 2], ![i + 2] = seq[i + 1]]

Without(pn, i) ==
  LET rows == RemoveAt(pn.rows, i + 1)
  IN  [pn EXCEPT !.rows = rows,
                 !.selected = IF @ > 0 /\ @ >= Len(rows) THEN @ - 1 ELSE @]

MetersKey(side) ==
  /\ Key(side)
  /\ UNCHANGED <<columns, fields, category, page>>

MetersEdit(side) == MetersKey(side) /\ changed' = TRUE

(* Keys that move the selection, and clicks on a row. *)
SelectMeter(side) ==
  /\ Clicked(side)
  /\ \E i \in 0 .. Upper(Size(side) - 1, 0) :
       panel' = [panel EXCEPT ![side].selected = i]
  /\ UNCHANGED <<settingVars, header, category, page>>

ToggleMoving(side) ==
  /\ MetersEdit(side)
  /\ header[side] # <<>>
  /\ panel' = [panel EXCEPT ![side].moving = ~@]
  /\ UNCHANGED header

InNextMode(m) == [m EXCEPT !.mode = (@ % Modes) + 1]

(* Defect: nobody is told that there is something to save. *)
NextModeUnsaved(side) ==
  /\ MetersKey(side)
  /\ header[side] # <<>>
  /\ LET i == panel[side].selected
         meter == InNextMode(header[side][i + 1])
     IN  /\ header' = [header EXCEPT ![side] = [@ EXCEPT ![i + 1] = meter]]
         /\ panel' = [panel EXCEPT ![side] = WithRow(@, i, meter)]
  /\ UNCHANGED changed

NextMode(side) ==
  /\ MetersEdit(side)
  /\ header[side] # <<>>
  /\ LET i == panel[side].selected
         meter == InNextMode(header[side][i + 1])
     IN  /\ header' = [header EXCEPT ![side] = [@ EXCEPT ![i + 1] = meter]]
         /\ panel' = [panel EXCEPT ![side] = WithRow(@, i, meter)]

(* F7 and F8, and the arrows in moving mode.  Vector_moveDown in an empty  *)
(* vector swaps two entries behind its end: nothing that counts.           *)
MoveMeterUp(side) ==
  LET i == panel[side].selected
  IN  /\ MetersEdit(side)
      /\ IF i > 0
         THEN /\ header' = [header EXCEPT ![side] = Swapped(@, i - 1)]
              /\ panel' = [panel EXCEPT ![side] = WithMoved(@, Swapped(@.rows, i - 1), i - 1)]
         ELSE UNCHANGED <<header, panel>>

MoveMeterDown(side) ==
  LET i == panel[side].selected
  IN  /\ MetersEdit(side)
      /\ IF i + 1 < Len(header[side])
         THEN /\ header' = [header EXCEPT ![side] = Swapped(@, i)]
              /\ panel' = [panel EXCEPT ![side] = WithMoved(@, Swapped(@.rows, i), i + 1)]
         ELSE UNCHANGED <<header, panel>>

(* Defect: the row goes to the end of the other panel. *)
CrossedRowLast(pn, i, meter) ==
  [WithSelected(WithRows(pn, Append(pn.rows, meter)), i) EXCEPT !.moving = TRUE]

(* The panel that a meter has moved to, and the vector of its side. *)
Crossed(pn, i, meter) ==
  [WithSelected(WithRows(pn, InsertedAt(pn.rows, i, meter)), i) EXCEPT !.moving = TRUE]
Arrived(meters, i, meter) == InsertedAt(meters, i, meter)

(* moveToNeighbor, and the focus follows.  With nothing to move and in the *)
(* other direction the key is taken for an edit all the same.              *)
MoveAcross(side) ==
  LET i == panel[side].selected
      meter == header[side][i + 1]
      to == Other(side)
  IN  /\ screen = "setup" /\ page = 0 /\ focus = side
      /\ panel[side].moving /\ i < Len(header[side])
      /\ header' = [header EXCEPT ![side] = RemoveAt(@, i + 1), ![to] = Arrived(@, i, meter)]
      /\ panel' = [panel EXCEPT ![side] = [Without(@, i) EXCEPT !.moving = FALSE],
                                ![to] = Crossed(@, i, meter)]
      /\ focus' = to
      /\ changed' = TRUE
      /\ UNCHANGED <<file, screen, starts, openings, configured, columns, fields, category, page>>

StayMoving(side) ==
  /\ MetersEdit(side)
  /\ panel[side].moving
  /\ UNCHANGED <<header, panel>>

DeleteMeter(side) ==
  LET i == panel[side].selected
  IN  /\ MetersEdit(side)
      /\ header[side] # <<>>
      /\ header' = [header EXCEPT ![side] = RemoveAt(@, i + 1)]
      /\ panel' = [panel EXCEPT ![side] = [Without(@, i) EXCEPT !.moving = FALSE]]

(* AvailableMetersPanel: the new row is last, selected and in moving mode. *)
(* With the keys for the right column the focus goes there.                *)
AddMeter(side) ==
  /\ screen = "setup" /\ page = 0 /\ focus = "available"
  /\ Len(MetersOf(header)) < MaxMeters
  /\ \E t \in Type : \E n \in Param[t] :
       LET meter == [type |-> t, param |-> n, mode |-> DefaultMode[t]]
           rows == Append(panel[side].rows, meter)
       IN  /\ header' = [header EXCEPT ![side] = Append(@, meter)]
           /\ panel' = [panel EXCEPT ![side] = [rows |-> rows, selected |-> Len(rows) - 1,
                                                moving |-> TRUE]]
  /\ focus' = IF side = "right" THEN "right" ELSE focus
  /\ changed' = TRUE
  /\ UNCHANGED <<file, screen, starts, openings, configured, columns, fields, category, page>>
-----------------------------------------------------------------------------
(* The page of the list's columns: ColumnsPanel and AvailableColumnsPanel. *)
(* Every key that ColumnsPanel takes, and every insertion, ends with       *)
(* ColumnsPanel_update.                                                    *)

Columns == panel["active"]
LastRow == Len(Columns.rows) - 1

ColumnsUpdate ==
  /\ changed' = TRUE
  /\ fields' = panel'["active"].rows

SetColumns(pn) ==
  /\ panel' = [panel EXCEPT !["active"] = pn]
  /\ ColumnsUpdate
  /\ UNCHANGED <<columns, header, category, page>>

(* A row is selected by a key, which ColumnsPanel does not take, or by its *)
(* first letters; or no row has them.                                      *)
SelectColumn ==
  /\ Key("active")
  /\ \E i \in 0 .. Upper(LastRow, 0) :
       \/ SetColumns(WithSelected(Columns, i))
       \/ /\ panel' = [panel EXCEPT !["active"] = WithSelected(@, i)]
          /\ UNCHANGED <<settingVars, header, category, page>>

(* Enter, and a click, which selects a row first; not on the last one. *)
ToggleMovingColumn ==
  /\ Clicked("active")
  /\ \E i \in 0 .. Upper(LastRow, 0) :
       IF i < LastRow
       THEN SetColumns([WithSelected(Columns, i) EXCEPT !.moving = ~@])
       ELSE /\ panel' = [panel EXCEPT !["active"] = WithSelected(@, i)]
            /\ UNCHANGED <<settingVars, header, category, page>>

(* The last row stays the last. *)
MoveColumnUp ==
  LET i == Columns.selected
  IN  /\ Key("active")
      /\ SetColumns(IF 0 < i /\ i < LastRow
                    THEN WithMoved(Columns, Swapped(Columns.rows, i - 1), i - 1)
                    ELSE Columns)

(* Defect: the last but one may go below the last. *)
MoveColumnDownToEnd ==
  LET i == Columns.selected
  IN  /\ Key("active")
      /\ SetColumns(IF i < LastRow
                    THEN WithMoved(Columns, Swapped(Columns.rows, i), i + 1)
                    ELSE Columns)

MoveColumnDown ==
  LET i == Columns.selected
  IN  /\ Key("active")
      /\ SetColumns(IF i < LastRow - 1
                    THEN WithMoved(Columns, Swapped(Columns.rows, i), i + 1)
                    ELSE Columns)

DeleteColumn ==
  LET i == Columns.selected
  IN  /\ Key("active")
      /\ SetColumns(IF i < LastRow THEN Without(Columns, i) ELSE Columns)

(* Defect: the settings are not told. *)
InsertColumnOnly ==
  LET i == Columns.selected
  IN  /\ page = 3
      /\ Key("available")
      /\ Len(Columns.rows) < MaxFields
      /\ \E f \in Field :
           panel' = [panel EXCEPT !["active"] =
                       WithSelected(WithRows(@, InsertedAt(@.rows, i, f)), i + 1)]
      /\ changed' = TRUE
      /\ UNCHANGED <<columns, fields, header, category, page>>

(* A column is inserted above the selected one. *)
InsertColumn ==
  LET i == Columns.selected
  IN  /\ page = 3
      /\ Key("available")
      /\ Len(Columns.rows) < MaxFields
      /\ \E f \in Field :
           SetColumns(WithSelected(WithRows(Columns, InsertedAt(Columns.rows, i, f)), i + 1))

Next ==
  \/ Start \/ ChangeOption \/ Quit \/ QuitUnwritable \/ Killed
  \/ OpenSetup \/ CloseSetup \/ SelectCategory \/ TypeCategory \/ SetOption \/ MoveFocus
  \/ \E side \in Sides :
       \/ SelectMeter(side) \/ ToggleMoving(side) \/ NextMode(side)
       \/ MoveMeterUp(side) \/ MoveMeterDown(side) \/ MoveAcross(side) \/ StayMoving(side)
       \/ DeleteMeter(side) \/ AddMeter(side)
  \/ SelectColumn \/ ToggleMovingColumn \/ MoveColumnUp \/ MoveColumnDown
  \/ DeleteColumn \/ InsertColumn

Spec == Init /\ [][Next]_vars
-----------------------------------------------------------------------------
TypeOK ==
  /\ file \in {NoFile} \cup Settings
  /\ columns \in Entries
  /\ fields \in Seq(Field)
  /\ header \in [Sides -> Seq(Meter)]
  /\ {changed, configured} \subseteq BOOLEAN
  /\ screen \in {"off", "main", "setup"}
  /\ category \in 0 .. 3 /\ page \in 0 .. 3
  /\ focus \in {"none"} \cup ToSet(PageOf(page))
  /\ starts \in 0 .. MaxStarts /\ openings \in 0 .. MaxOpenings
  /\ \A p \in DOMAIN panel : /\ panel[p].selected \in 0 .. Upper(Len(panel[p].rows) - 1, 0)
                             /\ panel[p].moving \in BOOLEAN

(* The rows of the two meters panels are the meters of the header, in      *)
(* their order and with their modes: the handlers read and write the       *)
(* vector of the header at the row that is selected in the panel.          *)
RowsAreMeters ==
  /\ TypeOK
  /\ screen = "setup" /\ page = 0 => \A side \in Sides : panel[side].rows = header[side]

(* Meters are moved up, down and across, and none of them is lost or turns *)
(* into another: only Del takes one away.                                  *)
PlacesOf(meters, t, n) == {i \in DOMAIN meters : meters[i].type = t /\ meters[i].param = n}
Occurrences(h, t, n) ==
  Cardinality(PlacesOf(h["left"], t, n)) + Cardinality(PlacesOf(h["right"], t, n))

NoMeterIsLost ==
  [][screen' = "setup" /\ ~(\E side \in Sides : DeleteMeter(side)) =>
       \A m \in Meter : Occurrences(header', m.type, m.param) >=
                        Occurrences(header, m.type, m.param)]_vars

(* The list shows the columns of the panel while they are edited.  The     *)
(* command is the last of them, as the drawing of the tree and of the long *)
(* lines needs it, whatever is moved, removed and inserted.                *)
FieldsAreRows ==
  /\ screen = "setup" /\ page = 3 => fields = Columns.rows
  /\ fields # <<>> /\ Last(fields) = Comm

\* The setup screen shows the settings it is changing: MetersPanel and ColumnsPanel.
SetupShowsSettings == RowsAreMeters /\ FieldsAreRows

(* If nothing is marked as changed, the next start will show what is shown *)
(* now: nothing is lost when the file is not written.                      *)
UnchangedIsSaved ==
  screen # "off" /\ ~changed => header = HeaderFor(file) /\ fields = FieldsIn(file)

(* Once the setup screen was left with changes, the next start will show   *)
(* what is shown at the end, if the file can be written and there is a     *)
(* meter left.                                                             *)
SetupIsSaved ==
  [][Quit /\ configured /\ MetersOf(header) # <<>> =>
       header = HeaderFor(file') /\ fields = FieldsIn(file')]_vars

\* What is shown now is shown again by the next start, whether the end of the
\* program writes the file or not (main, Header_writeBackToSettings, Settings_write).
SettingsAreSaved == [][UnchangedIsSaved']_vars /\ SetupIsSaved

(* The manual: the file "is overwritten by htop's in-program Setup         *)
(* configuration".  As long as that changed nothing the next start shows   *)
(* the same meters.                                                        *)
MetersChangeInSetup ==
  [][Quit /\ ~configured => header = HeaderFor(file')]_vars
=============================================================================

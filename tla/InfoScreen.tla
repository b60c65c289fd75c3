----------------------------- MODULE InfoScreen -----------------------------
(***************************************************************************)
(* The screens that show text about one process (InfoScreen.c): its open   *)
(* files and its environment, each a snapshot that F5 takes again, and the *)
(* output of strace, which arrives while the user searches and filters.    *)
(*                                                                         *)
(* A screen keeps all lines in a vector that owns them; the rows of its    *)
(* panel point to those that pass the filter, and are maintained in three  *)
(* places: when a line is added, when text is appended to the last line,   *)
(* and when the filter changes.                                            *)
(*                                                                         *)
(* Text is a sequence of letters, and what strace writes a sequence of     *)
(* letters and line breaks, NL.                                            *)
(* The keys that move the selection are in the module PanelWidget.         *)
(***************************************************************************)
EXTENDS Integers, FiniteSets, SequencesExt, Sums

CONSTANTS
  Kinds,          \* of {"snapshot", "trace"}
  Letter,         \* a set of numbers: their order is that of strcmp
  NL,
  Output,         \* what strace writes: letters and NL
  Outcomes,       \* what a snapshot may find: sequences of texts
  INCMODE_MAX,    \* letters that fit in the text of a search or a filter
  ReadSize,       \* what updateTrace reads at most
  StdioSize,      \* the buffer of the FILE it reads from
  PipeSize,       \* what fits into the pipe
  MaxLines,       \* bound: lines made by the snapshots of one visit
  MaxWritten      \* bound: what strace writes during one visit

ASSUME InfoScreenAssumption ==
  /\ Kinds \subseteq {"snapshot", "trace"}
  /\ Letter \subseteq Nat /\ NL \notin Letter /\ Output \subseteq Letter \cup {NL}
  /\ \A found \in Outcomes : found \in Seq(Seq(Letter))
  /\ {INCMODE_MAX, ReadSize, StdioSize, PipeSize, MaxLines, MaxWritten} \subseteq Nat \ {0}
  /\ ReadSize <= StdioSize

VARIABLES
  kind,     \* which screen it is
  open,     \* InfoScreen_run is looping
  list,     \* text of each line made; lines: the vector; rows and selection of the panel
  inc,      \* the IncSet
  trace,    \* the state of the trace screen, the pipe and the FILE before it
  hist      \* history: what strace wrote that was read to be shown, whether some
            \* of it was read while not tracing, and the lines of earlier snapshots

infoVars == <<kind, open, list, inc, trace, hist>>

NoLines == [text |-> <<>>, lines |-> <<>>, rows |-> <<>>, selected |-> 0]
NoInc   == [active |-> "none", buffer |-> [m \in {"search", "filter"} |-> <<>>],
            filtering |-> FALSE]
NoTrace == [pipe |-> <<>>, stdio |-> <<>>, written |-> 0,
            contLine |-> FALSE, follow |-> FALSE, tracing |-> TRUE]
NoHist  == [taken |-> <<>>, dropped |-> FALSE, old |-> 0]

InfoInit ==
  /\ kind \in Kinds
  /\ open = FALSE
  /\ list = NoLines /\ inc = NoInc /\ trace = NoTrace /\ hist = NoHist
-----------------------------------------------------------------------------
(* Text, and the lists. *)

\* String_contains_i.
HasText(t, part) ==
  \E i \in 0 .. Len(t) - Len(part) : SubSeq(t, i + 1, i + Len(part)) = part

\* A line: its text, and (history) the pieces it was made of.
Line(t) == [value |-> t, pieces |-> {t}]
TextOf(l, id) == l.text[id].value

\* Whether there is no filter, or the text passes it.
Passes(t) == inc.filtering => HasText(t, inc.buffer["filter"])

\* Panel_setSelected.
SetSelected(l, i) ==
  [l EXCEPT !.selected = IF l.rows = <<>> \/ i < 0 THEN 0
                         ELSE IF i >= Len(l.rows) THEN Len(l.rows) - 1 ELSE i]

SetLast(l) == SetSelected(l, Len(l.rows) - 1)

AddLine(l, t) ==
  LET id == Len(l.text) + 1
  IN  [l EXCEPT !.text = Append(@, Line(t)), !.lines = Append(@, id),
                !.rows = IF Passes(t) THEN Append(@, id) ELSE @]

Longer(line, t) == [value |-> line.value \o t, pieces |-> line.pieces \cup {t}]

\* Defect: a line that did not pass stays away.
AppendLineOnly(l, t) == [l EXCEPT !.text[Last(l.lines)] = Longer(@, t)]

\* The line becomes a row if the piece passes the filter.  (Without rows the code
\* looks at the word before the array, which is not a pointer to the line.)
AppendLine(l, t) ==
  LET last == Last(l.lines)
      new  == inc.filtering /\ (l.rows = <<>> \/ Last(l.rows) # last) /\ Passes(t)
  IN  [l EXCEPT !.text[last] = Longer(@, t), !.rows = IF new THEN Append(@, last) ELSE @]

(* IncSet.c, updateWeakPanel: the panel is filled anew, and what was       *)
(* selected is selected again if it is still there.                        *)

PassingLines(l, i) ==
  {id \in 1 .. Len(l.text) : i.filtering => HasText(TextOf(l, id), i.buffer["filter"])}

\* Defect: the selection is lost.
UpdateWeakPanelFromTop(l, i) ==
  [l EXCEPT !.rows = Kept(l.lines, PassingLines(l, i)), !.selected = 0]

UpdateWeakPanel(l, i) ==
  LET rows  == Kept(l.lines, PassingLines(l, i))
      found == {n \in 0 .. Len(rows) - 1 :
                  l.rows # <<>> /\ rows[n + 1] = l.rows[l.selected + 1]}
  IN  [l EXCEPT !.rows = rows,
                !.selected = IF found = {} THEN 0 ELSE CHOOSE n \in found : TRUE]
-----------------------------------------------------------------------------
(* The screens that show a snapshot. *)

\* strcmp.
Less(s, t) ==
  \/ s # t /\ IsPrefix(s, t)
  \/ \E n \in 1 .. Len(s) : /\ n <= Len(t) /\ s[n] < t[n]
                            /\ SubSeq(s, 1, n - 1) = SubSeq(t, 1, n - 1)

\* The insertion sort is stable: equal lines stay in the order they were made.
Before(text, x, y) ==
  \/ Less(text[x].value, text[y].value)
  \/ text[x].value = text[y].value /\ x < y

\* The order in which some lines, none twice, come out of it.
Sorted(ids, text) ==
  {new \in [DOMAIN ids -> ToSet(ids)] :
     \A i, j \in DOMAIN ids : i < j => Before(text, new[i], new[j])}

AddLines(l, found) ==
  LET added[n \in 0 .. Len(found)] == IF n = 0 THEN l ELSE AddLine(added[n - 1], found[n])
  IN  added[Len(found)]

\* OpenFilesScreen_scan and EnvScreen_scan: rows are pruned, lines are not.
Scan(found) ==
  LET new == AddLines([list EXCEPT !.rows = <<>>, !.selected = 0], found)
  IN  \E lines \in Sorted(new.lines, new.text), rows \in Sorted(new.rows, new.text) :
        list' = SetSelected([new EXCEPT !.lines = lines, !.rows = rows], list.selected)

Idle == open /\ inc.active = "none"

(* What lsof or /proc/PID/environ yields, or the one line that says it     *)
(* could not be read.                                                      *)
TakeSnapshot ==
  \E found \in Outcomes :
    /\ Len(list.text) + Len(found) <= MaxLines
    /\ Scan(found)
    /\ hist' = [hist EXCEPT !.old = Len(list.text)]

Open ==
  /\ ~open
  /\ open' = TRUE
  /\ IF kind = "snapshot" THEN TakeSnapshot ELSE UNCHANGED <<list, hist>>
  /\ UNCHANGED <<kind, inc, trace>>

Refresh ==
  /\ Idle /\ kind = "snapshot"
  /\ TakeSnapshot
  /\ UNCHANGED <<kind, open, inc, trace>>

\* The lines, the panel, the IncSet and the tracer are gone with the screen.
Done ==
  /\ Idle
  /\ open' = FALSE
  /\ list' = NoLines /\ inc' = NoInc /\ trace' = NoTrace /\ hist' = NoHist
  /\ UNCHANGED kind
-----------------------------------------------------------------------------
(* The output of strace.  The C library reads ahead: what is taken from    *)
(* the pipe may wait in the FILE, where select does not see it.            *)

\* Environment: strace writes.  Its end of the pipe is set O_NONBLOCK, so it never
\* waits: what does not fit is lost.
Write ==
  /\ open /\ kind = "trace" /\ trace.written < MaxWritten
  /\ \E c \in Output :
       trace' = [trace EXCEPT !.pipe = IF Len(@) < PipeSize THEN Append(@, c) ELSE @,
                              !.written = @ + 1]
  /\ UNCHANGED <<kind, open, list, inc, hist>>

FirstOf(s, n) == SubSeq(s, 1, IF n < Len(s) THEN n ELSE Len(s))
After(s, n)   == SubSeq(s, n + 1, Len(s))

\* fread: what the FILE holds, and if that is not enough a buffer from the pipe.
FromPipe == IF Len(trace.stdio) < ReadSize THEN FirstOf(trace.pipe, StdioSize) ELSE <<>>
Available == trace.stdio \o FromPipe

EndLine(s) == IF s.contLine THEN AppendLine(s.list, s.line) ELSE AddLine(s.list, s.line)

\* Defect: that a line goes on is not forgotten.
SplitGoesOn(s, c) ==
  IF c # NL THEN [s EXCEPT !.line = Append(@, c)]
  ELSE [s EXCEPT !.list = EndLine(s), !.line = <<>>]

\* A line break ends a line, which goes on with the last one if the read before ended
\* within it.
SplitNext(s, c) ==
  IF c # NL THEN [s EXCEPT !.line = Append(@, c)]
  ELSE [list |-> EndLine(s), line |-> <<>>, contLine |-> FALSE]

\* The loop over what was read.
Split(l, data) ==
  LET split[n \in 0 .. Len(data)] ==
        IF n = 0 THEN [list |-> l, line |-> <<>>, contLine |-> trace.contLine]
        ELSE SplitNext(split[n - 1], data[n])
  IN  split[Len(data)]

\* What is left when there is no line break any more is a line of its own.
Taken(l, data) ==
  LET s == Split(l, data)
  IN  IF s.line = <<>> THEN [list |-> s.list, contLine |-> s.contLine]
      ELSE [list |-> AddLine(s.list, s.line), contLine |-> TRUE]

\* When no key comes.  What is read while the trace is stopped is dropped.
UpdateTrace ==
  /\ open /\ kind = "trace" /\ trace.pipe # <<>>
  /\ LET data == FirstOf(Available, ReadSize)
         rest == [trace EXCEPT !.pipe = After(@, Len(FromPipe)),
                               !.stdio = After(Available, ReadSize)]
     IN  IF trace.tracing
         THEN \E now \in {Taken(list, data)} :
              /\ trace' = [rest EXCEPT !.contLine = now.contLine]
              /\ list' = IF trace.follow THEN SetLast(now.list) ELSE now.list
              /\ hist' = [hist EXCEPT !.taken = @ \o data]
         ELSE /\ trace' = rest
              /\ hist' = [hist EXCEPT !.dropped = TRUE]
              /\ UNCHANGED list
  /\ UNCHANGED <<kind, open, inc>>

ToggleFollow ==
  /\ Idle /\ kind = "trace"
  /\ trace' = [trace EXCEPT !.follow = ~@]
  /\ list' = IF trace'.follow THEN SetLast(list) ELSE list
  /\ UNCHANGED <<kind, open, inc, hist>>

ToggleTracing ==
  /\ Idle /\ kind = "trace"
  /\ trace' = [trace EXCEPT !.tracing = ~@]
  /\ UNCHANGED <<kind, open, list, inc, hist>>
-----------------------------------------------------------------------------
(* Search and filter: IncSet_handleKey, to which all keys go while it is   *)
(* active.                                                                 *)

Activate ==
  /\ Idle
  /\ \E m \in {"search", "filter"} : inc' = [inc EXCEPT !.active = m]
  /\ UNCHANGED <<kind, open, list, trace, hist>>

Found(l, t) == {n \in 0 .. Len(l.rows) - 1 : HasText(TextOf(l, l.rows[n + 1]), t)}

\* search: the first row that has the text, in the rows before the filter changes.
Search(l, t) ==
  IF Found(l, t) = {} THEN l
  ELSE SetSelected(l, CHOOSE n \in Found(l, t) : \A k \in Found(l, t) : n <= k)

Text == inc.buffer[inc.active]

\* A letter is typed or deleted: the first match is selected, and if it was the
\* filter that changed the panel is filled anew.
Edit(text, changed) ==
  LET new == [inc EXCEPT !.buffer[inc.active] = text,
                         !.filtering = IF inc.active = "filter" THEN text # <<>> ELSE @]
      l   == Search(list, text)
  IN  /\ inc' = new
      /\ list' = IF changed /\ inc.active = "filter" THEN UpdateWeakPanel(l, new) ELSE l

TypeLetter ==
  /\ open /\ inc.active # "none"
  /\ \/ \E c \in Letter : /\ Len(Text) < INCMODE_MAX
                          /\ Edit(Append(Text, c), TRUE)
     \/ Text # <<>> /\ Edit(Front(Text), TRUE)
     \/ Edit(Text, FALSE)                 \* the text is full; the terminal is resized
  /\ UNCHANGED <<kind, open, trace, hist>>

\* F3: the next row that has the text, behind the last one from the first again.
NextMatch ==
  /\ open /\ inc.active # "none" /\ list.rows # <<>>
  /\ LET here  == list.selected
         size  == Len(list.rows)
         steps == {k \in 1 .. size - 1 : (here + k) % size \in Found(list, Text)}
     IN  list' = IF steps = {} THEN list
                 ELSE SetSelected(list, (here + CHOOSE k \in steps : \A j \in steps : k <= j) % size)
  /\ UNCHANGED <<kind, open, inc, trace, hist>>

\* Any other key ends it; Esc clears the filter, and any key a search.
Close(l, esc) ==
  LET new == IF inc.active = "search"
             THEN [inc EXCEPT !.active = "none", !.buffer["search"] = <<>>]
             ELSE IF esc THEN [inc EXCEPT !.active = "none", !.buffer["filter"] = <<>>,
                                          !.filtering = FALSE]
             ELSE [inc EXCEPT !.active = "none"]
  IN  /\ inc' = new
      /\ list' = IF inc.active = "filter" THEN UpdateWeakPanel(l, new) ELSE l

CloseInc ==
  /\ open /\ inc.active # "none"
  /\ \E esc \in BOOLEAN : Close(list, esc)
  /\ UNCHANGED <<kind, open, trace, hist>>

\* A click on a row, or below the last one, which ends search and filter too.
Click ==
  /\ open
  /\ \E n \in 0 .. Len(list.rows) :
       IF inc.active # "none"
       THEN Close(SetSelected(list, n), FALSE) /\ UNCHANGED trace
       ELSE /\ list' = SetSelected(list, n)
            /\ trace' = [trace EXCEPT !.follow = FALSE]
            /\ UNCHANGED inc
  /\ UNCHANGED <<kind, open, hist>>

\* A key of the panel; the trace screen stops following.
Move ==
  /\ Idle
  /\ \E n \in 0 .. Len(list.rows) : list' = SetSelected(list, n)
  /\ trace' = [trace EXCEPT !.follow = FALSE]
  /\ UNCHANGED <<kind, open, inc, hist>>
-----------------------------------------------------------------------------
InfoNext ==
  \/ Open \/ Refresh \/ Done
  \/ Write \/ UpdateTrace \/ ToggleFollow \/ ToggleTracing
  \/ Activate \/ TypeLetter \/ NextMatch \/ CloseInc \/ Click \/ Move

\* The loop comes to a getch without a key again and again.
InfoSpec == InfoInit /\ [][InfoNext]_infoVars /\ WF_infoVars(UpdateTrace)
-----------------------------------------------------------------------------
(* What must hold. *)

\* The rows and the selection are those of the lines that were made.
InfoTypeOK ==
  /\ kind \in Kinds /\ open \in BOOLEAN
  /\ \A id \in 1 .. Len(list.text) : TextOf(list, id) \in Seq(Letter)
  /\ ToSet(list.lines) = 1 .. Len(list.text) /\ Len(list.lines) = Len(list.text)
  /\ list.selected \in 0 .. (IF list.rows = <<>> THEN 0 ELSE Len(list.rows) - 1)
  /\ inc.active \in {"none", "search", "filter"}
  /\ inc.filtering = (inc.buffer["filter"] # <<>>)
  /\ trace.contLine => list.lines # <<>>

\* The rows are lines, none twice, in the order of the lines; each passes the filter,
\* and no line is missing that has the text of the filter in one of its pieces:
\* whichever of InfoScreen_addLine, InfoScreen_appendLine and updateWeakPanel put it
\* there, and however often filter and lines have changed.  (A text that begins in
\* one piece and ends in the next is found when the filter changes, not before;
\* and the lines of earlier snapshots are not expected.)
RowsAreLines ==
  /\ InfoTypeOK
  /\ list.rows = Kept(list.lines, ToSet(list.rows))
  /\ \A id \in ToSet(list.rows) : Passes(TextOf(list, id))
  /\ \A id \in ToSet(list.lines) :
       id > hist.old /\ (\E t \in list.text[id].pieces : Passes(t))
         => id \in ToSet(list.rows)

\* The lines of a trace have all that was read, once and in order; and unless
\* something was dropped each line break that was read is one on the screen, though
\* reads end anywhere (TraceScreen_updateTrace).
LettersOf(bytes) == Kept(bytes, Letter)
Breaks(bytes) == {Len(LettersOf(SubSeq(bytes, 1, n - 1))) : n \in {n \in 1 .. Len(bytes) : bytes[n] = NL}}
AllText(l, n) ==
  LET all[i \in 0 .. Len(l.lines)] == IF i = 0 THEN <<>> ELSE all[i - 1] \o TextOf(l, l.lines[i])
  IN  all[n]
LineEnds(l, n) == {Len(AllText(l, i)) : i \in 1 .. n}

TraceIsComplete ==
  kind = "trace" => /\ AllText(list, Len(list.lines)) = LettersOf(hist.taken)
                    /\ hist.dropped \/ Breaks(hist.taken) \subseteq LineEnds(list, Len(list.lines))

\* An info screen shows the text it was given, all of it and what the filter lets
\* through: InfoScreen_addLine, IncSet_filter and TraceScreen_updateTrace.
InfoShowsText == RowsAreLines /\ TraceIsComplete

\* Esc in the filter shows all lines again, and the line that was selected among
\* those that passed is still selected among all.
SelectedLine == IF list.rows = <<>> THEN 0 ELSE list.rows[list.selected + 1]

FilterKeepsSelected ==
  [][inc.active = "filter" /\ inc.filtering /\ inc'.active = "none" /\ ~inc'.filtering
       => list.rows = <<>> \/ SelectedLine' = SelectedLine]_infoVars

\* The manual: a live update of system calls.  What was read ahead into the FILE does
\* not wait there for ever.  It does: select looks at the pipe alone, so the end of
\* what strace wrote is not read until it writes again.
TraceIsLive == trace.stdio # <<>> ~> trace.stdio = <<>>
=============================================================================

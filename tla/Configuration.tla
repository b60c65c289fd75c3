--------------------------- MODULE Configuration ---------------------------
(***************************************************************************)
(* The options over any number of runs of the program: the command line    *)
(* (parseArguments), the three files they may come from and the order they *)
(* are read in (Settings_new, Settings_read), the move of an old file to   *)
(* its new place, what the user changes, and the rewriting of the file at  *)
(* the end (Settings_write), which empties it first.  The program may be   *)
(* killed between any two of these steps, and a disk may be full.          *)
(*                                                                         *)
(* How the meters and the columns of the list are changed is in            *)
(* SetupScreen; here they are options as the others.                       *)
(*                                                                         *)
(* Definitions marked "Defect" are plausible mistakes, not the program.    *)
(***************************************************************************)
EXTENDS Integers, FiniteSets, SequencesExt

CONSTANTS
  Toggled,      \* the check boxes of the display options that are looked at
  SortColumn,   \* numbers of columns
  Schemes,      \* the color schemes the user tries
  ArgLists,     \* command lines: sequences of options with a value
  FirstFiles,   \* what there is at first: for each place a file
  HtopRc        \* whether the environment names the file of the user

CheckItems ==
  {"treeView", "shadowOtherUsers", "hideKernelThreads", "hideUserlandThreads",
   "highlightThreads", "showThreadNames", "showProgramPath", "highlightBaseName",
   "highlightMegabytes", "headerMargin", "detailedCPUTime", "countCPUsFromZero",
   "updateProcessNames", "accountGuestInCPUMeter"}

\* "hideThreads" is only written and read; "board" stands for the lines that name
\* the board, its sensors and its interfaces.
Options ==
  Toggled \cup {"hideThreads", "fields", "sortKey", "direction", "colorScheme", "delay",
                "meters", "board"}

ASSUME ConfigurationAssumption ==
  /\ Toggled \subseteq CheckItems /\ SortColumn \subseteq Nat \ {0}
  /\ Schemes \subseteq 0..6
  /\ HtopRc \in BOOLEAN

VARIABLES
  files,     \* the file at each place
  options,   \* Settings of the run
  edited,    \* Settings.changed
  flags,     \* CommandLineSettings of the run
  stage,     \* where the run is; "down" between two runs
  kept,      \* history: the options the next run has to begin with
  touched,   \* history: the user has changed an option in this run
  cut        \* history: the rewriting of the file was not completed

runVars == <<options, edited, flags>>
history == <<kept, touched, cut>>
confVars == <<files, runVars, stage, history>>

-----------------------------------------------------------------------------
(* Files: the lines there are, by option. *)

Empty == [o \in {} |-> 0]
NoFile == [o \in {"none"} |-> 0]

LastColorScheme == 7
PercentCpu == 47

\* Settings_new, before anything is read.
Defaults ==
  [o \in Options |->
     CASE o \in {"showProgramPath", "highlightThreads"} -> TRUE
       [] o = "sortKey"     -> PercentCpu
       [] o = "direction"   -> 1
       [] o = "colorScheme" -> 0
       [] o = "delay"       -> 15
       [] o = "fields"      -> "default"
       [] o \in {"meters", "board"} -> "none"
       [] OTHER             -> FALSE]

\* Settings_new, when no file was of use.
LastResort(s) ==
  [o \in Options |->
     CASE o \in {"hideKernelThreads", "highlightMegabytes", "highlightThreads", "headerMargin"} -> TRUE
       [] o = "meters" -> "default"
       [] OTHER -> s[o]]

\* The number of a column is that of an older format, which began with 0.
Encoded(o, x) == IF o = "sortKey" THEN x - 1 ELSE x

\* Defect: the number of the column is taken as it is.
DecodedAsWritten(o, t) ==
  IF o = "colorScheme" THEN IF t \in 0..(LastColorScheme - 1) THEN t ELSE 0 ELSE t

Decoded(o, t) ==
  CASE o = "sortKey"     -> t + 1
    [] o = "colorScheme" -> IF t \in 0..(LastColorScheme - 1) THEN t ELSE 0
    [] OTHER             -> t

Written(s) == [o \in Options |-> Encoded(o, s[o])]

\* Settings_read: lines take the place of what was read before; a file that says
\* nothing of meters or the board brings the default meters.
ReadFile(s, file) ==
  [o \in Options |->
     IF o \in DOMAIN file THEN Decoded(o, file[o])
     ELSE IF o = "meters" /\ "board" \notin DOMAIN file THEN "default"
     ELSE s[o]]

\* Only a file with columns of the list is of use.
HasFields(file) == "fields" \in DOMAIN file

-----------------------------------------------------------------------------
(* The command line. *)

NoFlags == [sortKey |-> 0, delay |-> -1, useColors |-> TRUE, treeView |-> FALSE, ends |-> FALSE]

Within(n, low, high) == IF n < low THEN low ELSE IF n > high THEN high ELSE n

\* An unknown column is -1; of a delay that is no number ("d?") nothing is taken.
\* "-h", "-v" and "-s help" end the program; so do "-i", which passes for an
\* option, and an unknown one.
Parsed(args) ==
  LET step(f, arg) ==
        CASE arg.opt = "s" -> [f EXCEPT !.sortKey = arg.value]
          [] arg.opt = "d" -> [f EXCEPT !.delay = Within(arg.value, 1, 100)]
          [] arg.opt = "d?" -> f
          [] arg.opt = "C" -> [f EXCEPT !.useColors = FALSE]
          [] arg.opt = "t" -> [f EXCEPT !.treeView = TRUE]
          [] OTHER         -> [f EXCEPT !.ends = TRUE]
  IN FoldLeft(step, NoFlags, args)

\* main, once the settings are there; columns of the list sort a list, not a tree.
Flagged(s, f) ==
  LET tree(b) == (b \/ f.treeView) /\ f.sortKey <= 0
  IN [o \in Options |->
        CASE o = "delay" /\ f.delay # -1          -> f.delay
          [] o = "colorScheme" /\ ~f.useColors    -> 1
          [] o = "treeView"                       -> tree(s[o])
          [] o = "sortKey" /\ f.sortKey > 0       -> f.sortKey
          [] o = "direction" /\ f.sortKey > 0     -> 1
          [] OTHER                                -> s[o]]

-----------------------------------------------------------------------------
(* The start. *)

\* What is in the file that counts, by the manual: the user's own, at its old place
\* or at its new one, else that of the system, else what is built in.
Meaning(file) == [o \in Options |-> IF o \in DOMAIN file THEN Decoded(o, file[o]) ELSE Defaults[o]]
OldFileCounts(fs) == ~HtopRc /\ HasFields(fs.legacy)
Counting(fs) ==
  IF OldFileCounts(fs) THEN Meaning(fs.legacy)
  ELSE IF HasFields(fs.user) THEN Meaning(fs.user)
  ELSE IF HasFields(fs.system) THEN Meaning(fs.system)
  ELSE LastResort(Defaults)

\* A file as the program writes it has a line for every option.
Whole(file) ==
  /\ file = [o \in Options |-> file[o]]
  /\ file["sortKey"] \in Int
  /\ "treeView" \in Toggled => file["treeView"] \in BOOLEAN

ASSUME FirstFilesAssumption ==
  \A fs \in FirstFiles :
    /\ fs = [legacy |-> fs.legacy, user |-> fs.user, system |-> fs.system]
    /\ \A place \in {"legacy", "user", "system"} : fs[place] = NoFile \/ Whole(fs[place])

\* Columns have numbers.
ASSUME ArgListsAssumption == \A args \in ArgLists : Parsed(args).sortKey \in Int

ConfInit ==
  /\ files \in FirstFiles
  /\ options = Defaults /\ edited = FALSE /\ flags = NoFlags
  /\ stage = "down"
  /\ kept = Counting(files) /\ touched = FALSE /\ cut = FALSE

Launch(args) ==
  /\ stage = "down"
  /\ flags' = Parsed(args)
  /\ stage' = IF flags'.ends THEN "down" ELSE IF HtopRc THEN "user" ELSE "legacy"
  /\ options' = Defaults /\ edited' = FALSE
  /\ touched' = FALSE
  /\ UNCHANGED <<files, kept, cut>>

ReadLegacy ==
  /\ stage = "legacy"
  /\ IF files.legacy = NoFile THEN stage' = "user" /\ UNCHANGED options
     ELSE /\ options' = ReadFile(options, files.legacy)
          /\ stage' = IF HasFields(files.legacy) THEN "move" ELSE "user"
  /\ UNCHANGED <<files, edited, flags, history>>

\* Settings_write opens the file, which empties it, unless it may not be written.
OpenForWriting(from, opened, unwritable) ==
  /\ stage = from
  /\ \/ files' = [files EXCEPT !.user = Empty] /\ stage' = opened
     \/ UNCHANGED files /\ stage' = unwritable
  /\ UNCHANGED runVars

\* The lines reach the file when it is closed, all of them or, on a full disk, the
\* first ones; nobody looks at what the writing returns.
Close(from, next) ==
  /\ stage = from /\ stage' = next
  /\ \/ files' = [files EXCEPT !.user = Written(options)] /\ cut' = FALSE
     \/ files' = [files EXCEPT !.user = Empty] /\ cut' = TRUE
     \/ /\ files' = [files EXCEPT !.user = [o \in {"fields"} |-> options["fields"]]]
        /\ cut' = TRUE
  /\ UNCHANGED <<runVars, touched>>

\* Defect: the old file is deleted whether or not there is a new one.
OpenMovedAnyway == OpenForWriting("move", "moving", "unlink") /\ UNCHANGED history

OpenMoved == OpenForWriting("move", "moving", "start") /\ UNCHANGED history
CloseMoved == Close("moving", "unlink") /\ UNCHANGED kept

Unlink ==
  /\ stage = "unlink" /\ stage' = "start"
  /\ files' = [files EXCEPT !.legacy = NoFile]
  /\ UNCHANGED <<runVars, history>>

ReadUser ==
  /\ stage = "user"
  /\ IF files.user = NoFile THEN UNCHANGED options ELSE options' = ReadFile(options, files.user)
  /\ IF HasFields(files.user) THEN stage' = "start" /\ UNCHANGED edited
     ELSE stage' = "system" /\ edited' = TRUE
  /\ UNCHANGED <<files, flags, history>>

ReadSystem ==
  /\ stage = "system" /\ stage' = "start"
  /\ LET read == IF files.system = NoFile THEN options ELSE ReadFile(options, files.system)
     IN options' = IF HasFields(files.system) THEN read ELSE LastResort(read)
  /\ UNCHANGED <<files, edited, flags, history>>

ApplyFlags ==
  /\ stage = "start" /\ stage' = "up"
  /\ options' = Flagged(options, flags)
  /\ UNCHANGED <<files, edited, flags, history>>

-----------------------------------------------------------------------------
(* The user, in the setup screen and with the keys of the main screen. *)

\* Defect: the change is shown and not marked.
ChangeShown(new) ==
  /\ stage = "up"
  /\ options' = new
  /\ touched' = (touched \/ new # options)
  /\ UNCHANGED <<files, edited, flags, stage, kept, cut>>

Change(new) ==
  /\ stage = "up"
  /\ options' = new /\ edited' = TRUE
  /\ touched' = (touched \/ new # options)
  /\ UNCHANGED <<files, flags, stage, kept, cut>>

\* DisplayOptionsPanel: each box stands for an option itself.
CheckBox(o) == Change([options EXCEPT ![o] = ~@])

\* ColorsPanel
ChooseScheme(n) == Change([options EXCEPT !["colorScheme"] = n])

SetSortColumn(c) ==
  Change([o \in Options |-> CASE o = "sortKey" -> c [] o = "direction" -> 1
                              [] o = "treeView" -> FALSE [] OTHER -> options[o]])

InvertColumn == Change([options EXCEPT !["direction"] = IF @ = 1 THEN -1 ELSE 1])

\* The key H hides both, the box in the setup screen one of them.
HideThreadsKey ==
  /\ "hideUserlandThreads" \in Toggled
  /\ LET hidden == ~options["hideUserlandThreads"]
     IN Change([options EXCEPT !["hideUserlandThreads"] = hidden, !["hideThreads"] = hidden])

TreeViewKey ==
  /\ "treeView" \in Toggled
  /\ Change([o \in Options |-> CASE o = "treeView" -> ~options[o]
                                 [] o = "direction" /\ ~options["treeView"] -> 1
                                 [] OTHER -> options[o]])

User ==
  \/ \E o \in Toggled : CheckBox(o)
  \/ \E n \in Schemes : ChooseScheme(n)
  \/ \E c \in SortColumn : SetSortColumn(c)
  \/ InvertColumn \/ HideThreadsKey \/ TreeViewKey

-----------------------------------------------------------------------------
(* The end. *)

QuitRun ==
  /\ stage = "up"
  /\ stage' = IF edited THEN "save" ELSE "down"
  /\ kept' = IF touched /\ ~edited THEN options ELSE kept
  /\ UNCHANGED <<files, runVars, touched, cut>>

\* If the file may not be written the changes are lost, without a word; so they are
\* when there is still an old file, which could not be moved and is read first.
OpenSaved == OpenForWriting("save", "saving", "down") /\ UNCHANGED history
CloseSaved ==
  /\ Close("saving", "down")
  /\ kept' = IF cut' \/ OldFileCounts(files) THEN kept ELSE options

\* Nothing is written when the program is killed; between the opening and the closing
\* of the file at the end nothing is left.
Kill ==
  /\ stage # "down" /\ stage' = "down"
  /\ cut' = (cut \/ stage = "saving")
  /\ UNCHANGED <<files, runVars, kept, touched>>

Moving == OpenMoved \/ CloseMoved \/ Unlink
Starting == ReadLegacy \/ Moving \/ ReadUser \/ ReadSystem \/ ApplyFlags
Ending == QuitRun \/ OpenSaved \/ CloseSaved

ConfNext == (\E args \in ArgLists : Launch(args)) \/ Starting \/ User \/ Ending \/ Kill

ConfSpec == ConfInit /\ [][ConfNext]_confVars

-----------------------------------------------------------------------------
(* Properties.                                                             *)

\* A run that was told nothing else begins with the options the last one ended with,
\* and the first one with those of the file that counts.  Neither a run that was
\* killed, nor the move of an old file, nor a command line whose options were not
\* saved with others makes a difference, unless the rewriting of the file itself
\* was cut short (Settings_new, Settings_write and the end of main).
OptionsAreKept ==
  [][stage = "start" /\ stage' = "up" /\ flags = NoFlags => cut \/ options' = kept]_confVars
=============================================================================

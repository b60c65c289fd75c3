--------------------------- MODULE Program_proofs ---------------------------
(***************************************************************************)
(* What holds of the main loop, of the settings from run to run, and of    *)
(* the tree that each turn of the loop draws.                              *)
(*                                                                         *)
(* For any number of ERRs that end the loop, any waits without a sort and  *)
(* any order of keys, clicks, waits and checks: the counters of the loop   *)
(* stay in their ranges, and the loop does not give up on an idle user.    *)
(*                                                                         *)
(* For any set of check boxes, columns, color schemes, command lines and   *)
(* first files, and any number of runs, kills and full disks: a run begins *)
(* with the options the last one ended with.                               *)
(*                                                                         *)
(* For any finite set of pids, any process table and any changes of it:    *)
(* the sort into a tree keeps every process; where no pid is given up and  *)
(* handed out in one scan, it also ends and draws the forest it was given. *)
(***************************************************************************)
EXTENDS MainLoop, Configuration, ProcessTree, Loops_proofs, SequenceTheorems,
        FiniteSetTheorems, TLAPS

-----------------------------------------------------------------------------
(* The main loop.                                                          *)

(* How many ERRs closeTimeout may be ahead of burst: one wait during which *)
(* the clock was set back, and one that no check has seen yet.             *)
Waits ==
  (IF adjusted THEN 1 ELSE 0) + (IF ch = "timeout" /\ point # "read" THEN 1 ELSE 0)

(* closeTimeout counts ERRs at once, but for those waits.  Behind a key,   *)
(* and behind a check that found the delay over, it may be any number: the *)
(* next ERR starts it anew.                                                *)
ErrsCounted ==
  /\ point # "closed" => closeTimeout < CloseLimit
  /\ point = "closed" /\ ch # "quit" => closeTimeout = CloseLimit /\ IsErr(ch)
  /\ IsErr(ch) /\ ~(point = "read" /\ timedOut) => closeTimeout <= burst + Waits

LoopInv == LoopTypeOK /\ ErrsCounted
-----------------------------------------------------------------------------
LEMMA InitLoopInv == LoopInit => LoopInv
<1> SUFFICES ASSUME LoopInit PROVE LoopInv
  OBVIOUS
<1>1. ResetSortTimeout \in Nat /\ CloseLimit \in Nat \ {0}
  BY MainLoopAssumption
<1>2. {timedOut, rescan, treeView, scanned, sorted, adjusted} \subseteq BOOLEAN
  BY DEF LoopInit
<1>3. LoopTypeOK
  BY <1>1, <1>2 DEF LoopInit, LoopTypeOK, AllEvents, Upper
<1>4. ErrsCounted
  BY <1>1 DEF LoopInit, ErrsCounted, Waits
<1> QED  BY <1>3, <1>4 DEF LoopInv

LEMMA CheckKeeps ==
  ASSUME LoopInv, NEW over \in BOOLEAN, NEW back \in BOOLEAN, Check(over, back),
         \/ (over \/ ch # "timeout") /\ UNCHANGED adjusted
         \/ ~over /\ ~adjusted /\ adjusted' = TRUE
  PROVE  LoopInv'
<1>1. /\ closeTimeout \in 0 .. CloseLimit /\ burst \in Nat /\ CloseLimit \in Nat
      /\ sortTimeout \in -1 .. Upper(ResetSortTimeout, 1) /\ ResetSortTimeout \in Nat
      /\ timedOut \in BOOLEAN /\ treeView \in BOOLEAN /\ adjusted \in BOOLEAN
      /\ rescan \in BOOLEAN
  BY MainLoopAssumption DEF LoopInv, LoopTypeOK
<1>2. sortTimeout' \in -1 .. Upper(ResetSortTimeout, 1)
  BY <1>1 DEF Check, Upper
<1>3. timedOut' \in BOOLEAN /\ rescan' \in BOOLEAN /\ treeView' \in BOOLEAN
      /\ scanned' \in BOOLEAN /\ sorted' \in BOOLEAN /\ adjusted' \in BOOLEAN
  BY <1>1, Zenon DEF Check, ScanIsDue, SortIsDue
<1>4. burst' \in Nat
  BY <1>1 DEF Check
<1>5. LoopTypeOK'
  BY <1>1, <1>2, <1>3, <1>4 DEF LoopInv, LoopTypeOK, Check
<1>6. ErrsCounted'
  BY <1>1 DEF LoopInv, ErrsCounted, Check, Waits, IsErr
<1> QED  BY <1>5, <1>6 DEF LoopInv

LEMMA ReadErrKeeps ==
  ASSUME LoopInv, ReadTimeout \/ ReadStray
  PROVE  LoopInv'
<1>1. /\ closeTimeout \in 0 .. CloseLimit /\ burst \in Nat /\ CloseLimit \in Nat \ {0}
      /\ sortTimeout \in -1 .. Upper(ResetSortTimeout, 1) /\ ResetSortTimeout \in Nat
      /\ timedOut \in BOOLEAN /\ adjusted \in BOOLEAN
  BY MainLoopAssumption DEF LoopInv, LoopTypeOK
<1>2. /\ point = "read" /\ ch' \in {"timeout", "stray"} /\ point' \in {"check", "closed"}
      /\ closeTimeout' = Closing /\ sortTimeout' = Decremented
      /\ point' = "closed" <=> Closing = CloseLimit
      /\ burst' = IF ch' = "stray" THEN burst + 1 ELSE burst
      /\ UNCHANGED <<timedOut, rescan, treeView, scanned, sorted, adjusted>>
  BY DEF ReadTimeout, ReadStray, ReadErr, Read
<1>3. Closing \in 0 .. CloseLimit
  BY <1>1, <1>2 DEF Closing, LoopInv, ErrsCounted
<1>4. Decremented \in -1 .. Upper(ResetSortTimeout, 1)
  BY <1>1 DEF Decremented, Upper
<1>5. LoopTypeOK'
  BY <1>1, <1>2, <1>3, <1>4 DEF LoopInv, LoopTypeOK, AllEvents
<1>6. IsErr(ch) /\ ~timedOut => closeTimeout <= burst + (IF adjusted THEN 1 ELSE 0)
  BY <1>1, <1>2 DEF LoopInv, ErrsCounted, Waits
<1>7. Closing <= burst + (IF adjusted THEN 1 ELSE 0) + 1
  BY <1>1, <1>6 DEF Closing
<1>8. closeTimeout' <= burst' + Waits'
  BY <1>1, <1>2, <1>7 DEF Waits
<1>9. closeTimeout' < CloseLimit \/ point' = "closed"
  BY <1>1, <1>2, <1>3
<1> QED  BY <1>1, <1>2, <1>5, <1>8, <1>9 DEF LoopInv, ErrsCounted, IsErr

LEMMA ReadKeyKeeps ==
  ASSUME LoopInv, ReadDefault \/ ReadHandled \/ ReadRefresh \/ ReadQuit
  PROVE  LoopInv'
<1>1. /\ closeTimeout \in 0 .. CloseLimit /\ burst \in Nat /\ CloseLimit \in Nat
      /\ sortTimeout \in -1 .. Upper(ResetSortTimeout, 1) /\ ResetSortTimeout \in Nat
  BY MainLoopAssumption DEF LoopInv, LoopTypeOK
<1>2. /\ point = "read" /\ ch' \in {"default", "handled", "refresh", "quit"}
      /\ point' \in {"check", "closed"} /\ (point' = "closed" => ch' = "quit")
      /\ burst' \in Nat
      /\ sortTimeout' \in {0, sortTimeout, ResetSortTimeout}
      /\ UNCHANGED <<closeTimeout, timedOut, scanned, sorted, adjusted>>
  BY <1>1 DEF ReadDefault, ReadHandled, ReadRefresh, ReadQuit, ReadKey, Read
<1>3. rescan' \in BOOLEAN /\ treeView' \in BOOLEAN
  BY DEF LoopInv, LoopTypeOK, ReadDefault, ReadHandled, ReadRefresh, ReadQuit
<1>4. sortTimeout' \in -1 .. Upper(ResetSortTimeout, 1)
  BY <1>1, <1>2 DEF Upper
<1>5. LoopTypeOK'
  BY <1>1, <1>2, <1>3, <1>4 DEF LoopInv, LoopTypeOK, AllEvents
<1>6. ErrsCounted'
  BY <1>1, <1>2 DEF LoopInv, ErrsCounted, IsErr
<1> QED  BY <1>5, <1>6 DEF LoopInv

LEMMA NextKeepsLoopInv == LoopInv /\ [LoopNext]_loopVars => LoopInv'
<1> SUFFICES ASSUME LoopInv, [LoopNext]_loopVars PROVE LoopInv'
  OBVIOUS
<1>1. CASE CheckInTime
  BY <1>1, CheckKeeps DEF CheckInTime
<1>2. CASE CheckTimedOut
  BY <1>2, CheckKeeps DEF CheckTimedOut
<1>3. CASE CheckSetBack
  <2>1. PICK back \in BOOLEAN : Check(FALSE, back)
    BY <1>3 DEF CheckSetBack
  <2> QED
    BY <1>3, <2>1, CheckKeeps DEF CheckSetBack
<1>4. CASE ReadTimeout \/ ReadStray
  BY <1>4, ReadErrKeeps
<1>5. CASE ReadDefault \/ ReadHandled \/ ReadRefresh \/ ReadQuit
  BY <1>5, ReadKeyKeeps
<1>6. CASE UNCHANGED loopVars
  BY <1>6 DEF loopVars, LoopInv, LoopTypeOK, ErrsCounted, Waits, IsErr
<1> QED  BY <1>1, <1>2, <1>3, <1>4, <1>5, <1>6 DEF LoopNext

LEMMA Invariance == LoopSpec => []LoopInv
<1> QED  BY InitLoopInv, NextKeepsLoopInv, PTL DEF LoopSpec

(* The countdown to the next sort never exceeds the number of waits it was *)
(* set to, and the count of ERRs never its limit: checkRecalculation and   *)
(* ScreenManager_run compare both with = and would miss what has passed.   *)
THEOREM TypeCorrect == LoopSpec => []LoopTypeOK
<1>1. LoopInv => LoopTypeOK
  BY DEF LoopInv
<1> QED  BY <1>1, Invariance, PTL

(* ScreenManager_run gives up only when ERRs come at once and in numbers,  *)
(* within one delay: an idle user's waits do not add up.                   *)
THEOREM NeverClosesOnIdle == LoopSpec => []ClosesOnlyInBurst
<1>1. LoopInv => ClosesOnlyInBurst
  <2> SUFFICES ASSUME LoopInv, point = "closed", ch # "quit" PROVE burst >= CloseLimit - 2
    BY DEF ClosesOnlyInBurst
  <2>1. closeTimeout = CloseLimit /\ closeTimeout <= burst + Waits
    BY DEF LoopInv, ErrsCounted
  <2>2. Waits \in 0 .. 2
    BY DEF Waits
  <2> QED  BY <2>1, <2>2, MainLoopAssumption DEF LoopInv, LoopTypeOK
<1> QED  BY <1>1, Invariance, PTL

-----------------------------------------------------------------------------
(* The options from one run to the next.                                   *)

\* What is decoded right when it is written and read again.
Typed(s) ==
  /\ s = [o \in Options |-> s[o]]
  /\ s["sortKey"] \in Int /\ s["colorScheme"] \in 0..6
  /\ "treeView" \in Toggled => s["treeView"] \in BOOLEAN

\* The file of the user may also be empty or cut behind its first line.
Usable(file) == Whole(file) \/ DOMAIN file \subseteq {"none", "fields"}

FilesSound ==
  /\ files = [legacy |-> files.legacy, user |-> files.user, system |-> files.system]
  /\ files.legacy = NoFile \/ Whole(files.legacy)
  /\ files.system = NoFile \/ Whole(files.system)
  /\ Usable(files.user)
  /\ \/ files.user = NoFile \/ Whole(files.user)
     \/ cut \/ OldFileCounts(files) \/ stage = "saving"

\* What is to be kept is in the file that counts, unless that was cut.
KeptInFile ==
  /\ OldFileCounts(files) => kept = Meaning(files.legacy)
  /\ ~OldFileCounts(files) /\ ~cut /\ stage # "saving" => kept = Counting(files)

\* Where a start has come to.
Progress ==
  /\ stage = "legacy" => options = Defaults /\ ~HtopRc
  /\ stage \in {"move", "moving", "unlink"} =>
       OldFileCounts(files) /\ options = Meaning(files.legacy)
  /\ stage = "unlink" => cut \/ files.user = Written(options)
  /\ stage \in {"user", "system"} => ~OldFileCounts(files)
  /\ stage = "user" => options = Defaults
  /\ stage = "system" => cut \/ (files.user = NoFile /\ options = Defaults)
  /\ stage = "start" => cut \/ options = kept

IInv == Typed(options) /\ FilesSound /\ KeptInFile /\ Progress /\ (touched => edited)

USE ConfigurationAssumption

-----------------------------------------------------------------------------
(* Options and files. *)

LEMMA OptionNames ==
  /\ {"hideThreads", "fields", "sortKey", "direction", "colorScheme", "delay", "meters", "board"}
       \subseteq Options
  /\ "none" \notin Options
  /\ "treeView" \in Options <=> "treeView" \in Toggled
BY DEF Options, CheckItems

LEMMA NoFileHasNoFields == ~HasFields(NoFile) /\ ~HasFields(Empty) /\ Usable(NoFile) /\ Usable(Empty)
BY DEF HasFields, NoFile, Empty, Usable

LEMMA WholeHasFields == ASSUME NEW f, Whole(f) PROVE HasFields(f) /\ f # NoFile /\ DOMAIN f = Options
<1>1. DOMAIN f = Options
  BY DEF Whole
<1> QED BY <1>1, OptionNames DEF HasFields, NoFile

LEMMA DefaultsTyped == Typed(Defaults)
<1>1. Defaults["sortKey"] = 47 /\ Defaults["colorScheme"] = 0
  BY OptionNames DEF Defaults, PercentCpu
<1>2. "treeView" \in Toggled => Defaults["treeView"] = FALSE
  BY OptionNames DEF Defaults
<1>3. Defaults = [o \in Options |-> Defaults[o]]
  BY Zenon DEF Defaults
<1>4. Defaults["sortKey"] \in Int /\ Defaults["colorScheme"] \in 0..6
  BY <1>1
<1>5. "treeView" \in Toggled => Defaults["treeView"] \in BOOLEAN
  BY <1>2
<1> QED BY <1>3, <1>4, <1>5, Zenon DEF Typed

\* Reading a whole file leaves nothing of what was there before.
LEMMA ReadWhole ==
  ASSUME NEW s, NEW f, Whole(f)
  PROVE  ReadFile(s, f) = Meaning(f) /\ Typed(Meaning(f))
<1>1. DOMAIN f = Options
  BY WholeHasFields
<1>2. ReadFile(s, f) = Meaning(f)
  BY <1>1 DEF ReadFile, Meaning
<1>3. Meaning(f) = [o \in Options |-> Decoded(o, f[o])]
  BY <1>1 DEF Meaning
<1>4. Typed(Meaning(f))
  BY <1>3, OptionNames DEF Typed, Decoded, Whole, LastColorScheme
<1> QED BY <1>2, <1>4

LEMMA ReadTyped ==
  ASSUME NEW s, Typed(s), NEW f, Usable(f)
  PROVE  Typed(ReadFile(s, f))
<1>1. CASE Whole(f)
  BY <1>1, ReadWhole
<1>2. CASE DOMAIN f \subseteq {"none", "fields"}
  <2>1. \A o \in {"sortKey", "colorScheme", "treeView"} : o \notin DOMAIN f /\ o # "meters"
    BY <1>2
  <2>2. \A o \in {"sortKey", "colorScheme", "treeView"} \cap Options : ReadFile(s, f)[o] = s[o]
    BY <2>1 DEF ReadFile
  <2> QED BY <2>2, OptionNames DEF Typed, ReadFile
<1> QED BY <1>1, <1>2 DEF Usable

LEMMA LastResortTyped == ASSUME NEW s, Typed(s) PROVE Typed(LastResort(s))
BY OptionNames DEF Typed, LastResort

\* What is written means the same when it is read.
LEMMA WrittenMeans ==
  ASSUME NEW s, Typed(s)
  PROVE  Whole(Written(s)) /\ Meaning(Written(s)) = s
<1>1. Whole(Written(s))
  BY OptionNames DEF Whole, Written, Encoded, Typed
<1>2. \A o \in Options : Decoded(o, Written(s)[o]) = s[o]
  <2> SUFFICES ASSUME NEW o \in Options PROVE Decoded(o, Written(s)[o]) = s[o]
    OBVIOUS
  <2>1. Written(s)[o] = Encoded(o, s[o])
    BY DEF Written
  <2>2. CASE o = "sortKey"
    BY <2>1, <2>2 DEF Encoded, Decoded, Typed
  <2>3. CASE o = "colorScheme"
    BY <2>1, <2>3 DEF Encoded, Decoded, Typed, LastColorScheme
  <2>4. CASE o \notin {"sortKey", "colorScheme"}
    BY <2>1, <2>4 DEF Encoded, Decoded
  <2> QED BY <2>2, <2>3, <2>4
<1>3. Meaning(Written(s)) = [o \in Options |-> Decoded(o, Written(s)[o])]
  BY DEF Meaning, Written
<1> QED BY <1>1, <1>2, <1>3 DEF Typed

\* A command line without options changes none.
LEMMA NoFlagsNoChange == ASSUME NEW s, Typed(s) PROVE Flagged(s, NoFlags) = s
<1>1. \A o \in Options : Flagged(s, NoFlags)[o] = s[o]
  <2> SUFFICES ASSUME NEW o \in Options PROVE Flagged(s, NoFlags)[o] = s[o]
    OBVIOUS
  <2>1. CASE o = "treeView"
    BY <2>1, OptionNames DEF Flagged, NoFlags, Typed
  <2>2. CASE o # "treeView"
    BY <2>2 DEF Flagged, NoFlags
  <2> QED BY <2>1, <2>2
<1> QED BY <1>1 DEF Flagged, Typed

LEMMA FlaggedTyped ==
  ASSUME NEW s, Typed(s), NEW f, f.sortKey \in Int
  PROVE  Typed(Flagged(s, f))
<1>1. Flagged(s, f)["sortKey"] \in Int /\ Flagged(s, f)["colorScheme"] \in 0..6
  BY OptionNames DEF Flagged, Typed
<1>2. "treeView" \in Toggled => Flagged(s, f)["treeView"] \in BOOLEAN
  BY OptionNames DEF Flagged
<1> QED BY <1>1, <1>2 DEF Typed, Flagged

-----------------------------------------------------------------------------
(* The invariant. *)

LEMMA InvInit == ConfInit => IInv
<1> SUFFICES ASSUME ConfInit PROVE IInv
  OBVIOUS
<1>1. Typed(options) /\ ~touched /\ Progress
  BY DefaultsTyped DEF ConfInit, Progress
<1>2. \A place \in {"legacy", "user", "system"} : files[place] = NoFile \/ Whole(files[place])
  BY FirstFilesAssumption DEF ConfInit
<1>3. FilesSound
  BY <1>2, FirstFilesAssumption, NoFileHasNoFields DEF ConfInit, FilesSound, Usable
<1>4. KeptInFile
  BY DEF ConfInit, KeptInFile, Counting
<1> QED BY <1>1, <1>3, <1>4 DEF IInv

\* What a step that touches no file and no history has to keep.
LEMMA SameFiles ==
  ASSUME IInv, UNCHANGED <<files, cut>>, stage = "saving" => stage' = "saving"
  PROVE  FilesSound'
BY DEF IInv, FilesSound, OldFileCounts, HasFields

LEMMA SameKept ==
  ASSUME IInv, UNCHANGED <<files, cut, kept>>, stage = "saving" => stage' = "saving"
  PROVE  KeptInFile'
BY DEF IInv, KeptInFile, OldFileCounts, Counting, HasFields

LEMMA LaunchKeeps == ASSUME IInv, NEW args \in ArgLists, Launch(args) PROVE IInv'
<1>1. FilesSound' /\ KeptInFile'
  BY SameFiles, SameKept DEF Launch
<1>2. Typed(options)' /\ ~touched'
  BY DefaultsTyped DEF Launch, Typed
<1>3. Progress'
  BY DEF Launch, Progress, OldFileCounts
<1> QED BY <1>1, <1>2, <1>3 DEF IInv

LEMMA ReadLegacyKeeps == ASSUME IInv, ReadLegacy PROVE IInv'
<1>1. FilesSound' /\ KeptInFile' /\ (touched => edited)'
  BY SameFiles, SameKept DEF ReadLegacy, history, IInv
<1>2. options = Defaults /\ ~HtopRc /\ (files.legacy = NoFile \/ Whole(files.legacy))
  BY DEF IInv, Progress, FilesSound, ReadLegacy
<1>3. CASE files.legacy = NoFile
  <2>1. options' = Defaults /\ stage' = "user" /\ UNCHANGED files
    BY <1>2, <1>3 DEF ReadLegacy
  <2>2. ~OldFileCounts(files)'
    BY <1>3, <2>1, NoFileHasNoFields DEF OldFileCounts
  <2> QED BY <1>1, <2>1, <2>2, DefaultsTyped DEF IInv, Progress, Typed
<1>4. CASE Whole(files.legacy)
  <2>1. HasFields(files.legacy) /\ files.legacy # NoFile
    BY <1>4, WholeHasFields
  <2>2. stage' = "move" /\ options' = Meaning(files.legacy) /\ UNCHANGED files
    BY <1>4, <2>1, ReadWhole DEF ReadLegacy
  <2>3. OldFileCounts(files)'
    BY <1>2, <2>1, <2>2 DEF OldFileCounts
  <2>4. Typed(options)'
    BY <1>4, <2>2, ReadWhole DEF Typed
  <2> QED BY <1>1, <2>2, <2>3, <2>4 DEF IInv, Progress, Meaning
<1> QED BY <1>2, <1>3, <1>4

LEMMA OpenMovedKeeps == ASSUME IInv, OpenMoved PROVE IInv'
<1>1. OldFileCounts(files) /\ options = Meaning(files.legacy) /\ kept = Meaning(files.legacy)
  BY DEF IInv, Progress, KeptInFile, OpenMoved, OpenForWriting
<1>2. UNCHANGED <<options, edited, touched, kept, cut>> /\ stage = "move"
  BY DEF OpenMoved, OpenForWriting, runVars, history
<1>3. CASE files' = [files EXCEPT !.user = Empty] /\ stage' = "moving"
  <2>1. files' = [legacy |-> files.legacy, user |-> Empty, system |-> files.system]
    BY <1>3 DEF IInv, FilesSound
  <2>2. OldFileCounts(files')
    BY <1>1, <2>1 DEF OldFileCounts
  <2>3. FilesSound'
    BY <2>1, <2>2, NoFileHasNoFields DEF IInv, FilesSound
  <2>4. KeptInFile' /\ Progress'
    BY <1>1, <1>2, <1>3, <2>1, <2>2 DEF KeptInFile, Progress
  <2> QED BY <1>2, <2>3, <2>4 DEF IInv, Typed
<1>4. CASE UNCHANGED files /\ stage' = "start"
  <2>1. FilesSound' /\ KeptInFile'
    BY <1>2, <1>4, SameFiles, SameKept
  <2>2. Progress'
    BY <1>1, <1>2, <1>4 DEF Progress
  <2> QED BY <1>2, <2>1, <2>2 DEF IInv, Typed
<1> QED BY <1>3, <1>4 DEF OpenMoved, OpenForWriting

\* The file after it was closed.
LEMMA ClosedFile ==
  ASSUME IInv, NEW from, NEW next, Close(from, next)
  PROVE  /\ files' = [legacy |-> files.legacy, user |-> files'.user, system |-> files.system]
         /\ Usable(files'.user)
         /\ ~cut' => files'.user = Written(options) /\ Whole(files'.user)
<1>1. files = [legacy |-> files.legacy, user |-> files.user, system |-> files.system]
  BY DEF IInv, FilesSound
<1>2. CASE files' = [files EXCEPT !.user = Written(options)] /\ cut' = FALSE
  BY <1>1, <1>2, WrittenMeans DEF IInv, Usable
<1>3. CASE files' = [files EXCEPT !.user = Empty] /\ cut' = TRUE
  BY <1>1, <1>3, NoFileHasNoFields
<1>4. CASE files' = [files EXCEPT !.user = [o \in {"fields"} |-> options["fields"]]] /\ cut' = TRUE
  BY <1>1, <1>4 DEF Usable
<1> QED BY <1>2, <1>3, <1>4 DEF Close

LEMMA CloseMovedKeeps == ASSUME IInv, CloseMoved PROVE IInv'
<1>1. OldFileCounts(files) /\ options = Meaning(files.legacy) /\ kept = Meaning(files.legacy)
  BY DEF IInv, Progress, KeptInFile, CloseMoved, Close
<1>2. UNCHANGED <<options, edited, touched, kept>> /\ stage' = "unlink"
  BY DEF CloseMoved, Close, runVars
<1>3. /\ files' = [legacy |-> files.legacy, user |-> files'.user, system |-> files.system]
      /\ Usable(files'.user)
      /\ ~cut' => files'.user = Written(options) /\ Whole(files'.user)
  BY ClosedFile DEF CloseMoved
<1>4. OldFileCounts(files') /\ files'.legacy = files.legacy
  BY <1>1, <1>3 DEF OldFileCounts
<1>5. FilesSound'
  BY <1>3, <1>4 DEF IInv, FilesSound
<1>6. KeptInFile' /\ Progress'
  BY <1>1, <1>2, <1>3, <1>4 DEF KeptInFile, Progress
<1> QED BY <1>2, <1>5, <1>6 DEF IInv, Typed

LEMMA UnlinkKeeps == ASSUME IInv, Unlink PROVE IInv'
<1>1. /\ OldFileCounts(files) /\ options = Meaning(files.legacy) /\ kept = Meaning(files.legacy)
      /\ cut \/ files.user = Written(options)
  BY DEF IInv, Progress, KeptInFile, Unlink
<1>2. UNCHANGED <<options, edited, touched, kept, cut>> /\ stage' = "start"
  BY DEF Unlink, runVars, history
<1>3. files' = [legacy |-> NoFile, user |-> files.user, system |-> files.system]
  BY DEF Unlink, IInv, FilesSound
<1>4. ~OldFileCounts(files')
  BY <1>3, NoFileHasNoFields DEF OldFileCounts
<1>5. cut \/ (Whole(files.user) /\ Meaning(files.user) = options)
  BY <1>1, WrittenMeans DEF IInv
<1>6. FilesSound'
  BY <1>2, <1>3, <1>5 DEF IInv, FilesSound
<1>7. cut \/ Counting(files') = kept
  BY <1>1, <1>3, <1>4, <1>5, WholeHasFields DEF Counting
<1>8. KeptInFile' /\ Progress'
  BY <1>1, <1>2, <1>4, <1>7 DEF KeptInFile, Progress
<1> QED BY <1>2, <1>6, <1>8 DEF IInv, Typed

LEMMA ReadUserKeeps == ASSUME IInv, ReadUser PROVE IInv'
<1>1. FilesSound' /\ KeptInFile' /\ (touched => edited)'
  BY SameFiles, SameKept DEF ReadUser, history, IInv
<1>2. /\ options = Defaults /\ ~OldFileCounts(files) /\ Usable(files.user)
      /\ files.user = NoFile \/ Whole(files.user) \/ cut
      /\ cut \/ kept = Counting(files)
  BY DEF IInv, Progress, FilesSound, KeptInFile, ReadUser
<1>3. UNCHANGED <<files, kept, cut>> /\ ~OldFileCounts(files')
  BY <1>2 DEF ReadUser, history
<1>4. Typed(options')
  BY <1>2, DefaultsTyped, ReadTyped DEF ReadUser
<1>5. CASE HasFields(files.user)
  <2>1. stage' = "start" /\ files.user # NoFile /\ options' = ReadFile(Defaults, files.user)
    BY <1>2, <1>5, NoFileHasNoFields DEF ReadUser
  <2>2. cut \/ options' = Counting(files)
    BY <1>2, <1>5, <2>1, ReadWhole DEF Counting
  <2>3. Progress'
    BY <1>2, <1>3, <2>1, <2>2 DEF Progress
  <2> QED BY <1>1, <1>4, <2>3 DEF IInv, Typed
<1>6. CASE ~HasFields(files.user)
  <2>1. stage' = "system" /\ (cut \/ (files.user = NoFile /\ options' = Defaults))
    BY <1>2, <1>6, WholeHasFields DEF ReadUser
  <2>2. Progress'
    BY <1>3, <2>1 DEF Progress
  <2> QED BY <1>1, <1>4, <2>2 DEF IInv, Typed
<1> QED BY <1>5, <1>6

LEMMA ReadSystemKeeps == ASSUME IInv, ReadSystem PROVE IInv'
<1>1. FilesSound' /\ KeptInFile' /\ (touched => edited)'
  BY SameFiles, SameKept DEF ReadSystem, history, IInv
<1>2. /\ Typed(options) /\ ~OldFileCounts(files)
      /\ cut \/ (files.user = NoFile /\ options = Defaults)
      /\ files.system = NoFile \/ Whole(files.system)
      /\ cut \/ kept = Counting(files)
  BY DEF IInv, Progress, FilesSound, KeptInFile, ReadSystem
<1>3. UNCHANGED <<kept, cut>> /\ stage' = "start"
  BY DEF ReadSystem, history
<1>4. CASE files.system = NoFile
  <2>1. options' = LastResort(options)
    BY <1>4, NoFileHasNoFields DEF ReadSystem
  <2>2. Typed(options')
    BY <1>2, <2>1, LastResortTyped
  <2>3. cut \/ options' = kept
    BY <1>2, <1>4, <2>1, NoFileHasNoFields DEF Counting
  <2> QED BY <1>1, <1>3, <2>2, <2>3 DEF IInv, Progress, Typed
<1>5. CASE Whole(files.system)
  <2>1. options' = Meaning(files.system) /\ Typed(options')
    BY <1>5, WholeHasFields, ReadWhole DEF ReadSystem
  <2>2. cut \/ options' = kept
    BY <1>2, <1>5, <2>1, WholeHasFields, NoFileHasNoFields DEF Counting
  <2> QED BY <1>1, <1>3, <2>1, <2>2 DEF IInv, Progress, Typed
<1> QED BY <1>2, <1>4, <1>5

LEMMA ApplyFlagsKeeps == ASSUME IInv, flags.sortKey \in Int, ApplyFlags PROVE IInv'
<1>1. FilesSound' /\ KeptInFile' /\ (touched => edited)'
  BY SameFiles, SameKept DEF ApplyFlags, history, IInv
<1>2. Typed(options')
  BY FlaggedTyped DEF ApplyFlags, IInv
<1> QED BY <1>1, <1>2 DEF IInv, Progress, ApplyFlags, Typed

LEMMA ChangeKeeps == ASSUME IInv, NEW new, Typed(new), Change(new) PROVE IInv'
<1>1. FilesSound' /\ KeptInFile'
  BY SameFiles, SameKept DEF Change
<1> QED BY <1>1 DEF IInv, Progress, Change, Typed

LEMMA UserKeeps == ASSUME IInv, User PROVE IInv'
<1>1. Typed(options)
  BY DEF IInv
<1>2. ASSUME NEW o \in Toggled, CheckBox(o) PROVE IInv'
  <2> DEFINE new == [options EXCEPT ![o] = ~@]
  <2>1. o \notin {"sortKey", "colorScheme"} /\ o \in Options
    BY <1>2 DEF ConfigurationAssumption, CheckItems, Options
  <2>2. new = [p \in Options |-> new[p]] /\ new["sortKey"] \in Int /\ new["colorScheme"] \in 0..6
    BY <1>1, <2>1, OptionNames DEF Typed
  <2>3. "treeView" \in Toggled => new["treeView"] \in BOOLEAN
    <3>1. CASE o = "treeView"
      BY <1>1, <2>1, <3>1 DEF Typed
    <3>2. CASE o # "treeView"
      BY <1>1, <3>2, OptionNames DEF Typed
    <3> QED BY <3>1, <3>2
  <2>4. Typed(new)
    BY <2>2, <2>3 DEF Typed
  <2> QED BY <1>2, <2>4, ChangeKeeps DEF CheckBox
<1>3. ASSUME NEW n \in Schemes, ChooseScheme(n) PROVE IInv'
  <2>1. Typed([options EXCEPT !["colorScheme"] = n])
    BY <1>1, OptionNames DEF Typed, ConfigurationAssumption
  <2> QED BY <1>3, <2>1, ChangeKeeps DEF ChooseScheme
<1>4. ASSUME NEW c \in SortColumn, SetSortColumn(c) PROVE IInv'
  <2> DEFINE new == [o \in Options |-> CASE o = "sortKey" -> c [] o = "direction" -> 1
                                         [] o = "treeView" -> FALSE [] OTHER -> options[o]]
  <2>1. new["sortKey"] = c /\ new["colorScheme"] = options["colorScheme"]
    BY OptionNames
  <2>2. "treeView" \in Toggled => new["treeView"] = FALSE
    BY OptionNames
  <2>3. new = [o \in Options |-> new[o]]
    OBVIOUS
  <2>4. c \in Int
    BY DEF ConfigurationAssumption
  <2>5. Typed(new)
    BY <1>1, <2>1, <2>2, <2>3, <2>4 DEF Typed
  <2> QED BY <1>4, <2>5, ChangeKeeps DEF SetSortColumn
<1>5. ASSUME InvertColumn PROVE IInv'
  <2>1. Typed([options EXCEPT !["direction"] = IF @ = 1 THEN -1 ELSE 1])
    BY <1>1, OptionNames DEF Typed
  <2> QED BY <1>5, <2>1, ChangeKeeps DEF InvertColumn
<1>6. ASSUME HideThreadsKey PROVE IInv'
  <2> DEFINE hidden == ~options["hideUserlandThreads"]
  <2>1. Typed([options EXCEPT !["hideUserlandThreads"] = hidden, !["hideThreads"] = hidden])
    BY <1>1, OptionNames DEF Typed
  <2> QED BY <1>6, <2>1, ChangeKeeps DEF HideThreadsKey
<1>7. ASSUME TreeViewKey PROVE IInv'
  <2> DEFINE new == [o \in Options |-> CASE o = "treeView" -> ~options[o]
                                         [] o = "direction" /\ ~options["treeView"] -> 1
                                         [] OTHER -> options[o]]
  <2>1. new["sortKey"] = options["sortKey"] /\ new["colorScheme"] = options["colorScheme"]
    BY OptionNames
  <2>2. "treeView" \in Toggled => new["treeView"] \in BOOLEAN
    BY OptionNames
  <2>3. new = [o \in Options |-> new[o]]
    OBVIOUS
  <2>4. Typed(new)
    BY <1>1, <2>1, <2>2, <2>3 DEF Typed
  <2> QED BY <1>7, <2>4, ChangeKeeps DEF TreeViewKey
<1> QED BY <1>2, <1>3, <1>4, <1>5, <1>6, <1>7 DEF User

LEMMA QuitRunKeeps == ASSUME IInv, QuitRun PROVE IInv'
<1>1. UNCHANGED <<files, options, edited, touched, kept, cut>> /\ stage' \in {"save", "down"} /\ stage = "up"
  BY DEF QuitRun, runVars, IInv
<1>2. FilesSound' /\ KeptInFile'
  BY <1>1, SameFiles, SameKept
<1>3. Progress'
  BY <1>1 DEF Progress
<1> QED BY <1>1, <1>2, <1>3 DEF IInv, Typed

LEMMA OpenSavedKeeps == ASSUME IInv, OpenSaved PROVE IInv'
<1>1. UNCHANGED <<options, edited, touched, kept, cut>> /\ stage = "save"
  BY DEF OpenSaved, OpenForWriting, runVars, history
<1>2. CASE files' = [files EXCEPT !.user = Empty] /\ stage' = "saving"
  <2>1. files' = [legacy |-> files.legacy, user |-> Empty, system |-> files.system]
    BY <1>2 DEF IInv, FilesSound
  <2>2. FilesSound'
    BY <1>2, <2>1, NoFileHasNoFields DEF IInv, FilesSound
  <2>3. KeptInFile' /\ Progress'
    BY <1>1, <1>2, <2>1 DEF IInv, KeptInFile, OldFileCounts, Progress
  <2> QED BY <1>1, <2>2, <2>3 DEF IInv, Typed
<1>3. CASE UNCHANGED files /\ stage' = "down"
  <2>1. FilesSound' /\ KeptInFile'
    BY <1>1, <1>3, SameFiles, SameKept
  <2>2. Progress'
    BY <1>3 DEF Progress
  <2> QED BY <1>1, <2>1, <2>2 DEF IInv, Typed
<1> QED BY <1>2, <1>3 DEF OpenSaved, OpenForWriting

LEMMA CloseSavedKeeps == ASSUME IInv, CloseSaved PROVE IInv'
<1>1. /\ UNCHANGED <<options, edited, touched>> /\ stage' = "down"
      /\ kept' = IF cut' \/ OldFileCounts(files) THEN kept ELSE options
  BY DEF CloseSaved, Close, runVars
<1>2. /\ files' = [legacy |-> files.legacy, user |-> files'.user, system |-> files.system]
      /\ Usable(files'.user)
      /\ ~cut' => files'.user = Written(options) /\ Whole(files'.user)
  BY ClosedFile DEF CloseSaved
<1>3. files'.legacy = files.legacy /\ (OldFileCounts(files') <=> OldFileCounts(files))
  BY <1>2 DEF OldFileCounts
<1>4. FilesSound'
  BY <1>2, <1>3 DEF IInv, FilesSound
<1>5. ~cut' => HasFields(files'.user) /\ Meaning(files'.user) = options
  BY <1>2, WholeHasFields, WrittenMeans DEF IInv
<1>6. KeptInFile'
  BY <1>1, <1>3, <1>5 DEF IInv, KeptInFile, Counting
<1>7. Progress'
  BY <1>1 DEF Progress
<1> QED BY <1>1, <1>4, <1>6, <1>7 DEF IInv, Typed

LEMMA KillKeeps == ASSUME IInv, Kill PROVE IInv'
<1>1. /\ UNCHANGED <<files, options, edited, touched, kept>> /\ stage' = "down"
      /\ cut' = (cut \/ stage = "saving")
  BY DEF Kill, runVars
<1>2. FilesSound'
  BY <1>1 DEF IInv, FilesSound, OldFileCounts, HasFields
<1>3. KeptInFile'
  BY <1>1 DEF IInv, KeptInFile, OldFileCounts, Counting, HasFields
<1>4. Progress'
  BY <1>1 DEF Progress
<1> QED BY <1>1, <1>2, <1>3, <1>4 DEF IInv, Typed

LEMMA StutterKeeps == ASSUME IInv, UNCHANGED confVars PROVE IInv'
<1>1. UNCHANGED <<files, options, edited, stage, touched, kept, cut>>
  BY DEF confVars, runVars, history
<1>2. FilesSound' /\ KeptInFile'
  BY <1>1, SameFiles, SameKept
<1>3. Progress'
  BY <1>1 DEF IInv, Progress, OldFileCounts, HasFields
<1> QED BY <1>1, <1>2, <1>3 DEF IInv, Typed

-----------------------------------------------------------------------------
(* The theorem. *)

LEMMA FlagsAreNumbers == ConfSpec => [](flags.sortKey \in Int)
<1>1. ConfInit => flags.sortKey \in Int
  BY DEF ConfInit, NoFlags
<1>2. flags.sortKey \in Int /\ [ConfNext]_confVars => (flags.sortKey \in Int)'
  <2> SUFFICES ASSUME flags.sortKey \in Int, [ConfNext]_confVars PROVE flags'.sortKey \in Int
    OBVIOUS
  <2>1. CASE \E args \in ArgLists : Launch(args)
    BY <2>1, ArgListsAssumption DEF Launch
  <2>2. CASE Starting
    BY <2>2 DEF Starting, Moving, ReadLegacy, OpenMoved, OpenForWriting, CloseMoved, Close,
                Unlink, ReadUser, ReadSystem, ApplyFlags, runVars
  <2>3. CASE User
    BY <2>3 DEF User, CheckBox, ChooseScheme, SetSortColumn, InvertColumn, HideThreadsKey,
                TreeViewKey, Change
  <2>4. CASE Ending \/ Kill
    BY <2>4 DEF Ending, QuitRun, OpenSaved, OpenForWriting, CloseSaved, Close, Kill, runVars
  <2>5. CASE UNCHANGED confVars
    BY <2>5 DEF confVars, runVars
  <2> QED BY <2>1, <2>2, <2>3, <2>4, <2>5 DEF ConfNext
<1> QED BY <1>1, <1>2, PTL DEF ConfSpec

LEMMA InvNext == IInv /\ flags.sortKey \in Int /\ [ConfNext]_confVars => IInv'
<1> SUFFICES ASSUME IInv, flags.sortKey \in Int, [ConfNext]_confVars PROVE IInv'
  OBVIOUS
<1>1. CASE \E args \in ArgLists : Launch(args)
  BY <1>1, LaunchKeeps
<1>2. CASE Starting
  BY <1>2, ReadLegacyKeeps, OpenMovedKeeps, CloseMovedKeeps, UnlinkKeeps, ReadUserKeeps,
     ReadSystemKeeps, ApplyFlagsKeeps DEF Starting, Moving
<1>3. CASE User
  BY <1>3, UserKeeps
<1>4. CASE Ending \/ Kill
  BY <1>4, QuitRunKeeps, OpenSavedKeeps, CloseSavedKeeps, KillKeeps DEF Ending
<1>5. CASE UNCHANGED confVars
  BY <1>5, StutterKeeps
<1> QED BY <1>1, <1>2, <1>3, <1>4, <1>5 DEF ConfNext

\* What a start that was told nothing else begins with: of the steps only ApplyFlags
\* ends a start, and Progress says what it starts from.
LEMMA StartsWithKept ==
  IInv /\ [ConfNext]_confVars =>
    [stage = "start" /\ stage' = "up" /\ flags = NoFlags => cut \/ options' = kept]_confVars
<1> SUFFICES ASSUME IInv, ConfNext, stage = "start", stage' = "up", flags = NoFlags
             PROVE  cut \/ options' = kept
  OBVIOUS
<1>1. ApplyFlags
  BY DEF ConfNext, Launch, Starting, Moving, ReadLegacy, OpenMoved, OpenForWriting, CloseMoved,
         Close, Unlink, ReadUser, ReadSystem, User, CheckBox, ChooseScheme, SetSortColumn,
         InvertColumn, HideThreadsKey, TreeViewKey, Change, Ending, QuitRun, OpenSaved,
         CloseSaved, Kill
<1>2. options' = options
  BY <1>1, NoFlagsNoChange DEF ApplyFlags, IInv
<1> QED BY <1>2 DEF IInv, Progress

\* Over any number of runs, whatever the command lines, the first files, the changes,
\* the kills and the full disks: a run that was told nothing else begins with the
\* options the last one ended with, unless the rewriting of the file was cut short
\* (Settings_new, Settings_read, Settings_write, main).
THEOREM OptionsKept == ConfSpec => OptionsAreKept
<1>1. ConfSpec => []IInv
  BY InvInit, InvNext, FlagsAreNumbers, PTL DEF ConfSpec
<1> QED BY <1>1, StartsWithKept, PTL DEF ConfSpec, OptionsAreKept

HIDE ConfigurationAssumption
-----------------------------------------------------------------------------
(* What is picked out of a list. *)

LEMMA KeptSet ==
  ASSUME NEW T, NEW s \in Seq(T), NEW S
  PROVE  /\ ToSet(Kept(s, S)) = ToSet(s) \cap S
         /\ IsInjective(s) => IsInjective(Kept(s, S))
         /\ Increasing(s) => Increasing(Kept(s, S))
<1> DEFINE r == Kept(s, S)
<1>1. r \in Seq(T) /\ \E at : PickedTo(at, s, S, r, Len(s))
  BY KeptFacts
<1>2. PICK at : PickedTo(at, s, S, r, Len(s))
  BY <1>1
<1> HIDE DEF r
<1>3. /\ DOMAIN r = 1 .. Len(r) /\ DOMAIN s = 1 .. Len(s) /\ Len(r) \in Nat /\ Len(s) \in Nat
      /\ \A j \in 1 .. Len(r) : at[j] \in 1 .. Len(s) /\ r[j] = s[at[j]] /\ s[at[j]] \in S
      /\ \A i \in 1 .. Len(s) : s[i] \in S => \E j \in 1 .. Len(r) : at[j] = i
      /\ \A i, j \in 1 .. Len(r) : i < j => at[i] < at[j]
  <2>1. DOMAIN r = 1 .. Len(r) /\ DOMAIN s = 1 .. Len(s) /\ Len(r) \in Nat /\ Len(s) \in Nat
    BY <1>1
  <2> QED
    BY <1>2, <2>1 DEF PickedTo
<1>4. ToSet(r) = ToSet(s) \cap S
  BY <1>3 DEF ToSet
<1>5. ASSUME IsInjective(s) PROVE IsInjective(r)
  <2> SUFFICES ASSUME NEW i \in 1 .. Len(r), NEW j \in 1 .. Len(r), r[i] = r[j] PROVE i = j
    BY <1>3 DEF IsInjective
  <2>1. at[i] = at[j]
    BY <1>3, <1>5 DEF IsInjective
  <2>2. ~(at[i] < at[j]) /\ ~(at[j] < at[i])
    BY <1>3, <2>1
  <2> QED
    BY <1>3, <2>2
<1>6. ASSUME Increasing(s) PROVE Increasing(r)
  BY <1>3, <1>6 DEF Increasing
<1> QED
  BY <1>4, <1>5, <1>6 DEF r



-----------------------------------------------------------------------------
(* What is above a process. *)

\* The parents of a table that are in D or 0 stay there.
LEMMA AncestorsAre ==
  ASSUME NEW D \in SUBSET Pid, NEW t, \A q \in D : t[q].ppid \in D \cup {0}, NEW p \in D
  PROVE  /\ p \in Ancestors(t, p) /\ Ancestors(t, p) \subseteq D \cup {0}
         /\ \A q \in Ancestors(t, p) \cap D : t[q].ppid \in Ancestors(t, p)
         /\ \A S : p \in S /\ (\A q \in S \cap D : t[q].ppid \in S) => Ancestors(t, p) \subseteq S
<1> DEFINE N == Cardinality(Pid)
           U == D \cup {0}
           Up(X) == X \cup {t[q].ppid : q \in X \cap Pid}
           Eq(g) == g = [n \in 0 .. N |->
                           IF n = 0 THEN {p} ELSE g[n - 1] \cup {t[q].ppid : q \in g[n - 1] \cap Pid}]
           cur == CHOOSE g : Eq(g)
           F == [n \in 1 .. N |-> [X \in SUBSET U |-> Up(X)]]
<1>1. IsFiniteSet(Pid) /\ N \in Nat /\ 0 \notin Pid
  BY TreeAssumption, FS_CardinalityType
<1>2. Ancestors(t, p) = cur[N]
  BY Zenon DEF Ancestors
<1>3. \A X \in SUBSET U : Up(X) \in SUBSET U /\ X \subseteq Up(X)
  BY <1>1
<1>4. IsFiniteSet(U) /\ Cardinality(U) <= N + 1
  <2>1. IsFiniteSet(D) /\ Cardinality(D) <= N /\ Cardinality(D) \in Nat
    BY <1>1, FS_Subset, FS_CardinalityType
  <2>2. IsFiniteSet(U) /\ Cardinality(U) = IF 0 \in D THEN Cardinality(D) ELSE Cardinality(D) + 1
    BY <2>1, FS_AddElement
  <2> HIDE DEF N, U
  <2> QED
    BY <1>1, <2>1, <2>2
<1>5. F \in [1 .. N -> [SUBSET U -> SUBSET U]]
  <2> HIDE DEF Up, U
  <2> QED
    BY <1>3
<1>6. {p} \in SUBSET U
  OBVIOUS
<1>7. PICK f : IsLoop(f, {p}, F, SUBSET U, N)
  <2> HIDE DEF F, U, N
  <2> QED
    BY <1>1, <1>5, <1>6, LoopRuns
<1>8. Eq(f)
  <2>1. f \in [0 .. N -> SUBSET U] /\ f[0] = {p} /\ \A n \in 1 .. N : f[n] = F[n][f[n - 1]]
    BY <1>7 DEF IsLoop
  <2> HIDE DEF N
  <2>2. \A n \in 0 .. N : f[n] = IF n = 0 THEN {p} ELSE Up(f[n - 1])
    <3> HIDE DEF U, Up
    <3> TAKE n \in 0 .. N
    <3>1. CASE n # 0
      <4>1. n \in 1 .. N /\ n - 1 \in 0 .. N
        BY <1>1, <3>1
      <4> QED
        BY <2>1, <3>1, <4>1
    <3> QED
      BY <2>1, <3>1
  <2>3. f = [n \in 0 .. N |-> f[n]]
    BY <2>1
  <2> HIDE DEF F
  <2> QED
    BY <2>2, <2>3
<1>9. Eq(cur)
  <2> HIDE DEF Eq
  <2> QED
    BY <1>8, Zenon
<1> HIDE DEF cur, F, N
<1>10. cur[0] = {p} /\ \A n \in 1 .. N : cur[n] = Up(cur[n - 1])
  <2>1. \A n \in 0 .. N :
          cur[n] = IF n = 0 THEN {p} ELSE Up(cur[n - 1])
    BY <1>9, Zenon
  <2> HIDE DEF Up
  <2>2. \A n \in 1 .. N : n \in 0 .. N /\ n # 0
    BY <1>1
  <2> QED
    BY <1>1, <2>1, <2>2
<1> DEFINE Closed(X) == \A q \in X \cap D : t[q].ppid \in X
           P == {n \in 0 .. N : /\ cur[n] \in SUBSET U /\ p \in cur[n]
                                /\ Closed(cur[n]) \/ Cardinality(cur[n]) >= n + 1}
<1>11. 0 \in P
  <2>1. Cardinality({p}) = 1
    BY FS_Singleton
  <2>2. 0 \in 0 .. N
    BY <1>1
  <2> QED
    BY <1>6, <1>10, <2>1, <2>2
<1>12. ASSUME NEW n \in 1 .. N, n - 1 \in P PROVE n \in P
  <2> DEFINE X == cur[n - 1]  Y == cur[n]
  <2>1. X \in SUBSET U /\ p \in X /\ (Closed(X) \/ Cardinality(X) >= n - 1 + 1)
    BY <1>12
  <2>2. Y = Up(X) /\ n \in 0 .. N
    BY <1>1, <1>10
  <2> HIDE DEF X, Y
  <2>3. Y \in SUBSET U /\ p \in Y /\ X \subseteq Y
    BY <1>3, <2>1, <2>2
  <2>4. \A q \in X \cap D : t[q].ppid \in Y
    BY <2>2
  <2>5. CASE Closed(X)
    <3>1. \A q \in X \cap Pid : q \in D
      BY <1>1, <2>1
    <3>2. Y = X
      BY <2>2, <2>5, <3>1
    <3> QED
      BY <2>2, <2>3, <2>5, <3>2 DEF Y
  <2>6. CASE ~Closed(X)
    <3>1. PICK q \in X \cap D : t[q].ppid \notin X
      BY <2>6
    <3>2. X # Y
      BY <2>4, <3>1
    <3>3. /\ IsFiniteSet(Y) /\ Cardinality(Y) \in Nat /\ Cardinality(X) \in Nat
          /\ Cardinality(X) <= Cardinality(Y) /\ Cardinality(X) # Cardinality(Y)
      <4>1. IsFiniteSet(Y) /\ Cardinality(Y) \in Nat
        BY <1>4, <2>3, FS_Subset, FS_CardinalityType
      <4>2. IsFiniteSet(X) /\ Cardinality(X) \in Nat
        BY <1>4, <2>1, FS_Subset, FS_CardinalityType
      <4>3. Cardinality(X) <= Cardinality(Y) /\ (Cardinality(Y) = Cardinality(X) => Y = X)
        BY <2>3, <4>1, FS_Subset
      <4> QED
        BY <3>2, <4>1, <4>2, <4>3
    <3>4. Cardinality(Y) >= n + 1
      BY <1>1, <2>1, <2>6, <3>3
    <3> QED
      BY <2>2, <2>3, <3>4 DEF Y
  <2> QED
    BY <2>5, <2>6
<1>13. \A n \in 0 .. N : n \in P
  <2> HIDE DEF P
  <2> QED
    BY <1>1, <1>11, <1>12, EachTurn
<1>14. cur[N] \in SUBSET U /\ p \in cur[N] /\ (Closed(cur[N]) \/ Cardinality(cur[N]) >= N + 1)
  <2>1. N \in 0 .. N
    BY <1>1
  <2> QED
    BY <1>13, <2>1
<1>15. Closed(cur[N])
  <2>1. CASE Cardinality(cur[N]) >= N + 1
    <3>1. Cardinality(U) \in Nat /\ Cardinality(cur[N]) \in Nat /\ Cardinality(cur[N]) <= Cardinality(U)
          /\ (Cardinality(U) = Cardinality(cur[N]) => U = cur[N])
      <4> HIDE DEF U
      <4>1. IsFiniteSet(cur[N])
        BY <1>4, <1>14, FS_Subset
      <4> QED
        BY <1>4, <1>14, <4>1, FS_Subset, FS_CardinalityType
    <3>2. U = cur[N]
      BY <1>1, <1>4, <2>1, <3>1
    <3> QED
      BY <3>2
  <2> QED
    BY <1>14, <2>1
<1>16. ASSUME NEW S, p \in S, \A q \in S \cap D : t[q].ppid \in S PROVE cur[N] \subseteq S
  <2> DEFINE Q == {n \in 0 .. N : cur[n] \subseteq S}
  <2>1. 0 \in Q
    BY <1>1, <1>10, <1>16
  <2>2. ASSUME NEW n \in 1 .. N, n - 1 \in Q PROVE n \in Q
    <3>1. cur[n - 1] \subseteq S /\ n - 1 \in 0 .. N /\ n \in 0 .. N
      BY <1>1, <2>2
    <3>2. cur[n - 1] \in SUBSET U
      BY <1>13, <3>1
    <3>3. \A q \in cur[n - 1] \cap Pid : q \in S \cap D
      BY <1>1, <3>1, <3>2
    <3>4. cur[n] = Up(cur[n - 1])
      BY <1>10
    <3> QED
      BY <1>16, <3>1, <3>3, <3>4
  <2>3. \A n \in 0 .. N : n \in Q
    <3> HIDE DEF Q
    <3> QED
      BY <1>1, <2>1, <2>2, EachTurn
  <2>4. N \in 0 .. N
    BY <1>1
  <2> QED
    BY <2>3, <2>4
<1> QED
  BY <1>2, <1>14, <1>15, <1>16

-----------------------------------------------------------------------------
(* The building of the tree. *)

LEMMA ReverseFacts ==
  ASSUME NEW T, NEW s \in Seq(T)
  PROVE  /\ Reverse(s) \in Seq(T) /\ Len(Reverse(s)) = Len(s) /\ ToSet(Reverse(s)) = ToSet(s)
         /\ IsInjective(s) => IsInjective(Reverse(s))
<1> DEFINE n == Len(s)
           r == [i \in 1 .. n |-> s[(n - i) + 1]]
<1>1. n \in Nat /\ DOMAIN s = 1 .. n /\ \A i \in 1 .. n : s[i] \in T
  OBVIOUS
<1>2. Reverse(s) = r
  BY DEF Reverse
<1> HIDE DEF n
<1>3. \A i \in 1 .. n : (n - i) + 1 \in 1 .. n
  BY <1>1
<1>4. r \in Seq(T) /\ Len(r) = n /\ DOMAIN r = 1 .. n
  BY <1>1, <1>3
<1>5. ToSet(r) = ToSet(s)
  <2>1. \A i \in 1 .. n : r[i] = s[(n - i) + 1] /\ r[(n - i) + 1] = s[i]
    BY <1>1, <1>3
  <2> HIDE DEF r
  <2> QED
    BY <1>1, <1>3, <1>4, <2>1 DEF ToSet
<1>6. ASSUME IsInjective(s) PROVE IsInjective(r)
  <2> SUFFICES ASSUME NEW i \in 1 .. n, NEW j \in 1 .. n, r[i] = r[j] PROVE i = j
    BY <1>4 DEF IsInjective
  <2>1. (n - i) + 1 = (n - j) + 1
    BY <1>1, <1>3, <1>6 DEF IsInjective
  <2> QED
    BY <1>1, <2>1
<1> HIDE DEF r
<1> QED
  BY <1>2, <1>4, <1>5, <1>6 DEF n

LEMMA AddRowTyped ==
  ASSUME NEW to \in Seq(Pid), NEW q \in Pid
  PROVE  AddRow(to, q) \in Seq(Pid)
BY DEF AddRow

\* A child as it is put into the tree, and the call for its own children.
RowOf(c, b, q) ==
  [ps |-> [b.ps EXCEPT ![q].show = c.show], from |-> b.from, to |-> AddRow(b.to, q)]
CallOf(c, b, q, last) ==
  [b |-> RowOf(c, b, q), pid |-> q, level |-> c.level + 1,
   indent |-> IndentBelow(c.indent, c.level, last), show |-> ShowBelow(c.show, q)]

LEMMA CallTyped ==
  ASSUME ps \in [Pid -> Process],
         NEW c \in Call, NEW b \in Building, NEW q \in Pid, NEW last \in BOOLEAN
  PROVE  RowOf(c, b, q) \in Building /\ CallOf(c, b, q, last) \in Call
<1>1. /\ c.level \in Nat /\ c.indent \in SUBSET Nat /\ c.show \in BOOLEAN
      /\ b.ps \in [Pid -> Process] /\ b.from \in Seq(Pid) /\ b.to \in Seq(Pid)
  BY DEF Call, Building
<1>2. AddRow(b.to, q) \in Seq(Pid)
  BY <1>1, AddRowTyped
<1> DEFINE table == [b.ps EXCEPT ![q].show = c.show]
<1>3. table \in [Pid -> Process]
  BY <1>1 DEF Process
<1>4. RowOf(c, b, q) = [ps |-> table, from |-> b.from, to |-> AddRow(b.to, q)]
  BY <1>1 DEF RowOf
<1> HIDE DEF table
<1>5. RowOf(c, b, q) \in Building
  BY <1>1, <1>2, <1>3, <1>4 DEF Building
<1>6. IndentBelow(c.indent, c.level, last) \in SUBSET Nat /\ c.level + 1 \in Nat
  BY <1>1 DEF IndentBelow
<1>7. ShowBelow(c.show, q) \in BOOLEAN
  BY <1>1 DEF ShowBelow, Process
<1> QED
  BY <1>5, <1>6, <1>7 DEF CallOf, Call

LEMMA PlaceChildTyped ==
  ASSUME ps \in [Pid -> Process], NEW below \in [Call -> Building],
         NEW c \in Call, NEW b \in Building, NEW q \in Pid, NEW last \in BOOLEAN
  PROVE  LET done == below[CallOf(c, b, q, last)]
         IN  /\ done \in Building /\ PlaceChild(below, c, b, q, last) \in Building
             /\ PlaceChild(below, c, b, q, last).from = done.from
             /\ PlaceChild(below, c, b, q, last).to = done.to
             /\ \A r \in Pid \ {q} : PlaceChild(below, c, b, q, last).ps[r] = done.ps[r]
             /\ PlaceChild(below, c, b, q, last).ps[q].indent = c.indent \cup {c.level}
             /\ PlaceChild(below, c, b, q, last).ps[q].last = last
             /\ PlaceChild(below, c, b, q, last).ps[q].show = done.ps[q].show
             /\ PlaceChild(below, c, b, q, last).ps[q].ppid = done.ps[q].ppid
             /\ PlaceChild(below, c, b, q, last).ps[q].tgid = done.ps[q].tgid
             /\ PlaceChild(below, c, b, q, last).ps[q].showChildren = done.ps[q].showChildren
<1> DEFINE done == below[CallOf(c, b, q, last)]
           row == [done.ps[q] EXCEPT !.indent = c.indent \cup {c.level}, !.last = last]
           table == [done.ps EXCEPT ![q] = row]
<1>1. done \in Building
  BY CallTyped
<1>2. /\ c.level \in Nat /\ c.indent \in SUBSET Nat
      /\ done.ps \in [Pid -> Process] /\ done.from \in Seq(Pid) /\ done.to \in Seq(Pid)
  BY <1>1 DEF Call, Building
<1>3. PlaceChild(below, c, b, q, last) = [ps |-> table, from |-> done.from, to |-> done.to]
  BY Zenon DEF PlaceChild, CallOf, RowOf
<1> HIDE DEF done
<1>4. /\ row \in Process /\ row.indent = c.indent \cup {c.level} /\ row.last = last
      /\ row.show = done.ps[q].show /\ row.ppid = done.ps[q].ppid /\ row.tgid = done.ps[q].tgid
      /\ row.showChildren = done.ps[q].showChildren
  <2>1. done.ps[q] \in Process
    BY <1>2
  <2>2. c.indent \cup {c.level} \in SUBSET Nat
    BY <1>2
  <2> QED
    BY <2>1, <2>2 DEF Process
<1> HIDE DEF row
<1>5. table \in [Pid -> Process] /\ table[q] = row /\ \A r \in Pid \ {q} : table[r] = done.ps[r]
  BY <1>2, <1>4
<1>6. PlaceChild(below, c, b, q, last) \in Building
  BY <1>2, <1>3, <1>5 DEF Building
<1> HIDE DEF table
<1>7. PlaceChild(below, c, b, q, last).ps = table
  BY <1>3
<1> QED
  BY <1>1, <1>3, <1>4, <1>5, <1>6, <1>7 DEF done

\* The loop over the children of a call, one value for each turn.
Start(c) == [ps |-> c.b.ps, from |-> Kept(c.b.from, Pid \ IsChildHere(c.b, c.pid)), to |-> c.b.to]
Placing(placed, below, c, children) ==
  /\ children = Children(c.b, c.pid) /\ children \in Seq(Pid)
  /\ placed \in [0 .. Len(children) -> Building] /\ placed[0] = Start(c)
  /\ \A i \in 1 .. Len(children) :
        placed[i] = PlaceChild(below, c, placed[i - 1], children[i], i = Len(children))

LEMMA PlacedRuns ==
  ASSUME ps \in [Pid -> Process], NEW below \in [Call -> Building], NEW c \in Call
  PROVE  \E placed, children :
           Placing(placed, below, c, children) /\ PlaceChildren(below, c) = placed[Len(children)]
<1> DEFINE kids == Children(c.b, c.pid)
           n == Len(kids)
           e == Start(c)
           Eq(g) == g = [i \in 0 .. n |->
                           IF i = 0 THEN [ps |-> c.b.ps, from |-> Kept(c.b.from, Pid \ IsChildHere(c.b, c.pid)), to |-> c.b.to]
                           ELSE PlaceChild(below, c, g[i - 1], kids[i], i = n)]
           cur == CHOOSE g : Eq(g)
           F == [i \in 1 .. n |-> [x \in Building |-> PlaceChild(below, c, x, kids[i], i = n)]]
<1>1. /\ c.b \in Building /\ c.b.ps \in [Pid -> Process] /\ c.b.from \in Seq(Pid)
      /\ c.b.to \in Seq(Pid)
  BY DEF Call, Building
<1>2. kids \in Seq(Pid)
  BY <1>1, KeptFacts, ReverseFacts DEF Children
<1>3. e \in Building
  <2>1. Kept(c.b.from, Pid \ IsChildHere(c.b, c.pid)) \in Seq(Pid)
    BY <1>1, KeptFacts
  <2> QED
    BY <1>1, <2>1 DEF Building, Start
<1>4. PlaceChildren(below, c) = cur[n]
  BY Zenon DEF PlaceChildren
<1> HIDE DEF kids
<1>5. n \in Nat /\ \A i \in 1 .. n : kids[i] \in Pid
  BY <1>2
<1>6. F \in [1 .. n -> [Building -> Building]]
  <2>1. ASSUME NEW i \in 1 .. n, NEW x \in Building
        PROVE  PlaceChild(below, c, x, kids[i], i = n) \in Building
    <3> DEFINE last == i = n  q == kids[i]
    <3>1. last \in BOOLEAN /\ q \in Pid
      BY <1>5
    <3> HIDE DEF last, q
    <3>2. PlaceChild(below, c, x, q, last) \in Building
      BY <3>1, PlaceChildTyped
    <3> QED
      BY <3>2 DEF last, q
  <2> QED
    BY <2>1
<1>7. PICK f : IsLoop(f, e, F, Building, n)
  <2> HIDE DEF F, e, n
  <2> QED
    BY <1>3, <1>5, <1>6, LoopRuns
<1>8. f \in [0 .. n -> Building] /\ f[0] = e
      /\ \A i \in 1 .. n : f[i] = PlaceChild(below, c, f[i - 1], kids[i], i = n)
  <2> HIDE DEF e
  <2>1. f \in [0 .. n -> Building] /\ f[0] = e /\ \A i \in 1 .. n : f[i] = F[i][f[i - 1]]
    BY <1>7 DEF IsLoop
  <2>2. ASSUME NEW i \in 1 .. n PROVE f[i] = PlaceChild(below, c, f[i - 1], kids[i], i = n)
    <3>1. i - 1 \in 0 .. n
      BY <1>5
    <3>2. f[i - 1] \in Building
      BY <2>1, <3>1
    <3> QED
      BY <2>1, <3>2
  <2> QED
    BY <2>1, <2>2
<1>9. Eq(f)
  <2>1. \A i \in 0 .. n : f[i] = IF i = 0 THEN Start(c) ELSE PlaceChild(below, c, f[i - 1], kids[i], i = n)
    <3> TAKE i \in 0 .. n
    <3>1. i # 0 => i \in 1 .. n
      BY <1>5
    <3> QED
      BY <1>8, <3>1
  <2>2. f = [i \in 0 .. n |-> f[i]]
    BY <1>8
  <2> HIDE DEF n, F
  <2> QED
    BY <2>1, <2>2, Zenon DEF Start
<1>10. Eq(cur)
  <2> HIDE DEF Eq
  <2> QED
    BY <1>9, Zenon
<1>11. cur = f
  <2> HIDE DEF cur
  <2>1. \A i \in 0 .. n : cur[i] = IF i = 0 THEN e ELSE PlaceChild(below, c, cur[i - 1], kids[i], i = n)
    BY <1>10, Zenon DEF Start
  <2> DEFINE P == {i \in 0 .. n : cur[i] = f[i]}
  <2>2. 0 \in P
    BY <1>5, <1>8, <2>1
  <2>3. ASSUME NEW i \in 1 .. n, i - 1 \in P PROVE i \in P
    <3>1. i \in 0 .. n /\ i # 0
      BY <1>5
    <3> QED
      BY <1>8, <2>1, <2>3, <3>1
  <2>4. \A i \in 0 .. n : i \in P
    <3> HIDE DEF P
    <3> QED
      BY <1>5, <2>2, <2>3, EachTurn
  <2>5. cur = [i \in 0 .. n |-> cur[i]] /\ f = [i \in 0 .. n |-> f[i]]
    BY <1>8, <1>10
  <2>6. \A i \in 0 .. n : cur[i] = f[i]
    BY <2>4
  <2> QED
    BY <2>5, <2>6, Zenon
<1> HIDE DEF cur, F
<1>12. Placing(f, below, c, kids)
  BY <1>2, <1>8 DEF Placing, kids
<1> QED
  BY <1>4, <1>11, <1>12, Zenon

\* The calls in each other: what each of a set of calls and results has, if a call has
\* it as soon as those with a shorter list have.
LEMMA BuildRule ==
  ASSUME ps \in [Pid -> Process], NEW R,
         \A below \in [Call -> Building] : \A c \in Call :
            (\A d \in Call : Len(d.b.from) < Len(c.b.from) => <<d, below[d]>> \in R)
               => <<c, PlaceChildren(below, c)>> \in R
  PROVE  \A c \in Call : BuildTree(c) \in Building /\ <<c, BuildTree(c)>> \in R
<1> SUFFICES ASSUME NEW c \in Call PROVE BuildTree(c) \in Building /\ <<c, BuildTree(c)>> \in R
  OBVIOUS
<1> DEFINE n == Len(c.b.from)
           Below == [Call -> Building]
           e == [d \in Call |-> d.b]
           Up(x) == [d \in Call |-> PlaceChildren(x, d)]
           F == [k \in 1 .. n |-> [x \in Below |-> Up(x)]]
           Eq(g) == g = [k \in 0 .. n |-> [d \in Call |-> IF k = 0 THEN d.b ELSE PlaceChildren(g[k - 1], d)]]
           cur == CHOOSE g : Eq(g)
<1>1. \A d \in Call : d.b \in Building /\ d.b.from \in Seq(Pid) /\ Len(d.b.from) \in Nat
  BY DEF Call, Building
<1>2. n \in Nat /\ e \in Below
  BY <1>1
<1>3. BuildTree(c) = cur[n][c]
  BY Zenon DEF BuildTree
<1>4. \A x \in Below : Up(x) \in Below
  <2>1. ASSUME NEW x \in Below, NEW d \in Call PROVE PlaceChildren(x, d) \in Building
    <3>1. PICK placed, children : Placing(placed, x, d, children)
                                  /\ PlaceChildren(x, d) = placed[Len(children)]
      BY PlacedRuns
    <3>2. Len(children) \in 0 .. Len(children)
      BY <3>1 DEF Placing
    <3> QED
      BY <3>1, <3>2 DEF Placing
  <2> QED
    BY <2>1
<1>5. F \in [1 .. n -> [Below -> Below]]
  <2> HIDE DEF Up, Below
  <2> QED
    BY <1>4
<1>6. PICK f : IsLoop(f, e, F, Below, n)
  <2> HIDE DEF F, e, n, Below
  <2> QED
    BY <1>2, <1>5, LoopRuns
<1> HIDE DEF Below, n
<1>7. f \in [0 .. n -> Below] /\ f[0] = e /\ \A k \in 1 .. n : f[k] = Up(f[k - 1])
  <2> HIDE DEF e, Up
  <2>1. f \in [0 .. n -> Below] /\ f[0] = e /\ \A k \in 1 .. n : f[k] = F[k][f[k - 1]]
    BY <1>6 DEF IsLoop
  <2>2. \A k \in 1 .. n : k - 1 \in 0 .. n
    BY <1>2
  <2> QED
    BY <2>1, <2>2
<1>8. Eq(f)
  <2>1. \A k \in 0 .. n : f[k] = [d \in Call |-> IF k = 0 THEN d.b ELSE PlaceChildren(f[k - 1], d)]
    <3> TAKE k \in 0 .. n
    <3>1. CASE k = 0
      BY <1>7, <3>1
    <3>2. CASE k # 0
      <4>1. k \in 1 .. n
        BY <1>2, <3>2
      <4>2. f[k] = [d \in Call |-> PlaceChildren(f[k - 1], d)]
        BY <1>7, <4>1
      <4> QED
        BY <3>2, <4>2
    <3> QED
      BY <3>1, <3>2
  <2>2. f = [k \in 0 .. n |-> f[k]]
    BY <1>7
  <2> HIDE DEF F, e
  <2> QED
    BY <2>1, <2>2, Zenon
<1>9. Eq(cur)
  <2> HIDE DEF Eq
  <2> QED
    BY <1>8, Zenon
<1> HIDE DEF cur
<1>10. ASSUME NEW k \in 0 .. n
       PROVE  cur[k] = IF k = 0 THEN e ELSE Up(cur[k - 1])
  <2>1. cur[k] = [d \in Call |-> IF k = 0 THEN d.b ELSE PlaceChildren(cur[k - 1], d)]
    BY <1>9, Zenon
  <2> QED
    BY <2>1
<1> HIDE DEF e
<1> DEFINE P == {k \in 0 .. n : /\ cur[k] \in Below
                                /\ \A d \in Call : Len(d.b.from) <= k => <<d, cur[k][d]>> \in R}
<1>11. 0 \in P
  <2>1. 0 \in 0 .. n /\ cur[0] = e
    <3> HIDE DEF Up
    <3>1. 0 \in 0 .. n
      BY <1>2
    <3> QED
      BY <1>10, <3>1
  <2>2. ASSUME NEW d \in Call, Len(d.b.from) <= 0 PROVE <<d, d.b>> \in R
    <3>1. d.b \in Building /\ Len(d.b.from) = 0 /\ d.b.from \in Seq(Pid)
      BY <1>1, <2>2
    <3>2. \A x \in Call : ~(Len(x.b.from) < Len(d.b.from))
      BY <1>1, <3>1
    <3>3. <<d, PlaceChildren(e, d)>> \in R
      BY <1>2, <3>2 DEF Below
    <3>4. PICK placed, children : Placing(placed, e, d, children)
                                  /\ PlaceChildren(e, d) = placed[Len(children)]
      BY <1>2, PlacedRuns DEF Below
    <3>5. \A S : Kept(d.b.from, S) = << >>
      <4> TAKE S
      <4>1. PICK at : Kept(d.b.from, S) \in Seq(Pid)
                      /\ PickedTo(at, d.b.from, S, Kept(d.b.from, S), Len(d.b.from))
        BY <3>1, KeptFacts
      <4>2. Len(Kept(d.b.from, S)) = 0
        <5>1. at \in [1 .. Len(Kept(d.b.from, S)) -> 1 .. 0]
          BY <3>1, <4>1 DEF PickedTo
        <5>2. Len(Kept(d.b.from, S)) \in Nat
          BY <4>1
        <5>3. ~(1 \in 1 .. Len(Kept(d.b.from, S)))
          BY <5>1
        <5> QED
          BY <5>2, <5>3
      <4> QED
        BY <4>1, <4>2
    <3>6. Children(d.b, d.pid) = << >>
      <4>1. Kept(d.b.from, IsChildHere(d.b, d.pid)) = << >> /\ << >> \in Seq(Pid) /\ Len(<< >>) = 0
        BY <3>5
      <4>2. Reverse(<< >>) \in Seq(Pid) /\ Len(Reverse(<< >>)) = 0
        BY <4>1, ReverseFacts
      <4> QED
        BY <4>1, <4>2 DEF Children
    <3>7. placed[Len(children)] = Start(d)
      BY <3>4, <3>6 DEF Placing
    <3>8. d.b = [ps |-> d.b.ps, from |-> d.b.from, to |-> d.b.to]
      BY <3>1 DEF Building
    <3>9. d.b.from = << >>
      BY <3>1
    <3> QED
      BY <3>3, <3>4, <3>5, <3>7, <3>8, <3>9 DEF Start
  <2>3. \A d \in Call : e[d] = d.b
    BY DEF e
  <2> QED
    BY <1>2, <2>1, <2>2, <2>3
<1>12. ASSUME NEW k \in 1 .. n, k - 1 \in P PROVE k \in P
  <2>1. k \in 0 .. n /\ k # 0 /\ k \in Nat /\ k - 1 \in 0 .. n /\ cur[k] = Up(cur[k - 1])
    BY <1>2, <1>10
  <2> DEFINE x == cur[k - 1]
  <2>2. x \in Below /\ \A d \in Call : Len(d.b.from) <= k - 1 => <<d, x[d]>> \in R
    BY <1>12
  <2> HIDE DEF x
  <2>3. ASSUME NEW d \in Call, Len(d.b.from) <= k PROVE <<d, PlaceChildren(x, d)>> \in R
    <3>1. \A y \in Call : Len(y.b.from) < Len(d.b.from) => Len(y.b.from) <= k - 1
      <4> TAKE y \in Call
      <4>1. Len(y.b.from) \in Nat /\ Len(d.b.from) \in Nat
        BY <1>1
      <4> QED
        BY <2>1, <2>3, <4>1
    <3> QED
      BY <2>2, <3>1 DEF Below
  <2>4. cur[k] \in Below /\ \A d \in Call : cur[k][d] = PlaceChildren(x, d)
    BY <1>4, <2>1, <2>2 DEF x
  <2> QED
    BY <2>1, <2>3, <2>4
<1>13. n \in P
  <2> HIDE DEF P
  <2>1. n \in 0 .. n
    BY <1>2
  <2> QED
    BY <1>2, <1>11, <1>12, <2>1, EachTurn
<1>14. n <= n
  BY <1>2
<1> QED
  BY <1>3, <1>13, <1>14 DEF n, Below

LEMMA AddRowFacts ==
  ASSUME NEW to \in Seq(Pid), NEW q \in Pid, q \notin ToSet(to), IsInjective(to)
  PROVE  ToSet(AddRow(to, q)) = ToSet(to) \cup {q} /\ IsInjective(AddRow(to, q))
<1> DEFINE n == Len(to)
<1>1. n \in Nat /\ DOMAIN to = 1 .. n /\ ToSet(to) = {to[i] : i \in 1 .. n}
  BY DEF ToSet
<1>2. \A i, j \in 1 .. n : to[i] = to[j] => i = j
  BY <1>1 DEF IsInjective
<1>3. \A i \in 1 .. n : to[i] # q
  BY <1>1
<1>4. CASE direction = 1
  <2> DEFINE r == Append(to, q)
  <2>1. AddRow(to, q) = r
    BY <1>4 DEF AddRow
  <2>2. /\ DOMAIN r = 1 .. n + 1 /\ r[n + 1] = q /\ \A i \in 1 .. n : r[i] = to[i]
        /\ ToSet(r) = {r[i] : i \in 1 .. n + 1}
    BY DEF ToSet
  <2> HIDE DEF n, r
  <2>3. \A i \in 1 .. n + 1 : i = n + 1 \/ i \in 1 .. n
    BY <1>1
  <2>4. \A i \in 1 .. n : i \in 1 .. n + 1 /\ i # n + 1
    BY <1>1
  <2>5. ToSet(r) = ToSet(to) \cup {q}
    <3>1. n + 1 \in 1 .. n + 1
      BY <1>1
    <3> QED
      BY <1>1, <2>2, <2>3, <2>4, <3>1
  <2>6. IsInjective(r)
    BY <1>2, <1>3, <2>2, <2>3, <2>4 DEF IsInjective
  <2> QED
    BY <2>1, <2>5, <2>6
<1>5. CASE direction # 1
  <2> DEFINE r == <<q>> \o to
  <2>1. AddRow(to, q) = r
    BY <1>5 DEF AddRow
  <2>2. /\ DOMAIN r = 1 .. n + 1 /\ r[1] = q /\ \A i \in 2 .. n + 1 : r[i] = to[i - 1]
        /\ ToSet(r) = {r[i] : i \in 1 .. n + 1}
    <3>1. Len(<<q>>) = 1 /\ <<q>>[1] = q /\ <<q>> \in Seq(Pid)
      OBVIOUS
    <3>2. \A i \in 1 .. n + 1 : r[i] = IF i <= 1 THEN <<q>>[i] ELSE to[i - 1]
      BY <3>1
    <3>3. DOMAIN r = 1 .. n + 1
      BY <3>1, <1>1
    <3> HIDE DEF r, n
    <3>4. 1 \in 1 .. n + 1 /\ \A i \in 2 .. n + 1 : i \in 1 .. n + 1 /\ ~(i <= 1)
      BY <1>1
    <3> QED
      BY <3>1, <3>2, <3>3, <3>4 DEF ToSet
  <2> HIDE DEF n, r
  <2>3. \A i \in 1 .. n + 1 : i = 1 \/ (i \in 2 .. n + 1 /\ i - 1 \in 1 .. n)
    BY <1>1
  <2>4. \A i \in 1 .. n : i + 1 \in 2 .. n + 1 /\ i + 1 \in 1 .. n + 1 /\ (i + 1) - 1 = i
    BY <1>1
  <2>5. ToSet(r) = ToSet(to) \cup {q}
    <3>1. 1 \in 1 .. n + 1
      BY <1>1
    <3>2. \A i \in 1 .. n : r[i + 1] = to[i]
      BY <2>2, <2>4
    <3> QED
      BY <1>1, <2>2, <2>3, <2>4, <3>1, <3>2
  <2>6. IsInjective(r)
    <3> SUFFICES ASSUME NEW i \in 1 .. n + 1, NEW j \in 1 .. n + 1, r[i] = r[j] PROVE i = j
      BY <2>2 DEF IsInjective
    <3>1. CASE i = 1 \/ j = 1
      BY <1>3, <2>2, <2>3, <3>1
    <3>2. CASE i # 1 /\ j # 1
      <4>1. i - 1 = j - 1
        BY <1>2, <2>2, <2>3, <3>2
      <4> QED
        BY <1>1, <4>1
    <3> QED
      BY <3>1, <3>2
  <2> QED
    BY <2>1, <2>5, <2>6
<1> QED
  BY <1>4, <1>5

\* What a call does to the list and the tree: what is taken off the one is in the other.
SameData(t, u) ==
  \A q \in Pid : t[q].ppid = u[q].ppid /\ t[q].tgid = u[q].tgid /\ t[q].showChildren = u[q].showChildren
Sound(b) == IsInjective(b.from) /\ IsInjective(b.to) /\ ToSet(b.from) \cap ToSet(b.to) = {}
Took(b, r) == ToSet(r.to) \ ToSet(b.to)
Moved(b, r) ==
  /\ Sound(r)
  /\ ToSet(r.from) \cup ToSet(r.to) = ToSet(b.from) \cup ToSet(b.to)
  /\ ToSet(b.to) \subseteq ToSet(r.to)
  /\ Increasing(b.from) => Increasing(r.from)
  /\ SameData(r.ps, b.ps)
  /\ \A q \in Pid \ Took(b, r) : r.ps[q] = b.ps[q]

ColumnsFit(r, Q) == \A q \in Q : r.ps[q].indent \subseteq 0 .. Cardinality(Pid)
LevelsFit(c) ==
  c.level + Len(c.b.from) < Cardinality(Pid) /\ c.indent \subseteq 0 .. Cardinality(Pid)
Keeps(c, r) == Sound(c.b) => Moved(c.b, r) /\ (LevelsFit(c) => ColumnsFit(r, Took(c.b, r)))

\* Between two turns of the loop over the children of a call, of which W are to come.
Midway(c, b, W) ==
  /\ Sound(b) /\ W \cap (ToSet(b.from) \cup ToSet(b.to)) = {}
  /\ ToSet(b.from) \cup ToSet(b.to) \cup W = ToSet(c.b.from) \cup ToSet(c.b.to)
  /\ ToSet(c.b.to) \subseteq ToSet(b.to)
  /\ ToSet(b.from) \subseteq ToSet(c.b.from) \ IsChildHere(c.b, c.pid)
  /\ Increasing(c.b.from) => Increasing(b.from)
  /\ SameData(b.ps, c.b.ps)
  /\ \A q \in Pid \ Took(c.b, b) : b.ps[q] = c.b.ps[q]
  /\ LevelsFit(c) => ColumnsFit(b, Took(c.b, b))

LEMMA StartIsMidway ==
  ASSUME NEW c \in Call, Sound(c.b)
  PROVE  /\ Start(c) \in Building /\ Midway(c, Start(c), ToSet(Children(c.b, c.pid)))
         /\ ToSet(Children(c.b, c.pid)) = ToSet(c.b.from) \cap IsChildHere(c.b, c.pid)
         /\ Children(c.b, c.pid) \in Seq(Pid) /\ IsInjective(Children(c.b, c.pid))
<1> DEFINE C == IsChildHere(c.b, c.pid)
           s == c.b.from
           k == Kept(s, Pid \ C)
           h == Kept(s, C)
<1>1. c.b.ps \in [Pid -> Process] /\ s \in Seq(Pid) /\ c.b.to \in Seq(Pid)
  BY DEF Call, Building
<1>2. k \in Seq(Pid) /\ ToSet(k) = ToSet(s) \cap (Pid \ C) /\ IsInjective(k)
      /\ (Increasing(s) => Increasing(k))
  BY <1>1, KeptFacts, KeptSet DEF Sound
<1>3. h \in Seq(Pid) /\ ToSet(h) = ToSet(s) \cap C /\ IsInjective(h)
  BY <1>1, KeptFacts, KeptSet DEF Sound
<1>4. /\ Children(c.b, c.pid) \in Seq(Pid) /\ ToSet(Children(c.b, c.pid)) = ToSet(s) \cap C
      /\ IsInjective(Children(c.b, c.pid))
  BY <1>3, ReverseFacts DEF Children
<1>5. ToSet(s) \subseteq Pid
  BY <1>1 DEF ToSet
<1>6. Start(c) = [ps |-> c.b.ps, from |-> k, to |-> c.b.to]
  BY DEF Start
<1> HIDE DEF k, h, s, C
<1>7. Start(c) \in Building
  BY <1>1, <1>2, <1>6 DEF Building
<1>8. Start(c).ps = c.b.ps /\ Start(c).from = k /\ Start(c).to = c.b.to
  BY <1>6
<1>9. Took(c.b, Start(c)) = {}
  BY <1>8 DEF Took
<1>10. Midway(c, Start(c), ToSet(s) \cap C)
  BY <1>2, <1>5, <1>8, <1>9 DEF Midway, Sound, SameData, ColumnsFit, C, s
<1> QED
  BY <1>4, <1>7, <1>10 DEF C, s

\* What the call d for the child q is called with.
IsTurn(d, c, b, q, last) ==
  /\ q \in Pid /\ d \in Call /\ Len(d.b.from) < Len(c.b.from) /\ Sound(d.b)
  /\ d.b.from = b.from /\ ToSet(d.b.to) = ToSet(b.to) \cup {q}
  /\ d.b.to = AddRow(b.to, q)
  /\ d.b.ps[q].show = c.show /\ d.b.ps[q].ppid = c.b.ps[q].ppid
  /\ d.b.ps[q].tgid = c.b.ps[q].tgid /\ d.b.ps[q].showChildren = c.b.ps[q].showChildren
  /\ \A x \in Pid \ {q} : d.b.ps[x] = b.ps[x]
  /\ d.pid = q /\ d.level = c.level + 1 /\ d.show = ShowBelow(c.show, q)
  /\ d.indent = IndentBelow(c.indent, c.level, last)
  /\ LevelsFit(c) => LevelsFit(d)

LEMMA TurnFacts ==
  ASSUME ps \in [Pid -> Process], NEW c \in Call, Sound(c.b), NEW b \in Building, NEW W, NEW q \in W,
         Midway(c, b, W), W \subseteq ToSet(c.b.from) \cap IsChildHere(c.b, c.pid), NEW last \in BOOLEAN
  PROVE  IsTurn(CallOf(c, b, q, last), c, b, q, last)
<1> DEFINE d == CallOf(c, b, q, last)
<1>1. /\ c.b.from \in Seq(Pid) /\ c.b.to \in Seq(Pid) /\ c.b.ps \in [Pid -> Process]
      /\ b.ps \in [Pid -> Process] /\ b.from \in Seq(Pid) /\ b.to \in Seq(Pid)
      /\ c.level \in Nat /\ c.show \in BOOLEAN
  BY DEF Call, Building
<1>2. q \in Pid
  BY <1>1 DEF ToSet
<1>3. d \in Call
  BY <1>2, CallTyped
<1>4. d.b = RowOf(c, b, q) /\ d.pid = q /\ d.level = c.level + 1 /\ d.show = ShowBelow(c.show, q)
      /\ d.indent = IndentBelow(c.indent, c.level, last)
  BY DEF CallOf
<1>5. /\ d.b.from = b.from /\ d.b.to = AddRow(b.to, q)
      /\ d.b.ps = [b.ps EXCEPT ![q].show = c.show]
  BY <1>4 DEF RowOf
<1>6. q \notin ToSet(b.to) /\ q \notin ToSet(b.from) /\ IsInjective(b.to)
  BY DEF Midway, Sound
<1>7. ToSet(d.b.to) = ToSet(b.to) \cup {q} /\ IsInjective(d.b.to)
  BY <1>1, <1>2, <1>5, <1>6, AddRowFacts
<1>8. Sound(d.b)
  BY <1>5, <1>6, <1>7 DEF Midway, Sound
<1>9. b.ps[q] = c.b.ps[q]
  BY <1>2, <1>6 DEF Midway, Took
<1>10. /\ d.b.ps[q].show = c.show /\ d.b.ps[q].ppid = c.b.ps[q].ppid
       /\ d.b.ps[q].tgid = c.b.ps[q].tgid /\ d.b.ps[q].showChildren = c.b.ps[q].showChildren
       /\ \A x \in Pid \ {q} : d.b.ps[x] = b.ps[x]
  <2>1. d.b.ps[q] = [c.b.ps[q] EXCEPT !.show = c.show] /\ \A x \in Pid \ {q} : d.b.ps[x] = b.ps[x]
    BY <1>1, <1>2, <1>5, <1>9
  <2> QED
    BY <1>1, <1>2, <2>1 DEF Process
<1>11. Len(b.from) < Len(c.b.from) /\ Len(b.from) \in Nat /\ Len(c.b.from) \in Nat
  <2>1. IsFiniteSet(ToSet(c.b.from)) /\ Cardinality(ToSet(c.b.from)) = Len(c.b.from)
    BY <1>1, LenIsCard DEF Sound
  <2>2. IsFiniteSet(ToSet(b.from)) /\ Cardinality(ToSet(b.from)) = Len(b.from)
    BY <1>1, LenIsCard DEF Midway, Sound
  <2>3. ToSet(b.from) \subseteq ToSet(c.b.from) /\ ToSet(b.from) # ToSet(c.b.from)
    BY <1>6 DEF Midway
  <2>4. Cardinality(ToSet(b.from)) <= Cardinality(ToSet(c.b.from))
        /\ Cardinality(ToSet(b.from)) # Cardinality(ToSet(c.b.from))
    BY <2>1, <2>3, FS_Subset
  <2>5. Len(b.from) \in Nat /\ Len(c.b.from) \in Nat
    BY <1>1
  <2> QED
    BY <2>1, <2>2, <2>4, <2>5
<1>12. ASSUME LevelsFit(c) PROVE LevelsFit(d)
  <2> DEFINE N == Cardinality(Pid)
  <2>1. N \in Nat
    BY TreeAssumption, FS_CardinalityType
  <2>2. c.level + Len(c.b.from) < N /\ c.indent \subseteq 0 .. N
    BY <1>12 DEF LevelsFit
  <2> HIDE DEF N
  <2>3. d.level + Len(d.b.from) < N /\ c.level \in 0 .. N
    BY <1>1, <1>4, <1>5, <1>11, <2>1, <2>2
  <2>4. d.indent \subseteq 0 .. N
    BY <1>4, <2>2, <2>3 DEF IndentBelow
  <2> QED
    BY <2>3, <2>4 DEF LevelsFit, N
<1> HIDE DEF d
<1> QED
  BY <1>2, <1>3, <1>4, <1>5, <1>7, <1>8, <1>10, <1>11, <1>12 DEF d, IsTurn

\* With a child, what the call for it takes is taken off the list of a.
TookMore(a, b, q, e, r, x) == Took(a, x) = Took(a, b) \cup {q} \cup Took(e, r)

LEMMA TurnKeeps ==
  ASSUME ps \in [Pid -> Process], NEW below \in [Call -> Building], NEW c \in Call, Sound(c.b),
         NEW b \in Building, NEW W, NEW q \in W,
         Midway(c, b, W), W \subseteq ToSet(c.b.from) \cap IsChildHere(c.b, c.pid), NEW last \in BOOLEAN,
         Keeps(CallOf(c, b, q, last), below[CallOf(c, b, q, last)])
  PROVE  /\ Midway(c, PlaceChild(below, c, b, q, last), W \ {q})
         /\ TookMore(c.b, b, q, CallOf(c, b, q, last).b, below[CallOf(c, b, q, last)],
                     PlaceChild(below, c, b, q, last))
<1> DEFINE d == CallOf(c, b, q, last)
           e == d.b
           r == below[d]
           x == PlaceChild(below, c, b, q, last)
           F == ToSet(c.b.from)  T == ToSet(c.b.to)
           N == Cardinality(Pid)
<1>1. /\ q \in Pid /\ d \in Call /\ Sound(e) /\ e.from = b.from /\ ToSet(e.to) = ToSet(b.to) \cup {q}
      /\ e.ps[q].ppid = c.b.ps[q].ppid /\ e.ps[q].tgid = c.b.ps[q].tgid
      /\ e.ps[q].showChildren = c.b.ps[q].showChildren
      /\ \A y \in Pid \ {q} : e.ps[y] = b.ps[y]
      /\ LevelsFit(c) => LevelsFit(d)
  <2>1. IsTurn(d, c, b, q, last)
    BY TurnFacts
  <2> HIDE DEF d
  <2> QED
    BY <2>1 DEF IsTurn
<1>2. /\ r \in Building /\ x \in Building /\ x.from = r.from /\ x.to = r.to
      /\ \A y \in Pid \ {q} : x.ps[y] = r.ps[y]
      /\ x.ps[q].indent = c.indent \cup {c.level} /\ x.ps[q].ppid = r.ps[q].ppid
      /\ x.ps[q].tgid = r.ps[q].tgid /\ x.ps[q].showChildren = r.ps[q].showChildren
  BY <1>1, PlaceChildTyped
<1>3. Moved(e, r) /\ (LevelsFit(d) => ColumnsFit(r, Took(e, r)))
  BY <1>1 DEF Keeps
<1>4. /\ Sound(b) /\ W \cap (ToSet(b.from) \cup ToSet(b.to)) = {}
      /\ ToSet(b.from) \cup ToSet(b.to) \cup W = F \cup T
      /\ T \subseteq ToSet(b.to)
      /\ ToSet(b.from) \subseteq F \ IsChildHere(c.b, c.pid)
      /\ Increasing(c.b.from) => Increasing(b.from)
      /\ SameData(b.ps, c.b.ps)
      /\ \A y \in Pid \ Took(c.b, b) : b.ps[y] = c.b.ps[y]
      /\ LevelsFit(c) => ColumnsFit(b, Took(c.b, b))
  BY DEF Midway
<1>5. /\ Sound(r) /\ ToSet(r.from) \cup ToSet(r.to) = ToSet(e.from) \cup ToSet(e.to)
      /\ ToSet(e.to) \subseteq ToSet(r.to)
      /\ Increasing(e.from) => Increasing(r.from)
      /\ SameData(r.ps, e.ps)
      /\ \A y \in Pid \ Took(e, r) : r.ps[y] = e.ps[y]
  BY <1>3 DEF Moved
<1>6. c.level \in Nat /\ c.b.ps \in [Pid -> Process] /\ r.ps \in [Pid -> Process] /\ b.ps \in [Pid -> Process]
  BY <1>2 DEF Call, Building
<1> HIDE DEF e, d, r, x
<1>7. Took(c.b, x) = Took(c.b, b) \cup {q} \cup Took(e, r)
  BY <1>1, <1>2, <1>4, <1>5 DEF Took
<1>8. SameData(x.ps, c.b.ps)
  BY <1>1, <1>2, <1>4, <1>5 DEF SameData
<1>9. ASSUME NEW y \in Pid \ Took(c.b, x) PROVE x.ps[y] = c.b.ps[y]
  <2>1. y # q /\ y \notin Took(e, r) /\ y \notin Took(c.b, b)
    BY <1>7
  <2> QED
    BY <1>1, <1>2, <1>4, <1>5, <2>1
<1>10. ASSUME LevelsFit(c) PROVE ColumnsFit(x, Took(c.b, x))
  <2> SUFFICES ASSUME NEW y \in Took(c.b, x) PROVE x.ps[y].indent \subseteq 0 .. N
    BY DEF ColumnsFit
  <2>1. y \in Pid
    <3>1. x.to \in Seq(Pid)
      BY <1>2 DEF Building
    <3> QED
      BY <3>1 DEF Took, ToSet
  <2>2. CASE y = q
    <3>1. c.level + Len(c.b.from) < N /\ c.indent \subseteq 0 .. N
      BY <1>10 DEF LevelsFit
    <3>2. c.level \in 0 .. N
      <4>1. N \in Nat /\ Len(c.b.from) \in Nat
        BY TreeAssumption, FS_CardinalityType DEF Call, Building
      <4> HIDE DEF N
      <4> QED
        BY <1>6, <3>1, <4>1
    <3>3. x.ps[y].indent = c.indent \cup {c.level}
      BY <1>2, <2>2
    <3> QED
      BY <3>1, <3>2, <3>3
  <2>3. CASE y # q /\ y \in Took(e, r)
    BY <1>1, <1>2, <1>3, <1>10, <2>1, <2>3 DEF ColumnsFit
  <2>4. CASE y # q /\ y \notin Took(e, r)
    <3>1. y \in Took(c.b, b) /\ x.ps[y] = b.ps[y]
      BY <1>1, <1>2, <1>5, <1>7, <2>1, <2>4
    <3> QED
      BY <1>4, <1>10, <3>1 DEF ColumnsFit
  <2> QED
    BY <2>2, <2>3, <2>4
<1>11. Sound(x)
  BY <1>2, <1>5 DEF Sound
<1>12. (W \ {q}) \cap (ToSet(x.from) \cup ToSet(x.to)) = {}
  BY <1>1, <1>2, <1>4, <1>5
<1>13. ToSet(x.from) \cup ToSet(x.to) \cup (W \ {q}) = F \cup T
  BY <1>1, <1>2, <1>4, <1>5
<1>14. ToSet(x.from) \subseteq F \ IsChildHere(c.b, c.pid) /\ T \subseteq ToSet(x.to)
  BY <1>1, <1>2, <1>4, <1>5 DEF Sound
<1>15. Midway(c, x, W \ {q})
  BY <1>1, <1>2, <1>4, <1>5, <1>8, <1>9, <1>10, <1>11, <1>12, <1>13, <1>14 DEF Midway
<1> QED
  BY <1>7, <1>15 DEF TookMore, x, d, e, r

\* The children whose turn has not come after i turns.
Waiting(children, i) == {children[j] : j \in i + 1 .. Len(children)}

\* The list of a call shrinks before the calls it makes, and each turn keeps what it should.
LEMMA PlacingKeeps ==
  ASSUME ps \in [Pid -> Process], NEW below \in [Call -> Building], NEW c \in Call, Sound(c.b),
         \A d \in Call : Len(d.b.from) < Len(c.b.from) => Keeps(d, below[d]),
         NEW placed, NEW children, Placing(placed, below, c, children)
  PROVE  /\ Len(children) \in Nat /\ IsInjective(children)
         /\ ToSet(children) = ToSet(c.b.from) \cap IsChildHere(c.b, c.pid)
         /\ \A i \in 0 .. Len(children) :
               placed[i] \in Building /\ Midway(c, placed[i], Waiting(children, i))
         /\ \A i \in 1 .. Len(children) :
               /\ Waiting(children, i) = Waiting(children, i - 1) \ {children[i]}
               /\ children[i] \in Waiting(children, i - 1)
               /\ Waiting(children, i - 1) \subseteq ToSet(children)
<1> DEFINE n == Len(children)
           Wait(i) == Waiting(children, i)
<1>1. /\ n \in Nat /\ DOMAIN children = 1 .. n /\ IsInjective(children) /\ ToSet(children) = Wait(0)
      /\ ToSet(children) = ToSet(c.b.from) \cap IsChildHere(c.b, c.pid)
      /\ Midway(c, Start(c), ToSet(children))
  <2>1. /\ children \in Seq(Pid) /\ children = Children(c.b, c.pid)
    BY DEF Placing
  <2>2. DOMAIN children = 1 .. n /\ n \in Nat
    BY <2>1
  <2>3. ToSet(children) = Wait(0)
    <3>1. 0 + 1 = 1
      OBVIOUS
    <3> QED
      BY <2>2, <3>1 DEF ToSet, Waiting
  <2> QED
    BY <2>1, <2>2, <2>3, StartIsMidway
<1>2. \A i, j \in 1 .. n : children[i] = children[j] => i = j
  BY <1>1 DEF IsInjective
<1> HIDE DEF n
<1>3. ASSUME NEW i \in 1 .. n
      PROVE  /\ Wait(i) = Wait(i - 1) \ {children[i]} /\ children[i] \in Wait(i - 1)
             /\ Wait(i - 1) \subseteq ToSet(children)
  <2>1. (i - 1) + 1 .. n = {i} \cup (i + 1 .. n) /\ i \notin i + 1 .. n
        /\ ((i - 1) + 1 .. n) \subseteq 1 .. n
    BY <1>1
  <2>2. Wait(i - 1) = {children[j] : j \in {i} \cup (i + 1 .. n)}
    BY <2>1 DEF Waiting, n
  <2>3. Wait(i) = {children[j] : j \in i + 1 .. n}
    BY DEF Waiting, n
  <2>4. \A j \in i + 1 .. n : children[j] # children[i]
    BY <1>2, <2>1
  <2>5. ToSet(children) = {children[j] : j \in 1 .. n}
    BY <1>1 DEF ToSet
  <2> HIDE DEF Wait
  <2> QED
    BY <2>1, <2>2, <2>3, <2>4, <2>5
<1> DEFINE P == {i \in 0 .. n : placed[i] \in Building /\ Midway(c, placed[i], Wait(i))}
<1> HIDE DEF Wait
<1>4. 0 \in P
  <2>1. 0 \in 0 .. n
    BY <1>1
  <2> QED
    BY <1>1, <2>1 DEF Placing, n
<1>5. ASSUME NEW i \in 1 .. n, i - 1 \in P PROVE i \in P
  <2> DEFINE b == placed[i - 1]  q == children[i]  last == i = n  d == CallOf(c, b, q, last)
  <2>1. i \in 0 .. n /\ b \in Building /\ Midway(c, b, Wait(i - 1)) /\ last \in BOOLEAN
    BY <1>5
  <2>2. q \in Wait(i - 1) /\ Wait(i - 1) \subseteq ToSet(c.b.from) \cap IsChildHere(c.b, c.pid)
        /\ Wait(i) = Wait(i - 1) \ {q}
    BY <1>1, <1>3
  <2>3. placed[i] \in Building /\ placed[i] = PlaceChild(below, c, b, q, last)
    BY <2>1 DEF Placing, n
  <2> HIDE DEF b, q, last
  <2>4. d \in Call /\ Len(d.b.from) < Len(c.b.from)
    BY <2>1, <2>2, TurnFacts DEF IsTurn
  <2>5. Keeps(d, below[d])
    BY <2>4
  <2>6. Midway(c, PlaceChild(below, c, b, q, last), Wait(i - 1) \ {q})
    BY <2>1, <2>2, <2>5, TurnKeeps
  <2> QED
    BY <2>1, <2>2, <2>3, <2>6
<1>6. \A i \in 0 .. n : i \in P
  <2> HIDE DEF P
  <2> QED
    BY <1>1, <1>4, <1>5, EachTurn
<1> QED
  BY <1>1, <1>3, <1>6 DEF n, Wait

\* After the loop nothing waits.
LEMMA MidwayIsMoved ==
  ASSUME NEW c \in Call, NEW b \in Building, Midway(c, b, {})
  PROVE  Moved(c.b, b) /\ (LevelsFit(c) => ColumnsFit(b, Took(c.b, b)))
<1>1. ToSet(b.from) \subseteq ToSet(c.b.from)
  BY DEF Midway
<1> QED
  BY <1>1 DEF Midway, Moved

LEMMA NothingWaits ==
  ASSUME NEW children, Len(children) \in Nat
  PROVE  Waiting(children, Len(children)) = {}
<1> DEFINE n == Len(children)
<1>1. n + 1 .. n = {}
  OBVIOUS
<1> QED
  BY <1>1 DEF Waiting

LEMMA BuildKeeps ==
  ASSUME ps \in [Pid -> Process]
  PROVE  \A c \in Call : BuildTree(c) \in Building /\ Keeps(c, BuildTree(c))
<1> DEFINE R == {x \in Call \X Building : Keeps(x[1], x[2])}
<1>1. ASSUME NEW below \in [Call -> Building], NEW c \in Call,
             \A d \in Call : Len(d.b.from) < Len(c.b.from) => <<d, below[d]>> \in R
      PROVE  <<c, PlaceChildren(below, c)>> \in R
  <2>1. \A d \in Call : Len(d.b.from) < Len(c.b.from) => Keeps(d, below[d])
    BY <1>1
  <2>2. PICK placed, children : Placing(placed, below, c, children)
                                /\ PlaceChildren(below, c) = placed[Len(children)]
    BY PlacedRuns
  <2> DEFINE r == placed[Len(children)]
  <2>3. r \in Building
    <3>1. Len(children) \in 0 .. Len(children)
      BY <2>2 DEF Placing
    <3> QED
      BY <2>2, <3>1 DEF Placing
  <2>4. ASSUME Sound(c.b) PROVE Midway(c, r, {})
    <3>1. Len(children) \in Nat /\ \A i \in 0 .. Len(children) : Midway(c, placed[i], Waiting(children, i))
      BY <2>1, <2>2, <2>4, PlacingKeeps
    <3>2. Len(children) \in 0 .. Len(children) /\ Waiting(children, Len(children)) = {}
      BY <3>1, NothingWaits
    <3> QED
      BY <3>1, <3>2
  <2> HIDE DEF r
  <2>5. Keeps(c, r)
    BY <2>3, <2>4, MidwayIsMoved DEF Keeps
  <2> QED
    BY <2>2, <2>3, <2>5 DEF r
<1> HIDE DEF R
<1>2. \A c \in Call : BuildTree(c) \in Building /\ <<c, BuildTree(c)>> \in R
  BY <1>1, BuildRule
<1> QED
  BY <1>2 DEF R

-----------------------------------------------------------------------------
(* Lists that change. *)



LEMMA ConcatFacts ==
  ASSUME NEW T, NEW s \in Seq(T), NEW t \in Seq(T)
  PROVE  /\ s \o t \in Seq(T) /\ ToSet(s \o t) = ToSet(s) \cup ToSet(t)
         /\ IsInjective(s) /\ IsInjective(t) /\ ToSet(s) \cap ToSet(t) = {} => IsInjective(s \o t)
<1> DEFINE r == s \o t  m == Len(s)  n == Len(t)
<1>1. /\ r \in Seq(T) /\ m \in Nat /\ n \in Nat /\ DOMAIN r = 1 .. m + n
      /\ DOMAIN s = 1 .. m /\ DOMAIN t = 1 .. n
      /\ \A i \in 1 .. m + n : r[i] = IF i <= m THEN s[i] ELSE t[i - m]
  <2>1. /\ r \in Seq(T) /\ Len(r) = m + n
        /\ \A i \in 1 .. (m + n) : r[i] = IF i <= m THEN s[i] ELSE t[i - m]
    BY ConcatProperties
  <2>2. DOMAIN r = 1 .. m + n
    BY <2>1
  <2> QED
    BY <2>1, <2>2
<1> HIDE DEF r, m, n
<1>2. /\ \A i \in 1 .. m : i \in 1 .. m + n /\ r[i] = s[i]
      /\ \A i \in 1 .. n : m + i \in 1 .. m + n /\ r[m + i] = t[i]
      /\ \A i \in 1 .. m + n : i \in 1 .. m \/ (i - m \in 1 .. n /\ i = m + (i - m))
  <2>1. \A i \in 1 .. n : ~(m + i <= m) /\ (m + i) - m = i /\ m + i \in 1 .. m + n
    BY <1>1
  <2> QED
    BY <1>1, <2>1
<1>3. ToSet(r) = ToSet(s) \cup ToSet(t)
  <2>1. ToSet(r) = {r[i] : i \in 1 .. m + n} /\ ToSet(s) = {s[i] : i \in 1 .. m}
        /\ ToSet(t) = {t[i] : i \in 1 .. n}
    BY <1>1 DEF ToSet
  <2>2. ASSUME NEW x \in ToSet(r) PROVE x \in ToSet(s) \cup ToSet(t)
    BY <1>2, <2>1
  <2>3. ASSUME NEW x \in ToSet(s) PROVE x \in ToSet(r)
    BY <1>2, <2>1
  <2>4. ASSUME NEW x \in ToSet(t) PROVE x \in ToSet(r)
    <3>1. PICK i \in 1 .. n : x = t[i]
      BY <2>1
    <3>2. m + i \in 1 .. m + n /\ r[m + i] = x
      BY <1>2, <3>1
    <3> QED
      BY <2>1, <3>2
  <2> QED
    BY <2>2, <2>3, <2>4
<1>4. ASSUME IsInjective(s), IsInjective(t), ToSet(s) \cap ToSet(t) = {} PROVE IsInjective(r)
  <2> SUFFICES ASSUME NEW i \in 1 .. m + n, NEW j \in 1 .. m + n, r[i] = r[j] PROVE i = j
    BY <1>1 DEF IsInjective
  <2>1. ASSUME NEW k \in 1 .. m, NEW l \in 1 .. n PROVE s[k] # t[l]
    <3>1. k \in DOMAIN s /\ l \in DOMAIN t
      BY <1>1
    <3>2. s[k] \in ToSet(s) /\ t[l] \in ToSet(t)
      BY <3>1 DEF ToSet
    <3> QED
      BY <1>4, <3>2
  <2>2. CASE i \in 1 .. m
    <3>1. j \in 1 .. m
      <4>1. ASSUME j - m \in 1 .. n, j = m + (j - m) PROVE FALSE
        <5>1. r[j] = t[j - m]
          BY <1>2, <4>1, Zenon
        <5> QED
          BY <1>2, <2>1, <2>2, <4>1, <5>1
      <4> QED
        BY <1>2, <4>1
    <3> QED
      BY <1>1, <1>2, <1>4, <2>2, <3>1 DEF IsInjective
  <2>3. CASE ~(i \in 1 .. m)
    <3>1. i - m \in 1 .. n /\ i = m + (i - m)
      BY <1>2, <2>3
    <3>2. r[i] = t[i - m]
      BY <1>2, <3>1, Zenon
    <3>3. CASE j \in 1 .. m
      BY <1>2, <2>1, <3>1, <3>2, <3>3
    <3>4. CASE ~(j \in 1 .. m)
      <4>1. j - m \in 1 .. n /\ j = m + (j - m)
        BY <1>2, <3>4
      <4>2. r[j] = t[j - m]
        BY <1>2, <4>1, Zenon
      <4>3. i - m = j - m
        BY <1>1, <1>4, <3>1, <3>2, <4>1, <4>2 DEF IsInjective
      <4> QED
        BY <3>1, <4>1, <4>3
    <3> QED
      BY <3>3, <3>4
  <2> QED
    BY <2>2, <2>3
<1> QED
  BY <1>1, <1>3, <1>4 DEF r

LEMMA RemoveAtFacts ==
  ASSUME NEW T, NEW s \in Seq(T), NEW i \in 1 .. Len(s), IsInjective(s)
  PROVE  /\ RemoveAt(s, i) \in Seq(T) /\ Len(RemoveAt(s, i)) < Len(s)
         /\ IsInjective(RemoveAt(s, i)) /\ ToSet(RemoveAt(s, i)) = ToSet(s) \ {s[i]}
         /\ Increasing(s) => Increasing(RemoveAt(s, i))
<1> DEFINE n == Len(s)
           a == SubSeq(s, 1, i - 1)
           z == SubSeq(s, i + 1, n)
           r == a \o z
           at == [k \in 1 .. n - 1 |-> IF k < i THEN k ELSE k + 1]
<1>1. /\ n \in Nat /\ DOMAIN s = 1 .. n /\ i \in Nat /\ 1 <= i /\ i <= n
      /\ \A k \in 1 .. n : s[k] \in T
  OBVIOUS
<1>2. RemoveAt(s, i) = r
  BY DEF RemoveAt
<1>3. a \in Seq(T) /\ Len(a) = i - 1 /\ \A k \in 1 .. i - 1 : a[k] = s[k]
  <2> HIDE DEF n
  <2>1. \A k \in 1 .. i - 1 : k \in 1 .. n
    BY <1>1
  <2> QED
    BY <1>1, <2>1
<1>4. z \in Seq(T) /\ Len(z) = n - i /\ \A k \in 1 .. n - i : z[k] = s[i + k]
  <2> HIDE DEF n
  <2>1. \A k \in i + 1 .. n : s[k] \in T
    BY <1>1
  <2>2. Len(z) = n - i
    BY <1>1
  <2>3. \A k \in 1 .. n - i : z[k] = s[(i + 1) + k - 1] /\ (i + 1) + k - 1 = i + k
    BY <1>1
  <2>4. z \in Seq(T)
    BY <1>1, <2>1
  <2> QED
    BY <2>2, <2>3, <2>4
<1> HIDE DEF a, z, n
<1>5. /\ r \in Seq(T) /\ Len(r) = n - 1 /\ DOMAIN r = 1 .. n - 1
      /\ \A k \in 1 .. n - 1 : r[k] = s[at[k]]
  <2>1. /\ r \in Seq(T) /\ Len(r) = (i - 1) + (n - i)
        /\ \A k \in 1 .. (i - 1) + (n - i) : r[k] = IF k <= i - 1 THEN a[k] ELSE z[k - (i - 1)]
    <3>1. /\ r \in Seq(T) /\ Len(r) = Len(a) + Len(z)
          /\ \A k \in 1 .. (Len(a) + Len(z)) : r[k] = IF k <= Len(a) THEN a[k] ELSE z[k - Len(a)]
      BY <1>3, <1>4, ConcatProperties
    <3> HIDE DEF r
    <3> QED
      BY <1>3, <1>4, <3>1
  <2>2. (i - 1) + (n - i) = n - 1
    BY <1>1
  <2> HIDE DEF r
  <2>3. ASSUME NEW k \in 1 .. n - 1 PROVE r[k] = s[at[k]]
    <3>1. CASE k < i
      <4>1. k <= i - 1 /\ k \in 1 .. i - 1
        BY <1>1, <3>1
      <4> QED
        BY <1>3, <2>1, <2>2, <3>1, <4>1
    <3>2. CASE ~(k < i)
      <4>1. ~(k <= i - 1) /\ k - (i - 1) \in 1 .. n - i /\ i + (k - (i - 1)) = k + 1
        BY <1>1, <3>2
      <4>2. r[k] = z[k - (i - 1)]
        BY <2>1, <2>2, <4>1
      <4>3. z[k - (i - 1)] = s[i + (k - (i - 1))]
        BY <1>4, <4>1
      <4>4. at[k] = k + 1
        BY <3>2
      <4> QED
        BY <4>1, <4>2, <4>3, <4>4
    <3> QED
      BY <3>1, <3>2
  <2>4. DOMAIN r = 1 .. n - 1
    BY <2>1, <2>2
  <2> QED
    BY <2>1, <2>2, <2>3, <2>4
<1>6. /\ \A k \in 1 .. n - 1 : at[k] \in 1 .. n /\ at[k] # i
      /\ \A k, l \in 1 .. n - 1 : k < l => at[k] < at[l]
      /\ \A j \in 1 .. n : j # i => \E k \in 1 .. n - 1 : at[k] = j
  <2>1. \A k \in 1 .. n - 1 : at[k] \in 1 .. n /\ at[k] # i
    BY <1>1
  <2>2. \A k, l \in 1 .. n - 1 : k < l => at[k] < at[l]
    BY <1>1
  <2>3. ASSUME NEW j \in 1 .. n, j # i PROVE \E k \in 1 .. n - 1 : at[k] = j
    <3>1. CASE j < i
      <4>1. j \in 1 .. n - 1 /\ at[j] = j
        BY <1>1, <3>1
      <4> QED
        BY <4>1
    <3>2. CASE ~(j < i)
      <4>1. j - 1 \in 1 .. n - 1 /\ ~(j - 1 < i) /\ (j - 1) + 1 = j
        BY <1>1, <2>3, <3>2
      <4>2. at[j - 1] = j
        BY <4>1
      <4> QED
        BY <4>1, <4>2
    <3> QED
      BY <3>1, <3>2
  <2> QED
    BY <2>1, <2>2, <2>3
<1> HIDE DEF at, r
<1>7. \A k, l \in 1 .. n : s[k] = s[l] => k = l
  BY <1>1 DEF IsInjective
<1>8. IsInjective(r)
  <2> SUFFICES ASSUME NEW k \in 1 .. n - 1, NEW l \in 1 .. n - 1, r[k] = r[l] PROVE k = l
    BY <1>5 DEF IsInjective
  <2>1. at[k] = at[l]
    BY <1>5, <1>6, <1>7
  <2>2. at[k] \in 1 .. n
    BY <1>6
  <2>3. ~(k < l) /\ ~(l < k)
    BY <1>1, <1>6, <2>1, <2>2
  <2> QED
    BY <1>1, <2>3
<1>9. ToSet(r) = ToSet(s) \ {s[i]}
  <2>1. ToSet(r) = {r[k] : k \in 1 .. n - 1} /\ ToSet(s) = {s[k] : k \in 1 .. n}
    BY <1>1, <1>5 DEF ToSet
  <2>2. ASSUME NEW x \in ToSet(r) PROVE x \in ToSet(s) \ {s[i]}
    <3>1. PICK k \in 1 .. n - 1 : x = r[k]
      BY <2>1
    <3>2. r[k] = s[at[k]] /\ at[k] \in 1 .. n /\ at[k] # i
      BY <1>5, <1>6
    <3>3. s[at[k]] # s[i]
      BY <1>1, <1>7, <3>2
    <3> QED
      BY <2>1, <3>1, <3>2, <3>3
  <2>3. ASSUME NEW x \in ToSet(s) \ {s[i]} PROVE x \in ToSet(r)
    <3>1. PICK k \in 1 .. n : x = s[k]
      BY <2>1
    <3>2. k # i
      BY <3>1
    <3>3. PICK j \in 1 .. n - 1 : at[j] = k
      BY <1>6, <3>2
    <3>4. r[j] = x
      BY <1>5, <3>1, <3>3
    <3> QED
      BY <2>1, <3>4
  <2> QED
    BY <2>2, <2>3
<1>10. ASSUME Increasing(s) PROVE Increasing(r)
  <2>1. \A k, l \in 1 .. n : k < l => s[k] < s[l]
    BY <1>10 DEF Increasing, n
  <2>2. \A k, l \in 1 .. n - 1 : k < l => r[k] < r[l]
    BY <1>5, <1>6, <2>1
  <2> QED
    BY <1>5, <2>2 DEF Increasing
<1>11. Len(r) < n
  BY <1>1, <1>5
<1> QED
  BY <1>2, <1>5, <1>8, <1>9, <1>10, <1>11 DEF n

-----------------------------------------------------------------------------
(* The lists through a scan and a sort. *)

KeepsInv ==
  /\ TreeTypes
  /\ IsInjective(processes) /\ IsInjective(processes2) /\ ToSet(processes) \cap ToSet(processes2) = {}
  /\ phase = "scan" => seen \subseteq ToSet(processes)
  /\ phase \in {"sort", "tree", "drawn"} => seen = ToSet(processes) \cup ToSet(processes2)
  /\ phase = "tree" => Increasing(processes)

RootCall(i) ==
  LET p == processes[i]
  IN  [b |-> [ps |-> [ps EXCEPT ![p].indent = {}, ![p].last = FALSE],
              from |-> RemoveAt(processes, i), to |-> Append(processes2, p)],
       pid |-> p, level |-> 0, indent |-> {}, show |-> ShowBelow(ps[p].show, p)]

\* What the call for the root p is called with.
IsRootCall(c, i, p) ==
  /\ p \in Pid /\ p \in ToSet(processes) /\ c \in Call /\ Sound(c.b) /\ LevelsFit(c)
  /\ ToSet(c.b.from) = ToSet(processes) \ {p} /\ ToSet(c.b.to) = ToSet(processes2) \cup {p}
  /\ c.b.to = Append(processes2, p)
  /\ SameData(c.b.ps, ps) /\ \A q \in Pid \ {p} : c.b.ps[q] = ps[q]
  /\ c.b.ps[p].show = ps[p].show /\ c.b.ps[p].indent = {} /\ ~c.b.ps[p].last
  /\ Increasing(processes) => Increasing(c.b.from)
  /\ c.pid = p /\ c.level = 0 /\ c.indent = {} /\ c.show = ShowBelow(ps[p].show, p)

LEMMA RootCallFacts ==
  ASSUME KeepsInv, NEW i \in DOMAIN processes
  PROVE  IsRootCall(RootCall(i), i, processes[i])
<1> DEFINE p == processes[i]
           table == [ps EXCEPT ![p].indent = {}, ![p].last = FALSE]
           from == RemoveAt(processes, i)
           to == Append(processes2, p)
           c == RootCall(i)
           N == Cardinality(Pid)
<1>1. /\ ps \in [Pid -> Process] /\ processes \in Seq(Pid) /\ processes2 \in Seq(Pid)
      /\ \A q \in Pid : ps[q].indent \subseteq 0 .. N
      /\ IsInjective(processes) /\ IsInjective(processes2) /\ ToSet(processes) \cap ToSet(processes2) = {}
  BY DEF KeepsInv, TreeTypes
<1>2. /\ DOMAIN processes = 1 .. Len(processes) /\ i \in 1 .. Len(processes) /\ p \in Pid
      /\ p \in ToSet(processes)
  BY <1>1, SeqFacts DEF ToSet
<1> HIDE DEF p
<1>3. /\ from \in Seq(Pid) /\ Len(from) < Len(processes) /\ IsInjective(from)
      /\ ToSet(from) = ToSet(processes) \ {p} /\ (Increasing(processes) => Increasing(from))
  BY <1>1, <1>2, RemoveAtFacts DEF p
<1>4. to \in Seq(Pid) /\ ToSet(to) = ToSet(processes2) \cup {p} /\ IsInjective(to)
  <2> DEFINE one == <<p>>
  <2>1. one \in Seq(Pid) /\ ToSet(one) = {p} /\ IsInjective(one)
    <3>1. one \in Seq(Pid) /\ Len(one) = 1 /\ one[1] = p
      BY <1>2
    <3> HIDE DEF one
    <3>2. DOMAIN one = {1}
      BY <3>1
    <3> QED
      BY <3>1, <3>2 DEF ToSet, IsInjective
  <2>2. to = processes2 \o one
    BY <1>1, <1>2
  <2>3. p \notin ToSet(processes2)
    BY <1>1, <1>2
  <2> HIDE DEF to, one
  <2> QED
    BY <1>1, <2>1, <2>2, <2>3, ConcatFacts
<1>5. /\ table \in [Pid -> Process] /\ \A q \in Pid \ {p} : table[q] = ps[q]
      /\ table[p].show = ps[p].show /\ table[p].indent = {} /\ ~table[p].last
      /\ table[p].ppid = ps[p].ppid /\ table[p].tgid = ps[p].tgid
      /\ table[p].showChildren = ps[p].showChildren
  <2> DEFINE row == [ps[p] EXCEPT !.indent = {}, !.last = FALSE]
  <2>1. ps[p] \in Process
    BY <1>1, <1>2
  <2>2. /\ row \in Process /\ row.show = ps[p].show /\ row.indent = {} /\ ~row.last
        /\ row.ppid = ps[p].ppid /\ row.tgid = ps[p].tgid /\ row.showChildren = ps[p].showChildren
    BY <2>1 DEF Process
  <2>3. table = [ps EXCEPT ![p] = row]
    BY <1>1, <1>2
  <2> HIDE DEF row, table
  <2> QED
    BY <1>1, <1>2, <2>2, <2>3
<1>6. ShowBelow(ps[p].show, p) \in BOOLEAN
  BY <1>1, <1>2 DEF ShowBelow, Process
<1>7. /\ c.b.ps = table /\ c.b.from = from /\ c.b.to = to /\ c.pid = p /\ c.level = 0
      /\ c.indent = {} /\ c.show = ShowBelow(ps[p].show, p)
      /\ c = [b |-> [ps |-> table, from |-> from, to |-> to], pid |-> p, level |-> 0, indent |-> {},
              show |-> ShowBelow(ps[p].show, p)]
  BY DEF RootCall, p
<1> HIDE DEF c, table, from, to
<1>8. c \in Call
  <2>1. [ps |-> table, from |-> from, to |-> to] \in Building
    BY <1>3, <1>4, <1>5 DEF Building
  <2> QED
    BY <1>2, <1>6, <1>7, <2>1 DEF Call
<1>9. Sound(c.b)
  BY <1>1, <1>2, <1>3, <1>4, <1>7 DEF Sound
<1>10. LevelsFit(c)
  <2>1. IsFiniteSet(Pid) /\ N \in Nat
    BY TreeAssumption, FS_CardinalityType
  <2>2. Cardinality(ToSet(processes)) = Len(processes)
    BY <1>1, LenIsCard
  <2>3. ToSet(processes) \subseteq Pid
    BY <1>1, SeqFacts
  <2>4. Len(processes) <= N
    BY <2>1, <2>2, <2>3, FS_Subset
  <2>5. Len(processes) \in Nat /\ Len(from) \in Nat
    BY <1>1, <1>3, SeqFacts
  <2> HIDE DEF N
  <2>6. 0 + Len(from) < N
    BY <1>3, <2>1, <2>4, <2>5
  <2> QED
    BY <1>7, <2>6 DEF LevelsFit, N
<1>11. SameData(c.b.ps, ps)
  BY <1>5, <1>7 DEF SameData
<1> QED
  BY <1>2, <1>3, <1>4, <1>5, <1>7, <1>8, <1>9, <1>10, <1>11 DEF IsRootCall, c, p, to

\* What a turn of the loop does.
TookRoot(c, r, p) ==
  /\ ps' = r.ps /\ processes' = r.from /\ processes2' = r.to
  /\ r \in Building /\ Moved(c.b, r) /\ ColumnsFit(r, Took(c.b, r))
  /\ IsRoot(p) /\ phase = "tree"

LEMMA TakeRootFacts ==
  ASSUME KeepsInv, TakeRoot
  PROVE  \E i, p, c, r : IsRootCall(c, i, p) /\ r = BuildTree(c) /\ TookRoot(c, r, p)
<1>1. PICK i \in DOMAIN processes :
        /\ IsRoot(processes[i])
        /\ ps' = BuildTree(RootCall(i)).ps /\ processes' = BuildTree(RootCall(i)).from
        /\ processes2' = BuildTree(RootCall(i)).to
  BY Zenon DEF TakeRoot, RootCall
<1> DEFINE c == RootCall(i)  r == BuildTree(c)  p == processes[i]
<1>2. IsRootCall(c, i, p)
  BY RootCallFacts
<1> HIDE DEF c
<1>3. r \in Building /\ Moved(c.b, r) /\ ColumnsFit(r, Took(c.b, r))
  <2>1. ps \in [Pid -> Process]
    BY DEF KeepsInv, TreeTypes
  <2>2. r \in Building /\ Keeps(c, r)
    BY <1>2, <2>1, BuildKeeps DEF IsRootCall
  <2> QED
    BY <1>2, <2>2 DEF Keeps, IsRootCall
<1>4. phase = "tree"
  BY DEF TakeRoot
<1> HIDE DEF p, r
<1>5. TookRoot(c, r, p)
  BY <1>1, <1>3, <1>4 DEF TookRoot, c, r, p
<1> QED
  BY <1>2, <1>5 DEF r

LEMMA KeepsStutters ==
  ASSUME KeepsInv, UNCHANGED treeVars
  PROVE  KeepsInv'
BY DEF KeepsInv, TreeTypes, treeVars, osVars, listVars, scanVars

LEMMA InitKeeps ==
  ASSUME TreeInit
  PROVE  KeepsInv
<1>1. /\ os \in [Pid -> [ppid : Pid \cup {0}, tgid : Pid \cup {0}]]
      /\ changes \in 0 .. MaxChanges /\ direction \in Directions
  BY TreeAssumption DEF TreeInit, OsTable
<1>2. New \in Process /\ New.indent = {}
  BY DEF New, Process
<1>3. ps \in [Pid -> Process] /\ \A p \in Pid : ps[p].indent \subseteq 0 .. Cardinality(Pid)
  BY <1>2 DEF TreeInit
<1>4. processes = << >> /\ processes2 = << >> /\ ToSet(<< >>) = {} /\ IsInjective(<< >>)
  BY DEF TreeInit, ToSet, IsInjective
<1> QED
  BY <1>1, <1>3, <1>4 DEF TreeInit, KeepsInv, TreeTypes

LEMMA EnvironmentKeeps ==
  ASSUME KeepsInv, Environment
  PROVE  KeepsInv'
<1> DEFINE Row == [ppid : Pid \cup {0}, tgid : Pid \cup {0}]
<1>1. os \in [Pid -> Row] /\ changes \in 0 .. MaxChanges /\ freed \subseteq Pid /\ MaxChanges \in Nat
  BY TreeAssumption DEF KeepsInv, TreeTypes
<1>2. /\ os' \in [Pid -> Row] /\ changes' \in 0 .. MaxChanges /\ freed' \subseteq Pid
      /\ UNCHANGED <<listVars, direction, scanVars>>
  <2>1. CASE Fork
    <3>1. PICK p \in Pid, q \in ForkPid :
            /\ OsChange([os EXCEPT ![q] = [ppid |-> p, tgid |-> q]])
                 \/ OsChange([os EXCEPT ![q] = [ppid |-> 0, tgid |-> p]])
            /\ UNCHANGED freed
      BY <2>1 DEF Fork
    <3>2. q \in Pid
      BY TreeAssumption
    <3> QED
      BY <1>1, <3>1, <3>2 DEF OsChange
  <2>2. CASE Exit
    <3>1. PICK p \in Pid :
            /\ OsChange([q \in Pid |-> IF os[q].tgid = p THEN Unused
                                       ELSE IF os[q].ppid = p THEN [os[q] EXCEPT !.ppid = Reaper]
                                       ELSE os[q]])
            /\ freed' = freed \cup {q \in Pid : os[q].tgid = p}
      BY <2>2 DEF Exit
    <3>2. Reaper \in Pid /\ Unused \in Row
      BY TreeAssumption DEF Unused
    <3> QED
      BY <1>1, <3>1, <3>2 DEF OsChange
  <2> QED
    BY <2>1, <2>2 DEF Environment
<1> QED
  BY <1>2 DEF KeepsInv, TreeTypes, listVars, scanVars

LEMMA VisitKeeps ==
  ASSUME KeepsInv, Visit
  PROVE  KeepsInv'
<1>1. PICK p \in todo :
        /\ phase = "scan" /\ todo' = todo \ {p}
        /\ LET read == {q \in Pid : IsLeader(p) /\ os[q].tgid = p}
               old == ToSet(processes)
           IN /\ seen' = seen \cup read
              /\ \E hidden \in SUBSET read :
                   /\ visible' = (visible \ hidden) \cup (read \ hidden)
                   /\ ps' = [q \in Pid |->
                        IF q \notin read THEN ps[q]
                        ELSE [IF q \in old THEN ps[q] ELSE New EXCEPT
                                !.ppid = os[q].ppid, !.tgid = p, !.show = q \notin hidden]]
              /\ \E new \in SetToSeqs(read \ old) : processes' = processes \o new
        /\ UNCHANGED <<osVars, processes2, direction, phase>>
  BY Zenon DEF Visit
<1> DEFINE read == {q \in Pid : IsLeader(p) /\ os[q].tgid = p}
           old == ToSet(processes)
<1>2. PICK hidden \in SUBSET read :
        /\ visible' = (visible \ hidden) \cup (read \ hidden)
        /\ ps' = [q \in Pid |->
             IF q \notin read THEN ps[q]
             ELSE [IF q \in old THEN ps[q] ELSE New EXCEPT
                     !.ppid = os[q].ppid, !.tgid = p, !.show = q \notin hidden]]
  BY <1>1
<1>3. PICK new \in SetToSeqs(read \ old) : processes' = processes \o new
  BY <1>1
<1>4. /\ os \in [Pid -> [ppid : Pid \cup {0}, tgid : Pid \cup {0}]]
      /\ ps \in [Pid -> Process] /\ \A q \in Pid : ps[q].indent \subseteq 0 .. Cardinality(Pid)
      /\ processes \in Seq(Pid) /\ IsInjective(processes) /\ todo \subseteq Pid /\ seen \subseteq old
      /\ visible \subseteq Pid /\ seen \subseteq Pid
  BY <1>1 DEF KeepsInv, TreeTypes
<1>5. read \subseteq Pid /\ p \in Pid
  BY <1>4
<1>6. new \in Seq(Pid) /\ IsInjective(new) /\ ToSet(new) = read \ old
  <2> DEFINE S == read \ old  n == Cardinality(S)
  <2>1. S \subseteq Pid /\ IsFiniteSet(S) /\ n \in Nat
    BY <1>5, TreeAssumption, FS_Subset, FS_CardinalityType
  <2>2. new \in [1 .. n -> S] /\ \A i, j \in 1 .. n : i # j => new[i] # new[j]
    BY <1>3 DEF SetToSeqs
  <2> HIDE DEF S, n
  <2>3. DOMAIN new = 1 .. n /\ IsInjective(new) /\ new \in Injection(1 .. n, S)
    BY <2>2 DEF IsInjective, Injection
  <2>4. new \in Surjection(1 .. n, S)
    <3>1. Cardinality(1 .. n) = n
      BY <2>1, FS_Interval
    <3> QED
      BY <2>1, <2>3, <3>1, FS_Injection DEF n
  <2>5. ToSet(new) = S
    BY <2>2, <2>3, <2>4 DEF Surjection, ToSet
  <2> QED
    BY <2>1, <2>2, <2>3, <2>5 DEF S
<1> HIDE DEF read, old
<1>7. /\ processes' \in Seq(Pid) /\ IsInjective(processes')
      /\ ToSet(processes') = old \cup read
  <2>1. ToSet(processes) \cap ToSet(new) = {}
    BY <1>6 DEF old
  <2>2. /\ processes \o new \in Seq(Pid) /\ IsInjective(processes \o new)
        /\ ToSet(processes \o new) = ToSet(processes) \cup ToSet(new)
    BY <1>4, <1>6, <2>1, ConcatFacts
  <2> QED
    BY <1>3, <1>6, <2>2 DEF old
<1>8. ASSUME NEW q \in Pid
      PROVE  ps'[q] \in Process /\ ps'[q].indent \subseteq 0 .. Cardinality(Pid)
  <2>1. CASE q \notin read
    BY <1>2, <1>4, <2>1
  <2>2. CASE q \in read
    <3> DEFINE was == IF q \in old THEN ps[q] ELSE New
               row == [was EXCEPT !.ppid = os[q].ppid, !.tgid = p, !.show = q \notin hidden]
    <3>1. was \in Process /\ was.indent \subseteq 0 .. Cardinality(Pid)
      BY <1>4 DEF New, Process
    <3>2. ps'[q] = row
      BY <1>2, <2>2
    <3> HIDE DEF was
    <3>3. row \in Process /\ row.indent = was.indent
      BY <1>4, <1>5, <3>1 DEF Process
    <3> QED
      BY <3>1, <3>2, <3>3
  <2> QED
    BY <2>1, <2>2
<1>9. ps' \in [Pid -> Process]
  <2>1. ps' = [q \in Pid |-> ps'[q]]
    BY <1>2
  <2> QED
    BY <1>8, <2>1
<1>10. seen' = seen \cup read /\ visible' \subseteq Pid /\ seen' \subseteq Pid
       /\ todo' \subseteq Pid /\ UNCHANGED <<osVars, processes2, direction, phase>> /\ phase = "scan"
  BY <1>1, <1>2, <1>4, <1>5 DEF read
<1>11. processes2 = << >> /\ ToSet(<< >>) = {}
  BY <1>10 DEF KeepsInv, TreeTypes, ToSet
<1> QED
  BY <1>4, <1>7, <1>8, <1>9, <1>10, <1>11 DEF KeepsInv, TreeTypes, osVars

LEMMA SortedFacts ==
  ASSUME NEW s \in Seq(Pid), IsInjective(s), NEW was \in [DOMAIN s -> DOMAIN s], IsInjective(was),
         NEW r, r = [i \in DOMAIN s |-> s[was[i]]], \A i, j \in DOMAIN s : i < j => r[i] <= r[j]
  PROVE  r \in Seq(Pid) /\ IsInjective(r) /\ ToSet(r) = ToSet(s) /\ Increasing(r)
<1> DEFINE D == DOMAIN s
<1>1. D = 1 .. Len(s) /\ Len(s) \in Nat /\ ToSet(s) = {s[i] : i \in D} /\ \A i \in D : s[i] \in Pid
  BY SeqFacts DEF ToSet
<1>2. \A i \in D : was[i] \in D /\ r[i] = s[was[i]]
  OBVIOUS
<1>3. /\ \A i, j \in D : was[i] = was[j] => i = j
      /\ \A i, j \in D : s[i] = s[j] => i = j
  BY DEF IsInjective
<1>4. \A i, j \in D : i < j => r[i] <= r[j]
  OBVIOUS
<1>5. DOMAIN r = D /\ was \in Injection(D, D) /\ was \in [D -> D]
  BY DEF Injection
<1> HIDE DEF D
<1>6. r \in Seq(Pid) /\ Len(r) = Len(s)
  <2>1. r \in [1 .. Len(s) -> Pid]
    <3>1. r = [i \in D |-> r[i]]
      BY <1>2 DEF D
    <3> QED
      BY <1>1, <1>2, <3>1
  <2> QED
    BY <1>1, <2>1
<1>7. IsInjective(r)
  BY <1>2, <1>3, <1>5 DEF IsInjective
<1>8. ToSet(r) = ToSet(s)
  <2>1. was \in Surjection(D, D)
    <3>1. IsFiniteSet(D)
      BY <1>1, FS_Interval
    <3> QED
      BY <1>5, <3>1, FS_Injection
  <2>2. \A j \in D : \E i \in D : was[i] = j
    BY <1>5, <2>1 DEF Surjection
  <2>3. ToSet(r) = {r[i] : i \in D}
    BY <1>5 DEF ToSet
  <2>4. ASSUME NEW x \in ToSet(r) PROVE x \in ToSet(s)
    BY <1>1, <1>2, <2>3
  <2>5. ASSUME NEW x \in ToSet(s) PROVE x \in ToSet(r)
    <3>1. PICK j \in D : x = s[j]
      BY <1>1
    <3>2. PICK i \in D : was[i] = j
      BY <2>2
    <3>3. r[i] = x
      BY <1>2, <3>1, <3>2
    <3> QED
      BY <2>3, <3>3
  <2> QED
    BY <2>4, <2>5
<1>9. Increasing(r)
  <2> SUFFICES ASSUME NEW i \in D, NEW j \in D, i < j PROVE r[i] < r[j]
    BY <1>1, <1>6 DEF Increasing
  <2> DEFINE x == r[i]  y == r[j]
  <2>1. x <= y /\ x \in Pid /\ y \in Pid
    BY <1>1, <1>2, <1>4
  <2>2. i # j
    BY <1>1
  <2>3. x # y
    BY <1>5, <1>7, <2>2 DEF IsInjective
  <2>4. Pid \subseteq Nat
    BY TreeAssumption
  <2> HIDE DEF x, y
  <2>5. x < y
    BY <2>1, <2>3, <2>4
  <2> QED
    BY <2>5 DEF x, y
<1> QED
  BY <1>6, <1>7, <1>8, <1>9

LEMMA SortKeeps ==
  ASSUME KeepsInv, StartSort
  PROVE  KeepsInv' /\ ToSet(processes') = ToSet(processes)
<1>1. PICK was \in [DOMAIN processes -> DOMAIN processes] :
        IsInjective(was) /\ processes' = [i \in DOMAIN processes |-> processes[was[i]]]
  BY DEF StartSort
<1>2. /\ processes \in Seq(Pid) /\ IsInjective(processes) /\ phase = "sort" /\ processes2 = << >>
      /\ \A i, j \in DOMAIN processes : i < j => processes'[i] <= processes'[j]
      /\ phase' = "tree" /\ UNCHANGED <<osVars, ps, processes2, direction, todo, seen, visible>>
  BY DEF KeepsInv, TreeTypes, StartSort
<1>3. /\ processes' \in Seq(Pid) /\ IsInjective(processes') /\ ToSet(processes') = ToSet(processes)
      /\ Increasing(processes')
  BY <1>1, <1>2, SortedFacts
<1> QED
  BY <1>2, <1>3 DEF KeepsInv, TreeTypes, osVars

LEMMA TakeRootKeeps ==
  ASSUME KeepsInv, TakeRoot
  PROVE  KeepsInv'
<1>1. PICK i, p, c, r : IsRootCall(c, i, p) /\ r = BuildTree(c) /\ TookRoot(c, r, p)
  BY TakeRootFacts
<1>2. /\ ps' = r.ps /\ processes' = r.from /\ processes2' = r.to
      /\ r \in Building /\ Moved(c.b, r) /\ ColumnsFit(r, Took(c.b, r)) /\ phase = "tree"
  BY <1>1 DEF TookRoot
<1>3. UNCHANGED <<osVars, direction, scanVars>>
  BY DEF TakeRoot
<1>4. /\ c.b.ps \in [Pid -> Process] /\ \A q \in Pid \ {p} : c.b.ps[q] = ps[q]
      /\ c.b.ps[p].indent = {}
      /\ ToSet(c.b.from) = ToSet(processes) \ {p} /\ ToSet(c.b.to) = ToSet(processes2) \cup {p}
      /\ p \in ToSet(processes) /\ (Increasing(processes) => Increasing(c.b.from))
  BY <1>1 DEF IsRootCall, Call, Building
<1>5. ASSUME NEW q \in Pid PROVE r.ps[q].indent \subseteq 0 .. Cardinality(Pid)
  <2>1. CASE q \in Took(c.b, r)
    BY <1>2, <2>1 DEF ColumnsFit
  <2>2. CASE q \notin Took(c.b, r)
    BY <1>2, <1>4, <2>2 DEF Moved, KeepsInv, TreeTypes
  <2> QED
    BY <2>1, <2>2
<1>6. r.ps \in [Pid -> Process] /\ r.from \in Seq(Pid) /\ r.to \in Seq(Pid)
  BY <1>2 DEF Building
<1>7. IsInjective(r.from) /\ IsInjective(r.to) /\ ToSet(r.from) \cap ToSet(r.to) = {}
      /\ (Increasing(c.b.from) => Increasing(r.from))
      /\ ToSet(r.from) \cup ToSet(r.to) = ToSet(processes) \cup ToSet(processes2)
  BY <1>2, <1>4 DEF Moved, Sound
<1>8. seen = ToSet(processes) \cup ToSet(processes2) /\ Increasing(processes)
  BY <1>2 DEF KeepsInv
<1> QED
  BY <1>2, <1>3, <1>4, <1>5, <1>6, <1>7, <1>8 DEF KeepsInv, TreeTypes, osVars, scanVars

LEMMA TreeUserKeeps ==
  ASSUME KeepsInv, UserKey
  PROVE  KeepsInv'
<1>1. CASE InvertSortOrder
  BY <1>1 DEF InvertSortOrder, KeepsInv, TreeTypes, listVars, osVars
<1>2. ASSUME NEW newPs, Expanded(newPs), newPs \in [Pid -> Process],
             \A p \in Pid : newPs[p].indent = ps[p].indent
      PROVE  KeepsInv'
  BY <1>2 DEF Expanded, KeepsInv, TreeTypes, osVars
<1>3. ASSUME NEW p \in Pid, NEW b \in BOOLEAN, Expanded([ps EXCEPT ![p].showChildren = b])
      PROVE  KeepsInv'
  <2> DEFINE t == [ps EXCEPT ![p].showChildren = b]
  <2>1. ps \in [Pid -> Process]
    BY DEF KeepsInv, TreeTypes
  <2>2. t \in [Pid -> Process] /\ \A q \in Pid : t[q].indent = ps[q].indent
    BY <2>1 DEF Process
  <2> HIDE DEF t
  <2>3. Expanded(t)
    BY <1>3 DEF t
  <2> QED
    BY <1>2, <2>2, <2>3
<1>4. ps \in [Pid -> Process] /\ Toggles \subseteq Pid
  BY TreeAssumption DEF KeepsInv, TreeTypes
<1>5. CASE Toggle
  <2>1. PICK p \in Toggles : Expanded([ps EXCEPT ![p].showChildren = ~@])
    BY <1>5 DEF Toggle
  <2>2. [ps EXCEPT ![p].showChildren = ~@] = [ps EXCEPT ![p].showChildren = ~ps[p].showChildren]
    BY <1>4, <2>1
  <2>3. (~ps[p].showChildren) \in BOOLEAN /\ p \in Pid
    BY <1>4
  <2> QED
    BY <1>3, <2>1, <2>2, <2>3
<1>6. CASE CollapseIntoParent
  <2>1. PICK p \in Toggles : Expanded([ps EXCEPT ![p].showChildren = FALSE])
    BY <1>6 DEF CollapseIntoParent
  <2> QED
    BY <1>3, <1>4, <2>1
<1>7. CASE ExpandTree
  <2> DEFINE t == [p \in Pid |-> [ps[p] EXCEPT !.showChildren = @ \/ p \in ToSet(processes)]]
  <2>1. ASSUME NEW p \in Pid PROVE t[p] \in Process /\ t[p].indent = ps[p].indent
    <3> DEFINE b == ps[p].showChildren \/ p \in ToSet(processes)
    <3>1. b \in BOOLEAN /\ ps[p] \in Process
      BY <1>4
    <3>2. t[p] = [ps[p] EXCEPT !.showChildren = b]
      OBVIOUS
    <3> HIDE DEF b, t
    <3> QED
      BY <3>1, <3>2 DEF Process
  <2>2. t \in [Pid -> Process]
    BY <2>1
  <2>3. Expanded(t)
    BY <1>7 DEF ExpandTree
  <2> HIDE DEF t
  <2> QED
    BY <1>2, <2>1, <2>2, <2>3
<1> QED
  BY <1>1, <1>5, <1>6, <1>7 DEF UserKey

LEMMA NextKeeps ==
  ASSUME KeepsInv, [TreeNext]_treeVars
  PROVE  KeepsInv'
<1>1. CASE StartScan
  BY <1>1 DEF StartScan, KeepsInv, TreeTypes, listVars, osVars
<1>2. CASE EndScan
  <2>1. /\ processes \in Seq(Pid) /\ IsInjective(processes) /\ phase = "scan" /\ seen \subseteq ToSet(processes)
        /\ processes' = Kept(processes, seen) /\ processes2 = << >> /\ ToSet(<< >>) = {}
    BY <1>2 DEF EndScan, KeepsInv, TreeTypes, ToSet
  <2>2. /\ processes' \in Seq(Pid) /\ IsInjective(processes') /\ ToSet(processes') = seen
    <3>1. /\ Kept(processes, seen) \in Seq(Pid) /\ IsInjective(Kept(processes, seen))
          /\ ToSet(Kept(processes, seen)) = ToSet(processes) \cap seen
      BY <2>1, KeptFacts, KeptSet
    <3> QED
      BY <2>1, <3>1
  <2> QED
    BY <1>2, <2>1, <2>2 DEF EndScan, KeepsInv, TreeTypes, osVars
<1>3. CASE EndSort
  <2>1. ToSet(<< >>) = {}
    BY DEF ToSet
  <2> QED
    BY <1>3, <2>1 DEF EndSort, KeepsInv, TreeTypes, osVars
<1> QED
  BY <1>1, <1>2, <1>3, KeepsStutters, EnvironmentKeeps, VisitKeeps, SortKeeps, TakeRootKeeps, TreeUserKeeps
  DEF TreeNext, Refresh

\* A sort neither loses nor doubles a process, and a refresh leaves the list with
\* exactly those that its scan has read: ProcessList_sort, ProcessList_buildTree.
THEOREM TreeKeepsAllProcesses == TreeSpec => []TreeKeepsAll
<1>1. KeepsInv => TreeKeepsAll
  <2> SUFFICES ASSUME KeepsInv PROVE TreeKeepsAll
    OBVIOUS
  <2>1. processes \in Seq(Pid) /\ processes2 \in Seq(Pid)
    BY DEF KeepsInv, TreeTypes
  <2>2. /\ ToSet(processes \o processes2) = ToSet(processes) \cup ToSet(processes2)
        /\ IsInjective(processes \o processes2)
    BY <2>1, ConcatFacts DEF KeepsInv
  <2> QED
    BY <2>2 DEF TreeKeepsAll, KeepsInv
<1> QED
  BY <1>1, InitKeeps, NextKeeps, PTL DEF TreeSpec

-----------------------------------------------------------------------------
(* The parents that were read form no circle. *)

\* The entries between the bounds l and r of a bisection, of which rounds are left.
Bounds(b, n) == b \in [l : 0 .. n, r : 0 .. n] /\ b.l <= b.r
Middle(b) == (b.l + b.r) \div 2

LEMMA BisectTurn ==
  ASSUME NEW n \in Nat, Len(processes) = n, NEW b, Bounds(b, n), NEW pid
  PROVE  LET a == BisectOnce(pid, b)
         IN  /\ Bounds(a, n)
             /\ a = b \/ a.r - a.l < b.r - b.l
             /\ a = b => ~(b.l < b.r) \/ (Middle(b) + 1 \in 1 .. n /\ pid = processes[Middle(b) + 1])
<1> DEFINE c == Middle(b)
<1>1. b.l \in 0 .. n /\ b.r \in 0 .. n /\ b.l <= b.r
  BY DEF Bounds
<1>2. c \in Nat /\ (b.l < b.r => b.l <= c /\ c < b.r)
  BY <1>1 DEF Middle
<1> HIDE DEF c
<1>3. CASE ~(b.l < b.r) \/ pid = processes[c + 1]
  <2>1. BisectOnce(pid, b) = b
    BY <1>3 DEF BisectOnce, c, Middle
  <2> QED
    BY <1>1, <1>2, <1>3, <2>1 DEF c
<1>4. CASE b.l < b.r /\ pid # processes[c + 1] /\ pid < processes[c + 1]
  <2>1. BisectOnce(pid, b) = [b EXCEPT !.r = c]
    BY <1>4 DEF BisectOnce, c, Middle
  <2> DEFINE a == [l |-> b.l, r |-> c]
  <2>2. BisectOnce(pid, b) = a
    BY <2>1 DEF Bounds
  <2>3. a.l = b.l /\ a.r = c /\ c \in 0 .. n /\ Bounds(a, n)
    BY <1>1, <1>2, <1>4 DEF Bounds
  <2>4. a.r - a.l < b.r - b.l /\ a # b
    BY <1>1, <1>2, <1>4, <2>3
  <2> HIDE DEF a
  <2> QED
    BY <2>2, <2>3, <2>4
<1>5. CASE b.l < b.r /\ pid # processes[c + 1] /\ ~(pid < processes[c + 1])
  <2>1. BisectOnce(pid, b) = [b EXCEPT !.l = c + 1]
    BY <1>5 DEF BisectOnce, c, Middle
  <2> DEFINE a == [l |-> c + 1, r |-> b.r]
  <2>2. BisectOnce(pid, b) = a
    BY <2>1 DEF Bounds
  <2>3. a.l = c + 1 /\ a.r = b.r /\ c + 1 \in 0 .. n /\ Bounds(a, n)
    BY <1>1, <1>2, <1>5 DEF Bounds
  <2>4. a.r - a.l < b.r - b.l /\ a # b
    BY <1>1, <1>2, <1>5, <2>3
  <2> HIDE DEF a
  <2> QED
    BY <2>2, <2>3, <2>4
<1> QED
  BY <1>3, <1>4, <1>5

\* Where the entry with this pid is, if the bisection is to find it.
Between(b, m) == b.l <= m - 1 /\ m - 1 < b.r

LEMMA BisectFinds ==
  ASSUME NEW n \in Nat, Len(processes) = n, processes \in Seq(Pid), NEW b, Bounds(b, n),
         Increasing(processes), NEW m \in 1 .. n, Between(b, m)
  PROVE  Between(BisectOnce(processes[m], b), m)
<1> DEFINE c == Middle(b)  pid == processes[m]
<1>1. b.l \in 0 .. n /\ b.r \in 0 .. n /\ b.l < b.r
  BY DEF Bounds, Between
<1>2. c \in Nat /\ b.l <= c /\ c < b.r
  BY <1>1 DEF Middle
<1> HIDE DEF c
<1>3. c + 1 \in 1 .. n
  BY <1>1, <1>2
<1>4. \A i, j \in 1 .. n : i < j => processes[i] < processes[j]
  BY DEF Increasing
<1>5. \A i \in 1 .. n : processes[i] \in Nat
  <2>1. \A i \in 1 .. n : processes[i] \in Pid
    OBVIOUS
  <2> QED
    BY <2>1, TreeAssumption
<1> HIDE DEF pid
<1>6. CASE pid = processes[c + 1]
  <2>1. BisectOnce(pid, b) = b
    BY <1>6 DEF BisectOnce, c, Middle
  <2> QED
    BY <2>1 DEF pid
<1>7. CASE pid # processes[c + 1] /\ pid < processes[c + 1]
  <2>1. BisectOnce(pid, b) = [b EXCEPT !.r = c]
    BY <1>1, <1>7 DEF BisectOnce, c, Middle
  <2>2. BisectOnce(pid, b).l = b.l /\ BisectOnce(pid, b).r = c
    BY <2>1 DEF Bounds
  <2>3. ~(c + 1 < m) /\ c + 1 # m
    BY <1>3, <1>4, <1>5, <1>7 DEF pid
  <2> QED
    BY <1>1, <1>2, <2>2, <2>3 DEF Between, pid
<1>8. CASE pid # processes[c + 1] /\ ~(pid < processes[c + 1])
  <2>1. BisectOnce(pid, b) = [b EXCEPT !.l = c + 1]
    BY <1>1, <1>8 DEF BisectOnce, c, Middle
  <2>2. BisectOnce(pid, b).l = c + 1 /\ BisectOnce(pid, b).r = b.r
    BY <2>1 DEF Bounds
  <2>3. ~(m < c + 1) /\ c + 1 # m
    BY <1>3, <1>4, <1>5, <1>8 DEF pid
  <2> QED
    BY <1>1, <1>2, <2>2, <2>3 DEF Between, pid
<1> QED
  BY <1>6, <1>7, <1>8

\* The bisection of a list in order stops at the pids in it, and at no other of any list.
LEMMA BisectIsFound ==
  ASSUME processes \in Seq(Pid), NEW pid
  PROVE  /\ Bisect(pid) => pid \in ToSet(processes)
         /\ Increasing(processes) /\ pid \in ToSet(processes) => Bisect(pid)
<1> DEFINE n == Len(processes)
           S == {b \in [l : 0 .. n, r : 0 .. n] : b.l <= b.r}
           e == [l |-> 0, r |-> n]
           F == [k \in 1 .. n |-> [x \in S |-> BisectOnce(pid, x)]]
           Eq(g) == g = [k \in 0 .. n |-> IF k = 0 THEN [l |-> 0, r |-> Len(processes)] ELSE BisectOnce(pid, g[k - 1])]
           cur == CHOOSE g : Eq(g)
<1>1. n \in Nat /\ ToSet(processes) = {processes[i] : i \in 1 .. n}
  BY SeqFacts
<1>2. Bisect(pid) = (cur[n].l < cur[n].r)
  BY Zenon DEF Bisect
<1> HIDE DEF n
<1>3. e \in S /\ Bounds(e, n) /\ e.l = 0 /\ e.r = n
  BY <1>1 DEF Bounds
<1>4. \A x : Bounds(x, n) <=> x \in S
  BY DEF Bounds
<1> HIDE DEF e, S
<1>5. F \in [1 .. n -> [S -> S]]
  <2>1. ASSUME NEW x \in S PROVE BisectOnce(pid, x) \in S
    BY <1>1, <1>4, BisectTurn DEF n
  <2> QED
    BY <2>1
<1>6. PICK f : IsLoop(f, e, F, S, n)
  <2> HIDE DEF F
  <2> QED
    BY <1>1, <1>3, <1>5, LoopRuns
<1>7. Eq(f)
  <2>1. f \in [0 .. n -> S] /\ f[0] = e /\ \A k \in 1 .. n : f[k] = F[k][f[k - 1]]
    BY <1>6 DEF IsLoop
  <2>2. \A k \in 0 .. n : f[k] = IF k = 0 THEN e ELSE BisectOnce(pid, f[k - 1])
    <3> TAKE k \in 0 .. n
    <3>1. CASE k # 0
      <4>1. k \in 1 .. n /\ k - 1 \in 0 .. n
        BY <1>1, <3>1
      <4>2. f[k] = F[k][f[k - 1]] /\ f[k - 1] \in S
        BY <2>1, <4>1
      <4> QED
        BY <3>1, <4>1, <4>2
    <3> QED
      BY <2>1, <3>1
  <2>3. f = [k \in 0 .. n |-> f[k]]
    BY <2>1
  <2> HIDE DEF F
  <2> QED
    BY <2>2, <2>3, Zenon DEF e, n
<1>8. Eq(cur)
  <2> HIDE DEF Eq
  <2> QED
    BY <1>7, Zenon
<1> HIDE DEF cur, F
<1>9. cur[0] = e /\ \A k \in 1 .. n : cur[k] = BisectOnce(pid, cur[k - 1])
  <2>1. \A k \in 0 .. n : cur[k] = IF k = 0 THEN e ELSE BisectOnce(pid, cur[k - 1])
    BY <1>8, Zenon DEF e, n
  <2>2. \A k \in 1 .. n : k \in 0 .. n /\ k # 0
    BY <1>1
  <2>3. 0 \in 0 .. n
    BY <1>1
  <2> QED
    BY <2>1, <2>2, <2>3, Zenon
<1> DEFINE Found(b) == Middle(b) + 1 \in 1 .. n /\ pid = processes[Middle(b) + 1]
           P == {k \in 0 .. n : Bounds(cur[k], n) /\ (Found(cur[k]) \/ cur[k].r - cur[k].l <= n - k)}
<1>10. 0 \in P
  BY <1>1, <1>3, <1>9
<1>11. ASSUME NEW k \in 1 .. n, k - 1 \in P PROVE k \in P
  <2> DEFINE b == cur[k - 1]  a == BisectOnce(pid, b)
  <2>1. Bounds(b, n) /\ (Found(b) \/ b.r - b.l <= n - (k - 1)) /\ k \in 0 .. n /\ cur[k] = a
    BY <1>1, <1>9, <1>11
  <2> HIDE DEF b, Found
  <2>2. Bounds(a, n) /\ (a = b \/ a.r - a.l < b.r - b.l) /\ (a = b => ~(b.l < b.r) \/ Found(b))
    BY <1>1, <2>1, BisectTurn DEF n, Found
  <2>3. b.l \in 0 .. n /\ b.r \in 0 .. n /\ b.l <= b.r
    BY <2>1 DEF Bounds
  <2>4. a.l \in 0 .. n /\ a.r \in 0 .. n
    BY <2>2 DEF Bounds
  <2>5. CASE Found(b)
    <3>1. a = b
      BY <2>5 DEF BisectOnce, Found, Middle
    <3> QED
      BY <2>1, <2>5, <3>1
  <2>6. CASE ~Found(b)
    <3> HIDE DEF a
    <3>1. a.r - a.l <= n - k
      BY <1>1, <2>1, <2>2, <2>3, <2>4, <2>6
    <3> QED
      BY <2>1, <2>2, <3>1
  <2> QED
    BY <2>5, <2>6
<1>12. \A k \in 0 .. n : k \in P
  <2> HIDE DEF P
  <2> QED
    BY <1>1, <1>10, <1>11, EachTurn
<1>13. n \in 0 .. n
  BY <1>1
<1>14. ASSUME Bisect(pid) PROVE pid \in ToSet(processes)
  <2>1. Bounds(cur[n], n) /\ (Found(cur[n]) \/ cur[n].r - cur[n].l <= n - n)
    BY <1>12, <1>13
  <2>2. cur[n].l \in 0 .. n /\ cur[n].r \in 0 .. n /\ cur[n].l < cur[n].r
    BY <1>2, <1>14, <2>1 DEF Bounds
  <2>3. Found(cur[n])
    BY <1>1, <2>1, <2>2
  <2> QED
    BY <1>1, <2>3
<1>15. ASSUME Increasing(processes), pid \in ToSet(processes) PROVE Bisect(pid)
  <2>1. PICK m \in 1 .. n : pid = processes[m]
    BY <1>1, <1>15
  <2> DEFINE Q == {k \in 0 .. n : Between(cur[k], m)}
  <2>2. 0 \in Q
    BY <1>1, <1>3, <1>9 DEF Between
  <2>3. ASSUME NEW k \in 1 .. n, k - 1 \in Q PROVE k \in Q
    <3>1. k \in 0 .. n /\ k - 1 \in 0 .. n
      BY <1>1
    <3>2. Bounds(cur[k - 1], n) /\ Between(cur[k - 1], m)
      BY <1>12, <2>3, <3>1
    <3>3. Between(BisectOnce(pid, cur[k - 1]), m)
      BY <1>1, <1>15, <2>1, <3>2, BisectFinds DEF n
    <3> QED
      BY <1>9, <3>1, <3>3
  <2>4. n \in Q
    <3> HIDE DEF Q
    <3> QED
      BY <1>1, <1>13, <2>2, <2>3, EachTurn
  <2>5. cur[n].l \in 0 .. n /\ cur[n].r \in 0 .. n /\ cur[n].l <= m - 1 /\ m - 1 < cur[n].r
    BY <1>12, <1>13, <2>4 DEF Bounds, Between
  <2>6. cur[n].l < cur[n].r
    <3> DEFINE l == cur[n].l  r == cur[n].r
    <3>1. l \in Nat /\ r \in Nat /\ l <= m - 1 /\ m - 1 < r /\ m \in Nat
      BY <1>1, <2>5
    <3> HIDE DEF l, r
    <3>2. l < r
      BY <3>1
    <3> QED
      BY <3>2 DEF l, r
  <2> QED
    BY <1>2, <2>6
<1> QED
  BY <1>14, <1>15

\* What a process has above it, as the kernel tells it or as the scan has read it.
OsParent(t, q) == IF t[q].tgid \in {0, q} THEN t[q].ppid ELSE t[q].tgid
Links == [q \in Pid |-> {OsParent(os, q)} \cup (IF q \in seen THEN {ParentPid(q)} ELSE {})]
NoCircle(U) == \A S \in SUBSET Pid : S # {} => \E p \in S : U[p] \cap S = {}
InUse == {q \in Pid : os[q].tgid # 0}

\* A parent, and what a thread belongs to, are processes.
OsWellFormed(t) ==
  /\ t[Reaper] = [ppid |-> 0, tgid |-> Reaper]
  /\ \A p \in Pid : /\ t[p].tgid = 0 => t[p] = Unused
                    /\ t[p].tgid \notin {0, p} => t[p].ppid = 0 /\ t[t[p].tgid].tgid = t[p].tgid
                    /\ t[p].ppid # 0 => t[t[p].ppid].tgid = t[p].ppid

CircleInv ==
  /\ KeepsInv /\ OsWellFormed(os) /\ NoCircle(Links) /\ Links[Reaper] = {0}
  /\ \A q \in seen : q \in InUse \cup freed /\ ParentPid(q) \in InUse \cup freed \cup {0}

\* Links that go, or go on to a process that has none, make no circle.
LEMMA FewerLinks ==
  ASSUME NEW U, NEW V, NEW r \in Pid, NoCircle(U), V[r] \subseteq {0},
         \A p \in Pid : V[p] \subseteq U[p] \cup {0, r}
  PROVE  NoCircle(V)
<1> SUFFICES ASSUME NEW S \in SUBSET Pid, S # {} PROVE \E p \in S : V[p] \cap S = {}
  BY DEF NoCircle
<1>1. 0 \notin S
  BY TreeAssumption
<1>2. CASE r \in S
  <2>1. V[r] \cap S = {}
    BY <1>1
  <2> QED
    BY <1>2, <2>1
<1>3. CASE r \notin S
  <2>1. PICK p \in S : U[p] \cap S = {}
    BY DEF NoCircle
  <2>2. V[p] \subseteq U[p] \cup {0, r}
    OBVIOUS
  <2>3. V[p] \cap S = {}
    BY <1>1, <1>3, <2>1, <2>2
  <2> QED
    BY <2>3
<1> QED
  BY <1>2, <1>3

\* A process to which nothing is linked can have a link.
LEMMA OneMoreLink ==
  ASSUME NEW U, NEW V, NEW q \in Pid, NEW p, p # q, NoCircle(U), V[q] = {p},
         \A x \in Pid \ {q} : V[x] = U[x] /\ q \notin U[x]
  PROVE  NoCircle(V)
<1> SUFFICES ASSUME NEW S \in SUBSET Pid, S # {} PROVE \E x \in S : V[x] \cap S = {}
  BY DEF NoCircle
<1>1. CASE S = {q}
  BY <1>1
<1>2. CASE S # {q}
  <2>1. S \ {q} \in SUBSET Pid /\ S \ {q} # {}
    BY <1>2
  <2>2. PICK x \in S \ {q} : U[x] \cap (S \ {q}) = {}
    BY <2>1 DEF NoCircle
  <2>3. V[x] = U[x] /\ q \notin U[x]
    BY <2>2
  <2> QED
    BY <2>2, <2>3
<1> QED
  BY <1>1, <1>2

LEMMA InitNoCircle ==
  ASSUME TreeInit
  PROVE  CircleInv
<1>1. KeepsInv
  BY InitKeeps
<1>2. /\ os \in OsTable /\ seen = {} /\ os \in [Pid -> [ppid : Pid \cup {0}, tgid : Pid \cup {0}]]
  BY DEF TreeInit, OsTable
<1>3. OsWellFormed(os)
  BY <1>2 DEF OsTable, OsWellFormed
<1>4. \A p \in Pid : os[p].ppid # 0 => p \notin Ancestors(os, os[p].ppid)
  BY <1>2 DEF OsTable
<1>5. \A p \in Pid : Links[p] = {OsParent(os, p)}
  BY <1>2 DEF Links
<1>6. Pid \subseteq Nat \ {0} /\ IsFiniteSet(Pid) /\ Reaper \in Pid
  BY TreeAssumption
<1>7. Links[Reaper] = {0}
  BY <1>3, <1>5, <1>6 DEF OsParent, OsWellFormed
<1>8. ASSUME NEW S \in SUBSET Pid, S # {} PROVE \E p \in S : OsParent(os, p) \notin S
  <2> DEFINE L == {p \in S : os[p].tgid \in {0, p}}
  <2>1. CASE L = {}
    <3>1. PICK p \in S : TRUE
      BY <1>8
    <3>2. os[p].tgid \notin {0, p}
      BY <2>1, <3>1
    <3>3. OsParent(os, p) = os[p].tgid /\ os[os[p].tgid].tgid = os[p].tgid
      BY <1>3, <3>2 DEF OsParent, OsWellFormed
    <3>4. OsParent(os, p) \notin S
      BY <2>1, <3>3
    <3> QED
      BY <3>4
  <2>2. CASE L # {}
    <3> DEFINE Up(p) == Ancestors(os, p)
    <3>1. \A q \in Pid : os[q].ppid \in Pid \cup {0}
      BY <1>2
    <3>2. ASSUME NEW p \in Pid
          PROVE  /\ p \in Up(p) /\ IsFiniteSet(Up(p)) /\ Cardinality(Up(p)) \in Nat
                 /\ \A q \in Up(p) \cap Pid : os[q].ppid \in Up(p)
                 /\ \A T : p \in T /\ (\A q \in T \cap Pid : os[q].ppid \in T) => Up(p) \subseteq T
      <4>1. /\ p \in Up(p) /\ Up(p) \subseteq Pid \cup {0}
            /\ \A q \in Up(p) \cap Pid : os[q].ppid \in Up(p)
            /\ \A T : p \in T /\ (\A q \in T \cap Pid : os[q].ppid \in T) => Up(p) \subseteq T
        BY <3>1, AncestorsAre
      <4>2. IsFiniteSet(Pid \cup {0})
        BY <1>6, FS_AddElement
      <4> QED
        BY <4>1, <4>2, FS_Subset, FS_CardinalityType
    <3> HIDE DEF Up
    <3> DEFINE Sizes == {Cardinality(Up(p)) : p \in L}
    <3>3. \E m \in Sizes : \A k \in Sizes : m <= k
      <4>1. Sizes \in SUBSET Nat /\ Sizes # {}
        BY <2>2, <3>2
      <4> HIDE DEF Sizes
      <4> QED
        BY <4>1, LeastNat
    <3>4. PICK p \in L : \A q \in L : Cardinality(Up(p)) <= Cardinality(Up(q))
      BY <3>3
    <3>5. OsParent(os, p) = os[p].ppid
      BY DEF OsParent
    <3> DEFINE x == os[p].ppid
    <3>6. ASSUME x \in S PROVE FALSE
      <4>1. x # 0 /\ os[x].tgid = x /\ p \in Pid /\ x \in Pid
        BY <1>3, <1>6, <3>6 DEF OsWellFormed
      <4>2. x \in L
        BY <3>6, <4>1
      <4>3. p \notin Up(x)
        BY <1>4, <4>1 DEF Up
      <4>4. x \in Up(p) /\ p \in Up(p)
        BY <3>2, <4>1
      <4>5. Up(x) \subseteq Up(p)
        BY <3>2, <4>1, <4>4
      <4> HIDE DEF x
      <4>6. IsFiniteSet(Up(p)) /\ Cardinality(Up(p)) \in Nat /\ Cardinality(Up(x)) \in Nat
        BY <3>2, <4>1
      <4>7. Cardinality(Up(x)) <= Cardinality(Up(p))
            /\ (Cardinality(Up(p)) = Cardinality(Up(x)) => Up(p) = Up(x))
        BY <4>5, <4>6, FS_Subset
      <4>8. Cardinality(Up(p)) <= Cardinality(Up(x))
        BY <3>4, <4>2
      <4>9. Cardinality(Up(p)) = Cardinality(Up(x))
        BY <4>6, <4>7, <4>8
      <4> QED
        BY <4>3, <4>4, <4>7, <4>9
    <3> QED
      BY <3>5, <3>6
  <2> QED
    BY <2>1, <2>2
<1>9. NoCircle(Links)
  <2> SUFFICES ASSUME NEW S \in SUBSET Pid, S # {} PROVE \E p \in S : Links[p] \cap S = {}
    BY DEF NoCircle
  <2>1. PICK p \in S : OsParent(os, p) \notin S
    BY <1>8
  <2>2. Links[p] = {OsParent(os, p)}
    BY <1>5
  <2> QED
    BY <2>1, <2>2
<1> QED
  BY <1>1, <1>2, <1>3, <1>7, <1>9 DEF CircleInv

LEMMA LinksFacts ==
  ASSUME CircleInv
  PROVE  /\ Pid \subseteq Nat \ {0} /\ Reaper \in Pid /\ seen \subseteq Pid /\ freed \subseteq Pid
         /\ os \in [Pid -> [ppid : Pid \cup {0}, tgid : Pid \cup {0}]]
         /\ \A q \in Pid : Links[q] = {OsParent(os, q)} \cup (IF q \in seen THEN {ParentPid(q)} ELSE {})
         /\ \A q \in Pid : OsParent(os, q) \in InUse \cup {0}
         /\ OsParent(os, Reaper) = 0
<1>1. /\ Pid \subseteq Nat \ {0} /\ Reaper \in Pid /\ seen \subseteq Pid /\ freed \subseteq Pid
      /\ os \in [Pid -> [ppid : Pid \cup {0}, tgid : Pid \cup {0}]]
  BY TreeAssumption DEF CircleInv, KeepsInv, TreeTypes
<1>2. \A q \in Pid : OsParent(os, q) \in InUse \cup {0}
  <2> TAKE q \in Pid
  <2>1. CASE os[q].tgid \in {0, q}
    <3>1. OsParent(os, q) = os[q].ppid /\ os[q].ppid \in Pid \cup {0}
      BY <1>1, <2>1 DEF OsParent
    <3>2. os[q].ppid # 0 => os[os[q].ppid].tgid = os[q].ppid
      BY DEF CircleInv, OsWellFormed
    <3> QED
      BY <3>1, <3>2 DEF InUse
  <2>2. CASE os[q].tgid \notin {0, q}
    <3>1. OsParent(os, q) = os[q].tgid /\ os[q].tgid \in Pid \cup {0}
      BY <1>1, <2>2 DEF OsParent
    <3>2. os[os[q].tgid].tgid = os[q].tgid
      BY <2>2 DEF CircleInv, OsWellFormed
    <3> QED
      BY <2>2, <3>1, <3>2 DEF InUse
  <2> QED
    BY <2>1, <2>2
<1>3. OsParent(os, Reaper) = 0
  BY <1>1 DEF CircleInv, OsWellFormed, OsParent
<1>4. \A q \in Pid : Links[q] = {OsParent(os, q)} \cup (IF q \in seen THEN {ParentPid(q)} ELSE {})
  BY DEF Links
<1> QED
  BY <1>1, <1>2, <1>3, <1>4

\* What a step leaves as it is that changes neither the table nor what was read of it.
LEMMA QuietCircle ==
  ASSUME CircleInv, KeepsInv', os' = os, seen' \subseteq seen,
         freed' = freed \/ seen' = {},
         \A q \in Pid : ps'[q].ppid = ps[q].ppid /\ ps'[q].tgid = ps[q].tgid
  PROVE  CircleInv'
<1>1. \A q \in Pid : ParentPid(q)' = ParentPid(q)
  BY DEF ParentPid
<1>2. InUse' = InUse
  BY DEF InUse
<1> DEFINE V == Links'
<1>3. \A q \in Pid : V[q] = {OsParent(os, q)} \cup (IF q \in seen' THEN {ParentPid(q)} ELSE {})
  BY <1>1 DEF Links
<1>4. /\ Reaper \in Pid /\ seen \subseteq Pid /\ OsParent(os, Reaper) = 0
      /\ \A q \in Pid : Links[q] = {OsParent(os, q)} \cup (IF q \in seen THEN {ParentPid(q)} ELSE {})
  BY LinksFacts
<1>5. Links[Reaper] = {0} /\ NoCircle(Links) /\ OsWellFormed(os)
      /\ \A q \in seen : q \in InUse \cup freed /\ ParentPid(q) \in InUse \cup freed \cup {0}
  BY DEF CircleInv
<1> HIDE DEF V
<1>6. V[Reaper] = {0} /\ \A p \in Pid : V[p] \subseteq Links[p] \cup {0, Reaper}
  BY <1>3, <1>4, <1>5
<1>7. NoCircle(V)
  BY <1>4, <1>5, <1>6, FewerLinks
<1>8. \A q \in seen' : q \in (InUse \cup freed)' /\ ParentPid(q)' \in (InUse \cup freed \cup {0})'
  BY <1>1, <1>2, <1>4, <1>5
<1> QED
  BY <1>5, <1>6, <1>7, <1>8 DEF CircleInv, V

LEMMA ForkCircle ==
  ASSUME CircleInv, KeepsInv', Fork, ~PidReuse
  PROVE  CircleInv'
<1>1. PICK p \in Pid, q \in Pid :
        /\ os[p].tgid = p /\ os[q].tgid = 0 /\ q \notin freed
        /\ os' = [os EXCEPT ![q] = [ppid |-> p, tgid |-> q]]
             \/ os' = [os EXCEPT ![q] = [ppid |-> 0, tgid |-> p]]
        /\ UNCHANGED <<freed, ps, seen>>
  BY TreeAssumption DEF Fork, OsChange, IsLeader, listVars, scanVars
<1>2. /\ Pid \subseteq Nat \ {0} /\ Reaper \in Pid /\ seen \subseteq Pid /\ freed \subseteq Pid
      /\ os \in [Pid -> [ppid : Pid \cup {0}, tgid : Pid \cup {0}]]
      /\ \A x \in Pid : Links[x] = {OsParent(os, x)} \cup (IF x \in seen THEN {ParentPid(x)} ELSE {})
      /\ \A x \in Pid : OsParent(os, x) \in InUse \cup {0}
      /\ OsParent(os, Reaper) = 0
  BY LinksFacts
<1>3. Links[Reaper] = {0} /\ NoCircle(Links) /\ OsWellFormed(os)
      /\ \A x \in seen : x \in InUse \cup freed /\ ParentPid(x) \in InUse \cup freed \cup {0}
  BY DEF CircleInv
<1>4. q \notin InUse /\ q # p /\ q # Reaper /\ q \notin seen
  <2>1. q \notin InUse /\ q # p
    BY <1>1, <1>2 DEF InUse
  <2>2. os[Reaper].tgid = Reaper
    BY <1>3 DEF OsWellFormed
  <2> QED
    BY <1>1, <1>2, <1>3, <2>1, <2>2
<1>5. /\ \A x \in Pid \ {q} : os'[x] = os[x]
      /\ os'[q] = [ppid |-> p, tgid |-> q] \/ os'[q] = [ppid |-> 0, tgid |-> p]
  BY <1>1, <1>2
<1>6. InUse' = InUse \cup {q}
  <2>1. os'[q].tgid # 0
    BY <1>1, <1>2, <1>5
  <2> QED
    BY <1>5, <2>1 DEF InUse
<1>7. \A x : ParentPid(x)' = ParentPid(x)
  BY <1>1 DEF ParentPid
<1> DEFINE V == Links'
<1>8. /\ \A x \in Pid \ {q} : V[x] = Links[x]
      /\ V[q] = {p}
  <2>1. \A x \in Pid : V[x] = {OsParent(os', x)} \cup (IF x \in seen THEN {ParentPid(x)} ELSE {})
    BY <1>1, <1>7 DEF Links
  <2>2. \A x \in Pid \ {q} : OsParent(os', x) = OsParent(os, x)
    BY <1>5 DEF OsParent
  <2>3. OsParent(os', q) = p
    BY <1>1, <1>2, <1>4, <1>5 DEF OsParent
  <2> HIDE DEF V
  <2> QED
    BY <1>2, <1>4, <2>1, <2>2, <2>3
<1> HIDE DEF V
<1>9. \A x \in Pid \ {q} : q \notin Links[x]
  <2> SUFFICES ASSUME NEW x \in Pid, q \in Links[x] PROVE FALSE
    OBVIOUS
  <2>1. q # 0 /\ OsParent(os, x) # q
    BY <1>2, <1>4
  <2>2. x \in seen /\ q = ParentPid(x)
    BY <1>2, <2>1
  <2> QED
    BY <1>1, <1>3, <1>4, <2>1, <2>2
<1>10. NoCircle(V)
  BY <1>3, <1>4, <1>8, <1>9, OneMoreLink
<1>11. OsWellFormed(os')
  <2>1. os'[Reaper] = [ppid |-> 0, tgid |-> Reaper]
    BY <1>2, <1>3, <1>4, <1>5 DEF OsWellFormed
  <2>2. ASSUME NEW x \in Pid
        PROVE  /\ os'[x].tgid = 0 => os'[x] = Unused
               /\ os'[x].tgid \notin {0, x} => os'[x].ppid = 0 /\ os'[os'[x].tgid].tgid = os'[x].tgid
               /\ os'[x].ppid # 0 => os'[os'[x].ppid].tgid = os'[x].ppid
    <3>1. os'[p] = os[p]
      BY <1>4, <1>5
    <3>2. CASE x = q
      BY <1>1, <1>2, <1>4, <1>5, <3>1, <3>2
    <3>3. CASE x # q
      <4>1. os'[x] = os[x]
        BY <1>5, <3>3
      <4>2. /\ os[x].tgid = 0 => os[x] = Unused
            /\ os[x].tgid \notin {0, x} => os[x].ppid = 0 /\ os[os[x].tgid].tgid = os[x].tgid
            /\ os[x].ppid # 0 => os[os[x].ppid].tgid = os[x].ppid
        BY <1>3 DEF OsWellFormed
      <4>3. os[x].ppid \in Pid \cup {0} /\ os[x].tgid \in Pid \cup {0}
        BY <1>2
      <4>4. os[x].ppid # q /\ (os[x].tgid \notin {0, x} => os[x].tgid # q)
        BY <1>1, <1>2, <4>2
      <4> QED
        BY <1>5, <4>1, <4>2, <4>3, <4>4
    <3> QED
      BY <3>2, <3>3
  <2> QED
    BY <2>1, <2>2 DEF OsWellFormed
<1>12. \A x \in seen' : x \in (InUse \cup freed)' /\ ParentPid(x)' \in (InUse \cup freed \cup {0})'
  BY <1>1, <1>3, <1>6, <1>7
<1>13. V[Reaper] = {0}
  BY <1>2, <1>3, <1>4, <1>8
<1> QED
  BY <1>10, <1>11, <1>12, <1>13 DEF CircleInv, V

LEMMA ExitCircle ==
  ASSUME CircleInv, KeepsInv', Exit
  PROVE  CircleInv'
<1>1. PICK p \in Pid \ {Reaper} :
        /\ os[p].tgid = p
        /\ os' = [q \in Pid |-> IF os[q].tgid = p THEN Unused
                                ELSE IF os[q].ppid = p THEN [os[q] EXCEPT !.ppid = Reaper]
                                ELSE os[q]]
        /\ freed' = freed \cup {q \in Pid : os[q].tgid = p}
        /\ UNCHANGED <<ps, seen>>
  BY DEF Exit, OsChange, IsLeader, listVars, scanVars
<1>2. /\ Pid \subseteq Nat \ {0} /\ Reaper \in Pid /\ seen \subseteq Pid /\ freed \subseteq Pid
      /\ os \in [Pid -> [ppid : Pid \cup {0}, tgid : Pid \cup {0}]]
      /\ \A x \in Pid : Links[x] = {OsParent(os, x)} \cup (IF x \in seen THEN {ParentPid(x)} ELSE {})
      /\ \A x \in Pid : OsParent(os, x) \in InUse \cup {0}
      /\ OsParent(os, Reaper) = 0
  BY LinksFacts
<1>3. Links[Reaper] = {0} /\ NoCircle(Links) /\ OsWellFormed(os)
      /\ \A x \in seen : x \in InUse \cup freed /\ ParentPid(x) \in InUse \cup freed \cup {0}
  BY DEF CircleInv
<1>4. ASSUME NEW q \in Pid
      PROVE  /\ os[q].tgid = p => os'[q] = Unused /\ os'[q].ppid = 0 /\ os'[q].tgid = 0
             /\ os[q].tgid # p => /\ os'[q].tgid = os[q].tgid
                                  /\ os'[q].ppid = IF os[q].ppid = p THEN Reaper ELSE os[q].ppid
                                  /\ os[q].ppid # p => os'[q] = os[q]
  <2>1. os[q] \in [ppid : Pid \cup {0}, tgid : Pid \cup {0}]
    BY <1>2
  <2>2. CASE os[q].tgid = p
    BY <1>1, <2>2 DEF Unused
  <2>3. CASE os[q].tgid # p /\ os[q].ppid = p
    <3>1. os'[q] = [os[q] EXCEPT !.ppid = Reaper]
      BY <1>1, <2>3
    <3> QED
      BY <2>1, <2>3, <3>1
  <2>4. CASE os[q].tgid # p /\ os[q].ppid # p
    BY <1>1, <2>4
  <2> QED
    BY <2>2, <2>3, <2>4
<1>5. InUse = {q \in Pid : os[q].tgid # 0} /\ InUse' = {q \in Pid : os[q].tgid # 0 /\ os[q].tgid # p}
  BY <1>2, <1>4 DEF InUse
<1>6. \A x : ParentPid(x)' = ParentPid(x)
  BY <1>1 DEF ParentPid
<1> DEFINE V == Links'
<1>7. \A x \in Pid : V[x] \subseteq Links[x] \cup {0, Reaper}
  <2>1. \A x \in Pid : V[x] = {OsParent(os', x)} \cup (IF x \in seen THEN {ParentPid(x)} ELSE {})
    BY <1>1, <1>6 DEF Links
  <2>2. ASSUME NEW x \in Pid PROVE OsParent(os', x) \in {OsParent(os, x), 0, Reaper}
    BY <1>4 DEF OsParent
  <2> HIDE DEF V
  <2> TAKE x \in Pid
  <2>3. V[x] = {OsParent(os', x)} \cup (IF x \in seen THEN {ParentPid(x)} ELSE {})
    BY <2>1
  <2>4. Links[x] = {OsParent(os, x)} \cup (IF x \in seen THEN {ParentPid(x)} ELSE {})
    BY <1>2
  <2>5. OsParent(os', x) \in {OsParent(os, x), 0, Reaper}
    BY <2>2
  <2> QED
    BY <2>3, <2>4, <2>5
<1>8. os[Reaper].tgid = Reaper /\ os[Reaper].ppid = 0
  BY <1>3 DEF OsWellFormed
<1>9. os'[Reaper] = os[Reaper]
  BY <1>1, <1>2, <1>4, <1>8
<1>10. V[Reaper] = {0}
  <2>1. V[Reaper] = {OsParent(os', Reaper)} \cup (IF Reaper \in seen THEN {ParentPid(Reaper)} ELSE {})
    BY <1>1, <1>2, <1>6 DEF Links
  <2>2. OsParent(os', Reaper) = OsParent(os, Reaper)
    BY <1>9 DEF OsParent
  <2> HIDE DEF V
  <2> QED
    BY <1>2, <1>3, <2>1, <2>2
<1> HIDE DEF V
<1>11. NoCircle(V)
  BY <1>2, <1>3, <1>7, <1>10, FewerLinks
<1>12. OsWellFormed(os')
  <2>1. os'[Reaper] = [ppid |-> 0, tgid |-> Reaper]
    BY <1>3, <1>9 DEF OsWellFormed
  <2>2. ASSUME NEW x \in Pid
        PROVE  /\ os'[x].tgid = 0 => os'[x] = Unused
               /\ os'[x].tgid \notin {0, x} => os'[x].ppid = 0 /\ os'[os'[x].tgid].tgid = os'[x].tgid
               /\ os'[x].ppid # 0 => os'[os'[x].ppid].tgid = os'[x].ppid
    <3>1. /\ os[x].tgid = 0 => os[x] = Unused
          /\ os[x].tgid \notin {0, x} => os[x].ppid = 0 /\ os[os[x].tgid].tgid = os[x].tgid
          /\ os[x].ppid # 0 => os[os[x].ppid].tgid = os[x].ppid
      BY <1>3 DEF OsWellFormed
    <3>2. os[x].ppid \in Pid \cup {0} /\ os[x].tgid \in Pid \cup {0}
      BY <1>2
    <3>3. CASE os[x].tgid = p
      BY <1>4, <3>3
    <3>4. CASE os[x].tgid # p
      <4>1. /\ os'[x].tgid = os[x].tgid
            /\ os'[x].ppid = IF os[x].ppid = p THEN Reaper ELSE os[x].ppid
            /\ os[x].ppid # p => os'[x] = os[x]
        BY <1>4, <3>4
      <4>2. os'[x].tgid = 0 => os'[x] = Unused
        BY <1>2, <3>1, <4>1 DEF Unused
      <4>3. ASSUME os'[x].tgid \notin {0, x}
            PROVE os'[x].ppid = 0 /\ os'[os'[x].tgid].tgid = os'[x].tgid
        <5>1. os[x].ppid = 0 /\ os[os[x].tgid].tgid = os[x].tgid /\ os[x].tgid \in Pid
          BY <3>1, <3>2, <4>1, <4>3
        <5>2. os'[os[x].tgid].tgid = os[os[x].tgid].tgid
          BY <1>4, <3>4, <5>1
        <5> QED
          BY <1>2, <4>1, <5>1, <5>2
      <4>4. ASSUME os'[x].ppid # 0 PROVE os'[os'[x].ppid].tgid = os'[x].ppid
        <5>1. CASE os[x].ppid = p
          BY <1>8, <1>9, <4>1, <5>1
        <5>2. CASE os[x].ppid # p
          <6>1. os'[x].ppid = os[x].ppid /\ os[os[x].ppid].tgid = os[x].ppid /\ os[x].ppid \in Pid
            BY <3>1, <3>2, <4>1, <4>4, <5>2
          <6>2. os'[os[x].ppid].tgid = os[os[x].ppid].tgid
            BY <1>4, <5>2, <6>1
          <6> QED
            BY <6>1, <6>2
        <5> QED
          BY <5>1, <5>2
      <4> QED
        BY <4>2, <4>3, <4>4
    <3> QED
      BY <3>3, <3>4
  <2> QED
    BY <2>1, <2>2 DEF OsWellFormed
<1>13. InUse \cup freed \subseteq (InUse \cup freed)'
  BY <1>1, <1>5
<1>14. \A x \in seen' : x \in (InUse \cup freed)' /\ ParentPid(x)' \in (InUse \cup freed \cup {0})'
  BY <1>1, <1>3, <1>6, <1>13
<1> QED
  BY <1>10, <1>11, <1>12, <1>14 DEF CircleInv, V

\* What is read of a process is what the kernel tells of it at that time.
LEMMA VisitCircle ==
  ASSUME CircleInv, KeepsInv', Visit
  PROVE  CircleInv'
<1>1. PICK p \in todo : LET read == {q \in Pid : IsLeader(p) /\ os[q].tgid = p}
        IN  /\ seen' = seen \cup read
            /\ \E hidden \in SUBSET read :
                 ps' = [q \in Pid |->
                    IF q \notin read THEN ps[q]
                    ELSE [IF q \in ToSet(processes) THEN ps[q] ELSE New EXCEPT
                            !.ppid = os[q].ppid, !.tgid = p, !.show = q \notin hidden]]
            /\ UNCHANGED osVars
  BY Zenon DEF Visit
<1> DEFINE read == {q \in Pid : IsLeader(p) /\ os[q].tgid = p}
<1>2. PICK hidden : ps' = [q \in Pid |->
                    IF q \notin read THEN ps[q]
                    ELSE [IF q \in ToSet(processes) THEN ps[q] ELSE New EXCEPT
                            !.ppid = os[q].ppid, !.tgid = p, !.show = q \notin hidden]]
  BY <1>1
<1>3. seen' = seen \cup read /\ os' = os /\ freed' = freed
  BY <1>1 DEF osVars
<1>4. /\ Pid \subseteq Nat \ {0} /\ Reaper \in Pid /\ seen \subseteq Pid /\ freed \subseteq Pid
      /\ os \in [Pid -> [ppid : Pid \cup {0}, tgid : Pid \cup {0}]]
      /\ \A x \in Pid : Links[x] = {OsParent(os, x)} \cup (IF x \in seen THEN {ParentPid(x)} ELSE {})
      /\ \A x \in Pid : OsParent(os, x) \in InUse \cup {0}
      /\ OsParent(os, Reaper) = 0
  BY LinksFacts
<1>5. Links[Reaper] = {0} /\ NoCircle(Links) /\ OsWellFormed(os)
      /\ \A x \in seen : x \in InUse \cup freed /\ ParentPid(x) \in InUse \cup freed \cup {0}
  BY DEF CircleInv
<1>6. p \in Pid /\ ps \in [Pid -> Process]
  BY DEF CircleInv, KeepsInv, TreeTypes
<1>7. /\ \A q \in Pid \ read : ps'[q] = ps[q]
      /\ \A q \in read : /\ ps'[q].tgid = os[q].tgid /\ ps'[q].ppid = os[q].ppid /\ os[q].tgid = p
  <2>1. \A q \in Pid \ read : ps'[q] = ps[q]
    BY <1>2
  <2>2. ASSUME NEW q \in read
        PROVE  ps'[q].tgid = os[q].tgid /\ ps'[q].ppid = os[q].ppid /\ os[q].tgid = p
    <3> DEFINE was == IF q \in ToSet(processes) THEN ps[q] ELSE New
               row == [was EXCEPT !.ppid = os[q].ppid, !.tgid = p, !.show = q \notin hidden]
    <3>1. was \in Process
      BY <1>6 DEF New, Process
    <3>2. ps'[q] = row
      BY <1>2, <2>2
    <3> HIDE DEF was
    <3>3. row.tgid = p /\ row.ppid = os[q].ppid
      BY <3>1 DEF Process
    <3> QED
      BY <2>2, <3>2, <3>3
  <2> QED
    BY <2>1, <2>2
<1>8. read \subseteq Pid /\ read \subseteq InUse
  BY <1>4, <1>6 DEF InUse
<1> HIDE DEF read
<1>9. InUse' = InUse
  BY <1>3 DEF InUse
<1>10. /\ \A q \in Pid \ read : ParentPid(q)' = ParentPid(q)
       /\ \A q \in read : ParentPid(q)' = OsParent(os, q)
  <2>1. \A q \in Pid \ read : ParentPid(q)' = ParentPid(q)
    BY <1>7 DEF ParentPid
  <2>2. ASSUME NEW q \in read PROVE ParentPid(q)' = OsParent(os, q)
    <3>1. ps'[q].tgid = os[q].tgid /\ ps'[q].ppid = os[q].ppid /\ os[q].tgid = p /\ p # 0
      BY <1>4, <1>6, <1>7
    <3>2. ParentPid(q)' = IF ps'[q].tgid = q THEN ps'[q].ppid ELSE ps'[q].tgid
      BY DEF ParentPid
    <3>3. OsParent(os, q) = IF os[q].tgid \in {0, q} THEN os[q].ppid ELSE os[q].tgid
      BY DEF OsParent
    <3> QED
      BY <3>1, <3>2, <3>3
  <2> QED
    BY <2>1, <2>2
<1> DEFINE V == Links'
<1>11. \A x \in Pid : V[x] = {OsParent(os, x)} \cup (IF x \in seen \cup read THEN {ParentPid(x)'} ELSE {})
  BY <1>3 DEF Links
<1> HIDE DEF V
<1>12. ASSUME NEW x \in Pid PROVE V[x] \subseteq Links[x] /\ V[x] # {}
  <2>1. V[x] = {OsParent(os, x)} \cup (IF x \in seen \cup read THEN {ParentPid(x)'} ELSE {})
    BY <1>11
  <2>2. Links[x] = {OsParent(os, x)} \cup (IF x \in seen THEN {ParentPid(x)} ELSE {})
    BY <1>4
  <2>3. CASE x \in read
    BY <1>10, <2>1, <2>2, <2>3
  <2>4. CASE x \notin read
    BY <1>10, <2>1, <2>2, <2>4
  <2> QED
    BY <2>3, <2>4
<1>13. NoCircle(V) /\ V[Reaper] = {0}
  <2>1. V[Reaper] = {0}
    BY <1>4, <1>5, <1>12
  <2> QED
    BY <1>4, <1>5, <1>12, <2>1, FewerLinks
<1>14. ASSUME NEW x \in seen'
       PROVE  x \in (InUse \cup freed)' /\ ParentPid(x)' \in (InUse \cup freed \cup {0})'
  <2>1. CASE x \in read
    BY <1>3, <1>4, <1>8, <1>9, <1>10, <2>1
  <2>2. CASE x \notin read
    BY <1>3, <1>4, <1>5, <1>9, <1>10, <2>2
  <2> QED
    BY <2>1, <2>2
<1> QED
  BY <1>3, <1>5, <1>13, <1>14 DEF CircleInv, V

LEMMA NextCircle ==
  ASSUME CircleInv, [TreeNext]_treeVars, ~PidReuse
  PROVE  CircleInv'
<1>1. KeepsInv /\ KeepsInv'
  BY NextKeeps DEF CircleInv
<1>2. CASE UNCHANGED treeVars \/ EndScan \/ StartSort \/ EndSort \/ InvertSortOrder \/ StartScan
  BY <1>1, <1>2, QuietCircle
  DEF treeVars, osVars, listVars, scanVars, EndScan, StartSort, EndSort, InvertSortOrder, StartScan
<1>3. CASE TakeRoot
  <2>1. PICK i, p, c, r : IsRootCall(c, i, p) /\ r = BuildTree(c) /\ TookRoot(c, r, p)
    BY <1>1, <1>3, TakeRootFacts
  <2>2. SameData(c.b.ps, ps) /\ SameData(ps', c.b.ps)
    BY <2>1 DEF IsRootCall, TookRoot, Moved
  <2>3. \A q \in Pid : ps'[q].ppid = ps[q].ppid /\ ps'[q].tgid = ps[q].tgid
    BY <2>2 DEF SameData
  <2>4. os' = os /\ freed' = freed /\ seen' = seen
    BY <1>3 DEF TakeRoot, osVars, scanVars
  <2> QED
    BY <1>1, <2>3, <2>4, QuietCircle
<1>4. CASE Toggle \/ CollapseIntoParent \/ ExpandTree
  <2>1. ps \in [Pid -> Process]
    BY <1>1 DEF KeepsInv, TreeTypes
  <2>2. \A q \in Pid : ps'[q].ppid = ps[q].ppid /\ ps'[q].tgid = ps[q].tgid
    <3>1. CASE Toggle
      <4>1. PICK x : ps' = [ps EXCEPT ![x].showChildren = ~@]
        BY <3>1 DEF Toggle, Expanded
      <4> QED
        BY <2>1, <4>1 DEF Process
    <3>2. CASE CollapseIntoParent
      <4>1. PICK x : ps' = [ps EXCEPT ![x].showChildren = FALSE]
        BY <3>2 DEF CollapseIntoParent, Expanded
      <4> QED
        BY <2>1, <4>1 DEF Process
    <3>3. CASE ExpandTree
      <4>1. ps' = [p \in Pid |-> [ps[p] EXCEPT !.showChildren = @ \/ p \in ToSet(processes)]]
        BY <3>3 DEF ExpandTree, Expanded
      <4> QED
        BY <2>1, <4>1 DEF Process
    <3> QED
      BY <1>4, <3>1, <3>2, <3>3
  <2>3. os' = os /\ freed' = freed /\ seen' = seen
    BY <1>4 DEF Toggle, CollapseIntoParent, ExpandTree, Expanded, osVars
  <2> QED
    BY <1>1, <2>2, <2>3, QuietCircle
<1> QED
  BY <1>1, <1>2, <1>3, <1>4, ForkCircle, ExitCircle, VisitCircle
  DEF TreeNext, Environment, Refresh, UserKey

\* If no pid is handed out twice while a scan is on, every round of ProcessList_sort
\* finds a root: there is no loop in what it has read (ProcessList.c, the assertion).
THEOREM TreeHasNoLoop ==
  ASSUME ~PidReuse
  PROVE  TreeSpec => []NoLoopInTree
<1>1. CircleInv => NoLoopInTree
  <2> SUFFICES ASSUME CircleInv, phase = "tree", processes # << >>,
                      \A i \in DOMAIN processes : ~IsRoot(processes[i])
               PROVE  FALSE
    BY DEF NoLoopInTree
  <2> DEFINE S == ToSet(processes)
  <2>1. processes \in Seq(Pid) /\ S \subseteq seen /\ ps \in [Pid -> Process] /\ seen \subseteq Pid
    BY DEF CircleInv, KeepsInv, TreeTypes
  <2>2. S \in SUBSET Pid /\ S # {}
    <3>1. Len(processes) \in Nat /\ Len(processes) # 0
      BY <2>1
    <3>2. 1 \in 1 .. Len(processes) /\ S = {processes[i] : i \in 1 .. Len(processes)}
      BY <2>1, <3>1, SeqFacts
    <3> QED
      BY <2>1, <3>2
  <2>3. PICK p \in S : Links[p] \cap S = {}
    <3> HIDE DEF S
    <3> QED
      BY <2>2 DEF CircleInv, NoCircle
  <2>4. ParentPid(p) \in Links[p]
    BY <2>1, <2>3 DEF Links
  <2>5. ~IsRoot(p)
    BY <2>3 DEF ToSet
  <2>6. ParentPid(p) \in S
    BY <2>1, <2>5, BisectIsFound DEF IsRoot
  <2> QED
    BY <2>3, <2>4, <2>6
<1> QED
  BY <1>1, InitNoCircle, NextCircle, PTL DEF TreeSpec

-----------------------------------------------------------------------------
(* The forest of the parents that were read. *)

Forest == [q \in seen |-> [ppid |-> Parent(q)]]

\* What is above a process, one after the other.
ForestFact(p) ==
  /\ Above(p) \subseteq seen \ {p} /\ Depth(p) \in Nat
  /\ Parent(p) = 0 => Above(p) = {} /\ Depth(p) = 0
  /\ Parent(p) # 0 => /\ Parent(p) \in seen /\ Parent(p) = ParentPid(p)
                      /\ Above(p) = Above(Parent(p)) \cup {Parent(p)}
                      /\ Depth(p) = Depth(Parent(p)) + 1
  /\ \A q \in Above(p) : Above(q) \subseteq Above(p)

LEMMA ForestIs ==
  ASSUME CircleInv
  PROVE  \A p \in seen : ForestFact(p)
<1> DEFINE A(p) == Ancestors(Forest, p)
<1>1. /\ seen \in SUBSET Pid /\ 0 \notin Pid /\ IsFiniteSet(Pid)
      /\ \A q \in seen : ParentPid(q) \in Links[q] /\ NoCircle(Links)
  BY TreeAssumption DEF CircleInv, KeepsInv, TreeTypes, Links
<1>2. \A q \in seen : /\ Forest[q].ppid = Parent(q) /\ Parent(q) \in seen \cup {0}
                      /\ Parent(q) # 0 => Parent(q) = ParentPid(q) /\ Parent(q) # q
  BY DEF Forest, Parent
<1>3. ASSUME NEW p \in seen
      PROVE  /\ p \in A(p) /\ A(p) \subseteq seen \cup {0}
             /\ \A q \in A(p) \cap seen : Parent(q) \in A(p)
             /\ \A S : p \in S /\ (\A q \in S \cap seen : Parent(q) \in S) => A(p) \subseteq S
  <2>1. \A q \in seen : Forest[q].ppid \in seen \cup {0}
    BY <1>2
  <2>2. /\ p \in A(p) /\ A(p) \subseteq seen \cup {0}
        /\ \A q \in A(p) \cap seen : Forest[q].ppid \in A(p)
        /\ \A S : p \in S /\ (\A q \in S \cap seen : Forest[q].ppid \in S) => A(p) \subseteq S
    BY <1>1, <2>1, AncestorsAre
  <2> HIDE DEF A
  <2> QED
    BY <1>2, <2>2
<1>4. \A p : Above(p) = A(p) \ {0, p}
  BY DEF Above, Forest
<1> HIDE DEF A
<1>5. ASSUME NEW p \in seen, Parent(p) # 0
      PROVE  A(p) = {p} \cup A(Parent(p)) /\ p \notin A(Parent(p)) /\ Parent(p) \in seen
  <2> DEFINE x == Parent(p)
  <2>1. x \in seen
    BY <1>2, <1>5
  <2>2. A(x) \subseteq A(p)
    BY <1>3, <2>1
  <2>3. A(p) \subseteq {p} \cup A(x)
    <3> DEFINE S == {p} \cup A(x)
    <3>1. p \in S /\ \A q \in S \cap seen : Parent(q) \in S
      BY <1>3, <2>1
    <3>2. A(p) \subseteq S
      <4> HIDE DEF S
      <4> QED
        BY <1>3, <3>1
    <3> QED
      BY <3>2
  <2>4. ASSUME p \in A(x) PROVE FALSE
    <3> DEFINE S == {q \in A(x) \cap seen : p \in A(q)}
    <3>1. S \in SUBSET Pid /\ p \in S /\ x \in S
      BY <1>1, <1>3, <2>1, <2>4
    <3>2. PICK q \in S : Links[q] \cap S = {}
      <4> HIDE DEF S
      <4>1. NoCircle(Links)
        BY <1>1
      <4> QED
        BY <3>1, <4>1 DEF NoCircle
    <3>3. ParentPid(q) \in Links[q]
      BY <1>1, <3>2
    <3>4. CASE Parent(q) = 0
      <4>1. A(q) \subseteq {q, 0}
        <5> DEFINE T == {q, 0}
        <5>1. q \in T /\ \A y \in T \cap seen : Parent(y) \in T
          BY <1>1, <3>4
        <5>2. q \in seen
          BY <3>2
        <5>3. A(q) \subseteq T
          <6> HIDE DEF T
          <6> QED
            BY <1>3, <5>1, <5>2
        <5> QED
          BY <5>3
      <4>2. p = q
        BY <1>1, <3>2, <4>1
      <4> QED
        BY <1>5, <3>4, <4>2
    <3>5. CASE Parent(q) # 0
      <4> DEFINE y == Parent(q)
      <4>1. y \in seen /\ y = ParentPid(q) /\ y \in A(x)
        BY <1>2, <1>3, <2>1, <3>2, <3>5
      <4>2. p \in A(y)
        <5>1. CASE p = q
          BY <2>4, <5>1
        <5>2. CASE p # q
          <6> DEFINE T == {q} \cup A(y)
          <6>1. q \in T /\ \A z \in T \cap seen : Parent(z) \in T
            BY <1>3, <4>1
          <6>2. A(q) \subseteq T
            <7> HIDE DEF T
            <7>1. q \in seen
              BY <3>2
            <7> QED
              BY <1>3, <6>1, <7>1
          <6> QED
            BY <3>2, <5>2, <6>2
        <5> QED
          BY <5>1, <5>2
      <4>3. y \in S
        BY <4>1, <4>2
      <4> QED
        BY <3>2, <3>3, <4>1, <4>3
    <3> QED
      BY <3>4, <3>5
  <2>5. p \in A(p)
    BY <1>3
  <2> QED
    BY <2>1, <2>2, <2>3, <2>4, <2>5
<1>6. ASSUME NEW p \in seen
      PROVE  Above(p) \subseteq seen \ {p} /\ IsFiniteSet(Above(p)) /\ Depth(p) \in Nat
  <2>1. Above(p) \subseteq seen \ {p}
    BY <1>3, <1>4
  <2>2. IsFiniteSet(Above(p))
    BY <1>1, <2>1, FS_Subset
  <2> QED
    BY <2>1, <2>2, FS_CardinalityType DEF Depth
<1>7. ASSUME NEW p \in seen, Parent(p) = 0 PROVE Above(p) = {} /\ Depth(p) = 0
  <2> DEFINE T == {p, 0}
  <2>1. p \in T /\ \A y \in T \cap seen : Parent(y) \in T
    BY <1>1, <1>7
  <2>2. A(p) \subseteq T
    <3> HIDE DEF T
    <3> QED
      BY <1>3, <2>1
  <2>3. Above(p) = {}
    BY <1>4, <2>2
  <2> QED
    BY <2>3, FS_EmptySet DEF Depth
<1>8. ASSUME NEW p \in seen, Parent(p) # 0
      PROVE  Above(p) = Above(Parent(p)) \cup {Parent(p)} /\ Depth(p) = Depth(Parent(p)) + 1
  <2> DEFINE x == Parent(p)
  <2>1. A(p) = {p} \cup A(x) /\ p \notin A(x) /\ x \in seen /\ x \in A(x) /\ x # 0
    BY <1>3, <1>5, <1>8
  <2>2. Above(p) = Above(x) \cup {x} /\ x \notin Above(x)
    BY <1>4, <2>1
  <2>3. Depth(p) = Depth(x) + 1
    <3> DEFINE B == Above(x)
    <3>1. IsFiniteSet(B) /\ x \notin B
      BY <1>6, <2>1, <2>2
    <3>2. Cardinality(B \cup {x}) = Cardinality(B) + 1
      BY <3>1, FS_AddElement
    <3> QED
      BY <2>2, <3>2 DEF Depth
  <2> QED
    BY <2>2, <2>3
<1>9. ASSUME NEW p \in seen, NEW q \in Above(p) PROVE Above(q) \subseteq Above(p)
  <2>1. Parent(p) # 0
    BY <1>7
  <2> DEFINE x == Parent(p)
  <2>2. A(p) = {p} \cup A(x) /\ p \notin A(x) /\ x \in seen
    BY <1>5, <2>1
  <2>3. q \in seen /\ q \in A(x)
    BY <1>4, <1>6, <2>2
  <2>4. A(q) \subseteq A(x)
    BY <1>3, <2>2, <2>3
  <2> QED
    BY <1>4, <2>2, <2>4
<1> QED
  BY <1>2, <1>5, <1>6, <1>7, <1>8, <1>9 DEF ForestFact

LEMMA ForestFacts ==
  ASSUME CircleInv
  PROVE  /\ seen \subseteq Pid /\ 0 \notin Pid
         /\ \A p \in seen : Above(p) \subseteq seen \ {p} /\ Depth(p) \in Nat
         /\ \A p \in seen : Parent(p) = 0 => Above(p) = {} /\ Depth(p) = 0
         /\ \A p \in seen : Parent(p) # 0 => /\ Parent(p) \in seen /\ Parent(p) = ParentPid(p)
                                             /\ Above(p) = Above(Parent(p)) \cup {Parent(p)}
                                             /\ Depth(p) = Depth(Parent(p)) + 1
         /\ \A p \in seen : \A q \in Above(p) : Above(q) \subseteq Above(p)
<1>1. \A p \in seen : ForestFact(p)
  BY ForestIs
<1>2. seen \subseteq Pid /\ 0 \notin Pid
  BY TreeAssumption DEF CircleInv, KeepsInv, TreeTypes
<1> QED
  BY <1>1, <1>2, Zenon DEF ForestFact

LEMMA ChildIs ==
  ASSUME CircleInv, NEW p \in seen, NEW q \in seen \ {p}
  PROVE  IsChildOf(q, p) <=> Parent(q) = p
<1>1. p # 0
  BY ForestFacts
<1>2. Parent(q) = p <=> ParentPid(q) = p
  BY <1>1 DEF Parent
<1>3. IsChildOf(q, p) <=> ParentPid(q) = p
  BY DEF IsChildOf, ParentPid
<1> QED
  BY <1>2, <1>3

\* What is between a process and one below it.
Path(p, q) == Above(q) \ ({p} \cup Above(p))

LEMMA BelowIsApart ==
  ASSUME CircleInv, NEW p \in seen, NEW a \in seen, p \in Above(a)
  PROVE  a \notin Above(p) /\ a # p
<1>1. p \notin Above(p)
  BY ForestFacts
<1>2. a \in Above(p) => Above(a) \subseteq Above(p)
  BY ForestFacts
<1> QED
  BY <1>1, <1>2

LEMMA PathOfChild ==
  ASSUME CircleInv, NEW p \in seen, NEW x \in seen, Parent(x) = p
  PROVE  /\ p \in Above(x) /\ Path(p, x) = {} /\ Depth(x) = Depth(p) + 1 /\ x \notin Above(p) /\ x # p
         /\ \A q \in seen : x \in Above(q) => p \in Above(q) /\ Path(p, q) = Path(x, q) \cup {x}
<1>1. p # 0 /\ Above(x) = Above(p) \cup {p} /\ Depth(x) = Depth(p) + 1 /\ x \notin Above(x)
  BY ForestFacts
<1>2. x \notin Above(p) /\ x # p
  BY <1>1
<1>3. ASSUME NEW q \in seen, x \in Above(q)
      PROVE  p \in Above(q) /\ Path(p, q) = Path(x, q) \cup {x}
  <2>1. Above(x) \subseteq Above(q)
    BY <1>3, ForestFacts
  <2> QED
    BY <1>1, <1>2, <1>3, <2>1 DEF Path
<1> QED
  BY <1>1, <1>2, <1>3 DEF Path

\* What a turn of the loop over the children is, all in all.
Turned(c, b, x, last, d, r, y) ==
  /\ IsTurn(d, c, b, x, last) /\ Moved(d.b, r) /\ y.to = r.to /\ y.from = r.from
  /\ Took(c.b, y) = Took(c.b, b) \cup {x} \cup Took(d.b, r)
  /\ \A q \in Took(c.b, b) : y.ps[q] = b.ps[q] /\ q \notin Took(d.b, r) /\ q # x
  /\ \A q \in Took(d.b, r) : y.ps[q] = r.ps[q] /\ q # x /\ q \in ToSet(b.from)
  /\ y.ps[x].show = c.show /\ y.ps[x].indent = c.indent \cup {c.level} /\ y.ps[x].last = last

LEMMA TurnIs ==
  ASSUME ps \in [Pid -> Process], NEW below \in [Call -> Building], NEW c \in Call, Sound(c.b),
         NEW b \in Building, NEW W, NEW x \in W,
         Midway(c, b, W), W \subseteq ToSet(c.b.from) \cap IsChildHere(c.b, c.pid), NEW last \in BOOLEAN,
         Keeps(CallOf(c, b, x, last), below[CallOf(c, b, x, last)])
  PROVE  Turned(c, b, x, last, CallOf(c, b, x, last), below[CallOf(c, b, x, last)],
                PlaceChild(below, c, b, x, last))
<1> DEFINE d == CallOf(c, b, x, last)
           r == below[d]
           y == PlaceChild(below, c, b, x, last)
<1>1. IsTurn(d, c, b, x, last)
  BY TurnFacts
<1>2. Took(c.b, y) = Took(c.b, b) \cup {x} \cup Took(d.b, r)
  <2>1. TookMore(c.b, b, x, d.b, r, y)
    BY TurnKeeps
  <2> QED
    BY <2>1 DEF TookMore
<1>3. /\ y.from = r.from /\ y.to = r.to /\ r \in Building
      /\ \A q \in Pid \ {x} : y.ps[q] = r.ps[q]
      /\ y.ps[x].indent = c.indent \cup {c.level} /\ y.ps[x].last = last /\ y.ps[x].show = r.ps[x].show
  <2>1. x \in Pid
    BY <1>1 DEF IsTurn
  <2> QED
    BY <2>1, PlaceChildTyped
<1> HIDE DEF d
<1> HIDE DEF r, y
<1>4. /\ x \in Pid /\ ToSet(d.b.to) = ToSet(b.to) \cup {x} /\ d.b.ps[x].show = c.show /\ d.b.from = b.from
      /\ \A q \in Pid \ {x} : d.b.ps[q] = b.ps[q]
  BY <1>1 DEF IsTurn
<1>5. Moved(d.b, r)
  BY <1>1 DEF Keeps, IsTurn, d, r
<1>6. /\ ToSet(r.from) \cup ToSet(r.to) = ToSet(b.from) \cup ToSet(d.b.to)
      /\ \A q \in Pid \ Took(d.b, r) : r.ps[q] = d.b.ps[q]
  BY <1>4, <1>5 DEF Moved
<1>7. x \notin ToSet(b.to)
  BY DEF Midway
<1>8. ToSet(r.to) \subseteq Pid /\ ToSet(b.to) \subseteq Pid
  <2>1. r.to \in Seq(Pid) /\ b.to \in Seq(Pid)
    BY <1>3 DEF Building
  <2> QED
    BY <2>1, SeqFacts
<1>9. ASSUME NEW q \in Took(c.b, b) PROVE y.ps[q] = b.ps[q] /\ q \notin Took(d.b, r) /\ q # x
  <2>1. q \in ToSet(b.to) /\ q \in Pid
    BY <1>8 DEF Took
  <2>2. q \notin Took(d.b, r) /\ q # x
    BY <1>4, <1>7, <2>1 DEF Took
  <2> QED
    BY <1>3, <1>4, <1>6, <2>1, <2>2
<1>10. ASSUME NEW q \in Took(d.b, r) PROVE y.ps[q] = r.ps[q] /\ q # x /\ q \in ToSet(b.from)
  <2>1. q \in Pid /\ q # x /\ q \in ToSet(r.to) /\ q \notin ToSet(d.b.to)
    BY <1>4, <1>8 DEF Took
  <2> QED
    BY <1>3, <1>6, <2>1
<1>11. y.ps[x].show = c.show
  <2>1. x \notin Took(d.b, r)
    BY <1>4 DEF Took
  <2> QED
    BY <1>3, <1>4, <1>6, <2>1
<1>12. Turned(c, b, x, last, d, r, y)
  BY <1>1, <1>2, <1>3, <1>5, <1>9, <1>10, <1>11 DEF Turned
<1> QED
  BY <1>12 DEF y, r, d

\* What a call does is right in the forest: it takes what is below its process through
\* displayed ones only, with the lines it needs, and displays what is not collapsed.
Family(c) == CircleInv /\ Sound(c.b) /\ c.pid \in seen /\ ToSet(c.b.from) \subseteq seen \ {c.pid}
LinesTo(c, t, q) ==
  c.indent \cup {Depth(a) - 1 : a \in {z \in Path(c.pid, q) \cup {q} : z = q \/ ~t[z].last}}
Placed(c, r, q) ==
  /\ q \in ToSet(c.b.from) /\ c.b.ps[q].show
  /\ c.pid \in Above(q) /\ Path(c.pid, q) \subseteq Took(c.b, r)
  /\ r.ps[q].show <=> c.show /\ \A a \in Path(c.pid, q) : ps[a].showChildren
  /\ c.level = Depth(c.pid) => r.ps[q].indent = LinesTo(c, r.ps, q)
Grows(c, b) ==
  /\ \A q \in Took(c.b, b) : Placed(c, b, q)
  /\ \A q \in ToSet(c.b.from) : c.b.ps[q].show /\ Parent(q) \in Took(c.b, b) => q \in Took(c.b, b)
Grown(c, r) ==
  Family(c) => /\ Grows(c, r)
               /\ \A q \in ToSet(c.b.from) : c.b.ps[q].show /\ Parent(q) = c.pid => q \in Took(c.b, r)

\* The lines of what is below a child, as the call for it draws them.
IsLineTurn(c, d, t, u, x, q, last) ==
  /\ d.pid = x /\ d.indent = IndentBelow(c.indent, c.level, last) /\ last \in BOOLEAN
  /\ t[x].last = last /\ \A a \in Path(x, q) : t[a].last = u[a].last

LEMMA LinesOfChild ==
  ASSUME CircleInv, NEW c \in Call, c.pid \in seen, c.level = Depth(c.pid),
         NEW x \in seen, Parent(x) = c.pid, NEW q \in seen, x \in Above(q),
         NEW d, NEW t, NEW u, NEW last, IsLineTurn(c, d, t, u, x, q, last)
  PROVE  LinesTo(d, u, q) = LinesTo(c, t, q)
<1> DEFINE p == c.pid
           A == {z \in Path(x, q) \cup {q} : z = q \/ ~u[z].last}
           B == {z \in Path(p, q) \cup {q} : z = q \/ ~t[z].last}
<1>0. /\ d.pid = x /\ d.indent = IndentBelow(c.indent, c.level, last) /\ last \in BOOLEAN
      /\ t[x].last = last /\ \A a \in Path(x, q) : t[a].last = u[a].last
  BY DEF IsLineTurn
<1>1. Path(p, q) = Path(x, q) \cup {x} /\ Depth(x) = Depth(p) + 1 /\ Depth(p) \in Nat /\ x # q
      /\ x \notin Path(x, q)
  <2>1. q \notin Above(q)
    BY ForestFacts
  <2>2. x \notin Path(x, q)
    BY DEF Path
  <2> QED
    BY <2>1, <2>2, PathOfChild, ForestFacts
<1>2. B = A \cup (IF last THEN {} ELSE {x})
  <2>1. \A z \in Path(x, q) : (~u[z].last) <=> (~t[z].last)
    BY <1>0, Zenon
  <2>2. A = {z \in Path(x, q) \cup {q} : z = q \/ ~t[z].last}
    BY <2>1
  <2>3. B = {z \in Path(x, q) \cup {x} \cup {q} : z = q \/ ~t[z].last}
    BY <1>1
  <2>4. (~t[x].last) <=> ~last
    BY <1>0, Zenon
  <2> HIDE DEF A, B
  <2>5. CASE last
    BY <1>1, <2>2, <2>3, <2>4, <2>5
  <2>6. CASE ~last
    BY <1>1, <2>2, <2>3, <2>4, <2>6
  <2> QED
    BY <1>0, <2>5, <2>6
<1>3. d.indent = IF last THEN c.indent ELSE c.indent \cup {Depth(x) - 1}
  <2>1. Depth(x) - 1 = c.level
    BY <1>1
  <2>2. d.indent = IF last THEN c.indent ELSE c.indent \cup {c.level}
    BY <1>0 DEF IndentBelow
  <2> QED
    BY <2>1, <2>2, Zenon
<1> DEFINE D(S) == {Depth(a) - 1 : a \in S}
<1>4. D(B) = D(A) \cup (IF last THEN {} ELSE {Depth(x) - 1})
  <2> HIDE DEF A, B
  <2> QED
    BY <1>2
<1>5. LinesTo(d, u, q) = d.indent \cup D(A) /\ LinesTo(c, t, q) = c.indent \cup D(B)
  BY <1>0 DEF LinesTo
<1> HIDE DEF A, B, D
<1> QED
  BY <1>3, <1>4, <1>5

\* What a turn finds: the call is of a family, and for one of the children.
LEMMA TurnOfFamily ==
  ASSUME ps \in [Pid -> Process], NEW c \in Call, Family(c), NEW b \in Building, NEW W, NEW x \in W,
         Midway(c, b, W), W \subseteq ToSet(c.b.from) \cap IsChildHere(c.b, c.pid), NEW last \in BOOLEAN,
         NEW d, NEW r, NEW y, Turned(c, b, x, last, d, r, y)
  PROVE  /\ Family(d) /\ d \in Call /\ d.pid = x /\ x \in seen /\ x \in ToSet(c.b.from)
         /\ Parent(x) = c.pid /\ c.b.ps[x].show
         /\ d.show = (c.show /\ ps[x].showChildren)
         /\ d.indent = IndentBelow(c.indent, c.level, last) /\ (c.level = Depth(c.pid) => d.level = Depth(x))
         /\ d.b.from = b.from /\ ToSet(b.from) \subseteq ToSet(c.b.from)
         /\ \A q \in ToSet(b.from) : d.b.ps[q] = c.b.ps[q]
         /\ \A q \in ToSet(c.b.from) \ ToSet(b.from) : q \in Took(c.b, b) \/ q \in W
<1>1. CircleInv /\ Sound(c.b) /\ c.pid \in seen /\ ToSet(c.b.from) \subseteq seen \ {c.pid} /\ seen \subseteq Pid
  BY ForestFacts DEF Family
<1>2. /\ Sound(b) /\ W \cap (ToSet(b.from) \cup ToSet(b.to)) = {}
      /\ ToSet(b.from) \cup ToSet(b.to) \cup W = ToSet(c.b.from) \cup ToSet(c.b.to)
      /\ ToSet(b.from) \subseteq ToSet(c.b.from)
      /\ \A q \in Pid \ Took(c.b, b) : b.ps[q] = c.b.ps[q]
  BY DEF Midway
<1>3. /\ d \in Call /\ Sound(d.b) /\ d.b.from = b.from /\ d.pid = x /\ d.level = c.level + 1
      /\ d.show = ShowBelow(c.show, x) /\ d.indent = IndentBelow(c.indent, c.level, last)
      /\ \A q \in Pid \ {x} : d.b.ps[q] = b.ps[q]
  BY DEF Turned, IsTurn
<1>4. /\ x \in seen \ {c.pid} /\ x \in ToSet(c.b.from) /\ IsChildOf(x, c.pid) /\ c.b.ps[x].show
      /\ x \notin ToSet(b.from)
  BY <1>1, <1>2 DEF IsChildHere
<1>5. Parent(x) = c.pid
  BY <1>1, <1>4, ChildIs
<1>6. Family(d)
  BY <1>1, <1>2, <1>3, <1>4 DEF Family
<1>7. \A q \in ToSet(b.from) : d.b.ps[q] = c.b.ps[q]
  <2> TAKE q \in ToSet(b.from)
  <2>1. q \in Pid /\ q # x /\ q \notin ToSet(b.to)
    BY <1>1, <1>2, <1>4 DEF Sound
  <2>2. q \notin Took(c.b, b)
    BY <2>1 DEF Took
  <2> QED
    BY <1>2, <1>3, <2>1, <2>2
<1>8. ASSUME NEW q \in ToSet(c.b.from) \ ToSet(b.from) PROVE q \in Took(c.b, b) \/ q \in W
  <2>1. q \notin ToSet(c.b.to)
    BY <1>1 DEF Sound
  <2> QED
    BY <1>2, <2>1 DEF Took
<1>9. ASSUME c.level = Depth(c.pid) PROVE d.level = Depth(x)
  <2>1. Depth(x) = Depth(c.pid) + 1
    BY <1>1, <1>4, <1>5, PathOfChild
  <2> QED
    BY <1>3, <1>9, <2>1
<1>10. d.show = (c.show /\ ps[x].showChildren)
  BY <1>3 DEF ShowBelow
<1> QED
  BY <1>2, <1>3, <1>4, <1>5, <1>6, <1>7, <1>8, <1>9, <1>10

LEMMA TurnGrows ==
  ASSUME ps \in [Pid -> Process], NEW c \in Call, Family(c), NEW b \in Building, NEW W, NEW x \in W,
         Midway(c, b, W), W \subseteq ToSet(c.b.from) \cap IsChildHere(c.b, c.pid), NEW last \in BOOLEAN,
         NEW d, NEW r, NEW y, Turned(c, b, x, last, d, r, y), Grown(d, r), Grows(c, b)
  PROVE  Grows(c, y)
<1> DEFINE p == c.pid  K == Took(c.b, b)  L == Took(d.b, r)  M == Took(c.b, y)
<1>1. CircleInv /\ c.pid \in seen /\ ToSet(c.b.from) \subseteq seen \ {c.pid}
  BY DEF Family
<1>2. /\ Family(d) /\ d.pid = x /\ x \in seen /\ x \in ToSet(c.b.from)
      /\ Parent(x) = p /\ c.b.ps[x].show
      /\ d.show = (c.show /\ ps[x].showChildren)
      /\ d.indent = IndentBelow(c.indent, c.level, last) /\ (c.level = Depth(p) => d.level = Depth(x))
      /\ d.b.from = b.from /\ ToSet(b.from) \subseteq ToSet(c.b.from)
      /\ \A q \in ToSet(b.from) : d.b.ps[q] = c.b.ps[q]
      /\ \A q \in ToSet(c.b.from) \ ToSet(b.from) : q \in K \/ q \in W
  BY TurnOfFamily
<1>3. /\ M = K \cup {x} \cup L
      /\ \A q \in K : y.ps[q] = b.ps[q] /\ q \notin L /\ q # x
      /\ \A q \in L : y.ps[q] = r.ps[q] /\ q # x /\ q \in ToSet(b.from)
      /\ y.ps[x].show = c.show /\ y.ps[x].indent = c.indent \cup {c.level} /\ y.ps[x].last = last
  BY DEF Turned
<1>4. /\ \A q \in K : Placed(c, b, q)
      /\ \A q \in ToSet(c.b.from) : c.b.ps[q].show /\ Parent(q) \in K => q \in K
  BY DEF Grows
<1>5. /\ \A q \in L : Placed(d, r, q)
      /\ \A q \in ToSet(b.from) : d.b.ps[q].show /\ Parent(q) \in L \cup {x} => q \in L
  BY <1>2 DEF Grown, Grows
<1>6. p \in Above(x) /\ Path(p, x) = {} /\ Depth(x) = Depth(p) + 1 /\ Depth(p) \in Nat
      /\ \A q \in seen : x \in Above(q) => p \in Above(q) /\ Path(p, q) = Path(x, q) \cup {x}
  BY <1>1, <1>2, PathOfChild, ForestFacts
<1>7. ASSUME NEW q \in K PROVE Placed(c, y, q)
  <2>1. Placed(c, b, q)
    BY <1>4
  <2>2. /\ Path(p, q) \subseteq K /\ y.ps[q] = b.ps[q]
        /\ \A a \in Path(p, q) : y.ps[a].last = b.ps[a].last
    BY <1>3, <2>1 DEF Placed
  <2>3. LinesTo(c, y.ps, q) = LinesTo(c, b.ps, q)
    <3> DEFINE A == {z \in Path(p, q) \cup {q} : z = q \/ ~y.ps[z].last}
               B == {z \in Path(p, q) \cup {q} : z = q \/ ~b.ps[z].last}
    <3>1. A = B
      BY <2>2
    <3>2. LinesTo(c, y.ps, q) = c.indent \cup {Depth(a) - 1 : a \in A}
          /\ LinesTo(c, b.ps, q) = c.indent \cup {Depth(a) - 1 : a \in B}
      BY DEF LinesTo
    <3> HIDE DEF A, B
    <3> QED
      BY <3>1, <3>2
  <2>4. Path(p, q) \subseteq M
    BY <1>3, <2>2
  <2> QED
    BY <2>1, <2>2, <2>3, <2>4 DEF Placed
<1>8. Placed(c, y, x)
  <2>1. c.level = Depth(p) => y.ps[x].indent = LinesTo(c, y.ps, x)
    <3>1. LinesTo(c, y.ps, x) = c.indent \cup {Depth(x) - 1}
      <4>1. {z \in Path(p, x) \cup {x} : z = x \/ ~y.ps[z].last} = {x}
        BY <1>6
      <4> QED
        BY <4>1 DEF LinesTo
    <3> QED
      BY <1>3, <1>6, <3>1
  <2> QED
    BY <1>2, <1>3, <1>6, <2>1 DEF Placed
<1>9. ASSUME NEW q \in L PROVE Placed(c, y, q)
  <2>1. Placed(d, r, q)
    BY <1>5
  <2>2. q \in ToSet(b.from) /\ q \in seen /\ q \in ToSet(c.b.from) /\ d.b.ps[q] = c.b.ps[q]
        /\ y.ps[q] = r.ps[q]
    BY <1>1, <1>2, <1>3
  <2>3. /\ d.b.ps[q].show /\ x \in Above(q) /\ Path(x, q) \subseteq L
        /\ r.ps[q].show <=> d.show /\ \A a \in Path(x, q) : ps[a].showChildren
        /\ d.level = Depth(x) => r.ps[q].indent = LinesTo(d, r.ps, q)
    BY <1>2, <2>1 DEF Placed
  <2>4. p \in Above(q) /\ Path(p, q) = Path(x, q) \cup {x}
    BY <1>6, <2>2, <2>3
  <2>5. Path(p, q) \subseteq M
    BY <1>3, <2>3, <2>4
  <2>6. y.ps[q].show <=> c.show /\ \A a \in Path(p, q) : ps[a].showChildren
    BY <1>2, <2>2, <2>3, <2>4, Zenon
  <2>7. ASSUME c.level = Depth(p) PROVE y.ps[q].indent = LinesTo(c, y.ps, q)
    <3>1. r.ps[q].indent = LinesTo(d, r.ps, q)
      BY <1>2, <2>3, <2>7
    <3>2. \A a \in Path(x, q) : y.ps[a].last = r.ps[a].last
      BY <1>3, <2>3
    <3> DEFINE t == y.ps  u == r.ps
    <3>3. LinesTo(d, u, q) = LinesTo(c, t, q)
      <4>1. IsLineTurn(c, d, t, u, x, q, last)
        BY <1>2, <1>3, <3>2 DEF IsLineTurn
      <4> HIDE DEF t, u
      <4> QED
        BY <1>1, <1>2, <2>2, <2>3, <2>7, <4>1, LinesOfChild
    <3> QED
      BY <2>2, <3>1, <3>3
  <2> QED
    BY <2>2, <2>3, <2>4, <2>5, <2>6, <2>7 DEF Placed
<1>10. ASSUME NEW q \in ToSet(c.b.from), c.b.ps[q].show, Parent(q) \in M PROVE q \in M
  <2>1. CASE Parent(q) \in K
    BY <1>3, <1>4, <1>10, <2>1
  <2>2. CASE Parent(q) \notin K
    <3>1. Parent(q) \in L \cup {x}
      BY <1>3, <1>10, <2>2
    <3>2. CASE q \in ToSet(b.from)
      BY <1>2, <1>3, <1>5, <1>10, <3>1, <3>2
    <3>3. CASE q \notin ToSet(b.from)
      <4>1. CASE q \in K
        BY <1>3, <4>1
      <4>2. CASE q \in W
        <5>1. IsChildOf(q, p) /\ q \in seen \ {p}
          BY <1>1, <4>2 DEF IsChildHere
        <5>2. Parent(q) = p
          BY <1>1, <5>1, ChildIs
        <5>3. p \notin ToSet(c.b.from)
          BY <1>1
        <5>4. p \notin L /\ p # x
          BY <1>2, <1>3, <5>3
        <5>5. p \notin K
          BY <5>2, <2>2
        <5>6. p \notin M
          <6> HIDE DEF K, L, M
          <6> QED
            BY <1>3, <5>4, <5>5
        <5> QED
          BY <1>10, <5>2, <5>6
      <4> QED
        BY <1>2, <3>3, <4>1, <4>2
    <3> QED
      BY <3>2, <3>3
  <2> QED
    BY <2>1, <2>2
<1> HIDE DEF K, L, M, p
<1>11. \A q \in M : Placed(c, y, q)
  BY <1>3, <1>7, <1>8, <1>9
<1> QED
  BY <1>10, <1>11 DEF Grows, M

\* The rows after the l-th of a list: of those in Z, each is below what it belongs to,
\* with nothing in between that does not belong there too, ...
Blocks(up, s, Z, l, n) ==
  \A k \in l + 1 .. n : s[k] \in Z =>
     \A i \in l + 1 .. n : s[i] \in up[s[k]] => i < k /\ \A j \in i + 1 .. k : s[i] \in up[s[j]]

\* ... and the lowest of siblings is marked, those of the parent p if there are no more, W.
Lasts(par, t, s, Z, p, W, l, n) ==
  \A i \in l + 1 .. n : s[i] \in Z =>
     (t[s[i]].last <=> /\ par[s[i]] = p => W = {}
                       /\ \A j \in l + 1 .. n : s[j] \in Z /\ par[s[j]] = par[s[i]] => j <= i)

\* A row x is added to a list, and below it another list of what belongs to it.
LEMMA BlocksJoin ==
  ASSUME NEW l \in Nat, NEW m \in Nat, NEW n \in Nat, l <= m, m < n, NEW up, NEW s, NEW w, NEW Z, NEW x,
         \A i \in 1 .. m : w[i] = s[i], w[m + 1] = x,
         Blocks(up, s, Z, l, m), Blocks(up, w, Z, m + 1, n),
         \A i \in l + 1 .. m : \A k \in m + 1 .. n :
            (w[k] \in Z => w[i] \notin up[w[k]]) /\ (w[i] \in Z => w[k] \notin up[w[i]]),
         x \notin up[x], \A k \in m + 2 .. n : x \in up[w[k]] /\ w[k] \notin up[x]
  PROVE  Blocks(up, w, Z, l, n)
<1> SUFFICES ASSUME NEW k \in l + 1 .. n, w[k] \in Z, NEW i \in l + 1 .. n, w[i] \in up[w[k]]
             PROVE  i < k /\ \A j \in i + 1 .. k : w[i] \in up[w[j]]
  BY DEF Blocks
<1>1. CASE k <= m
  <2>1. k \in l + 1 .. m /\ k \in 1 .. m /\ w[k] = s[k]
    BY <1>1
  <2>2. i \notin m + 1 .. n
    BY <2>1
  <2>3. i \in l + 1 .. m /\ i \in 1 .. m
    BY <2>2
  <2>4. s[i] \in up[s[k]] /\ s[k] \in Z
    BY <2>1, <2>3
  <2>5. i < k /\ \A j \in i + 1 .. k : s[i] \in up[s[j]]
    BY <2>1, <2>3, <2>4 DEF Blocks
  <2>6. \A j \in i + 1 .. k : j \in 1 .. m
    BY <1>1, <2>3
  <2> QED
    BY <2>3, <2>5, <2>6
<1>2. CASE k = m + 1
  <2>1. w[k] = x /\ k \in m + 1 .. n
    BY <1>2
  <2>2. i \notin l + 1 .. m
    BY <2>1
  <2>3. i # m + 1 /\ i \notin m + 2 .. n
    BY <2>1
  <2> QED
    BY <2>2, <2>3
<1>3. CASE k > m + 1
  <2>1. k \in m + 1 .. n /\ k \in m + 1 + 1 .. n /\ k \in m + 2 .. n
    BY <1>3
  <2>2. i \notin l + 1 .. m
    BY <2>1
  <2>3. CASE i = m + 1
    <3>1. i < k /\ \A j \in i + 1 .. k : j \in m + 2 .. n
      BY <1>3, <2>3
    <3> QED
      BY <2>3, <3>1
  <2>4. CASE i # m + 1
    <3>1. i \in m + 1 + 1 .. n
      BY <2>2, <2>4
    <3> QED
      BY <2>1, <3>1 DEF Blocks
  <2> QED
    BY <2>3, <2>4
<1> QED
  BY <1>1, <1>2, <1>3

\* How the rows of the two lists, and their marks, are related.
LastsMeet(par, l, m, n, s, w, Z, x, p, W, V, t, u, v) ==
  /\ \A i \in 1 .. m : w[i] = s[i]
  /\ w[m + 1] = x /\ (x \in Z => par[x] = p) /\ W # {} /\ (V = {} => x \in Z) /\ (v[x].last <=> V = {})
  /\ \A i \in l + 1 .. m : v[w[i]].last <=> t[s[i]].last
  /\ \A k \in m + 2 .. n : (v[w[k]].last <=> u[w[k]].last) /\ par[w[k]] # p
  /\ \A i \in l + 1 .. m : \A k \in m + 1 .. n :
        w[i] \in Z /\ w[k] \in Z /\ par[w[i]] # p => par[w[k]] # par[w[i]]

LEMMA LastsJoin ==
  ASSUME NEW l \in Nat, NEW m \in Nat, NEW n \in Nat, l <= m, m < n, NEW k1, k1 = m + 1,
         NEW par, NEW s, NEW w, NEW Z, NEW x, NEW p, NEW W, NEW V, NEW E, NEW t, NEW u, NEW v,
         Lasts(par, t, s, Z, p, W, l, m), Lasts(par, u, w, Z, x, E, k1, n), E = {},
         LastsMeet(par, l, m, n, s, w, Z, x, p, W, V, t, u, v)
  PROVE  Lasts(par, v, w, Z, p, V, l, n)
<1> USE DEF LastsMeet
<1> SUFFICES ASSUME NEW i \in l + 1 .. n, w[i] \in Z
             PROVE  v[w[i]].last <=> /\ par[w[i]] = p => V = {}
                                     /\ \A j \in l + 1 .. n : w[j] \in Z /\ par[w[j]] = par[w[i]] => j <= i
  BY DEF Lasts
<1>1. CASE i <= m
  <2>1. i \in l + 1 .. m /\ i \in 1 .. m /\ w[i] = s[i]
    BY <1>1
  <2>2. v[w[i]].last <=> /\ par[w[i]] = p => W = {}
                         /\ \A j \in l + 1 .. m : s[j] \in Z /\ par[s[j]] = par[s[i]] => j <= i
    <3>1. t[s[i]].last <=> /\ par[s[i]] = p => W = {}
                           /\ \A j \in l + 1 .. m : s[j] \in Z /\ par[s[j]] = par[s[i]] => j <= i
      BY <2>1 DEF Lasts
    <3>2. v[w[i]].last <=> t[s[i]].last
      BY <2>1
    <3> QED
      BY <2>1, <3>1, <3>2, Zenon
  <2>3. CASE par[w[i]] = p
    <3>1. ~v[w[i]].last
      BY <2>2, <2>3
    <3>2. ASSUME V = {} PROVE m + 1 \in l + 1 .. n /\ w[m + 1] \in Z /\ par[w[m + 1]] = par[w[i]] /\ ~(m + 1 <= i)
      BY <2>1, <2>3, <3>2
    <3> QED
      BY <2>3, <3>1, <3>2
  <2>4. CASE par[w[i]] # p
    <3>1. \A j \in l + 1 .. n : (j \in l + 1 .. m /\ j \in 1 .. m) \/ j \in m + 1 .. n
      OBVIOUS
    <3>2. (\A j \in l + 1 .. m : s[j] \in Z /\ par[s[j]] = par[s[i]] => j <= i)
            <=> \A j \in l + 1 .. n : w[j] \in Z /\ par[w[j]] = par[w[i]] => j <= i
      <4>1. \A j \in l + 1 .. m : j \in l + 1 .. n /\ j \in 1 .. m
        OBVIOUS
      <4>2. \A j \in l + 1 .. m : w[j] = s[j] /\ j \in l + 1 .. n
        BY <4>1
      <4>3. \A j \in m + 1 .. n : ~(w[j] \in Z /\ par[w[j]] = par[w[i]])
        BY <2>1, <2>4
      <4> QED
        BY <2>1, <3>1, <4>2, <4>3, Zenon
    <3> QED
      BY <2>2, <2>4, <3>2, Zenon
  <2> QED
    BY <2>3, <2>4
<1>2. CASE i = m + 1
  <2>1. w[i] = x /\ par[w[i]] = p /\ (v[w[i]].last <=> V = {})
    BY <1>2
  <2>2. ASSUME NEW j \in l + 1 .. n, par[w[j]] = p PROVE j <= i
    <3>1. j \notin m + 2 .. n
      BY <2>2
    <3> QED
      BY <1>2, <3>1
  <2> QED
    BY <2>1, <2>2
<1>3. CASE i > m + 1
  <2>1. i \in m + 1 + 1 .. n /\ i \in m + 2 .. n
    BY <1>3
  <2>2. u[w[i]].last <=> \A j \in m + 1 + 1 .. n : w[j] \in Z /\ par[w[j]] = par[w[i]] => j <= i
    BY <2>1 DEF Lasts
  <2>3. (\A j \in m + 1 + 1 .. n : w[j] \in Z /\ par[w[j]] = par[w[i]] => j <= i)
          <=> \A j \in l + 1 .. n : w[j] \in Z /\ par[w[j]] = par[w[i]] => j <= i
    <3>1. \A j \in l + 1 .. n : j \in m + 1 + 1 .. n \/ j <= i
      BY <1>3
    <3>2. \A j \in m + 1 + 1 .. n : j \in l + 1 .. n
      OBVIOUS
    <3> QED
      BY <3>1, <3>2, Zenon
  <2>4. par[w[i]] # p /\ (v[w[i]].last <=> u[w[i]].last)
    BY <2>1
  <2> QED
    BY <2>2, <2>3, <2>4, Zenon
<1> QED
  BY <1>1, <1>2, <1>3

LEMMA ParentIsNext ==
  ASSUME CircleInv, NEW p \in seen, NEW q \in seen, p \in Above(q)
  PROVE  Parent(q) \in Path(p, q) \cup {p} /\ Parent(q) # 0
<1> DEFINE x == Parent(q)
<1>1. x # 0
  BY ForestFacts
<1>2. x \in seen /\ Above(q) = Above(x) \cup {x}
  BY <1>1, ForestFacts
<1>3. ASSUME x \in Above(p) PROVE FALSE
  <2>1. Above(x) \subseteq Above(p) /\ p \notin Above(p)
    BY <1>3, ForestFacts
  <2> QED
    BY <1>2, <1>3, <2>1
<1> QED
  BY <1>1, <1>2, <1>3 DEF Path

\* The child and what is below it have nothing to do with what was taken before.
LEMMA TurnIsApart ==
  ASSUME ps \in [Pid -> Process], NEW c \in Call, Family(c), NEW b \in Building, NEW W, NEW x \in W,
         Midway(c, b, W), W \subseteq ToSet(c.b.from) \cap IsChildHere(c.b, c.pid), NEW last \in BOOLEAN,
         NEW d, NEW r, NEW y, Turned(c, b, x, last, d, r, y), Grown(d, r), Grows(c, b)
  PROVE  /\ Took(c.b, b) \subseteq seen /\ Took(d.b, r) \subseteq seen /\ x \in seen
         /\ \A a \in Took(c.b, b) : Parent(a) \in Took(c.b, b) \cup {c.pid}
         /\ \A q \in Took(d.b, r) : Parent(q) \in Took(d.b, r) \cup {x} /\ x \in Above(q) /\ q \notin Above(x)
         /\ c.pid \notin Took(c.b, b) /\ c.pid \notin Took(d.b, r) /\ c.pid # x
         /\ Parent(x) = c.pid /\ x \notin Above(x)
         /\ \A a \in Took(c.b, b) : \A q \in Took(d.b, r) \cup {x} :
               a \notin Above(q) /\ q \notin Above(a) /\ q # a
<1> DEFINE p == c.pid  K == Took(c.b, b)  L == Took(d.b, r)
<1>1. CircleInv /\ c.pid \in seen /\ ToSet(c.b.from) \subseteq seen \ {c.pid}
  BY DEF Family
<1>2. /\ Family(d) /\ d.pid = x /\ x \in seen /\ x \in ToSet(c.b.from) /\ Parent(x) = p
      /\ ToSet(b.from) \subseteq ToSet(c.b.from)
  BY TurnOfFamily
<1>3. \A q \in K : q \notin L /\ q # x
  BY DEF Turned
<1>4. \A q \in L : q # x /\ q \in ToSet(b.from)
  BY DEF Turned
<1>5. \A q \in K : Placed(c, b, q)
  BY DEF Grows
<1>6. \A q \in L : Placed(d, r, q)
  BY <1>2 DEF Grown, Grows
<1>7. p \in Above(x) /\ Above(x) = Above(p) \cup {p} /\ x \notin Above(x)
  BY <1>1, <1>2, ForestFacts
<1>8. ASSUME NEW a \in K
      PROVE  a \in ToSet(c.b.from) /\ a \in seen /\ p \in Above(a) /\ Path(p, a) \subseteq K
             /\ Parent(a) \in K \cup {p} /\ a \notin Above(p) /\ a # p
  <2>1. a \in ToSet(c.b.from) /\ a \in seen /\ p \in Above(a) /\ Path(p, a) \subseteq K
    BY <1>1, <1>5 DEF Placed
  <2> HIDE DEF K
  <2> QED
    BY <1>1, <2>1, ParentIsNext, BelowIsApart
<1>9. ASSUME NEW q \in L
      PROVE  q \in ToSet(c.b.from) /\ q \in seen /\ x \in Above(q) /\ Path(x, q) \subseteq L
             /\ Parent(q) \in L \cup {x} /\ q \notin Above(x) /\ q # x
  <2>1. q \in ToSet(c.b.from) /\ q \in seen /\ x \in Above(q) /\ Path(x, q) \subseteq L
    BY <1>1, <1>2, <1>4, <1>6 DEF Placed
  <2> HIDE DEF L
  <2> QED
    BY <1>1, <1>2, <2>1, ParentIsNext, BelowIsApart
<1>10. ASSUME NEW a \in K, NEW q \in L \cup {x} PROVE a \notin Above(q) /\ q \notin Above(a) /\ q # a
  <2>1. q # a /\ q \in ToSet(c.b.from)
    BY <1>2, <1>3, <1>9
  <2>2. q \notin K
    BY <1>3
  <2>3. q \notin Above(p) /\ q # p
    <3>1. q # p
      BY <1>1, <2>1
    <3>2. q \notin Above(x) \/ q = x
      BY <1>9
    <3> QED
      BY <1>7, <3>1, <3>2
  <2>4. Path(p, a) \subseteq K /\ a \notin Above(p) /\ a # p
    BY <1>8
  <2>5. q \notin Above(a)
    BY <2>2, <2>3, <2>4 DEF Path
  <2>6. a \notin Above(x)
    BY <1>7, <2>4
  <2>7. a \notin Above(q)
    <3>1. CASE q = x
      BY <2>6, <3>1
    <3>2. CASE q # x
      <4>1. q \in L /\ Path(x, q) \subseteq L /\ a \notin L /\ a # x
        BY <1>3, <1>9, <3>2
      <4> QED
        BY <2>6, <4>1 DEF Path
    <3> QED
      BY <3>1, <3>2
  <2> QED
    BY <2>1, <2>5, <2>7
<1> HIDE DEF K, L, p
<1>11. K \subseteq seen /\ L \subseteq seen
  BY <1>8, <1>9
<1>12. p \notin K /\ p \notin L /\ p # x
  BY <1>1, <1>2, <1>8, <1>9 DEF p
<1> QED
  BY <1>2, <1>7, <1>8, <1>9, <1>10, <1>11, <1>12 DEF K, L, p
Up == [q \in seen |-> Above(q)]
ParentOf == [q \in seen |-> Parent(q)]

\* The rows a call adds are in the order of a tree, if they are added below.
InOrder(c, b, W) ==
  /\ Len(c.b.to) <= Len(b.to) /\ \A i \in 1 .. Len(c.b.to) : b.to[i] = c.b.to[i]
  /\ Blocks(Up, b.to, Pid, Len(c.b.to), Len(b.to))
  /\ Lasts(ParentOf, b.ps, b.to, Pid, c.pid, W, Len(c.b.to), Len(b.to))
Ordered(c, r) == direction = 1 /\ Family(c) => InOrder(c, r, {})

LEMMA TookIs ==
  ASSUME NEW a, NEW b, a.to \in Seq(Pid), b.to \in Seq(Pid), IsInjective(b.to),
         Len(a.to) <= Len(b.to), \A i \in 1 .. Len(a.to) : b.to[i] = a.to[i]
  PROVE  Took(a, b) = {b.to[i] : i \in Len(a.to) + 1 .. Len(b.to)}
<1> DEFINE m == Len(a.to)  n == Len(b.to)
<1>1. /\ m \in Nat /\ n \in Nat /\ DOMAIN b.to = 1 .. n
      /\ ToSet(a.to) = {a.to[i] : i \in 1 .. m} /\ ToSet(b.to) = {b.to[i] : i \in 1 .. n}
  BY SeqFacts
<1>2. ToSet(a.to) = {b.to[i] : i \in 1 .. m}
  BY <1>1
<1>3. \A i, j \in 1 .. n : b.to[i] = b.to[j] => i = j
  BY <1>1 DEF IsInjective
<1> HIDE DEF m, n
<1>4. ASSUME NEW i \in m + 1 .. n PROVE b.to[i] \in ToSet(b.to) \ ToSet(a.to)
  <2>1. i \in 1 .. n /\ \A j \in 1 .. m : j \in 1 .. n /\ j # i
    BY <1>1 DEF m, n
  <2>2. \A j \in 1 .. m : b.to[i] # a.to[j]
    BY <1>3, <2>1 DEF m
  <2>3. b.to[i] \in ToSet(b.to)
    BY <1>1, <2>1
  <2>4. ASSUME b.to[i] \in ToSet(a.to) PROVE FALSE
    <3>1. PICK j \in 1 .. m : b.to[i] = a.to[j]
      BY <1>1, <2>4
    <3> QED
      BY <2>2, <3>1
  <2> QED
    BY <2>3, <2>4
<1>5. ASSUME NEW q \in ToSet(b.to) \ ToSet(a.to) PROVE \E i \in m + 1 .. n : q = b.to[i]
  <2>1. PICK i \in 1 .. n : q = b.to[i]
    BY <1>1
  <2>2. i \notin 1 .. m
    BY <1>2, <2>1
  <2>3. i \in m + 1 .. n
    BY <1>1, <2>2
  <2> QED
    BY <2>1, <2>3
<1>6. Took(a, b) = {b.to[i] : i \in m + 1 .. n}
  BY <1>4, <1>5 DEF Took
<1> QED
  BY <1>6 DEF m, n

LEMMA TurnOrders ==
  ASSUME ps \in [Pid -> Process], NEW c \in Call, Family(c), NEW b \in Building, NEW W, NEW x \in W,
         Midway(c, b, W), W \subseteq ToSet(c.b.from) \cap IsChildHere(c.b, c.pid), NEW last \in BOOLEAN,
         NEW d, NEW r \in Building, NEW y, Turned(c, b, x, last, d, r, y), Grown(d, r), Grows(c, b),
         direction = 1, InOrder(c, b, W), Ordered(d, r), last <=> W \ {x} = {}
  PROVE  InOrder(c, y, W \ {x})
<1> DEFINE p == c.pid  K == Took(c.b, b)  L == Took(d.b, r)  V == W \ {x}
           s == b.to  w == r.to  l == Len(c.b.to)  m == Len(s)  n == Len(w)
<1>1. /\ CircleInv /\ seen \subseteq Pid /\ c.b.to \in Seq(Pid) /\ s \in Seq(Pid) /\ w \in Seq(Pid)
      /\ Sound(b) /\ Sound(r)
  BY ForestFacts DEF Family, Call, Building, Midway, Turned, Moved
<1>2. /\ Family(d) /\ d.pid = x /\ x \in Pid
  BY <1>1, TurnOfFamily
<1>3. /\ K \subseteq seen /\ L \subseteq seen /\ x \in seen
      /\ \A a \in K : Parent(a) \in K \cup {p}
      /\ \A q \in L : Parent(q) \in L \cup {x} /\ x \in Above(q) /\ q \notin Above(x)
      /\ p \notin K /\ p \notin L /\ p # x
      /\ Parent(x) = p /\ x \notin Above(x)
      /\ \A a \in K : \A q \in L \cup {x} : a \notin Above(q) /\ q \notin Above(a) /\ q # a
  BY TurnIsApart
<1>4. d.b.to = Append(s, x)
  BY DEF Turned, IsTurn, AddRow
<1>5. l \in Nat /\ m \in Nat /\ n \in Nat /\ Len(d.b.to) = m + 1 /\ d.b.to \in Seq(Pid)
      /\ d.b.to[m + 1] = x /\ \A i \in 1 .. m : d.b.to[i] = s[i]
  BY <1>1, <1>2, <1>4
<1>6. /\ Len(d.b.to) <= n /\ \A i \in 1 .. Len(d.b.to) : w[i] = d.b.to[i]
      /\ Blocks(Up, w, Pid, Len(d.b.to), n) /\ Lasts(ParentOf, r.ps, w, Pid, x, {}, Len(d.b.to), n)
  BY <1>2 DEF Ordered, InOrder
<1>7. /\ l <= m /\ \A i \in 1 .. l : s[i] = c.b.to[i]
      /\ Blocks(Up, s, Pid, l, m) /\ Lasts(ParentOf, b.ps, s, Pid, p, W, l, m)
  BY DEF InOrder
<1>8. K = {s[i] : i \in l + 1 .. m}
  BY <1>1, <1>7, TookIs DEF Sound
<1>9. L = {w[i] : i \in m + 2 .. n}
  <2>1. L = {w[i] : i \in Len(d.b.to) + 1 .. n}
    BY <1>1, <1>5, <1>6, TookIs DEF Sound
  <2>2. Len(d.b.to) + 1 .. n = m + 2 .. n
    BY <1>5
  <2> QED
    BY <2>1, <2>2
<1>10. y.to = w /\ y.ps[x].last = last
       /\ (\A q \in K : y.ps[q] = b.ps[q]) /\ (\A q \in L : y.ps[q] = r.ps[q])
  BY DEF Turned
<1> HIDE DEF p, K, L, V, s, w, l, m, n
<1>11. /\ m < n /\ (\A i \in 1 .. m : w[i] = s[i]) /\ w[m + 1] = x
       /\ Blocks(Up, w, Pid, m + 1, n) /\ Lasts(ParentOf, r.ps, w, Pid, x, {}, m + 1, n)
  <2>1. \A i \in 1 .. m : i \in 1 .. m + 1
    BY <1>5
  <2>2. m + 1 \in 1 .. m + 1
    BY <1>5
  <2>3. Blocks(Up, w, Pid, m + 1, n) /\ Lasts(ParentOf, r.ps, w, Pid, x, {}, m + 1, n)
    BY <1>5, <1>6, Zenon
  <2>4. m < n /\ \A i \in 1 .. m + 1 : w[i] = d.b.to[i]
    BY <1>5, <1>6
  <2> QED
    BY <1>5, <2>1, <2>2, <2>3, <2>4
<1>12. \A i \in l + 1 .. m : w[i] \in K /\ w[i] = s[i]
  <2> TAKE i \in l + 1 .. m
  <2>1. i \in 1 .. m
    BY <1>5
  <2> QED
    BY <1>8, <1>11, <2>1
<1>13. \A k \in m + 1 .. n : w[k] \in L \cup {x}
  <2> TAKE k \in m + 1 .. n
  <2>1. CASE k = m + 1
    BY <1>11, <2>1
  <2>2. CASE k # m + 1
    <3>1. k \in m + 2 .. n
      BY <1>5, <2>2
    <3> QED
      BY <1>9, <3>1
  <2> QED
    BY <2>1, <2>2
<1>14. \A k \in m + 2 .. n : w[k] \in L
  BY <1>9
<1>15. /\ \A q \in K \cup L \cup {x} : Up[q] = Above(q) /\ ParentOf[q] = Parent(q) /\ q \in Pid
  BY <1>1, <1>3 DEF Up, ParentOf
<1>16. Blocks(Up, w, Pid, l, n)
  <2>1. \A i \in l + 1 .. m : \A k \in m + 1 .. n :
           (w[k] \in Pid => w[i] \notin Up[w[k]]) /\ (w[i] \in Pid => w[k] \notin Up[w[i]])
    BY <1>3, <1>12, <1>13, <1>15
  <2>2. x \notin Up[x] /\ \A k \in m + 2 .. n : x \in Up[w[k]] /\ w[k] \notin Up[x]
    BY <1>3, <1>14, <1>15
  <2> QED
    BY <1>5, <1>7, <1>11, <2>1, <2>2, BlocksJoin
<1>17. Lasts(ParentOf, y.ps, w, Pid, p, V, l, n)
  <2> DEFINE t == b.ps  u == r.ps  v == y.ps  E == {}
  <2>1. \A i \in l + 1 .. m : v[w[i]].last <=> t[s[i]].last
    BY <1>10, <1>12, Zenon
  <2>2. \A k \in m + 2 .. n : v[w[k]].last <=> u[w[k]].last
    BY <1>10, <1>14, Zenon
  <2>3. (v[x].last <=> V = {}) /\ x \in Pid /\ ParentOf[x] = p /\ W # {}
    <3>1. v[x].last <=> V = {}
      BY <1>10, Zenon DEF V
    <3> QED
      BY <1>2, <1>3, <1>15, <3>1
  <2>4. \A k \in m + 2 .. n : ParentOf[w[k]] # p
    <3> TAKE k \in m + 2 .. n
    <3>1. w[k] \in L /\ Parent(w[k]) \in L \cup {x}
      BY <1>3, <1>14
    <3> QED
      BY <1>3, <1>15, <3>1
  <2>5. \A i \in l + 1 .. m : \A k \in m + 1 .. n :
            w[i] \in Pid /\ w[k] \in Pid /\ ParentOf[w[i]] # p => ParentOf[w[k]] # ParentOf[w[i]]
    <3> TAKE i \in l + 1 .. m
    <3> TAKE k \in m + 1 .. n
    <3>1. SUFFICES ASSUME ParentOf[w[i]] # p PROVE ParentOf[w[k]] # ParentOf[w[i]]
      OBVIOUS
    <3>2. ParentOf[w[i]] \in K
      BY <1>3, <1>12, <1>15, <3>1
    <3>3. ParentOf[w[k]] \in L \cup {x, p}
      <4>1. w[k] \in L \cup {x}
        BY <1>13
      <4> QED
        BY <1>3, <1>15, <4>1
    <3> QED
      BY <1>3, <3>2, <3>3
  <2>6. Lasts(ParentOf, t, s, Pid, p, W, l, m) /\ Lasts(ParentOf, u, w, Pid, x, E, m + 1, n)
    BY <1>7, <1>11
  <2>7. E = {}
    OBVIOUS
  <2> DEFINE m1 == m + 1
  <2>8. Lasts(ParentOf, u, w, Pid, x, E, m1, n) /\ w[m1] = x /\ m1 = m + 1
    BY <1>11, <2>6
  <2> HIDE DEF t, u, v, E, m1
  <2>10. LastsMeet(ParentOf, l, m, n, s, w, Pid, x, p, W, V, t, u, v)
    BY <1>11, <2>1, <2>2, <2>3, <2>4, <2>5, Zenon DEF LastsMeet
  <2>9. Lasts(ParentOf, v, w, Pid, p, V, l, n)
    BY <1>5, <1>7, <1>11, <2>6, <2>7, <2>8, <2>10, LastsJoin
  <2> QED
    BY <2>9 DEF v
<1>18. l <= n /\ \A i \in 1 .. l : w[i] = c.b.to[i]
  <2>1. \A i \in 1 .. l : i \in 1 .. m
    BY <1>5, <1>7
  <2> QED
    BY <1>5, <1>7, <1>11, <2>1
<1> QED
  BY <1>10, <1>16, <1>17, <1>18 DEF InOrder, V, l, n, w, p

\* What a call keeps, how it grows the tree and in what order.
Right(c, r) == Keeps(c, r) /\ Grown(c, r) /\ Ordered(c, r)

LEMMA StartGrows ==
  ASSUME NEW c \in Call
  PROVE  Grows(c, Start(c)) /\ \A W : InOrder(c, Start(c), W)
<1>1. Start(c).to = c.b.to /\ Start(c).ps = c.b.ps /\ c.b.to \in Seq(Pid)
  BY DEF Start, Call, Building
<1>2. Took(c.b, Start(c)) = {}
  BY <1>1 DEF Took
<1> DEFINE n == Len(c.b.to)
<1>3. n \in Nat /\ n + 1 .. n = {}
  BY <1>1
<1> HIDE DEF n
<1>4. ASSUME NEW W PROVE InOrder(c, Start(c), W)
  <2>1. /\ n <= n /\ \A i \in 1 .. n : c.b.to[i] = c.b.to[i]
        /\ Blocks(Up, c.b.to, Pid, n, n)
        /\ Lasts(ParentOf, c.b.ps, c.b.to, Pid, c.pid, W, n, n)
    BY <1>3 DEF Blocks, Lasts
  <2> QED
    BY <1>1, <2>1, Zenon DEF InOrder, n
<1> QED
  BY <1>2, <1>4 DEF Grows

\* A turn of the loop, with all that it is about.
LEMMA TurnIsRight ==
  ASSUME ps \in [Pid -> Process], NEW below \in [Call -> Building], NEW c \in Call, Family(c),
         NEW b \in Building, NEW W, NEW x \in W, NEW V, V = W \ {x},
         Midway(c, b, W), W \subseteq ToSet(c.b.from) \cap IsChildHere(c.b, c.pid),
         NEW last \in BOOLEAN, last <=> V = {},
         \A d \in Call : Len(d.b.from) < Len(c.b.from) => Right(d, below[d]),
         Grows(c, b), direction = 1 => InOrder(c, b, W)
  PROVE  /\ Grows(c, PlaceChild(below, c, b, x, last))
         /\ direction = 1 => InOrder(c, PlaceChild(below, c, b, x, last), V)
<1> DEFINE d == CallOf(c, b, x, last)
           r == below[d]
           y == PlaceChild(below, c, b, x, last)
<1>1. Sound(c.b)
  BY DEF Family
<1>2. d \in Call /\ Len(d.b.from) < Len(c.b.from)
  BY <1>1, TurnFacts DEF IsTurn
<1>3. r \in Building /\ Keeps(d, r) /\ Grown(d, r) /\ Ordered(d, r)
  BY <1>2 DEF Right
<1>4. Turned(c, b, x, last, d, r, y)
  BY <1>1, <1>3, TurnIs
<1> HIDE DEF d, r, y
<1>5. Grows(c, y)
  BY <1>3, <1>4, TurnGrows
<1>6. direction = 1 => InOrder(c, y, W \ {x})
  BY <1>3, <1>4, TurnOrders
<1> QED
  BY <1>5, <1>6 DEF y

LEMMA PlacingGrows ==
  ASSUME ps \in [Pid -> Process], NEW below \in [Call -> Building], NEW c \in Call, Family(c),
         \A d \in Call : Len(d.b.from) < Len(c.b.from) => Right(d, below[d]),
         NEW placed, NEW children, Placing(placed, below, c, children)
  PROVE  \A i \in 0 .. Len(children) :
           Grows(c, placed[i]) /\ (direction = 1 => InOrder(c, placed[i], Waiting(children, i)))
<1> DEFINE n == Len(children)
           Wait(i) == Waiting(children, i)
<1>1. Sound(c.b)
  BY DEF Family
<1>2. \A d \in Call : Len(d.b.from) < Len(c.b.from) => Keeps(d, below[d])
  BY DEF Right
<1>3. /\ n \in Nat /\ ToSet(children) = ToSet(c.b.from) \cap IsChildHere(c.b, c.pid)
      /\ \A i \in 0 .. n : placed[i] \in Building /\ Midway(c, placed[i], Wait(i))
      /\ \A i \in 1 .. n : /\ Wait(i) = Wait(i - 1) \ {children[i]} /\ children[i] \in Wait(i - 1)
                            /\ Wait(i - 1) \subseteq ToSet(children)
  BY <1>1, <1>2, PlacingKeeps
<1>4. /\ placed[0] = Start(c)
      /\ \A i \in 1 .. n : placed[i] = PlaceChild(below, c, placed[i - 1], children[i], i = n)
  BY DEF Placing
<1>5. \A i \in 1 .. n : Wait(i) = {} <=> i = n
  <2> TAKE i \in 1 .. n
  <2>1. i = n => Wait(i) = {}
    BY <1>3, NothingWaits
  <2>2. i # n => children[n] \in Wait(i)
    <3>1. i # n => n \in i + 1 .. n
      BY <1>3
    <3> QED
      BY <3>1 DEF Waiting, n
  <2> QED
    BY <2>1, <2>2
<1> HIDE DEF n, Wait
<1> DEFINE P == {i \in 0 .. n : Grows(c, placed[i]) /\ (direction = 1 => InOrder(c, placed[i], Wait(i)))}
<1>6. 0 \in P
  <2>1. 0 \in 0 .. n
    BY <1>3
  <2> QED
    BY <1>4, <2>1, StartGrows
<1>7. ASSUME NEW i \in 1 .. n, i - 1 \in P PROVE i \in P
  <2> DEFINE b == placed[i - 1]  x == children[i]  last == i = n  W == Wait(i - 1)  V == Wait(i)
  <2>1. /\ i \in 0 .. n /\ i - 1 \in 0 .. n /\ last \in BOOLEAN /\ b \in Building /\ Midway(c, b, W)
        /\ Grows(c, b) /\ (direction = 1 => InOrder(c, b, W))
    <3>1. i \in 0 .. n /\ i - 1 \in 0 .. n
      BY <1>3
    <3> QED
      BY <1>3, <1>7, <3>1
  <2>2. x \in W /\ V = W \ {x} /\ W \subseteq ToSet(c.b.from) \cap IsChildHere(c.b, c.pid)
    BY <1>3
  <2>3. last <=> V = {}
    BY <1>5
  <2>4. placed[i] = PlaceChild(below, c, b, x, last)
    BY <1>4
  <2> HIDE DEF b, x, last, W, V
  <2>5. /\ Grows(c, PlaceChild(below, c, b, x, last))
        /\ direction = 1 => InOrder(c, PlaceChild(below, c, b, x, last), V)
    BY <2>1, <2>2, <2>3, TurnIsRight
  <2> QED
    BY <2>1, <2>4, <2>5 DEF V
<1>8. \A i \in 0 .. n : i \in P
  <2> HIDE DEF P
  <2> QED
    BY <1>3, <1>6, <1>7, EachTurn
<1> QED
  BY <1>8 DEF n, Wait

LEMMA BuildIsRight ==
  ASSUME ps \in [Pid -> Process]
  PROVE  \A c \in Call : BuildTree(c) \in Building /\ Right(c, BuildTree(c))
<1> DEFINE R == {x \in Call \X Building : Right(x[1], x[2])}
<1>1. ASSUME NEW below \in [Call -> Building], NEW c \in Call,
             \A d \in Call : Len(d.b.from) < Len(c.b.from) => <<d, below[d]>> \in R
      PROVE  <<c, PlaceChildren(below, c)>> \in R
  <2>1. \A d \in Call : Len(d.b.from) < Len(c.b.from) => Right(d, below[d])
    BY <1>1
  <2>2. PICK placed, children : Placing(placed, below, c, children)
                                /\ PlaceChildren(below, c) = placed[Len(children)]
    BY PlacedRuns
  <2> DEFINE r == placed[Len(children)]  n == Len(children)
  <2>3. r \in Building /\ n \in 0 .. n
    <3>1. Len(children) \in 0 .. Len(children)
      BY <2>2 DEF Placing
    <3> QED
      BY <2>2, <3>1 DEF Placing
  <2>4. ASSUME Sound(c.b) PROVE Midway(c, r, {})
    <3>1. Len(children) \in Nat /\ \A i \in 0 .. Len(children) : Midway(c, placed[i], Waiting(children, i))
      <4>1. \A d \in Call : Len(d.b.from) < Len(c.b.from) => Keeps(d, below[d])
        BY <2>1 DEF Right
      <4> QED
        BY <2>2, <2>4, <4>1, PlacingKeeps
    <3>2. Len(children) \in 0 .. Len(children) /\ Waiting(children, Len(children)) = {}
      BY <3>1, NothingWaits
    <3> QED
      BY <3>1, <3>2
  <2>5. ASSUME Family(c) PROVE Grows(c, r) /\ (direction = 1 => InOrder(c, r, {}))
    <3>1. \A i \in 0 .. n : Grows(c, placed[i]) /\ (direction = 1 => InOrder(c, placed[i], Waiting(children, i)))
      BY <2>1, <2>2, <2>5, PlacingGrows
    <3>2. Waiting(children, n) = {}
      BY <2>3, NothingWaits
    <3> QED
      BY <2>3, <3>1, <3>2
  <2> HIDE DEF r, n
  <2>6. ASSUME Family(c), NEW q \in ToSet(c.b.from), c.b.ps[q].show, Parent(q) = c.pid PROVE q \in Took(c.b, r)
    <3>1. CircleInv /\ c.pid \in seen /\ q \in seen \ {c.pid} /\ q \in Pid /\ Sound(c.b)
      BY <2>6, ForestFacts DEF Family
    <3>2. q \in IsChildHere(c.b, c.pid)
      BY <2>6, <3>1, ChildIs DEF IsChildHere
    <3>3. Midway(c, r, {})
      BY <2>4, <3>1
    <3>4. q \in ToSet(r.to) /\ q \notin ToSet(c.b.to)
      BY <3>1, <3>2, <3>3 DEF Midway, Sound
    <3> QED
      BY <3>4 DEF Took
  <2>7. Keeps(c, r)
    BY <2>3, <2>4, MidwayIsMoved DEF Keeps
  <2>8. Right(c, r)
    BY <2>5, <2>6, <2>7 DEF Right, Grown, Ordered
  <2> QED
    BY <2>2, <2>3, <2>8 DEF r
<1> HIDE DEF R
<1>2. \A c \in Call : BuildTree(c) \in Building /\ <<c, BuildTree(c)>> \in R
  BY <1>1, BuildRule
<1> QED
  BY <1>2 DEF R
-----------------------------------------------------------------------------
(* What is drawn. *)

LinesOf(up, t, p) ==
  {Cardinality(up[q]) - 1 : q \in {a \in up[p] \cup {p} : Cardinality(up[a]) > 0 /\ (a = p \/ ~t[a].last)}}
Opened(up, t, vis, p) == p \in vis /\ \A q \in up[p] : q \in vis /\ t[q].showChildren
RowRight(up, t, vis, placed, p) ==
  /\ t[p].show <=> Opened(up, t, vis, p)
  /\ t[p].show => up[p] \subseteq placed /\ t[p].indent = LinesOf(up, t, p)
Shown(t) == {p \in Pid : t[p].show}

\* A list of rows, with the table they are in, is the forest of those the scan let be shown.
Drawing(up, par, t, vis, dir, rows) ==
  /\ \A p \in ToSet(rows) : RowRight(up, t, vis, ToSet(rows), p)
  /\ dir = 1 => /\ Blocks(up, rows, Shown(t), 0, Len(rows))
                /\ Lasts(par, t, rows, Shown(t), 0, Pid, 0, Len(rows))

\* What is not placed is as the scan left it, and so is its parent, if it is to be shown.
Unplaced(par, t, vis, left) ==
  \A q \in left : /\ t[q].show <=> q \in vis
                  /\ q \in vis /\ par[q] # 0 => par[q] \in left

RowsInv ==
  /\ CircleInv
  /\ phase \in {"scan", "sort"} => \A q \in seen : ps[q].show <=> q \in visible
  /\ phase = "tree" => /\ Unplaced(ParentOf, ps, visible, ToSet(processes))
                       /\ Drawing(Up, ParentOf, ps, visible, direction, processes2)
  /\ phase = "drawn" => Drawing(Up, ParentOf, ps, visible, direction, processes)

\* What a turn of the loop over the roots does, in the forest.
RootTurn(c, r, p) ==
  /\ c.pid = p /\ c.indent = {} /\ p \in seen /\ Took(c.b, r) \subseteq seen /\ ToSet(processes2) \subseteq seen
  /\ p \notin Took(c.b, r) /\ p \notin ToSet(processes2) /\ Took(c.b, r) \cap ToSet(processes2) = {}
  /\ ToSet(r.to) = ToSet(processes2) \cup {p} \cup Took(c.b, r)
  /\ ToSet(processes) = ToSet(r.from) \cup {p} \cup Took(c.b, r)
  /\ \A q \in ToSet(processes2) \cup ToSet(r.from) : r.ps[q] = ps[q]
  /\ \A q \in Pid : r.ps[q].showChildren = ps[q].showChildren
  /\ r.ps[p].show = ps[p].show /\ r.ps[p].indent = {} /\ ~r.ps[p].last
  /\ ps[p].show <=> p \in visible
  /\ ps[p].show => Parent(p) = 0
  /\ \A q \in Took(c.b, r) :
       /\ q \in visible /\ p \in Above(q) /\ Path(p, q) \subseteq Took(c.b, r)
       /\ r.ps[q].show <=> /\ ps[p].show /\ ps[p].showChildren
                           /\ \A a \in Path(p, q) : ps[a].showChildren
       /\ Depth(p) = 0 => r.ps[q].indent = LinesTo(c, r.ps, q)
  /\ \A q \in ToSet(r.from) : q \in visible => Parent(q) \notin Took(c.b, r) \cup {p}

LEMMA RootIsTop ==
  ASSUME RowsInv, phase = "tree", NEW p \in ToSet(processes), IsRoot(p), ps[p].show
  PROVE  Parent(p) = 0
<1>1. /\ processes \in Seq(Pid) /\ Increasing(processes) /\ ToSet(processes) \subseteq seen /\ CircleInv
  BY DEF RowsInv, CircleInv, KeepsInv, TreeTypes
<1>2. Parent(p) # 0 => Parent(p) = ParentPid(p) /\ Parent(p) \in seen \ {p}
  BY DEF Parent
<1>3. p \in visible /\ (ParentOf[p] # 0 => ParentOf[p] \in ToSet(processes)) /\ ParentOf[p] = Parent(p)
  BY <1>1 DEF RowsInv, Unplaced, ParentOf
<1>4. p = ParentPid(p) \/ ~Bisect(ParentPid(p))
  BY DEF IsRoot
<1> QED
  BY <1>1, <1>2, <1>3, <1>4, BisectIsFound

LEMMA RootTurnIs ==
  ASSUME RowsInv, NEW i, NEW p, NEW c, NEW r, IsRootCall(c, i, p), r = BuildTree(c), TookRoot(c, r, p)
  PROVE  RootTurn(c, r, p)
<1> DEFINE K == Took(c.b, r)  F == ToSet(c.b.from)
<1>1. /\ p \in Pid /\ p \in ToSet(processes) /\ c \in Call /\ Sound(c.b)
      /\ F = ToSet(processes) \ {p} /\ ToSet(c.b.to) = ToSet(processes2) \cup {p}
      /\ SameData(c.b.ps, ps) /\ \A q \in Pid \ {p} : c.b.ps[q] = ps[q]
      /\ c.b.ps[p].show = ps[p].show /\ c.b.ps[p].indent = {} /\ ~c.b.ps[p].last
      /\ c.pid = p /\ c.level = 0 /\ c.indent = {} /\ c.show = ShowBelow(ps[p].show, p)
  BY DEF IsRootCall
<1>2. /\ r \in Building /\ Moved(c.b, r) /\ IsRoot(p) /\ phase = "tree"
  BY DEF TookRoot
<1>3. /\ CircleInv /\ ps \in [Pid -> Process] /\ processes \in Seq(Pid) /\ seen \subseteq Pid
      /\ seen = ToSet(processes) \cup ToSet(processes2) /\ ToSet(processes) \cap ToSet(processes2) = {}
      /\ Unplaced(ParentOf, ps, visible, ToSet(processes))
  BY <1>2 DEF RowsInv, CircleInv, KeepsInv, TreeTypes
<1>4. /\ Sound(r) /\ ToSet(r.from) \cup ToSet(r.to) = F \cup ToSet(c.b.to)
      /\ ToSet(c.b.to) \subseteq ToSet(r.to) /\ SameData(r.ps, c.b.ps)
      /\ \A q \in Pid \ K : r.ps[q] = c.b.ps[q]
  BY <1>2 DEF Moved
<1>5. Family(c)
  BY <1>1, <1>3 DEF Family
<1>6. Grown(c, r)
  BY <1>1, <1>3, BuildIsRight DEF Right
<1>7. /\ \A q \in K : Placed(c, r, q)
      /\ \A q \in F : c.b.ps[q].show /\ Parent(q) \in K \cup {p} => q \in K
  BY <1>1, <1>5, <1>6 DEF Grown, Grows
<1>8. K = ToSet(r.to) \ (ToSet(processes2) \cup {p})
  BY <1>1 DEF Took
<1> HIDE DEF K, F
<1>9. /\ p \in seen /\ K \subseteq seen /\ ToSet(processes2) \subseteq seen
      /\ p \notin K /\ p \notin ToSet(processes2) /\ K \cap ToSet(processes2) = {}
      /\ ToSet(r.to) = ToSet(processes2) \cup {p} \cup K
      /\ ToSet(processes) = ToSet(r.from) \cup {p} \cup K
      /\ p \notin ToSet(r.from) /\ K \cap ToSet(r.from) = {} /\ ToSet(r.from) \subseteq F
      /\ K \subseteq ToSet(processes)
  BY <1>1, <1>3, <1>4, <1>8 DEF Sound
<1>10. \A q \in ToSet(processes2) \cup ToSet(r.from) : r.ps[q] = ps[q]
  BY <1>1, <1>3, <1>4, <1>9
<1>11. \A q \in Pid : r.ps[q].showChildren = ps[q].showChildren
  BY <1>1, <1>4 DEF SameData
<1>12. r.ps[p].show = ps[p].show /\ r.ps[p].indent = {} /\ ~r.ps[p].last
  <2>1. r.ps[p] = c.b.ps[p]
    BY <1>1, <1>4, <1>9
  <2> QED
    BY <1>1, <2>1
<1>13. \A q \in ToSet(processes) : (ps[q].show <=> q \in visible)
  BY <1>3 DEF Unplaced
<1>14. ps[p].show => Parent(p) = 0
  BY <1>1, <1>2, RootIsTop
<1>15. ASSUME NEW q \in K
       PROVE  /\ q \in visible /\ p \in Above(q) /\ Path(p, q) \subseteq K
              /\ r.ps[q].show <=> /\ ps[p].show /\ ps[p].showChildren
                                  /\ \A a \in Path(p, q) : ps[a].showChildren
              /\ Depth(p) = 0 => r.ps[q].indent = LinesTo(c, r.ps, q)
  <2>1. /\ c.b.ps[q].show /\ p \in Above(q) /\ Path(p, q) \subseteq K
        /\ r.ps[q].show <=> c.show /\ \A a \in Path(p, q) : ps[a].showChildren
        /\ Depth(p) = 0 => r.ps[q].indent = LinesTo(c, r.ps, q)
    BY <1>1, <1>7 DEF Placed, K
  <2>2. q \in visible
    <3>1. c.b.ps[q] = ps[q] /\ q \in ToSet(processes)
      BY <1>1, <1>3, <1>9
    <3> QED
      BY <1>13, <2>1, <3>1
  <2>3. c.show <=> ps[p].show /\ ps[p].showChildren
    BY <1>1 DEF ShowBelow
  <2> QED
    BY <2>1, <2>2, <2>3
<1>16. ASSUME NEW q \in ToSet(r.from), q \in visible PROVE Parent(q) \notin K \cup {p}
  <2>1. q \in F /\ q \notin K /\ q \in ToSet(processes) /\ q # p
    BY <1>9
  <2>2. c.b.ps[q] = ps[q] /\ ps[q].show
    BY <1>1, <1>3, <1>13, <1>16, <2>1
  <2> QED
    BY <1>7, <2>1, <2>2
<1> QED
  BY <1>1, <1>9, <1>10, <1>11, <1>12, <1>13, <1>14, <1>15, <1>16 DEF RootTurn, K

\* The rows that are there stay right, ...
LEMMA OldRowRight ==
  ASSUME RowsInv, NEW c, NEW r, NEW p, RootTurn(c, r, p), NEW q \in ToSet(processes2),
         RowRight(Up, ps, visible, ToSet(processes2), q)
  PROVE  RowRight(Up, r.ps, visible, ToSet(r.to), q)
<1> DEFINE t == r.ps
<1>1. /\ CircleInv /\ ToSet(processes2) \subseteq seen /\ seen \subseteq Pid
      /\ ToSet(processes2) \subseteq ToSet(r.to)
      /\ \A a \in ToSet(processes2) : t[a] = ps[a]
      /\ \A a \in Pid : t[a].showChildren = ps[a].showChildren
  BY ForestFacts DEF RootTurn, RowsInv
<1> HIDE DEF t
<1>2. Up[q] \subseteq Pid
  BY <1>1, ForestFacts DEF Up
<1>3. Opened(Up, t, visible, q) <=> Opened(Up, ps, visible, q)
  <2>1. \A a \in Up[q] : t[a].showChildren <=> ps[a].showChildren
    BY <1>1, <1>2
  <2> QED
    BY <2>1, Zenon DEF Opened
<1>4. ASSUME ps[q].show PROVE Up[q] \subseteq ToSet(r.to) /\ t[q].indent = LinesOf(Up, t, q)
  <2>1. Up[q] \subseteq ToSet(processes2) /\ ps[q].indent = LinesOf(Up, ps, q)
    BY <1>4 DEF RowRight
  <2> DEFINE A == {a \in Up[q] \cup {q} : Cardinality(Up[a]) > 0 /\ (a = q \/ ~t[a].last)}
             B == {a \in Up[q] \cup {q} : Cardinality(Up[a]) > 0 /\ (a = q \/ ~ps[a].last)}
  <2>2. \A a \in Up[q] \cup {q} : t[a] = ps[a]
    BY <1>1, <2>1
  <2>3. A = B
    BY <2>2
  <2>4. LinesOf(Up, t, q) = {Cardinality(Up[a]) - 1 : a \in A}
        /\ LinesOf(Up, ps, q) = {Cardinality(Up[a]) - 1 : a \in B}
    BY DEF LinesOf
  <2> HIDE DEF A, B
  <2> QED
    BY <1>1, <2>1, <2>2, <2>3, <2>4
<1>5. t[q].show <=> ps[q].show
  BY <1>1
<1>6. ps[q].show <=> Opened(Up, ps, visible, q)
  BY DEF RowRight
<1>7. RowRight(Up, t, visible, ToSet(r.to), q)
  BY <1>3, <1>4, <1>5, <1>6, Zenon DEF RowRight
<1> QED
  BY <1>7 DEF t

\* ... and the new ones are.
LEMMA NewRowRight ==
  ASSUME RowsInv, NEW c, NEW r, NEW p, RootTurn(c, r, p), NEW q \in Took(c.b, r) \cup {p}
  PROVE  RowRight(Up, r.ps, visible, ToSet(r.to), q)
<1> DEFINE t == r.ps  K == Took(c.b, r)
<1>1. /\ CircleInv /\ seen \subseteq Pid /\ c.pid = p /\ c.indent = {} /\ p \in seen /\ K \subseteq seen
      /\ p \notin K /\ K \cup {p} \subseteq ToSet(r.to)
      /\ \A a \in Pid : t[a].showChildren = ps[a].showChildren
      /\ t[p].show = ps[p].show /\ t[p].indent = {}
      /\ ps[p].show <=> p \in visible
      /\ ps[p].show => Parent(p) = 0
  BY ForestFacts DEF RootTurn, RowsInv
<1>2. \A a \in K :
       /\ a \in visible /\ p \in Above(a) /\ Path(p, a) \subseteq K
       /\ t[a].show <=> /\ ps[p].show /\ ps[p].showChildren
                        /\ \A z \in Path(p, a) : ps[z].showChildren
       /\ Depth(p) = 0 => t[a].indent = LinesTo(c, t, a)
  BY DEF RootTurn
<1>3. \A a \in seen : Up[a] = Above(a) /\ Cardinality(Up[a]) = Depth(a)
  BY DEF Up, Depth
<1> HIDE DEF t, K
<1>4. CASE q = p
  <2>1. t[p].show <=> Opened(Up, t, visible, p)
    <3>1. CASE ps[p].show
      <4>1. Up[p] = {}
        BY <1>1, <1>3, <3>1, ForestFacts
      <4> QED
        BY <1>1, <3>1, <4>1 DEF Opened
    <3>2. CASE ~ps[p].show
      BY <1>1, <3>2 DEF Opened
    <3> QED
      BY <3>1, <3>2
  <2>2. ASSUME t[p].show PROVE Up[p] \subseteq ToSet(r.to) /\ t[p].indent = LinesOf(Up, t, p)
    <3>1. ps[p].show /\ Up[p] = {} /\ Cardinality(Up[p]) = 0
      BY <1>1, <1>3, <2>2, ForestFacts
    <3>2. {a \in Up[p] \cup {p} : Cardinality(Up[a]) > 0 /\ (a = p \/ ~t[a].last)} = {}
      BY <3>1
    <3>3. LinesOf(Up, t, p) = {}
      BY <3>2 DEF LinesOf
    <3> QED
      BY <1>1, <3>1, <3>3
  <2> QED
    BY <1>4, <2>1, <2>2, Zenon DEF RowRight, t
<1>5. CASE q \in K
  <2>1. q \in seen /\ Up[q] = Above(q) /\ p \in Up[q] /\ q \in visible /\ Path(p, q) \subseteq K
    BY <1>1, <1>2, <1>3, <1>5
  <2>2. t[q].show <=> Opened(Up, t, visible, q)
    <3>1. CASE ps[p].show
      <4>1. Up[q] = Path(p, q) \cup {p}
        <5>1. Above(p) = {}
          BY <1>1, <3>1, ForestFacts
        <5> QED
          BY <2>1, <5>1 DEF Path
      <4>2. \A a \in Path(p, q) : a \in visible /\ a \in Pid
        BY <1>1, <1>2, <2>1
      <4>3. Opened(Up, t, visible, q) <=> /\ ps[p].showChildren
                                          /\ \A a \in Path(p, q) : ps[a].showChildren
        <5>1. t[p].showChildren = ps[p].showChildren
              /\ \A a \in Path(p, q) : t[a].showChildren = ps[a].showChildren
          BY <1>1, <4>2
        <5>2. p \in visible
          BY <1>1, <3>1
        <5> QED
          BY <2>1, <4>1, <4>2, <5>1, <5>2 DEF Opened
      <4> QED
        BY <1>2, <1>5, <3>1, <4>3
    <3>2. CASE ~ps[p].show
      BY <1>1, <1>2, <1>5, <2>1, <3>2 DEF Opened
    <3> QED
      BY <3>1, <3>2
  <2>3. ASSUME t[q].show PROVE Up[q] \subseteq ToSet(r.to) /\ t[q].indent = LinesOf(Up, t, q)
    <3>1. ps[p].show /\ Parent(p) = 0
      BY <1>1, <1>2, <1>5, <2>3
    <3>2. Above(p) = {} /\ Depth(p) = 0
      BY <1>1, <3>1, ForestFacts
    <3>3. Up[q] = Path(p, q) \cup {p}
      BY <2>1, <3>2 DEF Path
    <3>4. \A a \in K : Depth(a) \in Nat /\ Depth(a) > 0
      <4> TAKE a \in K
      <4>1. a \in seen /\ Parent(a) # 0
        BY <1>1, <1>2, ForestFacts
      <4>2. Depth(a) = Depth(Parent(a)) + 1 /\ Depth(Parent(a)) \in Nat
        BY <1>1, <4>1, ForestFacts
      <4> QED
        BY <4>2
    <3> DEFINE A == {a \in Up[q] \cup {q} : Cardinality(Up[a]) > 0 /\ (a = q \/ ~t[a].last)}
               B == {a \in Path(p, q) \cup {q} : a = q \/ ~t[a].last}
    <3>5. A = B
      <4>1. Cardinality(Up[p]) = 0
        BY <1>1, <1>3, <3>2
      <4>2. \A a \in Path(p, q) \cup {q} : Cardinality(Up[a]) > 0
        BY <1>1, <1>3, <1>5, <2>1, <3>4
      <4>3. \A a : a \in Up[q] \cup {q} /\ Cardinality(Up[a]) > 0 <=> a \in Path(p, q) \cup {q}
        BY <3>3, <4>1, <4>2
      <4> QED
        BY <4>3
    <3>6. LinesOf(Up, t, q) = {Cardinality(Up[a]) - 1 : a \in A}
      BY DEF LinesOf
    <3>7. LinesTo(c, t, q) = {Depth(a) - 1 : a \in B}
      BY <1>1 DEF LinesTo
    <3>8. \A a \in B : Cardinality(Up[a]) = Depth(a)
      BY <1>1, <1>3, <1>5, <2>1
    <3> HIDE DEF A, B
    <3>9. LinesOf(Up, t, q) = LinesTo(c, t, q)
      BY <3>5, <3>6, <3>7, <3>8
    <3>10. Up[q] \subseteq ToSet(r.to)
      BY <1>1, <2>1, <3>3
    <3> QED
      BY <1>2, <1>5, <3>2, <3>9, <3>10
  <2> QED
    BY <2>2, <2>3, Zenon DEF RowRight, t
<1> QED
  BY <1>4, <1>5 DEF K

\* Of the rows added, siblings are displayed together.
LEMMA SiblingsAlike ==
  ASSUME RowsInv, NEW c, NEW r, NEW p, RootTurn(c, r, p), NEW a \in Took(c.b, r), NEW b \in Took(c.b, r),
         Parent(a) = Parent(b), r.ps[a].show
  PROVE  r.ps[b].show
<1>1. CircleInv /\ a \in seen /\ b \in seen /\ a \in visible /\ b \in visible /\ p \in Above(a) /\ p \in Above(b)
  BY DEF RootTurn, RowsInv
<1>2. Above(a) = Above(b)
  <2>1. Parent(a) # 0 /\ Parent(b) # 0
    BY <1>1, ForestFacts
  <2> QED
    BY <1>1, <2>1, ForestFacts
<1>3. Up[a] = Up[b]
  BY <1>1, <1>2 DEF Up
<1>4. RowRight(Up, r.ps, visible, ToSet(r.to), a) /\ RowRight(Up, r.ps, visible, ToSet(r.to), b)
  BY NewRowRight
<1>5. Opened(Up, r.ps, visible, a)
  BY <1>4 DEF RowRight
<1>6. Opened(Up, r.ps, visible, b)
  BY <1>1, <1>3, <1>5, Zenon DEF Opened
<1> QED
  BY <1>4, <1>6 DEF RowRight

\* Fewer of the rows matter, or those of another list.
LEMMA BlocksOfSome ==
  ASSUME NEW l, NEW n, NEW up, NEW s, NEW Z, NEW Y, Blocks(up, s, Z, l, n),
         \A k \in l + 1 .. n : s[k] \in Y => s[k] \in Z
  PROVE  Blocks(up, s, Y, l, n)
BY DEF Blocks

LEMMA LastsOfSome ==
  ASSUME NEW l, NEW n, NEW par, NEW t, NEW s, NEW p, NEW W, NEW Z, NEW Y, Lasts(par, t, s, Z, p, W, l, n),
         \A k \in l + 1 .. n : s[k] \in Y => s[k] \in Z,
         \A i, j \in l + 1 .. n : s[i] \in Y /\ par[s[j]] = par[s[i]] /\ s[j] \in Z => s[j] \in Y
  PROVE  Lasts(par, t, s, Y, p, W, l, n)
<1> SUFFICES ASSUME NEW i \in l + 1 .. n, s[i] \in Y
             PROVE  t[s[i]].last <=> /\ par[s[i]] = p => W = {}
                                     /\ \A j \in l + 1 .. n : s[j] \in Y /\ par[s[j]] = par[s[i]] => j <= i
  BY DEF Lasts
<1>1. t[s[i]].last <=> /\ par[s[i]] = p => W = {}
                       /\ \A j \in l + 1 .. n : s[j] \in Z /\ par[s[j]] = par[s[i]] => j <= i
  BY DEF Lasts
<1>2. \A j \in l + 1 .. n : (s[j] \in Y /\ par[s[j]] = par[s[i]]) <=> (s[j] \in Z /\ par[s[j]] = par[s[i]])
  OBVIOUS
<1> QED
  BY <1>1, <1>2, Zenon

LEMMA RootRowsInOrder ==
  ASSUME RowsInv, NEW i, NEW p, NEW c, NEW r, IsRootCall(c, i, p), r = BuildTree(c), TookRoot(c, r, p),
         direction = 1
  PROVE  /\ Blocks(Up, r.to, Shown(r.ps), 0, Len(r.to))
         /\ Lasts(ParentOf, r.ps, r.to, Shown(r.ps), 0, Pid, 0, Len(r.to))
<1> DEFINE K == Took(c.b, r)  t == r.ps  Z == Shown(t)  L == ToSet(processes2)
           s == processes2  w == r.to  m == Len(s)  n == Len(w)  o == 0
<1>1. /\ c \in Call /\ Sound(c.b) /\ c.b.to = Append(s, p) /\ p \in Pid /\ ToSet(c.b.from) = ToSet(processes) \ {p}
      /\ c.pid = p /\ p \in ToSet(processes)
  BY DEF IsRootCall
<1>2. /\ CircleInv /\ s \in Seq(Pid) /\ r \in Building /\ Moved(c.b, r) /\ ps \in [Pid -> Process]
      /\ ToSet(processes) \subseteq seen
      /\ \A q \in L : RowRight(Up, ps, visible, L, q)
      /\ Blocks(Up, s, Shown(ps), 0, m) /\ Lasts(ParentOf, ps, s, Shown(ps), 0, Pid, 0, m)
  BY DEF TookRoot, RowsInv, Drawing, CircleInv, KeepsInv, TreeTypes
<1>3. w \in Seq(Pid) /\ t \in [Pid -> Process] /\ IsInjective(w)
  BY <1>2 DEF Building, Moved, Sound
<1>4. RootTurn(c, r, p)
  BY RootTurnIs
<1>5. /\ p \in seen /\ K \subseteq seen /\ L \subseteq seen
      /\ p \notin K /\ p \notin L /\ K \cap L = {}
      /\ \A q \in L : t[q] = ps[q]
      /\ t[p].show = ps[p].show /\ ~t[p].last
      /\ ps[p].show => Parent(p) = 0
      /\ \A q \in K : p \in Above(q) /\ Path(p, q) \subseteq K /\ (t[q].show => ps[p].show)
  BY <1>4 DEF RootTurn
<1>6. InOrder(c, r, {})
  <2>1. Family(c)
    BY <1>1, <1>2 DEF Family
  <2>2. Ordered(c, r)
    BY <1>1, <1>2, BuildIsRight DEF Right
  <2> QED
    BY <2>1, <2>2 DEF Ordered
<1>7. m \in Nat /\ n \in Nat /\ Len(c.b.to) = m + 1 /\ c.b.to \in Seq(Pid)
      /\ c.b.to[m + 1] = p /\ \A k \in 1 .. m : c.b.to[k] = s[k]
  BY <1>1, <1>2, <1>3
<1>8. /\ Len(c.b.to) <= n /\ \A k \in 1 .. Len(c.b.to) : w[k] = c.b.to[k]
      /\ Blocks(Up, w, Pid, Len(c.b.to), n) /\ Lasts(ParentOf, t, w, Pid, p, {}, Len(c.b.to), n)
  BY <1>1, <1>6 DEF InOrder
<1>9. K = {w[k] : k \in m + 2 .. n}
  <2>1. K = {w[k] : k \in Len(c.b.to) + 1 .. n}
    <3> DEFINE a == c.b
    <3>1. a.to \in Seq(Pid) /\ r.to \in Seq(Pid) /\ IsInjective(r.to) /\ Len(a.to) <= Len(r.to)
          /\ \A k \in 1 .. Len(a.to) : r.to[k] = a.to[k]
      BY <1>3, <1>7, <1>8
    <3> HIDE DEF a
    <3>2. Took(a, r) = {r.to[k] : k \in Len(a.to) + 1 .. Len(r.to)}
      BY <3>1, TookIs
    <3> QED
      BY <3>2 DEF a
  <2>2. Len(c.b.to) + 1 .. n = m + 2 .. n
    BY <1>7
  <2> QED
    BY <2>1, <2>2
<1>10. \A k \in 1 .. m : s[k] \in L
  BY <1>2, SeqFacts
<1>11. \A a, b \in K : Parent(a) = Parent(b) /\ t[a].show => t[b].show
  BY <1>4, SiblingsAlike
<1> HIDE DEF K, t, Z, L, s, w, m, n, o
<1>12. /\ o \in Nat /\ o = 0 /\ o <= m /\ m < n /\ (\A k \in 1 .. m : w[k] = s[k] /\ w[k] \in L) /\ w[m + 1] = p
       /\ Blocks(Up, w, Pid, m + 1, n) /\ Lasts(ParentOf, t, w, Pid, p, {}, m + 1, n)
       /\ o + 1 = 1
  <2>1. m + 1 \in 1 .. m + 1 /\ \A k \in 1 .. m : k \in 1 .. m + 1
    BY <1>7
  <2>2. \A k \in 1 .. m + 1 : w[k] = c.b.to[k]
    BY <1>7, <1>8
  <2>3. Blocks(Up, w, Pid, m + 1, n) /\ Lasts(ParentOf, t, w, Pid, p, {}, m + 1, n)
    BY <1>7, <1>8, Zenon
  <2> QED
    BY <1>7, <1>8, <1>10, <2>1, <2>2, <2>3 DEF o
<1>13. \A k \in m + 2 .. n : w[k] \in K
  BY <1>9
<1>14. \A k \in m + 1 .. n : w[k] \in K \cup {p}
  <2> TAKE k \in m + 1 .. n
  <2>1. CASE k = m + 1
    BY <1>12, <2>1
  <2>2. CASE k # m + 1
    <3>1. k \in m + 2 .. n
      BY <1>7, <2>2
    <3> QED
      BY <1>13, <3>1
  <2> QED
    BY <2>1, <2>2
<1>15. /\ seen \subseteq Pid /\ 0 \notin Pid
       /\ \A q \in seen : Up[q] = Above(q) /\ ParentOf[q] = Parent(q)
  BY <1>2, ForestFacts DEF Up, ParentOf
<1>16. \A q \in Pid : q \in Z <=> t[q].show
  BY DEF Z, Shown
<1>17. /\ \A q \in L : q \in Z <=> q \in Shown(ps)
       /\ \A q \in L : q \in Z => Above(q) \subseteq L
       /\ p \in Z => Parent(p) = 0 /\ Above(p) = {}
       /\ \A q \in K : q \in Z => Above(q) \subseteq K \cup {p}
  <2>1. \A q \in L : q \in Z <=> q \in Shown(ps)
    BY <1>5, <1>15, <1>16 DEF Shown
  <2>2. ASSUME NEW q \in L, q \in Z PROVE Above(q) \subseteq L
    <3>1. ps[q].show
      BY <2>1, <2>2 DEF Shown
    <3>2. Up[q] \subseteq L
      BY <1>2, <3>1 DEF RowRight
    <3> QED
      BY <1>5, <1>15, <3>2
  <2>3. p \in Z => Parent(p) = 0 /\ Above(p) = {}
    BY <1>2, <1>5, <1>15, <1>16, ForestFacts
  <2>4. ASSUME NEW q \in K, q \in Z PROVE Above(q) \subseteq K \cup {p}
    <3>1. p \in Z
      BY <1>5, <1>15, <1>16, <2>4
    <3> QED
      BY <1>5, <2>3, <2>4, <3>1 DEF Path
  <2> QED
    BY <2>1, <2>2, <2>3, <2>4
<1>18. \A q \in K : p \in Above(q) /\ q \notin Above(p) /\ Parent(q) # 0
  BY <1>2, <1>5, BelowIsApart, ForestFacts
<1>19. \A k \in o + 1 .. m : w[k] = s[k] /\ w[k] \in L
  BY <1>12
<1>20. Blocks(Up, w, Z, o, n)
  <2>1. Blocks(Up, s, Z, o, m)
    <3>1. \A k \in o + 1 .. m : s[k] \in Z => s[k] \in Shown(ps)
      BY <1>17, <1>19
    <3>2. Blocks(Up, s, Shown(ps), o, m)
      BY <1>2 DEF o, s, m
    <3> QED
      BY <3>1, <3>2, BlocksOfSome
  <2>2. Blocks(Up, w, Z, m + 1, n)
    <3> DEFINE k1 == m + 1
    <3>1. Blocks(Up, w, Pid, k1, n)
      BY <1>12
    <3>2. \A k \in k1 + 1 .. n : w[k] \in Z => w[k] \in Pid
      BY DEF Z, Shown
    <3> HIDE DEF k1
    <3>3. Blocks(Up, w, Z, k1, n)
      BY <3>1, <3>2, BlocksOfSome
    <3> QED
      BY <3>3 DEF k1
  <2>3. \A a \in L : \A q \in K \cup {p} : (q \in Z => a \notin Up[q]) /\ (a \in Z => q \notin Up[a])
    <3> TAKE a \in L
    <3> TAKE q \in K \cup {p}
    <3>1. Up[q] = Above(q) /\ Up[a] = Above(a)
      BY <1>5, <1>15
    <3>2. q \in Z => a \notin Above(q)
      BY <1>5, <1>17
    <3>3. a \in Z => q \notin Above(a)
      BY <1>5, <1>17
    <3> QED
      BY <3>1, <3>2, <3>3
  <2>4. \A k \in o + 1 .. m : \A j \in m + 1 .. n :
            (w[j] \in Z => w[k] \notin Up[w[j]]) /\ (w[k] \in Z => w[j] \notin Up[w[k]])
    BY <1>14, <1>19, <2>3
  <2>5. p \notin Up[p] /\ \A k \in m + 2 .. n : p \in Up[w[k]] /\ w[k] \notin Up[p]
    <3>1. p \notin Above(p)
      BY <1>2, <1>5, ForestFacts
    <3> QED
      BY <1>5, <1>13, <1>15, <1>18, <3>1
  <2> QED
    BY <1>7, <1>12, <2>1, <2>2, <2>4, <2>5, BlocksJoin
<1>21. Lasts(ParentOf, t, w, Z, o, Pid, o, n)
  <2> DEFINE k1 == m + 1  u == ps  E == {}
  <2>1. Lasts(ParentOf, u, s, Z, o, Pid, o, m)
    <3>1. \A k \in o + 1 .. m : s[k] \in Z <=> s[k] \in Shown(ps)
      BY <1>17, <1>19
    <3>2. Lasts(ParentOf, u, s, Shown(ps), o, Pid, o, m)
      BY <1>2 DEF o, s, m
    <3> HIDE DEF u
    <3> QED
      BY <3>1, <3>2, LastsOfSome
  <2>2. Lasts(ParentOf, t, w, Z, p, E, k1, n)
    <3>1. Lasts(ParentOf, t, w, Pid, p, E, k1, n)
      BY <1>12
    <3>2. \A k \in k1 + 1 .. n : w[k] \in K
      <4>1. k1 + 1 .. n = m + 2 .. n
        BY <1>7
      <4> QED
        BY <1>13, <4>1
    <3>3. \A k \in k1 + 1 .. n : w[k] \in Z => w[k] \in Pid
      BY DEF Z, Shown
    <3>4. \A k, j \in k1 + 1 .. n : w[k] \in Z /\ ParentOf[w[j]] = ParentOf[w[k]] /\ w[j] \in Pid => w[j] \in Z
      <4>1. \A a, b \in K : a \in Z /\ ParentOf[b] = ParentOf[a] => b \in Z
        BY <1>5, <1>11, <1>15, <1>16
      <4> QED
        BY <3>2, <4>1
    <3> HIDE DEF k1, E
    <3> QED
      BY <3>1, <3>3, <3>4, LastsOfSome
  <2>3. LastsMeet(ParentOf, o, m, n, s, w, Z, p, o, Pid, Pid, u, t, t)
    <3>1. \A k \in 1 .. m : w[k] = s[k]
      BY <1>12
    <3>2. w[m + 1] = p /\ (p \in Z => ParentOf[p] = o) /\ Pid # {} /\ (Pid = {} => p \in Z)
          /\ (t[p].last <=> Pid = {})
      BY <1>1, <1>5, <1>12, <1>15, <1>17
    <3>3. \A k \in o + 1 .. m : t[w[k]].last <=> u[s[k]].last
      BY <1>5, <1>19, Zenon
    <3>4. \A k \in m + 2 .. n : (t[w[k]].last <=> t[w[k]].last) /\ ParentOf[w[k]] # o
      BY <1>5, <1>12, <1>13, <1>15, <1>18
    <3>5. \A k \in o + 1 .. m : \A j \in m + 1 .. n :
            w[k] \in Z /\ w[j] \in Z /\ ParentOf[w[k]] # o => ParentOf[w[j]] # ParentOf[w[k]]
      <4>1. \A a \in L : \A q \in K \cup {p} : a \in Z /\ q \in Z /\ Parent(a) # 0 => Parent(q) # Parent(a)
        <5> TAKE a \in L
        <5> TAKE q \in K \cup {p}
        <5>1. SUFFICES ASSUME a \in Z, q \in Z, Parent(a) # 0 PROVE Parent(q) # Parent(a)
          OBVIOUS
        <5>2. Parent(a) \in L
          <6>1. Parent(a) \in Above(a)
            BY <1>2, <1>5, <5>1, ForestFacts
          <6> QED
            BY <1>17, <5>1, <6>1
        <5>3. CASE q = p
          BY <1>17, <5>1, <5>3
        <5>4. CASE q # p
          <6>1. q \in K /\ q \in seen /\ Parent(q) # 0
            BY <1>5, <1>18, <5>4
          <6>2. Parent(q) \in Above(q)
            BY <1>2, <6>1, ForestFacts
          <6>3. Parent(q) \in K \cup {p}
            BY <1>17, <5>1, <6>1, <6>2
          <6> QED
            BY <1>5, <5>2, <6>3
        <5> QED
          BY <5>3, <5>4
      <4>2. \A a \in L \cup K \cup {p} : ParentOf[a] = Parent(a)
        BY <1>5, <1>15
      <4> QED
        BY <1>12, <1>14, <1>19, <4>1, <4>2
    <3> HIDE DEF u
    <3> QED
      BY <3>1, <3>2, <3>3, <3>4, <3>5, Zenon DEF LastsMeet
  <2>4. k1 = m + 1 /\ E = {}
    OBVIOUS
  <2> HIDE DEF k1, u, E
  <2> QED
    BY <1>7, <1>12, <2>1, <2>2, <2>3, <2>4, LastsJoin
<1> QED
  BY <1>20, <1>21 DEF o, Z, t, w, n

\* The forest is that of the parents that were read.
LEMMA ForestStays ==
  ASSUME seen' = seen, seen \subseteq Pid, \A q \in Pid : ps'[q].ppid = ps[q].ppid /\ ps'[q].tgid = ps[q].tgid
  PROVE  Up' = Up /\ ParentOf' = ParentOf
<1>1. \A q \in Pid : ParentPid(q)' = ParentPid(q)
  BY DEF ParentPid
<1>2. \A q \in seen : Parent(q)' = Parent(q)
  BY <1>1 DEF Parent
<1>3. ParentOf' = ParentOf
  BY <1>2 DEF ParentOf
<1>4. [q \in seen' |-> [ppid |-> Parent(q)']] = [q \in seen |-> [ppid |-> Parent(q)]]
  BY <1>2
<1>5. \A q : Above(q)' = Above(q)
  BY <1>4, Zenon DEF Above
<1>6. Up' = Up
  BY <1>5 DEF Up
<1> QED
  BY <1>3, <1>6

LEMMA TakeRootRows ==
  ASSUME RowsInv, CircleInv', TakeRoot
  PROVE  RowsInv'
<1>1. KeepsInv /\ CircleInv
  BY DEF RowsInv, CircleInv
<1>2. PICK i, p, c, r : IsRootCall(c, i, p) /\ r = BuildTree(c) /\ TookRoot(c, r, p)
  BY <1>1, TakeRootFacts
<1>3. /\ ps' = r.ps /\ processes' = r.from /\ processes2' = r.to /\ phase = "tree"
      /\ r \in Building /\ Moved(c.b, r)
  BY <1>2 DEF TookRoot
<1>4. phase' = phase /\ seen' = seen /\ visible' = visible /\ direction' = direction
  BY DEF TakeRoot, scanVars
<1>5. RootTurn(c, r, p)
  BY <1>2, RootTurnIs
<1>6. Up' = Up /\ ParentOf' = ParentOf
  <2>1. SameData(c.b.ps, ps) /\ SameData(r.ps, c.b.ps)
    BY <1>2, <1>3 DEF IsRootCall, Moved
  <2>2. \A q \in Pid : ps'[q].ppid = ps[q].ppid /\ ps'[q].tgid = ps[q].tgid
    BY <1>3, <2>1 DEF SameData
  <2>3. seen \subseteq Pid
    BY <1>1, ForestFacts
  <2> QED
    BY <1>4, <2>2, <2>3, ForestStays
<1>7. Drawing(Up, ParentOf, r.ps, visible, direction, r.to)
  <2>1. ASSUME NEW q \in ToSet(r.to) PROVE RowRight(Up, r.ps, visible, ToSet(r.to), q)
    <3>1. CASE q \in ToSet(processes2)
      <4>1. RowRight(Up, ps, visible, ToSet(processes2), q)
        BY <1>3, <3>1 DEF RowsInv, Drawing
      <4> QED
        BY <1>5, <3>1, <4>1, OldRowRight
    <3>2. CASE q \notin ToSet(processes2)
      <4>1. q \in Took(c.b, r) \cup {p}
        BY <1>5, <3>2 DEF RootTurn
      <4> QED
        BY <1>5, <4>1, NewRowRight
    <3> QED
      BY <3>1, <3>2
  <2>2. direction = 1 => /\ Blocks(Up, r.to, Shown(r.ps), 0, Len(r.to))
                         /\ Lasts(ParentOf, r.ps, r.to, Shown(r.ps), 0, Pid, 0, Len(r.to))
    BY <1>2, RootRowsInOrder
  <2> QED
    BY <2>1, <2>2, Zenon DEF Drawing
<1>8. Unplaced(ParentOf, r.ps, visible, ToSet(r.from))
  <2> SUFFICES ASSUME NEW q \in ToSet(r.from)
               PROVE  /\ r.ps[q].show <=> q \in visible
                      /\ q \in visible /\ ParentOf[q] # 0 => ParentOf[q] \in ToSet(r.from)
    BY DEF Unplaced
  <2>1. /\ ToSet(processes) = ToSet(r.from) \cup {p} \cup Took(c.b, r) /\ r.ps[q] = ps[q]
        /\ q \in visible => Parent(q) \notin Took(c.b, r) \cup {p}
    BY <1>5 DEF RootTurn
  <2>2. q \in seen /\ ParentOf[q] = Parent(q)
    BY <1>1, <1>3, <2>1 DEF ParentOf, KeepsInv
  <2>3. /\ ps[q].show <=> q \in visible
        /\ q \in visible /\ ParentOf[q] # 0 => ParentOf[q] \in ToSet(processes)
    BY <1>3, <2>1 DEF RowsInv, Unplaced
  <2> QED
    BY <2>1, <2>2, <2>3
<1>9. /\ Unplaced(ParentOf', ps', visible', ToSet(processes'))
      /\ Drawing(Up', ParentOf', ps', visible', direction', processes2')
  BY <1>3, <1>4, <1>6, <1>7, <1>8, Zenon
<1>10. RowsInv' <=> /\ CircleInv'
                    /\ phase' \in {"scan", "sort"} => \A q \in seen' : ps'[q].show <=> q \in visible'
                    /\ phase' = "tree" => /\ Unplaced(ParentOf', ps', visible', ToSet(processes'))
                                          /\ Drawing(Up', ParentOf', ps', visible', direction', processes2')
                    /\ phase' = "drawn" => Drawing(Up', ParentOf', ps', visible', direction', processes')
  BY Zenon DEF RowsInv
<1>11. phase' = "tree"
  BY <1>3, <1>4
<1> QED
  BY <1>9, <1>10, <1>11

LEMMA NextRows ==
  ASSUME RowsInv, [TreeNext]_treeVars, ~PidReuse
  PROVE  RowsInv'
<1>1. CircleInv /\ CircleInv' /\ KeepsInv /\ seen \subseteq Pid
  BY NextCircle, ForestFacts DEF RowsInv, CircleInv
<1>2. RowsInv' <=> /\ CircleInv'
                   /\ phase' \in {"scan", "sort"} => \A q \in seen' : ps'[q].show <=> q \in visible'
                   /\ phase' = "tree" => /\ Unplaced(ParentOf', ps', visible', ToSet(processes'))
                                         /\ Drawing(Up', ParentOf', ps', visible', direction', processes2')
                   /\ phase' = "drawn" => Drawing(Up', ParentOf', ps', visible', direction', processes')
  BY Zenon DEF RowsInv
<1>3. ASSUME UNCHANGED <<ps, processes, processes2, direction, phase, seen, visible>> PROVE RowsInv'
  <2>1. Up' = Up /\ ParentOf' = ParentOf
    BY <1>1, <1>3, ForestStays
  <2> QED
    BY <1>1, <1>2, <1>3, <2>1, Zenon DEF RowsInv
<1>4. CASE UNCHANGED treeVars \/ Environment
  <2>1. UNCHANGED <<ps, processes, processes2, direction, phase, seen, visible>>
    <3>1. CASE UNCHANGED treeVars
      BY <3>1 DEF treeVars, listVars, scanVars
    <3>2. CASE Fork
      BY <3>2 DEF Fork, OsChange, listVars, scanVars
    <3>3. CASE Exit
      BY <3>3 DEF Exit, OsChange, listVars, scanVars
    <3> QED
      BY <1>4, <3>1, <3>2, <3>3 DEF Environment
  <2> QED
    BY <1>3, <2>1
<1>5. CASE UserKey
  <2>1. phase' = "idle"
    BY <1>5 DEF UserKey, Toggle, CollapseIntoParent, ExpandTree, InvertSortOrder, Expanded
  <2> QED
    BY <1>1, <1>2, <2>1
<1>6. CASE StartScan
  BY <1>1, <1>2, <1>6 DEF StartScan
<1>7. CASE EndScan
  BY <1>1, <1>2, <1>7 DEF EndScan, RowsInv
<1>8. CASE EndSort
  <2>1. UNCHANGED <<ps, direction, seen, visible>> /\ processes' = processes2 /\ phase = "tree" /\ phase' = "drawn"
    BY <1>8 DEF EndSort
  <2>2. Up' = Up /\ ParentOf' = ParentOf
    BY <1>1, <2>1, ForestStays
  <2>3. Drawing(Up, ParentOf, ps, visible, direction, processes2)
    BY <2>1 DEF RowsInv
  <2>4. Drawing(Up', ParentOf', ps', visible', direction', processes')
    BY <2>1, <2>2, <2>3, Zenon
  <2> QED
    BY <1>1, <1>2, <2>1, <2>4
<1>9. CASE Visit
  <2>1. PICK x \in todo : LET read == {q \in Pid : IsLeader(x) /\ os[q].tgid = x}
          IN  /\ phase = "scan" /\ phase' = phase /\ seen' = seen \cup read
              /\ \E hidden \in SUBSET read :
                   /\ visible' = (visible \ hidden) \cup (read \ hidden)
                   /\ ps' = [q \in Pid |->
                        IF q \notin read THEN ps[q]
                        ELSE [IF q \in ToSet(processes) THEN ps[q] ELSE New EXCEPT
                                !.ppid = os[q].ppid, !.tgid = x, !.show = q \notin hidden]]
    BY <1>9, Zenon DEF Visit
  <2> DEFINE read == {q \in Pid : IsLeader(x) /\ os[q].tgid = x}
  <2>2. PICK hidden \in SUBSET read :
          /\ visible' = (visible \ hidden) \cup (read \ hidden)
          /\ ps' = [q \in Pid |->
               IF q \notin read THEN ps[q]
               ELSE [IF q \in ToSet(processes) THEN ps[q] ELSE New EXCEPT
                       !.ppid = os[q].ppid, !.tgid = x, !.show = q \notin hidden]]
    BY <2>1
  <2>3. phase' = "scan" /\ phase = "scan" /\ seen' = seen \cup read /\ read \subseteq Pid
    BY <2>1
  <2>4. ps \in [Pid -> Process] /\ \A q \in seen : (ps[q].show <=> q \in visible)
    BY <1>1, <2>3 DEF RowsInv, KeepsInv, TreeTypes
  <2> HIDE DEF read
  <2>5. ASSUME NEW q \in seen' PROVE ps'[q].show <=> q \in visible'
    <3>1. CASE q \in read
      <4> DEFINE was == IF q \in ToSet(processes) THEN ps[q] ELSE New
                 now == q \notin hidden
                 row == [was EXCEPT !.ppid = os[q].ppid, !.tgid = x, !.show = now]
      <4>1. was \in Process
        BY <2>3, <2>4, <3>1 DEF New, Process
      <4>2. ps'[q] = row
        BY <2>2, <2>3, <3>1
      <4> HIDE DEF was, now
      <4>3. row.show = now
        BY <4>1 DEF Process
      <4>4. q \in visible' <=> q \notin hidden
        BY <2>2, <3>1
      <4> QED
        BY <4>2, <4>3, <4>4 DEF now
    <3>2. CASE q \notin read
      <4>1. q \in seen /\ ps'[q] = ps[q] /\ (q \in visible' <=> q \in visible)
        BY <1>1, <2>2, <2>3, <3>2
      <4> QED
        BY <2>4, <4>1
    <3> QED
      BY <3>1, <3>2
  <2> QED
    BY <1>1, <1>2, <2>3, <2>5
<1>10. CASE StartSort
  <2>1. UNCHANGED <<ps, processes2, seen, visible>> /\ phase = "sort" /\ phase' = "tree"
    BY <1>10 DEF StartSort
  <2>2. Up' = Up /\ ParentOf' = ParentOf
    BY <1>1, <2>1, ForestStays
  <2>3. ToSet(processes') = ToSet(processes) /\ processes2 = << >> /\ ToSet(processes) = seen
    <3>1. ToSet(<< >>) = {}
      BY DEF ToSet
    <3> QED
      BY <1>1, <1>10, <2>1, <3>1, SortKeeps DEF KeepsInv, TreeTypes
  <2>4. Unplaced(ParentOf, ps, visible, seen)
    <3>1. \A q \in seen : ParentOf[q] = Parent(q) /\ (Parent(q) # 0 => Parent(q) \in seen)
      BY <1>1, ForestFacts DEF ParentOf
    <3>2. \A q \in seen : ps[q].show <=> q \in visible
      BY <2>1 DEF RowsInv
    <3> QED
      BY <3>1, <3>2 DEF Unplaced
  <2>5. Drawing(Up', ParentOf', ps', visible', direction', << >>)
    <3>1. ToSet(<< >>) = {} /\ Len(<< >>) = 0 /\ 0 + 1 .. 0 = {}
      BY DEF ToSet
    <3> DEFINE e == << >>
    <3>2. \A up, s, Z : Blocks(up, s, Z, 0, 0)
      BY <3>1 DEF Blocks
    <3>3. \A par, t, s, Z, W : Lasts(par, t, s, Z, 0, W, 0, 0)
      BY <3>1 DEF Lasts
    <3> HIDE DEF e
    <3>4. Drawing(Up', ParentOf', ps', visible', direction', e)
      <4>1. ToSet(e) = {} /\ Len(e) = 0
        BY <3>1 DEF e
      <4> QED
        BY <3>2, <3>3, <4>1 DEF Drawing
    <3> QED
      BY <3>4 DEF e
  <2>6. Unplaced(ParentOf', ps', visible', ToSet(processes'))
        /\ Drawing(Up', ParentOf', ps', visible', direction', processes2')
    <3>1. ToSet(processes') = seen /\ processes2' = << >>
      BY <2>1, <2>3
    <3> QED
      BY <2>1, <2>2, <2>4, <2>5, <3>1, Zenon
  <2> QED
    BY <1>1, <1>2, <2>1, <2>6
<1>11. CASE TakeRoot
  BY <1>1, <1>11, TakeRootRows
<1> QED
  BY <1>4, <1>5, <1>6, <1>7, <1>8, <1>9, <1>10, <1>11 DEF TreeNext, Refresh

LEMMA InitRows == TreeInit => RowsInv
<1> SUFFICES ASSUME TreeInit PROVE RowsInv
  OBVIOUS
<1>1. phase = "idle"
  BY DEF TreeInit
<1>2. CircleInv
  BY InitNoCircle
<1> QED
  BY <1>1, <1>2 DEF RowsInv

\* Numbers after a first one without a gap.
LEMMA NoGap ==
  ASSUME NEW row \in Nat, NEW m \in Nat, NEW B \in SUBSET (row + 1 .. m),
         \A i \in B : row + 1 .. i \subseteq B
  PROVE  B = row + 1 .. row + Cardinality(B)
<1> DEFINE c == Cardinality(B)
           I == row + 1 .. row + c
<1>1. IsFiniteSet(B) /\ c \in Nat
  <2> DEFINE a == row + 1
             J == a .. m
  <2>1. a \in Int /\ m \in Int
    OBVIOUS
  <2>2. IsFiniteSet(J)
    <3> HIDE DEF a
    <3> QED
      BY <2>1, FS_Interval
  <2> HIDE DEF J
  <2>3. B \subseteq J
    BY DEF J
  <2> QED
    BY <2>2, <2>3, FS_Subset, FS_CardinalityType
<1> HIDE DEF c
<1>2. ASSUME NEW i \in B PROVE i \in I
  <2>1. i \in Int /\ i >= row + 1
    OBVIOUS
  <2> DEFINE a == row + 1
             J == a .. i
  <2>2. Cardinality(J) = i - a + 1
    <3> HIDE DEF a
    <3>1. a \in Int /\ i >= a
      BY <2>1 DEF a
    <3> QED
      BY <2>1, <3>1, FS_Interval
  <2>3. J \subseteq B
    OBVIOUS
  <2> HIDE DEF J
  <2>4. Cardinality(J) <= Cardinality(B)
    BY <1>1, <2>3, FS_Subset
  <2>5. i - row <= c
    BY <1>1, <2>1, <2>2, <2>4 DEF c
  <2> QED
    BY <1>1, <2>1, <2>5
<1>3. Cardinality(I) = c /\ IsFiniteSet(I)
  <2> DEFINE a == row + 1
             z == row + c
  <2>1. a \in Int /\ z \in Int
    BY <1>1
  <2>2. Cardinality(a .. z) = (IF a > z THEN 0 ELSE z - a + 1) /\ IsFiniteSet(a .. z)
    <3> HIDE DEF a, z
    <3> QED
      BY <2>1, FS_Interval
  <2> QED
    BY <1>1, <2>2
<1>4. B \subseteq I /\ Cardinality(B) = Cardinality(I)
  BY <1>2, <1>3 DEF c
<1> HIDE DEF I
<1>5. B = I
  BY <1>3, <1>4, FS_Subset
<1> QED
  BY <1>5 DEF I, c

\* SubtreesAreBlocks, of the rows r.
InBlocks(r) ==
  /\ \A p \in ToSet(r) :
        LET below == {i \in DOMAIN r : p \in Above(r[i])}
            row == CHOOSE i \in DOMAIN r : r[i] = p
        IN below = (row + 1)..(row + Cardinality(below))
  /\ \A i \in DOMAIN r : Parent(r[i]) # 0 =>
        (ps[r[i]].last <=> \A j \in DOMAIN r : Parent(r[j]) = Parent(r[i]) => j <= i)

\* A list that is a right drawing looks like the forest.
LEMMA DrawnBlocks ==
  ASSUME RowsInv, phase = "drawn", direction = 1
  PROVE  SubtreesAreBlocks
<1> DEFINE s == processes
           n == Len(s)
           Z == Shown(ps)
           R == Kept(s, Z)
           m == Len(R)
<1>1. /\ CircleInv /\ s \in Seq(Pid) /\ n \in Nat /\ \A i \in 1 .. n : s[i] \in seen
      /\ Blocks(Up, s, Z, 0, n) /\ Lasts(ParentOf, ps, s, Z, 0, Pid, 0, n)
  <2>1. CircleInv /\ KeepsInv /\ s \in Seq(Pid)
    BY DEF RowsInv, CircleInv, KeepsInv, TreeTypes
  <2>2. ToSet(s) \subseteq seen
    BY <2>1 DEF KeepsInv
  <2> QED
    BY <2>1, <2>2, SeqFacts DEF RowsInv, Drawing
<1>2. PICK at : R \in Seq(Pid) /\ PickedTo(at, s, Z, R, n)
  <2> HIDE DEF Z
  <2> QED
    BY <1>1, KeptFacts
<1>3. Rows = R
  BY DEF Rows, Shown
<1>4. m \in Nat /\ DOMAIN R = 1 .. m
  BY <1>2
<1> HIDE DEF s, n, R, m
<1>5. /\ \A i \in 1 .. m : at[i] \in 1 .. n /\ R[i] = s[at[i]] /\ s[at[i]] \in Z /\ R[i] \in seen
      /\ \A i, j \in 1 .. m : i < j => at[i] < at[j]
      /\ \A k \in 1 .. n : s[k] \in Z => \E j \in 1 .. m : at[j] = k
  BY <1>1, <1>2 DEF PickedTo, m
<1>6. \A i, j \in 1 .. m : at[i] < at[j] => i < j
  <2> TAKE i, j \in 1 .. m
  <2>1. at[i] \in 1 .. n /\ at[j] \in 1 .. n
    BY <1>5
  <2>2. i < j \/ i = j \/ j < i
    BY <1>4
  <2>3. j < i => at[j] < at[i]
    BY <1>5
  <2> QED
    BY <1>1, <2>1, <2>2, <2>3
<1> HIDE DEF Z
<1>7. \A k \in 1 .. n : s[k] \in Z =>
         \A i \in 1 .. n : s[i] \in Up[s[k]] => i < k /\ \A j \in i + 1 .. k : s[i] \in Up[s[j]]
  BY <1>1 DEF Blocks
<1>8. ASSUME NEW p, NEW row \in 1 .. m, R[row] = p
      PROVE  {i \in 1 .. m : p \in Above(R[i])} = (row + 1)..(row + Cardinality({i \in 1 .. m : p \in Above(R[i])}))
  <2> DEFINE B == {i \in 1 .. m : p \in Above(R[i])}
             x == at[row]
  <2>1. x \in 1 .. n /\ s[x] = p
    BY <1>5, <1>8
  <2>2. ASSUME NEW i \in B PROVE i \in row + 1 .. m /\ row + 1 .. i \subseteq B
    <3>1. i \in 1 .. m /\ p \in Above(R[i])
      OBVIOUS
    <3> DEFINE y == at[i]
    <3>2. y \in 1 .. n /\ s[y] \in Z /\ s[y] = R[i] /\ R[i] \in seen
      BY <1>5, <3>1
    <3>3. s[x] \in Up[s[y]]
      BY <2>1, <3>1, <3>2 DEF Up
    <3>4. x < y /\ \A j \in x + 1 .. y : s[x] \in Up[s[j]]
      <4> HIDE DEF x, y
      <4> QED
        BY <1>7, <2>1, <3>2, <3>3
    <3>5. row < i
      BY <1>6, <3>1, <3>4
    <3>6. ASSUME NEW j \in row + 1 .. i PROVE j \in B
      <4>1. j \in 1 .. m /\ row < j /\ (j = i \/ j < i)
        BY <1>4, <3>1
      <4> DEFINE z == at[j]
      <4>2. x < z /\ (z = y \/ z < y) /\ z \in 1 .. n /\ R[j] = s[z] /\ R[j] \in seen
        BY <1>5, <3>1, <4>1
      <4>3. z \in x + 1 .. y
        <5> HIDE DEF x, y, z
        <5> QED
          BY <1>1, <2>1, <3>2, <4>2
      <4>4. p \in Up[R[j]]
        BY <2>1, <3>4, <4>2, <4>3
      <4> QED
        BY <4>1, <4>2, <4>4 DEF Up
    <3> QED
      BY <1>4, <3>1, <3>5, <3>6
  <2>3. B \in SUBSET (row + 1 .. m) /\ \A i \in B : row + 1 .. i \subseteq B
    BY <2>2
  <2>4. row \in Nat
    BY <1>4
  <2> HIDE DEF B
  <2>5. B = row + 1 .. row + Cardinality(B)
    BY <1>4, <2>3, <2>4, NoGap
  <2> QED
    BY <2>5 DEF B
<1>9. \A i \in 1 .. n : s[i] \in Z =>
         (ps[s[i]].last <=> /\ ParentOf[s[i]] = 0 => Pid = {}
                            /\ \A j \in 1 .. n : s[j] \in Z /\ ParentOf[s[j]] = ParentOf[s[i]] => j <= i)
  BY <1>1 DEF Lasts
<1>10. ASSUME NEW i \in 1 .. m, Parent(R[i]) # 0
       PROVE  ps[R[i]].last <=> \A j \in 1 .. m : Parent(R[j]) = Parent(R[i]) => j <= i
  <2> DEFINE x == at[i]
  <2>1. x \in 1 .. n /\ s[x] = R[i] /\ s[x] \in Z /\ R[i] \in seen
    BY <1>5
  <2>2. ParentOf[s[x]] = Parent(R[i])
    BY <2>1 DEF ParentOf
  <2>3. ps[R[i]].last <=> \A k \in 1 .. n : s[k] \in Z /\ ParentOf[s[k]] = Parent(R[i]) => k <= x
    <3> HIDE DEF x
    <3>1. ps[s[x]].last <=> /\ ParentOf[s[x]] = 0 => Pid = {}
                            /\ \A j \in 1 .. n : s[j] \in Z /\ ParentOf[s[j]] = ParentOf[s[x]] => j <= x
      BY <1>9, <2>1
    <3> QED
      BY <1>10, <2>1, <2>2, <3>1, Zenon
  <2>4. ASSUME NEW j \in 1 .. m
        PROVE  /\ at[j] \in 1 .. n /\ s[at[j]] \in Z /\ ParentOf[s[at[j]]] = Parent(R[j])
               /\ at[j] <= x <=> j <= i
    <3>1. at[j] \in 1 .. n /\ s[at[j]] \in Z /\ s[at[j]] = R[j] /\ R[j] \in seen
      BY <1>5
    <3>2. j < i => at[j] < x
      BY <1>5
    <3>3. i < j => x < at[j]
      BY <1>5
    <3>4. at[j] <= x <=> j <= i
      <4> DEFINE y == at[j]
      <4> HIDE DEF x, y
      <4>1. y \in Nat /\ x \in Nat /\ i \in Nat /\ j \in Nat /\ (j = i => y = x)
        BY <1>4, <2>1, <3>1 DEF x, y
      <4>2. (j < i => y < x) /\ (i < j => x < y)
        BY <3>2, <3>3 DEF y
      <4>3. y <= x <=> j <= i
        BY <4>1, <4>2
      <4> QED
        BY <4>3 DEF y
    <3> QED
      BY <3>1, <3>4 DEF ParentOf
  <2>5. \A k \in 1 .. n : s[k] \in Z => \E j \in 1 .. m : at[j] = k
    BY <1>5
  <2> HIDE DEF x
  <2>6. (\A k \in 1 .. n : s[k] \in Z /\ ParentOf[s[k]] = Parent(R[i]) => k <= x)
          <=> \A j \in 1 .. m : Parent(R[j]) = Parent(R[i]) => j <= i
    <3>1. ASSUME \A k \in 1 .. n : s[k] \in Z /\ ParentOf[s[k]] = Parent(R[i]) => k <= x,
                 NEW j \in 1 .. m, Parent(R[j]) = Parent(R[i])
          PROVE  j <= i
      <4>1. at[j] <= x
        BY <2>4, <3>1, Zenon
      <4> QED
        BY <2>4, <4>1
    <3>2. ASSUME \A j \in 1 .. m : Parent(R[j]) = Parent(R[i]) => j <= i,
                 NEW k \in 1 .. n, s[k] \in Z, ParentOf[s[k]] = Parent(R[i])
          PROVE  k <= x
      <4>1. PICK j \in 1 .. m : at[j] = k
        BY <2>5, <3>2
      <4>2. Parent(R[j]) = Parent(R[i])
        BY <2>4, <3>2, <4>1
      <4>3. j <= i
        BY <3>2, <4>2, Zenon
      <4> QED
        BY <2>4, <4>1, <4>3
    <3> QED
      BY <3>1, <3>2, Zenon
  <2> QED
    BY <2>3, <2>6, Zenon
<1>11. ASSUME NEW p \in ToSet(R)
       PROVE  LET below == {i \in DOMAIN R : p \in Above(R[i])}
                  row == CHOOSE i \in DOMAIN R : R[i] = p
              IN  below = (row + 1)..(row + Cardinality(below))
  <2> DEFINE row == CHOOSE i \in DOMAIN R : R[i] = p
  <2>1. \E i \in DOMAIN R : R[i] = p
    BY <1>11 DEF ToSet
  <2>2. row \in 1 .. m /\ R[row] = p
    BY <1>4, <2>1
  <2> HIDE DEF row
  <2>3. {i \in 1 .. m : p \in Above(R[i])} = (row + 1)..(row + Cardinality({i \in 1 .. m : p \in Above(R[i])}))
    BY <1>8, <2>2
  <2> QED
    BY <1>4, <2>3 DEF row
<1>12. \A i \in DOMAIN R : Parent(R[i]) # 0 =>
          (ps[R[i]].last <=> \A j \in DOMAIN R : Parent(R[j]) = Parent(R[i]) => j <= i)
  BY <1>4, <1>10, Zenon
<1>13. InBlocks(R)
  BY <1>11, <1>12, Zenon DEF InBlocks
<1>14. InBlocks(Rows)
  BY <1>3, <1>13, Zenon
<1> QED
  BY <1>14, Zenon DEF SubtreesAreBlocks, InBlocks

LEMMA DrawnRows ==
  ASSUME RowsInv, phase = "drawn"
  PROVE  ShownAsOpen /\ LinesOfAncestors
<1>1. CircleInv /\ KeepsInv /\ phase \in {"sort", "tree", "drawn"} /\ phase # "tree"
  BY DEF RowsInv, CircleInv
<1>2. ToSet(processes) = seen
  <2>1. processes2 = << >> /\ seen = ToSet(processes) \cup ToSet(processes2)
    BY <1>1 DEF KeepsInv, TreeTypes
  <2>2. ToSet(<< >>) = {}
    BY DEF ToSet
  <2> QED
    BY <2>1, <2>2
<1>3. \A p \in seen : RowRight(Up, ps, visible, seen, p)
  BY <1>2 DEF RowsInv, Drawing
<1>4. \A p \in seen : Up[p] = Above(p) /\ Cardinality(Up[p]) = Depth(p) /\ Above(p) \subseteq seen
  BY <1>1, ForestFacts DEF Up, Depth
<1>5. ShownAsOpen
  <2>1. \A p \in seen : (ps[p].show <=> Opened(Up, ps, visible, p)) /\ Up[p] = Above(p)
    BY <1>3, <1>4 DEF RowRight
  <2> QED
    BY <2>1, Zenon DEF ShownAsOpen, Opened
<1>6. ASSUME NEW p \in seen, ps[p].show
      PROVE  ps[p].indent = {Depth(q) - 1 : q \in {r \in Above(p) \cup {p} :
                                Depth(r) > 0 /\ (r = p \/ ~ps[r].last)}}
  <2> DEFINE K == {a \in Up[p] \cup {p} : Cardinality(Up[a]) > 0 /\ (a = p \/ ~ps[a].last)}
             L == {r \in Above(p) \cup {p} : Depth(r) > 0 /\ (r = p \/ ~ps[r].last)}
  <2>1. ps[p].indent = {Cardinality(Up[q]) - 1 : q \in K}
    BY <1>3, <1>6 DEF RowRight, LinesOf
  <2>2. K = L /\ K \subseteq seen
    BY <1>4
  <2> HIDE DEF K, L
  <2>3. {Cardinality(Up[q]) - 1 : q \in K} = {Depth(q) - 1 : q \in L}
    BY <1>4, <2>2
  <2> QED
    BY <2>1, <2>3 DEF L
<1>7. LinesOfAncestors
  BY <1>6 DEF LinesOfAncestors
<1> QED
  BY <1>5, <1>7

\* Whatever the scan read, and however the user expanded, collapsed and turned the tree, what
\* is drawn is the forest of all that was read: each row under what it belongs to, displayed
\* unless that is collapsed, with the lines of its ancestors, the last of its siblings marked.
THEOREM TreeStaysRight ==
  ASSUME ~PidReuse
  PROVE  TreeSpec => []TreeIsRight
<1>1. RowsInv => RowsFollowTree
  BY DrawnBlocks, DrawnRows DEF RowsFollowTree, Drawn
<1>2. TreeSpec => []RowsInv
  BY InitRows, NextRows, PTL DEF TreeSpec
<1>3. []RowsInv => []RowsFollowTree
  BY <1>1, PTL
<1> QED
  BY <1>2, <1>3, TreeKeepsAllProcesses, PTL DEF TreeIsRight
=============================================================================

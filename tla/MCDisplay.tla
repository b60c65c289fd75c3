----------------------------- MODULE MCDisplay -----------------------------
(* Small instances of PanelWidget, RichString, ScreenLayout and             *)
(* Configuration, which share nothing; one of them is looked at in each      *)
(* behavior.  Panels of up to four rows on a terminal that leaves them at    *)
(* most three lines; texts of up to four characters; a header of two meters; *)
(* runs of the program from files of each place.                             *)
EXTENDS PanelWidget, RichString, ScreenLayout, Configuration

VARIABLE part

mcVars == <<part, vars, string, layoutVars, confVars>>

Heights == -1 .. 3

MCTerminals == {<<80, 24>>, <<131, 50>>}
MCConfigured ==
  { << << <<"AllCPUs", 1>> >>, << <<"single", 2>> >> >>,
    << << <<"LeftCPUs2", 4>> >>, << <<"RightCPUs2", 3>> >> >> }

\* A file as the program writes it, with everything of its own.
Complete(key, scheme, tree) ==
  [o \in Options |->
     CASE o = "sortKey"     -> key
       [] o = "direction"   -> -1
       [] o = "colorScheme" -> scheme
       [] o = "delay"       -> 100
       [] o = "treeView"    -> tree
       [] o \in {"fields", "meters", "board"} -> "own"
       [] OTHER             -> FALSE]
NoFiles == [legacy |-> NoFile, user |-> NoFile, system |-> NoFile]
MCFiles ==
  { NoFiles,
    [NoFiles EXCEPT !.system = Complete(0, 9, TRUE)],
    [NoFiles EXCEPT !.legacy = Complete(1, 2, TRUE), !.user = Complete(0, 2, FALSE)] }

Opt(o, n) == [opt |-> o, value |-> n]
MCArgLists ==
  { << >>, <<Opt("t", 0), Opt("s", 1), Opt("C", 0), Opt("d", 500)>>,
    <<Opt("s", -1), Opt("d?", 0), Opt("i", 0)>> }

\* Strings around the length that fits into their array.
MCData == {<< >>, <<"a">>, <<"ctrl", "a">>, <<"a", "a", "ctrl">>}
MCJunk == [char |-> "?", attr |-> 1]

MCInit ==
  /\ part \in {"panel", "text", "layout", "configuration"}
  /\ Init /\ StringInit
  /\ part # "panel" => panel = NewPanel(<< >>, 1) /\ ~focus
  /\ LayoutInit
  /\ part # "layout" => term = <<80, 24>> /\ margin /\ columns[2][1].type = "single"
  /\ ConfInit
  /\ part # "configuration" => files = NoFiles

MCNext ==
  /\ UNCHANGED part
  /\ \/ part = "panel" /\ Next /\ UNCHANGED <<string, layoutVars, confVars>>
     \/ part = "text" /\ StringNext /\ UNCHANGED <<vars, layoutVars, confVars>>
     \/ part = "layout" /\ LayoutNext /\ UNCHANGED <<vars, string, confVars>>
     \/ part = "configuration" /\ ConfNext /\ UNCHANGED <<vars, string, layoutVars>>

MCSpec == MCInit /\ [][MCNext]_mcVars
=============================================================================

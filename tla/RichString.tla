----------------------------- MODULE RichString -----------------------------
(***************************************************************************)
(* RichString: a text with attributes in an array inside of the object, or *)
(* in a piece of the heap while it is longer than that.  chptr says where. *)
(*                                                                         *)
(* Definitions marked "Defect" are plausible mistakes, not the program.    *)
(***************************************************************************)
EXTENDS Integers, Sequences

CONSTANTS
  Printable, Control, Attr, Data, MaxText,   \* as in RichText
  MaxLen,     \* RICHSTRING_MAXLEN
  Junk,       \* what is in memory nobody has written to
  WideChars   \* whether the build is the one for ncursesw

VARIABLE string   \* chlen, chptr, chstr, and the piece of the heap

Mark == "?"
Glyph(c) == IF c \in Printable THEN c ELSE Mark
Char == Printable \cup {Mark}

Nul == "nul"
Cell == [char : Char \cup {Nul}, attr : Attr]
Zero == [char |-> Nul, attr |-> 0]
NoHeap == [i \in {} |-> Zero]

ASSUME RichStringAssumption ==
  /\ Data \subseteq Seq(Printable \cup Control)
  /\ 0 \in Attr /\ MaxText \in Nat /\ MaxLen \in Nat
  /\ Nul \notin Char /\ Junk \in Cell /\ WideChars \in BOOLEAN

\* RichString_begin and RichString_prune
EmptyString == [chlen |-> 0, chptr |-> "chstr", chstr |-> [i \in 0..MaxLen |-> Zero], heap |-> NoHeap]

Cells(s) == IF s.chptr = "chstr" THEN s.chstr ELSE s.heap

WithCells(s, cells) ==
  IF s.chptr = "chstr" THEN [s EXCEPT !.chstr = cells] ELSE [s EXCEPT !.heap = cells]

SetChar(s, at, cell) == WithCells(s, [Cells(s) EXCEPT ![at] = cell])

\* A piece of the heap with n cells, the first of them copied from an array.
Allocated(n, cells, copied) == [i \in 0..(n - 1) |-> IF i < copied THEN cells[i] ELSE Junk]

Relocated(s, chptr, chstr, heap) == [chlen |-> s.chlen, chptr |-> chptr, chstr |-> chstr, heap |-> heap]

\* Defect: a text that fits into the array of the object again stays on the heap.
ExtendLenFreed(s, len) ==
  LET moved ==
        IF s.chlen <= MaxLen
        THEN IF len > MaxLen
             THEN Relocated(s, "heap", s.chstr, Allocated(len + 1, s.chstr, s.chlen))
             ELSE s
        ELSE Relocated(s, "heap", s.chstr, Allocated(len + 1, s.heap, s.chlen + 1))
  IN [SetChar(moved, len, Zero) EXCEPT !.chlen = len]

ExtendLen(s, len) ==
  LET moved ==
        IF s.chlen <= MaxLen
        THEN IF len > MaxLen
             THEN Relocated(s, "heap", s.chstr, Allocated(len + 1, s.chstr, s.chlen))
             ELSE s
        ELSE IF len <= MaxLen
             THEN Relocated(s, "chstr", [i \in 0..MaxLen |-> IF i < len THEN s.heap[i] ELSE s.chstr[i]], NoHeap)
             ELSE Relocated(s, "heap", s.chstr, Allocated(len + 1, s.heap, s.chlen + 1))
  IN [SetChar(moved, len, Zero) EXCEPT !.chlen = len]

SetLen(s, len) ==
  IF len < MaxLen /\ s.chlen < MaxLen THEN [SetChar(s, len, Zero) EXCEPT !.chlen = len]
  ELSE ExtendLen(s, len)

\* Defect: the cells are written before the string has the room for them.
WriteFromEarly(s, attr, data, from) ==
  LET newLen == from + Len(data)
      cells == [i \in DOMAIN Cells(s) |->
                  IF from <= i /\ i < newLen THEN [char |-> Glyph(data[i - from + 1]), attr |-> attr]
                  ELSE Cells(s)[i]]
  IN SetLen(WithCells(s, cells), newLen)

WriteFrom(s, attr, data, from) ==
  LET newLen == from + Len(data)
      long == SetLen(s, newLen)
  IN WithCells(long, [i \in DOMAIN Cells(long) |->
                        IF from <= i /\ i < newLen
                        THEN [char |-> Glyph(data[i - from + 1]), attr |-> attr]
                        ELSE Cells(long)[i]])

\* An empty string has its terminator painted, by a finish of -1.
Clamp(n, low, high) == IF n > high THEN high ELSE IF n < low THEN low ELSE n
SetAttrn(s, attr, start, finish) ==
  LET last == Clamp(finish, 0, s.chlen - 1)
  IN WithCells(s, [i \in DOMAIN Cells(s) |->
                     IF start <= i /\ i <= last THEN [Cells(s)[i] EXCEPT !.attr = attr]
                     ELSE Cells(s)[i]])

-----------------------------------------------------------------------------

RichString_write(attr, data) ==
  Len(data) <= MaxText /\ string' = WriteFrom(string, attr, data, 0)

RichString_append(attr, data) ==
  /\ string.chlen + Len(data) <= MaxText
  /\ string' = WriteFrom(string, attr, data, string.chlen)

RichString_setAttrn(attr, start, finish) == string' = SetAttrn(string, attr, start, finish)
RichString_setAttr(attr) == RichString_setAttrn(attr, 0, string.chlen - 1)

RichString_prune == string' = EmptyString

StringInit == string = EmptyString
StringNext ==
  \/ \E attr \in Attr, data \in Data : RichString_write(attr, data) \/ RichString_append(attr, data)
  \/ \E attr \in Attr, start \in 0..MaxText, finish \in -1..MaxText :
       RichString_setAttrn(attr, start, finish)
  \/ \E attr \in Attr : RichString_setAttr(attr)
  \/ RichString_prune
StringSpec == StringInit /\ [][StringNext]_string

-----------------------------------------------------------------------------
(* Properties.                                                             *)

\* The text a string stands for.
Text(s) == [i \in 1..s.chlen |-> Cells(s)[i - 1]]
Promise == INSTANCE RichText WITH text <- Text(string)

\* What is written to a string, in pieces, over an older text or into colors, is
\* what is in it, whichever array it is in, through every move to the heap and back
\* (RichString_extendLen, RichString_writeFrom, RichString_setAttrn).
ImplementsText == Promise!TextSpec

\* What tells a printing function where to stop: no character, and in the build
\* without wide characters no attribute either.
Terminates(cell) == cell.char = Nul /\ (WideChars \/ cell.attr = 0)

\* A string has one piece of the heap while it is too long for its own array and none
\* otherwise; the array in use has a place for the terminator, which is there, and is
\* behind no other; an empty string of the build without wide characters may have
\* lost it to an attribute (RichString_extendLen, RichString_printVal).
StringIsSound ==
  /\ string.heap # NoHeap <=> string.chlen > MaxLen
  /\ string.chptr = "heap" <=> string.chlen > MaxLen
  /\ string.chlen \in DOMAIN Cells(string)
  /\ \A i \in 0..(string.chlen - 1) : ~Terminates(Cells(string)[i])
  /\ WideChars \/ string.chlen > 0 => Terminates(Cells(string)[string.chlen])
=============================================================================

------------------------------ MODULE RichText ------------------------------
(***************************************************************************)
(* What a RichString promises to those who write, color and print it: a    *)
(* text of characters with attributes, which can be replaced, made longer  *)
(* at its end, and given another attribute from one place to another.      *)
(* Where and how it is kept is not seen here.                              *)
(***************************************************************************)
EXTENDS Integers, Sequences

CONSTANTS
  Printable,   \* the characters that are shown as they are
  Control,     \* the characters that are not
  Attr,        \* the attributes
  Data,        \* what is written: sequences of characters
  MaxText      \* bound: the length of a text

Mark == "?"
Glyph(c) == IF c \in Printable THEN c ELSE Mark
Char == Printable \cup {Mark}

VARIABLE text

Styled(attr, data) == [i \in 1..Len(data) |-> [char |-> Glyph(data[i]), attr |-> attr]]

\* Places are counted from 0; one before the text is taken for its first place.
Clamp(n, low, high) == IF n > high THEN high ELSE IF n < low THEN low ELSE n
Repainted(t, attr, start, finish) ==
  LET last == Clamp(finish, 0, Len(t) - 1)
  IN [i \in 1..Len(t) |-> IF start < i /\ i <= last + 1 THEN [t[i] EXCEPT !.attr = attr] ELSE t[i]]

WriteText(attr, data)  == Len(data) <= MaxText /\ text' = Styled(attr, data)
AppendText(attr, data) == Len(text) + Len(data) <= MaxText /\ text' = text \o Styled(attr, data)
Repaint(attr, start, finish) == text' = Repainted(text, attr, start, finish)
Clear == text' = << >>

TextInit == text = << >>
TextNext ==
  \/ \E attr \in Attr, data \in Data : WriteText(attr, data) \/ AppendText(attr, data)
  \/ \E attr \in Attr, start \in 0..MaxText, finish \in -1..MaxText : Repaint(attr, start, finish)
  \/ Clear
TextSpec == TextInit /\ [][TextNext]_text
=============================================================================

------------------------------ MODULE LineEditor ------------------------------
(***************************************************************************)
(* What the keyboard of the find page promises about the name a patron     *)
(* types, without the buffer it is typed into: the line on the LCD is what *)
(* was typed and not erased, and ENTER looks that up and starts over.      *)
(* SHIFT, CAPS, SPACE and BACKSPACE return nothing defined to the page,    *)
(* which may take it for ENTER: the line is looked up and disappears, and  *)
(* what is typed from then on does not appear until as much as disappeared *)
(* was erased, or ENTER starts over.                                       *)
(***************************************************************************)
EXTENDS Naturals, Sequences

CONSTANT Char

VARIABLES
  line,   \* shown: what is on the LCD; lost: how many characters are not
  asked   \* the name looked up last

Empty == [shown |-> <<>>, lost |-> 0]

EditorInit == line = Empty /\ asked = <<>>

Typed(c) == IF line.lost = 0 THEN [line EXCEPT !.shown = Append(@, c)]
                             ELSE [line EXCEPT !.lost = @ + 1]

Erased == IF line.lost > 0 THEN [line EXCEPT !.lost = @ - 1]
          ELSE IF line.shown = <<>> THEN line
          ELSE [line EXCEPT !.shown = SubSeq(@, 1, Len(@) - 1)]

LookUp(l) ==
  /\ asked' = l.shown
  /\ line' = [shown |-> <<>>, lost |-> l.lost + Len(l.shown)]

(* A key that changes the line to l, and may be taken for ENTER.           *)
FunctionKey(l) == (line' = l /\ UNCHANGED asked) \/ LookUp(l)

Character(c) == line' = Typed(c) /\ UNCHANGED asked

Enter == asked' = line.shown /\ line' = Empty

EditorNext ==
  \/ \E c \in Char : Character(c) \/ FunctionKey(Typed(c))
  \/ FunctionKey(line) \/ FunctionKey(Erased)
  \/ Enter

EditorSpec == EditorInit /\ [][EditorNext]_<<line, asked>>
=============================================================================

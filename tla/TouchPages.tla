----------------------------- MODULE TouchPages -----------------------------
(***************************************************************************)
(* From the finger to the page.  CST716_Scan (cst716.c) asks the touch     *)
(* panel's controller how many fingers it sees and, 4 ms later, where the  *)
(* first is; tp_dev keeps whether the panel is DOWN.  Four functions poll  *)
(* it (diy_gui.c, keyboard.c), one or two in the loop of whichever thread  *)
(* has the screen: each remembers the touch it saw in static variables of  *)
(* its own and acts when it finds the panel no longer DOWN.  The functions *)
(* share tp_dev and the scan counter t but not what they remember, and     *)
(* what they remember outlives the page.                                   *)
(***************************************************************************)
EXTENDS Naturals

CONSTANTS
  Point,   \* <<x, y>> on the panel, 480 by 800
  Wild,    \* coordinates beyond the panel, as the controller may report them
  Every,   \* an idle panel is asked at every 10th scan
  Last,    \* 240, after which t starts again from Every
  None     \* no touch, no page, no choice

ASSUME PanelAssumption ==
  /\ Every \in Nat /\ Every > 1
  /\ Last \in Nat /\ Last >= Every
  /\ Point \cup {Wild} \subseteq Nat \X Nat
  /\ Wild[2] > 800
  /\ None \notin Point \cup {Wild}

Reading == Point \cup {Wild}

Pages == {"find", "borrow", "giveback", "change"}

VARIABLES
  panel,         \* what the controller sees: how many fingers, and the first
  t,             \* the static counter of CST716_Scan
  reading,       \* inside its delay_ms(4): how many fingers it was told of
  touch,         \* tp_dev: the touch that makes it DOWN
  pressed,       \* per polling function the touch it saw and has not acted on
  page,          \* whose thread has the screen
  pc,            \* the polling function it is at, or "draw"
  change_index   \* the choice on the change page

touchVars == <<panel, t, reading, touch, pressed, page, pc, change_index>>

Pollers == {"get_icon_app_table", "Detect_Keyboard_Touch", "get_change_table",
            "get_return_table"}

-----------------------------------------------------------------------------
(* Where the buttons are (diy_gui.h, keyboard.h): the icons of the cover,  *)
(* the two lines of the change page, and RETURN, which begins where the    *)
(* last row of keys has not quite ended.                                   *)

Inside(v, start, length) == start < v /\ v < start + length

IconAt(p) ==
  LET column == {j \in 0..1 : Inside(p[1], 25 + 240 * j, 200)}
      row    == {i \in 0..1 : Inside(p[2], 25 + 240 * i, 200)}
      number == {j + 2 * i : j \in column, i \in row}
  IN  CASE number = {0} -> "find"
        [] number = {1} -> "borrow"
        [] number = {2} -> "giveback"
        [] number = {3} -> "change"
        [] OTHER        -> None

ChangeAt(p) ==
  IF Inside(p[2], 300, 60) THEN "add"
  ELSE IF Inside(p[2], 360, 60) THEN "delete" ELSE None

ReturnAt(p) == p[2] > 700

-----------------------------------------------------------------------------

TouchInit ==
  /\ panel = [fingers |-> 0, first |-> Wild]
  /\ t = 0 /\ reading = 0
  /\ touch = None
  /\ pressed = [f \in Pollers |-> None]
  /\ page = "cover" /\ pc = "draw"
  /\ change_index = None

(* Fingers come, move and go at any time; where the last one was stays in  *)
(* the registers of the controller.                                        *)
Finger(n, p) ==
  /\ panel' = [fingers |-> n, first |-> IF n = 0 THEN panel.first ELSE p]
  /\ UNCHANGED <<t, reading, touch, pressed, page, pc, change_index>>

(* The function the thread of a page calls first in its loop.              *)
FirstOf(p, choice) ==
  CASE p = "cover"                     -> "get_icon_app_table"
    [] p = "find"                      -> "Detect_Keyboard_Touch"
    [] p = "change" /\ choice = None   -> "get_change_table"
    [] OTHER                           -> "get_return_table"

Draw ==
  /\ pc = "draw"
  /\ change_index' = IF page = "change" THEN None ELSE change_index
  /\ pc' = FirstOf(page, change_index')
  /\ UNCHANGED <<panel, t, reading, touch, pressed, page>>

(* The touch function f acts on when the scan has left tp_dev at now.      *)
Released(f, now) == IF now = None THEN pressed[f] ELSE None

(* What each function makes of the touch p, or of none, and what its       *)
(* caller does next.                                                       *)
OnCover(p) ==
  /\ IF p # None /\ IconAt(p) # None
     THEN page' = IconAt(p) /\ pc' = "draw"
     ELSE UNCHANGED <<page, pc>>
  /\ UNCHANGED change_index

OnKeyboard ==
  /\ pc' = "get_return_table"
  /\ UNCHANGED <<page, change_index>>

OnChange(p) ==
  /\ pc' = "get_return_table"
  /\ change_index' = IF p = None THEN None ELSE ChangeAt(p)
  /\ UNCHANGED page

OnReturn(p) ==
  /\ IF p # None /\ ReturnAt(p)
     THEN page' = "cover" /\ pc' = "draw"
     ELSE pc' = FirstOf(page, change_index) /\ UNCHANGED page
  /\ UNCHANGED change_index

Act(f, p) ==
  \/ f = "get_icon_app_table" /\ OnCover(p)
  \/ f = "Detect_Keyboard_Touch" /\ OnKeyboard
  \/ f = "get_change_table" /\ OnChange(p)
  \/ f = "get_return_table" /\ OnReturn(p)

(* Mutant: the flag is cleared only when the touch meant nothing.          *)
SeeKeeps(f, now) ==
  /\ touch' = now
  /\ Act(f, Released(f, now))
  /\ pressed' = [pressed EXCEPT ![f] = IF pc' = "draw" THEN @ ELSE now]

(* f compares what the scan has left with what it remembers.               *)
See(f, now) ==
  /\ touch' = now
  /\ Act(f, Released(f, now))
  /\ pressed' = [pressed EXCEPT ![f] = now]

-----------------------------------------------------------------------------
(* CST716_Scan *)

Asked == (t + 1) % Every = 0 \/ t + 1 < Every

Wrapped(n) == IF n > Last THEN Every ELSE n

(* Mutant: more than two fingers count as none.                            *)
NoneCounted == None

(* Without coordinates tp_dev stays as it is if there are more than two    *)
(* fingers; otherwise, also when nobody asked, there is no finger.         *)
NotCounted == IF Asked /\ panel.fingers > 2 THEN touch ELSE None

ScanOnly(f) ==
  /\ pc = f /\ reading = 0
  /\ ~Asked \/ panel.fingers \notin {1, 2}
  /\ t' = Wrapped(t + 1)
  /\ See(f, NotCounted)
  /\ UNCHANGED <<panel, reading>>

ScanFinger(f) ==
  /\ pc = f /\ reading = 0
  /\ Asked /\ panel.fingers \in {1, 2}
  /\ t' = t + 1
  /\ reading' = panel.fingers
  /\ UNCHANGED <<panel, touch, pressed, page, pc, change_index>>

(* Mutant: t goes on counting while a finger is there.                     *)
CountOn(n) == Wrapped(n)

(* A touch has the controller asked at each of the next scans.             *)
Found(n) == 0

(* The coordinates are read.  Beyond the panel, those of a second finger   *)
(* are taken instead; without one tp_dev is put back to what it was, but   *)
(* then mode no longer counts a finger and a touch ends.                   *)
ScanPoint(f) ==
  /\ pc = f /\ reading > 0
  /\ reading' = 0
  /\ \/ /\ panel.first \in Point
        /\ See(f, panel.first)
        /\ t' = Found(t)
     \/ /\ panel.first = Wild /\ reading = 2
        /\ \E second \in Reading : See(f, second)
        /\ t' = Found(t)
     \/ /\ panel.first = Wild /\ reading = 1
        /\ See(f, None)
        /\ t' = Wrapped(t)
  /\ UNCHANGED panel

Scan == \E f \in Pollers : ScanOnly(f) \/ ScanFinger(f) \/ ScanPoint(f)

TouchNext == (\E n \in 0..3, p \in Reading : Finger(n, p)) \/ Draw \/ Scan

TouchSpec == TouchInit /\ [][TouchNext]_touchVars

(* The loops poll for as long as they run.                                 *)
TouchFairSpec == TouchSpec /\ WF_touchVars(Draw \/ Scan)

-----------------------------------------------------------------------------

TouchTypeOK ==
  /\ panel \in [fingers : 0..3, first : Reading]
  /\ t \in 0..(Last + 1)
  /\ reading \in 0..2
  /\ touch \in Reading \cup {None}
  /\ pressed \in [Pollers -> Reading \cup {None}]
  /\ page \in Pages \cup {"cover"}
  /\ pc \in Pollers \cup {"draw"}
  /\ change_index \in {"add", "delete", None}

(* The screen changes hands only by a touch that was seen since it last    *)
(* did: while a page has it, get_icon_app_table remembers nothing; while   *)
(* the cover has it, get_return_table, which all four pages call,          *)
(* remembers nothing; and at the hand-over tp_dev is not DOWN.  What else  *)
(* the touch does within its page is not restricted: get_change_table or   *)
(* the keyboard may act on the touch that get_return_table leaves by.      *)
HandOverByNewTouch ==
  /\ page # "cover" => pressed["get_icon_app_table"] = None
  /\ page = "cover" => pressed["get_return_table"] = None
  /\ pc = "draw" => touch = None /\ reading = 0

(* A touch ends because the fingers left, with two exceptions that end the *)
(* touch of a finger still there: coordinates beyond the panel, and more   *)
(* than two fingers for so many scans that the panel counts as idle.       *)
ReleaseIsReal ==
  [][touch # None /\ touch' = None =>
       \/ reading = 0 /\ panel.fingers = 0
       \/ reading = 1 /\ panel.first = Wild
       \/ reading = 0 /\ t >= Every]_touchVars

(* A finger that stays is seen, however long the panel was idle, and its   *)
(* touch does not end while it stays.                                      *)
HeldTouchSeen == \A p \in Point :
  <>[](panel = [fingers |-> 1, first |-> p]) => <>[](touch = p)
=============================================================================

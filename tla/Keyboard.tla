------------------------------ MODULE Keyboard ------------------------------
(***************************************************************************)
(* The keyboard of the find page: Process_Keyboard (keyboard.c) edits      *)
(* rec_buf by the key Detect_Keyboard_Touch found, and find_thread_entry   *)
(* (main.c) looks a name up when it returns 0xff.  The states of SHIFT and *)
(* CAPS, the place in the buffer and the buffer itself are static: they    *)
(* outlive the page, while the faces of the keys are drawn anew when it    *)
(* opens.  For SHIFT, CAPS, SPACE and BACKSPACE Process_Keyboard falls off *)
(* its end without a return, so that the page may be told 0xff.            *)
(***************************************************************************)
EXTENDS Naturals, Sequences

CONSTANTS
  Key,      \* the keys that are no function keys
  Normal,   \* the character of each in the normal state
  Shifted,  \* and in the shift state
  Cells,    \* the bytes of rec_buf: 30
  NUL       \* the end of a string

FUNC_SPACE == "space"
FUNC_SYMBOL == "symbol"

Char == {Normal[k] : k \in Key} \cup {Shifted[k] : k \in Key} \cup {FUNC_SPACE, FUNC_SYMBOL}

ASSUME KeyboardAssumption ==
  /\ Cells \in Nat \ {0}
  /\ NUL \notin Char

VARIABLES
  shift_state, caps_state,
  i,         \* where the next character goes
  rec_buf,
  faces,     \* whether the keys show their shift characters
  open,      \* whether the find page has the screen
  asked      \* the name looked up last

keyboardVars == <<shift_state, caps_state, i, rec_buf, faces, open, asked>>

Mode == shift_state # caps_state   \* shift_state ^ caps_state

(* The string in a buffer ends before the first NUL.                       *)
Length(b) == CHOOSE n \in 0..Cells :
  /\ n = Cells \/ b[n] = NUL
  /\ \A k \in 0..(n - 1) : b[k] # NUL

CString(b) == [k \in 1..Length(b) |-> b[k - 1]]

KeyboardInit ==
  /\ shift_state = FALSE /\ caps_state = FALSE
  /\ i = 0 /\ rec_buf = [k \in 0..(Cells - 1) |-> NUL]
  /\ faces = FALSE
  /\ open = FALSE
  /\ asked = <<>>

-----------------------------------------------------------------------------
(* find_thread_entry *)

Open ==
  /\ ~open
  /\ open' = TRUE
  /\ faces' = FALSE
  /\ UNCHANGED <<shift_state, caps_state, i, rec_buf, asked>>

Leave ==
  /\ open
  /\ open' = FALSE
  /\ UNCHANGED <<shift_state, caps_state, i, rec_buf, faces, asked>>

(* Process_Keyboard returned 0xff and left b: the page looks the name up   *)
(* and empties the line on the LCD.                                        *)
LookUp(b) ==
  /\ asked' = CString(b)
  /\ rec_buf' = [b EXCEPT ![0] = NUL]

(* Process_Keyboard left b and returned whatever was in the register.      *)
Undefined(b) == LookUp(b) \/ (rec_buf' = b /\ UNCHANGED asked)

-----------------------------------------------------------------------------
(* Process_Keyboard *)

FUNC_SHIFT ==
  /\ open
  /\ shift_state' = ~shift_state
  /\ faces' = (shift_state' # caps_state)
  /\ Undefined(rec_buf)
  /\ UNCHANGED <<caps_state, i, open>>

(* Mutant: CAPS is drawn as if SHIFT were off.                             *)
FUNC_CAPS_alone ==
  /\ open
  /\ caps_state' = ~caps_state
  /\ faces' = caps_state'
  /\ Undefined(rec_buf)
  /\ UNCHANGED <<shift_state, i, open>>

FUNC_CAPS ==
  /\ open
  /\ caps_state' = ~caps_state
  /\ faces' = (shift_state # caps_state')
  /\ Undefined(rec_buf)
  /\ UNCHANGED <<shift_state, i, open>>

(* Whatever lies behind i, the name ends there.                            *)
FUNC_ENTER ==
  /\ open
  /\ i' = 0
  /\ LookUp([rec_buf EXCEPT ![i] = NUL])
  /\ UNCHANGED <<shift_state, caps_state, faces, open>>

FUNC_BACKSPACE ==
  /\ open
  /\ i' = IF i > 0 THEN i - 1 ELSE 0
  /\ Undefined(IF i > 0 THEN [rec_buf EXCEPT ![i'] = NUL] ELSE rec_buf)
  /\ UNCHANGED <<shift_state, caps_state, faces, open>>

(* Mutant: the string is not ended behind the new character.               *)
PutUnended(c) == [rec_buf EXCEPT ![i] = c]

Put(c) == [rec_buf EXCEPT ![i] = c, ![i + 1] = NUL]

(* Bound: nothing in the code stops a name longer than the buffer; such    *)
(* names are left out.                                                     *)
Advance == i + 1 < Cells /\ i' = i + 1

Space ==
  /\ open
  /\ Advance
  /\ Undefined(Put(FUNC_SPACE))
  /\ UNCHANGED <<shift_state, caps_state, faces, open>>

(* Every other key, the symbol keys included, is its character.            *)
Character(c) ==
  /\ open
  /\ Advance
  /\ rec_buf' = Put(c)
  /\ UNCHANGED <<shift_state, caps_state, faces, open, asked>>

KeyboardNext ==
  \/ Open \/ Leave
  \/ FUNC_SHIFT \/ FUNC_CAPS \/ FUNC_ENTER \/ FUNC_BACKSPACE \/ Space
  \/ Character(FUNC_SYMBOL)
  \/ \E k \in Key : Character(IF Mode THEN Shifted[k] ELSE Normal[k])

KeyboardSpec == KeyboardInit /\ [][KeyboardNext]_keyboardVars

-----------------------------------------------------------------------------

KeyboardTypeOK ==
  /\ shift_state \in BOOLEAN /\ caps_state \in BOOLEAN
  /\ i \in 0..(Cells - 1)
  /\ rec_buf \in [0..(Cells - 1) -> Char \cup {NUL}]
  /\ faces \in BOOLEAN /\ open \in BOOLEAN
  /\ asked \in Seq(Char)

(* The name ends at i and, unless a look-up nobody asked for has cut its   *)
(* first character away, nowhere before: no rest of an older name is ever  *)
(* behind it, and what does not show can still be erased.                  *)
Terminated ==
  /\ rec_buf[i] = NUL
  /\ \A k \in 1..(i - 1) : rec_buf[k] # NUL

(* While the page is open, no key makes the faces of the keys differ from  *)
(* the characters they type, and SHIFT or CAPS sets right what did.  They  *)
(* may differ when the page opens: SHIFT and CAPS stay as they were left   *)
(* (keyboard.c:224), the keys are drawn with their normal characters       *)
(* (main.c:114).                                                           *)
FacesFollowMode ==
  [][open /\ open' =>
       /\ faces = Mode => faces' = Mode'
       /\ Mode' # Mode => faces' = Mode']_keyboardVars

(* The name on the LCD is the name typed, see LineEditor, whatever an      *)
(* older name or an undefined return has left in the buffer.               *)
E == INSTANCE LineEditor WITH
  line <- [shown |-> CString(rec_buf), lost |-> i - Length(rec_buf)]

ImplementsEditor == E!EditorSpec
=============================================================================

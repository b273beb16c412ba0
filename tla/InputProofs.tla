----------------------------- MODULE InputProofs -----------------------------
(***************************************************************************)
(* Proofs about the three ways in which something reaches the pages: bytes *)
(* over the serial line (SerialLine), fingers on the panel (TouchPages)    *)
(* and, through them, keys (Keyboard).  The three modules share no state.  *)
(* They are proved about for any buffer length and any bytes; for any      *)
(* points, any interval between two questions to an idle controller and    *)
(* any wrap of the scan counter; and for any keys and any length of the    *)
(* name buffer.                                                            *)
(*                                                                         *)
(* SerialLine: ReaderSeesWholeLine together with the types is inductive,   *)
(* for bit 15 keeps the interrupt out exactly while the reader works.  The *)
(* refinement of LineInput then needs it at one step only, Clear, where    *)
(* the copy must be the line.                                              *)
(* TouchPages: HandOverByNewTouch needs to know who polls when,            *)
(* PollsItsPage.                                                           *)
(* Keyboard: a buffer that is Ended where the next character goes is the   *)
(* line of LineEditor.                                                     *)
(***************************************************************************)
EXTENDS SerialLine, TouchPages, Keyboard, SequenceTheorems, TLAPS

-----------------------------------------------------------------------------
(* The serial line *)

(* A half typed line, and CR alone, never fill the buffer.                 *)
SerialInv == SerialTypeOK /\ ReaderSeesWholeLine

LEMMA CellFact == Cell \subseteq Nat /\ 0 \in Cell
  BY SerialAssumption DEF Cell

LEMMA SerialInvInit == SerialInit => SerialInv
  BY SerialAssumption, CellFact DEF SerialInit, SerialInv, SerialTypeOK, ReaderSeesWholeLine, Idle

LEMMA SerialInvStep == SerialInv /\ [SerialNext]_serialVars => SerialInv'
  <1> SUFFICES ASSUME SerialInv, [SerialNext]_serialVars PROVE SerialInv'
    OBVIOUS
  <1> USE SerialAssumption, CellFact DEF SerialInv
  <1>1. ASSUME NEW b \in Byte, Receive(b) PROVE SerialInv'
    <2>1. SerialTypeOK'
      <3>1. CASE sta.cr
        <4>1. /\ UNCHANGED <<buf, reader, len, copied, rec, taken>>
              /\ sta' = [sta EXCEPT !.done = TRUE] \/ sta' = Idle
          BY <1>1, <3>1 DEF Receive, Store
        <4>2. sta' \in [done : BOOLEAN, cr : BOOLEAN, n : Cell]
          <5>1. CASE sta' = [sta EXCEPT !.done = TRUE]
            BY <5>1 DEF SerialTypeOK
          <5>2. CASE sta' = Idle
            BY <5>2 DEF Idle
          <5> QED
            BY <4>1, <5>1, <5>2
        <4> QED
          BY <4>1, <4>2 DEF SerialTypeOK
      <3>2. CASE ~sta.cr /\ b = CR
        BY <1>1, <3>2 DEF Receive, Store, Full, SerialTypeOK, Idle
      <3>3. CASE ~sta.cr /\ b # CR
        <4>1. sta.n \in Nat /\ ~(sta.n + 1 > RecLen - 1) => sta.n + 1 \in Cell
          BY DEF Cell
        <4>2. sta' \in [done : BOOLEAN, cr : BOOLEAN, n : Cell]
          <5>1. sta \in [done : BOOLEAN, cr : BOOLEAN, n : Cell] /\ sta.n \in Nat
            BY DEF SerialTypeOK
          <5>2. CASE sta.n + 1 > RecLen - 1
            <6>1. sta' = Idle
              BY <1>1, <3>3, <5>2 DEF Receive, Store, Full
            <6> QED
              BY <6>1 DEF Idle
          <5>3. CASE ~(sta.n + 1 > RecLen - 1)
            <6>1. sta' = [sta EXCEPT !.n = @ + 1]
              BY <1>1, <3>3, <5>3 DEF Receive, Store, Full
            <6> QED
              BY <4>1, <5>1, <5>3, <6>1
          <5> QED
            BY <5>2, <5>3
        <4> QED
          BY <1>1, <3>3, <4>2 DEF Receive, Store, Full, SerialTypeOK
      <3> QED
        BY <3>1, <3>2, <3>3
    <2>2. reader = "poll" /\ reader' = "poll"
      BY <1>1 DEF Receive, Store, Full, ReaderSeesWholeLine, SerialTypeOK
    <2> QED
      BY <2>1, <2>2 DEF ReaderSeesWholeLine
  <1>2. ASSUME NEW b \in Byte, Drop(b) PROVE SerialInv'
    BY <1>2 DEF Drop, serialVars, SerialTypeOK, ReaderSeesWholeLine
  <1>3. CASE SeeLine
    BY <1>3 DEF SeeLine, SerialTypeOK, ReaderSeesWholeLine
  <1>4. CASE Measure
    BY <1>4 DEF Measure, SerialTypeOK, ReaderSeesWholeLine, Cell
  <1>5. CASE Copy
    <2>1. sta.done /\ len = sta.n /\ copied \in 0..(len - 1) /\ copied + 1 \in Cell
      BY <1>5 DEF Copy, SerialTypeOK, ReaderSeesWholeLine, Cell
    <2>2. SerialTypeOK'
      BY <1>5, <2>1 DEF Copy, SerialTypeOK
    <2>3. ReaderSeesWholeLine'
      BY <1>5, <2>1 DEF Copy, SerialTypeOK, ReaderSeesWholeLine, Cell
    <2> QED
      BY <2>2, <2>3
  <1>6. CASE Clear
    <2>1. taken' \in Seq(Byte)
      BY <1>6 DEF Clear, SerialTypeOK, ReaderSeesWholeLine, Cell
    <2> QED
      BY <1>6, <2>1 DEF Clear, SerialTypeOK, ReaderSeesWholeLine, Idle
  <1>7. CASE UNCHANGED serialVars
    BY <1>7 DEF serialVars, SerialTypeOK, ReaderSeesWholeLine
  <1> QED
    BY <1>1, <1>2, <1>3, <1>4, <1>5, <1>6, <1>7 DEF SerialNext

LEMMA SerialInvHolds == SerialSpec => []SerialInv
  BY SerialInvInit, SerialInvStep, PTL DEF SerialSpec

(* Every variable keeps the range of its C type, for every buffer length   *)
(* up to 256: in particular the interrupt never writes beyond the buffer.  *)
THEOREM SerialTypeCorrect == SerialSpec => []SerialTypeOK
  <1>1. SerialInv => SerialTypeOK
    BY DEF SerialInv
  <1> QED
    BY <1>1, SerialInvHolds, PTL

(* The interrupt never changes the line under the reader's hands.          *)
THEOREM ReaderUndisturbed == SerialSpec => []ReaderSeesWholeLine
  <1>1. SerialInv => ReaderSeesWholeLine
    BY DEF SerialInv
  <1> QED
    BY <1>1, SerialInvHolds, PTL

(* A finished line is frozen until it is cleared.                          *)
THEOREM LineFrozen == SerialSpec => FinishedLineFrozen
  <1>1. SerialInv /\ [SerialNext]_serialVars => [sta.done /\ ~(reader = "copy" /\ reader' = "poll")
                              => sta' = sta /\ buf' = buf]_serialVars
    <2> SUFFICES ASSUME SerialInv, SerialNext, sta.done, ~(reader = "copy" /\ reader' = "poll")
                 PROVE sta' = sta /\ buf' = buf
      OBVIOUS
    <2> QED
      BY DEF SerialNext, Receive, Store, Drop, SeeLine, Measure, Copy, Clear, Idle, serialVars
  <1> QED
    BY <1>1, SerialInvHolds, PTL DEF SerialSpec, FinishedLineFrozen

-----------------------------------------------------------------------------

(* The line in the buffer, as LineInput sees it.                           *)
Line == [j \in 1..sta.n |-> buf[j - 1]]
Phase == IF sta.done THEN "ready" ELSE IF sta.cr THEN "cr" ELSE "typing"

LEMMA SerialInitRefines == SerialInit => L!LineInit
  BY DEF SerialInit, L!LineInit, Idle

LEMMA SerialStepRefines == SerialInv /\ SerialInv' /\ [SerialNext]_serialVars => [L!LineNext]_(L!lineVars)
  <1> SUFFICES ASSUME SerialInv, SerialInv', [SerialNext]_serialVars PROVE [L!LineNext]_(L!lineVars)
    OBVIOUS
  <1> USE SerialAssumption, CellFact DEF SerialInv
  <1>1. ASSUME NEW b \in Byte, Receive(b) PROVE L!LineNext
    <2>0. ~sta.done /\ taken' = taken /\ sta.n \in Cell
      BY <1>1 DEF Receive, Store, Full, SerialTypeOK
    <2>1. CASE sta.cr
      <3>1. CASE b = LF
        <4>1. L!EndLine
          BY <1>1, <2>0, <2>1, <3>1 DEF Receive, Store, Full, SerialTypeOK, L!EndLine
        <4> QED
          BY <4>1 DEF L!LineNext
      <3>2. CASE b # LF
        <4>1. L!Spoil
          BY <1>1, <2>0, <2>1, <3>2 DEF Receive, Store, Full, SerialTypeOK, Idle, L!Spoil, L!StartOver
        <4> QED
          BY <4>1 DEF L!LineNext
      <3> QED
        BY <3>1, <3>2
    <2>2. CASE ~sta.cr /\ b = CR
      <3>1. L!Return
        BY <1>1, <2>0, <2>2 DEF Receive, Store, Full, SerialTypeOK, L!Return
      <3> QED
        BY <3>1 DEF L!LineNext
    <2>3. CASE ~sta.cr /\ b # CR
      <3>1. Line \in Seq(Byte) /\ Len(Line) = sta.n
        BY DEF Line, SerialTypeOK, Cell
      <3>2. CASE sta.n + 1 > RecLen - 1
        <4>1. sta' = Idle /\ ~(sta.n + 1 < RecLen)
          BY <1>1, <2>0, <2>3, <3>2 DEF Receive, Store, Full, Cell
        <4>2. Line' = <<>> /\ ~sta'.done /\ ~sta'.cr
          BY <4>1 DEF Idle, Line
        <4>3. ~(Len(Line) + 1 < RecLen)
          BY <3>1, <4>1
        <4>4. L!Type(b)
          BY <2>0, <2>3, <4>2, <4>3 DEF L!Type, L!StartOver, Line
        <4> QED
          BY <4>4 DEF L!LineNext
      <3>3. CASE ~(sta.n + 1 > RecLen - 1)
        <4>1. sta' = [sta EXCEPT !.n = @ + 1] /\ buf' = [buf EXCEPT ![sta.n] = b]
              /\ sta.n + 1 < RecLen
          BY <1>1, <2>0, <2>3, <3>3 DEF Receive, Store, Full, Cell
        <4>2. Line' = Append(Line, b)
          <5>n. sta.n \in Nat /\ sta'.n = sta.n + 1
            BY <4>1, <2>0 DEF SerialTypeOK
          <5>c. \A j \in 1..(sta.n + 1) : j - 1 \in Cell
            BY <4>1, <5>n DEF Cell
          <5>b. \A j \in 1..(sta.n + 1) :
                  buf'[j - 1] = IF j = sta.n + 1 THEN b ELSE buf[j - 1]
            BY <4>1, <5>n, <5>c DEF SerialTypeOK
          <5>0. Line' = [j \in 1..(sta.n + 1) |-> buf'[j - 1]]
            BY <5>n DEF Line
          <5>1. Line' \in Seq(Byte) /\ Len(Line') = sta.n + 1
            <6>1. \A j \in 1..(sta.n + 1) : buf'[j - 1] \in Byte
              BY <5>b, <5>c, <5>n DEF SerialTypeOK
            <6> QED
              BY <5>0, <5>n, <6>1
          <5>2. \A j \in 1..(sta.n + 1) : Line'[j] = IF j = sta.n + 1 THEN b ELSE Line[j]
            BY <5>0, <5>b, <5>n DEF Line
          <5> HIDE DEF Line
          <5>3. /\ Append(Line, b) \in Seq(Byte)
                /\ Len(Append(Line, b)) = sta.n + 1
                /\ \A j \in 1..sta.n : Append(Line, b)[j] = Line[j]
                /\ Append(Line, b)[sta.n + 1] = b
            BY <3>1, AppendProperties
          <5>4. \A j \in 1..(sta.n + 1) : j \in 1..sta.n \/ j = sta.n + 1
            BY <5>n
          <5>5. \A j \in 1..(sta.n + 1) : Line'[j] = Append(Line, b)[j]
            BY <5>n, <5>2, <5>3, <5>4
          <5> QED
            BY <5>1, <5>3, <5>5, SeqEqual
        <4>3. sta'.done = FALSE /\ sta'.cr = FALSE
          BY <4>1, <2>0, <2>3 DEF SerialTypeOK
        <4>4. L!Type(b)
          BY <2>0, <2>3, <3>1, <4>1, <4>2, <4>3 DEF L!Type, Line
        <4> QED
          BY <4>4 DEF L!LineNext
      <3> QED
        BY <3>2, <3>3
    <2> QED
      BY <2>1, <2>2, <2>3 DEF SerialTypeOK
  <1>2. ASSUME NEW b \in Byte, Drop(b) PROVE UNCHANGED L!lineVars
    BY <1>2 DEF Drop, serialVars, L!lineVars
  <1>3. CASE SeeLine
    BY <1>3 DEF SeeLine, L!lineVars
  <1>4. CASE Measure
    BY <1>4 DEF Measure, L!lineVars
  <1>5. CASE Copy
    BY <1>5 DEF Copy, L!lineVars
  <1>6. CASE Clear
    <2>1. sta.done /\ len = sta.n /\ copied = len /\ len \in Cell
          /\ \A j \in 0..(len - 1) : rec[j] = buf[j]
      BY <1>6 DEF Clear, SerialTypeOK, ReaderSeesWholeLine
    <2>2. taken' = Line
      BY <1>6, <2>1 DEF Clear, Line, Cell
    <2>3. sta' = Idle
      BY <1>6 DEF Clear
    <2>4. L!Take
      BY <2>1, <2>2, <2>3 DEF L!Take, L!StartOver, Idle, Line
    <2> QED
      BY <2>4 DEF L!LineNext
  <1>7. CASE UNCHANGED serialVars
    BY <1>7 DEF serialVars, L!lineVars
  <1> QED
    BY <1>1, <1>2, <1>3, <1>4, <1>5, <1>6, <1>7 DEF SerialNext

(* Reading byte by byte under interrupts implements taking the line in one *)
(* step, for every buffer length and every set of bytes.                   *)
THEOREM LineInputRefined == SerialSpec => ImplementsLineInput
  BY SerialInitRefines, SerialStepRefines, SerialInvHolds, PTL DEF SerialSpec, ImplementsLineInput, L!LineSpec
-----------------------------------------------------------------------------
(* Fingers *)

(* Each function polls only while its page has the screen.                 *)
PollsItsPage == pc # "draw" => (pc = "get_icon_app_table" <=> page = "cover")

(* Between two scans the counter has been wrapped.                         *)
CounterWrapped == reading = 0 => t <= Last

(* HandOverByNewTouch is inductive with these: what get_return_table       *)
(* remembers is dropped by the very call that gives the screen back, and   *)
(* only calls of get_return_table come between two of its touches.         *)
TouchInv == TouchTypeOK /\ HandOverByNewTouch /\ PollsItsPage /\ CounterWrapped

(* Where the screen is, and which call is next, keep their types.          *)
LEMMA FirstOfType ==
  ASSUME NEW p \in Pages \cup {"cover"}, NEW c
  PROVE  /\ FirstOf(p, c) \in Pollers
         /\ FirstOf(p, c) = "get_icon_app_table" <=> p = "cover"
  BY DEF FirstOf, Pages, Pollers

LEMMA IconType == ASSUME NEW p PROVE IconAt(p) \in Pages \cup {None}
  BY DEF IconAt, Pages

LEMMA ChangeType == ASSUME NEW p PROVE ChangeAt(p) \in {"add", "delete", None}
  BY DEF ChangeAt

LEMMA NoneIsNoReading == None \notin Reading
  BY PanelAssumption DEF Reading

(* The counter stays below its limit, whether a touch resets it or not.    *)
LEMMA CounterType ==
  ASSUME NEW n \in 0..(Last + 1) PROVE Wrapped(n) \in 0..Last /\ Found(n) \in 0..Last
  BY PanelAssumption DEF Wrapped, Found

-----------------------------------------------------------------------------

(* Whatever a scan has found, the function that polls leaves the screen    *)
(* and the touches in order.                                               *)
LEMMA SeeKeepsInv ==
  ASSUME TouchInv, NEW f \in Pollers, NEW now \in Reading \cup {None}, pc = f, See(f, now)
  PROVE  /\ touch' \in Reading \cup {None}
         /\ pressed' \in [Pollers -> Reading \cup {None}]
         /\ page' \in Pages \cup {"cover"}
         /\ pc' \in Pollers \cup {"draw"}
         /\ change_index' \in {"add", "delete", None}
         /\ pc' = "draw" => touch' = None
         /\ page' # "cover" => pressed'["get_icon_app_table"] = None
         /\ page' = "cover" => pressed'["get_return_table"] = None
         /\ PollsItsPage'
  <1> DEFINE p == Released(f, now)
  <1>1. touch' = now /\ Act(f, p) /\ pressed' = [pressed EXCEPT ![f] = now]
    BY DEF See
  <1>2. /\ touch' \in Reading \cup {None}
        /\ pressed' \in [Pollers -> Reading \cup {None}]
    BY <1>1 DEF TouchInv, TouchTypeOK
  <1>3. p # None => now = None
    BY DEF Released
  <1>4. f # "draw" /\ (f = "get_icon_app_table" <=> page = "cover")
    BY DEF TouchInv, PollsItsPage, Pollers
  <1>5. CASE f = "get_icon_app_table" /\ p # None /\ IconAt(p) # None
    <2>1. page' = IconAt(p) /\ pc' = "draw" /\ UNCHANGED change_index
      BY <1>1, <1>5 DEF Act, OnCover
    <2>2. page' \in Pages
      BY <1>5, <2>1, IconType
    <2>3. now = None /\ pressed'["get_icon_app_table"] = None
      BY <1>1, <1>3, <1>5 DEF TouchInv, TouchTypeOK
    <2> QED
      BY <1>1, <1>2, <2>1, <2>2, <2>3 DEF TouchInv, TouchTypeOK, Pages, PollsItsPage
  <1>6. CASE f = "get_icon_app_table" /\ ~(p # None /\ IconAt(p) # None)
    <2>1. UNCHANGED <<page, pc, change_index>>
      BY <1>1, <1>6 DEF Act, OnCover
    <2>2. page' = "cover" /\ pressed'["get_return_table"] = None
      BY <1>1, <1>4, <1>6, <2>1 DEF TouchInv, TouchTypeOK, HandOverByNewTouch, Pollers
    <2> QED
      BY <1>2, <1>4, <2>1, <2>2 DEF TouchInv, TouchTypeOK, PollsItsPage
  <1>7. CASE f \in {"Detect_Keyboard_Touch", "get_change_table"}
    <2>1. /\ page' = page /\ pc' = "get_return_table"
          /\ change_index' \in {"add", "delete", None}
      BY <1>1, <1>7, ChangeType DEF Act, OnKeyboard, OnChange, TouchInv, TouchTypeOK
    <2>2. page' # "cover" /\ pressed'["get_icon_app_table"] = None
      BY <1>1, <1>4, <1>7, <2>1 DEF TouchInv, TouchTypeOK, HandOverByNewTouch, Pollers
    <2> QED
      BY <1>2, <1>4, <2>1, <2>2 DEF TouchInv, TouchTypeOK, PollsItsPage, Pollers
  <1>8. CASE f = "get_return_table" /\ p # None /\ ReturnAt(p)
    <2>1. page' = "cover" /\ pc' = "draw" /\ UNCHANGED change_index
      BY <1>1, <1>8 DEF Act, OnReturn
    <2>2. now = None /\ pressed'["get_return_table"] = None
      BY <1>1, <1>3, <1>8 DEF TouchInv, TouchTypeOK
    <2> QED
      BY <1>1, <1>2, <2>1, <2>2 DEF TouchInv, TouchTypeOK, PollsItsPage
  <1>9. CASE f = "get_return_table" /\ ~(p # None /\ ReturnAt(p))
    <2>1. page' = page /\ pc' = FirstOf(page, change_index) /\ UNCHANGED change_index
      BY <1>1, <1>9 DEF Act, OnReturn
    <2>2. page' # "cover" /\ pressed'["get_icon_app_table"] = None
      BY <1>1, <1>4, <1>9, <2>1 DEF TouchInv, TouchTypeOK, HandOverByNewTouch, Pollers
    <2>3. pc' \in Pollers \ {"get_icon_app_table", "draw"}
      BY <2>1, <2>2, FirstOfType DEF TouchInv, TouchTypeOK, Pollers
    <2> QED
      BY <1>2, <2>1, <2>2, <2>3 DEF TouchInv, TouchTypeOK, PollsItsPage
  <1> QED
    BY <1>5, <1>6, <1>7, <1>8, <1>9 DEF Pollers

LEMMA TouchInvInit == TouchInit => TouchInv
  BY PanelAssumption
  DEF TouchInit, TouchInv, TouchTypeOK, HandOverByNewTouch, PollsItsPage, CounterWrapped, Reading, Pages, Pollers

(* What See needs to know of the scan it follows.                          *)
LEMMA NotCountedType == TouchInv => NotCounted \in Reading \cup {None}
  BY DEF TouchInv, TouchTypeOK, NotCounted

LEMMA TouchInvStep == TouchInv /\ [TouchNext]_touchVars => TouchInv'
  <1> SUFFICES ASSUME TouchInv, [TouchNext]_touchVars PROVE TouchInv'
    OBVIOUS
  <1>1. ASSUME NEW n \in 0..3, NEW p \in Reading, Finger(n, p) PROVE TouchInv'
    BY <1>1 DEF Finger, TouchInv, TouchTypeOK, HandOverByNewTouch, PollsItsPage, CounterWrapped
  <1>2. CASE Draw
    <2>1. pc' \in Pollers /\ (pc' = "get_icon_app_table" <=> page' = "cover")
      BY <1>2, FirstOfType DEF Draw, TouchInv, TouchTypeOK
    <2>2. change_index' \in {"add", "delete", None}
      BY <1>2 DEF Draw, TouchInv, TouchTypeOK
    <2>3. "draw" \notin Pollers
      BY DEF Pollers
    <2> QED
      BY <1>2, <2>1, <2>2, <2>3 DEF Draw, TouchInv, TouchTypeOK, HandOverByNewTouch, PollsItsPage, CounterWrapped
  <1>3. ASSUME NEW f \in Pollers, ScanOnly(f) PROVE TouchInv'
    <2>1. pc = f /\ See(f, NotCounted) /\ UNCHANGED <<panel, reading>>
      BY <1>3 DEF ScanOnly
    <2>2. t' \in 0..Last /\ reading = 0
      BY <1>3, PanelAssumption DEF ScanOnly, Wrapped, TouchInv, TouchTypeOK
    <2> QED
      BY <2>1, <2>2, SeeKeepsInv, NotCountedType, PanelAssumption
      DEF TouchInv, TouchTypeOK, HandOverByNewTouch, CounterWrapped
  <1>4. ASSUME NEW f \in Pollers, ScanFinger(f) PROVE TouchInv'
    <2>1. t' \in 0..(Last + 1) /\ reading' \in 0..2 /\ pc # "draw"
      BY <1>4, PanelAssumption DEF ScanFinger, TouchInv, TouchTypeOK, CounterWrapped, Pollers
    <2> QED
      BY <1>4, <2>1 DEF ScanFinger, TouchInv, TouchTypeOK, HandOverByNewTouch, PollsItsPage, CounterWrapped
  <1>5. ASSUME NEW f \in Pollers, ScanPoint(f) PROVE TouchInv'
    <2>1. PICK now \in Reading \cup {None} : See(f, now)
      BY <1>5 DEF ScanPoint, Reading
    <2>2. t' \in 0..Last /\ reading' = 0 /\ UNCHANGED panel
      BY <1>5, CounterType DEF ScanPoint, TouchInv, TouchTypeOK
    <2>3. pc = f
      BY <1>5 DEF ScanPoint
    <2> QED
      BY <2>1, <2>2, <2>3, SeeKeepsInv, PanelAssumption
      DEF TouchInv, TouchTypeOK, HandOverByNewTouch, CounterWrapped
  <1>6. CASE UNCHANGED touchVars
    BY <1>6 DEF touchVars, TouchInv, TouchTypeOK, HandOverByNewTouch, PollsItsPage, CounterWrapped
  <1> QED
    BY <1>1, <1>2, <1>3, <1>4, <1>5, <1>6 DEF TouchNext, Scan

LEMMA TouchInvHolds == TouchSpec => []TouchInv
  BY TouchInvInit, TouchInvStep, PTL DEF TouchSpec

-----------------------------------------------------------------------------

(* The scan counter stays within its wrap and every variable has its type, *)
(* whatever the fingers do (CST716_Scan and its callers).                  *)
THEOREM TouchTypeCorrect == TouchSpec => []TouchTypeOK
  <1>1. TouchInv => TouchTypeOK
    BY DEF TouchInv
  <1> QED
    BY TouchInvHolds, <1>1, PTL

(* Neither get_icon_app_table nor get_return_table keeps a touch from one  *)
(* hand-over of the screen to its next turn, and at a hand-over tp_dev is  *)
(* not DOWN; so the touch that hands over was seen since the last time.    *)
THEOREM NewTouchesHandOver == TouchSpec => []HandOverByNewTouch
  <1>1. TouchInv => HandOverByNewTouch
    BY DEF TouchInv
  <1> QED
    BY TouchInvHolds, <1>1, PTL

(* A scan that is not asked for comes only behind a full interval.         *)
LEMMA UnaskedIsLate ==
  ASSUME t \in 0..(Last + 1), ~Asked
  PROVE  t >= Every
  <1>1. Every \in Nat /\ Every > 1 /\ t \in Nat
    BY PanelAssumption
  <1>2. ~(t + 1 < Every) /\ (t + 1) % Every # 0
    BY DEF Asked
  <1>3. Every % Every = 0
    BY <1>1
  <1>4. t + 1 # Every
    BY <1>2, <1>3
  <1> QED
    BY <1>1, <1>2, <1>4

(* A touch ends because the fingers left, but for coordinates beyond the   *)
(* panel and for more than two fingers over a whole interval.              *)
THEOREM ReleaseReal == TouchSpec => ReleaseIsReal
  <1> DEFINE Real == touch # None /\ touch' = None =>
                       \/ reading = 0 /\ panel.fingers = 0
                       \/ reading = 1 /\ panel.first = Wild
                       \/ reading = 0 /\ t >= Every
  <1>1. TouchInv /\ [TouchNext]_touchVars => [Real]_touchVars
    <2> SUFFICES ASSUME TouchInv, TouchNext, touch # None, touch' = None
                 PROVE  \/ reading = 0 /\ panel.fingers = 0
                        \/ reading = 1 /\ panel.first = Wild
                        \/ reading = 0 /\ t >= Every
      OBVIOUS
    <2>1. PICK f \in Pollers : ScanOnly(f) \/ ScanPoint(f)
      BY DEF TouchNext, Scan, Finger, Draw, ScanFinger
    <2>2. CASE ScanOnly(f)
      <3>1. reading = 0 /\ NotCounted = None
        BY <2>2 DEF ScanOnly, See
      <3>2. CASE ~Asked
        BY <3>1, <3>2, UnaskedIsLate DEF TouchInv, TouchTypeOK
      <3>3. CASE Asked
        <4>1. panel.fingers \notin {1, 2} /\ ~(panel.fingers > 2)
          BY <2>2, <3>1, <3>3 DEF ScanOnly, NotCounted
        <4>2. panel.fingers \in 0..3
          BY DEF TouchInv, TouchTypeOK
        <4> QED
          BY <3>1, <4>1, <4>2
      <3> QED
        BY <3>2, <3>3
    <2>3. CASE ScanPoint(f)
      BY <2>3, NoneIsNoReading DEF ScanPoint, See, Reading
    <2> QED
      BY <2>1, <2>2, <2>3
  <1> QED
    BY TouchInvHolds, <1>1, PTL DEF TouchSpec, ReleaseIsReal
-----------------------------------------------------------------------------
(* Keys *)

Buffer == [0..(Cells - 1) -> Char \cup {NUL}]

(* A buffer whose next character goes to place j, see Terminated.          *)
Ended(b, j) ==
  /\ b \in Buffer
  /\ j \in 0..(Cells - 1)
  /\ b[j] = NUL
  /\ \A k \in 1..(j - 1) : b[k] # NUL

KeyboardInv == KeyboardTypeOK /\ Ended(rec_buf, i)

(* How many of its characters show.                                        *)
Shown(b, j) == IF b[0] = NUL THEN 0 ELSE j

LEMMA CellsType == Cells \in Nat \ {0} /\ NUL \notin Char
  BY KeyboardAssumption

(* The C string of such a buffer: nothing, or all that was typed.          *)
LEMMA StringOfBuffer ==
  ASSUME NEW b, NEW j, Ended(b, j)
  PROVE  /\ Shown(b, j) \in 0..j
         /\ Length(b) = Shown(b, j)
         /\ CString(b) = [k \in 1..Shown(b, j) |-> b[k - 1]]
         /\ CString(b) \in Seq(Char)
         /\ Len(CString(b)) = Shown(b, j)
  <1> DEFINE n == Shown(b, j)
             IsEnd(m) == /\ m = Cells \/ b[m] = NUL
                         /\ \A k \in 0..(m - 1) : b[k] # NUL
  <1>1. n \in 0..j /\ j \in Nat /\ n \in 0..Cells
    BY CellsType DEF Ended, Shown
  <1>2. IsEnd(n)
    <2>1. CASE b[0] = NUL
      BY <2>1 DEF Shown
    <2>2. CASE b[0] # NUL
      <3>1. n = j
        BY <2>2 DEF Shown
      <3>2. \A k \in 0..(j - 1) : k = 0 \/ k \in 1..(j - 1)
        BY <1>1
      <3> QED
        BY <2>2, <3>1, <3>2 DEF Ended
    <2> QED
      BY <2>1, <2>2
  <1>3. ASSUME NEW m \in 0..Cells, IsEnd(m) PROVE m = n
    <2>1. b[n] = NUL /\ n \in 0..(Cells - 1)
      BY <1>1, CellsType DEF Ended, Shown
    <2>2. ~(m < n)
      <3> SUFFICES ASSUME m < n PROVE FALSE
        OBVIOUS
      <3>1. m \in 0..(n - 1) /\ m # Cells
        BY <1>1, <2>1
      <3> QED
        BY <1>2, <1>3, <3>1
    <2>3. ~(n < m)
      <3> SUFFICES ASSUME n < m PROVE FALSE
        OBVIOUS
      <3>1. n \in 0..(m - 1)
        BY <1>1
      <3> QED
        BY <1>3, <2>1, <3>1
    <2> QED
      BY <1>1, <2>2, <2>3
  <1>4. Length(b) = n
    <2>1. Length(b) = CHOOSE m \in 0..Cells : IsEnd(m)
      BY DEF Length
    <2>2. \E m \in 0..Cells : IsEnd(m)
      BY <1>1, <1>2
    <2> HIDE DEF n, IsEnd
    <2>3. Length(b) \in 0..Cells /\ IsEnd(Length(b))
      BY <2>1, <2>2
    <2> QED
      BY <1>3, <2>3
  <1>5. CString(b) = [k \in 1..n |-> b[k - 1]]
    BY <1>4 DEF CString
  <1>6. \A k \in 1..n : b[k - 1] \in Char
    <2> SUFFICES ASSUME NEW k \in 1..n PROVE b[k - 1] \in Char
      OBVIOUS
    <2>1. k - 1 \in 0..(n - 1) /\ k - 1 \in 0..(Cells - 1)
      <3>1. j \in 0..(Cells - 1)
        BY DEF Ended
      <3> HIDE DEF n
      <3> QED
        BY <1>1, <3>1, CellsType
    <2> QED
      BY <1>2, <2>1 DEF Ended, Buffer
  <1>7. CString(b) \in Seq(Char) /\ Len(CString(b)) = n
    BY <1>1, <1>5, <1>6
  <1> QED
    BY <1>1, <1>4, <1>5, <1>7

(* The line of LineEditor that a buffer stands for.                        *)
LineOf(b, j) == [shown |-> CString(b), lost |-> j - Length(b)]

(* Putting a character behind the others.                                  *)
LEMMA PutEnds ==
  ASSUME KeyboardInv, i + 1 < Cells, NEW c \in Char
  PROVE  /\ Ended(Put(c), i + 1)
         /\ LineOf(Put(c), i + 1) = E!Typed(c)
  <1> DEFINE b == Put(c)
  <1>1. i \in Nat /\ i + 1 \in 0..(Cells - 1) /\ c # NUL /\ rec_buf \in Buffer
    BY CellsType DEF KeyboardInv, Ended
  <1>2. b = [rec_buf EXCEPT ![i] = c, ![i + 1] = NUL]
    BY DEF Put
  <1>3. /\ b \in Buffer /\ b[i] = c /\ b[i + 1] = NUL
        /\ \A k \in 0..(i - 1) : b[k] = rec_buf[k]
    <2> HIDE DEF b
    <2>1. i \in 0..(Cells - 1) /\ \A k \in 0..(i - 1) : k \in 0..(Cells - 1)
      BY <1>1, CellsType
    <2>2. b \in Buffer
      BY <1>1, <1>2, <2>1 DEF Buffer
    <2> QED
      BY <1>1, <1>2, <2>1, <2>2 DEF Buffer
  <1>4. \A k \in 1..i : b[k] # NUL
    <2> SUFFICES ASSUME NEW k \in 1..i PROVE b[k] # NUL
      OBVIOUS
    <2>1. CASE k = i
      BY <1>1, <1>3, <2>1
    <2>2. CASE k \in 1..(i - 1)
      BY <1>1, <1>3, <2>2 DEF KeyboardInv, Ended
    <2> QED
      BY <1>1, <2>1, <2>2
  <1> HIDE DEF b
  <1>5. Ended(b, i + 1)
    BY <1>1, <1>3, <1>4 DEF Ended
  <1>6. /\ Length(rec_buf) = Shown(rec_buf, i) /\ Length(b) = Shown(b, i + 1)
        /\ CString(rec_buf) = [k \in 1..Shown(rec_buf, i) |-> rec_buf[k - 1]]
        /\ CString(rec_buf) \in Seq(Char) /\ Len(CString(rec_buf)) = Shown(rec_buf, i)
        /\ CString(b) = [k \in 1..Shown(b, i + 1) |-> b[k - 1]]
    BY <1>5, StringOfBuffer DEF KeyboardInv
  <1>7. CASE i > 0 /\ rec_buf[0] = NUL
    <2>1. Shown(rec_buf, i) = 0 /\ Shown(b, i + 1) = 0
      BY <1>1, <1>3, <1>7 DEF Shown
    <2>2. CString(rec_buf) = <<>> /\ CString(b) = <<>>
      BY <1>6, <2>1
    <2> QED
      BY <1>1, <1>5, <1>6, <1>7, <2>1, <2>2 DEF LineOf, E!Typed, b
  <1>8. CASE ~(i > 0 /\ rec_buf[0] = NUL)
    <2>1. Shown(rec_buf, i) = i /\ Shown(b, i + 1) = i + 1
      BY <1>1, <1>3, <1>8 DEF Shown, KeyboardInv, Ended
    <2>2. CString(b) = Append(CString(rec_buf), c)
      <3>1. \A k \in 1..i : b[k - 1] = rec_buf[k - 1]
        BY <1>1, <1>3
      <3> QED
        BY <1>1, <1>3, <1>6, <2>1, <3>1
    <2>3. (i + 1) - Length(b) = 0 /\ i - Length(rec_buf) = 0
      BY <1>1, <1>6, <2>1
    <2>4. LineOf(b, i + 1) = [shown |-> Append(CString(rec_buf), c), lost |-> 0]
      BY <2>2, <2>3 DEF LineOf
    <2>5. E!Typed(c) = [shown |-> Append(CString(rec_buf), c), lost |-> 0]
      BY <2>3 DEF E!Typed
    <2> QED
      BY <1>5, <2>4, <2>5 DEF b
  <1> QED
    BY <1>7, <1>8

(* Erasing the last of them, when there is one.                            *)
LEMMA EraseEnds ==
  ASSUME KeyboardInv, i > 0, NEW b, b = [rec_buf EXCEPT ![i - 1] = NUL]
  PROVE  /\ Ended(b, i - 1)
         /\ LineOf(b, i - 1) = E!Erased
  <1>1. /\ i \in Nat /\ i - 1 \in 0..(Cells - 1) /\ rec_buf \in Buffer
        /\ \A k \in 0..(i - 2) : k \in 0..(Cells - 1) /\ k # i - 1
    BY CellsType DEF KeyboardInv, Ended
  <1>2. /\ b \in Buffer /\ b[i - 1] = NUL
        /\ \A k \in 0..(i - 2) : b[k] = rec_buf[k]
    BY <1>1 DEF Buffer
  <1>3. Ended(b, i - 1)
    <2>1. \A k \in 1..((i - 1) - 1) : k \in 0..(i - 2) /\ k \in 1..(i - 1)
      BY <1>1
    <2> QED
      BY <1>1, <1>2, <2>1 DEF KeyboardInv, Ended
  <1>4. /\ Length(rec_buf) = Shown(rec_buf, i) /\ Length(b) = Shown(b, i - 1)
        /\ CString(rec_buf) = [k \in 1..Shown(rec_buf, i) |-> rec_buf[k - 1]]
        /\ CString(rec_buf) \in Seq(Char) /\ Len(CString(rec_buf)) = Shown(rec_buf, i)
        /\ CString(b) = [k \in 1..Shown(b, i - 1) |-> b[k - 1]]
        /\ CString(b) \in Seq(Char) /\ Len(CString(b)) = Shown(b, i - 1)
    <2>1. Ended(rec_buf, i)
      BY DEF KeyboardInv
    <2> DEFINE j == i - 1
    <2>2. Ended(b, j)
      BY <1>3
    <2> HIDE DEF j
    <2>3. /\ Length(b) = Shown(b, j)
          /\ CString(b) = [k \in 1..Shown(b, j) |-> b[k - 1]]
          /\ CString(b) \in Seq(Char) /\ Len(CString(b)) = Shown(b, j)
      BY <2>2, StringOfBuffer
    <2> QED
      BY <2>1, <2>3, StringOfBuffer DEF j
  <1>5. CASE rec_buf[0] = NUL
    <2>1. Shown(rec_buf, i) = 0 /\ Shown(b, i - 1) = 0
      <3>1. CASE i = 1
        BY <1>1, <1>2, <1>5, <3>1 DEF Shown
      <3>2. CASE i # 1
        <4>1. 0 \in 0..(i - 2)
          BY <1>1, <3>2
        <4> QED
          BY <1>2, <1>5, <4>1 DEF Shown
      <3> QED
        BY <3>1, <3>2
    <2>2. CString(rec_buf) = <<>> /\ CString(b) = <<>>
      BY <1>4, <2>1, EmptySeq
    <2>3. /\ (i - 1) - Length(b) = i - 1 /\ i - Length(rec_buf) = i
          /\ i > 0
      BY <1>1, <1>4, <2>1
    <2>4. LineOf(b, i - 1) = [shown |-> <<>>, lost |-> i - 1]
      BY <2>2, <2>3 DEF LineOf
    <2>5. E!Erased = [shown |-> <<>>, lost |-> i - 1]
      BY <2>2, <2>3 DEF E!Erased
    <2> QED
      BY <1>3, <2>4, <2>5
  <1>6. CASE rec_buf[0] # NUL
    <2>1. Shown(rec_buf, i) = i /\ Shown(b, i - 1) = i - 1
      <3>1. CASE i = 1
        BY <1>1, <1>2, <1>6, <3>1 DEF Shown
      <3>2. CASE i # 1
        <4>1. 0 \in 0..(i - 2)
          BY <1>1, <3>2
        <4> QED
          BY <1>2, <1>6, <4>1 DEF Shown
      <3> QED
        BY <3>1, <3>2
    <2>2. /\ CString(b) = SubSeq(CString(rec_buf), 1, Len(CString(rec_buf)) - 1)
          /\ CString(rec_buf) # <<>>
      <3>1. \A k \in 1..(i - 1) : b[k - 1] = rec_buf[k - 1]
        BY <1>1, <1>2
      <3>2. Len(CString(rec_buf)) = i /\ i - 1 \in 0..i
        BY <1>1, <1>4, <2>1
      <3>3. SubSeq(CString(rec_buf), 1, i - 1) = [k \in 1..(i - 1) |-> CString(rec_buf)[k]]
        BY <1>1, <1>4, <3>2
      <3>4. \A k \in 1..(i - 1) : CString(rec_buf)[k] = rec_buf[k - 1]
        BY <1>1, <1>4, <2>1
      <3>5. CString(b) = [k \in 1..(i - 1) |-> rec_buf[k - 1]]
        BY <1>4, <2>1, <3>1
      <3>6. [k \in 1..(i - 1) |-> CString(rec_buf)[k]] = [k \in 1..(i - 1) |-> rec_buf[k - 1]]
        BY <3>4
      <3>7. CString(rec_buf) # <<>>
        BY <1>1, <3>2
      <3> QED
        BY <3>2, <3>3, <3>5, <3>6, <3>7
    <2>3. (i - 1) - Length(b) = 0 /\ i - Length(rec_buf) = 0
      BY <1>1, <1>4, <2>1
    <2>4. LineOf(b, i - 1) = [shown |-> CString(b), lost |-> 0]
      BY <2>3 DEF LineOf
    <2>5. E!Erased = [shown |-> CString(b), lost |-> 0]
      <3> DEFINE line == [shown |-> CString(rec_buf), lost |-> i - Length(rec_buf)]
      <3>1. line.shown = CString(rec_buf) /\ line.lost = 0 /\ ~(line.lost > 0)
        BY <2>3
      <3>2. E!Erased = [line EXCEPT !.shown = SubSeq(line.shown, 1, Len(line.shown) - 1)]
        BY <2>2, <3>1 DEF E!Erased
      <3>3. line = [shown |-> CString(rec_buf), lost |-> 0]
        BY <2>3
      <3> HIDE DEF line
      <3> QED
        BY <2>2, <3>2, <3>3
    <2> QED
      BY <1>3, <2>4, <2>5
  <1> QED
    BY <1>5, <1>6

(* A look-up, of which all but the characters that do not show is gone.    *)
LEMMA LookUpEnds ==
  ASSUME NEW b, NEW j, Ended(b, j), NEW c, c = [b EXCEPT ![0] = NUL]
  PROVE  /\ Ended(c, j) /\ Ended(c, 0)
         /\ LineOf(c, j) = [shown |-> <<>>, lost |-> j]
         /\ LineOf(c, 0) = E!Empty
         /\ LineOf(b, j).lost + Len(LineOf(b, j).shown) = j
  <1>1. /\ j \in Nat /\ 0 \in 0..(Cells - 1) /\ c \in Buffer /\ c[0] = NUL
        /\ \A k \in 1..(j - 1) : k \in 0..(Cells - 1) /\ k # 0
    BY CellsType DEF Ended, Buffer
  <1>2. Ended(c, j) /\ Ended(c, 0)
    <2>1. \A k \in 1..(j - 1) : c[k] # NUL
      BY <1>1 DEF Ended, Buffer
    <2>2. c[j] = NUL
      BY <1>1 DEF Ended, Buffer
    <2> QED
      BY <1>1, <2>1, <2>2 DEF Ended
  <1>3. Length(c) = 0 /\ CString(c) \in Seq(Char) /\ Len(CString(c)) = 0
    <2>1. Shown(c, j) = 0
      BY <1>1 DEF Shown
    <2> QED
      BY <1>2, <2>1, StringOfBuffer
  <1>4. CString(c) = <<>>
    BY <1>3, EmptySeq
  <1>5. j - Length(c) = j /\ 0 - Length(c) = 0
    BY <1>1, <1>3
  <1>6. /\ Length(b) \in 0..j /\ Len(CString(b)) = Length(b)
        /\ (j - Length(b)) + Length(b) = j
    BY <1>1, StringOfBuffer
  <1> QED
    BY <1>2, <1>4, <1>5, <1>6 DEF LineOf, E!Empty

(* What the page does with the buffer a key has left.                      *)
LEMMA LookUpMaps ==
  ASSUME NEW b, Ended(b, i'), LookUp(b)
  PROVE  /\ Ended(rec_buf', i') /\ asked' \in Seq(Char)
         /\ E!LookUp(LineOf(b, i'))
  <1>1. asked' = CString(b) /\ rec_buf' = [b EXCEPT ![0] = NUL]
    BY DEF LookUp
  <1>2. /\ Ended(rec_buf', i')
        /\ LineOf(rec_buf', i') = [shown |-> <<>>, lost |-> i']
        /\ LineOf(b, i').lost + Len(LineOf(b, i').shown) = i'
    BY <1>1, LookUpEnds
  <1>3. asked' \in Seq(Char)
    BY <1>1, StringOfBuffer
  <1>4. LineOf(b, i').shown = CString(b)
    BY DEF LineOf
  <1> QED
    BY <1>1, <1>2, <1>3, <1>4 DEF E!LookUp, LineOf

LEMMA UndefinedMaps ==
  ASSUME KeyboardInv, NEW b, Ended(b, i'), Undefined(b)
  PROVE  /\ Ended(rec_buf', i') /\ asked' \in Seq(Char)
         /\ E!FunctionKey(LineOf(b, i'))
  <1>1. CASE LookUp(b)
    BY <1>1, LookUpMaps DEF E!FunctionKey
  <1>2. CASE rec_buf' = b /\ UNCHANGED asked
    BY <1>2 DEF KeyboardInv, KeyboardTypeOK, E!FunctionKey, LineOf
  <1> QED
    BY <1>1, <1>2 DEF Undefined

(* A step of the editor or none.                                           *)
EStep == E!EditorNext \/ UNCHANGED <<LineOf(rec_buf, i), asked>>

LEMMA EmptyAsked == <<>> \in Seq(Char)
  OBVIOUS

LEMMA KeyboardInvInit == KeyboardInit => KeyboardInv /\ E!EditorInit
  <1> SUFFICES ASSUME KeyboardInit PROVE KeyboardInv /\ E!EditorInit
    OBVIOUS
  <1>1. 0 \in 0..(Cells - 1) /\ Cells \in Nat
    BY CellsType
  <1>2. Ended(rec_buf, i)
    BY <1>1 DEF KeyboardInit, Ended, Buffer
  <1>3. Shown(rec_buf, i) = 0
    BY <1>1 DEF KeyboardInit, Shown
  <1>4. CString(rec_buf) = <<>> /\ Length(rec_buf) = 0
    BY <1>2, <1>3, StringOfBuffer, EmptySeq
  <1>5. KeyboardInv
    BY <1>1, <1>2, EmptyAsked DEF KeyboardInit, KeyboardInv, KeyboardTypeOK, Buffer
  <1>6. i - Length(rec_buf) = 0
    BY <1>4 DEF KeyboardInit
  <1> QED
    BY <1>4, <1>5, <1>6 DEF KeyboardInit, E!EditorInit, E!Empty

(* SHIFT and CAPS leave the buffer alone.                                  *)
LEMMA ModeKey ==
  ASSUME KeyboardInv, UNCHANGED <<i, open>>, Undefined(rec_buf),
         shift_state' \in BOOLEAN, caps_state' \in BOOLEAN, faces' \in BOOLEAN
  PROVE  KeyboardInv' /\ EStep
  <1>1. Ended(rec_buf, i')
    BY DEF KeyboardInv
  <1>2. /\ Ended(rec_buf', i') /\ asked' \in Seq(Char)
        /\ E!FunctionKey(LineOf(rec_buf, i'))
    BY <1>1, UndefinedMaps
  <1>3. LineOf(rec_buf, i') = LineOf(rec_buf, i)
    OBVIOUS
  <1>4. EStep
    BY <1>2, <1>3 DEF EStep, E!EditorNext, LineOf
  <1>5. KeyboardInv'
    BY <1>2 DEF KeyboardInv, KeyboardTypeOK, Ended, Buffer
  <1> QED
    BY <1>4, <1>5

LEMMA KeyboardInvStep == KeyboardInv /\ [KeyboardNext]_keyboardVars => KeyboardInv' /\ EStep
  <1> SUFFICES ASSUME KeyboardInv, [KeyboardNext]_keyboardVars PROVE KeyboardInv' /\ EStep
    OBVIOUS
  <1> USE DEF KeyboardInv
  <1>1. CASE Open
    BY <1>1 DEF Open, KeyboardTypeOK, EStep
  <1>2. CASE Leave
    BY <1>2 DEF Leave, KeyboardTypeOK, EStep
  <1>3. CASE FUNC_SHIFT
    BY <1>3, ModeKey DEF FUNC_SHIFT, KeyboardTypeOK
  <1>4. CASE FUNC_CAPS
    BY <1>4, ModeKey DEF FUNC_CAPS, KeyboardTypeOK
  <1>5. CASE FUNC_ENTER
    <2>1. [rec_buf EXCEPT ![i] = NUL] = rec_buf
      BY DEF Ended, Buffer
    <2>2. /\ asked' = CString(rec_buf) /\ i' = 0
          /\ rec_buf' = [rec_buf EXCEPT ![0] = NUL]
      BY <1>5, <2>1 DEF FUNC_ENTER, LookUp
    <2>3. Ended(rec_buf', i') /\ LineOf(rec_buf', i') = E!Empty
      BY <2>2, LookUpEnds
    <2>4. asked' \in Seq(Char) /\ asked' = LineOf(rec_buf, i).shown
      BY <2>2, StringOfBuffer DEF LineOf
    <2>5. E!Enter
      BY <2>3, <2>4 DEF E!Enter, LineOf
    <2> QED
      BY <1>5, <2>3, <2>4, <2>5 DEF FUNC_ENTER, KeyboardTypeOK, Ended, Buffer, EStep, E!EditorNext
  <1>6. CASE FUNC_BACKSPACE
    <2> DEFINE b == IF i > 0 THEN [rec_buf EXCEPT ![i'] = NUL] ELSE rec_buf
    <2>1. Ended(b, i') /\ LineOf(b, i') = E!Erased
      <3>1. CASE i > 0
        <4>1. i' = i - 1 /\ b = [rec_buf EXCEPT ![i - 1] = NUL]
          BY <1>6, <3>1 DEF FUNC_BACKSPACE
        <4> QED
          BY <3>1, <4>1, EraseEnds
      <3>2. CASE ~(i > 0)
        <4>1. i' = i /\ i = 0 /\ b = rec_buf
          BY <1>6, <3>2, CellsType DEF FUNC_BACKSPACE, Ended
        <4>2. Shown(rec_buf, i) = 0
          BY <4>1 DEF Shown
        <4>3. CString(rec_buf) = <<>> /\ Length(rec_buf) = 0
          BY <4>2, StringOfBuffer, EmptySeq
        <4>4. LineOf(rec_buf, i) = [shown |-> <<>>, lost |-> 0]
          BY <4>1, <4>3 DEF LineOf
        <4>5. E!Erased = [shown |-> <<>>, lost |-> 0]
          BY <4>1, <4>3 DEF E!Erased
        <4> QED
          BY <4>1, <4>4, <4>5
      <3> QED
        BY <3>1, <3>2
    <2>2. Undefined(b)
      BY <1>6 DEF FUNC_BACKSPACE
    <2> HIDE DEF b
    <2>3. /\ Ended(rec_buf', i') /\ asked' \in Seq(Char)
          /\ E!FunctionKey(LineOf(b, i'))
      BY <2>1, <2>2, UndefinedMaps
    <2>4. E!FunctionKey(E!Erased)
      BY <2>1, <2>3
    <2> QED
      BY <1>6, <2>3, <2>4 DEF FUNC_BACKSPACE, KeyboardTypeOK, Ended, Buffer, EStep, E!EditorNext
  <1>7. CASE Space
    <2>1. FUNC_SPACE \in Char
      BY DEF Char
    <2>2. i + 1 < Cells /\ i' = i + 1
      BY <1>7 DEF Space, Advance
    <2> DEFINE b == Put(FUNC_SPACE)
    <2>3. Ended(b, i') /\ LineOf(b, i') = E!Typed(FUNC_SPACE)
      BY <2>1, <2>2, PutEnds
    <2>4. Undefined(b)
      BY <1>7 DEF Space
    <2> HIDE DEF b
    <2>5. /\ Ended(rec_buf', i') /\ asked' \in Seq(Char)
          /\ E!FunctionKey(LineOf(b, i'))
      BY <2>3, <2>4, UndefinedMaps
    <2>6. E!FunctionKey(E!Typed(FUNC_SPACE))
      BY <2>3, <2>5
    <2> QED
      BY <1>7, <2>1, <2>5, <2>6 DEF Space, KeyboardTypeOK, Ended, Buffer, EStep, E!EditorNext
  <1>8. ASSUME NEW c \in Char, Character(c) PROVE KeyboardInv' /\ EStep
    <2>1. i + 1 < Cells /\ i' = i + 1 /\ rec_buf' = Put(c) /\ asked' = asked
      BY <1>8 DEF Character, Advance
    <2>2. Ended(rec_buf', i') /\ LineOf(rec_buf', i') = E!Typed(c)
      BY <2>1, PutEnds
    <2>3. E!Character(c)
      BY <2>1, <2>2 DEF E!Character, LineOf
    <2> QED
      BY <1>8, <2>1, <2>2, <2>3 DEF Character, KeyboardTypeOK, Ended, Buffer, EStep, E!EditorNext
  <1>9. CASE Character(FUNC_SYMBOL)
    <2>1. FUNC_SYMBOL \in Char
      BY DEF Char
    <2> QED
      BY <1>8, <1>9, <2>1
  <1>10. ASSUME NEW k \in Key, Character(IF Mode THEN Shifted[k] ELSE Normal[k])
         PROVE  KeyboardInv' /\ EStep
    <2>1. (IF Mode THEN Shifted[k] ELSE Normal[k]) \in Char
      BY DEF Char
    <2> QED
      BY <1>8, <1>10, <2>1
  <1>11. CASE UNCHANGED keyboardVars
    BY <1>11 DEF keyboardVars, KeyboardTypeOK, EStep
  <1> QED
    BY <1>1, <1>2, <1>3, <1>4, <1>5, <1>6, <1>7, <1>9, <1>10, <1>11 DEF KeyboardNext

-----------------------------------------------------------------------------

(* The keyboard's variables stay in their types; in particular no name of  *)
(* less than Cells bytes is ever written behind rec_buf (keyboard.c:259).  *)
THEOREM KeyboardTypeCorrect == KeyboardSpec => []KeyboardTypeOK
  <1>1. KeyboardInv => KeyboardTypeOK
    BY DEF KeyboardInv
  <1> QED
    BY <1>1, KeyboardInvInit, KeyboardInvStep, PTL DEF KeyboardSpec

(* rec_buf is a string that ends where the next character goes, whatever   *)
(* was typed, erased or looked up before (keyboard.c:245-263).             *)
THEOREM NameTerminated == KeyboardSpec => []Terminated
  <1>1. KeyboardInv => Terminated
    BY DEF KeyboardInv, Ended, Terminated
  <1> QED
    BY <1>1, KeyboardInvInit, KeyboardInvStep, PTL DEF KeyboardSpec

(* The keys of keyboard.c edit a line as LineEditor says.                  *)
THEOREM LineEditorRefined == KeyboardSpec => ImplementsEditor
  <1>1. EStep => [E!EditorNext]_<<LineOf(rec_buf, i), asked>>
    BY DEF EStep
  <1> QED
    BY <1>1, KeyboardInvInit, KeyboardInvStep, PTL DEF KeyboardSpec, ImplementsEditor, E!EditorSpec, LineOf

(* An open page shows the characters its keys type, once SHIFT or CAPS has *)
(* been touched (keyboard.c:228-239).                                      *)
THEOREM FacesAgree == KeyboardSpec => FacesFollowMode
  <1>1. ASSUME [KeyboardNext]_keyboardVars, open, open'
        PROVE  /\ faces = Mode => faces' = Mode'
               /\ Mode' # Mode => faces' = Mode'
    BY <1>1 DEF KeyboardNext, keyboardVars, Open, Leave, FUNC_SHIFT, FUNC_CAPS, FUNC_ENTER,
                FUNC_BACKSPACE, Space, Character, Mode
  <1> QED
    BY <1>1, PTL DEF KeyboardSpec, FacesFollowMode

=============================================================================

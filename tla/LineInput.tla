------------------------------ MODULE LineInput ------------------------------
(***************************************************************************)
(* What the serial port promises the pages that read a typed line: bytes   *)
(* gather into a line until CR LF ends it; a ready line is then taken      *)
(* whole, and what arrives before it is taken is lost.  A line of Limit    *)
(* bytes, or a CR without LF, starts over.                                 *)
(***************************************************************************)
EXTENDS Naturals, Sequences

CONSTANTS
  Byte,    \* the bytes the terminal sends
  CR, LF,  \* 0x0d and 0x0a
  Limit    \* USART1_REC_LEN

VARIABLES
  line,    \* the bytes of the current line
  phase,   \* "typing", "cr" after a CR, "ready" after CR LF
  taken    \* the line the pages read last

lineVars == <<line, phase, taken>>

LineInit == line = <<>> /\ phase = "typing" /\ taken = <<>>

StartOver == line' = <<>> /\ phase' = "typing"

Type(b) ==
  /\ phase = "typing"
  /\ b # CR
  /\ IF Len(line) + 1 < Limit THEN line' = Append(line, b) /\ phase' = "typing"
                              ELSE StartOver
  /\ UNCHANGED taken

Return == phase = "typing" /\ phase' = "cr" /\ UNCHANGED <<line, taken>>

EndLine == phase = "cr" /\ phase' = "ready" /\ UNCHANGED <<line, taken>>

Spoil == phase = "cr" /\ StartOver /\ UNCHANGED taken

Take == phase = "ready" /\ taken' = line /\ StartOver

LineNext == (\E b \in Byte : Type(b)) \/ Return \/ EndLine \/ Spoil \/ Take

LineSpec == LineInit /\ [][LineNext]_lineVars
=============================================================================

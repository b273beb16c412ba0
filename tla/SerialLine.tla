----------------------------- MODULE SerialLine -----------------------------
(***************************************************************************)
(* The serial line of Public/usart.c and the way Bo_Re (Others/rc522.c)    *)
(* and the change thread (User/main.c) read it.  USART1_IRQHandler stores  *)
(* one byte at a time and may interrupt the reader between any two of its  *)
(* steps: seeing bit 15, reading the length, copying byte by byte and      *)
(* clearing USART1_RX_STA.  No lock is shared; bit 15 alone keeps the      *)
(* interrupt out.  Only one thread reads at a time (see Handoff).          *)
(*                                                                         *)
(* sta holds the fields of USART1_RX_STA: done (bit 15), cr (bit 14) and n *)
(* (bits 13 to 0).                                                         *)
(***************************************************************************)
EXTENDS Naturals, Sequences

CONSTANTS
  Byte,    \* the bytes the terminal sends
  CR, LF,  \* 0x0d and 0x0a
  Zero,    \* 0, which fills the arrays at first
  RecLen   \* USART1_REC_LEN

ASSUME SerialAssumption == /\ Zero \in Byte
                           /\ CR \in Byte
                           /\ LF \in Byte
                           /\ CR # LF
                           /\ RecLen \in 1..256   \* len and t are u8

VARIABLES
  sta,     \* USART1_RX_STA
  buf,     \* USART1_RX_BUF
  reader,  \* where the reader stands
  len,     \* the length it read
  copied,  \* its loop counter t
  rec,     \* rc522_name or rec_name
  taken    \* the line the reader handed on last

serialVars == <<sta, buf, reader, len, copied, rec, taken>>

Cell == 0..(RecLen - 1)
Idle == [done |-> FALSE, cr |-> FALSE, n |-> 0]

SerialInit ==
  /\ sta = Idle
  /\ buf = [i \in Cell |-> Zero]
  /\ reader = "poll"
  /\ len = 0 /\ copied = 0
  /\ rec = [i \in Cell |-> Zero]
  /\ taken = <<>>

(* Mutant: the length is checked one byte too late.                        *)
FullTooLate(n) == n > RecLen

Full(n) == n > RecLen - 1

(* USART1_IRQHandler while no line is waiting: the byte is taken.          *)
Store(b) ==
  /\ UNCHANGED <<reader, len, copied, rec, taken>>
  /\ \/ /\ sta.cr
        /\ sta' = IF b = LF THEN [sta EXCEPT !.done = TRUE] ELSE Idle
        /\ UNCHANGED buf
     \/ /\ ~sta.cr /\ b = CR
        /\ sta' = [sta EXCEPT !.cr = TRUE]
        /\ UNCHANGED buf
     \/ /\ ~sta.cr /\ b # CR
        /\ buf' = [buf EXCEPT ![sta.n] = b]
        /\ sta' = IF Full(sta.n + 1) THEN Idle ELSE [sta EXCEPT !.n = @ + 1]

(* Mutant: bit 15 does not keep the interrupt out.                         *)
ReceiveAlways(b) == Store(b)

Receive(b) == ~sta.done /\ Store(b)

(* The same interrupt while a line is waiting: the byte is dropped.        *)
Drop(b) == sta.done /\ UNCHANGED serialVars

(* Mutant: a line is read before it is complete.                           *)
SeeLineTooEarly == /\ reader = "poll"
                   /\ reader' = "measure"
                   /\ UNCHANGED <<sta, buf, len, copied, rec, taken>>

(* if(USART1_RX_STA & 0x8000)                                              *)
SeeLine == /\ reader = "poll" /\ sta.done
           /\ reader' = "measure"
           /\ UNCHANGED <<sta, buf, len, copied, rec, taken>>

(* len = USART1_RX_STA & 0x3fff                                            *)
Measure == /\ reader = "measure"
           /\ len' = sta.n /\ copied' = 0
           /\ reader' = "copy"
           /\ UNCHANGED <<sta, buf, rec, taken>>

Copy == /\ reader = "copy" /\ copied < len
        /\ rec' = [rec EXCEPT ![copied] = buf[copied]]
        /\ copied' = copied + 1
        /\ UNCHANGED <<sta, buf, reader, len, taken>>

(* Mutant: USART1_RX_STA is not cleared.                                   *)
ClearForgotten == /\ reader = "copy" /\ copied = len
                  /\ taken' = [i \in 1..len |-> rec[i - 1]]
                  /\ reader' = "poll"
                  /\ UNCHANGED <<sta, buf, len, copied, rec>>

(* USART1_RX_STA = 0, and the copy is used.                                *)
Clear == /\ reader = "copy" /\ copied = len
         /\ sta' = Idle
         /\ taken' = [i \in 1..len |-> rec[i - 1]]
         /\ reader' = "poll"
         /\ UNCHANGED <<buf, len, copied, rec>>

SerialNext == \/ \E b \in Byte : Receive(b) \/ Drop(b)
              \/ SeeLine \/ Measure \/ Copy \/ Clear

SerialSpec == SerialInit /\ [][SerialNext]_serialVars

-----------------------------------------------------------------------------

SerialTypeOK ==
  /\ sta \in [done : BOOLEAN, cr : BOOLEAN, n : Cell]
  /\ buf \in [Cell -> Byte]
  /\ reader \in {"poll", "measure", "copy"}
  /\ len \in Cell
  /\ copied \in Cell
  /\ rec \in [Cell -> Byte]
  /\ taken \in Seq(Byte)

(* The reader never copies a line that is still growing, and never copies  *)
(* beyond it: while it works, the line it saw is still there unchanged.    *)
ReaderSeesWholeLine ==
  /\ reader # "poll" => sta.done
  /\ reader = "copy" => /\ len = sta.n /\ copied <= len
                        /\ \A i \in 0..(copied - 1) : rec[i] = buf[i]

(* A finished line stays as it is, whatever arrives, until the reader      *)
(* clears it.                                                              *)
FinishedLineFrozen ==
  [][sta.done /\ ~(reader = "copy" /\ reader' = "poll") => sta' = sta /\ buf' = buf]_serialVars

L == INSTANCE LineInput WITH
  Limit <- RecLen,
  line <- [i \in 1..sta.n |-> buf[i - 1]],
  phase <- IF sta.done THEN "ready" ELSE IF sta.cr THEN "cr" ELSE "typing"

(* Reading byte by byte under interrupts is as good as taking the line in  *)
(* one step.                                                               *)
ImplementsLineInput == L!LineSpec
=============================================================================

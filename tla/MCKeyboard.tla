----------------------------- MODULE MCKeyboard -----------------------------
EXTENDS Keyboard

MCKey == {"key"}
MCNormal == [k \in MCKey |-> "a"]
MCShifted == [k \in MCKey |-> "A"]
=============================================================================

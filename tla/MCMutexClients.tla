--------------------------- MODULE MCMutexClients ---------------------------
(* Two threads of one priority between a more and a less urgent one, with  *)
(* the idle thread below them.                                             *)
EXTENDS MutexClients

CONSTANTS high, mid1, mid2, low, idle, lcd_mutex, none

MCThread == {high, mid1, mid2, low, idle}
MCPriority == [t \in MCThread |-> CASE t = high -> 1
                                    [] t \in {mid1, mid2} -> 3
                                    [] t = low -> 10
                                    [] t = idle -> 31]
=============================================================================

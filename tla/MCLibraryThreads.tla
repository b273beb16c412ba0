-------------------------- MODULE MCLibraryThreads --------------------------
(* The threads and priorities of User/main.c and components.c.             *)
EXTENDS LibraryThreads

CONSTANTS main, idle, lcd, find, borrow, giveback, change, none

MCPages == <<find, borrow, giveback, change>>
MCSem == {lcd} \cup ToSet(MCPages)
MCThread == {main, idle} \cup MCSem

Priority(t) == CASE t = lcd  -> 1
                 [] t = main -> 10
                 [] t = idle -> 31
                 [] OTHER    -> 3
MCPriority == [t \in MCThread |-> Priority(t)]
=============================================================================

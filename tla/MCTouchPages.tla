---------------------------- MODULE MCTouchPages ----------------------------
EXTENDS TouchPages

MCPoint == {<<125, 125>>,   \* the icon of the find page
            <<365, 125>>,   \* the icon of the borrow page
            <<365, 330>>,   \* the icon of the change page, and its first line
            <<60, 480>>,    \* a key
            <<240, 750>>}   \* RETURN
MCWild == <<4095, 4095>>
=============================================================================

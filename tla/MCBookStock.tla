----------------------------- MODULE MCBookStock -----------------------------
(* Two books at start and room for one more; names may be the same.        *)
EXTENDS BookStock

CONSTANTS n1, n2, a0, a1, a2, a3

MCNames == <<n1, n2>>
MCAddr == {a0, a1, a2, a3}
=============================================================================

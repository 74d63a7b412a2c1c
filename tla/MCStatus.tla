------------------------------- MODULE MCStatus -------------------------------
(* Contents for Status: x and y have the same size, e has none.            *)
EXTENDS Status

CONSTANTS x, y, e
Sizes == [b \in Blob |-> IF b = e THEN 0 ELSE 1]
=============================================================================

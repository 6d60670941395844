--------------------------- MODULE MCKyberChannel ---------------------------
(* Products at the ends and in the middle of their range; every noise up to *)
(* a little more than a quarter of q, and the same beyond q.                *)
EXTENDS KyberChannel

MCProducts == {-3328, -1665, -832, -104, 0, 1, 833, 1664, 3328}
MCNoise == -840 .. 840
=============================================================================

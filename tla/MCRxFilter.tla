---------------------------- MODULE MCRxFilter ----------------------------
(* RxFilter for TLC: the first two groups share one position of the        *)
(* filter, the third has its own.                                          *)
EXTENDS RxFilter, Sequences

MCGroup == {<<1, 0, 94, 0, 0, 1>>, <<1, 0, 94, 0, 0, 64>>, <<1, 0, 94, 127, 255, 250>>}
MCAddress == {"a1", "a2"}
=============================================================================

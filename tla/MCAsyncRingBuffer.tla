------------------------- MODULE MCAsyncRingBuffer -------------------------
(* Two writers, one of which writes a second record. *)
EXTENDS AsyncRingBuffer, TLC

CONSTANTS w1, w2

MCWriters == {w1, w2}
MCItems == w1 :> 2 @@ w2 :> 1
=============================================================================

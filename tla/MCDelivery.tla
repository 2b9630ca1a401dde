------------------------------ MODULE MCDelivery ------------------------------
(* Delivery with a long and a short session for TLC. *)
EXTENDS Delivery

CONSTANTS long, short

MCSamples == (long :> 6) @@ (short :> 1)
MCSpeech == {1, 2, 4}
MCStops == {<<long, 2>>}
MCWrong == (long :> <<long, 0>>) @@ (short :> <<short, 0>>)
MCBlanks == {<<long, 0>>}
=============================================================================

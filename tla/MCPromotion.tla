---------------------------- MODULE MCPromotion ----------------------------
(* A checkpoint and MOD_SUM, two temporaries. *)
EXTENDS Promotion
MCMainOrder == <<"POINT1", "MOD_SUM">>
MCTempOrder == <<"GAMMASOUT", "POPCARB">>
=============================================================================

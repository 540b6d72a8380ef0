------------------------------- MODULE MCErtm -------------------------------
(* Two ends, one of which sends most of the units. *)
EXTENDS Ertm, TLC

CONSTANTS alice, bob
SdusOfEach == {(alice :> 4) @@ (bob :> 0), (alice :> 2) @@ (bob :> 1)}
=============================================================================

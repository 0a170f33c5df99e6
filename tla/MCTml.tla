-------------------------------- MODULE MCTml --------------------------------
(* Bounds of the model-checked instances of Tml.                           *)
EXTENDS Tml
=============================================================================

------------------------------- MODULE MCHbci -------------------------------
(* Chips, files and mishaps for the model-checked instance of Hbci.        *)
EXTENDS Hbci

BothKinds == {"dev", "prod"}
EveryMishap == {"write", "read", "empty", "partial", "refuse", "garbled",
                "again", "file"}
=============================================================================

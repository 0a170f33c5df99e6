------------------------------ MODULE MCCoreInit ------------------------------
(* What may go wrong in the model-checked instances of CoreInit.            *)
EXTENDS CoreInit

AllMishaps ==
  {"download", "missing", "nak", "silent", "unheard", "mute", "twice", "crash",
   "late"}
=============================================================================

---------------------------- MODULE MCUciCommand ----------------------------
(* Sets for the model-checked instances of UciCommand.                     *)
EXTENDS UciCommand

AllKinds == {"internal", "host", "chained", "parsed"}
AllReplies == {"ok", "error", "retry", "length"}
=============================================================================

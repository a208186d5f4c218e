--------------------------- MODULE MCVerifyWorker ---------------------------
(* Small instances of VerifyWorker for TLC. *)
EXTENDS VerifyWorker

CONSTANTS g1, g2, w1

TwoGroups == {g1, g2}
OneGroup  == {g1}
OneWorker == {w1}

AllFaults   == FaultKind
Recoverable == {"step", "reply"}
OnlyPublish == {"publish"}
=============================================================================

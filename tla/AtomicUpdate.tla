---------------------------- MODULE AtomicUpdate ----------------------------
(***************************************************************************)
(* What a firmware update promises: the next boot runs one whole version,  *)
(* and an update replaces it in a single step by the version asked for, or *)
(* not at all, wherever the power fails.                                   *)
(***************************************************************************)
CONSTANT Versions, None

VARIABLES boots,   \* the version the next boot would run
          wanted   \* the version being installed, or None

Init == boots \in Versions /\ wanted = None

Ask(v) == wanted = None /\ wanted' = v /\ UNCHANGED boots
Commit == wanted # None /\ boots' = wanted /\ UNCHANGED wanted
End    == wanted # None /\ wanted' = None /\ UNCHANGED boots

Next == (\E v \in Versions : Ask(v)) \/ Commit \/ End

Spec == Init /\ [][Next]_<<boots, wanted>>
=============================================================================

----------------------------- MODULE MCEndToEnd ------------------------------
(***************************************************************************)
(* Instances of EndToEnd for TLC.                                          *)
(***************************************************************************)
EXTENDS EndToEnd

CONSTANT s1

OneSubtask == {s1}

MCLineWidth == [kind \in {"pending", "progress", "validating", "data"} |->
                  IF kind = "progress" THEN 10 ELSE 6]
=============================================================================

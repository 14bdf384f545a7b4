----------------------------- MODULE MCVideoRing -----------------------------
(* VideoRing with the values TLC uses for its constants.                    *)
EXTENDS VideoRing

(* The last start is followed only as far as it shows what the starts       *)
(* before it left: all of it if frames were counted and thrown away with    *)
(* the ring of a start that failed, else up to the opening of the file.  A  *)
(* capture that meets the state of the last one is explored with the second *)
(* start.                                                                   *)
LastStart ==
  captures < MaxCaptures \/ ipc \in {"init", "open"} \/ discarded > 0
=============================================================================

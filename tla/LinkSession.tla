---------------------------- MODULE LinkSession ----------------------------
(***************************************************************************)
(* What the firmware's main loop may rely on about the link to the tablet: *)
(* it is used in sessions.  A session is opened only by an enumeration,    *)
(* and one that was dropped, or could not be opened, stays closed until    *)
(* the tablet is attached anew.                                            *)
(***************************************************************************)
VARIABLE session

Init == session = "none"

Attach == session = "none" /\ session' = "opening"

Open == session = "opening" /\ session' = "open"

(* The enumeration ended without a usable tablet.                          *)
Fail == session = "opening" /\ session' = "closed"

(* The firmware gave the session up; an enumeration may still be going on. *)
Drop == session = "open" /\ session' \in {"opening", "closed"}

Detach == session # "none" /\ session' = "none"

Next == Attach \/ Open \/ Fail \/ Drop \/ Detach

Spec == Init /\ [][Next]_session
=============================================================================

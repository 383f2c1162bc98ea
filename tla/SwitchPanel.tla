---------------------------- MODULE SwitchPanel ----------------------------
(***************************************************************************)
(* What the firmware promises the tablet about the switched circuits: a    *)
(* panel of switches.  A telecommand sets one of them; the switch          *)
(* telemetry shows, for every circuit of the panel, the position the last  *)
(* telecommand for it asked for, whatever else the firmware does.          *)
(***************************************************************************)
CONSTANT Circuits   \* in the order of the telemetry message

VARIABLES
    wanted,   \* the position each circuit was last asked to take
    report    \* the last switch telemetry

vars == <<wanted, report>>

AllOff == [c \in Circuits |-> FALSE]

Init == wanted = AllOff /\ report = AllOff

Switch(c, on) ==
    /\ wanted' = [wanted EXCEPT ![c] = on]
    /\ UNCHANGED report

Report ==
    /\ report' = wanted
    /\ UNCHANGED wanted

Next == Report \/ \E c \in Circuits, on \in BOOLEAN : Switch(c, on)

Spec == Init /\ [][Next]_vars
=============================================================================

--------------------------- MODULE MCControlRouter ---------------------------
(* ControlRouter for TLC: a body of every outcome of the router and the       *)
(* stream handler.                                                            *)
EXTENDS ControlRouter

CONSTANTS x, text   \* an id; a command not on the list

Text(json, cmd, id, on, rate) ==
  [json |-> json, cmd |-> cmd, id |-> id, on |-> on, fps |-> rate]

MCBodies ==
  {Text("broken", Absent, x, Absent, Absent),
   Text("object", text, Long, Absent, Absent),
   Text("object", "stream", x, "true", FpsMax + 1),
   Text("object", "stream", Absent, "true", Huge),
   Text("object", "stream", x, "false", Absent)}

\* The state space is followed until the ring's count is torn.
UntilTorn == ~torn
=============================================================================

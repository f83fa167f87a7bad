-------------------------- MODULE MCIothubTelemetry --------------------------
(***************************************************************************)
(* The telemetry program on a small instance: the three registers it       *)
(* reads, the one address it uses, and a hub that sends one quit message   *)
(* and one other.                                                          *)
(***************************************************************************)
EXTENDS IothubTelemetry

CONSTANTS u1, u2, quit, other

MCIds == {u1, u2}
MCAddresses == {HostAddress}
MCCommands == {quit, other}
MCQuitOnly == {quit}
MCQuits == {quit}
=============================================================================

----------------------------- MODULE MCBurstMeter -----------------------------
(***************************************************************************)
(* BurstMeter for TLC.  Streams are alike, so any two pairs of ports may    *)
(* be exchanged; the arrays have one entry more than the streams.           *)
(***************************************************************************)
EXTENDS BurstMeter, TLC

CONSTANTS web, ssh, dns

MCPorts == {web, ssh, dns}
\* What now holds before the first number is read: nothing, some bytes, less than none.
MCUnset == {0, 2, -3}
MCSymmetry == Permutations(MCPorts)
================================================================================

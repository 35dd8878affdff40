------------------------------- MODULE MCCapture -------------------------------
(***************************************************************************)
(* Capture for TLC: two segments of one connection, a segment of another    *)
(* with the same sequence number, two segments behind a word of IP options  *)
(* and one behind two of them, an IPv6 header in a frame of type IP, a      *)
(* frame too short for IP, a runt and an ARP frame.                         *)
(***************************************************************************)
EXTENDS Capture

Segm(t, n, v, h, s, d, q) == [type |-> t, len |-> n, caplen |-> n, version |-> v,
                             hlen |-> h, option |-> 1, sport |-> s, dport |-> d, seq |-> q]

MCFrames == {Segm(ETHERTYPE_IP, 60, 4, 5, 5001, 80, 1), Segm(ETHERTYPE_IP, 60, 4, 5, 5001, 80, 2),
             Segm(ETHERTYPE_IP, 54, 4, 5, 256, 65535, 1),
             Segm(ETHERTYPE_IP, 58, 4, 6, 22, 443, 1), Segm(ETHERTYPE_IP, 58, 4, 6, 22, 443, 2),
             Segm(ETHERTYPE_IP, 62, 4, 7, 22, 443, 1),
             Segm(ETHERTYPE_IP, 60, 6, 5, 5001, 80, 1),
             Segm(ETHERTYPE_IP, 33, 4, 5, 7, 7, 1), Segm(ETHERTYPE_IP, 12, 4, 5, 7, 7, 1),
             Segm(2054, 60, 0, 0, 0, 0, 0)}
================================================================================

---------------------------- MODULE MCPcapReplay ----------------------------
(***************************************************************************)
(* Two captures: one with a handshake, acknowledgements and a packet of a  *)
(* third host, one whose packets are not in the order of their times.      *)
(***************************************************************************)
EXTENDS PcapReplay

At(s, u) == [sec |-> s, usec |-> u]
Pkt(p, n, t) == [from |-> p, size |-> n, time |-> t]

TwoCaptures ==
    << <<Pkt("other", 1, At(0, 0)), Pkt("client", 0, At(0, 1)), Pkt("server", 0, At(0, 2)),
         Pkt("client", 2, At(1, 0)), Pkt("server", 3, At(1, 0)), Pkt("client", 1, At(2, 3)),
         Pkt("server", 1, At(4, 1)), Pkt("other", 1, At(4, 2))>>,
       <<Pkt("server", 2, At(1, 3)), Pkt("client", 2, At(1, 1)), Pkt("client", 1, At(0, 2)),
         Pkt("server", 1, At(3, 0))>> >>
=============================================================================

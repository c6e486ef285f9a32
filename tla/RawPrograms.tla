----------------------------- MODULE RawPrograms -----------------------------
(***************************************************************************)
(* The programs of unpv13e that read whole packets from a raw socket or    *)
(* from the link, side by side: ping, traceroute and udpcksum.  They share *)
(* nothing, so a behaviour of all three is one of each.                    *)
(***************************************************************************)
EXTENDS BsdPing, Traceroute, UdpCksum

RawSpec == BsdSpec /\ TrcSpec /\ UckSpec

\* ping, traceroute and udpcksum, which read whole packets, report what is
\* true of them: no reply is counted twice, checksums verify, no late or
\* foreign message is taken for the answer to a probe, and a verdict is the
\* one the packet justifies, all but in the cases named.
RawRepliesRight ==
    /\ BsdCountsBounded
    /\ BsdCksumVerifies
    /\ TrcTrueCode
    /\ UckSafe
==============================================================================

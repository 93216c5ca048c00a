--------------------------- MODULE MCEnrAddresses ---------------------------
(***************************************************************************)
(* Model values for EnrAddresses: one address of each IP class, one domain *)
(* name, a node's own peer id and a relay's, and listen lists that make    *)
(* each branch of the selection and of the record update happen: every    *)
(* list of up to two addresses, so an external, private or loopback        *)
(* winner in either position, a failed DNS lookup, wss and circuit-relay   *)
(* addresses that appear and disappear, and no usable address.             *)
(***************************************************************************)
EXTENDS EnrAddresses

CONSTANTS pub1, priv1, lo, any, dnsA, self, relay, flags

MCIPs == {pub1, priv1, lo, any}
MCIPClass == (pub1 :> "public") @@ (priv1 :> "private") @@ (lo :> "loopback")
               @@ (any :> "unspecified")
MCPorts == {60000, 443}

C(p, v) == [p |-> p, v |-> v]
TcpAddr(ip) == <<C("ip4", ip), C("tcp", 60000), C("p2p", self)>>
AnyTcp == <<C("ip4", any), C("tcp", 60000)>>
DnsTcp == <<C("dns4", dnsA), C("tcp", 60000), C("p2p", self)>>
DnsWss == <<C("dns4", dnsA), C("tcp", 443), C("wss", dnsA), C("p2p", self)>>
Circuit == <<C("ip4", pub1), C("tcp", 60000), C("p2p", relay),
             C("p2p-circuit", relay), C("p2p", self)>>

\* Every list of up to two of the addresses, in either order.
MCAddrs == {TcpAddr(pub1), TcpAddr(priv1), TcpAddr(lo), AnyTcp, DnsTcp, DnsWss, Circuit}
MCListenAddrs == BoundedSeq(MCAddrs, 2)

MCUdpPorts == {9000, 70000}
MCAdvertiseAddrs == {NoIP, pub1}

=============================================================================

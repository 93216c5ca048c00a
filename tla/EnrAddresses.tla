---------------------------- MODULE EnrAddresses ----------------------------
(***************************************************************************)
(* ENR construction of a waku node (package node, src/unnamed/part_000):   *)
(* on every libp2p address update setupENR picks the most external TCP     *)
(* address and the wss / circuit-relay addresses to advertise, and writes  *)
(* them into the node's enode.LocalNode with updateLocalNode.              *)
(*                                                                         *)
(* A multiaddr is a sequence of components [p |-> protocol, v |-> value];  *)
(* its bytes are abstracted to its components, so a length is a component  *)
(* count. IPs are model values of a class that decides IsPrivate,          *)
(* IsLoopback and IsUnspecified; all are IPv4, as extractIPAddressForENR   *)
(* only reads /ip4 and resolves /dns4 as "ip4". A DNS lookup is an input:  *)
(* res maps each name to an IP, or to NoIP when resolution fails.          *)
(***************************************************************************)
EXTENDS Naturals, Sequences, SequencesExt, Functions

CONSTANTS
  IPs,            \* IPv4 addresses (model values)
  IPClass,        \* IPs -> {"public", "private", "loopback", "unspecified"}
  NoIP,           \* no address: a failed lookup, an unset static IP, a nil To4
  Loopback,       \* 127.0.0.1, the fallback IP
  DnsNames,       \* domain names appearing in /dns4 components
  Ports,          \* TCP ports appearing in /tcp components
  PeerIDs,        \* peer ids appearing in /p2p components
  WakuFlags,      \* the node's utils.WakuEnrBitfield
  ListenAddrs,    \* the address lists a libp2p update may report
  UdpPorts,       \* configured w.opts.udpPort values
  AdvertiseAddrs, \* configured w.opts.advertiseAddr values (NoIP for nil)
  MaxSetups       \* bound on setupENR calls

MaxUint16 == 65535

ASSUME /\ IPClass \in [IPs -> {"public", "private", "loopback", "unspecified"}]
       /\ NoIP \notin IPs /\ Loopback \in IPs /\ IPClass[Loopback] = "loopback"
       /\ Ports \subseteq 0..MaxUint16 /\ UdpPorts \subseteq Nat
       /\ AdvertiseAddrs \subseteq IPs \cup {NoIP} /\ MaxSetups \in Nat

Protocols == {"ip4", "dns4", "tcp", "ws", "wss", "p2p", "p2p-circuit"}

\* A TCP address (net.TCPAddr), and the nil address an error comes with.
NoAddr == [ip |-> NoIP, port |-> 0]

Has(a, proto) == \E i \in DOMAIN a : a[i].p = proto

\* addr.ValueForProtocol(proto): the value of the first such component.
ValueFor(a, proto) == a[SelectInSeq(a, LAMBDA c : c.p = proto)].v

IsPrivate(ip) == IPClass[ip] = "private"
IsLoopback(ip) == IPClass[ip] = "loopback"
IsUnspecified(ip) == IPClass[ip] = "unspecified"
isExternal(t) == ~IsPrivate(t.ip) /\ ~IsLoopback(t.ip) /\ ~IsUnspecified(t.ip)
isPrivate(t) == IsPrivate(t.ip)
isLoopback(t) == IsLoopback(t.ip)

\* The TCP addresses each of isExternal, isPrivate and isLoopback accepts.
TcpAddrs == [ip : IPs, port : Ports]
External == {t \in TcpAddrs : isExternal(t)}
Private == {t \in TcpAddrs : isPrivate(t)}
LoopbackAddrs == {t \in TcpAddrs : isLoopback(t)}

\* filterIP: the addresses the filter fn (a set) accepts, in order.
filterIP(ss, fn) == SelectSeq(ss, LAMBDA s : s \in fn)

(***************************************************************************)
(* extractIPAddressForENR: circuit, ws and wss addresses are refused; the  *)
(* IP is the resolved /dns4 name if there is one, else the /ip4 value; a   *)
(* /tcp port is required.                                                  *)
(***************************************************************************)
extractIPAddressForENR(a, res) ==
  LET ip == IF Has(a, "dns4") THEN res[ValueFor(a, "dns4")]
            ELSE IF Has(a, "ip4") THEN ValueFor(a, "ip4") ELSE NoIP
  IN  IF \/ Has(a, "p2p-circuit") \/ Has(a, "ws") \/ Has(a, "wss")
         \/ ip = NoIP \/ ~Has(a, "tcp")
      THEN NoAddr
      ELSE [ip |-> ip, port |-> ValueFor(a, "tcp")]

\* The extracted TCP addresses of a list, in order, the refused ones skipped.
ExtractedIPs(as, res) ==
  SelectSeq([i \in 1..Len(as) |-> extractIPAddressForENR(as[i], res)],
            LAMBDA t : t # NoAddr)

\* Mutant: prefers a private address to an external one.
selectMostExternalAddressPrivateFirst(as, res) ==
  LET ips == ExtractedIPs(as, res)
  IN  CASE filterIP(ips, Private) # <<>> -> Head(filterIP(ips, Private))
        [] filterIP(ips, External) # <<>> -> Head(filterIP(ips, External))
        [] filterIP(ips, LoopbackAddrs) # <<>> -> Head(filterIP(ips, LoopbackAddrs))
        [] OTHER -> NoAddr

(***************************************************************************)
(* selectMostExternalAddress: the first external address, else the first   *)
(* private one, else the first loopback one, else an error (NoAddr).       *)
(***************************************************************************)
selectMostExternalAddress(as, res) ==
  LET ips == ExtractedIPs(as, res)
  IN  CASE filterIP(ips, External) # <<>> -> Head(filterIP(ips, External))
        [] filterIP(ips, Private) # <<>> -> Head(filterIP(ips, Private))
        [] filterIP(ips, LoopbackAddrs) # <<>> -> Head(filterIP(ips, LoopbackAddrs))
        [] OTHER -> NoAddr

\* decapsulateP2P: cut the address before the last /p2p/<id> component,
\* <id> being the first /p2p value.
decapsulateP2P(a) ==
  LET last == SelectLastInSeq(a, LAMBDA c : c = [p |-> "p2p", v |-> ValueFor(a, "p2p")])
  IN  SubSeq(a, 1, last - 1)

\* decapsulateCircuitRelayAddr: the part before the first /p2p-circuit.
decapsulateCircuitRelayAddr(a) ==
  SubSeq(a, 1, SelectInSeq(a, LAMBDA c : c.p = "p2p-circuit") - 1)

\* selectWSSListenAddresses: non-circuit /dns4 .. /wss addresses whose p2p
\* part can be removed, without it.
selectWSSListenAddresses(as) ==
  LET wss == SelectSeq(as, LAMBDA a : /\ ~Has(a, "p2p-circuit") /\ Has(a, "dns4")
                                      /\ Has(a, "wss") /\ Has(a, "p2p"))
  IN  [i \in 1..Len(wss) |-> decapsulateP2P(wss[i])]

\* selectCircuitRelayListenAddresses: the relay part of circuit addresses.
selectCircuitRelayListenAddresses(as) ==
  LET cs == SelectSeq(as, LAMBDA a : Has(a, "p2p-circuit"))
  IN  [i \in 1..Len(cs) |-> decapsulateCircuitRelayAddr(cs[i])]

\* The multiaddrs getENRAddresses returns: the wss ones, then the circuit ones.
ENRMultiaddrs(as) ==
  selectWSSListenAddresses(as) \o selectCircuitRelayListenAddresses(as)

-----------------------------------------------------------------------------
(***************************************************************************)
(* The node's enode.LocalNode: the ENR entries this code sets, keyed by    *)
(* ENR key, and its endpoint settings (fallback UDP port, fallback IP and  *)
(* static IP), from which the library derives the record's ip/udp. The     *)
(* node's options are fixed once the node is built.                       *)
(***************************************************************************)
VARIABLES
  entries,        \* ENR key -> value, for the keys this code sets
  fallbackUDP,    \* localnode.SetFallbackUDP
  fallbackIP,     \* localnode.SetFallbackIP
  staticIP,       \* localnode.SetStaticIP (NoIP until set)
  udpPort,        \* w.opts.udpPort
  advertiseAddr,  \* w.opts.advertiseAddr (NoIP for nil)
  autoUpdate,     \* w.opts.discV5autoUpdate
  listen,         \* the addresses of the last setupENR call
  resolved,       \* the DNS answers of that call
  result,         \* what it returned: "none" before any, "ok" or "err"
  setups          \* setupENR calls so far

vars == <<entries, fallbackUDP, fallbackIP, staticIP, udpPort, advertiseAddr,
          autoUpdate, listen, resolved, result, setups>>

Components == [p : Protocols, v : IPs \cup DnsNames \cup Ports \cup PeerIDs]
Mapped(ip) == <<"v4-in-v6", ip>>    \* a 16-byte IPv4-mapped IPv6 address
EnrKeys == {"waku2", "ip", "tcp", "ip6", "tcp6", "multiaddrs"}

\* net.IP.To4 and To16 of an IPv4 address, and uint16(port).
To4(ip) == ip
To16(ip) == Mapped(ip)
Unspecified16(ip6) == IsUnspecified(ip6[2])
Port16(port) == port % (MaxUint16 + 1)

SetEntry(e, k, v) == (k :> v) @@ e
DeleteEntry(e, k) == Restrict(e, DOMAIN e \ {k})

\* The multiaddrs field: each address prefixed with its uint16 length.
EncodeMultiaddrs(ms) ==
  FlattenSeq([i \in 1..Len(ms) |->
                <<[p |-> "size", v |-> Port16(Len(ms[i]))]>> \o ms[i]])

TypeOK ==
  /\ DOMAIN entries \subseteq EnrKeys
  /\ "waku2" \in DOMAIN entries => entries["waku2"] = WakuFlags
  /\ "ip" \in DOMAIN entries => entries["ip"] \in IPs
  /\ "ip6" \in DOMAIN entries => entries["ip6"] \in {Mapped(ip) : ip \in IPs}
  /\ \A k \in {"tcp", "tcp6"} \cap DOMAIN entries : entries[k] \in 0..MaxUint16
  /\ fallbackUDP \in Nat /\ fallbackIP \in IPs \cup {NoIP}
  /\ staticIP \in IPs \cup {NoIP}
  /\ listen \in Seq(Seq(Components)) /\ resolved \in [DnsNames -> IPs \cup {NoIP}]
  /\ result \in {"none", "ok", "err"} /\ setups \in 0..MaxSetups

Init ==
  /\ entries = <<>> /\ fallbackUDP = 0 /\ fallbackIP = NoIP /\ staticIP = NoIP
  /\ udpPort \in UdpPorts /\ advertiseAddr \in AdvertiseAddrs /\ autoUpdate \in BOOLEAN
  /\ listen = <<>> /\ resolved = [n \in DnsNames |-> NoIP]
  /\ result = "none" /\ setups = 0

\* Mutant: the IPv6 entry is given the 4-byte form.
AutoEntriesIp4As6(e, t) ==
  LET e4 == IF To4(t.ip) # NoIP /\ ~IsUnspecified(To4(t.ip))
            THEN SetEntry(SetEntry(e, "ip", To4(t.ip)), "tcp", Port16(t.port))
            ELSE DeleteEntry(DeleteEntry(e, "ip"), "tcp")
  IN  IF ~Unspecified16(To16(t.ip))
      THEN SetEntry(SetEntry(e4, "ip6", To4(t.ip)), "tcp6", Port16(t.port))
      ELSE DeleteEntry(DeleteEntry(e4, "ip6"), "tcp6")

\* The auto-update branch: set, or delete, the ip/tcp and ip6/tcp6 entries.
AutoEntries(e, t) ==
  LET e4 == IF To4(t.ip) # NoIP /\ ~IsUnspecified(To4(t.ip))
            THEN SetEntry(SetEntry(e, "ip", To4(t.ip)), "tcp", Port16(t.port))
            ELSE DeleteEntry(DeleteEntry(e, "ip"), "tcp")
  IN  IF ~Unspecified16(To16(t.ip))
      THEN SetEntry(SetEntry(e4, "ip6", To16(t.ip)), "tcp6", Port16(t.port))
      ELSE DeleteEntry(DeleteEntry(e4, "ip6"), "tcp6")

\* The extra multiaddrs are set only when there are some.
WithMultiaddrs(e, ms) ==
  IF ms = <<>> THEN e ELSE SetEntry(e, "multiaddrs", EncodeMultiaddrs(ms))

(***************************************************************************)
(* updateLocalNode: the fallback UDP port, the waku flags and the fallback *)
(* IP are written before the UDP port is range checked. Then either the    *)
(* advertised address or the selected one becomes the static IP with its   *)
(* TCP port, or (auto update) the ip/tcp entries are set directly; last    *)
(* the extra multiaddrs.                                                   *)
(***************************************************************************)
updateLocalNode(ms, t) ==
  LET e1 == SetEntry(entries, "waku2", WakuFlags)
  IN  /\ fallbackUDP' = udpPort /\ fallbackIP' = Loopback
      /\ \/ /\ udpPort > MaxUint16
            /\ result' = "err" /\ entries' = e1 /\ UNCHANGED staticIP
         \/ /\ udpPort <= MaxUint16 /\ advertiseAddr # NoIP
            /\ staticIP' = advertiseAddr
            /\ entries' = WithMultiaddrs(SetEntry(e1, "tcp", Port16(t.port)), ms)
            /\ result' = "ok"
         \/ /\ udpPort <= MaxUint16 /\ advertiseAddr = NoIP /\ ~autoUpdate
            /\ staticIP' = t.ip
            /\ entries' = WithMultiaddrs(SetEntry(e1, "tcp", Port16(t.port)), ms)
            /\ result' = "ok"
         \/ /\ udpPort <= MaxUint16 /\ advertiseAddr = NoIP /\ autoUpdate
            /\ entries' = WithMultiaddrs(AutoEntries(e1, t), ms)
            /\ result' = "ok" /\ UNCHANGED staticIP

(***************************************************************************)
(* setupENR on a libp2p address update: getENRAddresses, whose only error  *)
(* is selectMostExternalAddress finding no address, then updateLocalNode.  *)
(***************************************************************************)
setupENR(as, res) ==
  /\ setups < MaxSetups
  /\ setups' = setups + 1 /\ listen' = as /\ resolved' = res
  /\ LET t == selectMostExternalAddress(as, res)
     IN  \/ /\ t = NoAddr /\ result' = "err"
            /\ UNCHANGED <<entries, fallbackUDP, fallbackIP, staticIP>>
         \/ t # NoAddr /\ updateLocalNode(ENRMultiaddrs(as), t)
  /\ UNCHANGED <<udpPort, advertiseAddr, autoUpdate>>

Next == \E as \in ListenAddrs, res \in [DnsNames -> IPs \cup {NoIP}] : setupENR(as, res)

Spec == Init /\ [][Next]_vars

-----------------------------------------------------------------------------
\* Reference for selectMostExternalAddress: among the usable addresses, the
\* first of the most external class (public, then private, then loopback).
MostExternalRef(as, res) ==
  LET t(i) == extractIPAddressForENR(as[i], res)
      C == {i \in 1..Len(as) : t(i) # NoAddr /\ ~IsUnspecified(t(i).ip)}
      rank(i) == IF isExternal(t(i)) THEN 0 ELSE IF isPrivate(t(i)) THEN 1 ELSE 2
  IN  IF C = {} THEN NoAddr
      ELSE t(CHOOSE i \in C : \A j \in C : rank(i) < rank(j) \/ (rank(i) = rank(j) /\ i <= j))

(***************************************************************************)
(* selectMostExternalAddress's three filter passes pick the first address  *)
(* of the most external class: in every setupENR call, on whatever list of *)
(* addresses libp2p reported and whatever the DNS lookups returned.        *)
(***************************************************************************)
SelectionMatchesReference ==
  result # "none" =>
    selectMostExternalAddress(listen, resolved) = MostExternalRef(listen, resolved)

(***************************************************************************)
(* After setupENR returned nil, the record's multiaddrs entry is exactly   *)
(* the wss and circuit-relay addresses of the current listen addresses,    *)
(* and absent when there are none ("We received a libp2p address update"). *)
(***************************************************************************)
MultiaddrsCurrent ==
  result = "ok" =>
    LET ms == ENRMultiaddrs(listen)
    IN  IF ms = <<>> THEN "multiaddrs" \notin DOMAIN entries
        ELSE "multiaddrs" \in DOMAIN entries /\ entries["multiaddrs"] = EncodeMultiaddrs(ms)

=============================================================================

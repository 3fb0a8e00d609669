----------------------------- MODULE MCAddresses -----------------------------
(***************************************************************************)
(* Addresses of a few bits: IPv4 in two, IPv6 in five with 001xx mapped    *)
(* IPv4 and 10xxx CJDNS.  Peers make one IPv4 host known in both forms,    *)
(* and an onion service.                                                   *)
(***************************************************************************)
EXTENDS Addresses

MCUnroutable == {<<4, 0, 2>>, <<4, 3, 2>>, <<6, 0, 5>>, <<6, 1, 5>>, <<6, 3, 2>>}
MCChecksum   == [key \in 0..65535 |-> <<(31 * key + 7) % 256, (key \div 256 + 17 * key) % 256>>]

MCWire    == {Addr("Ipv6", 5, 1), Addr("TorV3", 33410, 1), Addr("Unknown", 1, 1)}

\* Keys of two bytes: 16 bits and, with checksum and version, 40, which leave as many over
\* from groups of five as the 256 and 280 of the code.
MCBytes == {0, 1, 7, 16, 31, 32, 127, 128, 130, 255}
MCKeys  == {256 * high + low : high \in MCBytes, low \in MCBytes}

MCAnyWire == [net : {"Ipv6", "Cjdns"}, bytes : 0..31, port : 0..1]
               \cup [net : {"Ipv4", "Unknown"}, bytes : 0..2, port : 0..1]
               \cup [net : {"TorV3", "I2p"}, bytes : MCKeys, port : 0..1]
MCWire1   == {[ip |-> <<4, 1>>, port |-> 1], [ip |-> <<>>, port |-> 1]}

\* Names that are printed, with one character changed, dropped or added: a letter of
\* either case, a digit in or out of the alphabet.
MCChars == 48..57 \cup 65..90 \cup 97..122
Mistyped(host) ==
  {host, SubSeq(host, 1, Len(host) - 1)}
    \cup {Append(host, c) : c \in MCChars}
    \cup {[host EXCEPT ![i] = c] : i \in DOMAIN host, c \in MCChars}

MCNames ==
  {Text(prefix, host, suffix, 1) :
     prefix \in {"", "cjdns:"}, suffix \in {".onion", ".ONION", ".b32.i2p", ".B32.I2P"},
     host \in UNION {Mistyped(Display(Addr(net, key, 1)).host) :
                       net \in {"TorV3", "I2p"}, key \in {0, 33410, 65535}}}

MCTyped == {Text("", <<4, 1>>, "", 1), Text("", <<6, 5>>, "", 1), Text("cjdns:", <<4, 1>>, "", 1)}
MCNamed == {Display(Addr("TorV3", 33410, 1))}

Net(addr, prefix) == [addr |-> addr, prefix |-> prefix]

MCBanTexts ==
  {[nets |-> {Net(<<4, 1>>, <<>>)}, hosts |-> {ToUpper(name) : name \in MCNamed}],
   [nets |-> {Net(<<4, 1>>, <<>>), Net(<<4, 2>>, <<0>>)}, hosts |-> MCNamed],
   [nets |-> {Net(<<4, 1>>, <<3>>)}, hosts |-> {}]}

MCAddrs     == Received
MCOperator  == add_addresses(MCTyped)
MCBootstrap == add_addresses({Text("", <<4, 1>>, "", 1)})
MCRoutable  == {a \in MCAddrs : is_routable(a)}
MCEnabled   == {a \in MCAddrs : allows(a.net)}
MCBanNets   == {Covered(entry) : entry \in ban_add(MCBanTexts)}
=============================================================================

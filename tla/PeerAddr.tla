------------------------------- MODULE PeerAddr -------------------------------
(***************************************************************************)
(* Peer addresses (addresses/peer_addr.rs): how one comes out of gossip or *)
(* out of text, what it is rendered as, and which are worth storing.       *)
(*                                                                         *)
(* An IP address is a family, 4 or 6, and a number of that family's width; *)
(* a Tor key or an I2P hash is a number of KEY_LEN bytes.  An optional     *)
(* value is a sequence of at most one.  A text is its parts: the prefix,   *)
(* the host, the suffix and the port.  A host is an IP address, or before  *)
(* a suffix the sequence of the ASCII codes of its characters.             *)
(***************************************************************************)
EXTENDS Naturals, Sequences, FiniteSets, SequencesExt

CONSTANTS
  WIDTH4, WIDTH6,  \* bits of an IPv4 and of an IPv6 address, 32 and 128
  OCTET,           \* bits of an octet, 8
  MAPPED,          \* the bits above the IPv4 address in an IPv4-mapped one, ::ffff:0:0/96
  FC,              \* the first octet of CJDNS, 0xfc
  UNROUTABLE,      \* the ranges is_routable refuses, as <<family, bits, length>>
  KEY_LEN,         \* bytes of a Tor key and of an I2P hash, 32
  Checksum         \* of an onion key: two bytes of a hash

VERSION == 3       \* of an onion service
BYTE == 8          \* bits of a byte
GROUP == 5         \* bits that a base32 character stands for
WORD == 16         \* bits of the register; of the code's 64 and 32, 12 are looked at

Width(family) == IF family = 4 THEN WIDTH4 ELSE WIDTH6
Prefix(n, family, len) == n \div 2^(Width(family) - len)

Addr(net, bytes, port) == [net |-> net, bytes |-> bytes, port |-> port]

ip(a) ==
  CASE a.net = "Ipv4"             -> <<4, a.bytes>>
    [] a.net \in {"Ipv6", "Cjdns"} -> <<6, a.bytes>>
    [] OTHER                      -> <<>>

is_routable(a) ==
  /\ a.port # 0
  /\ CASE a.net \in {"Ipv4", "Ipv6"} ->
            \A r \in UNROUTABLE : r[1] = ip(a)[1] => Prefix(a.bytes, r[1], r[3]) # r[2]
       [] OTHER -> a.bytes # 0

\* Mutant of from_socket_addr: an IPv4-mapped address stays an IPv6 one.
FromSocketAddrMapped(host, port) ==
  IF host[1] = 4 THEN Addr("Ipv4", host[2], port)
  ELSE IF Prefix(host[2], 6, OCTET) = FC THEN Addr("Cjdns", host[2], port)
  ELSE Addr("Ipv6", host[2], port)

from_socket_addr(host, port) ==
  IF host[1] = 4 THEN Addr("Ipv4", host[2], port)
  ELSE IF Prefix(host[2], 6, WIDTH6 - WIDTH4) = MAPPED
    THEN Addr("Ipv4", host[2] % 2^WIDTH4, port)
  ELSE IF Prefix(host[2], 6, OCTET) = FC THEN Addr("Cjdns", host[2], port)
  ELSE Addr("Ipv6", host[2], port)

\* An entry of an addrv2 message.  Unknown is a network this tool does not know.
try_from_addrv2(msg) ==
  CASE msg.net = "Unknown" -> <<>>
    [] msg.net = "Ipv6"    -> <<from_socket_addr(<<6, msg.bytes>>, msg.port)>>
    [] OTHER               -> <<Addr(msg.net, msg.bytes, msg.port)>>

\* An entry of an addr message: sixteen bytes, which the bitcoin crate reads as an
\* IPv4 or IPv6 address, or as the old kind of onion address, which is none.
try_from_address(msg) == IF msg.ip = <<>> THEN <<>> ELSE <<from_socket_addr(msg.ip, msg.port)>>

----------------------------------------------------------------------------
(* Text *)

Upper == 65..90   \* A to Z
ALPHABET(value) == IF value < 26 THEN 97 + value ELSE 24 + value   \* a to z, 2 to 7

to_ascii_lowercase(text) ==
  LET Affix(s) == CASE s = "CJDNS:"   -> "cjdns:"
                    [] s = ".ONION"   -> ".onion"
                    [] s = ".B32.I2P" -> ".b32.i2p"
                    [] OTHER          -> s
      Lower(host) == [i \in DOMAIN host |-> IF host[i] \in Upper THEN host[i] + 32 ELSE host[i]]
  IN  [text EXCEPT !.prefix = Affix(@), !.suffix = Affix(@),
                   !.host = IF text.suffix = "" THEN @ ELSE Lower(@)]

\* The code's loops over a register: n is how many of its bits are still to be passed on.
NoBits == [bits |-> 0, n |-> 0, out |-> <<>>]
Shifted(state, by, value) == (state.bits * 2^by + value) % 2^WORD

\* Bytes become groups of five bits; the last one is filled up with zeros.
base32_encode(bytes) ==
  LET Push(state, byte) ==
        LET bits == Shifted(state, BYTE, byte)
            n    == state.n + BYTE
        IN  [bits |-> bits, n |-> n % GROUP,
             out |-> state.out \o
               [i \in 1..(n \div GROUP) |-> ALPHABET((bits \div 2^(n - GROUP * i)) % 2^GROUP)]]
      end == FoldLeft(Push, NoBits, bytes)
  IN  IF end.n = 0 THEN end.out
      ELSE Append(end.out, ALPHABET((end.bits * 2^(GROUP - end.n)) % 2^GROUP))

\* The register after the last character.
Decoded(chars) ==
  LET Value(c) == IF c < 97 THEN c - 24 ELSE c - 97
      Take(state, c) ==
        LET bits == Shifted(state, GROUP, Value(c))
            n    == state.n + GROUP
        IN  IF n < BYTE THEN [state EXCEPT !.bits = bits, !.n = n]
            ELSE [bits |-> bits, n |-> n - BYTE,
                  out |-> Append(state.out, (bits \div 2^(n - BYTE)) % 2^BYTE)]
  IN  FoldLeft(Take, NoBits, chars)

InAlphabet(chars) == \A i \in DOMAIN chars : chars[i] \in 97..122 \cup 50..55

\* Mutant of base32_decode: what the last character has to spare is ignored.
DecodeIgnoresRest(chars) == IF InAlphabet(chars) THEN <<Decoded(chars).out>> ELSE <<>>

base32_decode(chars) ==
  LET end == Decoded(chars)
  IN  IF InAlphabet(chars) /\ end.bits % 2^end.n = 0 THEN <<end.out>> ELSE <<>>

octets(key) == [i \in 1..KEY_LEN |-> (key \div 2^(BYTE * (KEY_LEN - i))) % 2^BYTE]
from_octets(bytes) == FoldLeft(LAMBDA n, byte : n * 2^BYTE + byte, 0, SubSeq(bytes, 1, KEY_LEN))

onion_host(key) == base32_encode(octets(key) \o Checksum[key] \o <<VERSION>>)

\* A name is the key's only if the key would be rendered as that name.
onion_key(host) ==
  LET raw == base32_decode(host)
      key == from_octets(raw[1])
  IN  IF raw # <<>> /\ Len(raw[1]) = KEY_LEN + 3 /\ onion_host(key) = host THEN <<key>> ELSE <<>>

Text(prefix, host, suffix, port) ==
  [prefix |-> prefix, host |-> host, suffix |-> suffix, port |-> port]

Display(a) ==
  CASE a.net = "TorV3" -> Text("", onion_host(a.bytes), ".onion", a.port)
    [] a.net = "I2p"   -> Text("", base32_encode(octets(a.bytes)), ".b32.i2p", a.port)
    [] a.net = "Cjdns" -> Text("cjdns:", ip(a), "", a.port)
    [] OTHER           -> Text("", ip(a), "", a.port)

parse(typed) ==
  LET text == to_ascii_lowercase(typed)
  IN  CASE text.prefix = "cjdns:" ->
             IF text.suffix = "" /\ text.host[1] = 6
               THEN <<Addr("Cjdns", text.host[2], text.port)>> ELSE <<>>
        [] text.prefix = "" /\ text.suffix = ".b32.i2p" ->
             LET hash == base32_decode(text.host)
             IN  IF hash # <<>> /\ Len(hash[1]) = KEY_LEN
                   THEN <<Addr("I2p", from_octets(hash[1]), text.port)>> ELSE <<>>
        [] text.prefix = "" /\ text.suffix = ".onion" ->
             LET key == onion_key(text.host)
             IN  IF key # <<>> THEN <<Addr("TorV3", key[1], text.port)>> ELSE <<>>
        [] text.prefix = "" /\ text.suffix = "" -> <<from_socket_addr(text.host, text.port)>>
=============================================================================

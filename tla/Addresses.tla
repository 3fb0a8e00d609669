------------------------------- MODULE Addresses -------------------------------
(***************************************************************************)
(* The address manager with real addresses: what peers and the operator    *)
(* send becomes the addresses it stores (PeerAddr), and what the operator  *)
(* bans becomes the sets of addresses it refuses (Banlist).  The manager   *)
(* compares addresses, never what they lead to.                            *)
(***************************************************************************)
EXTENDS AddrManager, Banlist

CONSTANTS
  EnabledNets,  \* the networks the operator enabled
  Wire,         \* entries of addrv2 messages that peers send
  AnyWire,      \* entries of addrv2 messages they could send
  Wire1,        \* entries of addr messages
  Typed,        \* IP addresses the operator types, in the RPC or the settings
  Names,        \* names under .onion and .b32.i2p that the operator types
  BanTexts      \* bans the operator writes, as [nets, hosts]

allows(net) == net \in EnabledNets

Some(options) == {o[1] : o \in {x \in options : x # <<>>}}

\* What gossip may put in front of the manager: entries of either message.
Received == Some({try_from_addrv2(m) : m \in Wire} \cup {try_from_address(m) : m \in Wire1})

\* addresses.add, and the bootstrap addresses of the settings: what cannot be read
\* is left out.
add_addresses(texts) == Some({parse(t) : t \in texts})

\* banlist.add: an entry that cannot be read refuses the request.
ban_add(texts) == Some({BanEntry(t.nets, t.hosts) : t \in texts})

\* The addresses of the instance that a ban covers.
Covered(entry) == {a \in Addrs : Banlist_contains({entry}, a)}

\* The operator bans what was written, and wrote finitely many of them.
ASSUME AddressesAssumption ==
  /\ IsFiniteSet(BanTexts)
  /\ BanNets = {Covered(entry) : entry \in ban_add(BanTexts)}

\* The list after the entries of a sequence were added one by one.
ListOf(order) ==
  LET list[i \in 0..Len(order)] == IF i = 0 THEN {} ELSE Banlist_add(list[i - 1], order[i])
  IN  list[Len(order)]

\* addresses.inspect: the entry of what was typed, if there is one.
inspect(text) ==
  LET a == parse(text)
  IN  IF a = <<>> THEN "unparseable address"
      ELSE IF a[1] \in DOMAIN entries THEN <<entries[a[1]]>> ELSE <<>>

----------------------------------------------------------------------------
(* Properties *)

\* Banlist::add, "skipping networks and hosts already covered", and contains: in
\* whatever order the bans in force came and however they overlap, the list refuses
\* what each of them covers, no less and no more.
ListRefusesWhatWasBanned ==
  LET inForce == {entry \in ban_add(BanTexts) : Covered(entry) \in bans}
      n       == Cardinality(inForce)
      orders  == {s \in [1..n -> inForce] : \A i, j \in 1..n : s[i] = s[j] => i = j}
  IN  \A order \in orders : \A a \in Addrs :
        Banlist_contains(ListOf(order), a) <=> a \in UNION bans


\* Where a dial ends up: an IPv4-mapped address is the IPv4 host; a name has no network.
Destination(a) ==
  IF ip(a) = <<>> THEN <<0, a.bytes>>
  ELSE IF a.net # "Ipv4" /\ Prefix(a.bytes, 6, WIDTH6 - WIDTH4) = MAPPED
    THEN <<4, a.bytes % 2^WIDTH4>>
  ELSE ip(a)

\* The addresses a network stands for: the ones whose leading bits are the network's.
Bit(n, i) == (n \div 2^i) % 2
Stands(net, d) ==
  /\ d[1] = net.addr[1]
  /\ \A i \in 0..(Width(d[1]) - 1) :
       i >= Width(d[1]) - net.prefix_len => Bit(d[2], i) = Bit(net.addr[2], i)

\* banlist.rs, "Addresses the operator never wants dialled": no dial starts that
\* would end up at a host that a network in force stands for, or at a service whose name
\* a ban in force has as it is printed, in whatever form and by whatever message a peer
\* made the address known, over bans, restarts and crashes.
BannedHostNeverDialled ==
  [][\A a \in Addrs : Len(running'[a]) > Len(running[a]) =>
       \A entry \in ban_add(BanTexts) : Covered(entry) \in bans =>
         /\ \A net \in entry.nets : ~Stands(net, Destination(a))
         /\ \A host \in entry.hosts :
              host = to_ascii_lowercase(host) => parse(host) # <<a>>]_vars

\* As it is printed, and as it arrives when it was pasted in capitals.
ToUpper(text) ==
  LET Affix(s) == CASE s = "cjdns:"   -> "CJDNS:"
                    [] s = ".onion"   -> ".ONION"
                    [] s = ".b32.i2p" -> ".B32.I2P"
                    [] OTHER          -> s
      Raise(host) == [i \in DOMAIN host |-> IF host[i] \in 97..122 THEN host[i] - 32 ELSE host[i]]
  IN  [text EXCEPT !.prefix = Affix(@), !.suffix = Affix(@),
                   !.host = IF text.suffix = "" THEN @ ELSE Raise(@)]

ReadsBack(a) == parse(Display(a)) = <<a>> /\ parse(ToUpper(Display(a))) = <<a>>

InspectFinds(a) == inspect(Display(a)) = <<entries[a]>>

GossipReadsBack == \A m \in AnyWire : \A i \in DOMAIN try_from_addrv2(m) : ReadsBack(try_from_addrv2(m)[i])

OneSpelling ==
  \A t \in Names : parse(t) # <<>> => Display(parse(t)[1]) = to_ascii_lowercase(t)

\* parse: "whatever Display renders, this reads back": the operator finds every address
\* of the book under the text it is shown as, and so for every other one gossip can put
\* there, in either case; and a name under .onion or .b32.i2p has one spelling but for its
\* case: a mistyped one is refused, not taken for another service.
PrintedIsRead ==
  (\A a \in DOMAIN entries : InspectFinds(a)) /\ GossipReadsBack /\ OneSpelling
=============================================================================

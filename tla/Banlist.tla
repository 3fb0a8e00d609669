------------------------------- MODULE Banlist -------------------------------
(***************************************************************************)
(* The operator's ban list (addresses/banlist.rs): networks in CIDR form   *)
(* and hosts by their exact rendering.                                     *)
(***************************************************************************)
EXTENDS PeerAddr

Monus(m, n) == IF m > n THEN m - n ELSE 0

\* What is left of both under a mask with the low shift bits clear.
IpNet_contains(net, host) ==
  /\ net.addr[1] = host[1]
  /\ LET shift == Monus(Width(net.addr[1]), net.prefix_len)
         Masked(n) == n - (n % 2^shift)
     IN  Masked(net.addr[2]) = Masked(host[2])

\* A network as the operator writes it: a bare address is that host alone, and a
\* prefix longer than the address is an error.
IpNet_from_str(s) ==
  IF s.prefix = <<>> THEN <<[addr |-> s.addr, prefix_len |-> Width(s.addr[1])]>>
  ELSE IF s.prefix[1] > Width(s.addr[1]) THEN <<>>
  ELSE <<[addr |-> s.addr, prefix_len |-> s.prefix[1]]>>

\* Networks and hosts as the list's text has them; one that cannot be read is an error
\* of the whole entry.
BanEntry(nets, hosts) ==
  IF \E s \in nets : IpNet_from_str(s) = <<>> THEN <<>>
  ELSE <<[nets |-> {IpNet_from_str(s)[1] : s \in nets}, hosts |-> hosts]>>

\* Mutant of Banlist_add: an entry that names anything the list has is left out.
AddSkipsKnown(list, entry) ==
  IF \E e \in list : e.nets \cap entry.nets # {} \/ e.hosts \cap entry.hosts # {} THEN list
  ELSE list \cup {entry}

\* Only the networks and hosts that no entry of the list names are added.
Banlist_add(list, entry) ==
  LET nets  == entry.nets \ UNION {e.nets : e \in list}
      hosts == entry.hosts \ UNION {e.hosts : e \in list}
  IN  IF nets = {} /\ hosts = {} THEN list ELSE list \cup {[nets |-> nets, hosts |-> hosts]}

Banlist_contains(entries, a) ==
  IF ip(a) # <<>>
    THEN \E e \in entries : \E net \in e.nets : IpNet_contains(net, ip(a))
    ELSE LET host == Display(a) IN \E e \in entries : host \in e.hosts
=============================================================================

------------------------------- MODULE AddrBook -------------------------------
(***************************************************************************)
(* What the address book knows about one address, and how each event       *)
(* changes it (observer/src/addresses/book.rs).                            *)
(*                                                                         *)
(* The book is a function from the known addresses to entries; the active  *)
(* set is a function from the addresses with a task to their phase.  Both  *)
(* are HashMaps in the code, so both have a varying DOMAIN here.           *)
(* last_attempt is left out of an entry: no decision reads it.             *)
(***************************************************************************)
EXTENDS AddrPolicy, FiniteSets

CONSTANTS
  Services,    \* service flag words that peers announce
  V2Services   \* the ones with NODE_P2P_V2 set

ASSUME ServicesAssumption ==
  /\ V2Services \subseteq Services
  /\ 0 \in Services \ V2Services  \* what a manual entry starts with

TransportHint == {"Unknown", "V2", "V1Only"}
Phase         == {"Dialing", "Connected"}

Entry ==
  [services : Services, last_announced : Nat, last_success : Nat,
   next_attempt : Nat, failures : 0..U8Max, short_sessions : 0..U8Max,
   last_attempt_failed : BOOLEAN, origin : Origin, transport : TransportHint]

advertises_v2(services) == services \in V2Services

\* HashMap::insert and the removal of a set of keys.
Put(map, key, value) ==
  [k \in DOMAIN map \cup {key} |-> IF k = key THEN value ELSE map[k]]
Without(map, keys) == [k \in DOMAIN map \ keys |-> map[k]]

EntryNew(now, services, origin) ==
  [services |-> services, last_announced |-> now, last_success |-> 0,
   next_attempt |-> 0, failures |-> 0, short_sessions |-> 0,
   last_attempt_failed |-> FALSE, origin |-> origin, transport |-> "Unknown"]

class(entry) ==
  classify(entry.failures > 0, entry.last_success, entry.last_attempt_failed)

forgettable(entry, now) ==
  should_forget(now, entry.origin, entry.last_success, entry.last_announced,
                entry.failures)

----------------------------------------------------------------------------
\* Mutation: a change of services resets any verdict, not only V1Only.
Reannounced_ResetsAny(entry, now, services) ==
  [entry EXCEPT
     !.last_announced = now,
     !.transport = IF services # entry.services /\ advertises_v2(services)
                   THEN "Unknown" ELSE @,
     !.services = services]

\* A known address is announced again.
Reannounced(entry, now, services) ==
  [entry EXCEPT
     !.last_announced = now,
     !.transport = IF /\ services # entry.services
                      /\ advertises_v2(services)
                      /\ entry.transport = "V1Only"
                   THEN "Unknown" ELSE @,
     !.services = services]

\* The transport hint after a session over the given transport version.
HintAfter(entry, services, version) ==
  LET upgraded == advertises_v2(services) /\ ~advertises_v2(entry.services)
  IN  CASE version = 2 -> "V2"
        [] version = 1 /\ entry.transport = "Unknown" -> "V1Only"
        [] version = 1 /\ entry.transport = "V1Only" /\ upgraded -> "Unknown"
        [] OTHER -> entry.transport

\* The entry's share of record_connected.
AfterConnected(entry, now, services, version) ==
  [entry EXCEPT
     !.last_success = now,
     !.last_attempt_failed = FALSE,
     !.failures = 0,
     !.services = services,
     !.transport = HintAfter(entry, services, version)]

\* The counters of record_ended, before the retry is scheduled.
CountOutcome(entry, outcome) ==
  CASE outcome \in OurFault -> entry
    [] outcome = "Failed" ->
         [entry EXCEPT !.last_attempt_failed = TRUE, !.failures = Incr(@)]
    [] outcome \in {"OtherChain", "Violated"} ->
         [entry EXCEPT !.last_attempt_failed = FALSE, !.failures = 0]
    [] outcome \in {"Short", "Stable"} ->
         [entry EXCEPT !.last_attempt_failed = FALSE, !.failures = 0,
                       !.short_sessions = IF outcome = "Short" THEN Incr(@) ELSE 0]

\* retry_delay_secs on the counted entry.
BaseDelay(entry, outcome) ==
  retry_delay_secs(outcome, entry.origin, entry.last_success > 0,
                   entry.failures, entry.short_sessions)

\* The entries record_ended may leave: counters moved, and the next attempt at
\* any jittered delay.
AfterEnded(entry, now, outcome) ==
  LET counted == CountOutcome(entry, outcome)
  IN  {[counted EXCEPT !.next_attempt = now + d] : d \in jitter(BaseDelay(counted, outcome))}

AfterV1Only(entry) ==
  IF entry.transport = "Unknown" THEN [entry EXCEPT !.transport = "V1Only"] ELSE entry
=============================================================================

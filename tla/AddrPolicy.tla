------------------------------ MODULE AddrPolicy ------------------------------
(***************************************************************************)
(* The pure retry and forget policy of the address manager                 *)
(* (observer/src/addresses/policy.rs): which class an address falls in,    *)
(* how long it waits after each outcome, and when it is forgotten.         *)
(*                                                                         *)
(* The durations are constants, so that one instance checks the real       *)
(* values and another scales them down for the state machine of            *)
(* AddrManager.  A reason that nothing branches on (Reason) is left out of *)
(* an outcome; a finished session is "Short" or "Stable", which is all     *)
(* is_short_session reads from its uptime and silence.                     *)
(***************************************************************************)
EXTENDS Integers

CONSTANTS
  MANUAL_RETRY, OTHER_CHAIN, VIOLATION, STABLE_RECONNECT,
  PROXY_UNREACHABLE, NETWORK_UNREACHABLE, NETWORK_DISABLED,
  EVICTION_BASE, EVICTION_CAP, WAS_GOOD_BASE, WAS_GOOD_CAP, BAD_BASE, BAD_CAP,
  WAS_GOOD_FORGET_AFTER, BAD_ANNOUNCE_GRACE,
  BAD_FORGET_FAILURES_IF_STALE, BAD_FORGET_FAILURES_ALWAYS,
  U8Max,   \* the largest value of the u8 counters: 255 in the code
  U32Max   \* the largest value of u32 arithmetic: 2^32 - 1 in the code

\* Every duration is a positive u32, every backoff starts below its cap, the
\* two forget thresholds are ordered and fit in a u8.
ASSUME PolicyAssumption ==
  /\ U8Max \in Nat /\ U32Max \in Nat
  /\ \A d \in {MANUAL_RETRY, OTHER_CHAIN, VIOLATION, STABLE_RECONNECT,
               PROXY_UNREACHABLE, NETWORK_UNREACHABLE, NETWORK_DISABLED,
               EVICTION_BASE, EVICTION_CAP, WAS_GOOD_BASE, WAS_GOOD_CAP,
               BAD_BASE, BAD_CAP, WAS_GOOD_FORGET_AFTER, BAD_ANNOUNCE_GRACE} :
       d \in 1..U32Max
  /\ EVICTION_BASE <= EVICTION_CAP
  /\ WAS_GOOD_BASE <= WAS_GOOD_CAP
  /\ BAD_BASE <= BAD_CAP
  /\ BAD_FORGET_FAILURES_IF_STALE \in 1..BAD_FORGET_FAILURES_ALWAYS
  /\ BAD_FORGET_FAILURES_ALWAYS \in 1..U8Max

Origin == {"Manual", "Gossip"}
Class  == {"Unknown", "Good", "WasGood", "Bad"}

\* Outcome::Failed, the OurFault reasons (they differ in their delay), the two
\* verdicts on a session's peer, and a session that ended early or did not.
OurFault   == {"ProxyUnreachable", "NetworkUnreachable", "NetworkDisabled"}
SessionEnd == {"OtherChain", "Violated", "Short", "Stable"}
Outcome    == {"Failed"} \cup OurFault \cup SessionEnd

PMin(a, b) == IF a <= b THEN a ELSE b
PMax(a, b) == IF a >= b THEN a ELSE b

\* u8::saturating_add(1)
Incr(n) == PMin(n + 1, U8Max)

----------------------------------------------------------------------------
classify(tried, last_success, last_attempt_failed) ==
  CASE last_success > 0 /\ last_attempt_failed  -> "WasGood"
    [] last_success > 0 /\ ~last_attempt_failed -> "Good"
    [] last_success = 0 /\ tried                -> "Bad"
    [] last_success = 0 /\ ~tried               -> "Unknown"

\* u32::saturating_mul, written so that no intermediate value exceeds U32Max.
SatMul(a, b) == IF b > 0 /\ a > U32Max \div b THEN U32Max ELSE a * b

\* u32::saturating_pow: saturation is absorbing for a positive factor, so it can
\* be applied at every multiplication.
SatPow(factor, n) ==
  LET pow[i \in 0..n] == IF i = 0 THEN 1 ELSE SatMul(factor, pow[i - 1])
  IN  pow[n]

exp_backoff(base, factor, n, cap) ==
  PMin(SatMul(base, SatPow(factor, PMax(n - 1, 0))), cap)

\* Seconds before the next dial, without jitter.  failures and short_sessions
\* are the counters after the outcome was applied.
retry_delay_secs(outcome, origin, connected_before, failures, short_sessions) ==
  CASE outcome = "OtherChain" -> OTHER_CHAIN
    [] outcome # "OtherChain" /\ origin = "Manual" -> MANUAL_RETRY
    [] OTHER ->
         CASE outcome = "Violated"           -> VIOLATION
           [] outcome = "ProxyUnreachable"   -> PROXY_UNREACHABLE
           [] outcome = "NetworkUnreachable" -> NETWORK_UNREACHABLE
           [] outcome = "NetworkDisabled"    -> NETWORK_DISABLED
           [] outcome = "Stable"             -> STABLE_RECONNECT
           [] outcome = "Short"  -> exp_backoff(EVICTION_BASE, 2, short_sessions, EVICTION_CAP)
           [] outcome = "Failed" -> IF connected_before
                                    THEN exp_backoff(WAS_GOOD_BASE, 2, failures, WAS_GOOD_CAP)
                                    ELSE exp_backoff(BAD_BASE, 4, failures, BAD_CAP)

\* The delays jitter can return: delay +/- 10%, rounded half away from zero and
\* never below one second.  The random factor is the choice of a member.
jitter(delay) ==
  {d \in (9 * delay + 5) \div 10 .. PMax(1, (11 * delay + 5) \div 10) : d >= 1}

should_forget(now, origin, last_success, last_announced, failures) ==
  /\ origin # "Manual"
  /\ IF last_success > 0
     THEN now - last_success > WAS_GOOD_FORGET_AFTER
     ELSE \/ failures >= BAD_FORGET_FAILURES_ALWAYS
          \/ /\ failures >= BAD_FORGET_FAILURES_IF_STALE
             /\ now - last_announced > BAD_ANNOUNCE_GRACE
=============================================================================

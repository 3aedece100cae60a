----------------------------- MODULE RateLimiter -----------------------------
(***************************************************************************)
(* The rate limiting middleware: a token bucket per client address in       *)
(* echo's memory store, which forgets addresses it has not seen for a       *)
(* while.  The bucket and the store are the library's; the code chooses     *)
(* their rate, burst and expiry.                                            *)
(*                                                                         *)
(* A tick is the time in which a bucket earns one token, so that the        *)
(* configured duration is RateLimit ticks.  Clocks stop at the bound after  *)
(* which they make no difference.                                           *)
(***************************************************************************)
EXTENDS Naturals

CONSTANTS
  Addresses,   \* what RealIP() returns
  RateLimit    \* config.RateLimit, requests per config.RateLimitDuration

ASSUME LimitPositive == RateLimit \in Nat \ {0}

(* Mutant: the store forgets an address at its first chance. *)
ExpiresAtOnce == 0

Burst     == RateLimit
ExpiresIn == RateLimit

VARIABLES
  visitors,     \* addresses in the store
  tokens,       \* [Addresses -> tokens in the bucket]
  idle,         \* [Addresses -> ticks since the address was last seen]
  uncleaned     \* ticks since the store was last cleaned

store == <<visitors, tokens, idle, uncleaned>>

Later(n) == IF n > ExpiresIn THEN n ELSE n + 1

LimiterInit ==
  /\ visitors = {}
  /\ tokens = [a \in Addresses |-> Burst]
  /\ idle = [a \in Addresses |-> 0]
  /\ uncleaned = 0

(* Mutant: the burst does not bound the bucket. *)
TickUnbounded ==
  /\ tokens' = [a \in Addresses |-> IF a \in visitors THEN tokens[a] + 1 ELSE tokens[a]]
  /\ idle' = [a \in Addresses |-> IF a \in visitors THEN Later(idle[a]) ELSE idle[a]]
  /\ uncleaned' = Later(uncleaned)
  /\ UNCHANGED visitors

Tick ==
  /\ tokens' = [a \in Addresses |->
                  IF a \in visitors /\ tokens[a] < Burst THEN tokens[a] + 1 ELSE tokens[a]]
  /\ idle' = [a \in Addresses |-> IF a \in visitors THEN Later(idle[a]) ELSE idle[a]]
  /\ uncleaned' = Later(uncleaned)
  /\ UNCHANGED visitors

Stale(a) == a \in visitors /\ idle[a] > ExpiresIn

(* Allow(a): the visitor is entered or found, stale ones other than it are   *)
(* forgotten when the store has not been cleaned for long, and its bucket    *)
(* is asked for a token.  A bucket that is entered again is a full one.      *)
Allow(a, allowed) ==
  LET cleaning  == uncleaned > ExpiresIn
      forgotten == IF cleaning THEN {v \in Addresses \ {a} : Stale(v)} ELSE {}
  IN /\ allowed <=> tokens[a] > 0
     /\ visitors' = (visitors \cup {a}) \ forgotten
     /\ tokens' = [v \in Addresses |->
                     IF v \in forgotten THEN Burst
                     ELSE IF v = a /\ allowed THEN tokens[v] - 1 ELSE tokens[v]]
     /\ idle' = [v \in Addresses |-> IF v \in forgotten \cup {a} THEN 0 ELSE idle[v]]
     /\ uncleaned' = IF cleaning THEN 0 ELSE uncleaned

LimiterTypeOK ==
  /\ visitors \subseteq Addresses
  /\ tokens \in [Addresses -> 0 .. Burst]
  /\ idle \in [Addresses -> 0 .. ExpiresIn + 1]
  /\ uncleaned \in 0 .. ExpiresIn + 1
============================================================================

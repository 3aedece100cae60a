------------------------------ MODULE RemoteCall ------------------------------
(***************************************************************************)
(* What a call to another service promises whoever makes it.  It takes      *)
(* effect at most as often as it may be attempted, and more than once, or   *)
(* after it has returned, only if some attempt's outcome was left in doubt; *)
(* it fails with the effect made only in doubt; and, unless it is one of    *)
(* those that do not look at the answer, it succeeds only if it had effect. *)
(***************************************************************************)
EXTENDS Naturals

CONSTANTS Calls, Limit   \* Limit: the most attempts any call makes

VARIABLES
  state,     \* per call: new, open, ok or failed
  terms,     \* per call: the attempts it may make; does it look at the answer?
  effects,   \* per call: the attempts that took effect
  doubt      \* the calls with an attempt of unknown outcome

vars == <<state, terms, effects, doubt>>

Terms == [most : 1 .. Limit, checked : BOOLEAN]
NoTerms == [most |-> 0, checked |-> TRUE]

Init ==
  /\ state = [k \in Calls |-> "new"]
  /\ terms = [k \in Calls |-> NoTerms]
  /\ effects = [k \in Calls |-> {}]
  /\ doubt = {}

Begin(k) ==
  /\ state[k] = "new"
  /\ \E s \in {"open", "failed"} : state' = [state EXCEPT ![k] = s]
  /\ \E t \in Terms : terms' = [terms EXCEPT ![k] = t]
  /\ UNCHANGED <<effects, doubt>>

MayDoubt(k) == doubt' = doubt \/ (state[k] = "open" /\ doubt' = doubt \cup {k})

Effect(k) ==
  /\ k \in doubt \/ (state[k] = "open" /\ effects[k] = {})
  /\ \E n \in (1 .. terms[k].most) \ effects[k] :
       effects' = [effects EXCEPT ![k] = @ \cup {n}]
  /\ MayDoubt(k)
  /\ UNCHANGED <<state, terms>>

Doubt(k) ==
  /\ state[k] = "open"
  /\ doubt' = doubt \cup {k}
  /\ UNCHANGED <<state, terms, effects>>

Return(k) ==
  /\ state[k] = "open"
  /\ MayDoubt(k)
  /\ \/ /\ terms[k].checked => effects[k] # {}
        /\ state' = [state EXCEPT ![k] = "ok"]
     \/ /\ effects[k] # {} => k \in doubt'
        /\ state' = [state EXCEPT ![k] = "failed"]
  /\ UNCHANGED <<terms, effects>>

Next == \E k \in Calls : Begin(k) \/ Effect(k) \/ Doubt(k) \/ Return(k)

Spec == Init /\ [][Next]_vars
============================================================================

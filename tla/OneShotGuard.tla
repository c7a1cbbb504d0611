----------------------------- MODULE OneShotGuard -----------------------------
(***************************************************************************)
(* What the guard of the shutdown rules promises, whatever the polls, the  *)
(* editor and the crashes do: arming a rule entitles the process to send   *)
(* its action once.  The entitlement is taken (Grant), then used (Send) or *)
(* lost (Lose), and only arming the rule again makes a new one.            *)
(***************************************************************************)
EXTENDS Naturals

CONSTANT Rules

VARIABLES
  armed,      \* rules whose slot is free
  gen,        \* the number of the current arming of each rule
  granted,    \* entitlements taken and not yet used: <<rule, arming>>
  spent       \* entitlements used

vars == <<armed, gen, granted, spent>>

Init ==
  /\ armed \subseteq Rules
  /\ gen = [r \in Rules |-> 0]
  /\ granted = {}
  /\ spent = {}

(* Whoever takes an entitlement may give up (T) those it has not used.     *)
Grant(r, T) ==
  /\ r \in armed
  /\ T \subseteq granted
  /\ armed' = armed \ {r}
  /\ granted' = (granted \ T) \cup {<<r, gen[r]>>}
  /\ UNCHANGED <<gen, spent>>

(* The action goes out once for an entitlement.                            *)
Send(t) ==
  /\ t \in granted \ spent
  /\ spent' = spent \cup {t}
  /\ granted' = granted \ {t}
  /\ UNCHANGED <<armed, gen>>

(* The action failed, or the process died: at most once, not exactly once. *)
Lose(T) ==
  /\ T \subseteq granted
  /\ granted' = granted \ T
  /\ UNCHANGED <<armed, gen, spent>>

Arm(S) ==
  /\ S \subseteq Rules
  /\ armed' = armed \cup S
  /\ gen' = [r \in Rules |-> IF r \in S THEN gen[r] + 1 ELSE gen[r]]
  /\ UNCHANGED <<granted, spent>>

(* Rules that are deleted cannot be granted any more.                      *)
Retire(S) ==
  /\ armed' = armed \ S
  /\ UNCHANGED <<gen, granted, spent>>

Next ==
  \/ \E r \in Rules, T \in SUBSET granted : Grant(r, T)
  \/ \E t \in granted : Send(t)
  \/ \E T \in SUBSET granted : Lose(T)
  \/ \E S \in SUBSET Rules : Arm(S) \/ Retire(S)

Spec == Init /\ [][Next]_vars

=============================================================================

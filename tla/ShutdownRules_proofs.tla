------------------------- MODULE ShutdownRules_proofs -------------------------
(***************************************************************************)
(* Proofs about ShutdownRules for any rules, targets, activations and      *)
(* bounds: types, the one-shot guard, its refinement of OneShotGuard, and, *)
(* for the scheduler alone, one action per outage, in order, with the      *)
(* delays.                                                                 *)
(***************************************************************************)
EXTENDS ShutdownRules, TLAPS

(* No arming has been used that is younger than the rule's current one.    *)
TokensOld ==
  \A t \in SentTokens \cup HeldTokens : t[2] <= gen[t[1]]

(* The inductive invariant.  AtMostOncePerArming alone is not inductive:   *)
(* FireNext needs to know that an armed rule's token is fresh              *)
(* (GuardBeforeAction), and re-arming keeps that true only because no      *)
(* token carries a number above the rule's current one (TokensOld).        *)
IInv ==
  /\ TypeOK
  /\ TokensOld
  /\ AtMostOncePerArming
  /\ GuardBeforeAction

-----------------------------------------------------------------------------
(* Typing.                                                                 *)

LEMMA InitType == Init => TypeOK
<1> SUFFICES ASSUME Init PROVE TypeOK
  OBVIOUS
<1> USE ConstantsOK
<1>1. cfg \in [Rules -> Config]
  BY DEF Init
<1>2. level \in Levels
  BY DEF Init, Levels
<1>3. NoReading \in Reading
  BY DEF NoReading, Reading
<1>4. reading \in [Polls -> Reading]
  BY <1>3 DEF Init
<1>5. rank \in [Polls -> [Rules -> Nat]]
  BY DEF Init
<1> QED
  BY <1>1, <1>2, <1>4, <1>5 DEF Init, TypeOK, Phases

(* Ending an activation resets its locals to values of their types.        *)
LEMMA EndPassType ==
  ASSUME TypeOK, NEW p \in Polls, EndPass(p), UNCHANGED fired, PassOnly
  PROVE  TypeOK'
<1>1. phase' \in [Polls -> Phases]
  BY DEF TypeOK, EndPass, Phases
<1>2. reading' \in [Polls -> Reading]
  BY DEF TypeOK, EndPass, NoReading, Reading
<1>3. todo' \in [Polls -> SUBSET Rules]
  BY DEF TypeOK, EndPass
<1>4. rank' \in [Polls -> [Rules -> Nat]]
  BY DEF TypeOK, EndPass
<1>5. job' \in [Polls -> Token \cup {None}]
  BY DEF TypeOK, EndPass
<1>6. \A q \in Polls :
        phase'[q] \in {"stamped", "acting", "acted", "waiting"} => job'[q] \in Token
  BY DEF TypeOK, EndPass
<1> QED
  BY <1>1, <1>2, <1>3, <1>4, <1>5, <1>6 DEF TypeOK, PassOnly, ups

(* Reserving the next rule's slot, or running off the end of the list.     *)
LEMMA LoopType ==
  ASSUME TypeOK, NEW p \in Polls, NEW td \in SUBSET Rules,
         NEW rk \in [Rules -> Nat], NEW rd, Loop(p, td, rk, rd), PassOnly
  PROVE  TypeOK'
<1>1. CASE LoopEnds(p, td, rk, rd)
  BY <1>1, EndPassType DEF LoopEnds
<1>2. CASE FireNext(p, td, rk, rd)
  <2>1. PICK r \in Due(td, rd) :
          /\ fired' = fired \cup {r}
          /\ phase' = [phase EXCEPT ![p] = "stamped"]
          /\ todo' = [todo EXCEPT ![p] = {s \in td : Precedes(rk, r, s)}]
          /\ rank' = [rank EXCEPT ![p] = rk]
          /\ job' = [job EXCEPT ![p] = <<r, gen[r]>>]
          /\ reading' = reading
    BY <1>2 DEF FireNext
  <2>2. r \in Rules /\ r \in rows
    BY DEF Due
  <2>3. <<r, gen[r]>> \in Token
    BY <2>2 DEF TypeOK, Token
  <2>4. phase' \in [Polls -> Phases] /\ todo' \in [Polls -> SUBSET Rules]
    BY <2>1 DEF TypeOK, Phases
  <2>5. rank' \in [Polls -> [Rules -> Nat]] /\ job' \in [Polls -> Token \cup {None}]
    BY <2>1, <2>3 DEF TypeOK
  <2>6. \A q \in Polls :
          phase'[q] \in {"stamped", "acting", "acted", "waiting"} => job'[q] \in Token
    BY <2>1, <2>3 DEF TypeOK
  <2> QED
    BY <2>1, <2>2, <2>4, <2>5, <2>6 DEF TypeOK, PassOnly, ups
<1> QED
  BY <1>1, <1>2 DEF Loop

LEMMA PauseOrLoopType ==
  ASSUME TypeOK, NEW p \in Polls, job[p] \in Token, PauseOrLoop(p), PassOnly
  PROVE  TypeOK'
<1>1. CASE UNCHANGED <<fired, reading, todo, rank, job>>
           /\ phase' = [phase EXCEPT ![p] = "waiting"]
  BY <1>1 DEF TypeOK, Phases, PassOnly, ups
<1>2. CASE Loop(p, todo[p], rank[p], reading[p])
  <2>1. todo[p] \in SUBSET Rules /\ rank[p] \in [Rules -> Nat]
    BY DEF TypeOK
  <2> QED
    BY <1>2, <2>1, LoopType
<1> QED
  BY <1>1, <1>2 DEF PauseOrLoop

LEMMA PollStepType ==
  ASSUME TypeOK, NEW p \in Polls, FetchStatus(p) \/ PollStep(p)
  PROVE  TypeOK'
<1>1. CASE FetchStatus(p)
  <2>1. reading'[p] \in Reading
    BY <1>1, ConstantsOK DEF FetchStatus, TypeOK, Reading, Levels
  <2> QED
    BY <1>1, <2>1 DEF FetchStatus, TypeOK, Phases, PassOnly, ups
<1>2. CASE RearmRules(p)
  BY <1>2 DEF RearmRules, TypeOK, Phases, ups
<1>3. CASE StayArmed(p)
  BY <1>3, EndPassType DEF StayArmed
<1>4. CASE StartPass(p)
  <2>1. EnabledRules \in SUBSET Rules
    BY DEF EnabledRules, TypeOK
  <2>2. [r \in Rules |-> cfg[r].priority] \in [Rules -> Nat]
    BY DEF TypeOK, Config
  <2> QED
    BY <1>4, <2>1, <2>2, LoopType DEF StartPass
<1>5. CASE StartAction(p)
  BY <1>5 DEF StartAction, TypeOK, Phases, PassOnly, ups
<1>6. CASE TargetMissing(p)
  BY <1>6, PauseOrLoopType DEF TargetMissing, TypeOK
<1>7. CASE RuleGone(p)
  BY <1>7, EndPassType DEF RuleGone
<1>8. CASE ActionReaches(p)
  <2>1. job[p] \in Token
    BY <1>8 DEF ActionReaches, TypeOK
  <2>2. job[p][1] \in Rules /\ job[p][2] \in Nat
    BY <2>1 DEF Token
  <2> QED
    BY <1>8, <2>2 DEF ActionReaches, TypeOK, Phases, db, ups
<1>9. CASE ActionFails(p)
  BY <1>9 DEF ActionFails, TypeOK, Phases, PassOnly, ups
<1>10. CASE AfterAction(p)
  BY <1>10, PauseOrLoopType DEF AfterAction, TypeOK
<1>11. CASE Wake(p)
  <2>1. todo[p] \in SUBSET Rules /\ rank[p] \in [Rules -> Nat]
    BY DEF TypeOK
  <2> QED
    BY <1>11, <2>1, LoopType DEF Wake
<1>12. CASE RearmNotified(p)
  BY <1>12, EndPassType DEF RearmNotified
<1> QED
  BY <1>1, <1>2, <1>3, <1>4, <1>5, <1>6, <1>7, <1>8, <1>9, <1>10, <1>11, <1>12 DEF PollStep

LEMMA WorldType ==
  ASSUME TypeOK,
         Restart \/ LoseMains \/ Drain \/ RestoreMains \/ \E r \in Rules : DelayElapses(r)
  PROVE  TypeOK'
<1> USE ConstantsOK DEF UpsOnly, db, passes, ups, TypeOK
<1>1. CASE Restart
  <2>1. NoReading \in Reading
    BY DEF NoReading, Reading
  <2> QED
    BY <1>1, <2>1 DEF Restart, Disturb, Phases
<1>2. CASE LoseMains
  BY <1>2 DEF LoseMains
<1>3. CASE Drain
  BY <1>3 DEF Drain, Levels
<1>4. CASE RestoreMains
  <2>1. level' \in Levels
    BY <1>4 DEF RestoreMains, Levels
  <2> QED
    BY <1>4, <2>1 DEF RestoreMains
<1>5. CASE \E r \in Rules : DelayElapses(r)
  BY <1>5 DEF DelayElapses
<1> QED
  BY <1>1, <1>2, <1>3, <1>4, <1>5

LEMMA NextType == TypeOK /\ [Next]_vars => TypeOK'
<1> SUFFICES ASSUME TypeOK, [Next]_vars PROVE TypeOK'
  OBVIOUS
<1>1. CASE UNCHANGED vars
  BY <1>1 DEF TypeOK, vars, db, passes, ups
<1>2. CASE \E p \in Polls : FetchStatus(p) \/ PollStep(p)
  BY <1>2, PollStepType
<1>3. ASSUME NEW h \in Handlers, NEW c \in Configs, CheckCreate(h, c)
      PROVE  TypeOK'
  BY <1>3, ConstantsOK DEF CheckCreate, EditOnly, Disturb, passes, ups, db, TypeOK
<1>4. ASSUME NEW h \in Handlers, NEW r \in Rules, InsertRule(h, r)
      PROVE  TypeOK'
  <2>1. creating[h] \in Config
    BY <1>4 DEF InsertRule, TypeOK
  <2> QED
    BY <1>4, <2>1 DEF InsertRule, EditOnly, passes, ups, TypeOK
<1>5. ASSUME NEW r \in Rules, NEW c \in Configs, UpdateRule(r, c)
      PROVE  TypeOK'
  BY <1>5, ConstantsOK DEF UpdateRule, EditOnly, Disturb, passes, ups, TypeOK
<1>6. ASSUME NEW r \in Rules, DeleteRule(r)
      PROVE  TypeOK'
  BY <1>6, ConstantsOK DEF DeleteRule, EditOnly, Disturb, passes, ups, TypeOK
<1>7. ASSUME NEW t \in Targets, DeleteDevice(t)
      PROVE  TypeOK'
  <2>1. fired' \subseteq rows' /\ rows' \subseteq Rules /\ targets' \subseteq Targets
    BY <1>7 DEF DeleteDevice, TypeOK
  <2>2. disturbances' \in Nat
    BY <1>7 DEF DeleteDevice, Disturb, TypeOK
  <2> QED
    BY <1>7, <2>1, <2>2 DEF DeleteDevice, EditOnly, passes, ups, TypeOK
<1>8. CASE Restart \/ LoseMains \/ Drain \/ RestoreMains \/ \E r \in Rules : DelayElapses(r)
  BY <1>8, WorldType
<1> QED
  BY <1>1, <1>2, <1>3, <1>4, <1>5, <1>6, <1>7, <1>8 DEF Next

(* Every reachable state is well typed, for all constants.                 *)
THEOREM TypeCorrect == Spec => []TypeOK
<1> QED
  BY InitType, NextType, PTL DEF Spec

-----------------------------------------------------------------------------
(* The one-shot guard.                                                     *)

(* Steps that arm nothing, send nothing and create no entitlement.         *)
LEMMA QuietStep ==
  ASSUME IInv, TypeOK', gen' = gen, sent' = sent,
         rows' \ fired' \subseteq rows \ fired,
         \A q \in Polls : Holds(q)' => Holds(q) /\ job'[q] = job[q]
  PROVE  IInv'
<1>1. SentTokens' = SentTokens
  BY DEF SentTokens
<1>2. HeldTokens' \subseteq HeldTokens
  BY DEF HeldTokens
<1>3. TokensOld'
  BY <1>1, <1>2 DEF IInv, TokensOld
<1>4. AtMostOncePerArming'
  BY <1>1 DEF IInv, AtMostOncePerArming
<1>5. GuardBeforeAction'
  BY <1>1, <1>2 DEF IInv, GuardBeforeAction
<1> QED
  BY <1>3, <1>4, <1>5 DEF IInv

(* Steps that arm the rules of S: re-arming, editing, inserting.           *)
LEMMA ArmStep ==
  ASSUME IInv, TypeOK', NEW S \in SUBSET Rules,
         gen' = [r \in Rules |-> IF r \in S THEN gen[r] + 1 ELSE gen[r]],
         sent' = sent,
         rows' \ fired' \subseteq (rows \ fired) \cup S,
         \A q \in Polls : Holds(q)' => Holds(q) /\ job'[q] = job[q]
  PROVE  IInv'
<1>1. SentTokens' = SentTokens
  BY DEF SentTokens
<1>2. HeldTokens' \subseteq HeldTokens
  BY DEF HeldTokens
<1>3. \A r \in Rules : gen[r] \in Nat /\ gen[r] <= gen'[r]
  BY DEF IInv, TypeOK
<1>4. \A t \in SentTokens \cup HeldTokens : t[1] \in Rules /\ t[2] \in Nat
  <2>1. \A t \in SentTokens : t[1] \in Rules /\ t[2] \in Nat
    BY DEF SentTokens, IInv, TypeOK
  <2>2. \A t \in HeldTokens : t \in Token
    BY DEF HeldTokens, Holds, IInv, TypeOK
  <2> QED
    BY <2>1, <2>2 DEF Token
<1>5. TokensOld'
  <2> SUFFICES ASSUME NEW t \in SentTokens \cup HeldTokens
               PROVE  t[2] <= gen'[t[1]]
    BY <1>1, <1>2 DEF TokensOld
  <2>1. t[2] <= gen[t[1]]
    BY DEF IInv, TokensOld
  <2> QED
    BY <1>3, <1>4, <2>1
<1>6. AtMostOncePerArming'
  BY <1>1 DEF IInv, AtMostOncePerArming
<1>7. GuardBeforeAction'
  <2> SUFFICES ASSUME NEW r \in rows' \ fired', <<r, gen'[r]>> \in SentTokens \cup HeldTokens
               PROVE  FALSE
    BY <1>1, <1>2 DEF GuardBeforeAction
  <2>1. r \in Rules
    BY DEF TypeOK
  <2>2. CASE r \in S
    <3>1. gen'[r] = gen[r] + 1
      BY <2>1, <2>2
    <3>2. gen'[r] <= gen[r]
      BY DEF IInv, TokensOld
    <3> QED
      BY <1>3, <2>1, <3>1, <3>2
  <2>3. CASE r \notin S
    <3>1. gen'[r] = gen[r] /\ r \in rows \ fired
      BY <2>1, <2>3
    <3> QED
      BY <3>1 DEF IInv, GuardBeforeAction
  <2> QED
    BY <2>2, <2>3
<1> QED
  BY <1>5, <1>6, <1>7 DEF IInv

(* Reserving a slot: the token taken is that of an armed rule, so it is    *)
(* unused and no other activation holds it.                                *)
LEMMA FireStep ==
  ASSUME IInv, TypeOK', NEW p \in Polls, NEW td, NEW rk, NEW rd,
         FireNext(p, td, rk, rd), PassOnly
  PROVE  IInv'
<1>1. PICK r \in Due(td, rd) :
        /\ fired' = fired \cup {r}
        /\ phase' = [phase EXCEPT ![p] = "stamped"]
        /\ job' = [job EXCEPT ![p] = <<r, gen[r]>>]
  BY DEF FireNext
<1>2. r \in rows \ fired /\ r \in Rules
  BY DEF Due, IInv, TypeOK
<1>3. <<r, gen[r]>> \notin SentTokens \cup HeldTokens
  BY <1>2 DEF IInv, GuardBeforeAction
<1>4. SentTokens' = SentTokens /\ gen' = gen /\ rows' = rows
  BY DEF SentTokens, PassOnly
<1>5. \A q \in Polls \ {p} : (Holds(q)' <=> Holds(q)) /\ job'[q] = job[q]
  BY <1>1 DEF Holds, IInv, TypeOK
<1>6. job'[p] = <<r, gen[r]>>
  BY <1>1 DEF IInv, TypeOK
<1>7. HeldTokens' \subseteq HeldTokens \cup {<<r, gen[r]>>}
  BY <1>5, <1>6 DEF HeldTokens
<1>8. gen[r] \in Nat
  BY <1>2 DEF IInv, TypeOK
<1>9. TokensOld'
  BY <1>4, <1>7, <1>8 DEF IInv, TokensOld
<1>10. AtMostOncePerArming'
  BY <1>3, <1>4, <1>5, <1>6 DEF IInv, AtMostOncePerArming, HeldTokens
<1>11. GuardBeforeAction'
  <2> SUFFICES ASSUME NEW s \in rows' \ fired'
               PROVE  <<s, gen[s]>> \notin SentTokens \cup HeldTokens'
    BY <1>4 DEF GuardBeforeAction
  <2>1. s \in rows \ fired /\ s # r
    BY <1>1, <1>4
  <2> QED
    BY <2>1, <1>7 DEF IInv, GuardBeforeAction
<1> QED
  BY <1>9, <1>10, <1>11 DEF IInv

LEMMA LoopStep ==
  ASSUME IInv, TypeOK', NEW p \in Polls, NEW td, NEW rk, NEW rd,
         Loop(p, td, rk, rd), PassOnly
  PROVE  IInv'
<1>1. CASE FireNext(p, td, rk, rd)
  BY <1>1, FireStep
<1>2. CASE LoopEnds(p, td, rk, rd)
  <2>1. \A q \in Polls : Holds(q)' => Holds(q) /\ job'[q] = job[q]
    BY <1>2 DEF LoopEnds, EndPass, Holds, IInv, TypeOK
  <2> QED
    BY <1>2, <2>1, QuietStep DEF LoopEnds, PassOnly
<1> QED
  BY <1>1, <1>2 DEF Loop

LEMMA PauseOrLoopStep ==
  ASSUME IInv, TypeOK', NEW p \in Polls, PauseOrLoop(p), PassOnly
  PROVE  IInv'
<1>1. CASE UNCHANGED <<fired, reading, todo, rank, job>>
           /\ phase' = [phase EXCEPT ![p] = "waiting"]
  <2>1. \A q \in Polls : Holds(q)' => Holds(q) /\ job'[q] = job[q]
    BY <1>1 DEF Holds, IInv, TypeOK
  <2> QED
    BY <1>1, <2>1, QuietStep DEF PassOnly
<1>2. CASE Loop(p, todo[p], rank[p], reading[p])
  BY <1>2, LoopStep
<1> QED
  BY <1>1, <1>2 DEF PauseOrLoop

(* An activation that ends, or moves on without a new entitlement.         *)
LEMMA EndPassStep ==
  ASSUME IInv, TypeOK', NEW p \in Polls, EndPass(p), UNCHANGED fired, PassOnly
  PROVE  IInv'
<1>1. \A q \in Polls : Holds(q)' => Holds(q) /\ job'[q] = job[q]
  BY DEF EndPass, Holds, IInv, TypeOK
<1> QED
  BY <1>1, QuietStep DEF PassOnly

(* Sending uses the entitlement up: it moves from held to sent.            *)
LEMMA SendStep ==
  ASSUME IInv, TypeOK', NEW p \in Polls, ActionReaches(p)
  PROVE  IInv'
<1>1. Holds(p) /\ job[p] \in Token
  BY DEF ActionReaches, Holds, IInv, TypeOK
<1>2. <<job[p][1], job[p][2]>> = job[p]
  BY <1>1 DEF Token
<1>3. SentTokens' = SentTokens \cup {job[p]}
  <2> DEFINE new == [rule |-> job[p][1], gen |-> job[p][2], outage |-> outage]
  <2>1. sent' = sent \cup {new}
    BY DEF ActionReaches
  <2>2. <<new.rule, new.gen>> = job[p]
    BY <1>2
  <2> HIDE DEF new
  <2> QED
    BY <2>1, <2>2 DEF SentTokens
<1>4. job' = job /\ rows' = rows /\ fired' = fired /\ gen' = gen
  BY DEF ActionReaches, db
<1>5. \A q \in Polls : Holds(q)' => Holds(q) /\ q # p
  BY DEF ActionReaches, Holds, IInv, TypeOK
<1>6. SentTokens' \cup HeldTokens' \subseteq SentTokens \cup HeldTokens
  BY <1>1, <1>3, <1>4, <1>5 DEF HeldTokens
<1>7. TokensOld'
  BY <1>4, <1>6 DEF IInv, TokensOld
<1>8. AtMostOncePerArming'
  BY <1>1, <1>3, <1>4, <1>5 DEF IInv, AtMostOncePerArming
<1>9. GuardBeforeAction'
  BY <1>4, <1>6 DEF IInv, GuardBeforeAction
<1> QED
  BY <1>7, <1>8, <1>9 DEF IInv

LEMMA PollStepSafe ==
  ASSUME IInv, TypeOK', NEW p \in Polls, FetchStatus(p) \/ PollStep(p)
  PROVE  IInv'
<1>1. CASE FetchStatus(p) \/ ActionFails(p) \/ StartAction(p)
  <2>1. \A q \in Polls : Holds(q)' => Holds(q) /\ job'[q] = job[q]
    BY <1>1 DEF FetchStatus, ActionFails, StartAction, Holds, IInv, TypeOK
  <2> QED
    BY <1>1, <2>1, QuietStep DEF FetchStatus, ActionFails, StartAction, PassOnly
<1>2. CASE RearmRules(p)
  <2>1. \A q \in Polls : Holds(q)' => Holds(q) /\ job'[q] = job[q]
    BY <1>2 DEF RearmRules, Holds, IInv, TypeOK
  <2>2. EnabledRules \cap fired \in SUBSET Rules
    BY DEF EnabledRules, IInv, TypeOK
  <2> QED
    BY <1>2, <2>1, <2>2, ArmStep DEF RearmRules
<1>3. CASE StayArmed(p) \/ RuleGone(p) \/ RearmNotified(p)
  BY <1>3, EndPassStep DEF StayArmed, RuleGone, RearmNotified
<1>4. CASE StartPass(p)
  BY <1>4, LoopStep DEF StartPass
<1>5. CASE TargetMissing(p) \/ AfterAction(p)
  BY <1>5, PauseOrLoopStep DEF TargetMissing, AfterAction
<1>6. CASE ActionReaches(p)
  BY <1>6, SendStep
<1>7. CASE Wake(p)
  BY <1>7, LoopStep DEF Wake
<1> QED
  BY <1>1, <1>2, <1>3, <1>4, <1>5, <1>6, <1>7 DEF PollStep

(* The steps of the editor, the environment and a restart.                 *)
LEMMA OtherStepSafe ==
  ASSUME IInv, TypeOK', Next, ~\E p \in Polls : FetchStatus(p) \/ PollStep(p)
  PROVE  IInv'
<1>1. ASSUME NEW h \in Handlers, NEW r \in Rules, InsertRule(h, r)
      PROVE  IInv'
  <2>1. gen' = [q \in Rules |-> IF q \in {r} THEN gen[q] + 1 ELSE gen[q]]
    BY <1>1 DEF InsertRule, IInv, TypeOK
  <2>2. \A q \in Polls : Holds(q)' => Holds(q) /\ job'[q] = job[q]
    BY <1>1 DEF InsertRule, EditOnly, passes, Holds
  <2>3. sent' = sent /\ rows' \ fired' \subseteq (rows \ fired) \cup {r}
    BY <1>1 DEF InsertRule, EditOnly
  <2> QED
    BY <2>1, <2>2, <2>3, ArmStep
<1>2. ASSUME NEW r \in Rules, NEW c \in Configs, UpdateRule(r, c)
      PROVE  IInv'
  <2>1. gen' = [q \in Rules |-> IF q \in {r} THEN gen[q] + 1 ELSE gen[q]]
    BY <1>2 DEF UpdateRule, IInv, TypeOK
  <2>2. \A q \in Polls : Holds(q)' => Holds(q) /\ job'[q] = job[q]
    BY <1>2 DEF UpdateRule, EditOnly, passes, Holds
  <2>3. sent' = sent /\ rows' \ fired' \subseteq (rows \ fired) \cup {r}
    BY <1>2 DEF UpdateRule, EditOnly
  <2> QED
    BY <2>1, <2>2, <2>3, ArmStep
<1>3. ASSUME NEW r \in Rules, DeleteRule(r)
      PROVE  IInv'
  BY <1>3, QuietStep DEF DeleteRule, EditOnly, passes, Holds
<1>4. ASSUME NEW t \in Targets, DeleteDevice(t)
      PROVE  IInv'
  BY <1>4, QuietStep DEF DeleteDevice, EditOnly, passes, Holds
<1>5. ASSUME NEW h \in Handlers, NEW c \in Configs, CheckCreate(h, c)
      PROVE  IInv'
  BY <1>5, QuietStep DEF CheckCreate, EditOnly, passes, db, Holds
<1>6. CASE LoseMains \/ Drain \/ RestoreMains \/ \E r \in Rules : DelayElapses(r)
  BY <1>6, QuietStep
     DEF LoseMains, Drain, RestoreMains, DelayElapses, UpsOnly, passes, db, Holds
<1>7. CASE Restart
  BY <1>7, QuietStep DEF Restart, db, Holds
<1> QED
  BY <1>1, <1>2, <1>3, <1>4, <1>5, <1>6, <1>7 DEF Next

LEMMA InvInit == Init => IInv
<1> SUFFICES ASSUME Init PROVE IInv
  OBVIOUS
<1>1. TypeOK
  BY InitType
<1>2. SentTokens = {} /\ HeldTokens = {}
  BY DEF Init, SentTokens, HeldTokens, Holds
<1> QED
  BY <1>1, <1>2 DEF Init, IInv, TokensOld, AtMostOncePerArming, GuardBeforeAction, Holds

LEMMA InvNext == IInv /\ [Next]_vars => IInv'
<1> SUFFICES ASSUME IInv, [Next]_vars PROVE IInv'
  OBVIOUS
<1>1. TypeOK'
  BY NextType DEF IInv
<1>2. CASE UNCHANGED vars
  BY <1>1, <1>2, QuietStep DEF vars, db, passes, Holds
<1>3. CASE \E p \in Polls : FetchStatus(p) \/ PollStep(p)
  BY <1>1, <1>3, PollStepSafe
<1>4. CASE Next /\ ~\E p \in Polls : FetchStatus(p) \/ PollStep(p)
  BY <1>1, <1>4, OtherStepSafe
<1> QED
  BY <1>2, <1>3, <1>4

THEOREM InvAlways == Spec => []IInv
<1> QED
  BY InvInit, InvNext, PTL DEF Spec

(* However polls overlap, users edit and the process restarts, an action   *)
(* is sent at most once for each arming of its rule.                       *)
THEOREM OneShot == Spec => []AtMostOncePerArming
<1>1. IInv => AtMostOncePerArming
  BY DEF IInv
<1> QED
  BY <1>1, InvAlways, PTL

(* The persisted guard is never behind what has been sent.                 *)
THEOREM GuardPersisted == Spec => []GuardBeforeAction
<1>1. IInv => GuardBeforeAction
  BY DEF IInv
<1> QED
  BY <1>1, InvAlways, PTL

-----------------------------------------------------------------------------
(* Refinement: ShutdownRules implements OneShotGuard.                      *)

LEMMA LoseRefines ==
  ASSUME gen' = gen, sent' = sent, rows' \ fired' = rows \ fired,
         \A q \in Polls : Holds(q)' => Holds(q) /\ job'[q] = job[q]
  PROVE  [Guard!Next]_(Guard!vars)
<1>1. SentTokens' = SentTokens
  BY DEF SentTokens
<1>2. HeldTokens' \subseteq HeldTokens
  BY DEF HeldTokens
<1> DEFINE T == HeldTokens \ HeldTokens'
<1>3. Guard!Lose(T)
  BY <1>1, <1>2 DEF Guard!Lose
<1>4. T \in SUBSET HeldTokens
  OBVIOUS
<1> QED
  BY <1>3, <1>4 DEF Guard!Next

LEMMA RetireRefines ==
  ASSUME IInv, gen' = gen, sent' = sent, UNCHANGED passes,
         rows' \ fired' \subseteq rows \ fired
  PROVE  [Guard!Next]_(Guard!vars)
<1>1. SentTokens' = SentTokens
  BY DEF SentTokens
<1>2. HeldTokens' = HeldTokens
  BY DEF HeldTokens, Holds, passes
<1> DEFINE S == (rows \ fired) \ (rows' \ fired')
<1>3. Guard!Retire(S)
  BY <1>1, <1>2 DEF Guard!Retire
<1>4. S \in SUBSET Rules
  BY DEF IInv, TypeOK
<1> QED
  BY <1>3, <1>4 DEF Guard!Next

LEMMA ArmRefines ==
  ASSUME NEW S \in SUBSET Rules,
         gen' = [r \in Rules |-> IF r \in S THEN gen[r] + 1 ELSE gen[r]],
         sent' = sent, rows' \ fired' = (rows \ fired) \cup S,
         \A q \in Polls : (Holds(q)' <=> Holds(q)) /\ job'[q] = job[q]
  PROVE  [Guard!Next]_(Guard!vars)
<1>1. SentTokens' = SentTokens
  BY DEF SentTokens
<1>2. HeldTokens' = HeldTokens
  BY DEF HeldTokens
<1>3. Guard!Arm(S)
  BY <1>1, <1>2 DEF Guard!Arm
<1> QED
  BY <1>3 DEF Guard!Next

LEMMA FireRefines ==
  ASSUME IInv, NEW p \in Polls, NEW td, NEW rk, NEW rd,
         FireNext(p, td, rk, rd), PassOnly
  PROVE  [Guard!Next]_(Guard!vars)
<1>1. PICK r \in Due(td, rd) :
        /\ fired' = fired \cup {r}
        /\ phase' = [phase EXCEPT ![p] = "stamped"]
        /\ job' = [job EXCEPT ![p] = <<r, gen[r]>>]
  BY DEF FireNext
<1>2. r \in rows \ fired /\ r \in Rules
  BY DEF Due, IInv, TypeOK
<1>3. SentTokens' = SentTokens /\ gen' = gen /\ rows' = rows
  BY DEF SentTokens, PassOnly
<1>4. \A q \in Polls \ {p} : (Holds(q)' <=> Holds(q)) /\ job'[q] = job[q]
  BY <1>1 DEF Holds, IInv, TypeOK
<1>5. job'[p] = <<r, gen[r]>> /\ Holds(p)'
  BY <1>1 DEF Holds, IInv, TypeOK
<1>6. HeldTokens' \subseteq HeldTokens \cup {<<r, gen[r]>>} /\ <<r, gen[r]>> \in HeldTokens'
  BY <1>4, <1>5 DEF HeldTokens
<1> DEFINE T == HeldTokens \ HeldTokens'
<1>7. HeldTokens' = (HeldTokens \ T) \cup {<<r, gen[r]>>}
  BY <1>6
<1>8. rows' \ fired' = (rows \ fired) \ {r}
  BY <1>1, <1>3
<1>9. Guard!Grant(r, T)
  BY <1>2, <1>3, <1>7, <1>8 DEF Guard!Grant
<1>10. T \in SUBSET HeldTokens
  OBVIOUS
<1> QED
  BY <1>2, <1>9, <1>10 DEF Guard!Next

LEMMA LoopRefines ==
  ASSUME IInv, NEW p \in Polls, NEW td, NEW rk, NEW rd,
         Loop(p, td, rk, rd), PassOnly
  PROVE  [Guard!Next]_(Guard!vars)
<1>1. CASE FireNext(p, td, rk, rd)
  BY <1>1, FireRefines
<1>2. CASE LoopEnds(p, td, rk, rd)
  <2>1. \A q \in Polls : Holds(q)' => Holds(q) /\ job'[q] = job[q]
    BY <1>2 DEF LoopEnds, EndPass, Holds, IInv, TypeOK
  <2> QED
    BY <1>2, <2>1, LoseRefines DEF LoopEnds, PassOnly
<1> QED
  BY <1>1, <1>2 DEF Loop

LEMMA SendRefines ==
  ASSUME IInv, NEW p \in Polls, ActionReaches(p)
  PROVE  [Guard!Next]_(Guard!vars)
<1>1. Holds(p) /\ job[p] \in Token
  BY DEF ActionReaches, Holds, IInv, TypeOK
<1>2. <<job[p][1], job[p][2]>> = job[p]
  BY <1>1 DEF Token
<1>3. SentTokens' = SentTokens \cup {job[p]}
  <2> DEFINE new == [rule |-> job[p][1], gen |-> job[p][2], outage |-> outage]
  <2>1. sent' = sent \cup {new}
    BY DEF ActionReaches
  <2>2. <<new.rule, new.gen>> = job[p]
    BY <1>2
  <2> HIDE DEF new
  <2> QED
    BY <2>1, <2>2 DEF SentTokens
<1>4. job' = job /\ rows' = rows /\ fired' = fired /\ gen' = gen
  BY DEF ActionReaches, db
<1>5. \A q \in Polls : Holds(q)' <=> Holds(q) /\ q # p
  BY DEF ActionReaches, Holds, IInv, TypeOK
<1>6. \A q \in Polls \ {p} : Holds(q) => job[q] # job[p]
  BY <1>1 DEF IInv, AtMostOncePerArming
<1>7. HeldTokens' = HeldTokens \ {job[p]}
  BY <1>4, <1>5, <1>6 DEF HeldTokens
<1>8. job[p] \in HeldTokens \ SentTokens
  BY <1>1 DEF HeldTokens, IInv, AtMostOncePerArming
<1>9. Guard!Send(job[p])
  BY <1>3, <1>4, <1>7, <1>8 DEF Guard!Send
<1> QED
  BY <1>8, <1>9 DEF Guard!Next

LEMMA PollStepRefines ==
  ASSUME IInv, NEW p \in Polls, FetchStatus(p) \/ PollStep(p)
  PROVE  [Guard!Next]_(Guard!vars)
<1>1. CASE FetchStatus(p) \/ ActionFails(p) \/ StartAction(p)
  <2>1. \A q \in Polls : Holds(q)' => Holds(q) /\ job'[q] = job[q]
    BY <1>1 DEF FetchStatus, ActionFails, StartAction, Holds, IInv, TypeOK
  <2> QED
    BY <1>1, <2>1, LoseRefines DEF FetchStatus, ActionFails, StartAction, PassOnly
<1>2. CASE RearmRules(p)
  <2> DEFINE S == EnabledRules \cap fired
  <2>1. \A q \in Polls : (Holds(q)' <=> Holds(q)) /\ job'[q] = job[q]
    BY <1>2 DEF RearmRules, Holds, IInv, TypeOK
  <2>2. S \in SUBSET Rules /\ S \subseteq rows
    BY DEF EnabledRules, IInv, TypeOK
  <2>3. /\ gen' = [r \in Rules |-> IF r \in S THEN gen[r] + 1 ELSE gen[r]]
        /\ sent' = sent
        /\ fired' = fired \ S
        /\ rows' = rows
    BY <1>2 DEF RearmRules
  <2>4. rows' \ fired' = (rows \ fired) \cup S
    BY <2>2, <2>3
  <2> HIDE DEF S
  <2> QED
    BY <2>1, <2>2, <2>3, <2>4, ArmRefines
<1>3. CASE StayArmed(p) \/ RuleGone(p) \/ RearmNotified(p)
  <2>1. \A q \in Polls : Holds(q)' => Holds(q) /\ job'[q] = job[q]
    BY <1>3 DEF StayArmed, RuleGone, RearmNotified, EndPass, Holds, IInv, TypeOK
  <2> QED
    BY <1>3, <2>1, LoseRefines DEF StayArmed, RuleGone, RearmNotified, PassOnly
<1>4. CASE StartPass(p) \/ Wake(p)
  BY <1>4, LoopRefines DEF StartPass, Wake
<1>5. CASE TargetMissing(p) \/ AfterAction(p)
  <2>1. CASE Loop(p, todo[p], rank[p], reading[p])
    BY <1>5, <2>1, LoopRefines DEF TargetMissing, AfterAction
  <2>2. CASE UNCHANGED <<fired, reading, todo, rank, job>>
             /\ phase' = [phase EXCEPT ![p] = "waiting"]
    <3>1. \A q \in Polls : Holds(q)' => Holds(q) /\ job'[q] = job[q]
      BY <2>2 DEF Holds, IInv, TypeOK
    <3> QED
      BY <1>5, <2>2, <3>1, LoseRefines DEF TargetMissing, AfterAction, PassOnly
  <2> QED
    BY <1>5, <2>1, <2>2 DEF TargetMissing, AfterAction, PauseOrLoop
<1>6. CASE ActionReaches(p)
  BY <1>6, SendRefines
<1> QED
  BY <1>1, <1>2, <1>3, <1>4, <1>5, <1>6 DEF PollStep

LEMMA StepRefines == IInv /\ [Next]_vars => [Guard!Next]_(Guard!vars)
<1> SUFFICES ASSUME IInv, [Next]_vars PROVE [Guard!Next]_(Guard!vars)
  OBVIOUS
<1>1. CASE UNCHANGED vars
  BY <1>1, RetireRefines DEF vars, db
<1>2. CASE \E p \in Polls : FetchStatus(p) \/ PollStep(p)
  BY <1>2, PollStepRefines
<1>3. ASSUME NEW h \in Handlers, NEW r \in Rules, InsertRule(h, r)
      PROVE  [Guard!Next]_(Guard!vars)
  <2>1. gen' = [q \in Rules |-> IF q \in {r} THEN gen[q] + 1 ELSE gen[q]]
    BY <1>3 DEF InsertRule, IInv, TypeOK
  <2>2. \A q \in Polls : (Holds(q)' <=> Holds(q)) /\ job'[q] = job[q]
    BY <1>3 DEF InsertRule, EditOnly, passes, Holds
  <2>3. r \notin rows
    BY <1>3, ConstantsOK DEF InsertRule, IsNextId
  <2>4. sent' = sent /\ rows' \ fired' = (rows \ fired) \cup {r}
    BY <1>3, <2>3 DEF InsertRule, EditOnly, IInv, TypeOK
  <2> QED
    BY <2>1, <2>2, <2>4, ArmRefines
<1>4. ASSUME NEW r \in Rules, NEW c \in Configs, UpdateRule(r, c)
      PROVE  [Guard!Next]_(Guard!vars)
  <2>1. gen' = [q \in Rules |-> IF q \in {r} THEN gen[q] + 1 ELSE gen[q]]
    BY <1>4 DEF UpdateRule, IInv, TypeOK
  <2>2. \A q \in Polls : (Holds(q)' <=> Holds(q)) /\ job'[q] = job[q]
    BY <1>4 DEF UpdateRule, EditOnly, passes, Holds
  <2>3. sent' = sent /\ rows' \ fired' = (rows \ fired) \cup {r}
    BY <1>4 DEF UpdateRule, EditOnly
  <2> QED
    BY <2>1, <2>2, <2>3, ArmRefines
<1>5. ASSUME NEW r \in Rules, DeleteRule(r)
      PROVE  [Guard!Next]_(Guard!vars)
  BY <1>5, RetireRefines DEF DeleteRule, EditOnly
<1>6. ASSUME NEW t \in Targets, DeleteDevice(t)
      PROVE  [Guard!Next]_(Guard!vars)
  BY <1>6, RetireRefines DEF DeleteDevice, EditOnly
<1>7. ASSUME NEW h \in Handlers, NEW c \in Configs, CheckCreate(h, c)
      PROVE  [Guard!Next]_(Guard!vars)
  BY <1>7, RetireRefines DEF CheckCreate, EditOnly, db
<1>8. CASE LoseMains \/ Drain \/ RestoreMains \/ \E r \in Rules : DelayElapses(r)
  BY <1>8, RetireRefines DEF LoseMains, Drain, RestoreMains, DelayElapses, UpsOnly, db
<1>9. CASE Restart
  <2>1. \A q \in Polls : ~Holds(q)'
    BY <1>9 DEF Restart, Holds
  <2> QED
    BY <1>9, <2>1, LoseRefines DEF Restart, db
<1> QED
  BY <1>1, <1>2, <1>3, <1>4, <1>5, <1>6, <1>7, <1>8, <1>9 DEF Next

(* The persisted guard implements the one-shot promise.                    *)
THEOREM Refinement == Spec => GuardIsOneShot
<1>1. Init => Guard!Init
  BY DEF Init, Guard!Init, SentTokens, HeldTokens, Holds
<1>2. IInv /\ [Next]_vars => [Guard!Next]_(Guard!vars)
  BY StepRefines
<1> QED
  BY <1>1, <1>2, InvAlways, PTL DEF Spec, Guard!Spec, GuardIsOneShot


-----------------------------------------------------------------------------
(* The scheduler alone: no refreshes beside it, no edits, no restarts.     *)

Alone == Refreshers = {} /\ MaxDisturbances = 0

(* From the reserved slot of a rule to the end of its pause.               *)
OnTheWay == phase[Scheduler] \in {"stamped", "acting", "acted", "waiting"}
Rule == job[Scheduler][1]

Acted(r) == \E s \in sent : s.rule = r /\ s.outage = outage

(* What makes OncePerOutage inductive: a rule that has acted in this       *)
(* outage is armed only once the mains are back, and by then no reading    *)
(* from this outage is in use; a reading from before it comes too early    *)
(* for any rule to have acted.                                             *)
OutagesApart ==
  /\ \A s \in sent : s.outage <= outage
  /\ OncePerOutage
  /\ \A r \in Rules \ fired : Acted(r) => ~onBattery /\ ~reading[Scheduler].onBattery
  /\ OnTheWay => Rule \in fired /\ reading[Scheduler].onBattery
  /\ phase[Scheduler] \in {"stamped", "acting"} => ~Acted(Rule)
  /\ phase[Scheduler] = "fetched" /\ ~reading[Scheduler].onBattery /\ onBattery
       => \A r \in Rules : ~Acted(r)

(* Only the rule the pass has just handled can be settling.                *)
OthersSettled ==
  \A r \in settling : /\ phase[Scheduler] \in {"acted", "waiting"}
                      /\ r = Rule /\ r \in rows /\ cfg[r].delay

(* What is due and armed is still on the list, behind the present rule.    *)
InOrder ==
  OnTheWay =>
    /\ rank[Scheduler] = [r \in Rules |-> cfg[r].priority]
    /\ \A r \in EnabledRules \ fired :
         ThresholdMet(cfg[r], reading[Scheduler]) => r \in todo[Scheduler]
    /\ \A r \in todo[Scheduler] : Precedes(rank[Scheduler], Rule, r)

NobodyEdits == \A h \in Handlers : creating[h] = None

(* What can happen then.                                                   *)
LEMMA AloneSteps ==
  ASSUME Alone, TypeOK, NobodyEdits, [Next]_vars
  PROVE  /\ UNCHANGED <<rows, cfg, targets, creating>>
         /\ \/ FetchStatus(Scheduler) \/ PollStep(Scheduler)
            \/ LoseMains \/ Drain \/ RestoreMains
            \/ \E r \in Rules : DelayElapses(r)
            \/ UNCHANGED vars
<1>1. Polls = {Scheduler}
  BY DEF Alone, Polls
<1>2. ~Disturb
  BY DEF Disturb, Alone, TypeOK
<1>3. CASE \E p \in Polls : FetchStatus(p) \/ PollStep(p)
  <2>1. FetchStatus(Scheduler) \/ PollStep(Scheduler)
    BY <1>1, <1>3
  <2>2. UNCHANGED <<rows, cfg, targets, creating>>
    <3>1. CASE FetchStatus(Scheduler) \/ StayArmed(Scheduler) \/ StartPass(Scheduler)
               \/ StartAction(Scheduler) \/ TargetMissing(Scheduler) \/ RuleGone(Scheduler)
      BY <3>1 DEF FetchStatus, StayArmed, StartPass, StartAction, TargetMissing, RuleGone, PassOnly
    <3>2. CASE ActionFails(Scheduler) \/ AfterAction(Scheduler) \/ Wake(Scheduler)
               \/ RearmNotified(Scheduler)
      BY <3>2 DEF ActionFails, AfterAction, Wake, RearmNotified, PassOnly
    <3>3. CASE RearmRules(Scheduler) \/ ActionReaches(Scheduler)
      BY <3>3 DEF RearmRules, ActionReaches, db
    <3> QED
      BY <2>1, <3>1, <3>2, <3>3 DEF PollStep
  <2> QED
    BY <2>1, <2>2
<1>4. CASE \E r \in Rules : DelayElapses(r)
  BY <1>4 DEF DelayElapses, db
<1>5. CASE LoseMains \/ Drain \/ RestoreMains
  BY <1>5 DEF LoseMains, Drain, RestoreMains, UpsOnly, db
<1>6. CASE UNCHANGED vars
  BY <1>6 DEF vars, db
<1>7. ~\E h \in Handlers, r \in Rules : InsertRule(h, r)
  BY DEF InsertRule, NobodyEdits
<1>8. ~\E h \in Handlers, c \in Configs : CheckCreate(h, c)
  BY <1>2 DEF CheckCreate
<1>9. ~(\E r \in Rules : DeleteRule(r)) /\ ~(\E r \in Rules, c \in Configs : UpdateRule(r, c))
  BY <1>2 DEF DeleteRule, UpdateRule
<1>10. ~(\E t \in Targets : DeleteDevice(t)) /\ ~Restart
  BY <1>2 DEF DeleteDevice, Restart
<1> QED
  BY <1>3, <1>4, <1>5, <1>6, <1>7, <1>8, <1>9, <1>10 DEF Next

(* The steps of the pass come in five sorts: it takes a reading, re-arms,  *)
(* goes on to a rule, sends, or moves on without touching rule or guard.   *)
LEMMA PassSteps ==
  ASSUME TypeOK, FetchStatus(Scheduler) \/ PollStep(Scheduler)
  PROVE  \/ FetchStatus(Scheduler)
         \/ RearmRules(Scheduler)
         \/ StartPass(Scheduler)
         \/ ActionReaches(Scheduler)
         \/ /\ EndPass(Scheduler) /\ phase[Scheduler] \in {"fetched", "stamped", "acted", "notify"}
            /\ phase[Scheduler] \in {"stamped", "acted"} => Rule \notin rows
            /\ UNCHANGED fired /\ PassOnly
         \/ /\ OnTheWay /\ phase[Scheduler] \in {"stamped", "acted", "waiting"}
            /\ phase[Scheduler] = "waiting" => Rule \notin settling
            /\ phase[Scheduler] # "waiting" => ~cfg[Rule].delay
            /\ Loop(Scheduler, todo[Scheduler], rank[Scheduler], reading[Scheduler])
            /\ PassOnly
         \/ /\ OnTheWay
            /\ \/ phase[Scheduler] = "stamped" /\ phase'[Scheduler] = "acting"
               \/ phase[Scheduler] = "acting" /\ phase'[Scheduler] = "acted"
               \/ phase'[Scheduler] = "waiting"
            /\ UNCHANGED <<fired, reading, todo, rank, job>> /\ PassOnly
<1> DEFINE p == Scheduler
<1>1. p \in Polls
  BY DEF Polls
<1>2. CASE FetchStatus(p) \/ RearmRules(p) \/ StartPass(p) \/ ActionReaches(p)
  BY <1>2
<1>3. CASE StayArmed(p) \/ RuleGone(p) \/ RearmNotified(p)
  BY <1>3 DEF StayArmed, RuleGone, RearmNotified, Rule
<1>4. CASE StartAction(p) \/ ActionFails(p)
  BY <1>1, <1>4 DEF StartAction, ActionFails, OnTheWay, TypeOK
<1>5. CASE TargetMissing(p) \/ AfterAction(p)
  <2>1. PauseOrLoop(p) /\ phase[p] \in {"stamped", "acted"} /\ PassOnly
    BY <1>5 DEF TargetMissing, AfterAction
  <2>2. phase' = [phase EXCEPT ![p] = "waiting"] => phase'[p] = "waiting"
    BY <1>1 DEF TypeOK
  <2> QED
    BY <2>1, <2>2 DEF PauseOrLoop, OnTheWay, Rule
<1>6. CASE Wake(p)
  BY <1>6 DEF Wake, OnTheWay, Rule
<1> QED
  BY <1>2, <1>3, <1>4, <1>5, <1>6 DEF PollStep

(* The pass goes on to a rule.                                             *)
LEMMA FireFacts ==
  ASSUME TypeOK, NEW td, NEW rk, NEW rd, FireNext(Scheduler, td, rk, rd)
  PROVE  /\ OnTheWay' /\ phase'[Scheduler] = "stamped"
         /\ Rule' \in Due(td, rd) /\ fired' = fired \cup {Rule'}
         /\ reading' = reading /\ rank'[Scheduler] = rk
         /\ todo'[Scheduler] = {s \in td : Precedes(rk, Rule', s)}
         /\ CommitsMayFail \/ \A s \in Due(td, rd) : ~Precedes(rk, s, Rule')
<1>1. Scheduler \in Polls
  BY DEF Polls
<1>2. PICK r \in Due(td, rd) :
        /\ CommitsMayFail \/ \A s \in Due(td, rd) : ~Precedes(rk, s, r)
        /\ fired' = fired \cup {r}
        /\ phase' = [phase EXCEPT ![Scheduler] = "stamped"]
        /\ todo' = [todo EXCEPT ![Scheduler] = {s \in td : Precedes(rk, r, s)}]
        /\ rank' = [rank EXCEPT ![Scheduler] = rk]
        /\ job' = [job EXCEPT ![Scheduler] = <<r, gen[r]>>]
        /\ UNCHANGED reading
  BY DEF FireNext
<1>3. Rule' = r
  BY <1>1, <1>2 DEF Rule, TypeOK
<1> QED
  BY <1>1, <1>2, <1>3 DEF OnTheWay, TypeOK

LEMMA EndFacts ==
  ASSUME TypeOK, EndPass(Scheduler)
  PROVE  ~OnTheWay' /\ phase'[Scheduler] = "idle" /\ ~reading'[Scheduler].onBattery
<1>1. Scheduler \in Polls
  BY DEF Polls
<1> QED
  BY <1>1 DEF EndPass, OnTheWay, TypeOK, NoReading

-----------------------------------------------------------------------------
(* No rule acts twice in one outage.                                       *)

LEMMA LoopApart ==
  ASSUME TypeOK, OutagesApart, NEW td, NEW rk,
         reading[Scheduler].onBattery,
         Loop(Scheduler, td, rk, reading[Scheduler]), PassOnly
  PROVE  OutagesApart'
<1>1. UNCHANGED <<sent, outage, onBattery>> /\ \A r : Acted(r)' <=> Acted(r)
  BY DEF PassOnly, ups, Acted
<1>2. CASE FireNext(Scheduler, td, rk, reading[Scheduler])
  <2>1. /\ OnTheWay' /\ phase'[Scheduler] = "stamped"
        /\ Rule' \in Due(td, reading[Scheduler]) /\ fired' = fired \cup {Rule'}
        /\ reading' = reading
    BY <1>2, FireFacts
  <2>2. Rule' \in Rules /\ Rule' \notin fired
    BY <2>1 DEF Due, TypeOK
  <2>3. PICK r : r = Rule'
    OBVIOUS
  <2>4. ~Acted(r)'
    BY <1>1, <2>2, <2>3 DEF OutagesApart
  <2>5. (~Acted(Rule))'
    BY <2>3, <2>4 DEF Acted
  <2> QED
    BY <1>1, <2>1, <2>2, <2>5 DEF OutagesApart, OncePerOutage
<1>3. CASE LoopEnds(Scheduler, td, rk, reading[Scheduler])
  <2>1. /\ ~OnTheWay' /\ phase'[Scheduler] = "idle" /\ ~reading'[Scheduler].onBattery
        /\ fired' = fired
    BY <1>3, EndFacts DEF LoopEnds
  <2> QED
    BY <1>1, <2>1 DEF OutagesApart, OncePerOutage
<1> QED
  BY <1>2, <1>3 DEF Loop

LEMMA ApartInit == Init => OutagesApart
<1> SUFFICES ASSUME Init PROVE OutagesApart
  OBVIOUS
<1>1. Scheduler \in Polls
  BY DEF Polls
<1>2. sent = {} /\ phase[Scheduler] = "idle"
  BY <1>1 DEF Init
<1> QED
  BY <1>2 DEF OutagesApart, OncePerOutage, Acted, OnTheWay

(* A step of the pass.                                                     *)
LEMMA PassApart ==
  ASSUME TypeOK, OutagesApart, FetchStatus(Scheduler) \/ PollStep(Scheduler)
  PROVE  OutagesApart'
<1>1. Scheduler \in Polls
  BY DEF Polls
<1>2. CASE FetchStatus(Scheduler)
  <2>1. /\ UNCHANGED <<sent, outage, onBattery, fired>>
        /\ phase'[Scheduler] = "fetched" /\ reading'[Scheduler].onBattery = onBattery
    BY <1>1, <1>2 DEF FetchStatus, PassOnly, ups, TypeOK
  <2> QED
    BY <2>1 DEF OutagesApart, OncePerOutage, Acted, OnTheWay
<1>3. CASE RearmRules(Scheduler)
  <2>1. /\ UNCHANGED <<sent, outage, onBattery, reading>>
        /\ phase'[Scheduler] = "notify" /\ phase[Scheduler] = "fetched"
        /\ ~reading[Scheduler].onBattery
    BY <1>1, <1>3 DEF RearmRules, ups, TypeOK
  <2> QED
    BY <2>1 DEF OutagesApart, OncePerOutage, Acted, OnTheWay
<1>4. CASE StartPass(Scheduler)
  BY <1>4, LoopApart DEF StartPass
<1>5. CASE ActionReaches(Scheduler)
  <2>1. phase[Scheduler] = "acting" /\ job[Scheduler] \in Token
    BY <1>1, <1>5 DEF ActionReaches, TypeOK
  <2> DEFINE new == [rule |-> Rule, gen |-> job[Scheduler][2], outage |-> outage]
  <2>2. /\ sent' = sent \cup {new}
        /\ UNCHANGED <<fired, outage, onBattery, reading, job>>
        /\ phase'[Scheduler] = "acted"
    BY <1>1, <1>5 DEF ActionReaches, Rule, ups, db, TypeOK
  <2>3. new.rule = Rule /\ new.outage = outage /\ Rule' = Rule
    BY <2>2 DEF Rule
  <2> HIDE DEF new
  <2>4. Rule \in fired /\ reading[Scheduler].onBattery /\ ~Acted(Rule)
    BY <2>1 DEF OutagesApart, OnTheWay
  <2>5. OncePerOutage'
    BY <2>2, <2>3, <2>4 DEF OutagesApart, OncePerOutage, Acted
  <2>6. \A s \in sent' : s.outage <= outage'
    BY <2>2, <2>3 DEF OutagesApart, TypeOK
  <2>7. \A r \in Rules \ fired' : Acted(r)' => Acted(r)
    BY <2>2, <2>3, <2>4 DEF Acted
  <2> QED
    BY <2>2, <2>3, <2>4, <2>5, <2>6, <2>7 DEF OutagesApart, OnTheWay
<1>6. CASE EndPass(Scheduler) /\ UNCHANGED fired /\ PassOnly
  <2>1. /\ ~OnTheWay' /\ phase'[Scheduler] = "idle" /\ ~reading'[Scheduler].onBattery
        /\ UNCHANGED <<sent, outage, onBattery, fired>>
    BY <1>6, EndFacts DEF PassOnly, ups
  <2> QED
    BY <2>1 DEF OutagesApart, OncePerOutage, Acted
<1>7. CASE OnTheWay /\ PassOnly
           /\ Loop(Scheduler, todo[Scheduler], rank[Scheduler], reading[Scheduler])
  BY <1>7, LoopApart DEF OutagesApart
<1>8. CASE /\ OnTheWay /\ PassOnly
           /\ \/ phase[Scheduler] = "stamped" /\ phase'[Scheduler] = "acting"
              \/ phase[Scheduler] = "acting" /\ phase'[Scheduler] = "acted"
              \/ phase'[Scheduler] = "waiting"
           /\ UNCHANGED <<fired, reading, todo, rank, job>>
  <2>1. UNCHANGED <<sent, outage, onBattery, fired, reading, job>>
    BY <1>8 DEF PassOnly, ups
  <2> QED
    BY <1>8, <2>1 DEF OutagesApart, OncePerOutage, Acted, OnTheWay, Rule
<1> QED
  BY <1>2, <1>3, <1>4, <1>5, <1>6, <1>7, <1>8, PassSteps

LEMMA ApartNext ==
  ASSUME Alone, TypeOK, NobodyEdits, OutagesApart, [Next]_vars
  PROVE  OutagesApart'
<1>1. CASE FetchStatus(Scheduler) \/ PollStep(Scheduler)
  BY <1>1, PassApart
<1>2. CASE LoseMains
  <2>1. /\ UNCHANGED <<sent, fired, phase, reading, job>>
        /\ outage' = outage + 1
    BY <1>2 DEF LoseMains, UpsOnly, db, passes
  <2>2. \A r : ~Acted(r)'
    BY <2>1 DEF OutagesApart, Acted, TypeOK
  <2>3. \A s \in sent : s.outage <= outage + 1
    BY DEF OutagesApart, TypeOK
  <2> QED
    BY <2>1, <2>2, <2>3 DEF OutagesApart, OncePerOutage, OnTheWay, Rule
<1>3. CASE Drain \/ RestoreMains
  <2>1. /\ UNCHANGED <<sent, fired, phase, reading, job, outage>>
        /\ onBattery' => onBattery
    BY <1>3 DEF Drain, RestoreMains, UpsOnly, db, passes
  <2> QED
    BY <2>1 DEF OutagesApart, OncePerOutage, Acted, OnTheWay, Rule
<1>4. CASE \E r \in Rules : DelayElapses(r)
  <2>1. UNCHANGED <<sent, fired, phase, reading, job, outage, onBattery>>
    BY <1>4 DEF DelayElapses, db, passes, ups
  <2> QED
    BY <2>1 DEF OutagesApart, OncePerOutage, Acted, OnTheWay, Rule
<1>5. CASE UNCHANGED vars
  <2>1. UNCHANGED <<sent, fired, phase, reading, job, outage, onBattery>>
    BY <1>5 DEF vars, db, passes, ups
  <2> QED
    BY <2>1 DEF OutagesApart, OncePerOutage, Acted, OnTheWay, Rule
<1> QED
  BY <1>1, <1>2, <1>3, <1>4, <1>5, AloneSteps

LEMMA EditsInit == Init => NobodyEdits
BY DEF Init, NobodyEdits

LEMMA EditsNext ==
  ASSUME Alone, TypeOK, NobodyEdits, [Next]_vars
  PROVE  NobodyEdits'
BY AloneSteps DEF NobodyEdits

(* With the scheduler alone, no rule acts twice in one outage: re-arming   *)
(* waits for a reading that shows the mains back, and a reading that is    *)
(* out of date by then finds every rule of the new outage still unused.    *)
THEOREM OnceAnOutage ==
  ASSUME Alone
  PROVE  Spec => []OncePerOutage
<1> DEFINE I == TypeOK /\ NobodyEdits /\ OutagesApart
<1>1. Init => I
  BY InitType, EditsInit, ApartInit
<1>2. I /\ [Next]_vars => I'
  BY NextType, EditsNext, ApartNext
<1>3. I => OncePerOutage
  BY DEF OutagesApart
<1> QED
  BY <1>1, <1>2, <1>3, PTL DEF Spec

-----------------------------------------------------------------------------
(* No action goes out before the delay of the one before it is over.       *)

LEMMA SettledInit == Init => OthersSettled
BY DEF Init, OthersSettled

LEMMA PassSettles ==
  ASSUME TypeOK, OthersSettled, UNCHANGED <<rows, cfg>>,
         FetchStatus(Scheduler) \/ PollStep(Scheduler)
  PROVE  OthersSettled'
<1>1. Scheduler \in Polls
  BY DEF Polls
<1>2. CASE FetchStatus(Scheduler) \/ RearmRules(Scheduler) \/ StartPass(Scheduler)
  <2>1. phase[Scheduler] \in {"idle", "fetched"} /\ settling' = settling
    BY <1>2 DEF FetchStatus, RearmRules, StartPass, PassOnly
  <2> QED
    BY <2>1 DEF OthersSettled
<1>3. CASE ActionReaches(Scheduler)
  <2>1. /\ phase[Scheduler] = "acting" /\ phase'[Scheduler] = "acted" /\ job' = job
        /\ settling' = IF Rule \in rows /\ cfg[Rule].delay
                         THEN settling \cup {Rule} ELSE settling
    BY <1>1, <1>3 DEF ActionReaches, Rule, TypeOK
  <2> QED
    BY <2>1 DEF OthersSettled, Rule
<1>4. CASE EndPass(Scheduler) /\ PassOnly
           /\ phase[Scheduler] \in {"fetched", "stamped", "acted", "notify"}
           /\ (phase[Scheduler] \in {"stamped", "acted"} => Rule \notin rows)
  BY <1>4 DEF OthersSettled, PassOnly
<1>5. CASE /\ phase[Scheduler] \in {"stamped", "acted", "waiting"}
           /\ phase[Scheduler] = "waiting" => Rule \notin settling
           /\ phase[Scheduler] # "waiting" => ~cfg[Rule].delay
           /\ PassOnly
  BY <1>5 DEF OthersSettled, PassOnly
<1>6. CASE /\ PassOnly
           /\ \/ phase[Scheduler] = "stamped" /\ phase'[Scheduler] = "acting"
              \/ phase[Scheduler] = "acting" /\ phase'[Scheduler] = "acted"
              \/ phase'[Scheduler] = "waiting"
           /\ UNCHANGED <<fired, reading, todo, rank, job>>
  BY <1>6 DEF OthersSettled, PassOnly, Rule
<1> QED
  BY <1>2, <1>3, <1>4, <1>5, <1>6, PassSteps

LEMMA SettledNext ==
  ASSUME Alone, TypeOK, NobodyEdits, OthersSettled, [Next]_vars
  PROVE  OthersSettled'
<1>1. UNCHANGED <<rows, cfg>>
  BY AloneSteps
<1>2. CASE FetchStatus(Scheduler) \/ PollStep(Scheduler)
  BY <1>1, <1>2, PassSettles
<1>3. CASE LoseMains \/ Drain \/ RestoreMains
  <2>1. UNCHANGED <<settling, phase, job>>
    BY <1>3 DEF LoseMains, Drain, RestoreMains, UpsOnly, passes
  <2> QED
    BY <1>1, <2>1 DEF OthersSettled, Rule
<1>4. CASE \E r \in Rules : DelayElapses(r)
  <2>1. settling' \subseteq settling /\ UNCHANGED <<phase, job>>
    BY <1>4 DEF DelayElapses, passes
  <2> QED
    BY <1>1, <2>1 DEF OthersSettled, Rule
<1>5. CASE UNCHANGED vars
  <2>1. UNCHANGED <<settling, phase, job>>
    BY <1>5 DEF vars, passes
  <2> QED
    BY <1>1, <2>1 DEF OthersSettled, Rule
<1> QED
  BY <1>2, <1>3, <1>4, <1>5, AloneSteps

(* Only ActionReaches sends.                                               *)
LEMMA OnlySending ==
  ASSUME Alone, TypeOK, NobodyEdits, [Next]_vars, sent' # sent
  PROVE  ActionReaches(Scheduler)
<1>1. CASE LoseMains \/ Drain \/ RestoreMains \/ UNCHANGED vars
           \/ \E r \in Rules : DelayElapses(r)
  BY <1>1 DEF LoseMains, Drain, RestoreMains, UpsOnly, vars, DelayElapses
<1>2. CASE FetchStatus(Scheduler) \/ PollStep(Scheduler)
  BY <1>2, PassSteps DEF PassOnly, FetchStatus, RearmRules, StartPass
<1> QED
  BY <1>1, <1>2, AloneSteps

(* With the scheduler alone, the action of a rule goes out only when that  *)
(* of the rule before it is over and its delay has passed.                 *)
THEOREM DelaysRespected ==
  ASSUME Alone
  PROVE  Spec => DelayRespected
<1> DEFINE I == TypeOK /\ NobodyEdits /\ OthersSettled
           Wanted == \A s \in sent' \ sent :
                       /\ settling \subseteq {s.rule}
                       /\ \A p \in Polls : Holds(p) => job[p][1] = s.rule
<1>1. Init => I
  BY InitType, EditsInit, SettledInit
<1>2. I /\ [Next]_vars => I'
  BY NextType, EditsNext, SettledNext
<1>3. I /\ [Next]_vars => Wanted
  <2> SUFFICES ASSUME I, [Next]_vars, NEW s \in sent' \ sent
               PROVE  /\ settling \subseteq {s.rule}
                      /\ \A p \in Polls : Holds(p) => job[p][1] = s.rule
    OBVIOUS
  <2>1. ActionReaches(Scheduler)
    BY OnlySending
  <2>2. s = [rule |-> job[Scheduler][1], gen |-> job[Scheduler][2], outage |-> outage]
    BY <2>1 DEF ActionReaches
  <2>3. settling = {}
    BY <2>1 DEF ActionReaches, OthersSettled
  <2>4. Polls = {Scheduler}
    BY DEF Alone, Polls
  <2> QED
    BY <2>2, <2>3, <2>4
<1>4. I /\ [Next]_vars => [Wanted]_vars
  BY <1>3
<1> HIDE DEF Wanted
<1>5. Spec => [][Wanted]_vars
  BY <1>1, <1>2, <1>4, PTL DEF Spec
<1> QED
  BY <1>5 DEF DelayRespected, Wanted

-----------------------------------------------------------------------------
(* Rules act in ascending priority.                                        *)

(* ORDER BY priority, id is a strict linear order of the rules.            *)
LEMMA LinearOrder ==
  ASSUME NEW rk \in [Rules -> Nat], NEW r \in Rules, NEW s \in Rules
  PROVE  /\ ~(Precedes(rk, r, s) /\ Precedes(rk, s, r))
         /\ r # s => Precedes(rk, r, s) \/ Precedes(rk, s, r)
<1>1. r \in Nat /\ s \in Nat /\ rk[r] \in Nat /\ rk[s] \in Nat
  BY ConstantsOK
<1> QED
  BY <1>1 DEF Precedes

LEMMA OrderInit == Init => InOrder
<1>1. Scheduler \in Polls
  BY DEF Polls
<1> QED
  BY <1>1 DEF Init, InOrder, OnTheWay

(* The loop goes on to the first of the rules that are due.                *)
LEMMA LoopInOrder ==
  ASSUME TypeOK, ~CommitsMayFail, NEW td \in SUBSET Rules,
         Loop(Scheduler, td, [r \in Rules |-> cfg[r].priority], reading[Scheduler]), PassOnly,
         \A r \in EnabledRules \ fired :
           ThresholdMet(cfg[r], reading[Scheduler]) => r \in td
  PROVE  InOrder'
<1> DEFINE rk == [r \in Rules |-> cfg[r].priority]
<1>1. rk \in [Rules -> Nat]
  BY DEF TypeOK, Config
<1>2. UNCHANGED <<rows, cfg>> /\ EnabledRules' = EnabledRules
  BY DEF PassOnly, EnabledRules
<1>3. [r \in Rules |-> cfg'[r].priority] = rk
  BY <1>2
<1>4. ASSUME FireNext(Scheduler, td, rk, reading[Scheduler])
      PROVE  InOrder'
  <2> HIDE DEF rk
  <2>1. /\ Rule' \in Due(td, reading[Scheduler]) /\ fired' = fired \cup {Rule'}
        /\ reading' = reading /\ rank'[Scheduler] = rk
        /\ todo'[Scheduler] = {s \in td : Precedes(rk, Rule', s)}
        /\ \A s \in Due(td, reading[Scheduler]) : ~Precedes(rk, s, Rule')
    BY <1>4, FireFacts
  <2>2. Rule' \in Rules
    BY <2>1 DEF Due
  <2>3. ASSUME NEW r \in EnabledRules \ fired', ThresholdMet(cfg[r], reading[Scheduler])
        PROVE  r \in todo'[Scheduler]
    <3>1. r \in td /\ r \in rows \ fired /\ r # Rule' /\ r \in Rules
      BY <2>1, <2>3 DEF EnabledRules
    <3>2. ~Precedes(rk, r, Rule')
      BY <2>1, <2>3, <3>1 DEF Due
    <3> QED
      BY <1>1, <2>1, <2>2, <3>1, <3>2, LinearOrder
  <2> QED
    BY <1>2, <1>3, <2>1, <2>3 DEF InOrder
<1>5. ASSUME LoopEnds(Scheduler, td, rk, reading[Scheduler])
      PROVE  InOrder'
  BY <1>5, EndFacts DEF LoopEnds, InOrder
<1> QED
  BY <1>4, <1>5 DEF Loop

LEMMA PassInOrder ==
  ASSUME TypeOK, ~CommitsMayFail, InOrder, UNCHANGED <<rows, cfg>>,
         FetchStatus(Scheduler) \/ PollStep(Scheduler)
  PROVE  InOrder'
<1>1. Scheduler \in Polls
  BY DEF Polls
<1>2. CASE FetchStatus(Scheduler) \/ RearmRules(Scheduler)
  <2>1. ~OnTheWay'
    BY <1>1, <1>2 DEF FetchStatus, RearmRules, TypeOK, OnTheWay
  <2> QED
    BY <2>1 DEF InOrder
<1>3. CASE StartPass(Scheduler)
  <2>1. EnabledRules \in SUBSET Rules
    BY DEF EnabledRules, TypeOK
  <2> QED
    BY <1>3, <2>1, LoopInOrder DEF StartPass
<1>4. CASE ActionReaches(Scheduler)
  <2>1. OnTheWay /\ UNCHANGED <<fired, reading, todo, rank, job>>
    BY <1>4 DEF ActionReaches, db, OnTheWay
  <2> QED
    BY <2>1 DEF InOrder, Rule, EnabledRules
<1>5. CASE EndPass(Scheduler)
  BY <1>5, EndFacts DEF InOrder
<1>6. CASE OnTheWay /\ PassOnly
           /\ Loop(Scheduler, todo[Scheduler], rank[Scheduler], reading[Scheduler])
  <2>1. todo[Scheduler] \in SUBSET Rules
    BY <1>1 DEF TypeOK
  <2> QED
    BY <1>6, <2>1, LoopInOrder DEF InOrder
<1>7. CASE OnTheWay /\ PassOnly /\ UNCHANGED <<fired, reading, todo, rank, job>>
  BY <1>7 DEF InOrder, Rule, EnabledRules
<1> QED
  BY <1>2, <1>3, <1>4, <1>5, <1>6, <1>7, PassSteps

LEMMA OrderNext ==
  ASSUME Alone, ~CommitsMayFail, TypeOK, NobodyEdits, InOrder, [Next]_vars
  PROVE  InOrder'
<1>1. UNCHANGED <<rows, cfg>>
  BY AloneSteps
<1>2. CASE FetchStatus(Scheduler) \/ PollStep(Scheduler)
  BY <1>1, <1>2, PassInOrder
<1>3. CASE LoseMains \/ Drain \/ RestoreMains \/ UNCHANGED vars
           \/ \E r \in Rules : DelayElapses(r)
  <2>1. UNCHANGED <<fired, phase, reading, todo, rank, job>>
    BY <1>3 DEF LoseMains, Drain, RestoreMains, UpsOnly, vars, DelayElapses, passes, db
  <2> QED
    BY <1>1, <2>1 DEF InOrder, OnTheWay, Rule, EnabledRules
<1> QED
  BY <1>2, <1>3, AloneSteps

(* With the scheduler alone and every commit of the poller going through,  *)
(* no rule acts while an enabled one that is due and comes before it in    *)
(* ascending priority is still armed.                                      *)
THEOREM InPriorityOrder ==
  ASSUME Alone, ~CommitsMayFail
  PROVE  Spec => PriorityOrder
<1> DEFINE I == TypeOK /\ NobodyEdits /\ InOrder
           Wanted == \A p \in Polls, r \in EnabledRules \ fired :
                       /\ phase[p] = "acting" /\ sent' # sent
                       /\ ThresholdMet(cfg[r], reading[p])
                       => ~Precedes([q \in Rules |-> cfg[q].priority], r, job[p][1])
<1>1. Init => I
  BY InitType, EditsInit, OrderInit
<1>2. I /\ [Next]_vars => I'
  BY NextType, EditsNext, OrderNext
<1>3. I /\ [Next]_vars => Wanted
  <2> SUFFICES ASSUME I, NEW p \in Polls, NEW r \in EnabledRules \ fired,
                      phase[p] = "acting", ThresholdMet(cfg[r], reading[p])
               PROVE  ~Precedes([q \in Rules |-> cfg[q].priority], r, job[p][1])
    OBVIOUS
  <2>1. p = Scheduler
    BY DEF Alone, Polls
  <2>2. OnTheWay /\ Rule = job[p][1]
    BY <2>1 DEF OnTheWay, Rule
  <2> DEFINE rk == [q \in Rules |-> cfg[q].priority]
  <2>3. rank[Scheduler] = rk /\ r \in todo[Scheduler]
    BY <2>1, <2>2 DEF InOrder
  <2>4. Precedes(rk, Rule, r)
    BY <2>2, <2>3 DEF InOrder
  <2>5. rk \in [Rules -> Nat]
    BY DEF TypeOK, Config
  <2>6. job[p] \in Token
    BY DEF TypeOK
  <2>7. Rule \in Rules /\ r \in Rules
    BY <2>2, <2>6 DEF EnabledRules, TypeOK, Token
  <2> HIDE DEF rk
  <2>8. ~Precedes(rk, r, Rule)
    BY <2>4, <2>5, <2>7, LinearOrder
  <2> QED
    BY <2>2, <2>8 DEF rk
<1>4. I /\ [Next]_vars => [Wanted]_vars
  BY <1>3
<1> HIDE DEF Wanted
<1>5. Spec => [][Wanted]_vars
  BY <1>1, <1>2, <1>4, PTL DEF Spec
<1> QED
  BY <1>5 DEF PriorityOrder, Wanted

=============================================================================

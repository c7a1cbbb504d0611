---------------------------- MODULE ShutdownRules ----------------------------
(***************************************************************************)
(* Outage orchestration of one UPS: the shutdown_rules table, the          *)
(* poll_device activations that read the UPS and evaluate its rules, and   *)
(* the HTTP handlers that edit the rules meanwhile.                        *)
(*                                                                         *)
(* The backend is one asyncio process.  A poll_device coroutine can only   *)
(* be preempted by another one at an `await`, so one action here is the    *)
(* code between two awaits.  `def` endpoints run in a thread pool and can  *)
(* commit between any two actions.  SQLAlchemy expires every object at     *)
(* commit or rollback, so a pass re-reads a rule's columns (its guard, its *)
(* thresholds, its delay) when it reaches the rule, while the list of      *)
(* rules, their order and the UPS reading are those the pass began with.   *)
(*                                                                         *)
(* Rules of different UPSs share nothing, so the module has one UPS.       *)
(***************************************************************************)
EXTENDS Naturals

CONSTANTS
  Rules,            \* ids of shutdown_rules rows
  Targets,          \* devices a rule may act on
  Configs,          \* the settings a user may give a rule
  Scheduler,        \* the activation poll_loop starts (never two at once)
  Refreshers,       \* activations of POST /devices/{id}/refresh
  Handlers,         \* threads serving POST /shutdown-rules
  MaxLevel,         \* a full battery; charge_pct and runtime_sec follow it
  Reports,          \* which of "charge" and "runtime" this UPS reports
  None,
  CommitsMayFail,   \* may "database is locked" fail a commit of the poller?
  MaxOutages,       \* bound: power cuts
  MaxDisturbances   \* bound: edits and restarts together

Polls == {Scheduler} \cup Refreshers
Levels == 0..MaxLevel

(* The columns of a row other than its guard.  `delay` is delay_after_sec  *)
(* > 0: how long the pause is (capped at 600 s) makes no difference here.  *)
Config ==
  [enabled: BOOLEAN, priority: Nat, delay: BOOLEAN, target: Targets,
   charge: Levels \cup {None}, runtime: Levels \cup {None}]

ASSUME ConstantsOK ==
  /\ Rules \subseteq Nat
  /\ Configs \subseteq Config
  /\ Configs # {}
  /\ MaxLevel \in Nat
  /\ Reports \subseteq {"charge", "runtime"}
  /\ None \notin Nat
  /\ Scheduler \notin Refreshers
  /\ CommitsMayFail \in BOOLEAN
  /\ MaxOutages \in Nat /\ MaxDisturbances \in Nat

VARIABLES
  \* ---- the database
  rows,       \* ids present in shutdown_rules
  cfg,        \* their settings
  fired,      \* ids whose last_triggered_at is not NULL: the persisted guard
  targets,    \* devices present in the devices table
  \* ---- the process: poll_device activations and create handlers
  phase, reading, todo, rank, job, creating,
  \* ---- the UPS
  onBattery, level,
  \* ---- observation only: never read by a guard of the code
  gen,        \* how often each rule has been armed
  sent,       \* actions that reached a target: rule, arming, outage
  settling,   \* rules whose action was sent less than their delay ago
  outage,     \* number of the current (or last) outage
  disturbances

db == <<rows, cfg, fired, targets>>
passes == <<phase, reading, todo, rank, job>>
ups == <<onBattery, level, outage>>
vars == <<db, passes, creating, ups, gen, sent, settling, disturbances>>

Phases == {"idle", "fetched", "stamped", "acting", "acted", "waiting", "notify"}
Reading == [onBattery: BOOLEAN, charge: Levels \cup {None},
            runtime: Levels \cup {None}]
NoReading == [onBattery |-> FALSE, charge |-> None, runtime |-> None]
Token == Rules \X Nat      \* a rule and the arming that was consumed

TypeOK ==
  /\ rows \subseteq Rules
  /\ cfg \in [Rules -> Config]
  /\ fired \subseteq rows
  /\ targets \subseteq Targets
  /\ phase \in [Polls -> Phases]
  /\ reading \in [Polls -> Reading]
  /\ todo \in [Polls -> SUBSET Rules]
  /\ rank \in [Polls -> [Rules -> Nat]]
  /\ job \in [Polls -> Token \cup {None}]
  /\ \A p \in Polls :
       phase[p] \in {"stamped", "acting", "acted", "waiting"} => job[p] \in Token
  /\ creating \in [Handlers -> Config \cup {None}]
  /\ onBattery \in BOOLEAN
  /\ level \in Levels
  /\ outage \in Nat
  /\ gen \in [Rules -> Nat]
  /\ sent \subseteq [rule: Rules, gen: Nat, outage: Nat]
  /\ settling \subseteq Rules
  /\ disturbances \in Nat

Init ==
  /\ rows \in SUBSET Rules
  /\ cfg \in [Rules -> Configs]
  /\ \A r, s \in rows : r # s => cfg[r].target # cfg[s].target
  /\ \A r \in Rules \ rows : cfg[r] = CHOOSE c \in Configs : TRUE
  /\ fired = {}
  /\ targets = Targets
  /\ phase = [p \in Polls |-> "idle"]
  /\ reading = [p \in Polls |-> NoReading]
  /\ todo = [p \in Polls |-> {}]
  /\ rank = [p \in Polls |-> [r \in Rules |-> 0]]
  /\ job = [p \in Polls |-> None]
  /\ creating = [h \in Handlers |-> None]
  /\ onBattery = FALSE
  /\ level = MaxLevel
  /\ outage = 0
  /\ gen = [r \in Rules |-> 0]
  /\ sent = {}
  /\ settling = {}
  /\ disturbances = 0

-----------------------------------------------------------------------------
(* Evaluation of a pass.                                                   *)

ThresholdsRequired(c, rd) ==      \* mutant: a rule without thresholds never fires
  \/ c.charge # None /\ rd.charge # None /\ rd.charge <= c.charge
  \/ c.runtime # None /\ rd.runtime # None /\ rd.runtime <= c.runtime

ThresholdMet(c, rd) ==
  \/ c.charge = None /\ c.runtime = None
  \/ c.charge # None /\ rd.charge # None /\ rd.charge <= c.charge
  \/ c.runtime # None /\ rd.runtime # None /\ rd.runtime <= c.runtime

(* ORDER BY priority, id, with the priorities the query returned.          *)
Precedes(rk, r, s) == rk[r] < rk[s] \/ (rk[r] = rk[s] /\ r < s)

DueUnguarded(td, rd) ==           \* mutant: last_triggered_at is not looked at
  {r \in td : r \in rows /\ ThresholdMet(cfg[r], rd)}

Due(td, rd) == {r \in td : r \in rows \ fired /\ ThresholdMet(cfg[r], rd)}

(* Reaching a deleted row raises ObjectDeletedError and ends the pass.     *)
BehindDeleted(td, rk, r) == \E s \in td \ rows : Precedes(rk, s, r)

(* The activation is over: its locals are gone.                            *)
EndPass(p) ==
  /\ phase' = [phase EXCEPT ![p] = "idle"]
  /\ reading' = [reading EXCEPT ![p] = NoReading]
  /\ todo' = [todo EXCEPT ![p] = {}]
  /\ rank' = [rank EXCEPT ![p] = [r \in Rules |-> 0]]
  /\ job' = [job EXCEPT ![p] = None]

FireUncommitted(p, td, rk, rd) == \* mutant: fires although the commit failed
  \E r \in Due(td, rd) :
    /\ fired' \in {fired, fired \cup {r}}
    /\ phase' = [phase EXCEPT ![p] = "stamped"]
    /\ todo' = [todo EXCEPT ![p] = {s \in td : Precedes(rk, r, s)}]
    /\ rank' = [rank EXCEPT ![p] = rk]
    /\ job' = [job EXCEPT ![p] = <<r, gen[r]>>]
    /\ UNCHANGED reading

(* The loop runs on to the next rule whose threshold is met and reserves   *)
(* its slot: last_triggered_at is stamped and committed before anything is *)
(* sent.  A due rule whose commit fails is rolled back and passed over.    *)
FireNext(p, td, rk, rd) ==
  \E r \in Due(td, rd) :
    /\ ~BehindDeleted(td, rk, r)
    /\ CommitsMayFail \/ \A s \in Due(td, rd) : ~Precedes(rk, s, r)
    /\ fired' = fired \cup {r}
    /\ phase' = [phase EXCEPT ![p] = "stamped"]
    /\ todo' = [todo EXCEPT ![p] = {s \in td : Precedes(rk, r, s)}]
    /\ rank' = [rank EXCEPT ![p] = rk]
    /\ job' = [job EXCEPT ![p] = <<r, gen[r]>>]
    /\ UNCHANGED reading

(* The loop ends: nothing (more) is due, or nothing could be committed.    *)
LoopEnds(p, td, rk, rd) ==
  /\ CommitsMayFail \/ \A r \in Due(td, rd) : BehindDeleted(td, rk, r)
  /\ EndPass(p)
  /\ UNCHANGED fired

Loop(p, td, rk, rd) == FireNext(p, td, rk, rd) \/ LoopEnds(p, td, rk, rd)

LoopAtOnce(p) == Loop(p, todo[p], rank[p], reading[p])   \* mutant: no pause

(* delay_after_sec of the rule just handled, then the rest of the list.    *)
PauseOrLoop(p) ==
  \/ /\ cfg[job[p][1]].delay
     /\ phase' = [phase EXCEPT ![p] = "waiting"]
     /\ UNCHANGED <<fired, reading, todo, rank, job>>
  \/ /\ ~cfg[job[p][1]].delay
     /\ Loop(p, todo[p], rank[p], reading[p])

PassOnly == UNCHANGED <<rows, cfg, targets, creating, ups, gen, sent, settling, disturbances>>

-----------------------------------------------------------------------------
(* poll_device                                                             *)

(* A successful read of the UPS, which may leave out charge or runtime.    *)
(* A failed read evaluates nothing and changes nothing here.               *)
FetchStatus(p) ==
  /\ phase[p] = "idle"
  /\ reading' = [reading EXCEPT ![p] =
       [onBattery |-> onBattery,
        charge |-> IF "charge" \in Reports THEN level ELSE None,
        runtime |-> IF "runtime" \in Reports THEN level ELSE None]]
  /\ phase' = [phase EXCEPT ![p] = "fetched"]
  /\ UNCHANGED <<fired, todo, rank, job>>
  /\ PassOnly

(* adapter.close() and the transition events have been awaited meanwhile;  *)
(* the rules are queried now, and judged by the reading taken then.        *)
EnabledRules == {r \in rows : cfg[r].enabled}

RearmAlways(p) ==                 \* mutant: re-arms whatever the reading says
  LET back == EnabledRules \cap fired IN
  /\ phase[p] = "fetched"
  /\ back # {}
  /\ fired' = fired \ back
  /\ gen' = [r \in Rules |-> IF r \in back THEN gen[r] + 1 ELSE gen[r]]
  /\ phase' = [phase EXCEPT ![p] = "notify"]
  /\ UNCHANGED <<rows, cfg, targets, reading, todo, rank, job, creating, ups,
                 sent, settling, disturbances>>

RearmRules(p) ==
  LET back == EnabledRules \cap fired IN
  /\ phase[p] = "fetched"
  /\ ~reading[p].onBattery
  /\ back # {}
  /\ fired' = fired \ back
  /\ gen' = [r \in Rules |-> IF r \in back THEN gen[r] + 1 ELSE gen[r]]
  /\ phase' = [phase EXCEPT ![p] = "notify"]
  /\ UNCHANGED <<rows, cfg, targets, reading, todo, rank, job, creating, ups,
                 sent, settling, disturbances>>

RearmSkipped(p) ==                \* mutant: the re-arm may be left out
  /\ phase[p] = "fetched"
  /\ ~reading[p].onBattery
  /\ EndPass(p)
  /\ UNCHANGED fired
  /\ PassOnly

(* Nothing to re-arm, or the re-arm could not be committed.                *)
StayArmed(p) ==
  /\ phase[p] = "fetched"
  /\ ~reading[p].onBattery
  /\ EnabledRules \cap fired = {} \/ CommitsMayFail
  /\ EndPass(p)
  /\ UNCHANGED fired
  /\ PassOnly

StartUnordered(p) ==              \* mutant: the query forgets priority
  /\ phase[p] = "fetched"
  /\ reading[p].onBattery
  /\ Loop(p, EnabledRules, [r \in Rules |-> 0], reading[p])
  /\ PassOnly

StartPass(p) ==
  /\ phase[p] = "fetched"
  /\ reading[p].onBattery
  /\ Loop(p, EnabledRules, [r \in Rules |-> cfg[r].priority], reading[p])
  /\ PassOnly

(* _execute_shutdown_rule looks the rule and its target up again.          *)
StartAction(p) ==
  /\ phase[p] = "stamped"
  /\ job[p][1] \in rows
  /\ cfg[job[p][1]].target \in targets
  /\ phase' = [phase EXCEPT ![p] = "acting"]
  /\ UNCHANGED <<fired, reading, todo, rank, job>>
  /\ PassOnly

TargetMissing(p) ==
  /\ phase[p] = "stamped"
  /\ job[p][1] \in rows
  /\ cfg[job[p][1]].target \notin targets
  /\ PauseOrLoop(p)
  /\ PassOnly

(* The rule is gone when its columns are next read: the pass dies.         *)
RuleGone(p) ==
  /\ phase[p] \in {"stamped", "acted"}
  /\ job[p][1] \notin rows
  /\ EndPass(p)
  /\ UNCHANGED fired
  /\ PassOnly

ActionRetried(p) ==               \* mutant: the call is repeated after a time-out
  /\ phase[p] = "acting"
  /\ sent' = sent \cup {[rule |-> job[p][1], gen |-> job[p][2], outage |-> outage]}
  /\ phase' \in {phase, [phase EXCEPT ![p] = "acted"]}
  /\ UNCHANGED <<db, reading, todo, rank, job, creating, ups, gen, settling, disturbances>>

(* The awaited adapter call reaches the target, or fails.  An error        *)
(* reported after the target has acted is an ActionReaches too.            *)
ActionReaches(p) ==
  /\ phase[p] = "acting"
  /\ sent' = sent \cup {[rule |-> job[p][1], gen |-> job[p][2], outage |-> outage]}
  /\ settling' = IF job[p][1] \in rows /\ cfg[job[p][1]].delay
                   THEN settling \cup {job[p][1]} ELSE settling
  /\ phase' = [phase EXCEPT ![p] = "acted"]
  /\ UNCHANGED <<db, reading, todo, rank, job, creating, ups, gen, disturbances>>

ActionFails(p) ==
  /\ phase[p] = "acting"
  /\ phase' = [phase EXCEPT ![p] = "acted"]
  /\ UNCHANGED <<fired, reading, todo, rank, job>>
  /\ PassOnly

(* The outcome has been recorded and notified, which awaits.               *)
AfterAction(p) ==
  /\ phase[p] = "acted"
  /\ job[p][1] \in rows
  /\ PauseOrLoop(p)
  /\ PassOnly

Wake(p) ==
  /\ phase[p] = "waiting"
  /\ job[p][1] \notin settling
  /\ Loop(p, todo[p], rank[p], reading[p])
  /\ PassOnly

RearmNotified(p) ==
  /\ phase[p] = "notify"
  /\ EndPass(p)
  /\ UNCHANGED fired
  /\ PassOnly

PollStep(p) ==
  \/ RearmRules(p) \/ StayArmed(p) \/ StartPass(p) \/ StartAction(p)
  \/ TargetMissing(p) \/ RuleGone(p) \/ ActionReaches(p) \/ ActionFails(p)
  \/ AfterAction(p) \/ Wake(p) \/ RearmNotified(p)

-----------------------------------------------------------------------------
(* The rule editor and the device list: handlers in pool threads.          *)

EditOnly == UNCHANGED <<passes, ups, sent, settling>>

Disturb == disturbances < MaxDisturbances /\ disturbances' = disturbances + 1

(* create_shutdown_rule checks the target and the absence of a rule for    *)
(* it, then inserts: two steps of a thread.                                *)
CheckCreate(h, c) ==
  /\ creating[h] = None
  /\ c.target \in targets
  /\ \A r \in rows : cfg[r].target # c.target
  /\ creating' = [creating EXCEPT ![h] = c]
  /\ Disturb
  /\ UNCHANGED <<db, gen>>
  /\ EditOnly

(* SQLite gives a new row the id after the largest one in use.             *)
IsNextId(r) ==
  /\ \A s \in rows : s < r
  /\ \A q \in Rules : q < r => \E s \in rows : q <= s

InsertRule(h, r) ==
  /\ creating[h] # None
  /\ IsNextId(r)
  /\ rows' = rows \cup {r}
  /\ cfg' = [cfg EXCEPT ![r] = creating[h]]
  /\ gen' = [gen EXCEPT ![r] = @ + 1]
  /\ creating' = [creating EXCEPT ![h] = None]
  /\ UNCHANGED <<fired, targets, disturbances>>
  /\ EditOnly

(* Any edit re-arms the rule.                                              *)
UpdateRule(r, c) ==
  /\ r \in rows
  /\ c.target = cfg[r].target
  /\ cfg' = [cfg EXCEPT ![r] = c]
  /\ fired' = fired \ {r}
  /\ gen' = [gen EXCEPT ![r] = @ + 1]
  /\ Disturb
  /\ UNCHANGED <<rows, targets, creating>>
  /\ EditOnly

DeleteRule(r) ==
  /\ r \in rows
  /\ rows' = rows \ {r}
  /\ fired' = fired \ {r}
  /\ Disturb
  /\ UNCHANGED <<cfg, targets, creating, gen>>
  /\ EditOnly

(* delete_device on a target also deletes the rules that name it.          *)
RulesFor(t) == {r \in rows : cfg[r].target = t}

DeleteDeviceOnly(t) ==            \* mutant: guards of the deleted rules survive
  /\ t \in targets
  /\ targets' = targets \ {t}
  /\ rows' = rows \ RulesFor(t)
  /\ Disturb
  /\ UNCHANGED <<cfg, fired, creating, gen>>
  /\ EditOnly

DeleteDevice(t) ==
  /\ t \in targets
  /\ targets' = targets \ {t}
  /\ rows' = rows \ RulesFor(t)
  /\ fired' = fired \ RulesFor(t)
  /\ Disturb
  /\ UNCHANGED <<cfg, creating, gen>>
  /\ EditOnly

-----------------------------------------------------------------------------
(* The process and the mains.                                              *)

(* The process dies and starts again: only the database survives.          *)
Restart ==
  /\ Disturb
  /\ phase' = [p \in Polls |-> "idle"]
  /\ reading' = [p \in Polls |-> NoReading]
  /\ todo' = [p \in Polls |-> {}]
  /\ rank' = [p \in Polls |-> [r \in Rules |-> 0]]
  /\ job' = [p \in Polls |-> None]
  /\ creating' = [h \in Handlers |-> None]
  /\ UNCHANGED <<db, ups, gen, sent, settling>>

UpsOnly == UNCHANGED <<db, passes, creating, gen, sent, settling, disturbances>>

LoseMains ==
  /\ ~onBattery
  /\ outage < MaxOutages
  /\ onBattery' = TRUE
  /\ outage' = outage + 1
  /\ UNCHANGED level
  /\ UpsOnly

Drain ==
  /\ onBattery
  /\ level > 0
  /\ level' = level - 1
  /\ UNCHANGED <<onBattery, outage>>
  /\ UpsOnly

RestoreMains ==
  /\ onBattery
  /\ onBattery' = FALSE
  /\ level' = MaxLevel
  /\ UNCHANGED outage
  /\ UpsOnly

(* delay_after_sec has gone by since the action was sent.                  *)
DelayElapses(r) ==
  /\ r \in settling
  /\ settling' = settling \ {r}
  /\ UNCHANGED <<db, passes, creating, ups, gen, sent, disturbances>>

Next ==
  \/ \E p \in Polls : FetchStatus(p) \/ PollStep(p)
  \/ \E h \in Handlers, c \in Configs : CheckCreate(h, c)
  \/ \E h \in Handlers, r \in Rules : InsertRule(h, r)
  \/ \E r \in Rules, c \in Configs : UpdateRule(r, c)
  \/ \E r \in Rules : DeleteRule(r) \/ DelayElapses(r)
  \/ \E t \in Targets : DeleteDevice(t)
  \/ Restart
  \/ LoseMains \/ Drain \/ RestoreMains

Spec == Init /\ [][Next]_vars

(* poll_loop keeps polling a device for as long as it is enabled, every    *)
(* await of a pass is bounded (HTTP and SSH time-outs, the 600 s cap), and *)
(* time passes.  Nothing is assumed of users, crashes or the mains.        *)
FairSpec ==
  /\ Spec
  /\ WF_vars(FetchStatus(Scheduler))
  /\ WF_vars(PollStep(Scheduler))
  /\ \A r \in Rules : WF_vars(DelayElapses(r))

-----------------------------------------------------------------------------
(* Properties.                                                             *)

SentTokens == {<<s.rule, s.gen>> : s \in sent}

(* Between the committed stamp and the answer of the adapter call.         *)
Holds(p) == phase[p] \in {"stamped", "acting"}
HeldTokens == {job[p] : p \in {q \in Polls : Holds(q)}}

(* However the activations overlap, crash or are edited under, the action  *)
(* of a rule goes out at most once for each time the rule was armed: an    *)
(* activation about to send holds an arming that no other one holds and    *)
(* for which nothing has been sent (the guard of                           *)
(* _evaluate_shutdown_rules, stamped and committed before the fire).       *)
AtMostOncePerArming ==
  \A p \in Polls : Holds(p) =>
    /\ job[p] \notin SentTokens
    /\ \A q \in Polls \ {p} : Holds(q) => job[q] # job[p]

(* The guard in the database never lags behind the action: a rule that the *)
(* next pass would find armed has sent nothing and is about to send        *)
(* nothing for that arming, so a restart mid-outage cannot fire it again.  *)
GuardBeforeAction ==
  \A r \in rows \ fired : <<r, gen[r]>> \notin SentTokens \cup HeldTokens

(* The guard implements the one-shot promise of module OneShotGuard.       *)
Guard == INSTANCE OneShotGuard
  WITH armed <- rows \ fired, gen <- gen, granted <- HeldTokens, spent <- SentTokens

GuardIsOneShot == Guard!Spec

(* "Firing is once-per-outage" (models.py): no rule acts twice in one      *)
(* outage, not even under two different armings.                           *)
OncePerOutage ==
  \A s, t \in sent : s.rule = t.rule /\ s.outage = t.outage => s = t

(* "After firing a rule, the orchestrator waits delay_after_sec before the *)
(* next one" (models.py): no action goes out while another rule's action   *)
(* is still in progress or its delay has not passed.                       *)
DelayRespected ==
  [][\A s \in sent' \ sent :
       /\ settling \subseteq {s.rule}
       /\ \A p \in Polls : Holds(p) => job[p][1] = s.rule]_vars

(* "rules fire in ascending priority" (models.py): while an enabled rule   *)
(* that the reading makes due is still armed, no later rule acts.          *)
PriorityOrder ==
  [][\A p \in Polls, r \in EnabledRules \ fired :
       /\ phase[p] = "acting" /\ sent' # sent
       /\ ThresholdMet(cfg[r], reading[p])
       => ~Precedes([q \in Rules |-> cfg[q].priority], r, job[p][1])]_vars

(* An outage that does not end uses up every enabled rule that has no      *)
(* threshold, through failed actions and pauses.                           *)
Unconditional(r) ==
  r \in EnabledRules /\ cfg[r].charge = None /\ cfg[r].runtime = None

LongOutageReachesEveryRule ==
  \A r \in Rules :
    <>[](onBattery /\ Unconditional(r)) => <>[](r \in fired)

(* When the mains are back for good, every enabled rule is armed again.    *)
RearmedOnMains ==
  \A r \in Rules :
    <>[](~onBattery /\ r \in EnabledRules) => <>[](r \notin fired)

=============================================================================

--------------------------- MODULE DeviceLifecycle ---------------------------
(***************************************************************************)
(* One device id from its creation to its deletion and reuse: the          *)
(* scheduler (poll_loop), the poll_device activations, the cache and       *)
(* metric rows they write, the trackers that turn readings into events,    *)
(* the event log, and the handlers that create, change and delete the      *)
(* device meanwhile.  What a poll of a UPS does with its shutdown rules is *)
(* module ShutdownRules; it keeps the activation in flight a while longer. *)
(*                                                                         *)
(* Coroutines of the event loop are preempted only where they await.       *)
(* Where one runs on after a commit, `loop` names it and no other          *)
(* coroutine moves; `def` handlers run in pool threads and may commit      *)
(* there.  Every commit and rollback expires the Device object a poll      *)
(* holds: its next attribute is read from the row, which raises when the   *)
(* row is gone and reads a successor that was given the same id.           *)
(*                                                                         *)
(* Trackers, cache and scheduling are kept per device id, so the module    *)
(* has one id.  A log entry is one of its transitions or anybody else's.   *)
(***************************************************************************)
EXTENDS Naturals, Sequences

CONSTANTS
  Scheduler,          \* the activation poll_loop starts (never two at once)
  Refreshers,         \* activations of POST /devices/{id}/refresh
  Keys,               \* get_supported_cache_keys(), in order; has "status"
  States,             \* the states of a UPS
  None,
  OfflineThreshold,   \* _OFFLINE_THRESHOLD
  MaxEvents,          \* _MAX_EVENTS
  PruneEvery,         \* _PRUNE_EVERY
  MaxInc,             \* bound: devices that are given the id one after another
  MaxFlips,           \* bound: changes of the device's state
  MaxFailures,        \* bound: writes that meet "database is locked"
  MaxDisturbances     \* bound: restarts, failed queries, edits, other events

Polls == {Scheduler} \cup Refreshers
Incs == 1..MaxInc     \* the devices that hold the id, in order of creation

ASSUME ConstantsOK ==
  /\ Scheduler \notin Refreshers
  /\ Keys \in Seq({"status", "metrics"}) /\ \E i \in DOMAIN Keys : Keys[i] = "status"
  /\ None \notin States \cup Polls \cup Nat
  /\ OfflineThreshold \in Nat \ {0}
  /\ MaxEvents \in Nat /\ PruneEvery \in Nat \ {0, 1}
  /\ MaxInc \in Nat \ {0} /\ MaxFlips \in Nat
  /\ MaxFailures \in Nat /\ MaxDisturbances \in Nat

ASSUME NoWord == None \notin {"offline", "online"}

VARIABLES
  \* ---- the database
  device,     \* the device that holds the id, or None
  enabled, webhook,
  cache,      \* per key: whose reading the row shows, and whether an error
  samples,    \* devices with rows in device_metrics under this id
  logged,     \* number of rows in events
  \* ---- the process
  track,      \* _dev_offline, _dev_fail_count, _ups_prev_state of the id
  emits,      \* _emit_count, modulo PruneEvery
  due,        \* poll_interval has elapsed since last_polled
  loop,       \* the coroutine that holds the event loop, or None
  pc, inc, key, reading,
  \* ---- the device
  up, ups,
  newest,     \* how many devices have been given the id
  \* ---- observation only: never read by a guard of the code
  conn, said, \* last connectivity and last UPS event of the device
  streak,     \* failed readings evaluated since the last successful one
  contact,    \* a status reading has been stored since the row was created
  flips, failures, disturbances

db == <<device, enabled, webhook, cache, samples, logged>>
polls == <<pc, inc, key, reading>>
env == <<up, ups, newest, flips>>
seen == <<conn, said, streak, contact>>
vars == <<db, track, emits, due, loop, polls, env, seen, failures, disturbances>>

Phases == {"idle", "spawned", "reading", "connTold", "ups", "upsTold"}
Cell == [by: {0} \cup Incs, err: BOOLEAN]
NoCell == [by |-> 0, err |-> FALSE]
(* Counting further than one past the threshold makes no difference.       *)
Ceiling == OfflineThreshold + 1
Tracker == [offline: BOOLEAN, fails: 0..Ceiling, prev: States \cup {None}]
Blank == [offline |-> FALSE, fails |-> 0, prev |-> None]

FlagsOK ==
  /\ enabled \in BOOLEAN /\ webhook \in BOOLEAN
  /\ due \in BOOLEAN /\ up \in BOOLEAN /\ contact \in BOOLEAN

RowsOK ==
  /\ device \in Incs \cup {None} /\ newest \in Incs
  /\ cache \in [{"status", "metrics"} -> Cell]
  /\ samples \subseteq Incs

CountersOK ==
  /\ logged \in Nat
  /\ emits \in 0..(PruneEvery - 1)
  /\ streak \in 0..Ceiling
  /\ flips \in Nat /\ failures \in Nat /\ disturbances \in Nat

PollsOK ==
  /\ pc \in [Polls -> Phases]
  /\ inc \in [Polls -> Incs \cup {None}]
  /\ key \in [Polls -> 1..(Len(Keys) + 1)]
  /\ reading \in [Polls -> States \cup {None}]
  /\ \A p \in Polls :
       /\ pc[p] \notin {"idle", "spawned"} => inc[p] # None
       /\ pc[p] = "upsTold" => reading[p] # None
  /\ loop \in Polls \cup {None}

WordsOK ==
  /\ ups \in States
  /\ conn \in {"offline", "online", None}
  /\ said \in States \cup {None}

TrackOK == track \in Tracker

TypeOK == FlagsOK /\ RowsOK /\ CountersOK /\ PollsOK /\ WordsOK /\ TrackOK

Init ==
  /\ device = 1 /\ enabled = TRUE /\ webhook \in BOOLEAN
  /\ cache = [k \in {"status", "metrics"} |-> NoCell]
  /\ samples = {}
  /\ logged \in {0, MaxEvents}
  /\ track = Blank
  /\ emits = 0 /\ due = TRUE /\ loop = None
  /\ pc = [p \in Polls |-> "idle"]
  /\ inc = [p \in Polls |-> None]
  /\ key = [p \in Polls |-> 1]
  /\ reading = [p \in Polls |-> None]
  /\ up \in BOOLEAN /\ ups \in States /\ newest = 1
  /\ conn = None /\ said = None
  /\ streak = 0 /\ contact = FALSE
  /\ flips = 0 /\ failures = 0 /\ disturbances = 0

Fault == failures < MaxFailures /\ failures' = failures + 1
Disturb == disturbances < MaxDisturbances /\ disturbances' = disturbances + 1

-----------------------------------------------------------------------------
(* The scheduler.                                                          *)

Live == device # None /\ enabled

Spawn ==
  /\ pc' = [pc EXCEPT ![Scheduler] = "spawned"]
  /\ due' = FALSE

TickOnly == UNCHANGED <<db, emits, loop, inc, key, reading, env, seen, failures>>

(* A tick drops the bookkeeping of a device that is gone or disabled and   *)
(* starts a poll of a live one that is due and not in flight.              *)
Tick ==
  /\ loop = None
  /\ \/ /\ Live
        /\ \/ due /\ pc[Scheduler] = "idle" /\ Spawn
           \/ ~(due /\ pc[Scheduler] = "idle") /\ UNCHANGED <<pc, due>>
        /\ UNCHANGED track
     \/ /\ ~Live
        /\ track' = Blank
        /\ due' = TRUE
        /\ UNCHANGED pc
  /\ UNCHANGED disturbances
  /\ TickOnly

(* The query fails: the tick takes every device for gone.                  *)
TickBlind ==
  /\ loop = None
  /\ Disturb
  /\ track' = Blank
  /\ due' = TRUE
  /\ UNCHANGED pc
  /\ TickOnly

IntervalElapses ==
  /\ ~due
  /\ due' = TRUE
  /\ UNCHANGED <<db, track, emits, loop, polls, env, seen, failures, disturbances>>

-----------------------------------------------------------------------------
(* poll_device: from the look-up to the last key.                          *)

EndPoll(p) ==
  /\ pc' = [pc EXCEPT ![p] = "idle"]
  /\ inc' = [inc EXCEPT ![p] = None]
  /\ key' = [key EXCEPT ![p] = 1]
  /\ reading' = [reading EXCEPT ![p] = None]
  /\ loop' = None

(* The adapter is bound to the host and credentials found now.             *)
LookUp(p) ==
  /\ pc' = [pc EXCEPT ![p] = "reading"]
  /\ inc' = [inc EXCEPT ![p] = device]
  /\ UNCHANGED <<key, reading, loop>>

BeginOnly == UNCHANGED <<db, track, emits, due, env, seen, failures, disturbances>>

(* The task the scheduler created gets its turn ...                        *)
Begin(p) ==
  /\ loop = None
  /\ pc[p] = "spawned"
  /\ \/ Live /\ LookUp(p)
     \/ ~Live /\ EndPoll(p)
  /\ BeginOnly

(* ... and a request for a refresh calls poll_device itself.               *)
Refresh(p) ==
  /\ p \in Refreshers
  /\ loop = None
  /\ pc[p] = "idle"
  /\ Live /\ LookUp(p)
  /\ BeginOnly

Reading(p) == loop = None /\ pc[p] = "reading" /\ key[p] <= Len(Keys)
NextKey(p) == key' = [key EXCEPT ![p] = @ + 1] /\ UNCHANGED <<pc, inc, loop>>
KeyOnly ==
  UNCHANGED <<device, enabled, webhook, logged, track, emits, due, env,
              conn, said, streak, disturbances>>
Observe(p, s) ==
  reading' = IF Keys[key[p]] = "status" THEN [reading EXCEPT ![p] = s] ELSE reading

(* A key is read, and its row and samples are written and committed.  The  *)
(* reading is used even when that commit fails.                            *)
ReadKey(p) ==
  LET k == Keys[key[p]] IN
  /\ Reading(p) /\ up
  /\ Observe(p, ups)
  /\ \/ /\ cache' = [cache EXCEPT ![k] = [by |-> inc[p], err |-> FALSE]]
        /\ samples' = IF k = "metrics" THEN samples \cup {inc[p]} ELSE samples
        /\ contact' = (contact \/ k = "status")
        /\ UNCHANGED failures
     \/ Fault /\ UNCHANGED <<cache, samples, contact>>
  /\ NextKey(p)
  /\ KeyOnly

ErrorForgets(cell) == {[by |-> 0, err |-> TRUE]}   \* mutant: an error blanks the row

(* An error keeps the data of the row and the time it was read.            *)
WithError(cell) == {[cell EXCEPT !.err = TRUE]}

(* The error message names the device, so after the first commit it takes  *)
(* the row to get here.                                                    *)
Named(p) == key[p] = 1 \/ device # None

ReadFails(p) ==
  LET k == Keys[key[p]] IN
  /\ Reading(p) /\ ~up
  /\ Named(p)
  /\ \/ (\E c \in WithError(cache[k]) : cache' = [cache EXCEPT ![k] = c]) /\ UNCHANGED failures
     \/ Fault /\ UNCHANGED cache
  /\ Observe(p, None)
  /\ NextKey(p)
  /\ UNCHANGED <<samples, contact>>
  /\ KeyOnly

(* The write of a good reading meets the lock: the key counts as failed,   *)
(* and its row shows the error over the old data, or over the new when     *)
(* only the samples could not be written.                                  *)
StoreFails(p) ==
  LET k == Keys[key[p]]
      kept == {cache[k]} \cup
              IF k = "metrics" THEN {[by |-> inc[p], err |-> FALSE]} ELSE {}
  IN
  /\ Reading(p) /\ up
  /\ Named(p)
  /\ Fault
  /\ \E cell \in kept : \E c \in WithError(cell) : cache' = [cache EXCEPT ![k] = c]
  /\ Observe(p, None)
  /\ NextKey(p)
  /\ UNCHANGED <<samples, contact>>
  /\ KeyOnly

(* The row is gone when the device is named, or the error cannot be        *)
(* written either: the exception ends the poll.                            *)
ReadAborts(p) ==
  /\ Reading(p)
  /\ \/ ~Named(p) /\ ~up /\ UNCHANGED failures
     \/ Fault
  /\ EndPoll(p)
  /\ UNCHANGED <<cache, samples, contact>>
  /\ KeyOnly

-----------------------------------------------------------------------------
(* emit_event                                                              *)

PrunedToNext(n) ==                \* mutant: leaves one row too many
  IF n > MaxEvents + 1 THEN MaxEvents + 1 ELSE n

PrunedTo(n) == IF n > MaxEvents THEN MaxEvents ELSE n

(* The row is committed; every PruneEvery emits, counted from the start of *)
(* the process, the log is trimmed, unless that meets the lock.            *)
Recorded ==
  /\ emits' = (emits + 1) % PruneEvery
  /\ \/ /\ logged' = IF emits' = 1 THEN PrunedTo(logged + 1) ELSE logged + 1
        /\ UNCHANGED failures
     \/ emits' = 1 /\ Fault /\ logged' = logged + 1

(* Posting to the webhook awaits; without one, or for an event type that   *)
(* is muted, the coroutine runs on.                                        *)
Dispatch(p) ==
  \/ loop' = p
  \/ webhook /\ loop' = None

(* Events about other devices and the actions of rules.                    *)
OtherEvent ==
  /\ loop = None
  /\ Disturb
  /\ Recorded
  /\ UNCHANGED <<device, enabled, webhook, cache, samples, track, due, loop, polls, env, seen>>

-----------------------------------------------------------------------------
(* _emit_transition_events                                                 *)

Ok(p) == reading[p] # None
Saturated(n) == IF n > Ceiling THEN Ceiling ELSE n

(* Read after adapter.close() has been awaited.                            *)
Evaluating(p) == pc[p] = "reading" /\ key[p] = Len(Keys) + 1 /\ loop \in {None, p}

SettledOn(t, ok) == t             \* mutant: a success leaves the count alone

(* The failure counter before the event ...                                *)
Counted(t, ok) == IF ok THEN t ELSE [t EXCEPT !.fails = Saturated(@ + 1)]
(* ... and what follows it, or its absence.                                *)
Settled(t, ok) == IF ok THEN [t EXCEPT !.fails = 0] ELSE t

ChangedAgain(t, ok) ==            \* mutant: does not ask what was reported before
  IF ok THEN t.offline ELSE t.fails >= OfflineThreshold

ChangedNow(t, ok) ==              \* mutant: a lost offline event is not tried again
  IF ok THEN t.offline ELSE t.fails = OfflineThreshold /\ ~t.offline

Changed(t, ok) == IF ok THEN t.offline ELSE t.fails >= OfflineThreshold /\ ~t.offline

EvaluateOnly ==
  UNCHANGED <<device, enabled, webhook, cache, samples, due, inc, key, reading,
              env, said, contact, disturbances>>

(* Nothing to report, or the event could not be committed.                 *)
NoConnEvent(p) ==
  LET t == Counted(track, Ok(p)) IN
  /\ Evaluating(p) /\ device # None
  /\ IF Changed(t, Ok(p)) THEN Fault ELSE UNCHANGED failures
  /\ track' = Settled(t, Ok(p))
  /\ streak' = IF Ok(p) THEN 0 ELSE Saturated(streak + 1)
  /\ pc' = [pc EXCEPT ![p] = "ups"]
  /\ loop' = p
  /\ UNCHANGED <<logged, emits, conn>>
  /\ EvaluateOnly

ConnEvent(p) ==
  LET t == Counted(track, Ok(p)) IN
  /\ Evaluating(p) /\ device # None
  /\ Changed(t, Ok(p))
  /\ track' = t
  /\ streak' = IF Ok(p) THEN 0 ELSE Saturated(streak + 1)
  /\ conn' = IF Ok(p) THEN "online" ELSE "offline"
  /\ Recorded
  /\ Dispatch(p)
  /\ pc' = [pc EXCEPT ![p] = "connTold"]
  /\ EvaluateOnly

ReportedOnce(p) ==                \* mutant: "back online" is never cleared
  /\ pc[p] = "connTold" /\ loop \in {None, p}
  /\ track' = Settled([track EXCEPT !.offline = TRUE], Ok(p))
  /\ pc' = [pc EXCEPT ![p] = "ups"]
  /\ loop' = p
  /\ UNCHANGED <<logged, emits, conn, streak, failures>>
  /\ EvaluateOnly

(* The tracker advances once emit_event has returned.                      *)
ConnReported(p) ==
  /\ pc[p] = "connTold" /\ loop \in {None, p}
  /\ track' = Settled([track EXCEPT !.offline = ~Ok(p)], Ok(p))
  /\ pc' = [pc EXCEPT ![p] = "ups"]
  /\ loop' = p
  /\ UNCHANGED <<logged, emits, conn, streak, failures>>
  /\ EvaluateOnly

(* The state of a UPS: the first observation is only remembered.           *)
UpsOnly ==
  UNCHANGED <<device, enabled, webhook, cache, samples, due, env, conn, streak,
              contact, disturbances>>

SameAsBefore(p) == reading[p] = track.prev   \* mutant: a failed read is a state

SameState(p) == ~Ok(p) \/ reading[p] = track.prev

UpsQuiet(p) ==
  /\ pc[p] = "ups" /\ loop = p
  /\ \/ device = None \/ SameState(p)
     \/ track.prev = None
  /\ track' = IF device # None /\ ~SameState(p)
                THEN [track EXCEPT !.prev = reading[p]] ELSE track
  /\ EndPoll(p)
  /\ UNCHANGED <<logged, emits, said, failures>>
  /\ UpsOnly

UpsChanged(p) ==
  pc[p] = "ups" /\ loop = p /\ device # None /\ ~SameState(p) /\ track.prev # None

UpsEvent(p) ==
  /\ UpsChanged(p)
  /\ said' = reading[p]
  /\ Recorded
  /\ Dispatch(p)
  /\ pc' = [pc EXCEPT ![p] = "upsTold"]
  /\ UNCHANGED <<track, inc, key, reading>>
  /\ UpsOnly

UpsEventFails(p) ==
  /\ UpsChanged(p)
  /\ Fault
  /\ EndPoll(p)
  /\ UNCHANGED <<track, logged, emits, said>>
  /\ UpsOnly

UpsReported(p) ==
  /\ pc[p] = "upsTold" /\ loop \in {None, p}
  /\ track' = [track EXCEPT !.prev = reading[p]]
  /\ EndPoll(p)
  /\ UNCHANGED <<logged, emits, said, failures>>
  /\ UpsOnly

(* The row is gone before anything was evaluated.                          *)
DeviceGone(p) ==
  /\ Evaluating(p) /\ device = None
  /\ EndPoll(p)
  /\ UNCHANGED <<track, logged, emits, said, failures>>
  /\ UpsOnly

PollStep(p) ==
  \/ Begin(p) \/ ReadKey(p) \/ ReadFails(p) \/ StoreFails(p) \/ ReadAborts(p)
  \/ NoConnEvent(p) \/ ConnEvent(p) \/ ConnReported(p)
  \/ UpsQuiet(p) \/ UpsEvent(p) \/ UpsEventFails(p) \/ UpsReported(p)
  \/ DeviceGone(p)

-----------------------------------------------------------------------------
(* The handlers, in pool threads, and the process.                         *)

HandlerOnly == UNCHANGED <<logged, track, emits, due, loop, polls, up, ups, flips, streak, failures>>

(* Dependent rows are deleted with the device; its events are kept.        *)
DeleteDevice ==
  /\ device # None
  /\ Disturb
  /\ device' = None
  /\ webhook' = FALSE
  /\ cache' = [k \in {"status", "metrics"} |-> NoCell]
  /\ samples' = {}
  /\ contact' = FALSE
  /\ UNCHANGED <<newest, enabled, conn, said>>
  /\ HandlerOnly

(* SQLite gives the new row the id after the largest in use: the same id,  *)
(* when the deleted device was the newest.                                 *)
CreateDevice ==
  /\ device = None
  /\ newest + 1 \in Incs
  /\ newest' = newest + 1
  /\ device' = newest'
  /\ enabled' \in BOOLEAN
  /\ conn' = None /\ said' = None
  /\ UNCHANGED <<webhook, cache, samples, contact, disturbances>>
  /\ HandlerOnly

SetEnabled ==
  /\ device # None
  /\ Disturb
  /\ enabled' = ~enabled
  /\ UNCHANGED <<newest, device, webhook, cache, samples, conn, said, contact>>
  /\ HandlerOnly

UpdateNotifications ==
  /\ device # None
  /\ Disturb
  /\ webhook' = ~webhook
  /\ UNCHANGED <<newest, device, enabled, cache, samples, conn, said, contact>>
  /\ HandlerOnly

Restart ==
  /\ Disturb
  /\ track' = Blank
  /\ emits' = 0
  /\ due' = TRUE /\ loop' = None
  /\ pc' = [p \in Polls |-> "idle"]
  /\ inc' = [p \in Polls |-> None]
  /\ key' = [p \in Polls |-> 1]
  /\ reading' = [p \in Polls |-> None]
  /\ streak' = 0
  /\ UNCHANGED <<db, env, conn, said, contact, failures>>

(* The device, and the line between.                                       *)
Flip ==
  /\ flips < MaxFlips
  /\ flips' = flips + 1
  /\ \/ up' = ~up /\ UNCHANGED ups
     \/ ups' \in States \ {ups} /\ UNCHANGED up
  /\ UNCHANGED <<db, track, emits, due, loop, polls, newest, seen, failures, disturbances>>

Next ==
  \/ Tick \/ TickBlind \/ IntervalElapses
  \/ \E p \in Polls : Refresh(p) \/ PollStep(p)
  \/ OtherEvent
  \/ DeleteDevice \/ CreateDevice
  \/ SetEnabled \/ UpdateNotifications \/ Restart \/ Flip

Spec == Init /\ [][Next]_vars

(* The event loop runs its ready coroutines in turn, so one that is ready  *)
(* time and again does run; the loop of the scheduler never ends, every    *)
(* await of a poll is bounded by a time-out, and time passes.  Nothing is  *)
(* assumed of users, of the device or of restarts.                         *)
FairSpec ==
  /\ Spec
  /\ SF_vars(Tick)
  /\ WF_vars(IntervalElapses)
  /\ \A p \in Polls : SF_vars(PollStep(p))

-----------------------------------------------------------------------------
(* Properties.                                                             *)

(* A step in which the poll commits an event.                              *)
Emits(p, told) == pc[p] # told /\ pc'[p] = told

(* "debounced so a single transient failure isn't an event" (poller.py):   *)
(* an offline event takes OfflineThreshold failed readings in a row, with  *)
(* no successful one between, however polls overlap and whatever is lost.  *)
OfflineIsDebounced ==
  [][\A p \in Polls : Emits(p, "connTold") /\ ~Ok(p) => streak' >= OfflineThreshold]_vars

(* The log of a device that one poll at a time reads tells a story:        *)
(* offline and online take turns, and no UPS state is announced twice in a *)
(* row, although events fail to be written (_emit_transition_events).      *)
TransitionsAlternate ==
  [][\A p \in Polls :
       /\ Emits(p, "connTold") => conn' # conn
       /\ Emits(p, "upsTold") => said' # said]_vars

(* "Every device keeps a log of what happened to it: went offline, came    *)
(* back, went on battery" (README): when the device stays as it is, the    *)
(* log ends up saying so, although some events failed to be written.  A    *)
(* state that was there at the first poll is not announced.                *)
LogHasTheLastWord ==
  /\ <>[](Live /\ ~up) => <>[](conn = "offline")
  /\ <>[](Live /\ up) => <>[](conn # "offline")
  /\ \A s \in States :
       <>[](Live /\ up /\ ups = s) => <>[](said \in {s, None})

(* After overlapping polls, lost events, purges and restarts the trackers  *)
(* settle on what the device does, so that its next change is noticed.     *)
TrackersConverge ==
  /\ <>[](Live /\ up) => <>[](~track.offline /\ track.fails = 0)
  /\ <>[](Live /\ ~up) => <>[](track.offline)
  /\ \A s \in States : <>[](Live /\ up /\ ups = s) => <>[](track.prev = s)

(* "The table can only overshoot by at most _PRUNE_EVERY rows between      *)
(* checks" (events.py), whenever the process restarts; a check that meets  *)
(* the lock costs as many again.  The row that takes the log to that limit *)
(* is trimmed in the same step.                                            *)
LogBounded == logged < MaxEvents + PruneEvery * (1 + failures)

(* "A failed poll keeps the last good reading" (CHANGELOG): once a status  *)
(* has been stored, the row shows one until the device is deleted, through *)
(* failed reads, failed writes and overlapping polls.                      *)
LastReadingKept == contact => cache["status"].by # 0

(* "a recreated id can't inherit a stale offline/UPS state from its        *)
(* predecessor" (poll_loop).                                               *)
RecreatedStartsFresh ==
  [][device = None /\ device' # None => track' = Blank]_vars

=============================================================================

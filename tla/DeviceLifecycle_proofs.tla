------------------------ MODULE DeviceLifecycle_proofs ------------------------
(***************************************************************************)
(* Proofs about DeviceLifecycle, for any number of overlapping polls, any  *)
(* threshold and any size of the log: its types, the debounce of the       *)
(* offline event, the bound of the log, the last good reading and, for the *)
(* scheduler alone, that transitions take turns in the log.                *)
(*                                                                         *)
(* The debounce rests on one fact (NeverAhead): while the device is not    *)
(* taken for offline, the counter of the process is never ahead of the     *)
(* failures that really came in a row.  It can be ahead while the device   *)
(* is taken for offline, because "back online" is awaited before the       *)
(* counter is reset; but then no offline event is due.                     *)
(***************************************************************************)
EXTENDS DeviceLifecycle, TLAPS

(* PruneEvery rows between two checks, and the checks that failed.         *)
Room == PruneEvery * (1 + failures)
(* emits - 1 rows since the last check, or none yet in this process.       *)
LogRoom ==
  /\ emits = 0 => logged < MaxEvents + Room
  /\ emits > 0 => logged < MaxEvents + Room - (PruneEvery - emits)

NeverAhead == ~track.offline => track.fails <= streak

IInv == TypeOK /\ NeverAhead /\ LastReadingKept /\ LogRoom

-----------------------------------------------------------------------------
LEMMA ModStep ==
  ASSUME NEW n \in Nat, n > 1, NEW e \in 0..(n - 1)
  PROVE  (e + 1) % n = IF e = n - 1 THEN 0 ELSE e + 1
  OBVIOUS

LEMMA RoomGrows ==
  ASSUME NEW n \in Nat, NEW f \in Nat
  PROVE  n * (1 + (f + 1)) = n * (1 + f) + n
  OBVIOUS

(* The trackers, as the poll changes them.                                 *)
LEMMA TrackerTypes ==
  ASSUME NEW t \in Tracker, NEW ok \in BOOLEAN
  PROVE  /\ Blank \in Tracker
         /\ Counted(t, ok) \in Tracker
         /\ Settled(t, ok) \in Tracker
         /\ [t EXCEPT !.offline = ok] \in Tracker
         /\ \A s \in States : [t EXCEPT !.prev = s] \in Tracker
<1> USE ConstantsOK DEF Tracker, Ceiling
<1>1. Blank \in Tracker
  BY DEF Blank
<1>2. Saturated(t.fails + 1) \in 0..Ceiling
  BY DEF Saturated
<1>3. Counted(t, ok) \in Tracker
  BY <1>2 DEF Counted
<1>4. Settled(t, ok) \in Tracker
  BY DEF Settled
<1>5. [t EXCEPT !.offline = ok] \in Tracker
  OBVIOUS
<1>6. \A s \in States : [t EXCEPT !.prev = s] \in Tracker
  OBVIOUS
<1> QED
  BY <1>1, <1>3, <1>4, <1>5, <1>6

(* The cells of the cache: a stored reading, and an error over one.        *)
LEMMA CellTypes ==
  ASSUME NEW c \in Cell
  PROVE  /\ \A i \in Incs : [by |-> i, err |-> FALSE] \in Cell
         /\ \A d \in WithError(c) : d \in Cell /\ d.by = c.by
  BY DEF Cell, WithError

(* A poll that is reading has a device and a key to read.                  *)
LEMMA ReadingTypes ==
  ASSUME TypeOK, NEW p \in Polls, Reading(p)
  PROVE  inc[p] \in Incs /\ Keys[key[p]] \in {"status", "metrics"}
<1>1. inc[p] \in Incs
  BY DEF TypeOK, PollsOK, Reading
<1>2. key[p] \in 1..Len(Keys)
  BY ConstantsOK DEF TypeOK, PollsOK, Reading
<1> QED
  BY <1>1, <1>2, ConstantsOK

LEMMA InitType == Init => TypeOK
<1> SUFFICES ASSUME Init PROVE TypeOK
  OBVIOUS
<1> USE ConstantsOK DEF Init
<1>1. FlagsOK
  BY DEF FlagsOK
<1>2. RowsOK
  BY DEF RowsOK, Cell, NoCell, Incs
<1>3. CountersOK
  BY DEF CountersOK, Ceiling
<1>4. PollsOK
  BY DEF PollsOK, Phases
<1>5. WordsOK
  BY DEF WordsOK
<1>6. TrackOK
  BY DEF TrackOK, Tracker, Ceiling, Blank
<1> QED
  BY <1>1, <1>2, <1>3, <1>4, <1>5, <1>6 DEF TypeOK

LEMMA NextType == TypeOK /\ [Next]_vars => TypeOK'
<1> SUFFICES ASSUME TypeOK, [Next]_vars PROVE TypeOK'
  OBVIOUS
<1> USE ConstantsOK DEF TypeOK
<1>1. CASE UNCHANGED vars
  BY <1>1 DEF FlagsOK, RowsOK, CountersOK, PollsOK, WordsOK, TrackOK, vars, db, polls, env, seen
<1>2. CASE Tick
  <2>1. FlagsOK'
    BY <1>2 DEF FlagsOK, Tick, TickOnly, Spawn, db, env, seen, Polls
  <2>2. RowsOK'
    BY <1>2 DEF RowsOK, Cell, NoCell, Incs, Tick, TickOnly, Spawn, db, env, seen, Polls
  <2>3. CountersOK'
    BY <1>2 DEF CountersOK, Ceiling, Tick, TickOnly, Spawn, db, env, seen, Polls
  <2>4. PollsOK'
    BY <1>2 DEF PollsOK, Phases, Tick, TickOnly, Spawn, db, env, seen, Polls
  <2>5. WordsOK'
    BY <1>2 DEF WordsOK, Tick, TickOnly, Spawn, db, env, seen, Polls
  <2>6. TrackOK'
    BY <1>2, TrackerTypes DEF TrackOK, Tick
  <2> QED
    BY <2>1, <2>2, <2>3, <2>4, <2>5, <2>6
<1>3. CASE TickBlind
  <2>1. FlagsOK'
    BY <1>3 DEF FlagsOK, TickBlind, TickOnly, Disturb, db, env, seen
  <2>2. RowsOK'
    BY <1>3 DEF RowsOK, Cell, NoCell, Incs, TickBlind, TickOnly, Disturb, db, env, seen
  <2>3. CountersOK'
    BY <1>3 DEF CountersOK, Ceiling, TickBlind, TickOnly, Disturb, db, env, seen
  <2>4. PollsOK'
    BY <1>3 DEF PollsOK, Phases, TickBlind, TickOnly, Disturb, db, env, seen
  <2>5. WordsOK'
    BY <1>3 DEF WordsOK, TickBlind, TickOnly, Disturb, db, env, seen
  <2>6. TrackOK'
    BY <1>3 DEF TrackOK, Tracker, Ceiling, Blank, TickBlind, TickOnly, Disturb, db, env, seen
  <2> QED
    BY <2>1, <2>2, <2>3, <2>4, <2>5, <2>6
<1>4. CASE IntervalElapses
  <2>1. FlagsOK'
    BY <1>4 DEF FlagsOK, IntervalElapses, db, polls, env, seen
  <2>2. RowsOK'
    BY <1>4 DEF RowsOK, Cell, NoCell, Incs, IntervalElapses, db, polls, env, seen
  <2>3. CountersOK'
    BY <1>4 DEF CountersOK, Ceiling, IntervalElapses, db, polls, env, seen
  <2>4. PollsOK'
    BY <1>4 DEF PollsOK, Phases, IntervalElapses, db, polls, env, seen
  <2>5. WordsOK'
    BY <1>4 DEF WordsOK, IntervalElapses, db, polls, env, seen
  <2>6. TrackOK'
    BY <1>4 DEF TrackOK, Tracker, Ceiling, Blank, IntervalElapses, db, polls, env, seen
  <2> QED
    BY <2>1, <2>2, <2>3, <2>4, <2>5, <2>6
<1>5. ASSUME NEW p \in Polls, Refresh(p) PROVE TypeOK'
  <2>1. FlagsOK'
    BY <1>5 DEF FlagsOK, Refresh, Live, LookUp, BeginOnly, db, env, seen
  <2>2. RowsOK'
    BY <1>5 DEF RowsOK, Cell, NoCell, Incs, Refresh, Live, LookUp, BeginOnly, db, env, seen
  <2>3. CountersOK'
    BY <1>5 DEF CountersOK, Ceiling, Refresh, Live, LookUp, BeginOnly, db, env, seen
  <2>4. PollsOK'
    <3>1. device \in Incs
      BY <1>5 DEF Refresh, Live, RowsOK
    <3>2. device # None
      BY <1>5 DEF Refresh, Live
    <3> QED
      BY <1>5, <3>1, <3>2 DEF PollsOK, Phases, Refresh, LookUp
  <2>5. WordsOK'
    BY <1>5 DEF WordsOK, Refresh, Live, LookUp, BeginOnly, db, env, seen
  <2>6. TrackOK'
    BY <1>5 DEF TrackOK, Tracker, Ceiling, Blank, Refresh, Live, LookUp, BeginOnly, db, env, seen
  <2> QED
    BY <2>1, <2>2, <2>3, <2>4, <2>5, <2>6
<1>6. ASSUME NEW p \in Polls, Begin(p) PROVE TypeOK'
  <2>1. FlagsOK'
    BY <1>6 DEF FlagsOK, Begin, Live, LookUp, EndPoll, BeginOnly, db, env, seen
  <2>2. RowsOK'
    BY <1>6 DEF RowsOK, Cell, NoCell, Incs, Begin, Live, LookUp, EndPoll, BeginOnly, db, env, seen
  <2>3. CountersOK'
    BY <1>6 DEF CountersOK, Ceiling, Begin, Live, LookUp, EndPoll, BeginOnly, db, env, seen
  <2>4. PollsOK'
    <3>1. CASE LookUp(p) /\ Live
      <4>1. device \in Incs /\ device # None
        BY <3>1 DEF Live, RowsOK
      <4> QED
        BY <3>1, <4>1 DEF PollsOK, Phases, LookUp
    <3>2. CASE EndPoll(p)
      BY <3>2 DEF PollsOK, Phases, EndPoll
    <3> QED
      BY <1>6, <3>1, <3>2 DEF Begin
  <2>5. WordsOK'
    BY <1>6 DEF WordsOK, Begin, Live, LookUp, EndPoll, BeginOnly, db, env, seen
  <2>6. TrackOK'
    BY <1>6 DEF TrackOK, Tracker, Ceiling, Blank, Begin, Live, LookUp, EndPoll, BeginOnly, db, env, seen
  <2> QED
    BY <2>1, <2>2, <2>3, <2>4, <2>5, <2>6
<1>7. ASSUME NEW p \in Polls, ReadKey(p) PROVE TypeOK'
  <2>1. FlagsOK'
    BY <1>7 DEF FlagsOK, ReadKey, Reading, Observe, NextKey, KeyOnly, Fault, env
  <2>2. RowsOK'
    <3>1. inc[p] \in Incs /\ Keys[key[p]] \in {"status", "metrics"}
      BY <1>7, ReadingTypes DEF ReadKey
    <3>2. [by |-> inc[p], err |-> FALSE] \in Cell
      BY <3>1 DEF Cell
    <3> QED
      BY <1>7, <3>1, <3>2 DEF RowsOK, ReadKey, KeyOnly, env
  <2>3. CountersOK'
    BY <1>7 DEF CountersOK, Ceiling, ReadKey, Reading, Observe, NextKey, KeyOnly, Fault, env
  <2>4. PollsOK'
    <3>1. reading' \in [Polls -> States \cup {None}]
      BY <1>7 DEF PollsOK, WordsOK, ReadKey, Observe
    <3>2. pc[p] = "reading" /\ UNCHANGED pc /\ \A q \in Polls \ {p} : reading'[q] = reading[q]
      BY <1>7 DEF PollsOK, ReadKey, Reading, Observe, NextKey
    <3>3. key' \in [Polls -> 1..(Len(Keys) + 1)]
      BY <1>7 DEF PollsOK, ReadKey, Reading, NextKey
    <3> QED
      BY <1>7, <3>1, <3>2, <3>3 DEF PollsOK, ReadKey, NextKey
  <2>5. WordsOK'
    BY <1>7 DEF WordsOK, ReadKey, Reading, Observe, NextKey, KeyOnly, Fault, env
  <2>6. TrackOK'
    BY <1>7 DEF TrackOK, Tracker, Ceiling, Blank, ReadKey, Reading, Observe, NextKey, KeyOnly, Fault, env
  <2> QED
    BY <2>1, <2>2, <2>3, <2>4, <2>5, <2>6
<1>8. ASSUME NEW p \in Polls, ReadFails(p) PROVE TypeOK'
  <2>1. FlagsOK'
    BY <1>8 DEF FlagsOK, ReadFails, Reading, Observe, NextKey, KeyOnly, Fault, WithError, env
  <2>2. RowsOK'
    <3>1. Keys[key[p]] \in {"status", "metrics"}
      BY <1>8, ReadingTypes DEF ReadFails
    <3>2. WithError(cache[Keys[key[p]]]) \subseteq Cell
      BY <3>1, CellTypes DEF RowsOK
    <3> QED
      BY <1>8, <3>1, <3>2 DEF RowsOK, ReadFails, KeyOnly, env
  <2>3. CountersOK'
    BY <1>8 DEF CountersOK, ReadFails, KeyOnly, Fault, env
  <2>4. PollsOK'
    BY <1>8 DEF PollsOK, Phases, ReadFails, Reading, Observe, NextKey, KeyOnly, Fault, WithError, env
  <2>5. WordsOK'
    BY <1>8 DEF WordsOK, ReadFails, Reading, Observe, NextKey, KeyOnly, Fault, WithError, env
  <2>6. TrackOK'
    BY <1>8 DEF TrackOK, Tracker, Ceiling, Blank, ReadFails, Reading, Observe, NextKey, KeyOnly, Fault, WithError, env
  <2> QED
    BY <2>1, <2>2, <2>3, <2>4, <2>5, <2>6
<1>9. ASSUME NEW p \in Polls, StoreFails(p) PROVE TypeOK'
  <2>1. FlagsOK'
    BY <1>9 DEF FlagsOK, StoreFails, Reading, Observe, NextKey, KeyOnly, Fault, WithError, env
  <2>2. RowsOK'
    <3>1. inc[p] \in Incs /\ Keys[key[p]] \in {"status", "metrics"}
      BY <1>9, ReadingTypes DEF StoreFails
    <3>2. [by |-> inc[p], err |-> FALSE] \in Cell /\ cache[Keys[key[p]]] \in Cell
      BY <3>1 DEF Cell, RowsOK
    <3>3. \A c \in Cell : WithError(c) \subseteq Cell
      BY CellTypes
    <3>4. PICK d \in Cell : cache' = [cache EXCEPT ![Keys[key[p]]] = d]
      BY <1>9, <3>2, <3>3 DEF StoreFails
    <3> QED
      BY <1>9, <3>1, <3>4 DEF RowsOK, StoreFails, KeyOnly, env
  <2>3. CountersOK'
    BY <1>9 DEF CountersOK, Ceiling, StoreFails, Reading, Observe, NextKey, KeyOnly, Fault, WithError, env
  <2>4. PollsOK'
    BY <1>9 DEF PollsOK, Phases, StoreFails, Reading, Observe, NextKey, KeyOnly, Fault, WithError, env
  <2>5. WordsOK'
    BY <1>9 DEF WordsOK, StoreFails, Reading, Observe, NextKey, KeyOnly, Fault, WithError, env
  <2>6. TrackOK'
    BY <1>9 DEF TrackOK, Tracker, Ceiling, Blank, StoreFails, Reading, Observe, NextKey, KeyOnly, Fault, WithError, env
  <2> QED
    BY <2>1, <2>2, <2>3, <2>4, <2>5, <2>6
<1>10. ASSUME NEW p \in Polls, ReadAborts(p) PROVE TypeOK'
  <2>1. FlagsOK'
    BY <1>10 DEF FlagsOK, ReadAborts, Reading, EndPoll, KeyOnly, Fault, env
  <2>2. RowsOK'
    BY <1>10 DEF RowsOK, Cell, NoCell, Incs, ReadAborts, Reading, EndPoll, KeyOnly, Fault, env
  <2>3. CountersOK'
    BY <1>10 DEF CountersOK, Ceiling, ReadAborts, Reading, EndPoll, KeyOnly, Fault, env
  <2>4. PollsOK'
    BY <1>10 DEF PollsOK, Phases, ReadAborts, Reading, EndPoll, KeyOnly, Fault, env
  <2>5. WordsOK'
    BY <1>10 DEF WordsOK, ReadAborts, Reading, EndPoll, KeyOnly, Fault, env
  <2>6. TrackOK'
    BY <1>10 DEF TrackOK, Tracker, Ceiling, Blank, ReadAborts, Reading, EndPoll, KeyOnly, Fault, env
  <2> QED
    BY <2>1, <2>2, <2>3, <2>4, <2>5, <2>6
<1>11. ASSUME NEW p \in Polls, NoConnEvent(p) PROVE TypeOK'
  <2>1. FlagsOK'
    BY <1>11 DEF FlagsOK, NoConnEvent, Evaluating, EvaluateOnly, Fault, Counted, Settled, Saturated, Ok, env
  <2>2. RowsOK'
    BY <1>11 DEF RowsOK, Cell, NoCell, Incs, NoConnEvent, Evaluating, EvaluateOnly, Fault, Counted, Settled, Saturated, Ok, env
  <2>3. CountersOK'
    <3>1. streak' \in 0..Ceiling
      BY <1>11 DEF CountersOK, Ceiling, NoConnEvent, Saturated
    <3>2. failures' \in Nat
      BY <1>11 DEF CountersOK, NoConnEvent, Fault
    <3> QED
      BY <1>11, <3>1, <3>2 DEF CountersOK, NoConnEvent, EvaluateOnly, env
  <2>4. PollsOK'
    BY <1>11 DEF PollsOK, Phases, NoConnEvent, Evaluating, EvaluateOnly, Fault, Counted, Settled, Saturated, Ok, env
  <2>5. WordsOK'
    BY <1>11 DEF WordsOK, NoConnEvent, Evaluating, EvaluateOnly, Fault, Counted, Settled, Saturated, Ok, env
  <2>6. TrackOK'
    BY <1>11, TrackerTypes DEF TrackOK, NoConnEvent, Ok
  <2> QED
    BY <2>1, <2>2, <2>3, <2>4, <2>5, <2>6
<1>12. ASSUME NEW p \in Polls, ConnEvent(p) PROVE TypeOK'
  <2>1. FlagsOK'
    BY <1>12 DEF FlagsOK, ConnEvent, EvaluateOnly, env
  <2>2. RowsOK'
    BY <1>12 DEF RowsOK, ConnEvent, EvaluateOnly, env
  <2>3. CountersOK'
    <3>1. streak' \in 0..Ceiling
      BY <1>12 DEF CountersOK, Ceiling, ConnEvent, Saturated
    <3>2. failures' \in Nat /\ logged' \in Nat /\ emits' \in 0..(PruneEvery - 1)
      BY <1>12, ModStep DEF CountersOK, ConnEvent, Recorded, PrunedTo, Fault
    <3> QED
      BY <1>12, <3>1, <3>2 DEF CountersOK, ConnEvent, EvaluateOnly, env
  <2>4. PollsOK'
    <3>1. /\ pc[p] = "reading" /\ pc' = [pc EXCEPT ![p] = "connTold"]
          /\ loop' \in {p, None} /\ UNCHANGED <<inc, key, reading>>
      BY <1>12 DEF ConnEvent, Evaluating, EvaluateOnly, Dispatch, PollsOK
    <3> QED
      BY <3>1 DEF PollsOK, Phases
  <2>5. WordsOK'
    BY <1>12 DEF WordsOK, ConnEvent, EvaluateOnly, env
  <2>6. TrackOK'
    BY <1>12, TrackerTypes DEF TrackOK, ConnEvent, Ok
  <2> QED
    BY <2>1, <2>2, <2>3, <2>4, <2>5, <2>6
<1>13. ASSUME NEW p \in Polls, ConnReported(p) PROVE TypeOK'
  <2>1. FlagsOK'
    BY <1>13 DEF FlagsOK, ConnReported, EvaluateOnly, Settled, Ok, env
  <2>2. RowsOK'
    BY <1>13 DEF RowsOK, Cell, NoCell, Incs, ConnReported, EvaluateOnly, Settled, Ok, env
  <2>3. CountersOK'
    BY <1>13 DEF CountersOK, Ceiling, ConnReported, EvaluateOnly, Settled, Ok, env
  <2>4. PollsOK'
    BY <1>13 DEF PollsOK, Phases, ConnReported, EvaluateOnly, Settled, Ok, env
  <2>5. WordsOK'
    BY <1>13 DEF WordsOK, ConnReported, EvaluateOnly, Settled, Ok, env
  <2>6. TrackOK'
    <3> DEFINE t == [track EXCEPT !.offline = ~Ok(p)]
    <3>1. Ok(p) \in BOOLEAN /\ (~Ok(p)) \in BOOLEAN
      BY DEF Ok
    <3>2. t \in Tracker
      BY <3>1, TrackerTypes DEF TrackOK
    <3> QED
      BY <1>13, <3>1, <3>2, TrackerTypes DEF TrackOK, ConnReported
  <2> QED
    BY <2>1, <2>2, <2>3, <2>4, <2>5, <2>6
<1>14. ASSUME NEW p \in Polls, UpsQuiet(p) PROVE TypeOK'
  <2>1. FlagsOK'
    BY <1>14 DEF FlagsOK, UpsQuiet, UpsOnly, EndPoll, SameState, Ok, env
  <2>2. RowsOK'
    BY <1>14 DEF RowsOK, Cell, NoCell, Incs, UpsQuiet, UpsOnly, EndPoll, SameState, Ok, env
  <2>3. CountersOK'
    BY <1>14 DEF CountersOK, Ceiling, UpsQuiet, UpsOnly, EndPoll, SameState, Ok, env
  <2>4. PollsOK'
    BY <1>14 DEF PollsOK, Phases, UpsQuiet, UpsOnly, EndPoll, SameState, Ok, env
  <2>5. WordsOK'
    BY <1>14 DEF WordsOK, UpsQuiet, UpsOnly, EndPoll, SameState, Ok, env
  <2>6. TrackOK'
    <3>1. CASE device # None /\ ~SameState(p)
      <4>1. reading[p] \in States
        BY <3>1 DEF SameState, Ok, PollsOK
      <4> QED
        BY <1>14, <3>1, <4>1, TrackerTypes DEF TrackOK, UpsQuiet
    <3>2. CASE ~(device # None /\ ~SameState(p))
      BY <1>14, <3>2 DEF TrackOK, UpsQuiet
    <3> QED
      BY <3>1, <3>2
  <2> QED
    BY <2>1, <2>2, <2>3, <2>4, <2>5, <2>6
<1>15. ASSUME NEW p \in Polls, UpsEvent(p) PROVE TypeOK'
  <2>1. FlagsOK'
    BY <1>15 DEF FlagsOK, UpsEvent, UpsChanged, UpsOnly, Recorded, PrunedTo, Dispatch, Fault, SameState, Ok, env
  <2>2. RowsOK'
    BY <1>15 DEF RowsOK, Cell, NoCell, Incs, UpsEvent, UpsChanged, UpsOnly, Recorded, PrunedTo, Dispatch, Fault, SameState, Ok, env
  <2>3. CountersOK'
    BY <1>15, ModStep DEF CountersOK, Ceiling, UpsEvent, UpsChanged, UpsOnly, Recorded, PrunedTo, Dispatch, Fault, SameState, Ok, env
  <2>4. PollsOK'
    BY <1>15 DEF PollsOK, Phases, UpsEvent, UpsChanged, UpsOnly, Recorded, PrunedTo, Dispatch, Fault, SameState, Ok, env
  <2>5. WordsOK'
    BY <1>15 DEF WordsOK, PollsOK, UpsEvent, UpsOnly, env
  <2>6. TrackOK'
    BY <1>15 DEF TrackOK, Tracker, Ceiling, Blank, UpsEvent, UpsChanged, UpsOnly, Recorded, PrunedTo, Dispatch, Fault, SameState, Ok, env
  <2> QED
    BY <2>1, <2>2, <2>3, <2>4, <2>5, <2>6
<1>16. ASSUME NEW p \in Polls, UpsEventFails(p) PROVE TypeOK'
  <2>1. FlagsOK'
    BY <1>16 DEF FlagsOK, UpsEventFails, UpsOnly, EndPoll, Fault, env
  <2>2. RowsOK'
    BY <1>16 DEF RowsOK, Cell, NoCell, Incs, UpsEventFails, UpsOnly, EndPoll, Fault, env
  <2>3. CountersOK'
    BY <1>16 DEF CountersOK, Ceiling, UpsEventFails, UpsOnly, EndPoll, Fault, env
  <2>4. PollsOK'
    BY <1>16 DEF PollsOK, Phases, UpsEventFails, UpsOnly, EndPoll, Fault, env
  <2>5. WordsOK'
    BY <1>16 DEF WordsOK, UpsEventFails, UpsOnly, EndPoll, Fault, env
  <2>6. TrackOK'
    BY <1>16 DEF TrackOK, Tracker, Ceiling, Blank, UpsEventFails, UpsOnly, EndPoll, Fault, env
  <2> QED
    BY <2>1, <2>2, <2>3, <2>4, <2>5, <2>6
<1>17. ASSUME NEW p \in Polls, UpsReported(p) PROVE TypeOK'
  <2>1. FlagsOK'
    BY <1>17 DEF FlagsOK, UpsReported, UpsOnly, EndPoll, env
  <2>2. RowsOK'
    BY <1>17 DEF RowsOK, Cell, NoCell, Incs, UpsReported, UpsOnly, EndPoll, env
  <2>3. CountersOK'
    BY <1>17 DEF CountersOK, Ceiling, UpsReported, UpsOnly, EndPoll, env
  <2>4. PollsOK'
    BY <1>17 DEF PollsOK, Phases, UpsReported, UpsOnly, EndPoll, env
  <2>5. WordsOK'
    BY <1>17 DEF WordsOK, UpsReported, UpsOnly, EndPoll, env
  <2>6. TrackOK'
    <3>1. reading[p] \in States
      BY <1>17 DEF UpsReported, PollsOK
    <3> QED
      BY <1>17, <3>1, TrackerTypes DEF TrackOK, UpsReported
  <2> QED
    BY <2>1, <2>2, <2>3, <2>4, <2>5, <2>6
<1>18. ASSUME NEW p \in Polls, DeviceGone(p) PROVE TypeOK'
  <2>1. FlagsOK'
    BY <1>18 DEF FlagsOK, DeviceGone, Evaluating, UpsOnly, EndPoll, env
  <2>2. RowsOK'
    BY <1>18 DEF RowsOK, Cell, NoCell, Incs, DeviceGone, Evaluating, UpsOnly, EndPoll, env
  <2>3. CountersOK'
    BY <1>18 DEF CountersOK, Ceiling, DeviceGone, Evaluating, UpsOnly, EndPoll, env
  <2>4. PollsOK'
    BY <1>18 DEF PollsOK, Phases, DeviceGone, Evaluating, UpsOnly, EndPoll, env
  <2>5. WordsOK'
    BY <1>18 DEF WordsOK, DeviceGone, Evaluating, UpsOnly, EndPoll, env
  <2>6. TrackOK'
    BY <1>18 DEF TrackOK, Tracker, Ceiling, Blank, DeviceGone, Evaluating, UpsOnly, EndPoll, env
  <2> QED
    BY <2>1, <2>2, <2>3, <2>4, <2>5, <2>6
<1>19. CASE OtherEvent
  <2>1. FlagsOK'
    BY <1>19 DEF FlagsOK, OtherEvent, Disturb, Recorded, PrunedTo, Fault, polls, env, seen
  <2>2. RowsOK'
    BY <1>19 DEF RowsOK, Cell, NoCell, Incs, OtherEvent, Disturb, Recorded, PrunedTo, Fault, polls, env, seen
  <2>3. CountersOK'
    BY <1>19, ModStep DEF CountersOK, Ceiling, OtherEvent, Disturb, Recorded, PrunedTo, Fault, polls, env, seen
  <2>4. PollsOK'
    BY <1>19 DEF PollsOK, Phases, OtherEvent, Disturb, Recorded, PrunedTo, Fault, polls, env, seen
  <2>5. WordsOK'
    BY <1>19 DEF WordsOK, OtherEvent, Disturb, Recorded, PrunedTo, Fault, polls, env, seen
  <2>6. TrackOK'
    BY <1>19 DEF TrackOK, Tracker, Ceiling, Blank, OtherEvent, Disturb, Recorded, PrunedTo, Fault, polls, env, seen
  <2> QED
    BY <2>1, <2>2, <2>3, <2>4, <2>5, <2>6
<1>20. CASE DeleteDevice
  <2>1. FlagsOK'
    BY <1>20 DEF FlagsOK, DeleteDevice, Disturb, HandlerOnly, polls
  <2>2. RowsOK'
    BY <1>20 DEF RowsOK, Cell, NoCell, Incs, DeleteDevice, Disturb, HandlerOnly, polls
  <2>3. CountersOK'
    BY <1>20 DEF CountersOK, Ceiling, DeleteDevice, Disturb, HandlerOnly, polls
  <2>4. PollsOK'
    BY <1>20 DEF PollsOK, Phases, DeleteDevice, Disturb, HandlerOnly, polls
  <2>5. WordsOK'
    BY <1>20 DEF WordsOK, DeleteDevice, Disturb, HandlerOnly, polls
  <2>6. TrackOK'
    BY <1>20 DEF TrackOK, Tracker, Ceiling, Blank, DeleteDevice, Disturb, HandlerOnly, polls
  <2> QED
    BY <2>1, <2>2, <2>3, <2>4, <2>5, <2>6
<1>21. CASE CreateDevice
  <2>1. FlagsOK'
    BY <1>21 DEF FlagsOK, CreateDevice, HandlerOnly, polls
  <2>2. RowsOK'
    BY <1>21 DEF RowsOK, Cell, NoCell, Incs, CreateDevice, HandlerOnly, polls
  <2>3. CountersOK'
    BY <1>21 DEF CountersOK, Ceiling, CreateDevice, HandlerOnly, polls
  <2>4. PollsOK'
    BY <1>21 DEF PollsOK, Phases, CreateDevice, HandlerOnly, polls
  <2>5. WordsOK'
    BY <1>21 DEF WordsOK, CreateDevice, HandlerOnly, polls
  <2>6. TrackOK'
    BY <1>21 DEF TrackOK, Tracker, Ceiling, Blank, CreateDevice, HandlerOnly, polls
  <2> QED
    BY <2>1, <2>2, <2>3, <2>4, <2>5, <2>6
<1>22. CASE SetEnabled
  <2>1. FlagsOK'
    BY <1>22 DEF FlagsOK, SetEnabled, Disturb, HandlerOnly, polls
  <2>2. RowsOK'
    BY <1>22 DEF RowsOK, Cell, NoCell, Incs, SetEnabled, Disturb, HandlerOnly, polls
  <2>3. CountersOK'
    BY <1>22 DEF CountersOK, Ceiling, SetEnabled, Disturb, HandlerOnly, polls
  <2>4. PollsOK'
    BY <1>22 DEF PollsOK, Phases, SetEnabled, Disturb, HandlerOnly, polls
  <2>5. WordsOK'
    BY <1>22 DEF WordsOK, SetEnabled, Disturb, HandlerOnly, polls
  <2>6. TrackOK'
    BY <1>22 DEF TrackOK, Tracker, Ceiling, Blank, SetEnabled, Disturb, HandlerOnly, polls
  <2> QED
    BY <2>1, <2>2, <2>3, <2>4, <2>5, <2>6
<1>23. CASE UpdateNotifications
  <2>1. FlagsOK'
    BY <1>23 DEF FlagsOK, UpdateNotifications, Disturb, HandlerOnly, polls
  <2>2. RowsOK'
    BY <1>23 DEF RowsOK, Cell, NoCell, Incs, UpdateNotifications, Disturb, HandlerOnly, polls
  <2>3. CountersOK'
    BY <1>23 DEF CountersOK, Ceiling, UpdateNotifications, Disturb, HandlerOnly, polls
  <2>4. PollsOK'
    BY <1>23 DEF PollsOK, Phases, UpdateNotifications, Disturb, HandlerOnly, polls
  <2>5. WordsOK'
    BY <1>23 DEF WordsOK, UpdateNotifications, Disturb, HandlerOnly, polls
  <2>6. TrackOK'
    BY <1>23 DEF TrackOK, Tracker, Ceiling, Blank, UpdateNotifications, Disturb, HandlerOnly, polls
  <2> QED
    BY <2>1, <2>2, <2>3, <2>4, <2>5, <2>6
<1>24. CASE Restart
  <2>1. FlagsOK'
    BY <1>24 DEF FlagsOK, Restart, Disturb, db, env
  <2>2. RowsOK'
    BY <1>24 DEF RowsOK, Cell, NoCell, Incs, Restart, Disturb, db, env
  <2>3. CountersOK'
    BY <1>24 DEF CountersOK, Ceiling, Restart, Disturb, db, env
  <2>4. PollsOK'
    BY <1>24 DEF PollsOK, Phases, Restart, Disturb, db, env
  <2>5. WordsOK'
    BY <1>24 DEF WordsOK, Restart, Disturb, db, env
  <2>6. TrackOK'
    BY <1>24 DEF TrackOK, Tracker, Ceiling, Blank, Restart, Disturb, db, env
  <2> QED
    BY <2>1, <2>2, <2>3, <2>4, <2>5, <2>6
<1>25. CASE Flip
  <2>1. FlagsOK'
    BY <1>25 DEF FlagsOK, Flip, db, polls, seen
  <2>2. RowsOK'
    BY <1>25 DEF RowsOK, Cell, NoCell, Incs, Flip, db, polls, seen
  <2>3. CountersOK'
    BY <1>25 DEF CountersOK, Ceiling, Flip, db, polls, seen
  <2>4. PollsOK'
    BY <1>25 DEF PollsOK, Phases, Flip, db, polls, seen
  <2>5. WordsOK'
    BY <1>25 DEF WordsOK, Flip, db, polls, seen
  <2>6. TrackOK'
    BY <1>25 DEF TrackOK, Tracker, Ceiling, Blank, Flip, db, polls, seen
  <2> QED
    BY <2>1, <2>2, <2>3, <2>4, <2>5, <2>6
<1> QED
  BY <1>1, <1>2, <1>3, <1>4, <1>5, <1>6, <1>7, <1>8, <1>9, <1>10, <1>11, <1>12, <1>13, <1>14, <1>15, <1>16, <1>17, <1>18, <1>19, <1>20, <1>21, <1>22, <1>23, <1>24, <1>25 DEF Next, PollStep

-----------------------------------------------------------------------------
(* The counter is never ahead of the failures in a row.                    *)
LEMMA NextNeverAhead == TypeOK /\ NeverAhead /\ [Next]_vars => NeverAhead'
<1> SUFFICES ASSUME TypeOK, NeverAhead, [Next]_vars PROVE NeverAhead'
  OBVIOUS
<1> USE ConstantsOK
<1>1. track \in Tracker /\ streak \in 0..Ceiling
  BY DEF TypeOK, TrackOK, CountersOK
<1>2. CASE UNCHANGED <<track, streak>>
  BY <1>2 DEF NeverAhead
<1>3. CASE track' = Blank /\ streak' \in {0, streak}
  BY <1>1, <1>3 DEF NeverAhead, Blank, Ceiling
<1>4. ASSUME NEW s, track' = [track EXCEPT !.prev = s], UNCHANGED streak
      PROVE  NeverAhead'
  BY <1>1, <1>4 DEF NeverAhead, Tracker
<1>5. ASSUME NEW p \in Polls, NoConnEvent(p) PROVE NeverAhead'
  <2>1. CASE Ok(p)
    BY <1>1, <1>5, <2>1 DEF NeverAhead, NoConnEvent, Counted, Settled, Tracker
  <2>2. CASE ~Ok(p)
    <3>1. /\ track' = [track EXCEPT !.fails = Saturated(@ + 1)]
          /\ streak' = Saturated(streak + 1)
      BY <1>5, <2>2 DEF NoConnEvent, Counted, Settled
    <3> QED
      BY <1>1, <3>1 DEF NeverAhead, Saturated, Tracker, Ceiling
  <2> QED
    BY <2>1, <2>2
<1>6. ASSUME NEW p \in Polls, ConnEvent(p) PROVE NeverAhead'
  <2>1. CASE Ok(p)
    BY <1>6, <2>1 DEF NeverAhead, ConnEvent, Changed, Counted
  <2>2. CASE ~Ok(p)
    <3>1. /\ track' = [track EXCEPT !.fails = Saturated(@ + 1)]
          /\ streak' = Saturated(streak + 1)
      BY <1>6, <2>2 DEF ConnEvent, Counted
    <3> QED
      BY <1>1, <3>1 DEF NeverAhead, Saturated, Tracker, Ceiling
  <2> QED
    BY <2>1, <2>2
<1>7. ASSUME NEW p \in Polls, ConnReported(p) PROVE NeverAhead'
  <2>1. CASE Ok(p)
    BY <1>1, <1>7, <2>1 DEF NeverAhead, ConnReported, Settled, Tracker, Ceiling
  <2>2. CASE ~Ok(p)
    BY <1>1, <1>7, <2>2 DEF NeverAhead, ConnReported, Settled, Tracker
  <2> QED
    BY <2>1, <2>2
<1>8. ASSUME NEW p \in Polls, PollStep(p) PROVE NeverAhead'
  <2>1. CASE Begin(p) \/ ReadKey(p) \/ ReadFails(p) \/ StoreFails(p) \/ ReadAborts(p)
    BY <1>2, <2>1 DEF Begin, ReadKey, ReadFails, StoreFails, ReadAborts, KeyOnly, BeginOnly, seen
  <2>2. CASE UpsQuiet(p)
    BY <1>2, <1>4, <2>2 DEF UpsQuiet, UpsOnly
  <2>3. CASE UpsEvent(p) \/ UpsEventFails(p) \/ DeviceGone(p)
    BY <1>2, <2>3 DEF UpsEvent, UpsEventFails, DeviceGone, UpsOnly
  <2>4. CASE UpsReported(p)
    BY <1>4, <2>4 DEF UpsReported, UpsOnly
  <2> QED
    BY <1>5, <1>6, <1>7, <1>8, <2>1, <2>2, <2>3, <2>4 DEF PollStep
<1>9. CASE Tick \/ TickBlind
  BY <1>2, <1>3, <1>9 DEF Tick, TickBlind, TickOnly, seen
<1>10. CASE \E p \in Polls : Refresh(p)
  BY <1>2, <1>10 DEF Refresh, BeginOnly, seen
<1>11. CASE IntervalElapses \/ OtherEvent \/ Flip \/ UNCHANGED vars
  BY <1>2, <1>11 DEF IntervalElapses, OtherEvent, Flip, vars, seen
<1>12. CASE DeleteDevice \/ CreateDevice \/ SetEnabled \/ UpdateNotifications
  BY <1>2, <1>12 DEF DeleteDevice, CreateDevice, SetEnabled, UpdateNotifications, HandlerOnly
<1>13. CASE Restart
  BY <1>3, <1>13 DEF Restart
<1> QED
  BY <1>8, <1>9, <1>10, <1>11, <1>12, <1>13 DEF Next

(* A stored reading is replaced by a stored reading only.                  *)
LEMMA NextLastReading == TypeOK /\ LastReadingKept /\ [Next]_vars => LastReadingKept'
<1> SUFFICES ASSUME TypeOK, LastReadingKept, [Next]_vars PROVE LastReadingKept'
  OBVIOUS
<1>1. CASE UNCHANGED <<cache, contact>>
  BY <1>1 DEF LastReadingKept
<1>2. cache \in [{"status", "metrics"} -> Cell]
  BY DEF TypeOK, RowsOK
<1>3. ASSUME NEW p \in Polls, ReadKey(p) PROVE LastReadingKept'
  <2>1. inc[p] \in Incs /\ Keys[key[p]] \in {"status", "metrics"}
    BY <1>3, ReadingTypes DEF ReadKey
  <2>2. CASE cache' = [cache EXCEPT ![Keys[key[p]]] = [by |-> inc[p], err |-> FALSE]]
             /\ contact' = (contact \/ Keys[key[p]] = "status")
    <3>1. CASE Keys[key[p]] = "status"
      <4>1. cache'["status"].by = inc[p]
        BY <1>2, <2>2, <3>1
      <4> QED
        BY <2>1, <4>1 DEF LastReadingKept, Incs
    <3>2. CASE Keys[key[p]] = "metrics"
      <4>1. cache'["status"] = cache["status"]
        BY <1>2, <2>2, <3>2
      <4>2. Keys[key[p]] # "status"
        BY <3>2
      <4>3. contact' => contact
        BY <2>2, <4>2, Zenon
      <4> QED
        BY <4>1, <4>3 DEF LastReadingKept
    <3> QED
      BY <2>1, <3>1, <3>2
  <2> QED
    BY <1>1, <1>3, <2>2 DEF ReadKey
<1>4. ASSUME NEW p \in Polls, ReadFails(p) PROVE LastReadingKept'
  <2>1. Keys[key[p]] \in {"status", "metrics"}
    BY <1>4, ReadingTypes DEF ReadFails
  <2>2. CASE UNCHANGED cache
    BY <1>1, <1>4, <2>2 DEF ReadFails
  <2>3. CASE \E c \in WithError(cache[Keys[key[p]]]) : cache' = [cache EXCEPT ![Keys[key[p]]] = c]
    <3>1. \A c \in WithError(cache[Keys[key[p]]]) : c.by = cache[Keys[key[p]]].by
      BY <1>2, <2>1, CellTypes
    <3> QED
      BY <1>2, <1>4, <2>1, <2>3, <3>1 DEF LastReadingKept, ReadFails
  <2> QED
    BY <1>4, <2>2, <2>3 DEF ReadFails
<1>5. ASSUME NEW p \in Polls, StoreFails(p) PROVE LastReadingKept'
  <2>1. inc[p] \in Incs /\ Keys[key[p]] \in {"status", "metrics"}
    BY <1>5, ReadingTypes DEF StoreFails
  <2>2. CASE Keys[key[p]] = "metrics"
    <3>1. cache'["status"] = cache["status"] /\ UNCHANGED contact
      BY <1>2, <1>5, <2>2 DEF StoreFails
    <3> QED
      BY <3>1 DEF LastReadingKept
  <2>3. CASE Keys[key[p]] = "status"
    <3>1. PICK c \in WithError(cache["status"]) : cache' = [cache EXCEPT !["status"] = c]
      BY <1>5, <2>3 DEF StoreFails
    <3>2. c.by = cache["status"].by
      BY <1>2, CellTypes
    <3> QED
      BY <1>2, <1>5, <3>1, <3>2 DEF LastReadingKept, StoreFails
  <2> QED
    BY <2>1, <2>2, <2>3
<1>6. ASSUME NEW p \in Polls, PollStep(p) PROVE LastReadingKept'
  <2>1. CASE Begin(p) \/ ReadAborts(p)
    BY <1>1, <2>1 DEF Begin, ReadAborts, BeginOnly, db, seen
  <2>2. CASE NoConnEvent(p) \/ ConnEvent(p) \/ ConnReported(p)
    BY <1>1, <2>2 DEF NoConnEvent, ConnEvent, ConnReported, EvaluateOnly
  <2>3. CASE UpsQuiet(p) \/ UpsEvent(p) \/ UpsEventFails(p) \/ UpsReported(p) \/ DeviceGone(p)
    BY <1>1, <2>3 DEF UpsQuiet, UpsEvent, UpsEventFails, UpsReported, DeviceGone, UpsOnly
  <2> QED
    BY <1>3, <1>4, <1>5, <1>6, <2>1, <2>2, <2>3 DEF PollStep
<1>7. CASE Tick \/ TickBlind
  BY <1>1, <1>7 DEF Tick, TickBlind, TickOnly, db, seen
<1>8. CASE \E p \in Polls : Refresh(p)
  BY <1>1, <1>8 DEF Refresh, BeginOnly, db, seen
<1>9. CASE IntervalElapses \/ OtherEvent \/ Flip \/ Restart \/ UNCHANGED vars
  BY <1>1, <1>9 DEF IntervalElapses, OtherEvent, Flip, Restart, vars, db, seen
<1>10. CASE CreateDevice \/ SetEnabled \/ UpdateNotifications
  BY <1>1, <1>10 DEF CreateDevice, SetEnabled, UpdateNotifications
<1>11. CASE DeleteDevice
  BY <1>11 DEF DeleteDevice, LastReadingKept
<1> QED
  BY <1>6, <1>7, <1>8, <1>9, <1>10, <1>11 DEF Next

(* The log has room for the rows until the next check.                     *)
LEMMA RoomType ==
  ASSUME TypeOK
  PROVE  /\ Room \in Nat /\ Room >= PruneEvery
         /\ Fault => Room' = Room + PruneEvery /\ Room' \in Nat
         /\ UNCHANGED failures => Room' = Room
<1>1. failures \in Nat /\ PruneEvery \in Nat
  BY ConstantsOK DEF TypeOK, CountersOK
<1>2. Room \in Nat /\ Room >= PruneEvery
  BY <1>1 DEF Room
<1>3. ASSUME Fault PROVE Room' = Room + PruneEvery
  BY <1>1, <1>3, RoomGrows DEF Room, Fault
<1>4. ASSUME UNCHANGED failures PROVE Room' = Room
  BY <1>4 DEF Room
<1> QED
  BY <1>1, <1>2, <1>3, <1>4

LEMMA RecordedKeepsRoom == TypeOK /\ LogRoom /\ Recorded => LogRoom'
<1> SUFFICES ASSUME TypeOK, LogRoom, Recorded PROVE LogRoom'
  OBVIOUS
<1>1. /\ logged \in Nat /\ emits \in 0..(PruneEvery - 1)
      /\ MaxEvents \in Nat /\ PruneEvery \in Nat /\ PruneEvery > 1
  BY ConstantsOK DEF TypeOK, CountersOK
<1>2. emits' = IF emits = PruneEvery - 1 THEN 0 ELSE emits + 1
  BY <1>1, ModStep DEF Recorded
<1>3. CASE emits' = 1 /\ logged' = PrunedTo(logged + 1) /\ Room' = Room
  BY <1>1, <1>3, RoomType DEF LogRoom, PrunedTo
<1>4. CASE emits' # 1 /\ logged' = logged + 1 /\ Room' = Room
  BY <1>1, <1>2, <1>4, RoomType DEF LogRoom
<1>5. CASE emits' = 1 /\ logged' = logged + 1 /\ Room' = Room + PruneEvery
  BY <1>1, <1>2, <1>5, RoomType DEF LogRoom
<1> QED
  BY <1>3, <1>4, <1>5, RoomType DEF Recorded

LEMMA NextLogRoom == TypeOK /\ LogRoom /\ [Next]_vars => LogRoom'
<1> SUFFICES ASSUME TypeOK, LogRoom, [Next]_vars PROVE LogRoom'
  OBVIOUS
<1>1. /\ logged \in Nat /\ emits \in 0..(PruneEvery - 1)
      /\ MaxEvents \in Nat /\ PruneEvery \in Nat /\ PruneEvery > 1
  BY ConstantsOK DEF TypeOK, CountersOK
<1>2. CASE UNCHANGED <<logged, emits, failures>>
  BY <1>2, RoomType DEF LogRoom
<1>3. CASE UNCHANGED <<logged, emits>> /\ Fault
  BY <1>1, <1>3, RoomType DEF LogRoom
<1>4. CASE Recorded
  BY <1>4, RecordedKeepsRoom
<1>5. ASSUME NEW p \in Polls, PollStep(p) PROVE LogRoom'
  <2>1. CASE Begin(p)
    BY <1>2, <2>1 DEF Begin, BeginOnly, db
  <2>2. CASE ReadKey(p) \/ ReadFails(p) \/ StoreFails(p) \/ ReadAborts(p)
    BY <1>2, <1>3, <2>2 DEF ReadKey, ReadFails, StoreFails, ReadAborts, KeyOnly
  <2>3. CASE NoConnEvent(p)
    BY <1>2, <1>3, <2>3 DEF NoConnEvent
  <2>4. CASE ConnEvent(p) \/ UpsEvent(p)
    BY <1>4, <2>4 DEF ConnEvent, UpsEvent
  <2>5. CASE ConnReported(p) \/ UpsQuiet(p) \/ UpsReported(p) \/ DeviceGone(p)
    BY <1>2, <2>5 DEF ConnReported, UpsQuiet, UpsReported, DeviceGone
  <2>6. CASE UpsEventFails(p)
    BY <1>3, <2>6 DEF UpsEventFails
  <2> QED
    BY <1>5, <2>1, <2>2, <2>3, <2>4, <2>5, <2>6 DEF PollStep
<1>6. CASE Tick \/ TickBlind
  BY <1>2, <1>6 DEF Tick, TickBlind, TickOnly, db
<1>7. CASE \E p \in Polls : Refresh(p)
  BY <1>2, <1>7 DEF Refresh, BeginOnly, db
<1>8. CASE IntervalElapses \/ Flip \/ UNCHANGED vars
  BY <1>2, <1>8 DEF IntervalElapses, Flip, vars, db
<1>9. CASE DeleteDevice \/ CreateDevice \/ SetEnabled \/ UpdateNotifications
  BY <1>2, <1>9 DEF DeleteDevice, CreateDevice, SetEnabled, UpdateNotifications, HandlerOnly
<1>10. CASE OtherEvent
  BY <1>4, <1>10 DEF OtherEvent
<1>11. CASE Restart
  <2>1. emits' = 0 /\ logged' = logged /\ Room' = Room
    BY <1>11, RoomType DEF Restart, db
  <2> QED
    BY <1>1, <2>1, RoomType DEF LogRoom
<1> QED
  BY <1>5, <1>6, <1>7, <1>8, <1>9, <1>10, <1>11 DEF Next

-----------------------------------------------------------------------------
(* The parts of the invariant hold together.                               *)
LEMMA Inductive == Spec => []IInv
<1>1. Init => IInv
  <2> SUFFICES ASSUME Init PROVE IInv
    OBVIOUS
  <2>1. TypeOK
    BY InitType
  <2>2. NeverAhead /\ LastReadingKept
    BY DEF Init, NeverAhead, Blank, LastReadingKept
  <2>3. emits = 0 /\ logged \in {0, MaxEvents}
    BY DEF Init
  <2>4. LogRoom
    BY <2>1, <2>3, RoomType, ConstantsOK DEF LogRoom
  <2> QED
    BY <2>1, <2>2, <2>4 DEF IInv
<1>2. IInv /\ [Next]_vars => IInv'
  BY NextType, NextNeverAhead, NextLastReading, NextLogRoom DEF IInv
<1> QED
  BY <1>1, <1>2, PTL DEF Spec

(* Every reachable state is well typed.                                    *)
THEOREM TypeCorrect == Spec => []TypeOK
  BY Inductive, PTL DEF IInv

(* The row of a device shows a reading once one has been stored: errors,   *)
(* failed writes and overlapping polls never blank it (_upsert_cache).     *)
THEOREM ReadingKept == Spec => []LastReadingKept
  BY Inductive, PTL DEF IInv

(* The log overshoots by less than PruneEvery rows for every failed check  *)
(* and one more, however often the process restarts (emit_event).          *)
THEOREM LogStaysBounded == Spec => []LogBounded
<1>1. IInv => LogBounded
  <2> SUFFICES ASSUME IInv PROVE LogBounded
    OBVIOUS
  <2>1. /\ logged \in Nat /\ emits \in 0..(PruneEvery - 1)
        /\ MaxEvents \in Nat /\ PruneEvery \in Nat /\ Room \in Nat
    BY ConstantsOK, RoomType DEF IInv, TypeOK, CountersOK
  <2>2. logged < MaxEvents + Room
    BY <2>1 DEF IInv, LogRoom
  <2> QED
    BY <2>2 DEF LogBounded, Room
<1> QED
  BY <1>1, Inductive, PTL

(* Only ConnEvent commits a connectivity event.                            *)
LEMMA ConnEventOnly ==
  ASSUME TypeOK, [Next]_vars, NEW p \in Polls, Emits(p, "connTold")
  PROVE  ConnEvent(p)
<1>1. pc \in [Polls -> Phases] /\ Scheduler \in Polls
  BY DEF TypeOK, PollsOK, Polls
<1>2. pc' # pc
  BY DEF Emits
<1>3. ASSUME NEW q \in Polls, NEW ph \in Phases \ {"connTold"}, pc' = [pc EXCEPT ![q] = ph]
      PROVE  FALSE
  BY <1>1, <1>3 DEF Emits
<1>4. ASSUME NEW q \in Polls, PollStep(q) PROVE ConnEvent(p)
  <2>1. CASE ConnEvent(q)
    BY <1>1, <2>1 DEF ConnEvent, Emits
  <2>2. CASE Begin(q)
    BY <1>3, <2>2 DEF Begin, LookUp, EndPoll, Phases
  <2>3. CASE ReadKey(q) \/ ReadFails(q) \/ StoreFails(q)
    BY <1>2, <2>3 DEF ReadKey, ReadFails, StoreFails, NextKey
  <2>4. CASE ReadAborts(q) \/ UpsQuiet(q) \/ UpsEventFails(q) \/ UpsReported(q) \/ DeviceGone(q)
    BY <1>3, <2>4 DEF ReadAborts, UpsQuiet, UpsEventFails, UpsReported, DeviceGone, EndPoll, Phases
  <2>5. CASE NoConnEvent(q) \/ ConnReported(q) \/ UpsEvent(q)
    BY <1>3, <2>5 DEF NoConnEvent, ConnReported, UpsEvent, Phases
  <2> QED
    BY <1>4, <2>1, <2>2, <2>3, <2>4, <2>5 DEF PollStep
<1>5. CASE Tick
  BY <1>1, <1>2, <1>3, <1>5 DEF Tick, Spawn, Phases
<1>6. ASSUME NEW q \in Polls, Refresh(q) PROVE FALSE
  BY <1>3, <1>6 DEF Refresh, LookUp, Phases
<1>7. CASE TickBlind \/ IntervalElapses \/ OtherEvent \/ Flip \/ UNCHANGED vars
  BY <1>2, <1>7 DEF TickBlind, IntervalElapses, OtherEvent, Flip, vars, polls
<1>8. CASE DeleteDevice \/ CreateDevice \/ SetEnabled \/ UpdateNotifications
  BY <1>2, <1>8 DEF DeleteDevice, CreateDevice, SetEnabled, UpdateNotifications, HandlerOnly, polls
<1>9. CASE Restart
  BY <1>9 DEF Restart, Emits
<1> QED
  BY <1>4, <1>5, <1>6, <1>7, <1>8, <1>9 DEF Next

(* An offline event takes OfflineThreshold failures in a row, whatever     *)
(* number of polls overlap (_emit_transition_events).                      *)
THEOREM Debounced == Spec => OfflineIsDebounced
<1>1. ASSUME IInv, [Next]_vars, NEW p \in Polls, Emits(p, "connTold"), ~Ok(p)
      PROVE  streak' >= OfflineThreshold
  <2>1. /\ track \in Tracker /\ streak \in 0..Ceiling /\ OfflineThreshold \in Nat
        /\ NeverAhead
    BY <1>1, ConstantsOK DEF IInv, TypeOK, TrackOK, CountersOK
  <2>2. ConnEvent(p)
    BY <1>1, ConnEventOnly DEF IInv
  <2>3. /\ streak' = Saturated(streak + 1)
        /\ Counted(track, Ok(p)).fails >= OfflineThreshold
        /\ ~Counted(track, Ok(p)).offline
    BY <1>1, <2>2 DEF ConnEvent, Changed
  <2>4. Saturated(track.fails + 1) >= OfflineThreshold /\ ~track.offline
    BY <1>1, <2>1, <2>3 DEF Counted, Tracker
  <2>5. track.fails <= streak
    BY <2>1, <2>4 DEF NeverAhead
  <2> QED
    BY <2>1, <2>3, <2>4, <2>5 DEF Saturated, Ceiling, Tracker
<1>2. IInv /\ [Next]_vars =>
        [\A p \in Polls : Emits(p, "connTold") /\ ~Ok(p) => streak' >= OfflineThreshold]_vars
  BY <1>1
<1> QED
  BY <1>2, Inductive, PTL DEF Spec, OfflineIsDebounced

-----------------------------------------------------------------------------
(* The log of one reader.                                                  *)
Alone == Refreshers = {} /\ MaxDisturbances = 0

(* The trackers are what the log said last, except between the commit of   *)
(* an event and the return of emit_event.                                  *)
Truthful ==
  /\ Live
  /\ IF pc[Scheduler] = "connTold"
       THEN conn = IF Ok(Scheduler) THEN "online" ELSE "offline"
       ELSE track.offline <=> conn = "offline"
  /\ IF pc[Scheduler] = "upsTold" THEN said = reading[Scheduler]
                                  ELSE said \in {None, track.prev}

Alternate(p) ==
  /\ Emits(p, "connTold") => conn' # conn
  /\ Emits(p, "upsTold") => said' # said

(* Readers that leave words and trackers alone, and are not about to await *)
(* a report.                                                               *)
LEMMA QuietTruth ==
  ASSUME Truthful, UNCHANGED <<device, enabled, conn, said, track>>,
         pc[Scheduler] \notin {"connTold", "upsTold"},
         pc'[Scheduler] \notin {"connTold", "upsTold"}
  PROVE  Truthful' /\ Alternate(Scheduler)
BY DEF Truthful, Alternate, Live, Emits

LEMMA SameTruth ==
  ASSUME Truthful, UNCHANGED <<device, enabled, conn, said, track, pc, reading>>
  PROVE  Truthful' /\ Alternate(Scheduler)
BY DEF Truthful, Alternate, Live, Emits, Ok

(* Without other readers and disturbances only these steps are left.       *)
LEMMA AloneSteps ==
  ASSUME Alone, TypeOK, Live, [Next]_vars
  PROVE  \/ Tick \/ IntervalElapses \/ Flip \/ UNCHANGED vars
         \/ PollStep(Scheduler)
<1>1. ~Disturb /\ device # None
  BY DEF Alone, TypeOK, CountersOK, Disturb, Live
<1>2. \A p \in Polls : p = Scheduler
  BY DEF Alone, Polls
<1> QED
  BY <1>1, <1>2 DEF Next, TickBlind, OtherEvent, DeleteDevice, CreateDevice, SetEnabled,
                    UpdateNotifications, Restart, Refresh, Alone

LEMMA StepTruthful ==
  ASSUME Alone, TypeOK, Truthful, [Next]_vars
  PROVE  Truthful' /\ Alternate(Scheduler)
<1> DEFINE S == Scheduler
<1>1. /\ pc \in [Polls -> Phases] /\ reading \in [Polls -> States \cup {None}] /\ S \in Polls
      /\ track \in Tracker
  BY DEF TypeOK, PollsOK, Polls, TrackOK
<1>2. CASE IntervalElapses \/ Flip \/ UNCHANGED vars
  BY <1>2, SameTruth DEF IntervalElapses, Flip, vars, db, polls, seen
<1>3. CASE Tick
  <2>1. UNCHANGED <<device, enabled, conn, said, track, reading>>
    BY <1>3 DEF Tick, TickOnly, db, seen, Truthful
  <2>2. CASE pc' = pc
    BY <2>1, <2>2, SameTruth
  <2>3. CASE pc' # pc
    <3>1. pc[S] = "idle" /\ pc'[S] = "spawned"
      BY <1>1, <1>3, <2>3 DEF Tick, Spawn
    <3> QED
      BY <2>1, <3>1, QuietTruth
  <2> QED
    BY <2>2, <2>3
<1>4. CASE Begin(S)
  <2>1. pc[S] = "spawned" /\ pc'[S] \in {"reading", "idle"}
    BY <1>1, <1>4 DEF Begin, LookUp, EndPoll
  <2> QED
    BY <1>4, <2>1, QuietTruth DEF Begin, BeginOnly, db, seen
<1>5. CASE ReadKey(S) \/ ReadFails(S) \/ StoreFails(S) \/ ReadAborts(S)
  <2>1. pc[S] = "reading" /\ pc'[S] \in {"reading", "idle"}
    BY <1>1, <1>5 DEF ReadKey, ReadFails, StoreFails, ReadAborts, NextKey, EndPoll, Reading
  <2>2. KeyOnly
    BY <1>5 DEF ReadKey, ReadFails, StoreFails, ReadAborts
  <2> QED
    BY <2>1, <2>2, QuietTruth DEF KeyOnly
<1>6. CASE NoConnEvent(S)
  <2>1. pc[S] = "reading" /\ pc'[S] = "ups" /\ UNCHANGED <<device, enabled, conn, said>>
    BY <1>1, <1>6 DEF NoConnEvent, Evaluating, EvaluateOnly
  <2>2. track'.offline = track.offline /\ track'.prev = track.prev
    BY <1>1, <1>6 DEF NoConnEvent, Settled, Counted, Tracker
  <2> QED
    BY <2>1, <2>2 DEF Truthful, Alternate, Live, Emits
<1>7. CASE ConnEvent(S)
  <2>1. /\ pc[S] = "reading" /\ pc'[S] = "connTold"
        /\ UNCHANGED <<device, enabled, said, reading>>
        /\ conn' = IF Ok(S) THEN "online" ELSE "offline"
    BY <1>1, <1>7 DEF ConnEvent, Evaluating, EvaluateOnly
  <2>2. track'.prev = track.prev /\ (Ok(S) <=> track.offline)
    BY <1>1, <1>7 DEF ConnEvent, Changed, Counted, Tracker
  <2>3. Ok(S)' <=> Ok(S)
    BY <2>1 DEF Ok
  <2> QED
    BY <2>1, <2>2, <2>3 DEF Truthful, Alternate, Live, Emits
<1>8. CASE ConnReported(S)
  <2>1. /\ pc[S] = "connTold" /\ pc'[S] = "ups"
        /\ UNCHANGED <<device, enabled, conn, said, reading>>
    BY <1>1, <1>8 DEF ConnReported, EvaluateOnly
  <2>2. track'.prev = track.prev /\ track'.offline = ~Ok(S)
    BY <1>1, <1>8 DEF ConnReported, Settled, Tracker
  <2> QED
    BY <2>1, <2>2 DEF Truthful, Alternate, Live, Emits
<1>9. CASE UpsQuiet(S)
  <2>1. /\ pc[S] = "ups" /\ pc'[S] = "idle" /\ UNCHANGED <<device, enabled, conn, said>>
    BY <1>1, <1>9 DEF UpsQuiet, EndPoll, UpsOnly
  <2>2. track'.offline = track.offline /\ (track'.prev = track.prev \/ track.prev = None)
    BY <1>1, <1>9 DEF UpsQuiet, Tracker
  <2> QED
    BY <2>1, <2>2 DEF Truthful, Alternate, Live, Emits
<1>10. CASE UpsEvent(S)
  <2>1. /\ pc[S] = "ups" /\ pc'[S] = "upsTold" /\ said' = reading[S]
        /\ UNCHANGED <<device, enabled, conn, track, reading>>
    BY <1>1, <1>10 DEF UpsEvent, UpsChanged, UpsOnly
  <2>2. reading[S] # track.prev /\ reading[S] # None
    BY <1>10 DEF UpsEvent, UpsChanged, SameState, Ok
  <2> QED
    BY <2>1, <2>2 DEF Truthful, Alternate, Live, Emits
<1>11. CASE UpsEventFails(S) \/ DeviceGone(S)
  <2>1. pc[S] \in {"ups", "reading"} /\ pc'[S] = "idle"
    BY <1>1, <1>11 DEF UpsEventFails, UpsChanged, DeviceGone, Evaluating, EndPoll
  <2> QED
    BY <1>11, <2>1, QuietTruth DEF UpsEventFails, DeviceGone, UpsOnly
<1>12. CASE UpsReported(S)
  <2>1. /\ pc[S] = "upsTold" /\ pc'[S] = "idle"
        /\ UNCHANGED <<device, enabled, conn, said>>
    BY <1>1, <1>12 DEF UpsReported, EndPoll, UpsOnly
  <2>2. track'.offline = track.offline /\ track'.prev = reading[S]
    BY <1>1, <1>12 DEF UpsReported, Tracker
  <2> QED
    BY <2>1, <2>2 DEF Truthful, Alternate, Live, Emits
<1> QED
  BY <1>2, <1>3, <1>4, <1>5, <1>6, <1>7, <1>8, <1>9, <1>10, <1>11, <1>12, AloneSteps
     DEF PollStep, Truthful

(* With the scheduler as the only reader of a device nobody edits, offline *)
(* and online take turns in the log and no state of a UPS comes twice in a *)
(* row, whichever events fail to be written and whatever is awaited.       *)
THEOREM TakingTurns ==
  ASSUME Alone
  PROVE  Spec => TransitionsAlternate
<1>1. Init => TypeOK /\ Truthful
  <2> SUFFICES ASSUME Init PROVE Truthful
    BY InitType
  <2>1. Scheduler \in Polls /\ device # None /\ None # "offline"
    BY ConstantsOK, NoWord DEF Polls, Init
  <2> QED
    BY <2>1 DEF Init, Truthful, Live, Blank
<1>2. TypeOK /\ Truthful /\ [Next]_vars => (TypeOK /\ Truthful)'
  BY NextType, StepTruthful
<1>3. TypeOK /\ Truthful /\ [Next]_vars =>
        [\A p \in Polls :
           /\ Emits(p, "connTold") => conn' # conn
           /\ Emits(p, "upsTold") => said' # said]_vars
  <2>1. \A p \in Polls : p = Scheduler
    BY DEF Alone, Polls
  <2> QED
    BY <2>1, StepTruthful DEF Alternate
<1> QED
  BY <1>1, <1>2, <1>3, PTL DEF Spec, TransitionsAlternate

=============================================================================

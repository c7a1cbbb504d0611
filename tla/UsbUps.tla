------------------------------- MODULE UsbUps -------------------------------
(***************************************************************************)
(* Reading a UPS over USB (USBUPSAdapter).  Polls, connection tests and    *)
(* diagnostics run in threads and share the process-wide _USB_LOCK, the    *)
(* parsed report descriptor, the time of the last bus reset and the state  *)
(* of the jump filter.  The device is flaky: it stops accepting an open,   *)
(* loses a report or answers with garbage within the physical bounds.     *)
(* Two reports stand for all: the charge, for the numbers, and the flags.  *)
(***************************************************************************)
EXTENDS Integers, Sequences, FiniteSets

CONSTANTS UpsReaders,   \* threads that may read: "poll..", "test", "diag"
          UpsCases,     \* scenarios: [readers, reads, faults, changes,
                        \* time]: who reads, and how often things happen
          UpsLevels,    \* what the battery charge can be
          UpsGarbage,   \* what a garbage report decodes to, out of bounds too
          UpsTop,       \* the upper physical bound (100)
          UpsStep,      \* _METRIC_MAX_STEP of the charge (10)
          UpsMaxReject, \* _MAX_CONSEC_REJECT (2)
          UpsLow,       \* low_charge_pct (20)
          UpsTries,     \* attempts of a read (4)
          UpsCooldown   \* _RESET_COOLDOWN, in ticks

ASSUME UpsConstantsOK ==
  /\ {UpsTop, UpsStep, UpsMaxReject, UpsLow, UpsCooldown} \subseteq Nat
  /\ UpsTries \in Nat \ {0} /\ "nobody" \notin UpsReaders
  /\ UpsLevels \subseteq 0..UpsTop /\ UpsGarbage \subseteq Int
  /\ \A c \in UpsCases : {c.reads, c.faults, c.changes, c.time} \subseteq Nat

VARIABLES scene,     \* the scenario of this behaviour
          ups,       \* the device: mains, level, wedged
          reader,    \* the course of each reader
          usbLock,   \* _USB_LOCK: its holder, or nobody
          shared,    \* module state: fields, filter (last, rejects), reset
          left,      \* what may still happen; now: ticks so far
          seen       \* history: resets, numbers fed to the filter, status

upsVars == <<scene, ups, reader, usbLock, shared, left, seen>>

Nobody == "nobody"
Missing == -1       \* None
Never == -1
NoReading == [charge |-> Missing, flags |-> "unknown", torn |-> FALSE]
NewReader == [pc |-> "idle", key |-> "status", attempt |-> 0,
              handle |-> FALSE, got |-> NoReading, mains |-> {}]
FreshProcess == [fields |-> "none", last |-> Missing, rejects |-> 0,
                 reset |-> Never]
NoHistory == [resets |-> <<>>, fed |-> <<>>,
              status |-> [state |-> "none", flags |-> "unknown",
                          torn |-> FALSE, mains |-> {}]]

UpsInit ==
  /\ scene \in UpsCases
  /\ ups \in [mains : {TRUE}, level : UpsLevels, wedged : {FALSE}]
  /\ reader = [r \in UpsReaders |-> NewReader]
  /\ usbLock = Nobody
  /\ shared = FreshProcess
  /\ left = [reads |-> scene.reads, faults |-> scene.faults,
             changes |-> scene.changes, now |-> 0]
  /\ seen = NoHistory

IsPoll(r) == r \notin {"test", "diag"}
Tries(r) == IF r = "diag" THEN 1 ELSE UpsTries
UpsFault == left.faults > 0 /\ left' = [left EXCEPT !.faults = @ - 1]
UpsChange == left.changes > 0 /\ left' = [left EXCEPT !.changes = @ - 1]
Moves(r, pc) == reader' = [reader EXCEPT ![r].pc = pc]
Reading == {"parse", "charge", "flags", "close"}
Held == {r \in UpsReaders : reader[r].handle}

(***************************************************************************)
(* A read: lock, then open, descriptor and reports in up to four attempts. *)
(***************************************************************************)
StartRead(r) ==
  /\ reader[r].pc = "idle" /\ r \in scene.readers
  /\ left.reads > 0 /\ left' = [left EXCEPT !.reads = @ - 1]
  /\ reader' = [reader EXCEPT ![r] = [NewReader EXCEPT !.pc = "want"]]
  /\ UNCHANGED <<scene, ups, usbLock, shared, seen>>

TakeLock(r) ==
  /\ reader[r].pc = "want" /\ usbLock = Nobody
  /\ usbLock' = r
  /\ Moves(r, "open")
  /\ UNCHANGED <<scene, ups, shared, left, seen>>

OpenDevice(r) ==
  /\ reader[r].pc = "open"
  /\ ~ups.wedged /\ Held = {}
  /\ reader' = [reader EXCEPT ![r] =
       [@ EXCEPT !.pc = "parse", !.handle = TRUE, !.mains = {ups.mains}]]
  /\ UNCHANGED <<scene, ups, usbLock, shared, left, seen>>

(* The next attempt, after a short sleep, or the last exception.           *)
Again(r) ==
  LET tried == reader[r].attempt + 1 IN
  reader' = [reader EXCEPT ![r] =
    [@ EXCEPT !.attempt = tried, !.handle = FALSE,
              !.pc = IF tried < Tries(r) THEN "open" ELSE "raise"]]

(* On the second failed open the bus is reset, if the cooldown is over and *)
(* the process may; whether that helps is up to the device.                *)
MayResetAgain(r) == reader[r].attempt = 1    \* mutant: no cooldown

MayReset(r) ==
  /\ reader[r].attempt = 1
  /\ \/ shared.reset = Never
     \/ left.now - shared.reset >= UpsCooldown

OpenFails(r) ==
  /\ reader[r].pc = "open"
  /\ \/ (ups.wedged \/ Held # {}) /\ UNCHANGED left
     \/ UpsFault
  /\ Again(r)
  /\ \/ /\ MayReset(r)
        /\ shared' = [shared EXCEPT !.reset = left.now]
        /\ seen' = [seen EXCEPT !.resets = Append(@, left.now)]
        /\ \E helps \in BOOLEAN :
             ups' = [ups EXCEPT !.wedged = @ /\ ~helps]
     \/ UNCHANGED <<ups, shared, seen>>
  /\ UNCHANGED <<scene, usbLock>>

(* The descriptor is parsed once and kept, also a short one that a pinned  *)
(* device gave; reading it is what can fail in an attempt after the open.  *)
ParseDescriptor(r) ==
  /\ reader[r].pc = "parse"
  /\ \/ /\ \E f \in {"full", "short"} :
             /\ shared' = [shared EXCEPT !.fields = IF @ = "none" THEN f ELSE @]
             /\ IF shared.fields = "none" /\ f = "short" THEN UpsFault
                ELSE UNCHANGED left
        /\ Moves(r, "charge")
     \/ /\ shared.fields = "none" /\ UpsFault
        /\ Again(r) /\ UNCHANGED shared
  /\ UNCHANGED <<scene, ups, usbLock, seen>>

(* A report.  A failed or mismatched answer is no exception: its values    *)
(* are None; so is a number outside its physical bounds.                   *)
Gives(x, truth, none) ==
  \/ shared.fields = "full" /\ x = truth /\ UNCHANGED left
  \/ shared.fields # "full" /\ x = none /\ UNCHANGED left
  \/ shared.fields = "full" /\ x = none /\ UpsFault

Sane(g) == IF g \in 0..UpsTop THEN g ELSE Missing
Decoded == {Sane(g) : g \in UpsGarbage}

ReadCharge(r) ==
  /\ reader[r].pc = "charge"
  /\ \E x \in UpsLevels \union Decoded \union {Missing} :
       /\ \/ Gives(x, ups.level, Missing)
          \/ shared.fields = "full" /\ x \in Decoded /\ UpsFault
       /\ reader' = [reader EXCEPT ![r] =
            [@ EXCEPT !.pc = "flags", !.got = [reader[r].got EXCEPT !.charge = x]]]
  /\ UNCHANGED <<scene, ups, usbLock, shared, seen>>

(* Bits have no bounds to fall out of: a torn report is decoded like any   *)
(* other.  (That it was torn is an observation.)                           *)
ReadFlags(r) ==
  /\ reader[r].pc = "flags"
  /\ \E x \in {"mains", "battery", "unknown"}, torn \in BOOLEAN :
       /\ \/ ~torn /\ Gives(x, IF ups.mains THEN "mains" ELSE "battery", "unknown")
          \/ torn /\ shared.fields = "full" /\ x # "unknown" /\ UpsFault
       /\ reader' = [reader EXCEPT ![r] =
            [@ EXCEPT !.pc = "close",
                      !.got = [reader[r].got EXCEPT !.flags = x, !.torn = torn]]]
  /\ UNCHANGED <<scene, ups, usbLock, shared, seen>>

(* The handle is closed and the lock released; a poll goes on in the event *)
(* loop, tests and diagnostics only show what was read.                    *)
EndRead(r) ==
  /\ reader[r].pc = "close"
  /\ usbLock' = Nobody
  /\ reader' = [reader EXCEPT ![r] =
       IF IsPoll(r) THEN [@ EXCEPT !.pc = "deliver", !.handle = FALSE]
       ELSE NewReader]
  /\ UNCHANGED <<scene, ups, shared, left, seen>>

(* A poll whose status key failed reads again for the metrics key.         *)
RaiseError(r) ==
  /\ reader[r].pc = "raise"
  /\ usbLock' = Nobody
  /\ reader' = [reader EXCEPT ![r] =
       IF IsPoll(r) /\ @.key = "status"
       THEN [NewReader EXCEPT !.pc = "want", !.key = "metrics"]
       ELSE NewReader]
  /\ UNCHANGED <<scene, ups, shared, left, seen>>

(***************************************************************************)
(* What a poll makes of a reading.                                         *)
(***************************************************************************)
StateByCharge(got) ==              \* mutant: no charge, no state
  CASE got.flags = "battery" /\ got.charge \in 0..UpsLow -> "low_battery"
    [] got.flags = "battery" /\ got.charge > UpsLow -> "on_battery"
    [] got.flags # "battery" \/ got.charge = Missing -> "online"

State(got) ==
  CASE got.flags = "battery" /\ got.charge # Missing /\ got.charge <= UpsLow ->
         "low_battery"
    [] got.flags = "battery" /\ (got.charge = Missing \/ got.charge > UpsLow) ->
         "on_battery"
    [] got.flags # "battery" -> "online"

Far(a, b) == IF a < b THEN b - a > UpsStep ELSE a - b > UpsStep
RejectedOnceMore(f, x) ==          \* mutant: off by one
  f.last # Missing /\ Far(f.last, x) /\ f.rejects <= UpsMaxReject

Rejected(f, x) ==
  f.last # Missing /\ Far(f.last, x) /\ f.rejects < UpsMaxReject
FilteredForGood(f, x) ==           \* mutant: the count is not taken back
  IF Rejected(f, x) THEN [f EXCEPT !.rejects = @ + 1]
  ELSE [f EXCEPT !.last = x]

Filtered(f, x) ==
  IF Rejected(f, x) THEN [f EXCEPT !.rejects = @ + 1]
  ELSE [f EXCEPT !.rejects = 0, !.last = x]

Fed(h, x) == IF Len(h) <= UpsMaxReject THEN Append(h, x) ELSE Append(Tail(h), x)

Deliver(r) ==
  /\ reader[r].pc = "deliver"
  /\ LET got == reader[r].got IN
     /\ shared' = IF got.charge = Missing THEN shared
                  ELSE Filtered(shared, got.charge)
     /\ seen' = [seen EXCEPT
          !.fed = IF got.charge = Missing THEN @ ELSE Fed(@, got.charge),
          !.status = IF reader[r].key = "status"
                     THEN [state |-> State(got), flags |-> got.flags,
                           torn |-> got.torn, mains |-> reader[r].mains]
                     ELSE @]
  /\ reader' = [reader EXCEPT ![r] = NewReader]
  /\ UNCHANGED <<scene, ups, usbLock, left>>

(***************************************************************************)
(* The world: the mains, the battery, a wedged bus, time, and a restart of *)
(* the process, which forgets the module state.                            *)
(***************************************************************************)
MainsChange ==
  /\ UpsChange
  /\ ups' = [ups EXCEPT !.mains = ~@]
  /\ reader' = [r \in UpsReaders |-> IF reader[r].pc \in Reading
                  THEN [reader[r] EXCEPT !.mains = @ \union {~ups.mains}]
                  ELSE reader[r]]
  /\ UNCHANGED <<scene, usbLock, shared, seen>>

LevelChange ==
  /\ UpsChange
  /\ \E l \in UpsLevels \ {ups.level} : ups' = [ups EXCEPT !.level = l]
  /\ UNCHANGED <<scene, reader, usbLock, shared, seen>>

Wedge ==
  /\ ~ups.wedged /\ UpsFault
  /\ ups' = [ups EXCEPT !.wedged = TRUE]
  /\ UNCHANGED <<scene, reader, usbLock, shared, seen>>

Tick ==
  /\ left.now < scene.time
  /\ left' = [left EXCEPT !.now = @ + 1]
  /\ UNCHANGED <<scene, ups, reader, usbLock, shared, seen>>

ProcessRestart ==
  /\ UpsFault
  /\ reader' = [r \in UpsReaders |-> NewReader]
  /\ usbLock' = Nobody
  /\ shared' = FreshProcess
  /\ seen' = NoHistory
  /\ UNCHANGED <<scene, ups>>

ReaderStep(r) ==
  \/ TakeLock(r) \/ OpenDevice(r) \/ OpenFails(r) \/ ParseDescriptor(r)
  \/ ReadCharge(r) \/ ReadFlags(r) \/ EndRead(r) \/ RaiseError(r) \/ Deliver(r)
UpsNext == \/ \E r \in UpsReaders : StartRead(r) \/ ReaderStep(r)
           \/ MainsChange \/ LevelChange \/ Wedge \/ Tick \/ ProcessRestart

UpsSpec == /\ UpsInit /\ [][UpsNext]_upsVars
           /\ \A r \in UpsReaders : WF_upsVars(ReaderStep(r))

-----------------------------------------------------------------------------
(* Well typed; a handle is held under the lock only, so two readers never  *)
(* meet on the device (which takes one opener) and fail with EBUSY.        *)
UpsTypeOK ==
  /\ scene \in UpsCases
  /\ ups \in [mains : BOOLEAN, level : UpsLevels, wedged : BOOLEAN]
  /\ \A r \in UpsReaders :
       /\ reader[r].pc \in {"idle", "want", "open", "raise", "deliver"}
                             \union Reading
       /\ reader[r].attempt \in 0..UpsTries
       /\ reader[r].got.charge \in {Missing} \union 0..UpsTop
       /\ reader[r].handle => usbLock = r
  /\ shared.rejects \in 0..UpsMaxReject
  /\ shared.fields \in {"none", "full", "short"}

(* Bus resets are at least a cooldown apart, whoever reads and however     *)
(* often opens fail, and none hits a reader that has the device open.      *)
ResetsRareAndAlone ==
  /\ \A n \in 2..Len(seen.resets) :
       seen.resets[n] - seen.resets[n - 1] >= UpsCooldown
  /\ \A r \in UpsReaders :
       reader[r].pc = "open" => Held \subseteq {r} /\ usbLock = r

(* The graph follows the battery: a level read three times in a row is     *)
(* stored, and a jump only when the two numbers read before it were far    *)
(* from the stored level as well.                                          *)
Steady(x) == /\ Len(seen.fed) = UpsMaxReject + 1
             /\ \A n \in 1..Len(seen.fed) : seen.fed[n] = x
LastingLevelStored == \A x \in 0..UpsTop : Steady(x) => shared.last = x
ConfirmedJump ==
  (shared.last # Missing /\ shared'.last # Missing
     /\ Far(shared.last, shared'.last))
  => /\ Len(seen.fed) >= UpsMaxReject
     /\ \A n \in (Len(seen.fed) - UpsMaxReject + 1)..Len(seen.fed) :
          Far(shared.last, seen.fed[n])
GraphFollowsLevel == []LastingLevelStored /\ [][ConfirmedJump]_upsVars

(* The status tells what the mains were while the UPS was read: only a     *)
(* lost or torn flags report makes an outage look like mains, only a torn  *)
(* one makes mains look like an outage, and a charge that is lost or       *)
(* garbage does neither.                                                   *)
StatusFollowsFlags ==
  /\ seen.status.state = "online" /\ seen.status.mains = {FALSE}
       => seen.status.flags = "unknown" \/ seen.status.torn
  /\ seen.status.state \in {"on_battery", "low_battery"}
       => FALSE \in seen.status.mains \/ seen.status.torn

(* No read is under way: each has ended with a reading or an error.        *)
UpsAtRest == \A r \in UpsReaders : reader[r].pc = "idle"
=============================================================================

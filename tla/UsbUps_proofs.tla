--------------------------- MODULE UsbUps_proofs ---------------------------
(***************************************************************************)
(* Proofs about UsbUps, for any readers, battery levels, garbage, jump     *)
(* bounds and cooldowns: one opener at a time, resets rare and alone, an   *)
(* outage is hidden only by a lost or torn flags report, and the graph     *)
(* follows the battery.  The invariant has a part for each: who holds the  *)
(* lock, how many attempts are left and what the mains were during a read  *)
(* (ReaderOK), the status last told (StatusOK), the last reset (ResetsOK), *)
(* and the last numbers fed to the filter (FilterOK).                      *)
(***************************************************************************)
EXTENDS UsbUps, TLAPS

Charges == {Missing} \union 0..UpsTop
Flags == {"mains", "battery", "unknown"}
Holding == {"open", "raise"} \union Reading
Readings == [charge : Charges, flags : Flags, torn : BOOLEAN]
ReaderType ==
  [pc : {"idle", "want", "deliver"} \union Holding, key : {"status", "metrics"},
   attempt : Nat, handle : BOOLEAN, got : Readings,
   mains : SUBSET BOOLEAN]
StatusType ==
  [state : {"none", "online", "on_battery", "low_battery"}, flags : Flags,
   torn : BOOLEAN, mains : SUBSET BOOLEAN]
SharedType ==
  [fields : {"none", "full", "short"}, last : Charges, rejects : 0..UpsMaxReject,
   reset : {Never} \union Nat]
LeftType == [reads : Nat, faults : Nat, changes : Nat, now : Nat]
SeenType == [resets : Seq(Nat), fed : Seq(0..UpsTop), status : StatusType]

UpsTypes ==
  /\ scene \in UpsCases
  /\ ups \in [mains : BOOLEAN, level : UpsLevels, wedged : BOOLEAN]
  /\ reader \in [UpsReaders -> ReaderType]
  /\ shared \in SharedType
  /\ left \in LeftType
  /\ seen \in SeenType

-----------------------------------------------------------------------------
LEMMA Constants ==
  /\ UpsTop \in Nat /\ UpsStep \in Nat /\ UpsMaxReject \in Nat /\ UpsCooldown \in Nat
  /\ UpsLow \in Nat
  /\ UpsTries \in Nat /\ UpsTries > 0
  /\ UpsLevels \subseteq 0..UpsTop
  /\ Nobody \notin UpsReaders
BY UpsConstantsOK DEF Nobody

LEMMA CasesTyped ==
  ASSUME NEW c \in UpsCases
  PROVE  c.reads \in Nat /\ c.faults \in Nat /\ c.changes \in Nat /\ c.time \in Nat
BY UpsConstantsOK

(* A report yields a charge within its physical bounds, or None.           *)
LEMMA ChargesTyped == UpsLevels \union Decoded \union {Missing} \subseteq Charges
BY Constants DEF Decoded, Sane, Charges, Missing

LEMMA NewTyped ==
  /\ NewReader \in ReaderType
  /\ NewReader.pc = "idle" /\ ~NewReader.handle /\ NewReader.attempt = 0
  /\ NewReader.got.flags = "unknown"
BY Constants DEF NewReader, ReaderType, NoReading, Readings, Charges, Flags, Missing,
                 Holding


LEMMA FilteredTyped ==
  ASSUME NEW f \in SharedType, NEW x \in 0..UpsTop
  PROVE  /\ Filtered(f, x) \in SharedType
         /\ Filtered(f, x).fields = f.fields /\ Filtered(f, x).reset = f.reset
         /\ Filtered(f, x).last = (IF Rejected(f, x) THEN f.last ELSE x)
         /\ Filtered(f, x).rejects = (IF Rejected(f, x) THEN f.rejects + 1 ELSE 0)
<1>1. x \in Charges /\ 0 \in 0..UpsMaxReject
  BY Constants DEF Charges
<1>2. CASE Rejected(f, x)
  BY <1>2, Constants DEF Filtered, Rejected, SharedType
<1>3. CASE ~Rejected(f, x)
  BY <1>1, <1>3 DEF Filtered, SharedType
<1> QED
  BY <1>2, <1>3

(* The numbers fed last: at most one more than the filter rejects.         *)
LEMMA FedTyped ==
  ASSUME NEW h \in Seq(0..UpsTop), NEW x \in 0..UpsTop
  PROVE  Fed(h, x) \in Seq(0..UpsTop)
<1>1. CASE Len(h) <= UpsMaxReject
  BY <1>1 DEF Fed
<1>2. CASE ~(Len(h) <= UpsMaxReject)
  <2>1. Tail(h) \in Seq(0..UpsTop)
    BY <1>2, Constants
  <2>2. Fed(h, x) = Append(Tail(h), x)
    BY <1>2 DEF Fed
  <2> QED
    BY <2>1, <2>2
<1> QED
  BY <1>1, <1>2

(* The state says battery just when the flags do.                          *)
LEMMA StateTyped ==
  ASSUME NEW got \in Readings
  PROVE  /\ got.flags = "battery" => State(got) \in {"on_battery", "low_battery"}
         /\ got.flags # "battery" => State(got) = "online"
<1>1. CASE got.flags # "battery"
  BY <1>1, Zenon DEF State
<1>2. CASE got.flags = "battery"
  <2>1. got.charge \in Int
    BY Constants DEF Readings, Charges, Missing
  <2>2. CASE got.charge # Missing /\ got.charge <= UpsLow
    BY <1>2, <2>2 DEF State
  <2>3. CASE got.charge = Missing \/ got.charge > UpsLow
    BY <1>2, <2>3, <2>1, Constants DEF State
  <2> QED
    BY <2>1, <2>2, <2>3, Constants
<1> QED
  BY <1>1, <1>2

-----------------------------------------------------------------------------
(* What each step makes of its reader.                                     *)
Becomes(r, x) == x \in ReaderType /\ reader' = [reader EXCEPT ![r] = x]

(* A reader whose place alone changes.                                     *)
At(r, x, pc) ==
  /\ x.pc = pc /\ x.key = reader[r].key /\ x.attempt = reader[r].attempt
  /\ x.handle = reader[r].handle /\ x.got = reader[r].got
  /\ x.mains = reader[r].mains

Places == {"idle", "want", "deliver"} \union Holding

LEMMA MovesTyped ==
  ASSUME UpsTypes, NEW r \in UpsReaders, NEW pc \in Places, Moves(r, pc)
  PROVE  \E x : Becomes(r, x) /\ At(r, x, pc)
<1> DEFINE x == [reader[r] EXCEPT !.pc = pc]
<1>1. x \in ReaderType /\ At(r, x, pc)
  BY DEF UpsTypes, ReaderType, Places, At
<1>2. reader' = [reader EXCEPT ![r] = x]
  BY DEF Moves
<1> QED
  BY <1>1, <1>2 DEF Becomes

LEMMA StartTyped ==
  ASSUME UpsTypes, NEW r \in UpsReaders, StartRead(r)
  PROVE  \E x : /\ Becomes(r, x) /\ x.pc = "want" /\ ~x.handle
                /\ x.attempt = 0 /\ x.got.flags = "unknown"
<1> DEFINE x == [NewReader EXCEPT !.pc = "want"]
<1>1. x \in ReaderType /\ x.pc = "want" /\ x.handle = NewReader.handle
      /\ x.attempt = NewReader.attempt /\ x.got = NewReader.got
  BY NewTyped DEF ReaderType
<1> QED
  BY <1>1, NewTyped DEF StartRead, Becomes

LEMMA OpenTyped ==
  ASSUME UpsTypes, NEW r \in UpsReaders, OpenDevice(r)
  PROVE  \E x : /\ Becomes(r, x) /\ x.pc = "parse" /\ x.mains = {ups.mains}
                /\ x.attempt = reader[r].attempt /\ x.got = reader[r].got
<1> DEFINE x == [reader[r] EXCEPT !.pc = "parse", !.handle = TRUE, !.mains = {ups.mains}]
<1>1. x \in ReaderType /\ x.pc = "parse" /\ x.mains = {ups.mains}
      /\ x.attempt = reader[r].attempt /\ x.got = reader[r].got
  BY DEF UpsTypes, ReaderType, Holding, Reading
<1> QED
  BY <1>1 DEF OpenDevice, Becomes

LEMMA AgainTyped ==
  ASSUME UpsTypes, NEW r \in UpsReaders, Again(r)
  PROVE  \E x : /\ Becomes(r, x) /\ ~x.handle /\ x.got = reader[r].got
                /\ x.attempt = reader[r].attempt + 1
                /\ x.pc = IF x.attempt < Tries(r) THEN "open" ELSE "raise"
<1> DEFINE n == reader[r].attempt + 1
           pc == IF n < Tries(r) THEN "open" ELSE "raise"
           x == [reader[r] EXCEPT !.attempt = n, !.handle = FALSE, !.pc = pc]
<1>1. reader' = [reader EXCEPT ![r] = x]
  BY Zenon DEF Again
<1>2. n \in Nat /\ pc \in {"open", "raise"}
  BY DEF UpsTypes, ReaderType
<1> HIDE DEF n, pc
<1>3. x \in ReaderType /\ ~x.handle /\ x.got = reader[r].got
      /\ x.attempt = n /\ x.pc = pc
  BY <1>2 DEF UpsTypes, ReaderType, Holding, Reading
<1> QED
  BY <1>1, <1>3 DEF Becomes, n, pc

LEMMA ChargeTyped ==
  ASSUME UpsTypes, NEW r \in UpsReaders, ReadCharge(r)
  PROVE  \E x : /\ Becomes(r, x) /\ x.pc = "flags" /\ x.attempt = reader[r].attempt
                /\ x.got.flags = reader[r].got.flags /\ x.got.torn = reader[r].got.torn
                /\ x.mains = reader[r].mains
<1>1. PICK c \in Charges : reader' = [reader EXCEPT ![r] =
             [@ EXCEPT !.pc = "flags", !.got = [reader[r].got EXCEPT !.charge = c]]]
  BY ChargesTyped DEF ReadCharge
<1> DEFINE y == [reader[r].got EXCEPT !.charge = c]
           x == [reader[r] EXCEPT !.pc = "flags", !.got = y]
<1>2. y \in Readings /\ y.flags = reader[r].got.flags
      /\ y.torn = reader[r].got.torn
  BY DEF UpsTypes, ReaderType, Readings
<1>3. reader' = [reader EXCEPT ![r] = x]
  BY <1>1, Zenon
<1> HIDE DEF y
<1>4. x \in ReaderType /\ x.pc = "flags" /\ x.got = y /\ x.mains = reader[r].mains
      /\ x.attempt = reader[r].attempt
  BY <1>2 DEF UpsTypes, ReaderType, Reading, Holding
<1> QED
  BY <1>2, <1>3, <1>4 DEF Becomes

TrueFlags == {"unknown", IF ups.mains THEN "mains" ELSE "battery"}

LEMMA FlagsTyped ==
  ASSUME UpsTypes, NEW r \in UpsReaders, ReadFlags(r)
  PROVE  \E x : /\ Becomes(r, x) /\ x.pc = "close" /\ x.attempt = reader[r].attempt
                /\ x.got.torn \/ x.got.flags \in TrueFlags
                /\ x.mains = reader[r].mains
<1>1. PICK f \in Flags, b \in BOOLEAN :
        /\ b \/ Gives(f, IF ups.mains THEN "mains" ELSE "battery", "unknown")
        /\ reader' = [reader EXCEPT ![r] =
             [@ EXCEPT !.pc = "close",
                       !.got = [reader[r].got EXCEPT !.flags = f, !.torn = b]]]
  BY DEF ReadFlags, Flags
<1> DEFINE y == [reader[r].got EXCEPT !.flags = f, !.torn = b]
           x == [reader[r] EXCEPT !.pc = "close", !.got = y]
<1>2. y \in Readings /\ y.flags = f /\ y.torn = b
  BY DEF UpsTypes, ReaderType, Readings
<1>3. reader' = [reader EXCEPT ![r] = x]
  BY <1>1, Zenon
<1> HIDE DEF y
<1>4. x \in ReaderType /\ x.pc = "close" /\ x.got = y /\ x.mains = reader[r].mains
      /\ x.attempt = reader[r].attempt
  BY <1>2 DEF UpsTypes, ReaderType, Reading, Holding
<1>5. b \/ f \in TrueFlags
  BY <1>1 DEF Gives, TrueFlags
<1> QED
  BY <1>2, <1>3, <1>4, <1>5 DEF Becomes

LEMMA EndTyped ==
  ASSUME UpsTypes, NEW r \in UpsReaders, EndRead(r)
  PROVE  \E x : /\ Becomes(r, x) /\ ~x.handle
                /\ \/ x = NewReader
                   \/ /\ x.pc = "deliver" /\ x.attempt = reader[r].attempt
                      /\ x.got = reader[r].got /\ x.mains = reader[r].mains
<1> DEFINE y == [reader[r] EXCEPT !.pc = "deliver", !.handle = FALSE]
           x == IF IsPoll(r) THEN y ELSE NewReader
<1>1. y \in ReaderType /\ y.pc = "deliver" /\ ~y.handle
      /\ y.attempt = reader[r].attempt
      /\ y.got = reader[r].got /\ y.mains = reader[r].mains
  BY DEF UpsTypes, ReaderType
<1>2. reader' = [reader EXCEPT ![r] = x]
  BY Zenon DEF EndRead
<1> QED
  BY <1>1, <1>2, NewTyped DEF Becomes

LEMMA RaiseTyped ==
  ASSUME UpsTypes, NEW r \in UpsReaders, RaiseError(r)
  PROVE  \E x : /\ Becomes(r, x) /\ ~x.handle /\ x.attempt = 0
                /\ x.pc \in {"idle", "want"} /\ x.got.flags = "unknown"
<1> DEFINE y == [NewReader EXCEPT !.pc = "want", !.key = "metrics"]
           x == IF IsPoll(r) /\ reader[r].key = "status" THEN y ELSE NewReader
<1>1. y \in ReaderType /\ y.pc = "want" /\ y.handle = NewReader.handle
      /\ y.attempt = NewReader.attempt /\ y.got = NewReader.got
  BY NewTyped DEF ReaderType
<1>2. reader' = [reader EXCEPT ![r] = x]
  BY Zenon DEF RaiseError
<1> QED
  BY <1>1, <1>2, NewTyped DEF Becomes

-----------------------------------------------------------------------------
LEMMA TypesInit == UpsInit => UpsTypes
<1> SUFFICES ASSUME UpsInit PROVE UpsTypes
  OBVIOUS
<1>1. /\ scene \in UpsCases
      /\ ups \in [mains : BOOLEAN, level : UpsLevels, wedged : BOOLEAN]
  BY DEF UpsInit
<1>2. reader \in [UpsReaders -> ReaderType]
  BY NewTyped DEF UpsInit
<1>3. shared \in SharedType
  BY Constants DEF UpsInit, FreshProcess, Charges, SharedType
<1>4. left \in LeftType
  BY <1>1, CasesTyped DEF UpsInit, LeftType
<1>5. seen \in SeenType
  BY DEF UpsInit, NoHistory, StatusType, Flags, SeenType
<1> QED
  BY <1>1, <1>2, <1>3, <1>4, <1>5 DEF UpsTypes
LEMMA FaultTyped ==
  ASSUME UpsTypes, UpsFault \/ UpsChange PROVE left' \in LeftType
BY DEF UpsTypes, UpsFault, UpsChange, LeftType

(* Types after a step of a reader whose record is typed.                   *)
LEMMA TypesKept ==
  ASSUME UpsTypes, NEW r \in UpsReaders, NEW x, Becomes(r, x),
         UNCHANGED scene, ups' \in [mains : BOOLEAN, level : UpsLevels, wedged : BOOLEAN],
         shared' \in SharedType, left' \in LeftType, seen' \in SeenType
  PROVE  UpsTypes'
BY DEF UpsTypes, Becomes

LEMMA TypesStep == ASSUME UpsTypes, [UpsNext]_upsVars PROVE UpsTypes'
<1>0. /\ ups \in [mains : BOOLEAN, level : UpsLevels, wedged : BOOLEAN]
      /\ shared \in SharedType /\ left \in LeftType /\ seen \in SeenType
  BY DEF UpsTypes
<1>1. ASSUME NEW r \in UpsReaders, StartRead(r) PROVE UpsTypes'
  <2>1. left' \in LeftType
    BY <1>0, <1>1 DEF StartRead, LeftType
  <2> QED
    BY <1>0, <1>1, <2>1, StartTyped, TypesKept DEF StartRead
<1>2. ASSUME NEW r \in UpsReaders, TakeLock(r) PROVE UpsTypes'
  <2>1. \E x : Becomes(r, x)
    BY <1>2, MovesTyped DEF TakeLock, Places, Holding
  <2> QED
    BY <1>0, <1>2, <2>1, TypesKept DEF TakeLock
<1>3. ASSUME NEW r \in UpsReaders, OpenDevice(r) PROVE UpsTypes'
  BY <1>0, <1>3, OpenTyped, TypesKept DEF OpenDevice
<1>4. ASSUME NEW r \in UpsReaders, OpenFails(r) PROVE UpsTypes'
  <2>1. PICK x : Becomes(r, x)
    BY <1>4, AgainTyped DEF OpenFails
  <2>2. left' \in LeftType
    BY <1>0, <1>4, FaultTyped DEF OpenFails
  <2>3. /\ ups' \in [mains : BOOLEAN, level : UpsLevels, wedged : BOOLEAN]
        /\ shared' \in SharedType /\ seen' \in SeenType
    <3>1. CASE UNCHANGED <<ups, shared, seen>>
      BY <1>0, <3>1
    <3>2. CASE /\ shared' = [shared EXCEPT !.reset = left.now]
               /\ seen' = [seen EXCEPT !.resets = Append(@, left.now)]
               /\ \E helps \in BOOLEAN : ups' = [ups EXCEPT !.wedged = @ /\ ~helps]
      <4>1. left.now \in Nat /\ Append(seen.resets, left.now) \in Seq(Nat)
        BY <1>0 DEF LeftType, SeenType
      <4>2. shared' \in SharedType
        BY <1>0, <3>2, <4>1 DEF SharedType
      <4>3. seen' \in SeenType
        BY <1>0, <3>2, <4>1 DEF SeenType
      <4>4. ups' \in [mains : BOOLEAN, level : UpsLevels, wedged : BOOLEAN]
        BY <1>0, <3>2
      <4> QED
        BY <4>2, <4>3, <4>4
    <3> QED
      BY <1>4, <3>1, <3>2 DEF OpenFails
  <2> QED
    BY <1>4, <2>1, <2>2, <2>3, TypesKept DEF OpenFails
<1>5. ASSUME NEW r \in UpsReaders, ParseDescriptor(r) PROVE UpsTypes'
  <2>1. PICK x : Becomes(r, x)
    BY <1>5, AgainTyped, MovesTyped DEF ParseDescriptor, Places, Holding, Reading
  <2>2. left' \in LeftType
    BY <1>0, <1>5, FaultTyped DEF ParseDescriptor
  <2>3. shared' \in SharedType
    BY <1>0, <1>5 DEF ParseDescriptor, SharedType
  <2> QED
    BY <1>0, <1>5, <2>1, <2>2, <2>3, TypesKept DEF ParseDescriptor
<1>6. ASSUME NEW r \in UpsReaders, ReadCharge(r) PROVE UpsTypes'
  <2>1. left' \in LeftType
    BY <1>0, <1>6, FaultTyped DEF ReadCharge, Gives
  <2> QED
    BY <1>0, <1>6, <2>1, ChargeTyped, TypesKept DEF ReadCharge
<1>7. ASSUME NEW r \in UpsReaders, ReadFlags(r) PROVE UpsTypes'
  <2>1. left' \in LeftType
    BY <1>0, <1>7, FaultTyped DEF ReadFlags, Gives
  <2> QED
    BY <1>0, <1>7, <2>1, FlagsTyped, TypesKept DEF ReadFlags
<1>8. ASSUME NEW r \in UpsReaders, EndRead(r) PROVE UpsTypes'
  BY <1>0, <1>8, EndTyped, TypesKept DEF EndRead
<1>9. ASSUME NEW r \in UpsReaders, RaiseError(r) PROVE UpsTypes'
  BY <1>0, <1>9, RaiseTyped, TypesKept DEF RaiseError
<1>10. ASSUME NEW r \in UpsReaders, Deliver(r) PROVE UpsTypes'
  <2>1. Becomes(r, NewReader)
    BY <1>10, NewTyped DEF Deliver, Becomes
  <2>2. /\ reader[r].got \in Readings
        /\ reader[r].mains \in SUBSET BOOLEAN
    BY DEF UpsTypes, ReaderType
  <2>3. reader[r].got.charge # Missing => reader[r].got.charge \in 0..UpsTop
    BY <2>2 DEF Readings, Charges
  <2>4. shared' \in SharedType
    BY <1>0, <1>10, <2>3, FilteredTyped DEF Deliver
  <2>5. seen' \in SeenType
    <3> DEFINE c == reader[r].got.charge
               fed == IF c = Missing THEN seen.fed ELSE Fed(seen.fed, c)
               st == IF reader[r].key = "status"
                     THEN [state |-> State(reader[r].got), flags |-> reader[r].got.flags,
                           torn |-> reader[r].got.torn, mains |-> reader[r].mains]
                     ELSE seen.status
    <3>1. seen' = [seen EXCEPT !.fed = fed, !.status = st]
      BY <1>10, Zenon DEF Deliver
    <3>2. seen.fed \in Seq(0..UpsTop) /\ seen.status \in StatusType
      BY <1>0 DEF SeenType
    <3>3. fed \in Seq(0..UpsTop)
      BY <2>3, <3>2, FedTyped
    <3>4. st \in StatusType
      <4>1. State(reader[r].got) \in {"none", "online", "on_battery", "low_battery"}
        BY <2>2, StateTyped
      <4>2. reader[r].got.flags \in Flags /\ reader[r].got.torn \in BOOLEAN
        BY <2>2 DEF Readings
      <4> QED
        BY <2>2, <3>2, <4>1, <4>2 DEF StatusType
    <3> HIDE DEF fed, st
    <3> QED
      BY <1>0, <3>1, <3>3, <3>4 DEF SeenType
  <2> QED
    BY <1>0, <1>10, <2>1, <2>4, <2>5, TypesKept DEF Deliver
<1>11. CASE MainsChange
  <2>1. ups' \in [mains : BOOLEAN, level : UpsLevels, wedged : BOOLEAN]
    BY <1>0, <1>11 DEF MainsChange
  <2>2. ASSUME NEW r \in UpsReaders PROVE reader'[r] \in ReaderType
    <3>1. reader[r] \in ReaderType /\ ups.mains \in BOOLEAN
      BY DEF UpsTypes
    <3> DEFINE m == reader[r].mains \union {~ups.mains}
    <3>2. m \in SUBSET BOOLEAN
      BY <3>1 DEF ReaderType
    <3>3. reader'[r] = IF reader[r].pc \in Reading
                       THEN [reader[r] EXCEPT !.mains = m] ELSE reader[r]
      BY <1>11, Zenon DEF MainsChange
    <3> HIDE DEF m
    <3> QED
      BY <3>1, <3>2, <3>3 DEF ReaderType
  <2>3. reader' \in [UpsReaders -> ReaderType]
    BY <1>11, <2>2 DEF MainsChange
  <2> QED
    BY <1>11, <2>1, <2>3, FaultTyped DEF MainsChange, UpsTypes
<1>12. CASE LevelChange
  <2>1. ups' \in [mains : BOOLEAN, level : UpsLevels, wedged : BOOLEAN]
    BY <1>0, <1>12 DEF LevelChange
  <2> QED
    BY <1>12, <2>1, FaultTyped DEF LevelChange, UpsTypes
<1>13. CASE Wedge
  <2>1. ups' \in [mains : BOOLEAN, level : UpsLevels, wedged : BOOLEAN]
    BY <1>0, <1>13 DEF Wedge
  <2> QED
    BY <1>13, <2>1, FaultTyped DEF Wedge, UpsTypes
<1>14. CASE Tick
  BY <1>14 DEF Tick, UpsTypes, LeftType
<1>15. CASE ProcessRestart
  <2>1. reader' \in [UpsReaders -> ReaderType]
    BY <1>15, NewTyped DEF ProcessRestart
  <2>2. shared' \in SharedType
    BY <1>15, Constants DEF ProcessRestart, FreshProcess, Charges, SharedType
  <2>3. seen' \in SeenType
    BY <1>15 DEF ProcessRestart, NoHistory, StatusType, Flags, SeenType
  <2> QED
    BY <1>15, <2>1, <2>2, <2>3, FaultTyped DEF ProcessRestart, UpsTypes
<1>16. CASE UNCHANGED upsVars
  BY <1>16 DEF upsVars, UpsTypes
<1> QED
  BY <1>1, <1>2, <1>3, <1>4, <1>5, <1>6, <1>7, <1>8, <1>9, <1>10, <1>11, <1>12,
     <1>13, <1>14, <1>15, <1>16 DEF UpsNext, ReaderStep

-----------------------------------------------------------------------------
(* A reader: it holds the lock from the open to the end, the handle only   *)
(* while it reads, has attempts left, and has witnessed what its flags say,*)
(* unless they are torn.                                                   *)
ReaderOK(r) ==
  /\ reader[r].pc \in Holding => usbLock = r
  /\ reader[r].handle => reader[r].pc \in Reading
  /\ reader[r].attempt <= UpsTries
  /\ reader[r].pc \in {"want", "open"} \union Reading => reader[r].attempt < Tries(r)
  /\ reader[r].pc \in Reading => ups.mains \in reader[r].mains
  /\ reader[r].pc \notin {"close", "deliver"} => reader[r].got.flags = "unknown"
  /\ reader[r].got.flags = "mains" => TRUE \in reader[r].mains \/ reader[r].got.torn
  /\ reader[r].got.flags = "battery" => FALSE \in reader[r].mains \/ reader[r].got.torn

AllOK == \A r \in UpsReaders : ReaderOK(r)
Readers == UpsTypes /\ AllOK

LEMMA TriesTyped ==
  ASSUME NEW r \in UpsReaders
  PROVE  Tries(r) \in Nat /\ 0 < Tries(r) /\ Tries(r) <= UpsTries
BY Constants DEF Tries

(* The others are not disturbed: who holds the lock is the only holder.    *)
LEMMA OneReader ==
  ASSUME Readers, NEW r \in UpsReaders, NEW x, Becomes(r, x), ups'.mains = ups.mains,
         \/ usbLock' = usbLock
         \/ usbLock = Nobody /\ usbLock' = r
         \/ reader[r].pc \in Holding /\ usbLock' = Nobody,
         ReaderOK(r)'
  PROVE  AllOK'
<1> SUFFICES ASSUME NEW u \in UpsReaders, u # r PROVE ReaderOK(u)'
  BY DEF AllOK
<1>1. reader'[u] = reader[u]
  BY DEF Becomes, Readers, UpsTypes
<1>2. ReaderOK(u) /\ ReaderOK(r)
  BY DEF Readers, AllOK
<1>3. reader[u].pc \in Holding => usbLock' = u
  BY <1>2, Constants DEF ReaderOK
<1> QED
  BY <1>1, <1>2, <1>3 DEF ReaderOK

LEMMA ReadersInit == UpsInit => Readers
<1> SUFFICES ASSUME UpsInit, NEW r \in UpsReaders PROVE ReaderOK(r)
  BY TypesInit DEF Readers, AllOK
<1>1. reader[r] = NewReader
  BY DEF UpsInit
<1> QED
  BY <1>1, NewTyped, Constants DEF ReaderOK, Holding, Reading

LEMMA ReadersStep == ASSUME Readers, [UpsNext]_upsVars PROVE Readers'
<1>0. UpsTypes /\ UpsTypes'
  BY TypesStep DEF Readers
<1>00. ASSUME NEW r \in UpsReaders, NEW x, Becomes(r, x) PROVE reader'[r] = x
  BY <1>0, <1>00 DEF Becomes, UpsTypes
<1>000. ASSUME NEW r \in UpsReaders
        PROVE  /\ ReaderOK(r) /\ reader[r].attempt \in Nat
               /\ Tries(r) \in Nat /\ 0 < Tries(r) /\ Tries(r) <= UpsTries
  BY <1>0, TriesTyped DEF Readers, AllOK, UpsTypes, ReaderType
<1>1. ASSUME NEW r \in UpsReaders, StartRead(r) PROVE AllOK'
  <2>1. PICK x : /\ Becomes(r, x) /\ x.pc = "want" /\ ~x.handle
                 /\ x.attempt = 0 /\ x.got.flags = "unknown"
    BY <1>0, <1>1, StartTyped
  <2>2. reader'[r] = x /\ 0 <= UpsTries /\ 0 < Tries(r)
    BY <1>00, <1>000, <2>1, Constants
  <2>3. ReaderOK(r)'
    BY <2>1, <2>2 DEF ReaderOK, Holding, Reading
  <2> QED
    BY <1>1, <2>1, <2>3, OneReader DEF StartRead
<1>2. ASSUME NEW r \in UpsReaders, TakeLock(r) PROVE AllOK'
  <2>1. PICK x : Becomes(r, x) /\ At(r, x, "open")
    BY <1>0, <1>2, MovesTyped DEF TakeLock, Places, Holding
  <2>2. ReaderOK(r)'
    BY <1>00, <1>000, <1>2, <2>1 DEF TakeLock, ReaderOK, At, Holding, Reading
  <2> QED
    BY <1>2, <2>1, <2>2, OneReader DEF TakeLock
<1>3. ASSUME NEW r \in UpsReaders, OpenDevice(r) PROVE AllOK'
  <2>1. PICK x : /\ Becomes(r, x) /\ x.pc = "parse" /\ x.mains = {ups.mains}
                 /\ x.attempt = reader[r].attempt /\ x.got = reader[r].got
    BY <1>0, <1>3, OpenTyped
  <2>2. ReaderOK(r)'
    BY <1>00, <1>000, <1>3, <2>1 DEF OpenDevice, ReaderOK, Holding, Reading
  <2> QED
    BY <1>3, <2>1, <2>2, OneReader DEF OpenDevice
<1>4. ASSUME NEW r \in UpsReaders, Again(r), usbLock' = usbLock, ups'.mains = ups.mains,
             reader[r].pc \in {"open", "parse"}
      PROVE  AllOK'
  <2>1. PICK x : /\ Becomes(r, x) /\ ~x.handle /\ x.got = reader[r].got
                 /\ x.attempt = reader[r].attempt + 1
                 /\ x.pc = IF x.attempt < Tries(r) THEN "open" ELSE "raise"
    BY <1>0, <1>4, AgainTyped
  <2>2. /\ reader[r].attempt \in Nat /\ reader[r].attempt < Tries(r)
        /\ Tries(r) \in Nat /\ Tries(r) <= UpsTries
        /\ reader[r].got.flags = "unknown" /\ usbLock = r
    BY <1>000, <1>4 DEF ReaderOK, Holding, Reading
  <2>3. reader'[r] = x /\ x.attempt <= UpsTries
    BY <1>00, <2>1, <2>2, Constants
  <2>4. ReaderOK(r)'
    BY <1>4, <2>1, <2>2, <2>3 DEF ReaderOK, Holding, Reading
  <2> QED
    BY <1>4, <2>1, <2>4, OneReader
<1>5. ASSUME NEW r \in UpsReaders, OpenFails(r) PROVE AllOK'
  <2>1. ups'.mains = ups.mains
    BY <1>0, <1>5 DEF OpenFails, UpsTypes
  <2> QED
    BY <1>4, <1>5, <2>1 DEF OpenFails
<1>6. ASSUME NEW r \in UpsReaders, ParseDescriptor(r) PROVE AllOK'
  <2>1. CASE Moves(r, "charge")
    <3>1. PICK x : Becomes(r, x) /\ At(r, x, "charge")
      BY <1>0, <2>1, MovesTyped DEF Places, Holding, Reading
    <3>2. ReaderOK(r)'
      BY <1>00, <1>000, <1>6, <3>1 DEF ParseDescriptor, ReaderOK, At, Holding, Reading
    <3> QED
      BY <1>6, <3>1, <3>2, OneReader DEF ParseDescriptor
  <2>2. CASE Again(r)
    BY <1>4, <1>6, <2>2 DEF ParseDescriptor
  <2> QED
    BY <1>6, <2>1, <2>2 DEF ParseDescriptor
<1>7. ASSUME NEW r \in UpsReaders, ReadCharge(r) PROVE AllOK'
  <2>1. PICK x : /\ Becomes(r, x) /\ x.pc = "flags" /\ x.attempt = reader[r].attempt
                 /\ x.got.flags = reader[r].got.flags /\ x.got.torn = reader[r].got.torn
                 /\ x.mains = reader[r].mains
    BY <1>0, <1>7, ChargeTyped
  <2>2. ReaderOK(r)'
    BY <1>00, <1>000, <1>7, <2>1 DEF ReadCharge, ReaderOK, Holding, Reading
  <2> QED
    BY <1>7, <2>1, <2>2, OneReader DEF ReadCharge
<1>8. ASSUME NEW r \in UpsReaders, ReadFlags(r) PROVE AllOK'
  <2>1. PICK x : /\ Becomes(r, x) /\ x.pc = "close" /\ x.attempt = reader[r].attempt
                 /\ x.got.torn \/ x.got.flags \in TrueFlags
                 /\ x.mains = reader[r].mains
    BY <1>0, <1>8, FlagsTyped
  <2>2. reader[r].pc \in Reading /\ UNCHANGED <<ups, usbLock>> /\ ups.mains \in BOOLEAN
    BY <1>0, <1>8 DEF ReadFlags, Reading, UpsTypes
  <2>3. ReaderOK(r)'
    BY <1>00, <1>000, <2>1, <2>2 DEF TrueFlags, ReaderOK, Holding, Reading
  <2> QED
    BY <2>1, <2>2, <2>3, OneReader
<1>9. ASSUME NEW r \in UpsReaders, EndRead(r) PROVE AllOK'
  <2>1. PICK x : /\ Becomes(r, x) /\ ~x.handle
                 /\ \/ x = NewReader
                    \/ /\ x.pc = "deliver" /\ x.attempt = reader[r].attempt
                       /\ x.got = reader[r].got /\ x.mains = reader[r].mains
    BY <1>0, <1>9, EndTyped
  <2>2. reader[r].pc \in Holding /\ usbLock' = Nobody /\ ups' = ups
    BY <1>9 DEF EndRead, Holding, Reading
  <2>3. reader'[r] = x /\ ReaderOK(r) /\ 0 <= UpsTries
    BY <1>00, <1>000, <2>1, Constants
  <2>4. ReaderOK(r)'
    BY <1>9, <2>1, <2>3, NewTyped DEF EndRead, ReaderOK, Holding, Reading
  <2> QED
    BY <2>1, <2>2, <2>4, OneReader
<1>10. ASSUME NEW r \in UpsReaders, RaiseError(r) PROVE AllOK'
  <2>1. PICK x : /\ Becomes(r, x) /\ ~x.handle /\ x.attempt = 0
                 /\ x.pc \in {"idle", "want"} /\ x.got.flags = "unknown"
    BY <1>0, <1>10, RaiseTyped
  <2>2. reader[r].pc \in Holding /\ usbLock' = Nobody /\ ups' = ups
    BY <1>10 DEF RaiseError, Holding
  <2>3. reader'[r] = x /\ 0 <= UpsTries /\ 0 < Tries(r)
    BY <1>00, <1>000, <2>1, Constants
  <2>4. ReaderOK(r)'
    BY <2>1, <2>3 DEF ReaderOK, Holding, Reading
  <2> QED
    BY <2>1, <2>2, <2>4, OneReader
<1>11. ASSUME NEW r \in UpsReaders, Deliver(r) PROVE AllOK'
  <2>1. Becomes(r, NewReader)
    BY <1>11, NewTyped DEF Deliver, Becomes
  <2>2. reader'[r] = NewReader /\ 0 <= UpsTries
    BY <1>00, <2>1, Constants
  <2>3. ReaderOK(r)'
    BY <2>2, NewTyped DEF ReaderOK, Holding, Reading
  <2> QED
    BY <1>11, <2>1, <2>3, OneReader DEF Deliver
<1>12. ASSUME MainsChange PROVE AllOK'
  <2> SUFFICES ASSUME NEW r \in UpsReaders PROVE ReaderOK(r)'
    BY DEF AllOK
  <2> DEFINE m == reader[r].mains \union {~ups.mains}
  <2>1. ReaderOK(r) /\ reader[r] \in ReaderType /\ ups.mains \in BOOLEAN
    BY <1>0, <1>000 DEF UpsTypes
  <2>2. usbLock' = usbLock /\ ups'.mains = ~ups.mains
    BY <1>0, <1>12 DEF MainsChange, UpsTypes
  <2>3. reader'[r] = IF reader[r].pc \in Reading
                     THEN [reader[r] EXCEPT !.mains = m] ELSE reader[r]
    BY <1>12, Zenon DEF MainsChange
  <2>4. reader[r].mains \subseteq m /\ (~ups.mains) \in m
    OBVIOUS
  <2> HIDE DEF m
  <2>5. CASE reader[r].pc \in Reading
    <3>1. /\ reader'[r].pc = reader[r].pc /\ reader'[r].handle = reader[r].handle
          /\ reader'[r].attempt = reader[r].attempt /\ reader'[r].got = reader[r].got
          /\ reader'[r].mains = m
      BY <2>1, <2>3, <2>5 DEF ReaderType
    <3> QED
      BY <2>1, <2>2, <2>4, <2>5, <3>1 DEF ReaderOK
  <2>6. CASE reader[r].pc \notin Reading
    BY <2>1, <2>2, <2>3, <2>6 DEF ReaderOK
  <2> QED
    BY <2>5, <2>6
<1>13. ASSUME LevelChange \/ Wedge \/ Tick PROVE AllOK'
  <2>1. UNCHANGED <<reader, usbLock>> /\ ups'.mains = ups.mains
    BY <1>0, <1>13 DEF LevelChange, Wedge, Tick, UpsTypes
  <2> QED
    BY <1>000, <2>1 DEF AllOK, ReaderOK
<1>14. ASSUME ProcessRestart PROVE AllOK'
  <2> SUFFICES ASSUME NEW r \in UpsReaders PROVE ReaderOK(r)'
    BY DEF AllOK
  <2>1. reader'[r] = NewReader
    BY <1>14 DEF ProcessRestart
  <2> QED
    BY <2>1, NewTyped, Constants DEF ReaderOK, Holding, Reading
<1>15. ASSUME UNCHANGED upsVars PROVE AllOK'
  BY <1>000, <1>15 DEF upsVars, AllOK, ReaderOK
<1> QED
  BY <1>0, <1>1, <1>2, <1>3, <1>5, <1>6, <1>7, <1>8, <1>9, <1>10, <1>11, <1>12,
     <1>13, <1>14, <1>15 DEF UpsNext, ReaderStep, Readers

LEMMA ReadersAlways == UpsSpec => []Readers
BY ReadersInit, ReadersStep, PTL DEF UpsSpec

(* The type invariant: no number outside its physical bounds gets through, *)
(* attempts end, rejections are bounded, a handle is held under the lock.  *)
THEOREM TypeCorrect == UpsSpec => []UpsTypeOK
<1>1. Readers => UpsTypeOK
  <2> SUFFICES ASSUME Readers PROVE UpsTypeOK
    OBVIOUS
  <2>1. ASSUME NEW r \in UpsReaders
        PROVE  /\ reader[r].pc \in {"idle", "want", "open", "raise", "deliver"}
                                     \union Reading
               /\ reader[r].attempt \in 0..UpsTries
               /\ reader[r].got.charge \in {Missing} \union 0..UpsTop
               /\ reader[r].handle => usbLock = r
    <3>1. ReaderOK(r) /\ reader[r] \in ReaderType
      BY DEF Readers, AllOK, UpsTypes
    <3>2. reader[r].got.charge \in Charges /\ reader[r].attempt \in Nat
      BY <3>1 DEF ReaderType, Readings
    <3> QED
      BY <3>1, <3>2, Constants DEF ReaderOK, ReaderType, Holding, Charges
  <2>2. shared.rejects \in 0..UpsMaxReject /\ shared.fields \in {"none", "full", "short"}
    BY DEF Readers, UpsTypes, SharedType
  <2> QED
    BY <2>1, <2>2 DEF UpsTypeOK, Readers, UpsTypes
<1> QED
  BY <1>1, ReadersAlways, PTL

-----------------------------------------------------------------------------
(* What a delivery, and what the other steps, make of the filter and of    *)
(* the history.                                                            *)
LEMMA DeliverEffect ==
  ASSUME UpsTypes, NEW r \in UpsReaders, Deliver(r)
  PROVE  LET got == reader[r].got IN
         /\ got.charge = Missing => shared' = shared /\ seen'.fed = seen.fed
         /\ got.charge # Missing =>
              /\ got.charge \in 0..UpsTop
              /\ shared' = Filtered(shared, got.charge)
              /\ seen'.fed = Fed(seen.fed, got.charge)
         /\ shared'.reset = shared.reset /\ seen'.resets = seen.resets
         /\ \/ seen'.status = seen.status
            \/ seen'.status = [state |-> State(got), flags |-> got.flags,
                               torn |-> got.torn, mains |-> reader[r].mains]
<1> DEFINE got == reader[r].got
           fed == IF got.charge = Missing THEN seen.fed ELSE Fed(seen.fed, got.charge)
           st == IF reader[r].key = "status"
                 THEN [state |-> State(got), flags |-> got.flags, torn |-> got.torn,
                       mains |-> reader[r].mains]
                 ELSE seen.status
<1>1. got.charge # Missing => got.charge \in 0..UpsTop
  BY DEF UpsTypes, ReaderType, Readings, Charges
<1>2. shared' = IF got.charge = Missing THEN shared ELSE Filtered(shared, got.charge)
  BY DEF Deliver
<1>3. seen' = [seen EXCEPT !.fed = fed, !.status = st]
  BY Zenon DEF Deliver
<1>4. seen \in SeenType /\ shared \in SharedType
  BY DEF UpsTypes
<1>5. shared'.reset = shared.reset
  BY <1>1, <1>2, <1>4, FilteredTyped
<1> HIDE DEF fed, st
<1>6. seen'.fed = fed /\ seen'.status = st /\ seen'.resets = seen.resets
  BY <1>3, <1>4 DEF SeenType
<1> QED
  BY <1>1, <1>2, <1>5, <1>6 DEF fed, st

Reset(r) == MayReset(r) /\ shared'.reset = left.now
              /\ seen'.resets = Append(seen.resets, left.now)

LEMMA OtherEffects ==
  ASSUME UpsTypes, [UpsNext]_upsVars
  PROVE  \/ \E r \in UpsReaders : Deliver(r)
         \/ ProcessRestart
         \/ /\ shared'.last = shared.last /\ shared'.rejects = shared.rejects
            /\ seen'.fed = seen.fed /\ seen'.status = seen.status
            /\ \/ shared'.reset = shared.reset /\ seen'.resets = seen.resets
               \/ \E r \in UpsReaders : Reset(r)
<1> DEFINE Quiet == /\ shared'.last = shared.last /\ shared'.rejects = shared.rejects
                    /\ seen'.fed = seen.fed /\ seen'.status = seen.status
           Same == shared'.reset = shared.reset /\ seen'.resets = seen.resets
<1>0. shared \in SharedType /\ seen \in SeenType
  BY DEF UpsTypes
<1>1. ASSUME UNCHANGED <<shared, seen>> PROVE Quiet /\ Same
  BY <1>1
<1>2. ASSUME NEW r \in UpsReaders, OpenFails(r) PROVE Quiet /\ (Same \/ Reset(r))
  <2>1. CASE UNCHANGED <<ups, shared, seen>>
    BY <2>1
  <2>2. CASE /\ MayReset(r) /\ shared' = [shared EXCEPT !.reset = left.now]
             /\ seen' = [seen EXCEPT !.resets = Append(@, left.now)]
    <3>1. shared'.last = shared.last /\ shared'.rejects = shared.rejects
          /\ shared'.reset = left.now
      BY <1>0, <2>2 DEF SharedType
    <3>2. seen'.fed = seen.fed /\ seen'.status = seen.status
          /\ seen'.resets = Append(seen.resets, left.now)
      BY <1>0, <2>2 DEF SeenType
    <3> QED
      BY <2>2, <3>1, <3>2 DEF Reset
  <2> QED
    BY <1>2, <2>1, <2>2 DEF OpenFails
<1>3. ASSUME NEW r \in UpsReaders, ParseDescriptor(r) PROVE Quiet /\ Same
  <2>1. PICK f : shared' = shared \/ shared' = [shared EXCEPT !.fields = f]
    BY <1>3 DEF ParseDescriptor
  <2>2. shared'.last = shared.last /\ shared'.rejects = shared.rejects
        /\ shared'.reset = shared.reset
    BY <1>0, <2>1 DEF SharedType
  <2> QED
    BY <1>3, <2>2 DEF ParseDescriptor
<1>4. ASSUME NEW r \in UpsReaders,
             \/ StartRead(r) \/ TakeLock(r) \/ OpenDevice(r) \/ ReadCharge(r)
             \/ ReadFlags(r) \/ EndRead(r) \/ RaiseError(r)
      PROVE  UNCHANGED <<shared, seen>>
  BY <1>4 DEF StartRead, TakeLock, OpenDevice, ReadCharge, ReadFlags, EndRead, RaiseError
<1>5. ASSUME MainsChange \/ LevelChange \/ Wedge \/ Tick \/ UNCHANGED upsVars
      PROVE  UNCHANGED <<shared, seen>>
  BY <1>5 DEF MainsChange, LevelChange, Wedge, Tick, upsVars
<1> QED
  BY <1>1, <1>2, <1>3, <1>4, <1>5 DEF UpsNext, ReaderStep

-----------------------------------------------------------------------------
(* The stored status says battery just when its flags do, and flags that   *)
(* are not torn say nothing that was not so at some time of the read.      *)
StatusOK ==
  /\ seen.status.state = "online" => seen.status.flags # "battery"
  /\ seen.status.state \in {"on_battery", "low_battery"} => seen.status.flags = "battery"
  /\ seen.status.flags = "mains" => TRUE \in seen.status.mains \/ seen.status.torn
  /\ seen.status.flags = "battery" => FALSE \in seen.status.mains \/ seen.status.torn

LEMMA StatusStep == ASSUME Readers, StatusOK, [UpsNext]_upsVars PROVE StatusOK'
<1>1. ASSUME NEW r \in UpsReaders, Deliver(r) PROVE StatusOK'
  <2> DEFINE got == reader[r].got
             st == [state |-> State(got), flags |-> got.flags, torn |-> got.torn,
                    mains |-> reader[r].mains]
  <2>1. seen'.status = seen.status \/ seen'.status = st
    BY <1>1, DeliverEffect DEF Readers
  <2>2. got \in Readings /\ ReaderOK(r)
    BY DEF Readers, AllOK, UpsTypes, ReaderType
  <2>3. /\ st.state = State(got) /\ st.flags = got.flags /\ st.torn = got.torn
        /\ st.mains = reader[r].mains
    OBVIOUS
  <2>4. /\ got.flags = "battery" => State(got) \in {"on_battery", "low_battery"}
        /\ got.flags # "battery" => State(got) = "online"
    BY <2>2, StateTyped
  <2> HIDE DEF st
  <2> QED
    BY <2>1, <2>2, <2>3, <2>4 DEF StatusOK, ReaderOK
<1>2. CASE ProcessRestart
  <2>1. seen'.status.state = "none" /\ seen'.status.flags = "unknown"
    BY <1>2 DEF ProcessRestart, NoHistory
  <2> QED
    BY <2>1 DEF StatusOK
<1>3. CASE seen'.status = seen.status
  BY <1>3 DEF StatusOK
<1> QED
  BY <1>1, <1>2, <1>3, OtherEffects DEF Readers

LEMMA StatusAlways == UpsSpec => []StatusOK
<1>1. UpsInit => StatusOK
  <2> SUFFICES ASSUME UpsInit PROVE StatusOK
    OBVIOUS
  <2>1. seen.status.state = "none" /\ seen.status.flags = "unknown"
    BY DEF UpsInit, NoHistory
  <2> QED
    BY <2>1 DEF StatusOK
<1> QED
  BY <1>1, StatusStep, ReadersAlways, PTL DEF UpsSpec

(* Whatever is lost, torn or repeated: an outage that lasts a whole read   *)
(* looks like mains only when the flags report was lost or torn, and mains *)
(* that last a whole read look like an outage only when it was torn; a     *)
(* charge report, lost or garbage, never makes the one look like the other.*)
THEOREM OutageToldOrLost == UpsSpec => []StatusFollowsFlags
<1>1. Readers /\ StatusOK => StatusFollowsFlags
  <2> SUFFICES ASSUME Readers, StatusOK PROVE StatusFollowsFlags
    OBVIOUS
  <2>1. seen.status.flags \in Flags
    BY DEF Readers, UpsTypes, SeenType, StatusType
  <2> QED
    BY <2>1 DEF StatusOK, StatusFollowsFlags, Flags
<1> QED
  BY <1>1, ReadersAlways, StatusAlways, PTL

-----------------------------------------------------------------------------
(* The time kept is that of the last reset of this process.                *)
ResetsOK ==
  /\ \A n \in 2..Len(seen.resets) :
       seen.resets[n] - seen.resets[n - 1] >= UpsCooldown
  /\ shared.reset = IF seen.resets = <<>> THEN Never
                    ELSE seen.resets[Len(seen.resets)]

LEMMA ResetsStep == ASSUME UpsTypes, ResetsOK, [UpsNext]_upsVars PROVE ResetsOK'
<1>1. ASSUME shared'.reset = shared.reset, seen'.resets = seen.resets PROVE ResetsOK'
  BY <1>1 DEF ResetsOK
<1>2. ASSUME NEW r \in UpsReaders, Reset(r) PROVE ResetsOK'
  <2> DEFINE s == seen.resets
             t == seen'.resets
             now == left.now
  <2>1. s \in Seq(Nat) /\ now \in Nat /\ t = Append(s, now) /\ shared'.reset = now
    BY <1>2 DEF Reset, UpsTypes, SeenType, LeftType
  <2>2. s # <<>> => now - s[Len(s)] >= UpsCooldown
    <3>1. s # <<>> => shared.reset = s[Len(s)] /\ s[Len(s)] \in Nat
      BY <2>1 DEF ResetsOK
    <3> QED
      BY <1>2, <3>1 DEF Reset, MayReset, Never
  <2>3. /\ Len(t) = Len(s) + 1 /\ t[Len(t)] = now /\ t # <<>>
        /\ \A n \in 1..Len(s) : t[n] = s[n]
    BY <2>1
  <2>4. \A n \in 2..Len(s) : s[n] - s[n - 1] >= UpsCooldown
    BY DEF ResetsOK
  <2> HIDE DEF s, t, now
  <2>5. ASSUME NEW n \in 2..Len(t) PROVE t[n] - t[n - 1] >= UpsCooldown
    <3>0. Len(s) \in Nat
      BY <2>1
    <3>1. CASE n <= Len(s)
      BY <3>0, <3>1, <2>3, <2>4
    <3>2. CASE n = Len(s) + 1
      <4>1. s # <<>> /\ n - 1 \in 1..Len(s) /\ n - 1 = Len(s)
        BY <3>0, <3>2
      <4> QED
        BY <4>1, <3>2, <2>2, <2>3
    <3> QED
      BY <3>0, <3>1, <3>2, <2>3
  <2> QED
    BY <2>1, <2>3, <2>5 DEF ResetsOK, t
<1>3. CASE ProcessRestart
  <2>1. seen'.resets = <<>> /\ shared'.reset = Never
    BY <1>3 DEF ProcessRestart, NoHistory, FreshProcess
  <2> QED
    BY <2>1 DEF ResetsOK
<1> QED
  BY <1>1, <1>2, <1>3, OtherEffects, DeliverEffect

LEMMA ResetsAlways == UpsSpec => []ResetsOK
<1>1. UpsInit => ResetsOK
  BY DEF UpsInit, NoHistory, FreshProcess, ResetsOK
<1> QED
  BY <1>1, ResetsStep, ReadersAlways, PTL DEF UpsSpec, Readers

(* Bus resets are a cooldown apart, and whoever may reset is the only one  *)
(* at the device: nobody else has it open or holds the lock.               *)
THEOREM ResetsApart == UpsSpec => []ResetsRareAndAlone
<1>1. Readers /\ ResetsOK => ResetsRareAndAlone
  <2> SUFFICES ASSUME Readers, ResetsOK, NEW r \in UpsReaders, reader[r].pc = "open"
               PROVE  Held \subseteq {r} /\ usbLock = r
    BY DEF ResetsOK, ResetsRareAndAlone
  <2>1. usbLock = r
    BY DEF Readers, AllOK, ReaderOK, Holding
  <2>2. ASSUME NEW u \in UpsReaders, reader[u].handle PROVE u = r
    BY <2>1, <2>2 DEF Readers, AllOK, ReaderOK, Holding
  <2> QED
    BY <2>1, <2>2 DEF Held
<1> QED
  BY <1>1, ReadersAlways, ResetsAlways, PTL

-----------------------------------------------------------------------------
(* The numbers fed to the filter end with the one that was stored and, if  *)
(* any were rejected since, with those, all far from it.                   *)
Trails(f, h) ==
  /\ f.rejects < Len(h) /\ h[Len(h) - f.rejects] = f.last
  /\ \A n \in (Len(h) - f.rejects + 1)..Len(h) : Far(f.last, h[n])
FilterOK ==
  /\ Len(seen.fed) <= UpsMaxReject + 1
  /\ shared.last = Missing <=> seen.fed = <<>>
  /\ shared.last # Missing => Trails(shared, seen.fed)

(* Feeding a number keeps the end of the history and drops from its start. *)
LEMMA FedKeepsEnd ==
  ASSUME NEW h \in Seq(0..UpsTop), NEW x \in 0..UpsTop, Len(h) <= UpsMaxReject + 1
  PROVE  LET k == Fed(h, x)
             drop == IF Len(h) <= UpsMaxReject THEN 0 ELSE 1
         IN /\ k \in Seq(0..UpsTop) /\ Len(k) = Len(h) + 1 - drop /\ k[Len(k)] = x
            /\ \A n \in 1..(Len(h) - drop) : k[n] = h[n + drop]
<1>1. CASE Len(h) <= UpsMaxReject
  BY <1>1 DEF Fed
<1>2. CASE ~(Len(h) <= UpsMaxReject)
  <2>1. h # <<>>
    BY <1>2, Constants
  <2>2. Tail(h) \in Seq(0..UpsTop) /\ Len(Tail(h)) = Len(h) - 1
        /\ \A n \in 1..(Len(h) - 1) : Tail(h)[n] = h[n + 1]
    BY <2>1
  <2>3. Fed(h, x) = Append(Tail(h), x)
    BY <1>2 DEF Fed
  <2> HIDE DEF Fed
  <2> QED
    BY <1>2, <2>2, <2>3
<1> QED
  BY <1>1, <1>2

LEMMA FarFromItself == ASSUME NEW x \in Int PROVE ~Far(x, x)
BY Constants DEF Far

(* A number that is rejected: the stored one moves back by one place.      *)
LEMMA RejectKeeps ==
  ASSUME UpsTypes, FilterOK, NEW x \in 0..UpsTop, Rejected(shared, x),
         NEW f, NEW h, f = Filtered(shared, x), h = Fed(seen.fed, x)
  PROVE  Len(h) <= UpsMaxReject + 1 /\ h # <<>> /\ f.last # Missing /\ Trails(f, h)
<1> DEFINE g == seen.fed
           drop == IF Len(g) <= UpsMaxReject THEN 0 ELSE 1
<1>1. /\ g \in Seq(0..UpsTop) /\ shared \in SharedType
      /\ Len(g) \in Nat /\ Len(g) <= UpsMaxReject + 1
  BY DEF UpsTypes, SeenType, FilterOK
<1>2. /\ h \in Seq(0..UpsTop) /\ Len(h) = Len(g) + 1 - drop /\ h[Len(h)] = x
      /\ \A n \in 1..(Len(g) - drop) : h[n] = g[n + drop]
  BY <1>1, FedKeepsEnd
<1>3. f.last = shared.last /\ f.rejects = shared.rejects + 1
  BY <1>1, FilteredTyped
<1>4. /\ shared.last # Missing /\ Far(shared.last, x)
      /\ shared.rejects < UpsMaxReject /\ shared.rejects \in Nat
  BY <1>1, Constants DEF Rejected, SharedType
<1>5. /\ shared.rejects < Len(g) /\ g[Len(g) - shared.rejects] = shared.last
      /\ \A n \in (Len(g) - shared.rejects + 1)..Len(g) : Far(shared.last, g[n])
  BY <1>4 DEF FilterOK, Trails
<1>6. drop \in {0, 1} /\ (drop = 1 => Len(g) = UpsMaxReject + 1)
      /\ (drop = 0 => Len(g) <= UpsMaxReject)
  BY <1>1, Constants
<1> DEFINE q == shared.rejects
<1> HIDE DEF g, drop, q
<1>7. q \in Nat /\ q < UpsMaxReject /\ q < Len(g)
  BY <1>4, <1>5 DEF q
<1>8. Len(h) <= UpsMaxReject + 1 /\ h # <<>> /\ f.rejects = q + 1 /\ q + 1 < Len(h)
  <2>1. UpsMaxReject \in Nat
    BY Constants
  <2>2. ASSUME drop = 0
       PROVE  Len(h) <= UpsMaxReject + 1 /\ h # <<>> /\ q + 1 < Len(h)
    BY <2>1, <2>2, <1>1, <1>2, <1>6, <1>7
  <2>3. ASSUME drop = 1
       PROVE  Len(h) <= UpsMaxReject + 1 /\ h # <<>> /\ q + 1 < Len(h)
    BY <2>1, <2>3, <1>1, <1>2, <1>6, <1>7
  <2>4. f.rejects = q + 1
    BY <1>3 DEF q
  <2> QED
    BY <1>6, <2>2, <2>3, <2>4
<1>9. h[Len(h) - (q + 1)] = g[Len(g) - q]
  <2>1. Len(h) - (q + 1) \in 1..(Len(g) - drop) /\ Len(h) - (q + 1) + drop = Len(g) - q
    <3>1. CASE drop = 0
      BY <3>1, <1>1, <1>2, <1>7, <1>8
    <3>2. CASE drop = 1
      BY <3>2, <1>1, <1>2, <1>7, <1>8
    <3> QED
      BY <1>6, <3>1, <3>2
  <2> QED
    BY <1>2, <2>1
<1>10. ASSUME NEW n \in (Len(h) - (q + 1) + 1)..Len(h) PROVE Far(shared.last, h[n])
  <2>1. CASE n = Len(h)
    BY <1>2, <1>4, <2>1
  <2>2. CASE n # Len(h)
    <3>1. n \in 1..(Len(g) - drop) /\ n + drop \in (Len(g) - q + 1)..Len(g)
      <4>1. CASE drop = 0
        BY <4>1, <1>1, <1>2, <1>7, <1>8, <2>2
      <4>2. CASE drop = 1
        BY <4>2, <1>1, <1>2, <1>7, <1>8, <2>2
      <4> QED
        BY <1>6, <4>1, <4>2
    <3> QED
      BY <1>2, <1>5, <3>1 DEF q
  <2> QED
    BY <2>1, <2>2
<1> QED
  BY <1>3, <1>4, <1>5, <1>8, <1>9, <1>10 DEF Trails, q

(* A number that is stored is the last one fed.                            *)
LEMMA AcceptKeeps ==
  ASSUME UpsTypes, FilterOK, NEW x \in 0..UpsTop, ~Rejected(shared, x),
         NEW f, NEW h, f = Filtered(shared, x), h = Fed(seen.fed, x)
  PROVE  Len(h) <= UpsMaxReject + 1 /\ h # <<>> /\ f.last # Missing /\ Trails(f, h)
<1>1. /\ seen.fed \in Seq(0..UpsTop) /\ shared \in SharedType
      /\ Len(seen.fed) <= UpsMaxReject + 1
  BY DEF UpsTypes, SeenType, FilterOK
<1>2. /\ h \in Seq(0..UpsTop) /\ h[Len(h)] = x
      /\ Len(h) = Len(seen.fed) + 1 - (IF Len(seen.fed) <= UpsMaxReject THEN 0 ELSE 1)
  BY <1>1, FedKeepsEnd
<1>3. f.last = x /\ f.rejects = 0
  BY <1>1, FilteredTyped
<1>4. Len(h) \in Nat /\ 0 < Len(h) /\ Len(h) <= UpsMaxReject + 1
  <2>1. UpsMaxReject \in Nat /\ Len(seen.fed) \in Nat
    BY <1>1, Constants
  <2>2. CASE Len(seen.fed) <= UpsMaxReject
    BY <1>2, <2>1, <2>2
  <2>3. CASE ~(Len(seen.fed) <= UpsMaxReject)
    BY <1>1, <1>2, <2>1, <2>3
  <2> QED
    BY <2>2, <2>3
<1>5. x # Missing /\ h # <<>>
  BY <1>4 DEF Missing
<1>6. Len(h) - f.rejects = Len(h) /\ (Len(h) - f.rejects + 1)..Len(h) = {}
  BY <1>3, <1>4
<1>7. Trails(f, h)
  BY <1>2, <1>3, <1>4, <1>6 DEF Trails
<1> QED
  BY <1>3, <1>4, <1>5, <1>7

LEMMA FilterStep == ASSUME UpsTypes, FilterOK, [UpsNext]_upsVars PROVE FilterOK'
<1>1. ASSUME NEW r \in UpsReaders, Deliver(r) PROVE FilterOK'
  <2> DEFINE c == reader[r].got.charge
  <2>1. CASE c = Missing
    BY <1>1, <2>1, DeliverEffect DEF FilterOK, Trails
  <2>2. CASE c # Missing
    <3>1. /\ c \in 0..UpsTop /\ shared' = Filtered(shared, c)
          /\ seen'.fed = Fed(seen.fed, c)
      BY <1>1, <2>2, DeliverEffect
    <3> HIDE DEF c
    <3>2. /\ Len(seen'.fed) <= UpsMaxReject + 1 /\ seen'.fed # <<>>
          /\ shared'.last # Missing /\ Trails(shared', seen'.fed)
      BY <3>1, RejectKeeps, AcceptKeeps
    <3> QED
      BY <3>2 DEF FilterOK, Trails
  <2> QED
    BY <2>1, <2>2
<1>2. CASE ProcessRestart
  <2>1. seen'.fed = <<>> /\ shared'.last = Missing
    BY <1>2 DEF ProcessRestart, NoHistory, FreshProcess
  <2> QED
    BY <2>1, Constants DEF FilterOK
<1>3. CASE /\ shared'.last = shared.last /\ shared'.rejects = shared.rejects
           /\ seen'.fed = seen.fed
  BY <1>3 DEF FilterOK, Trails
<1> QED
  BY <1>1, <1>2, <1>3, OtherEffects

LEMMA FilterAlways == UpsSpec => []FilterOK
<1>1. UpsInit => FilterOK
  <2> SUFFICES ASSUME UpsInit PROVE FilterOK
    OBVIOUS
  <2>1. seen.fed = <<>> /\ shared.last = Missing
    BY DEF UpsInit, NoHistory, FreshProcess
  <2> QED
    BY <2>1, Constants DEF FilterOK
<1> QED
  BY <1>1, FilterStep, ReadersAlways, PTL DEF UpsSpec, Readers

(* A stored number moves far only when the filter had to give in.          *)
LEMMA JumpsConfirmed ==
  ASSUME UpsTypes, FilterOK, [UpsNext]_upsVars PROVE ConfirmedJump
<1> SUFFICES ASSUME shared.last # Missing, shared'.last # Missing,
                    Far(shared.last, shared'.last)
             PROVE  /\ Len(seen.fed) >= UpsMaxReject
                    /\ \A n \in (Len(seen.fed) - UpsMaxReject + 1)..Len(seen.fed) :
                         Far(shared.last, seen.fed[n])
  BY DEF ConfirmedJump
<1>0. shared \in SharedType /\ shared.last \in Int /\ shared.rejects \in 0..UpsMaxReject
  BY Constants DEF UpsTypes, SharedType, Charges, Missing
<1>1. shared'.last # shared.last
  BY <1>0, FarFromItself
<1>2. ~ProcessRestart
  BY DEF ProcessRestart, FreshProcess
<1>3. PICK r \in UpsReaders : Deliver(r)
  BY <1>1, <1>2, OtherEffects
<1> DEFINE c == reader[r].got.charge
<1>4. c \in 0..UpsTop /\ shared' = Filtered(shared, c)
  BY <1>1, <1>3, DeliverEffect
<1> HIDE DEF c
<1>5. ~Rejected(shared, c) /\ shared'.last = c
  BY <1>0, <1>1, <1>4, FilteredTyped
<1>6. shared.rejects = UpsMaxReject
  BY <1>0, <1>5, Constants DEF Rejected
<1>7. Trails(shared, seen.fed) /\ seen.fed \in Seq(0..UpsTop)
  BY DEF FilterOK, UpsTypes, SeenType
<1>8. /\ UpsMaxReject \in Nat /\ Len(seen.fed) \in Nat /\ UpsMaxReject < Len(seen.fed)
      /\ \A n \in (Len(seen.fed) - UpsMaxReject + 1)..Len(seen.fed) :
           Far(shared.last, seen.fed[n])
  <2>1. UpsMaxReject \in Nat /\ Len(seen.fed) \in Nat
    BY <1>7, Constants
  <2> QED
    BY <1>6, <1>7, <2>1 DEF Trails
<1> QED
  BY <1>8

(* The graph follows the battery: a level read often enough in a row is    *)
(* stored, and a stored level jumps only after as many numbers that were   *)
(* far from it as the filter may reject.                                   *)
THEOREM GraphFollows == UpsSpec => GraphFollowsLevel
<1>1. UpsTypes /\ FilterOK => LastingLevelStored
  <2> SUFFICES ASSUME UpsTypes, FilterOK, NEW x \in 0..UpsTop, Steady(x)
               PROVE  shared.last = x
    BY DEF LastingLevelStored
  <2>1. /\ Len(seen.fed) = UpsMaxReject + 1 /\ seen.fed # <<>>
        /\ \A n \in 1..Len(seen.fed) : seen.fed[n] = x
    BY Constants DEF Steady
  <2>2. shared.rejects \in 0..UpsMaxReject
    BY DEF UpsTypes, SharedType
  <2>3. seen.fed[Len(seen.fed) - shared.rejects] = shared.last
    BY <2>1 DEF FilterOK, Trails
  <2>4. Len(seen.fed) - shared.rejects \in 1..Len(seen.fed)
    BY <2>1, <2>2, Constants
  <2> QED
    BY <2>1, <2>3, <2>4
<1>2. UpsTypes /\ FilterOK /\ [UpsNext]_upsVars => [ConfirmedJump]_upsVars
  BY JumpsConfirmed
<1> QED
  BY <1>1, <1>2, ReadersAlways, FilterAlways, PTL DEF UpsSpec, Readers, GraphFollowsLevel

====

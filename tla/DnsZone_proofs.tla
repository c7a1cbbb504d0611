---------------------------- MODULE DnsZone_proofs ----------------------------
(***************************************************************************)
(* Proofs about DnsZone, for any number of callers, names and values: its  *)
(* types, and the two rules that keep overlapping rewrites of a whole zone *)
(* from touching records that nobody asked about.                          *)
(*                                                                         *)
(* A write replaces the zone by a draft made from an earlier reading, and  *)
(* other writes may have come between.  The argument is that all drafts    *)
(* agree with the zone, at all times, outside the records some call was    *)
(* about (DraftsAgree), because every write that comes between agrees too. *)
(***************************************************************************)
EXTENDS DnsZone, TLAPS

(* What a call is about has been noted.                                    *)
CallsAsked == \A c \in Callers : pc[c] # "idle" => About(call[c]) \subseteq asked

DraftAgrees(c) ==
  /\ draft[c].mail = mail
  /\ \A r \in Records \ asked : r \in draft[c].zone <=> r \in zone
  /\ \A s \in draft[c].zone : s.value \notin UnsafeValues

DraftsAgree == \A c \in Callers : pc[c] = "write" => DraftAgrees(c)

IInv == TypeOK /\ CallsAsked /\ DraftsAgree

-----------------------------------------------------------------------------
(* The records a call is about are records.                                *)
LEMMA AboutRecords ==
  ASSUME NEW k \in Call
  PROVE  About(k) \subseteq Records
<1>1. k.name \in Names /\ k.values \subseteq Values
  BY DEF Call
<1> QED
  BY <1>1 DEF About, Records

(* So is the zone a call wants, of a zone of records.                      *)
LEMMA WantedRecords ==
  ASSUME NEW k \in Call, NEW Z \in SUBSET Records
  PROVE  /\ Wanted(k, Z) \in SUBSET Records
         /\ \A r \in Records \ About(k) : r \in Wanted(k, Z) <=> r \in Z
  BY AboutRecords DEF Wanted

(* A call that ends leaves its caller idle.                                *)
LEMMA HangupType ==
  ASSUME TypeOK, NEW c \in Callers, Hangup(c),
         zone' \subseteq Records, mail' \in MailModes,
         promised' \subseteq Records, UNCHANGED <<asked, calls>>
  PROVE  TypeOK'
  BY DEF TypeOK, Hangup

(* The initial state is well typed.                                        *)
LEMMA InitInv == Init => IInv
  BY DEF Init, IInv, TypeOK, CallsAsked, DraftsAgree

(* Every step keeps the types.                                             *)
LEMMA NextType == TypeOK /\ [Next]_vars => TypeOK'
<1> SUFFICES ASSUME TypeOK, [Next]_vars PROVE TypeOK'
  OBVIOUS
<1>1. CASE UNCHANGED vars
  BY <1>1 DEF TypeOK, vars, conn
<1>2. ASSUME NEW c \in Callers, NEW k \in Call, Ask(c, k) PROVE TypeOK'
  <2>1. About(k) \subseteq Records
    BY AboutRecords
  <2> QED
    BY <1>2, <2>1 DEF TypeOK, Ask
<1>3. ASSUME NEW c \in Callers, pc[c] = "read" PROVE About(call[c]) \subseteq Records
  BY <1>3, AboutRecords DEF TypeOK
<1>4. ASSUME NEW c \in Callers, AlreadyThere(c) \/ NothingToRemove(c) PROVE TypeOK'
  <2>1. About(call[c]) \subseteq Records
    BY <1>3, <1>4 DEF AlreadyThere, NothingToRemove
  <2>2. Hangup(c) /\ UNCHANGED <<zone, mail, asked, calls>>
    BY <1>4 DEF AlreadyThere, NothingToRemove
  <2>3. promised' \subseteq Records
    BY <1>4, <2>1 DEF AlreadyThere, NothingToRemove, TypeOK
  <2>4. zone' \subseteq Records /\ mail' \in MailModes
    BY <2>2 DEF TypeOK
  <2> QED
    BY <2>2, <2>3, <2>4, HangupType
<1>5. ASSUME NEW c \in Callers, Failed(c) PROVE TypeOK'
  BY <1>5, HangupType DEF TypeOK, Failed
<1>6. ASSUME NEW c \in Callers, ReadZone(c) PROVE TypeOK'
  <2>1. call[c] \in Call /\ pc[c] = "read"
    BY <1>6 DEF TypeOK, ReadZone
  <2>2. Wanted(call[c], zone) \in SUBSET Records
    BY <2>1, WantedRecords DEF TypeOK
  <2>3. [zone |-> Wanted(call[c], zone), mail |-> mail] \in Draft
    BY <2>2 DEF TypeOK, Draft
  <2>4. draft' \in [Callers -> Draft \cup {None}]
    BY <1>6, <2>3 DEF TypeOK, ReadZone
  <2>5. \A d \in Callers : pc'[d] = "write" => draft'[d] \in Draft
    BY <1>6, <2>3 DEF TypeOK, ReadZone
  <2> QED
    BY <1>6, <2>1, <2>4, <2>5 DEF TypeOK, ReadZone
<1>7. ASSUME NEW c \in Callers, WriteZone(c) \/ WriteUnanswered(c) PROVE TypeOK'
  <2>1. pc[c] = "write" /\ Hangup(c) /\ UNCHANGED <<asked, calls>>
        /\ zone' = draft[c].zone /\ mail' = draft[c].mail
    BY <1>7 DEF WriteZone, WriteUnanswered, Rewrite
  <2>2. draft[c] \in Draft /\ call[c] \in Call
    BY <2>1 DEF TypeOK
  <2>3. zone' \subseteq Records /\ mail' \in MailModes
    BY <2>1, <2>2 DEF Draft
  <2>4. About(call[c]) \subseteq Records
    BY <2>2, AboutRecords
  <2>5. promised' \subseteq Records
    BY <1>7, <2>4 DEF WriteZone, WriteUnanswered, TypeOK
  <2> QED
    BY <2>1, <2>3, <2>5, HangupType
<1>8. ASSUME NEW c \in Callers, Refused(c) \/ ReadFails(c) \/ WriteFails(c) PROVE Failed(c)
  BY <1>8 DEF Refused, ReadFails, WriteFails
<1> QED
  BY <1>1, <1>2, <1>4, <1>5, <1>6, <1>7, <1>8 DEF Next

(* Every step keeps the drafts in agreement with the zone.                 *)
LEMMA NextAgree == IInv /\ [Next]_vars => CallsAsked' /\ DraftsAgree'
<1> SUFFICES ASSUME IInv, [Next]_vars PROVE CallsAsked' /\ DraftsAgree'
  OBVIOUS
<1> USE DEF IInv
<1>1. CASE UNCHANGED vars
  BY <1>1 DEF CallsAsked, DraftsAgree, DraftAgrees, vars, conn
<1>2. ASSUME NEW c \in Callers, NEW k \in Call, Ask(c, k) PROVE CallsAsked' /\ DraftsAgree'
  <2>1. /\ asked' = asked \cup About(k)
        /\ \A d \in Callers : pc'[d] = IF d = c THEN "read" ELSE pc[d]
        /\ \A d \in Callers : call'[d] = IF d = c THEN k ELSE call[d]
        /\ UNCHANGED <<zone, mail, draft>>
    BY <1>2 DEF Ask, TypeOK
  <2>2. CallsAsked'
    BY <2>1 DEF CallsAsked, About
  <2>3. DraftsAgree'
    BY <2>1 DEF DraftsAgree, DraftAgrees
  <2> QED
    BY <2>2, <2>3
<1>3. ASSUME NEW c \in Callers, Hangup(c), UNCHANGED <<zone, mail, asked>>
      PROVE  CallsAsked' /\ DraftsAgree'
  <2>1. \A d \in Callers : pc'[d] # "idle" =>
          pc'[d] = pc[d] /\ call'[d] = call[d] /\ draft'[d] = draft[d]
    BY <1>3 DEF Hangup, TypeOK
  <2> QED
    BY <1>3, <2>1 DEF CallsAsked, DraftsAgree, DraftAgrees, About
<1>4. ASSUME NEW c \in Callers,
             AlreadyThere(c) \/ NothingToRemove(c) \/ Refused(c) \/ ReadFails(c) \/ WriteFails(c)
      PROVE  Hangup(c) /\ UNCHANGED <<zone, mail, asked>>
  BY <1>4 DEF AlreadyThere, NothingToRemove, Refused, ReadFails, WriteFails, Failed
<1>5. ASSUME NEW c \in Callers, ReadZone(c) PROVE CallsAsked' /\ DraftsAgree'
  <2>1. /\ UNCHANGED <<call, asked, zone, mail>>
        /\ \A d \in Callers : d # c => pc'[d] = pc[d] /\ draft'[d] = draft[d]
        /\ draft'[c] = [zone |-> Wanted(call[c], zone), mail |-> mail]
        /\ Rewritable(Wanted(call[c], zone))
        /\ pc[c] = "read"
    BY <1>5 DEF ReadZone, TypeOK
  <2>2. CallsAsked'
    BY <2>1 DEF CallsAsked, About
  <2>3. call[c] \in Call /\ zone \in SUBSET Records /\ About(call[c]) \subseteq asked
    BY <2>1 DEF TypeOK, CallsAsked
  <2>4. \A r \in Records \ asked : r \in Wanted(call[c], zone) <=> r \in zone
    BY <2>3, WantedRecords
  <2>5. DraftAgrees(c)'
    BY <2>1, <2>4 DEF DraftAgrees, Rewritable
  <2>6. ASSUME NEW d \in Callers, d # c, pc'[d] = "write" PROVE DraftAgrees(d)'
    BY <2>1, <2>6 DEF DraftsAgree, DraftAgrees
  <2> QED
    BY <2>2, <2>5, <2>6 DEF DraftsAgree
<1>6. ASSUME NEW c \in Callers, WriteZone(c) \/ WriteUnanswered(c)
      PROVE  CallsAsked' /\ DraftsAgree'
  <2>1. /\ pc[c] = "write" /\ Hangup(c) /\ UNCHANGED asked
        /\ zone' = draft[c].zone /\ mail' = draft[c].mail
    BY <1>6 DEF WriteZone, WriteUnanswered, Rewrite
  <2>2. \A d \in Callers : pc'[d] # "idle" =>
          pc'[d] = pc[d] /\ call'[d] = call[d] /\ draft'[d] = draft[d]
    BY <2>1 DEF Hangup, TypeOK
  <2>3. DraftAgrees(c)
    BY <2>1 DEF DraftsAgree
  <2>4. CallsAsked'
    BY <2>1, <2>2 DEF CallsAsked, About
  <2>5. ASSUME NEW d \in Callers, pc'[d] = "write" PROVE DraftAgrees(d)'
    BY <2>1, <2>2, <2>3, <2>5 DEF DraftsAgree, DraftAgrees
  <2> QED
    BY <2>4, <2>5 DEF DraftsAgree
<1> QED
  BY <1>1, <1>2, <1>3, <1>4, <1>5, <1>6 DEF Next

LEMMA InvAlways == Spec => []IInv
<1>1. IInv /\ [Next]_vars => IInv'
  BY NextType, NextAgree DEF IInv
<1> QED
  BY InitInv, <1>1, PTL DEF Spec

(* Every reachable state is well typed.                                    *)
THEOREM TypeCorrect == Spec => []TypeOK
<1>1. IInv => TypeOK
  BY DEF IInv
<1> QED
  BY InvAlways, <1>1, PTL

-----------------------------------------------------------------------------
(* A step that changes the zone or the mail mode writes a draft that       *)
(* agrees with them.                                                       *)
LEMMA WriteAgrees ==
  ASSUME IInv, [Next]_vars, ~UNCHANGED <<zone, mail>>
  PROVE  \E c \in Callers : DraftAgrees(c) /\ zone' = draft[c].zone /\ mail' = draft[c].mail
<1>1. \E c \in Callers : WriteZone(c) \/ WriteUnanswered(c)
  BY DEF Next, vars, Ask, AlreadyThere, NothingToRemove, Refused, ReadZone, ReadFails,
         WriteFails, Failed
<1>2. PICK c \in Callers : WriteZone(c) \/ WriteUnanswered(c)
  BY <1>1
<1>3. pc[c] = "write" /\ zone' = draft[c].zone /\ mail' = draft[c].mail
  BY <1>2 DEF WriteZone, WriteUnanswered, Rewrite
<1> QED
  BY <1>3 DEF IInv, DraftsAgree

(* No overlap of reads and writes changes a record that no call was about, *)
(* or the mail mode.                                                       *)
THEOREM OthersKept == Spec => RestOfZoneKept
<1>1. ASSUME IInv, [Next]_vars
      PROVE  [/\ \A r \in Records \ asked : r \in zone' <=> r \in zone
              /\ mail' = mail]_vars
  BY <1>1, WriteAgrees DEF DraftAgrees
<1> QED
  BY InvAlways, <1>1, PTL DEF Spec, RestOfZoneKept

(* A zone with a record that cannot be rewritten, and that nobody asked to *)
(* remove, is never written.                                               *)
THEOREM UnsafeKept == Spec => UnsafeZoneUntouched
<1>1. ASSUME IInv, [Next]_vars
      PROVE  [(\E s \in zone \ asked : s.value \in UnsafeValues) => zone' = zone]_vars
  <2> SUFFICES ASSUME NEW s \in zone \ asked, s.value \in UnsafeValues, zone' # zone
               PROVE  FALSE
    OBVIOUS
  <2>1. PICK c \in Callers : DraftAgrees(c)
    BY <1>1, WriteAgrees
  <2>2. s \in Records \ asked
    BY <1>1 DEF IInv, TypeOK
  <2>3. s \in draft[c].zone
    BY <2>1, <2>2 DEF DraftAgrees
  <2> QED
    BY <2>1, <2>3 DEF DraftAgrees
<1> QED
  BY InvAlways, <1>1, PTL DEF Spec, UnsafeZoneUntouched

-----------------------------------------------------------------------------
(* One caller at a time: what its draft was made from is still the zone    *)
(* when it is written.                                                     *)
Serial == \A c, d \in Callers : c = d

DraftFresh ==
  \A c \in Callers : pc[c] = "write" =>
    draft[c].zone = Wanted(call[c], zone) /\ ~Taken(call[c], zone)

SerialInv == TypeOK /\ DraftFresh /\ NoLostUpdate

LEMMA SerialNext ==
  ASSUME Serial, SerialInv, [Next]_vars
  PROVE  DraftFresh' /\ NoLostUpdate'
<1> USE DEF SerialInv
<1>1. CASE UNCHANGED vars
  BY <1>1 DEF DraftFresh, NoLostUpdate, vars, conn, Wanted, Taken, About
<1>2. ASSUME NEW c \in Callers, pc'[c] # "write" PROVE DraftFresh'
  BY <1>2 DEF DraftFresh, Serial
<1>3. ASSUME NEW c \in Callers, Hangup(c) PROVE DraftFresh'
  <2>1. pc'[c] # "write"
    BY <1>3 DEF Hangup, TypeOK
  <2> QED
    BY <2>1, <1>2
<1>4. ASSUME NEW c \in Callers, NEW k \in Call, Ask(c, k)
      PROVE  DraftFresh' /\ NoLostUpdate'
  <2>1. pc'[c] # "write"
    BY <1>4 DEF Ask, TypeOK
  <2> QED
    BY <1>4, <2>1, <1>2 DEF Ask, NoLostUpdate
<1>5. ASSUME NEW c \in Callers, AlreadyThere(c) \/ NothingToRemove(c)
      PROVE  DraftFresh' /\ NoLostUpdate'
  <2>1. Hangup(c) /\ zone' = zone
    BY <1>5 DEF AlreadyThere, NothingToRemove
  <2>2. NoLostUpdate'
    BY <1>5, <2>1 DEF AlreadyThere, NothingToRemove, NoLostUpdate
  <2> QED
    BY <2>1, <2>2, <1>3
<1>6. ASSUME NEW c \in Callers, Refused(c) \/ ReadFails(c) \/ WriteFails(c)
      PROVE  DraftFresh' /\ NoLostUpdate'
  <2>1. Hangup(c) /\ UNCHANGED <<zone, promised>>
    BY <1>6 DEF Refused, ReadFails, WriteFails, Failed
  <2> QED
    BY <2>1, <1>3 DEF NoLostUpdate
<1>7. ASSUME NEW c \in Callers, ReadZone(c) PROVE DraftFresh' /\ NoLostUpdate'
  <2>1. /\ UNCHANGED <<zone, promised, call>> /\ ~Taken(call[c], zone)
        /\ draft'[c].zone = Wanted(call[c], zone)
    BY <1>7 DEF ReadZone, TypeOK
  <2> QED
    BY <2>1 DEF DraftFresh, NoLostUpdate, Serial, Wanted, Taken, About
<1>8. ASSUME NEW c \in Callers, WriteZone(c) \/ WriteUnanswered(c)
      PROVE  DraftFresh' /\ NoLostUpdate'
  <2>1. /\ pc[c] = "write" /\ Hangup(c) /\ zone' = draft[c].zone
    BY <1>8 DEF WriteZone, WriteUnanswered, Rewrite
  <2>2. zone' = Wanted(call[c], zone)
    BY <2>1 DEF DraftFresh
  <2>3. NoLostUpdate'
    BY <1>8, <2>2 DEF WriteZone, WriteUnanswered, NoLostUpdate, Wanted
  <2> QED
    BY <2>1, <2>3, <1>3
<1> QED
  BY <1>1, <1>4, <1>5, <1>6, <1>7, <1>8 DEF Next

LEMMA SerialAlways == ASSUME Serial PROVE Spec => []SerialInv
<1>1. Init => SerialInv
  BY InitInv DEF SerialInv, IInv, Init, DraftFresh, NoLostUpdate
<1>2. SerialInv /\ [Next]_vars => SerialInv'
  BY SerialNext, NextType DEF SerialInv
<1> QED
  BY <1>1, <1>2, PTL DEF Spec

(* While calls on a domain do not overlap, a record that a caller was told *)
(* is there stays until a call removes it, failed and lost answers         *)
(* included.                                                               *)
THEOREM SerialPromisesKept == ASSUME Serial PROVE Spec => []NoLostUpdate
<1>1. SerialInv => NoLostUpdate
  BY DEF SerialInv
<1> QED
  BY SerialAlways, <1>1, PTL

(* The records a call is about are those the abstract removal takes away.  *)
LEMMA AboutIs ==
  ASSUME NEW k \in Call, NEW r \in Records
  PROVE  r \in About(k) <=> r.name = k.name /\ r.value \in k.values
<1>1. r = [name |-> r.name, value |-> r.value] /\ r.name \in Names /\ r.value \in Values
  BY DEF Records
<1> QED
  BY <1>1 DEF About

LEMMA AboutOne ==
  ASSUME NEW n, NEW v
  PROVE  [name : {n}, value : {v}] = {[name |-> n, value |-> v]}
<1>1. \A x : x \in [name : {n}, value : {v}] => x = [name |-> n, value |-> v]
  OBVIOUS
<1>2. [name |-> n, value |-> v] \in [name : {n}, value : {v}]
  OBVIOUS
<1> QED
  BY <1>1, <1>2

LEMMA WriteRefines ==
  ASSUME NEW k \in Call, zone \subseteq Records, ~Taken(k, zone),
         zone' = Wanted(k, zone)
  PROVE  Abstract!Next
<1>1. CASE k.op = "ensure"
  <2>1. PICK v \in Values : k.values = {v} /\ k.name \in Names
    BY <1>1 DEF Call
  <2> DEFINE r == [name |-> k.name, value |-> v]
  <2>2. r \in Abstract!Records
    BY <2>1 DEF Abstract!Records
  <2>3. About(k) = {r}
    BY <2>1, AboutOne DEF About
  <2>4. Abstract!Add(r)
    BY <1>1, <2>3 DEF Abstract!Add, Taken, Wanted
  <2> QED
    BY <2>2, <2>4 DEF Abstract!Next
<1>2. CASE k.op # "ensure"
  <2>1. k.name \in Names /\ k.values \in SUBSET Values
    BY DEF Call
  <2>2. zone' = zone \ About(k)
    BY <1>2 DEF Wanted
  <2>3. Abstract!Remove(k.name, k.values)
    BY <2>2, AboutIs DEF Abstract!Remove
  <2> QED
    BY <2>1, <2>3 DEF Abstract!Next
<1> QED
  BY <1>1, <1>2

(* While calls on a domain do not overlap, reading and rewriting the whole *)
(* zone is as good as adding or removing the record in one step.           *)
THEOREM SerialRefinement == ASSUME Serial PROVE Spec => ImplementsRecords
<1>1. Init => Abstract!Init
  BY DEF Init, Abstract!Init, Records, Abstract!Records
<1>2. ASSUME SerialInv, [Next]_vars PROVE [Abstract!Next]_zone
  <2>1. CASE \E c \in Callers : WriteZone(c) \/ WriteUnanswered(c)
    <3>1. PICK c \in Callers : WriteZone(c) \/ WriteUnanswered(c)
      BY <2>1
    <3>2. pc[c] = "write" /\ zone' = draft[c].zone
      BY <3>1 DEF WriteZone, WriteUnanswered, Rewrite
    <3>3. call[c] \in Call /\ zone \subseteq Records
      BY <1>2, <3>2 DEF SerialInv, TypeOK
    <3>4. zone' = Wanted(call[c], zone) /\ ~Taken(call[c], zone)
      BY <1>2, <3>2 DEF SerialInv, DraftFresh
    <3> QED
      BY <3>3, <3>4, WriteRefines
  <2>2. CASE ~(\E c \in Callers : WriteZone(c) \/ WriteUnanswered(c))
    BY <1>2, <2>2 DEF Next, vars, Ask, AlreadyThere, NothingToRemove, Refused,
                      ReadZone, ReadFails, WriteFails, Failed
  <2> QED
    BY <2>1, <2>2
<1> QED
  BY <1>1, <1>2, SerialAlways, PTL DEF Spec, Abstract!Spec, ImplementsRecords

-----------------------------------------------------------------------------
(* Stale drafts come from zones that had one record for each name, so they *)
(* have one as well; which callers have written meanwhile does not matter. *)
UniqueDrafts == \A c \in Callers : pc[c] = "write" => OneRecordPerName(draft[c].zone)

UniqueInv == TypeOK /\ OneRecordPerName(zone) /\ UniqueDrafts

(* A rewrite adds a record only to a zone that has none of its name.       *)
LEMMA WantedUnique ==
  ASSUME NEW k \in Call, NEW Z \in SUBSET Records, OneRecordPerName(Z), ~Taken(k, Z)
  PROVE  OneRecordPerName(Wanted(k, Z))
<1>1. CASE k.op = "ensure"
  <2>1. PICK v \in Values : k.values = {v} /\ k.name \in Names
    BY <1>1 DEF Call
  <2>2. About(k) = {[name |-> k.name, value |-> v]}
    BY <2>1, AboutOne DEF About
  <2> QED
    BY <1>1, <2>2 DEF OneRecordPerName, Taken, Wanted
<1>2. CASE k.op # "ensure"
  BY <1>2 DEF OneRecordPerName, Wanted
<1> QED
  BY <1>1, <1>2

LEMMA UniqueNext ==
  ASSUME UniqueInv, [Next]_vars
  PROVE  OneRecordPerName(zone)' /\ UniqueDrafts'
<1> USE DEF UniqueInv
<1>1. CASE UNCHANGED vars
  BY <1>1 DEF UniqueDrafts, OneRecordPerName, vars, conn
<1>2. ASSUME NEW c \in Callers, NEW k \in Call, Ask(c, k)
      PROVE  OneRecordPerName(zone)' /\ UniqueDrafts'
  BY <1>2 DEF Ask, TypeOK, UniqueDrafts, OneRecordPerName
<1>3. ASSUME NEW c \in Callers, Hangup(c) PROVE UniqueDrafts'
  <2>1. \A d \in Callers : pc'[d] = "write" => pc[d] = "write" /\ draft'[d] = draft[d]
    BY <1>3 DEF Hangup, TypeOK
  <2> QED
    BY <2>1 DEF UniqueDrafts, OneRecordPerName
<1>4. ASSUME NEW c \in Callers,
             AlreadyThere(c) \/ NothingToRemove(c) \/ Refused(c) \/ ReadFails(c) \/ WriteFails(c)
      PROVE  OneRecordPerName(zone)' /\ UniqueDrafts'
  <2>1. Hangup(c) /\ zone' = zone
    BY <1>4 DEF AlreadyThere, NothingToRemove, Refused, ReadFails, WriteFails, Failed
  <2> QED
    BY <2>1, <1>3 DEF OneRecordPerName
<1>5. ASSUME NEW c \in Callers, ReadZone(c) PROVE OneRecordPerName(zone)' /\ UniqueDrafts'
  <2>1. /\ zone' = zone /\ pc[c] = "read" /\ ~Taken(call[c], zone)
        /\ \A d \in Callers : d # c => pc'[d] = pc[d] /\ draft'[d] = draft[d]
        /\ draft'[c].zone = Wanted(call[c], zone)
    BY <1>5 DEF ReadZone, TypeOK
  <2>2. OneRecordPerName(draft'[c].zone)
    BY <2>1, WantedUnique DEF TypeOK
  <2> QED
    BY <2>1, <2>2 DEF UniqueDrafts, OneRecordPerName
<1>6. ASSUME NEW c \in Callers, WriteZone(c) \/ WriteUnanswered(c)
      PROVE  OneRecordPerName(zone)' /\ UniqueDrafts'
  <2>1. pc[c] = "write" /\ Hangup(c) /\ zone' = draft[c].zone
    BY <1>6 DEF WriteZone, WriteUnanswered, Rewrite
  <2> QED
    BY <2>1, <1>3 DEF UniqueDrafts, OneRecordPerName
<1> QED
  BY <1>1, <1>2, <1>4, <1>5, <1>6 DEF Next

(* A zone with one record for each name stays one, however calls overlap   *)
(* and fail: a stale rewrite may lose a record, but gives no name two.     *)
THEOREM NamesUnique == Spec => NamesStayUnique
<1>1. Init /\ OneRecordPerName(zone) => UniqueInv
  BY InitInv DEF UniqueInv, UniqueDrafts, Init, IInv
<1>2. UniqueInv /\ [Next]_vars => UniqueInv'
  BY UniqueNext, NextType DEF UniqueInv
<1>3. UniqueInv => OneRecordPerName(zone)
  BY DEF UniqueInv
<1> QED
  BY <1>1, <1>2, <1>3, PTL DEF Spec, NamesStayUnique

=============================================================================

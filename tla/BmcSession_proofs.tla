--------------------------- MODULE BmcSession_proofs ---------------------------
(***************************************************************************)
(* Proofs about BmcSession for any instances, scenarios, gather widths and *)
(* session limits: a request goes stale only after two deaths, nothing     *)
(* survives the reapers, and an instance loses sight of few sessions, or   *)
(* of none where nothing fails.  Shape is what those need to know of types;*)
(* Typed adds the bounds of the scenario.                                  *)
(***************************************************************************)
EXTENDS BmcSession, FiniteSetTheorems, TLAPS

Session == [id : Nat, of : BmcInsts, late : BOOLEAN]
Instance == [phase : BmcPhases, key : Nat, step : Nat, token : Nat,
             lock : {0} \union BmcCalls, found : SUBSET Session]
Request == [pc : BmcPcs, cred : Nat, again : BOOLEAN, awaited : BOOLEAN]

(* The types, without the bounds that depend on the scenario.              *)
Shape ==
  /\ minted \in Nat
  /\ live \subseteq Session
  /\ inst \in [BmcInsts -> Instance]
  /\ call \in [BmcInsts -> [BmcCalls -> Request]]
  /\ harm \in [BmcInsts -> [died : Nat, lost : Nat]]

-----------------------------------------------------------------------------
(* Typing.                                                                 *)

LEMMA ShapeInit == BmcInit => Shape
BY DEF BmcInit, Shape, NewInst, NoCall, Instance, Request, BmcPhases, BmcPcs

LEMMA BecomesShape ==
  ASSUME Shape, NEW i \in BmcInsts, NEW c \in BmcCalls, NEW r \in Request,
         Becomes(i, c, r)
  PROVE  /\ call' \in [BmcInsts -> [BmcCalls -> Request]]
         /\ \A j \in BmcInsts, d \in BmcCalls :
              call'[j][d] = IF <<j, d>> = <<i, c>>
                              THEN IF r.pc \in Ended /\ ~r.awaited THEN NoCall ELSE r
                              ELSE call[j][d]
<1> DEFINE q == IF r.pc \in Ended /\ ~r.awaited THEN NoCall ELSE r
<1>1. q \in Request
  BY DEF NoCall, Request, BmcPcs
<1>2. call' = [call EXCEPT ![i][c] = q]
  BY DEF Becomes
<1> HIDE DEF q
<1>3. call' \in [BmcInsts -> [BmcCalls -> Request]]
  BY <1>1, <1>2 DEF Shape
<1>4. \A j \in BmcInsts, d \in BmcCalls :
        call'[j][d] = IF <<j, d>> = <<i, c>> THEN q ELSE call[j][d]
  BY <1>2 DEF Shape
<1> QED
  BY <1>3, <1>4 DEF q

(* What a step of a request does: it leaves the instance or replaces its   *)
(* token, leaves the sessions or adds one, and moves the request on.       *)
CallTo(i, c, r) ==
  /\ call' \in [BmcInsts -> [BmcCalls -> Request]]
  /\ \A j \in BmcInsts, d \in BmcCalls :
       call'[j][d] = IF <<j, d>> = <<i, c>>
                       THEN IF r.pc \in Ended /\ ~r.awaited THEN NoCall ELSE r
                       ELSE call[j][d]

TokenTo(i, t) ==
  /\ inst' \in [BmcInsts -> Instance]
  /\ \A j \in BmcInsts : /\ inst'[j].phase = inst[j].phase
                         /\ inst'[j].found = inst[j].found
                         /\ inst'[j].token = IF j = i THEN t ELSE inst[j].token

Granted(i) ==
  /\ minted' = minted + 1
  /\ live' = live \union {[id |-> minted + 1, of |-> i, late |-> inst[i].phase # "run"]}

LEMMA MoveTo ==
  ASSUME Shape, NEW i \in BmcInsts, NEW c \in BmcCalls, NEW r \in Request,
         Becomes(i, c, r)
  PROVE  CallTo(i, c, r)
BY BecomesShape DEF CallTo

LEMMA TokenKept ==
  ASSUME Shape, NEW i \in BmcInsts, UNCHANGED inst
  PROVE  TokenTo(i, inst[i].token)
BY DEF TokenTo, Shape

LEMMA TokenSet ==
  ASSUME Shape, NEW i \in BmcInsts, NEW t \in Nat, NEW k \in {0} \union BmcCalls,
         inst' = [inst EXCEPT ![i].token = t, ![i].lock = k]
  PROVE  TokenTo(i, t)
<1>1. inst[i] \in Instance
  BY DEF Shape
<1>2. /\ [inst[i] EXCEPT !.token = t, !.lock = k] \in Instance
      /\ [inst[i] EXCEPT !.token = t, !.lock = k].phase = inst[i].phase
      /\ [inst[i] EXCEPT !.token = t, !.lock = k].found = inst[i].found
      /\ [inst[i] EXCEPT !.token = t, !.lock = k].token = t
  BY <1>1 DEF Instance
<1>3. inst' = [inst EXCEPT ![i] = [inst[i] EXCEPT !.token = t, !.lock = k]]
  BY DEF Shape
<1> DEFINE q == [inst[i] EXCEPT !.token = t, !.lock = k]
<1> HIDE DEF q
<1>4. \A j \in BmcInsts : inst'[j] = IF j = i THEN q ELSE inst[j]
  BY <1>3 DEF Shape, q
<1>5. q \in Instance /\ q.phase = inst[i].phase /\ q.found = inst[i].found /\ q.token = t
  BY <1>2 DEF q
<1>6. inst' \in [BmcInsts -> Instance]
  BY <1>3, <1>5 DEF Shape, q
<1> QED
  BY <1>4, <1>5, <1>6 DEF TokenTo

(* The ways a request can go on under the login lock.                      *)
Waits(i, c, r, t) ==
  /\ r.pc \notin {"sent", "stale"} /\ r.again = call[i][c].again
  /\ r.cred \in {call[i][c].cred, inst[i].token} /\ t = inst[i].token
  /\ UNCHANGED <<live, minted>> \/ Granted(i)
Sends(i, c, r, t) ==
  /\ r.pc # "stale" /\ r.again = call[i][c].again
  /\ r.cred = t /\ t # 0
  /\ \/ t = inst[i].token /\ UNCHANGED <<live, minted>>
     \/ t = minted + 1 /\ Granted(i)
Refused(i, c, r) ==
  /\ call[i][c].pc = "sent" /\ ~IsLive(call[i][c].cred)
  /\ r.again /\ r.cred = call[i][c].cred
  /\ UNCHANGED <<live, minted>>
Renews(i, c, r, t) == Refused(i, c, r) /\ r.pc = "login" /\ t = 0
GivesUp(i, c, r, t) ==
  /\ Refused(i, c, r) /\ r.pc = "stale" /\ t = inst[i].token
  /\ call[i][c].again \/ Role(i) = "kvm"
Outcome(i, c, r, t) ==
  \/ Waits(i, c, r, t) \/ Sends(i, c, r, t) \/ Renews(i, c, r, t) \/ GivesUp(i, c, r, t)

NobodyDies ==
  /\ harm' \in [BmcInsts -> [died : Nat, lost : Nat]]
  /\ \A j \in BmcInsts : harm'[j].died = harm[j].died

Moves(i, c, r, t) ==
  /\ CallTo(i, c, r) /\ r.awaited = call[i][c].awaited
  /\ TokenTo(i, t)
  /\ NobodyDies /\ channel' = channel

LEMMA SetPcTo ==
  ASSUME Shape, NEW i \in BmcInsts, NEW c \in BmcCalls, NEW pc \in BmcPcs, SetPc(i, c, pc)
  PROVE  \E r \in Request : /\ CallTo(i, c, r) /\ r.pc = pc
                            /\ r.awaited = call[i][c].awaited
                            /\ r.again = call[i][c].again /\ r.cred = call[i][c].cred
<1> DEFINE r == [call[i][c] EXCEPT !.pc = pc]
<1>1. call[i][c] \in Request
  BY DEF Shape
<1>2. /\ r \in Request /\ r.pc = pc /\ r.awaited = call[i][c].awaited
      /\ r.again = call[i][c].again /\ r.cred = call[i][c].cred
  BY <1>1 DEF Request
<1>3. Becomes(i, c, r)
  BY DEF SetPc
<1> HIDE DEF r
<1> QED
  BY <1>2, <1>3, MoveTo

LEMMA SentTo ==
  ASSUME Shape, Locked, NEW i \in BmcInsts, NEW c \in BmcCalls, NEW id \in Nat,
         Becomes(i, c, Sent(i, c, id))
  PROVE  \E r \in Request : /\ CallTo(i, c, r) /\ r.pc # "stale"
                            /\ r.awaited = call[i][c].awaited
                            /\ r.again = call[i][c].again /\ r.cred = id
<1> DEFINE r == Sent(i, c, id)
           pc == IF Role(i) = "probe" THEN "done" ELSE "sent"
<1>1. call[i][c] \in Request
  BY DEF Shape
<1>2. channel.kind # "xmlapi"
  BY DEF Locked
<1>3. r = [call[i][c] EXCEPT !.pc = pc, !.cred = id]
  BY <1>2 DEF Sent
<1>4. pc \in BmcPcs /\ pc # "stale"
  BY DEF BmcPcs
<1> HIDE DEF pc
<1>5. /\ r \in Request /\ r.pc = pc /\ r.awaited = call[i][c].awaited
      /\ r.again = call[i][c].again /\ r.cred = id
  BY <1>1, <1>3, <1>4 DEF Request
<1>6. Becomes(i, c, r)
  OBVIOUS
<1> HIDE DEF r
<1> QED
  BY <1>4, <1>5, <1>6, MoveTo

LEMMA SameHarm ==
  ASSUME Shape, UNCHANGED harm
  PROVE  NobodyDies
BY DEF Shape, NobodyDies

LEMMA CallMoves ==
  ASSUME Shape, Locked, NEW i \in BmcInsts, NEW c \in BmcCalls, CallStep(i, c)
  PROVE  \E r \in Request, t \in Nat : Moves(i, c, r, t) /\ Outcome(i, c, r, t)
<1> DEFINE old == call[i][c]
<1>1. /\ old \in Request /\ inst[i] \in Instance /\ inst[i].token \in Nat
      /\ inst[i].lock \in {0} \union BmcCalls /\ minted + 1 \in Nat
  BY DEF Shape, Instance
<1>2. channel.kind \notin {"xmlapi", "ibmc"}
  BY DEF Locked
<1>3. CASE Begin(i, c)
  <2> DEFINE pc == IF inst[i].token = 0 THEN "login" ELSE "sent"
             r == [old EXCEPT !.pc = pc, !.cred = inst[i].token]
  <2>1. Becomes(i, c, r) /\ UNCHANGED <<channel, inst, live, minted, harm>>
    BY <1>2, <1>3 DEF Begin
  <2>2. /\ r \in Request /\ r.pc = pc /\ r.awaited = old.awaited
        /\ r.again = old.again /\ r.cred = inst[i].token
    BY <1>1 DEF Request, BmcPcs
  <2>3. pc = "login" \/ (pc = "sent" /\ inst[i].token # 0)
    OBVIOUS
  <2> HIDE DEF r, pc
  <2>4. Moves(i, c, r, inst[i].token)
    BY <2>1, <2>2, MoveTo, TokenKept, SameHarm DEF Moves
  <2>5. Outcome(i, c, r, inst[i].token)
    BY <2>1, <2>2, <2>3 DEF Outcome, Waits, Sends
  <2> QED
    BY <1>1, <2>2, <2>4, <2>5
<1>4. CASE Reuse(i, c)
  <2>1. PICK r \in Request : /\ CallTo(i, c, r) /\ r.pc # "stale"
                             /\ r.awaited = old.awaited
                             /\ r.again = old.again /\ r.cred = inst[i].token
    BY <1>1, <1>4, SentTo DEF Reuse
  <2>2. inst[i].token # 0 /\ UNCHANGED <<channel, inst, live, minted, harm>>
    BY <1>4 DEF Reuse
  <2>3. Moves(i, c, r, inst[i].token)
    BY <2>1, <2>2, TokenKept, SameHarm DEF Moves
  <2>4. Outcome(i, c, r, inst[i].token)
    BY <2>1, <2>2 DEF Outcome, Sends
  <2> QED
    BY <1>1, <2>3, <2>4
<1>5. CASE LoginGranted(i, c)
  <2>1. PICK r \in Request : /\ CallTo(i, c, r) /\ r.pc # "stale"
                             /\ r.awaited = old.awaited
                             /\ r.again = old.again /\ r.cred = minted + 1
    BY <1>1, <1>5, SentTo DEF LoginGranted
  <2>2. TokenTo(i, minted + 1)
    BY <1>1, <1>5, TokenSet DEF LoginGranted, Unlock
  <2>3. Granted(i) /\ UNCHANGED <<channel, harm>> /\ minted + 1 # 0
    BY <1>5 DEF LoginGranted, Grant, Granted, Shape
  <2>4. Moves(i, c, r, minted + 1)
    BY <2>1, <2>2, <2>3, SameHarm DEF Moves
  <2>5. Outcome(i, c, r, minted + 1)
    BY <2>1, <2>3 DEF Outcome, Sends
  <2> QED
    BY <1>1, <2>4, <2>5
<1>6. CASE Unauthorized(i, c)
  <2> DEFINE retry == Retries(i, c)
             pc == IF retry THEN "login" ELSE "stale"
             t == IF retry THEN 0 ELSE inst[i].token
             r == [old EXCEPT !.again = TRUE, !.pc = pc]
  <2>1. /\ Becomes(i, c, r) /\ inst' = [inst EXCEPT ![i].token = t]
        /\ UNCHANGED <<channel, live, minted, harm>>
        /\ old.pc = "sent" /\ ~IsLive(old.cred)
    BY <1>1, <1>6 DEF Unauthorized
  <2>2. /\ r \in Request /\ r.pc = pc /\ r.awaited = old.awaited
        /\ r.again /\ r.cred = old.cred
    BY <1>1 DEF Request, BmcPcs
  <2>3. \/ pc = "login" /\ t = 0
        \/ pc = "stale" /\ t = inst[i].token /\ (old.again \/ Role(i) = "kvm")
    BY <1>2 DEF Retries
  <2>4. t \in Nat
    BY <1>1
  <2> HIDE DEF r, pc, t
  <2>5. inst' = [inst EXCEPT ![i].token = t, ![i].lock = inst[i].lock]
    BY <1>1, <2>1 DEF Shape, Instance
  <2>6. TokenTo(i, t)
    BY <1>1, <2>4, <2>5, TokenSet
  <2>7. Moves(i, c, r, t)
    BY <2>1, <2>2, <2>6, MoveTo, SameHarm DEF Moves
  <2>8. Outcome(i, c, r, t)
    BY <2>1, <2>2, <2>3 DEF Outcome, Renews, GivesUp, Refused
  <2> QED
    BY <2>2, <2>4, <2>7, <2>8
<1>7. CASE \/ AskLogin(i, c) \/ LoginRefused(i, c) \/ LoginLost(i, c)
           \/ Answered(i, c) \/ AnsweredAnyway(i, c) \/ RequestFails(i, c)
  <2>1. \E pc \in {"asking", "failed", "done"} : SetPc(i, c, pc)
    BY <1>7 DEF AskLogin, LoginRefused, LoginLost, Answered, AnsweredAnyway, RequestFails
  <2>2. PICK r \in Request : /\ CallTo(i, c, r) /\ r.pc \notin {"sent", "stale"}
                             /\ r.awaited = old.awaited
                             /\ r.again = old.again /\ r.cred = old.cred
    BY <2>1, SetPcTo DEF BmcPcs
  <2>3. TokenTo(i, inst[i].token)
    <3>1. CASE UNCHANGED inst
      BY <3>1, TokenKept
    <3>2. CASE \E k \in {0} \union BmcCalls :
                 inst' = [inst EXCEPT ![i].token = inst[i].token, ![i].lock = k]
      BY <1>1, <3>2, TokenSet
    <3>3. CASE AskLogin(i, c)
      <4>1. \E k \in {0} \union BmcCalls : inst' = [inst EXCEPT ![i].lock = k]
        BY <1>1, <3>3 DEF AskLogin
      <4> QED
        BY <1>1, <3>2, <4>1 DEF Shape, Instance
    <3> QED
      BY <1>7, <3>1, <3>2, <3>3
         DEF LoginRefused, LoginLost, Answered, AnsweredAnyway, RequestFails, Unlock
  <2>4. NobodyDies /\ channel' = channel
    <3>1. CASE LoginLost(i, c)
      <4>1. harm' = [harm EXCEPT ![i].lost = @ + 1] /\ channel' = channel
        BY <3>1 DEF LoginLost
      <4> QED
        BY <4>1 DEF Shape, NobodyDies
    <3> QED
      BY <1>7, <3>1, SameHarm
         DEF AskLogin, LoginRefused, Answered, AnsweredAnyway, RequestFails
  <2>5. UNCHANGED <<live, minted>> \/ Granted(i)
    BY <1>7 DEF AskLogin, LoginRefused, LoginLost, Answered, AnsweredAnyway, RequestFails,
                Grant, Granted
  <2>6. Moves(i, c, r, inst[i].token)
    BY <2>2, <2>3, <2>4 DEF Moves
  <2>7. Outcome(i, c, r, inst[i].token)
    BY <2>2, <2>5 DEF Outcome, Waits
  <2> QED
    BY <1>1, <2>6, <2>7
<1> QED
  BY <1>3, <1>4, <1>5, <1>6, <1>7 DEF CallStep

-----------------------------------------------------------------------------
(* The invariant.                                                          *)

(* The instance has not begun to close.                                    *)
Working(i) == inst[i].phase \in {"idle", "run"}

Mine(i, id) == \A s \in live : s.id = id => s.of = i

(* An instance only ever holds ids of sessions that were granted to it.    *)
Apart ==
  /\ \A s \in live : s.id \in 1..minted
  /\ \A i \in BmcInsts : /\ inst[i].token <= minted /\ Mine(i, inst[i].token)
                         /\ \A c \in BmcCalls : /\ call[i][c].cred <= minted
                                                /\ Mine(i, call[i][c].cred)

(* What has ended is waited for, and nothing is waited for in close().     *)
AwaitedOnly ==
  \A i \in BmcInsts, c \in BmcCalls :
    /\ call[i][c].pc \in Ended => call[i][c].awaited
    /\ call[i][c].awaited => Working(i)

(* An id that is not live any more has died, and once more for a request   *)
(* that has used up its retry: it dropped the token that was dead then.    *)
DeadFor(i, n) == harm[i].died >= n
RenewedBy(i) ==
  /\ inst[i].token # 0 /\ ~IsLive(inst[i].token) => DeadFor(i, 1)
  /\ \A c \in BmcCalls : LET r == call[i][c] IN
       /\ r.pc = "sent" => r.cred # 0 /\ (~IsLive(r.cred) => DeadFor(i, 1))
       /\ r.again => DeadFor(i, 1)
       /\ r.again /\ inst[i].token # 0 /\ ~IsLive(inst[i].token) => DeadFor(i, 2)
       /\ r.again /\ r.pc = "sent" /\ ~IsLive(r.cred) => DeadFor(i, 2)
       /\ r.pc = "stale" => DeadFor(i, 2)
Renewed == \A i \in BmcInsts : Working(i) /\ Role(i) # "kvm" => RenewedBy(i)

LEMMA ApartInit == BmcInit => Apart
BY DEF BmcInit, Apart, Mine, NewInst, NoCall

LEMMA AwaitedInit == BmcInit => AwaitedOnly
BY DEF BmcInit, AwaitedOnly, NoCall, Ended

LEMMA RenewedInit == BmcInit => Renewed
BY DEF BmcInit, Renewed, RenewedBy, NewInst, NoCall

-----------------------------------------------------------------------------
(* A step of a request.                                                    *)

LEMMA CallApart ==
  ASSUME Shape, Apart, NEW i \in BmcInsts, NEW c \in BmcCalls,
         NEW r \in Request, NEW t \in Nat, Moves(i, c, r, t), Outcome(i, c, r, t)
  PROVE  Apart'
<1>1. \/ UNCHANGED <<live, minted>>
      \/ Granted(i)
  BY DEF Outcome, Waits, Sends, Renews, GivesUp, Refused
<1>2. minted \in Nat
  BY DEF Shape
<1>3. \A j \in BmcInsts, id \in Nat : id <= minted /\ Mine(j, id) => id <= minted' /\ Mine(j, id)'
  BY <1>1, <1>2 DEF Granted, Mine
<1>4. t <= minted' /\ Mine(i, t)'
  <2>1. CASE t = inst[i].token
    BY <1>3, <2>1 DEF Apart
  <2>2. CASE t = minted + 1 /\ Granted(i)
    <3>1. \A s \in live : s.id # minted + 1
      BY <1>2 DEF Apart
    <3> QED
      BY <1>2, <2>2, <3>1 DEF Granted, Mine
  <2>3. CASE t = 0 /\ UNCHANGED <<live, minted>>
    <3>1. \A s \in live : s.id # 0
      BY DEF Apart
    <3> QED
      BY <1>2, <2>3, <3>1 DEF Mine
  <2> QED
    BY <2>1, <2>2, <2>3 DEF Outcome, Waits, Sends, Renews, GivesUp, Refused
<1>5. r.cred <= minted' /\ Mine(i, r.cred)'
  <2>1. r.cred \in {call[i][c].cred, inst[i].token, t}
    BY DEF Outcome, Waits, Sends, Renews, GivesUp, Refused
  <2>2. call[i][c].cred \in Nat /\ inst[i].token \in Nat
    BY DEF Shape, Request, Instance
  <2> QED
    BY <1>3, <1>4, <2>1, <2>2 DEF Apart
<1>6. \A s \in live' : s.id \in 1..minted'
  BY <1>1, <1>2 DEF Apart, Granted
<1>7. ASSUME NEW j \in BmcInsts
      PROVE  (inst[j].token <= minted /\ Mine(j, inst[j].token))'
  <2>1. PICK id : id = inst'[j].token
    OBVIOUS
  <2>2. id = IF j = i THEN t ELSE inst[j].token
    BY <2>1 DEF Moves, TokenTo
  <2>3. inst[j].token \in Nat
    BY DEF Shape, Instance
  <2>4. id <= minted' /\ Mine(j, id)'
    BY <1>3, <1>4, <2>2, <2>3 DEF Apart
  <2> QED
    BY <2>1, <2>4 DEF Mine
<1>8. ASSUME NEW j \in BmcInsts, NEW d \in BmcCalls
      PROVE  (call[j][d].cred <= minted /\ Mine(j, call[j][d].cred))'
  <2>1. PICK q : q = call'[j][d]
    OBVIOUS
  <2>2. q = IF <<j, d>> = <<i, c>>
              THEN IF r.pc \in Ended /\ ~r.awaited THEN NoCall ELSE r
              ELSE call[j][d]
    BY <2>1 DEF Moves, CallTo
  <2>3. CASE q = call[j][d]
    <3>1. call[j][d].cred \in Nat
      BY DEF Shape, Request
    <3>2. q.cred <= minted' /\ Mine(j, q.cred)'
      BY <1>3, <2>3, <3>1 DEF Apart
    <3> QED
      BY <2>1, <3>2 DEF Mine
  <2>4. CASE j = i /\ q = r
    <3>1. q.cred <= minted' /\ Mine(j, q.cred)'
      BY <1>5, <2>4
    <3> QED
      BY <2>1, <3>1 DEF Mine
  <2>5. CASE q = NoCall
    <3>1. q.cred = 0 /\ \A s \in live' : s.id # 0
      BY <1>2, <1>6, <2>5 DEF NoCall
    <3>2. minted' \in Nat
      BY <1>1, <1>2 DEF Granted
    <3>3. q.cred <= minted' /\ Mine(j, q.cred)'
      BY <3>1, <3>2 DEF Mine
    <3> QED
      BY <2>1, <3>3 DEF Mine
  <2> QED
    BY <2>2, <2>3, <2>4, <2>5
<1> QED
  BY <1>6, <1>7, <1>8 DEF Apart

LEMMA CallAwaited ==
  ASSUME Shape, AwaitedOnly, NEW i \in BmcInsts, NEW c \in BmcCalls,
         NEW r \in Request, NEW t \in Nat, Moves(i, c, r, t)
  PROVE  AwaitedOnly'
<1>1. \A j \in BmcInsts, d \in BmcCalls :
        call'[j][d] = IF <<j, d>> = <<i, c>>
                        THEN IF r.pc \in Ended /\ ~r.awaited THEN NoCall ELSE r
                        ELSE call[j][d]
  BY DEF Moves, CallTo
<1>2. \A j \in BmcInsts : Working(j)' <=> Working(j)
  BY DEF Moves, TokenTo, Working
<1>3. r.awaited = call[i][c].awaited
  BY DEF Moves
<1>4. NoCall.pc \notin Ended /\ ~NoCall.awaited
  BY DEF NoCall, Ended
<1> QED
  BY <1>1, <1>2, <1>3, <1>4 DEF AwaitedOnly

(* RenewedBy of one request q and the token t of the next state.           *)
RequestFine(i, q, t) ==
  LET dead(id) == ~\E s \in live' : s.id = id IN
  /\ q.pc = "sent" => q.cred # 0 /\ (dead(q.cred) => DeadFor(i, 1))
  /\ q.again => DeadFor(i, 1)
  /\ q.again /\ t # 0 /\ dead(t) => DeadFor(i, 2)
  /\ q.again /\ q.pc = "sent" /\ dead(q.cred) => DeadFor(i, 2)
  /\ q.pc = "stale" => DeadFor(i, 2)

(* A request learns that its session is gone only if one has died, and     *)
(* when it does so twice two have.                                         *)
LEMMA CallRenewed ==
  ASSUME Shape, Renewed, NEW i \in BmcInsts, NEW c \in BmcCalls,
         NEW r \in Request, NEW t \in Nat, Moves(i, c, r, t), Outcome(i, c, r, t)
  PROVE  Renewed'
<1> SUFFICES ASSUME NEW j \in BmcInsts, Working(j)', Role(j)' # "kvm"
             PROVE  RenewedBy(j)'
  BY DEF Renewed
<1>1. RenewedBy(j) /\ Role(j) # "kvm"
  BY DEF Renewed, Working, Moves, TokenTo, Role
<1>2. harm'[j].died = harm[j].died /\ harm[j].died \in Nat
  BY DEF Moves, NobodyDies, Shape
<1>3. \A n : DeadFor(j, n)' <=> DeadFor(j, n)
  BY <1>2 DEF DeadFor
<1>4. DeadFor(j, 2) => DeadFor(j, 1)
  BY <1>2 DEF DeadFor
<1>5. \A id : IsLive(id) => IsLive(id)'
  BY DEF IsLive, Outcome, Waits, Sends, Renews, GivesUp, Refused, Granted
<1>6. \A d \in BmcCalls :
        call'[j][d] = IF <<j, d>> = <<i, c>>
                        THEN IF r.pc \in Ended /\ ~r.awaited THEN NoCall ELSE r
                        ELSE call[j][d]
  BY DEF Moves, CallTo
<1>7. inst'[j].token = IF j = i THEN t ELSE inst[j].token
  BY DEF Moves, TokenTo
<1>8. CASE j # i
  BY <1>1, <1>3, <1>5, <1>6, <1>7, <1>8 DEF RenewedBy
<1>9. CASE j = i
  <2> DEFINE old == call[i][c]
  <2>1. /\ inst'[i].token = t /\ RenewedBy(i) /\ Role(i) # "kvm"
        /\ \A d \in BmcCalls \ {c} : call'[i][d] = call[i][d]
        /\ call'[i][c] = r \/ call'[i][c] = NoCall
    BY <1>1, <1>6, <1>7, <1>9
  \* the token that is dead now was dead before
  <2>2. \/ t = 0
        \/ t = inst[i].token
        \/ IsLive(t)'
    <3>1. CASE t = minted + 1 /\ Granted(i)
      <4>1. PICK s \in live' : s = [id |-> t, of |-> i, late |-> inst[i].phase # "run"]
        BY <3>1 DEF Granted
      <4>2. s.id = t
        BY <4>1
      <4> QED
        BY <4>1, <4>2 DEF IsLive
    <3> QED
      BY <3>1 DEF Outcome, Waits, Sends, Renews, GivesUp
  <2>3. t # 0 /\ ~IsLive(t)' => inst[i].token # 0 /\ ~IsLive(inst[i].token)
    BY <1>5, <2>2
  <2>4. ASSUME NEW q \in {r, NoCall}, call'[i][c] = q
        PROVE  RequestFine(i, q, t)
    <3>1. CASE q = NoCall
      BY <3>1 DEF NoCall, RequestFine
    <3>2. CASE q = r /\ Waits(i, c, r, t)
      BY <2>1, <2>3, <3>2 DEF Waits, RenewedBy, RequestFine, IsLive
    <3>3. CASE q = r /\ Sends(i, c, r, t)
      BY <2>1, <2>3, <3>3 DEF Sends, RenewedBy, RequestFine, IsLive
    <3>4. CASE q = r /\ Renews(i, c, r, t)
      BY <2>1, <3>4 DEF Renews, Refused, RenewedBy, RequestFine, IsLive
    <3>5. CASE q = r /\ GivesUp(i, c, r, t)
      BY <2>1, <2>3, <3>5 DEF GivesUp, Refused, RenewedBy, RequestFine, IsLive
    <3> QED
      BY <3>1, <3>2, <3>3, <3>4, <3>5 DEF Outcome
  <2>5. ASSUME NEW d \in BmcCalls, d # c, NEW q, q = call[i][d]
        PROVE  RequestFine(i, q, t)
    BY <1>5, <2>1, <2>3, <2>5 DEF RenewedBy, RequestFine, IsLive
  <2>6. t # 0 /\ ~IsLive(t)' => DeadFor(i, 1)
    BY <2>1, <2>3 DEF RenewedBy
  <2>7. \A n : DeadFor(i, n)' <=> DeadFor(i, n)
    BY <1>3, <1>9
  <2>8. \A d \in BmcCalls : RequestFine(i, call'[i][d], t)
    BY <2>1, <2>4, <2>5
  <2> QED
    BY <1>9, <2>1, <2>6, <2>7, <2>8 DEF RenewedBy, RequestFine, IsLive
<1> QED
  BY <1>8, <1>9

-----------------------------------------------------------------------------
(* The steps of an instance, and of time.                                  *)

(* A gather begins or ends: requests appear, disappear or run on unwaited. *)
Regroups(i) ==
  /\ call' \in [BmcInsts -> [BmcCalls -> Request]]
  /\ \A j \in BmcInsts \ {i}, c \in BmcCalls : call'[j][c] = call[j][c]
  /\ \A c \in BmcCalls :
       LET q == call'[i][c]  r == call[i][c] IN
       \/ ~q.again /\ q.pc \in {"free", "begin"} /\ q.cred = 0
       \/ q.pc = r.pc /\ q.cred = r.cred /\ q.again = r.again

LEMMA SpawnRegroups ==
  ASSUME Shape, NEW i \in BmcInsts, Spawn(i)
  PROVE  Regroups(i)
<1>1. PICK S : call' = [call EXCEPT ![i] = [c \in BmcCalls |->
                          IF c \in S THEN NewCall ELSE @[c]]]
  BY DEF Spawn
<1>2. NewCall \in Request /\ ~NewCall.again /\ NewCall.pc = "begin" /\ NewCall.cred = 0
  BY DEF NewCall, NoCall, Request, BmcPcs
<1> QED
  BY <1>1, <1>2 DEF Shape, Regroups

LEMMA EndRegroups ==
  ASSUME Shape, NEW i \in BmcInsts, EndStep(i)
  PROVE  Regroups(i) /\ \A c \in BmcCalls : ~call'[i][c].awaited
<1>1. PICK S : call' = [call EXCEPT ![i] = [c \in BmcCalls |->
                          IF c \in S THEN NoCall ELSE [@[c] EXCEPT !.awaited = FALSE]]]
  BY DEF EndStep
<1>2. NoCall \in Request /\ ~NoCall.again /\ NoCall.pc = "free" /\ NoCall.cred = 0
      /\ ~NoCall.awaited
  BY DEF NoCall, Request, BmcPcs
<1>3. \A r \in Request : LET q == [r EXCEPT !.awaited = FALSE] IN
        q \in Request /\ q.pc = r.pc /\ q.cred = r.cred /\ q.again = r.again /\ ~q.awaited
  BY DEF Request
<1>4. \A c \in BmcCalls :
        call'[i][c] = IF c \in S THEN NoCall ELSE [call[i][c] EXCEPT !.awaited = FALSE]
  BY <1>1 DEF Shape
<1>5. \A c \in BmcCalls : call[i][c] \in Request
  BY DEF Shape
<1>6. \A c \in BmcCalls : call'[i][c] \in Request
  BY <1>2, <1>3, <1>4, <1>5
<1>7. \A j \in BmcInsts \ {i} : call'[j] = call[j]
  BY <1>1 DEF Shape
<1>8. call' \in [BmcInsts -> [BmcCalls -> Request]]
  <2>1. call'[i] \in [BmcCalls -> Request]
    <3>1. call'[i] = [c \in BmcCalls |->
                       IF c \in S THEN NoCall ELSE [call[i][c] EXCEPT !.awaited = FALSE]]
      BY <1>1 DEF Shape
    <3> QED
      BY <1>4, <1>6, <3>1
  <2> QED
    BY <1>1, <1>7, <2>1 DEF Shape
<1>9. \A c \in BmcCalls :
        \/ call'[i][c] = NoCall
        \/ /\ call'[i][c].pc = call[i][c].pc /\ call'[i][c].cred = call[i][c].cred
           /\ call'[i][c].again = call[i][c].again /\ ~call'[i][c].awaited
  BY <1>3, <1>4, <1>5
<1> QED
  BY <1>2, <1>7, <1>8, <1>9 DEF Regroups

(* Tokens stay, and so do sessions and harm.                               *)
LEMMA RegroupsKeeps ==
  ASSUME Shape, Apart, Renewed, NEW i \in BmcInsts, Regroups(i),
         UNCHANGED <<channel, live, minted, harm>>,
         \A j \in BmcInsts : inst'[j].token = inst[j].token /\ (Working(j)' => Working(j))
  PROVE  Apart' /\ Renewed'
<1>1. \A j \in BmcInsts, c \in BmcCalls :
        LET q == call'[j][c]  r == call[j][c] IN
        \/ ~q.again /\ q.pc \in {"free", "begin"} /\ q.cred = 0
        \/ q.pc = r.pc /\ q.cred = r.cred /\ q.again = r.again
  BY DEF Regroups
<1>2. minted \in Nat /\ \A s \in live : s.id # 0
  BY DEF Shape, Apart
<1>3. Apart'
  <2>1. \A j \in BmcInsts : \A id : Mine(j, id)' <=> Mine(j, id)
    BY DEF Mine
  <2>2. \A j \in BmcInsts : Mine(j, 0)
    BY <1>2 DEF Mine
  <2>3. \A j \in BmcInsts : inst'[j].token <= minted /\ Mine(j, inst'[j].token)
    BY DEF Apart
  <2>4. \A j \in BmcInsts, c \in BmcCalls :
          call'[j][c].cred <= minted /\ Mine(j, call'[j][c].cred)
    BY <1>1, <1>2, <2>2 DEF Apart
  <2> QED
    BY <2>3, <2>4 DEF Apart, Mine
<1>4. Renewed'
  <2> SUFFICES ASSUME NEW j \in BmcInsts, Working(j)', Role(j)' # "kvm"
               PROVE  RenewedBy(j)'
    BY DEF Renewed
  <2>1. RenewedBy(j)
    BY DEF Renewed, Role
  <2>2. inst'[j].token = inst[j].token
    OBVIOUS
  <2> QED
    BY <1>1, <2>1, <2>2 DEF RenewedBy, DeadFor, IsLive
<1> QED
  BY <1>3, <1>4

(* Sessions end: those of an instance that still works count as deaths.    *)
LEMMA LossKeeps ==
  ASSUME Shape, Apart, Renewed, UNCHANGED <<channel, call, minted>>, live' \subseteq live,
         \A j \in BmcInsts :
           /\ inst'[j].token \in {0, inst[j].token}
           /\ Working(j)' => Working(j) /\ inst'[j].token = inst[j].token,
         harm' \in [BmcInsts -> [died : Nat, lost : Nat]],
         \A j \in BmcInsts : harm'[j].died >= harm[j].died,
         \A j \in BmcInsts, s \in live \ live' :
           Working(j)' /\ s.of = j => harm'[j].died >= harm[j].died + 1
  PROVE  Apart' /\ Renewed'
<1>1. minted \in Nat /\ \A s \in live : s.id # 0
  BY DEF Shape, Apart
<1>2. Apart'
  <2>1. \A j \in BmcInsts : \A id : Mine(j, id) => Mine(j, id)'
    BY DEF Mine
  <2>2. \A j \in BmcInsts : Mine(j, 0)
    BY <1>1 DEF Mine
  <2>3. \A j \in BmcInsts : inst'[j].token <= minted /\ Mine(j, inst'[j].token)
    BY <1>1, <2>2 DEF Apart
  <2>4. \A j \in BmcInsts, c \in BmcCalls :
          call'[j][c].cred <= minted /\ Mine(j, call'[j][c].cred)
    BY DEF Apart
  <2> QED
    BY <2>3, <2>4 DEF Apart, Mine
<1>3. Renewed'
  <2> SUFFICES ASSUME NEW j \in BmcInsts, Working(j)', Role(j)' # "kvm"
               PROVE  RenewedBy(j)'
    BY DEF Renewed
  <2>1. RenewedBy(j) /\ inst'[j].token = inst[j].token
    BY DEF Renewed, Role
  <2>2. harm[j].died \in Nat /\ harm'[j].died \in Nat /\ harm'[j].died >= harm[j].died
    BY DEF Shape
  <2>3. \A n \in {1, 2} : DeadFor(j, n) => DeadFor(j, n)'
    BY <2>2 DEF DeadFor
  <2>4. ASSUME NEW id, Mine(j, id), IsLive(id), ~IsLive(id)'
        PROVE  harm'[j].died >= harm[j].died + 1
    <3>1. PICK s \in live : s.id = id
      BY <2>4 DEF IsLive
    <3>2. s \notin live' /\ s.of = j
      BY <2>4, <3>1 DEF IsLive, Mine
    <3> QED
      BY <3>2
  <2>5. ASSUME NEW id, Mine(j, id), IsLive(id), ~IsLive(id)'
        PROVE  DeadFor(j, 1)' /\ (DeadFor(j, 1) => DeadFor(j, 2)')
    BY <2>2, <2>4, <2>5 DEF DeadFor
  <2>6. PICK t : t = inst[j].token
    OBVIOUS
  <2>7. Mine(j, t)
    BY <2>6 DEF Apart
  <2>8. t # 0 /\ ~IsLive(t)' => DeadFor(j, 1)'
    BY <2>1, <2>3, <2>5, <2>6, <2>7 DEF RenewedBy
  <2>9. ASSUME NEW c \in BmcCalls, NEW r, r = call[j][c]
        PROVE  /\ r.pc = "sent" => r.cred # 0 /\ (~IsLive(r.cred)' => DeadFor(j, 1)')
               /\ r.again => DeadFor(j, 1)'
               /\ r.again /\ t # 0 /\ ~IsLive(t)' => DeadFor(j, 2)'
               /\ r.again /\ r.pc = "sent" /\ ~IsLive(r.cred)' => DeadFor(j, 2)'
               /\ r.pc = "stale" => DeadFor(j, 2)'
    <3>1. Mine(j, r.cred)
      BY <2>9 DEF Apart
    <3>2. /\ r.pc = "sent" => r.cred # 0 /\ (~IsLive(r.cred) => DeadFor(j, 1))
          /\ r.again => DeadFor(j, 1)
          /\ r.again /\ t # 0 /\ ~IsLive(t) => DeadFor(j, 2)
          /\ r.again /\ r.pc = "sent" /\ ~IsLive(r.cred) => DeadFor(j, 2)
          /\ r.pc = "stale" => DeadFor(j, 2)
      BY <2>1, <2>6, <2>9 DEF RenewedBy
    <3> QED
      BY <2>3, <2>5, <2>7, <3>1, <3>2
  <2> QED
    BY <2>1, <2>6, <2>8, <2>9 DEF RenewedBy, IsLive
<1> QED
  BY <1>2, <1>3

(* The harm of sessions that are terminated or expire.                     *)
LEMMA BereaveHarm ==
  ASSUME Shape, IsFiniteSet(live), NEW gone \in SUBSET live, Bereave(gone)
  PROVE  /\ harm' \in [BmcInsts -> [died : Nat, lost : Nat]]
         /\ \A j \in BmcInsts : harm'[j].died >= harm[j].died
         /\ \A j \in BmcInsts, s \in gone : s.of = j => harm'[j].died >= harm[j].died + 1
<1> DEFINE n(j) == Cardinality({s \in gone : s.of = j})
<1>1. ASSUME NEW j \in BmcInsts
      PROVE  n(j) \in Nat /\ \A s \in gone : s.of = j => n(j) >= 1
  <2>1. IsFiniteSet({s \in gone : s.of = j})
    BY FS_Subset
  <2>2. n(j) \in Nat /\ (n(j) = 0 <=> {s \in gone : s.of = j} = {})
    BY <2>1, FS_CardinalityType, FS_EmptySet
  <2> QED
    BY <2>2
<1>2. harm' = [j \in BmcInsts |-> [harm[j] EXCEPT !.died = @ + n(j)]]
  BY DEF Bereave
<1> HIDE DEF n
<1>3. ASSUME NEW j \in BmcInsts
      PROVE  /\ harm'[j] \in [died : Nat, lost : Nat]
             /\ harm'[j].died = harm[j].died + n(j) /\ harm[j].died \in Nat
  <2>1. PICK h \in [died : Nat, lost : Nat], k \in Nat : h = harm[j] /\ k = n(j)
    BY <1>1 DEF Shape
  <2>2. /\ [h EXCEPT !.died = @ + k] \in [died : Nat, lost : Nat]
        /\ [h EXCEPT !.died = @ + k].died = h.died + k
    OBVIOUS
  <2>3. harm'[j] = [h EXCEPT !.died = @ + k]
    BY <1>2, <2>1
  <2> QED
    BY <2>1, <2>2, <2>3
<1>4. harm' \in [BmcInsts -> [died : Nat, lost : Nat]]
  BY <1>2, <1>3
<1> QED
  BY <1>1, <1>3, <1>4

(* The places an instance can move to.                                     *)
LEMMA PlaceShape ==
  ASSUME Shape, NEW i \in BmcInsts, NEW e, Place(i, Onwards(i, e))
  PROVE  /\ inst' \in [BmcInsts -> Instance]
         /\ \A j \in BmcInsts : inst'[j].token = inst[j].token /\ inst'[j].found = inst[j].found
         /\ \A j \in BmcInsts \ {i} : inst'[j].phase = inst[j].phase
         /\ inst'[i].phase \in {"run", "logout", "left", "kept"}
<1> DEFINE p == Onwards(i, e)
           q == [inst[i] EXCEPT !.phase = p.phase, !.key = p.key, !.step = p.step]
<1>1. inst[i] \in Instance
  BY DEF Shape
<1>2. inst[i].key \in Nat /\ inst[i].step \in Nat
  BY <1>1 DEF Instance
<1>3. p.phase \in {"run", "logout", "left", "kept"} /\ p.key \in Nat /\ p.step \in Nat
  BY <1>2 DEF Onwards
<1> HIDE DEF p
<1>4. q \in Instance /\ q.token = inst[i].token /\ q.found = inst[i].found /\ q.phase = p.phase
  BY <1>1, <1>3 DEF Instance, BmcPhases
<1>5. inst' = [inst EXCEPT ![i] = q]
  BY DEF Place, p, Shape
<1> HIDE DEF q
<1> QED
  BY <1>3, <1>4, <1>5 DEF Shape

(* The steps of an instance, by what they do to its phase, token and list. *)
ToPhase(i, ph, t, F) ==
  /\ inst' \in [BmcInsts -> Instance]
  /\ \A j \in BmcInsts \ {i} : inst'[j] = inst[j]
  /\ inst'[i].phase = ph /\ inst'[i].token = t /\ inst'[i].found = F

LEMMA ReplaceShape ==
  ASSUME Shape, NEW i \in BmcInsts, NEW q \in Instance, inst' = [inst EXCEPT ![i] = q]
  PROVE  ToPhase(i, q.phase, q.token, q.found)
BY DEF Shape, ToPhase

LEMMA PhaseShape ==
  ASSUME Shape, NEW i \in BmcInsts, NEW ph \in BmcPhases, NEW t \in Nat,
         NEW F \in SUBSET Session,
         inst' = [inst EXCEPT ![i].phase = ph, ![i].token = t, ![i].found = F]
  PROVE  ToPhase(i, ph, t, F)
<1> DEFINE q == [inst[i] EXCEPT !.phase = ph, !.token = t, !.found = F]
<1>1. inst[i] \in Instance
  BY DEF Shape
<1>2. q \in Instance /\ q.token = t /\ q.found = F /\ q.phase = ph
  BY <1>1 DEF Instance
<1>3. inst' = [inst EXCEPT ![i] = q]
  BY DEF Shape
<1> HIDE DEF q
<1> QED
  BY <1>2, <1>3, ReplaceShape

LEMMA InstMoves ==
  ASSUME Shape, NEW i \in BmcInsts
  PROVE  /\ OpenInst(i) => ToPhase(i, "run", inst[i].token, inst[i].found)
         /\ Logout(i) => ToPhase(i, AfterLogout, 0, inst[i].found)
         /\ ReapList(i) => \/ ToPhase(i, "kill", inst[i].token, live)
                           \/ ToPhase(i, "left", inst[i].token, inst[i].found)
         /\ ReapKill(i) => ToPhase(i, "closed", inst[i].token, {})
<1>1. inst[i] \in Instance /\ inst[i].token \in Nat /\ inst[i].found \in SUBSET Session
      /\ live \in SUBSET Session
  BY DEF Shape, Instance
<1>2. inst[i] = [inst[i] EXCEPT !.token = inst[i].token, !.found = inst[i].found]
  BY <1>1 DEF Instance
<1>3. \A ph : [inst EXCEPT ![i].phase = ph]
              = [inst EXCEPT ![i].phase = ph, ![i].token = inst[i].token,
                             ![i].found = inst[i].found]
  BY <1>1 DEF Shape, Instance
<1>4. ASSUME OpenInst(i) PROVE ToPhase(i, "run", inst[i].token, inst[i].found)
  <2>1. inst' = [inst EXCEPT ![i].phase = "run", ![i].token = inst[i].token,
                             ![i].found = inst[i].found]
    BY <1>3, <1>4 DEF OpenInst
  <2> QED
    BY <1>1, <2>1, PhaseShape DEF BmcPhases
<1>5. ASSUME Logout(i) PROVE ToPhase(i, AfterLogout, 0, inst[i].found)
  <2>1. inst' = [inst EXCEPT ![i].phase = AfterLogout, ![i].token = 0,
                             ![i].found = inst[i].found]
    BY <1>1, <1>5 DEF Logout, Shape, Instance
  <2>2. AfterLogout \in BmcPhases
    BY DEF AfterLogout, BmcPhases
  <2> QED
    BY <1>1, <2>1, <2>2, PhaseShape
<1>6. ASSUME ReapList(i)
      PROVE  \/ ToPhase(i, "kill", inst[i].token, live)
             \/ ToPhase(i, "left", inst[i].token, inst[i].found)
  <2>1. CASE inst' = [inst EXCEPT ![i].phase = "kill", ![i].found = live]
    <3>1. inst' = [inst EXCEPT ![i].phase = "kill", ![i].token = inst[i].token,
                               ![i].found = live]
      BY <1>1, <2>1 DEF Shape, Instance
    <3> QED
      BY <1>1, <3>1, PhaseShape DEF BmcPhases
  <2>2. CASE inst' = [inst EXCEPT ![i].phase = "left"]
    <3>1. inst' = [inst EXCEPT ![i].phase = "left", ![i].token = inst[i].token,
                               ![i].found = inst[i].found]
      BY <1>3, <2>2
    <3> QED
      BY <1>1, <3>1, PhaseShape DEF BmcPhases
  <2> QED
    BY <1>6, <2>1, <2>2 DEF ReapList
<1>7. ASSUME ReapKill(i) PROVE ToPhase(i, "closed", inst[i].token, {})
  <2>1. inst' = [inst EXCEPT ![i].phase = "closed", ![i].token = inst[i].token,
                             ![i].found = {}]
    BY <1>1, <1>7 DEF ReapKill, Shape, Instance
  <2> QED
    BY <1>1, <2>1, PhaseShape DEF BmcPhases
<1> QED
  BY <1>4, <1>5, <1>6, <1>7

LEMMA PhaseKeeps ==
  ASSUME Shape, NEW i \in BmcInsts, NEW ph, NEW t, NEW F, ToPhase(i, ph, t, F),
         ph \notin {"idle", "run"} \/ (t = inst[i].token /\ Working(i)), t \in {0, inst[i].token}
  PROVE  \A j \in BmcInsts :
           /\ inst'[j].token \in {0, inst[j].token}
           /\ Working(j)' => Working(j) /\ inst'[j].token = inst[j].token
<1> SUFFICES ASSUME NEW j \in BmcInsts
             PROVE  /\ inst'[j].token \in {0, inst[j].token}
                    /\ Working(j)' => Working(j) /\ inst'[j].token = inst[j].token
  OBVIOUS
<1>1. CASE j # i
  BY <1>1 DEF ToPhase, Working
<1>2. CASE j = i
  BY <1>2 DEF ToPhase, Working
<1> QED
  BY <1>1, <1>2

LEMMA RestHarm ==
  ASSUME Shape, harm' = harm \/ \E i \in BmcInsts : harm' = [harm EXCEPT ![i].lost = @ + 1]
  PROVE  /\ harm' \in [BmcInsts -> [died : Nat, lost : Nat]]
         /\ \A j \in BmcInsts : harm'[j].died = harm[j].died /\ harm'[j].died >= harm[j].died
<1>1. CASE harm' = harm
  BY <1>1 DEF Shape
<1>2. ASSUME NEW i \in BmcInsts, harm' = [harm EXCEPT ![i].lost = @ + 1]
      PROVE  /\ harm' \in [BmcInsts -> [died : Nat, lost : Nat]]
             /\ \A j \in BmcInsts : harm'[j].died = harm[j].died
  BY <1>2 DEF Shape
<1>3. \A j \in BmcInsts : harm[j].died \in Nat
  BY DEF Shape
<1> QED
  BY <1>1, <1>2, <1>3

-----------------------------------------------------------------------------
BmcInv ==
  /\ Shape /\ IsFiniteSet(live)
  /\ Locked => Apart /\ AwaitedOnly /\ Renewed

(* The steps that leave the requests alone: sessions only get fewer.       *)
LossStep ==
  \/ \E i \in BmcInsts : OpenInst(i) \/ Logout(i) \/ ReapList(i) \/ ReapKill(i)
  \/ \E s \in live : Expire(s)

LEMMA LossShape ==
  ASSUME Shape, IsFiniteSet(live), LossStep
  PROVE  /\ inst' \in [BmcInsts -> Instance]
         /\ live' \subseteq live /\ UNCHANGED <<channel, call, minted>>
         /\ \A j \in BmcInsts :
              /\ inst'[j].token \in {0, inst[j].token}
              /\ Working(j)' => Working(j) /\ inst'[j].token = inst[j].token
         /\ harm' \in [BmcInsts -> [died : Nat, lost : Nat]]
         /\ \A j \in BmcInsts : harm'[j].died >= harm[j].died
         /\ (\A i \in BmcInsts : ~Logout(i)) =>
              \A j \in BmcInsts, s \in live \ live' : s.of = j => harm'[j].died >= harm[j].died + 1
<1>1. ASSUME NEW i \in BmcInsts, OpenInst(i) \/ ReapList(i)
      PROVE  /\ UNCHANGED <<channel, call, minted, live, harm>>
             /\ \E ph, t, F : /\ ToPhase(i, ph, t, F) /\ t \in {0, inst[i].token}
                              /\ ph \notin {"idle", "run"} \/ (t = inst[i].token /\ Working(i))
  BY <1>1, InstMoves DEF OpenInst, ReapList, Working
<1>2. ASSUME NEW i \in BmcInsts, Logout(i)
      PROVE  /\ UNCHANGED <<channel, call, minted>> /\ live' \subseteq live
             /\ harm' = harm \/ harm' = [harm EXCEPT ![i].lost = @ + 1]
             /\ \E ph, t, F : /\ ToPhase(i, ph, t, F) /\ t \in {0, inst[i].token}
                              /\ ph \notin {"idle", "run"} \/ (t = inst[i].token /\ Working(i))
  <2>1. AfterLogout \notin {"idle", "run"}
    BY DEF AfterLogout
  <2>2. ToPhase(i, AfterLogout, 0, inst[i].found)
    BY <1>2, InstMoves
  <2> QED
    BY <1>2, <2>1, <2>2 DEF Logout
<1>3. ASSUME NEW i \in BmcInsts, ReapKill(i)
      PROVE  /\ UNCHANGED <<channel, call, minted>> /\ live' = live \ inst[i].found
             /\ Bereave(live \intersect inst[i].found)
             /\ \E ph, t, F : /\ ToPhase(i, ph, t, F) /\ t \in {0, inst[i].token}
                              /\ ph \notin {"idle", "run"} \/ (t = inst[i].token /\ Working(i))
  <2>1. ToPhase(i, "closed", inst[i].token, {})
    BY <1>3, InstMoves
  <2> QED
    BY <1>3, <2>1 DEF ReapKill
<1>4. CASE \E i \in BmcInsts : OpenInst(i) \/ ReapList(i)
  BY <1>1, <1>4, PhaseKeeps, RestHarm DEF ToPhase
<1>5. CASE \E i \in BmcInsts : Logout(i)
  BY <1>2, <1>5, PhaseKeeps, RestHarm DEF ToPhase
<1>6. CASE \E i \in BmcInsts : ReapKill(i)
  <2>1. PICK i \in BmcInsts : ReapKill(i)
    BY <1>6
  <2>2. PICK gone \in SUBSET live : gone = live \intersect inst[i].found
    OBVIOUS
  <2>3. Bereave(gone) /\ live' = live \ gone
    BY <1>3, <2>1, <2>2
  <2>4. /\ harm' \in [BmcInsts -> [died : Nat, lost : Nat]]
        /\ \A j \in BmcInsts : harm'[j].died >= harm[j].died
        /\ \A j \in BmcInsts, s \in gone : s.of = j => harm'[j].died >= harm[j].died + 1
    BY <2>3, BereaveHarm
  <2> QED
    BY <1>3, <2>1, <2>3, <2>4, PhaseKeeps DEF ToPhase
<1>7. CASE \E s \in live : Expire(s)
  <2>1. PICK s \in live : Expire(s)
    BY <1>7
  <2>2. PICK gone \in SUBSET live : gone = {s}
    OBVIOUS
  <2>3. Bereave(gone) /\ live' = live \ gone /\ UNCHANGED <<channel, call, minted, inst>>
    BY <2>1, <2>2 DEF Expire
  <2>4. /\ harm' \in [BmcInsts -> [died : Nat, lost : Nat]]
        /\ \A j \in BmcInsts : harm'[j].died >= harm[j].died
        /\ \A j \in BmcInsts, u \in gone : u.of = j => harm'[j].died >= harm[j].died + 1
    BY <2>3, BereaveHarm
  <2>5. \A j \in BmcInsts : Working(j)' <=> Working(j)
    BY <2>3 DEF Working
  <2> QED
    BY <2>3, <2>4, <2>5 DEF Shape
<1> QED
  BY <1>4, <1>5, <1>6, <1>7 DEF LossStep

LEMMA LossInv ==
  ASSUME BmcInv, LossStep
  PROVE  BmcInv'
<1>1. Shape /\ IsFiniteSet(live)
  BY DEF BmcInv
<1>2. Shape' /\ IsFiniteSet(live')
  BY <1>1, LossShape, FS_Subset DEF Shape
<1>3. ASSUME Locked PROVE Apart' /\ AwaitedOnly' /\ Renewed'
  <2>1. Apart /\ AwaitedOnly /\ Renewed
    BY <1>3 DEF BmcInv
  <2>2. \A j \in BmcInsts, s \in live \ live' :
          Working(j)' /\ s.of = j => harm'[j].died >= harm[j].died + 1
    <3>1. CASE \A i \in BmcInsts : ~Logout(i)
      BY <1>1, <3>1, LossShape
    <3>2. CASE \E i \in BmcInsts : Logout(i)
      <4>1. PICK i \in BmcInsts : Logout(i)
        BY <3>2
      <4>2. \A s \in live \ live' : s.id = inst[i].token
        BY <4>1 DEF Logout
      <4>3. \A s \in live \ live' : s.of = i
        BY <2>1, <4>2 DEF Apart, Mine
      <4>4. ~Working(i)'
        <5>1. ToPhase(i, AfterLogout, 0, inst[i].found)
          BY <1>1, <4>1, InstMoves
        <5> QED
          BY <5>1 DEF ToPhase, AfterLogout, Working
      <4> QED
        BY <4>3, <4>4
    <3> QED
      BY <3>1, <3>2
  <2>3. Apart' /\ Renewed'
    BY <1>1, <2>1, <2>2, LossShape, LossKeeps
  <2>4. AwaitedOnly'
    <3>1. call' = call
      BY <1>1, LossShape
    <3>2. \A j \in BmcInsts : Working(j) => Working(j)'
      <4> SUFFICES ASSUME NEW j \in BmcInsts, Working(j), ~Working(j)' PROVE FALSE
        OBVIOUS
      <4>1. CASE \E s \in live : Expire(s)
        BY <4>1 DEF Expire, Working
      <4>2. ASSUME NEW i \in BmcInsts, OpenInst(i) \/ Logout(i) \/ ReapList(i) \/ ReapKill(i)
            PROVE  FALSE
        <5>1. \E ph, t, F : ToPhase(i, ph, t, F)
          BY <1>1, <4>2, InstMoves
        <5>2. CASE j # i
          BY <5>1, <5>2 DEF ToPhase, Working
        <5>3. CASE j = i /\ OpenInst(i)
          BY <1>1, <5>3, InstMoves DEF ToPhase, Working
        <5>4. CASE j = i /\ ~OpenInst(i)
          BY <4>2, <5>4 DEF Logout, ReapList, ReapKill, Working
        <5> QED
          BY <5>2, <5>3, <5>4
      <4> QED
        BY <4>1, <4>2 DEF LossStep
    <3> QED
      BY <2>1, <3>1, <3>2 DEF AwaitedOnly
  <2> QED
    BY <2>3, <2>4
<1>4. Locked' <=> Locked
  BY <1>1, LossShape DEF Locked
<1> QED
  BY <1>2, <1>3, <1>4 DEF BmcInv

LEMMA GatherInv ==
  ASSUME BmcInv, NEW i \in BmcInsts, Spawn(i) \/ EndStep(i)
  PROVE  BmcInv'
<1>1. Shape /\ IsFiniteSet(live)
  BY DEF BmcInv
<1>2. Regroups(i) /\ UNCHANGED <<channel, live, minted, harm>>
  BY <1>1, SpawnRegroups, EndRegroups DEF Spawn, EndStep
<1>3. /\ inst' \in [BmcInsts -> Instance]
      /\ \A j \in BmcInsts : inst'[j].token = inst[j].token /\ (Working(j)' => Working(j))
      /\ \A j \in BmcInsts \ {i} : inst'[j].phase = inst[j].phase
  <2>1. CASE Spawn(i)
    BY <1>1, <2>1 DEF Spawn, Shape, Working
  <2>2. CASE EndStep(i)
    <3>1. PICK e : Place(i, Onwards(i, e))
      BY <2>2 DEF EndStep
    <3>2. inst[i].phase = "run"
      BY <2>2 DEF EndStep
    <3> QED
      BY <1>1, <3>1, <3>2, PlaceShape DEF Working
  <2> QED
    BY <2>1, <2>2
<1>4. Shape' /\ IsFiniteSet(live')
  BY <1>1, <1>2, <1>3 DEF Shape, Regroups
<1>5. ASSUME Locked PROVE Apart' /\ AwaitedOnly' /\ Renewed'
  <2>1. Apart /\ AwaitedOnly /\ Renewed
    BY <1>5 DEF BmcInv
  <2>2. Apart' /\ Renewed'
    BY <1>1, <1>2, <1>3, <2>1, RegroupsKeeps
  <2>3. \A j \in BmcInsts \ {i}, c \in BmcCalls : call'[j][c] = call[j][c]
    BY <1>2 DEF Regroups
  <2>4. ASSUME NEW c \in BmcCalls
        PROVE  /\ call'[i][c].pc \in Ended => call'[i][c].awaited
               /\ call'[i][c].awaited => Working(i)'
    <3>1. CASE Spawn(i)
      <4>1. PICK S : call' = [call EXCEPT ![i] = [d \in BmcCalls |->
                                IF d \in S THEN NewCall ELSE @[d]]]
        BY <3>1 DEF Spawn
      <4>2. call'[i][c] = NewCall \/ call'[i][c] = call[i][c]
        BY <1>1, <4>1 DEF Shape
      <4>3. NewCall.pc \notin Ended /\ Working(i)'
        BY <3>1 DEF NewCall, NoCall, Ended, Spawn, Working
      <4> QED
        BY <2>1, <4>2, <4>3 DEF AwaitedOnly
    <3>2. CASE EndStep(i)
      <4>1. ~call'[i][c].awaited
        BY <1>1, <3>2, EndRegroups
      <4>2. call'[i][c].pc \notin Ended
        <5> DEFINE over == {d \in Awaited(i) : call[i][d].pc \in Ended}
        <5>1. call'[i] = [d \in BmcCalls |->
                            IF d \in over THEN NoCall
                            ELSE [call[i][d] EXCEPT !.awaited = FALSE]]
          BY <1>1, <3>2 DEF EndStep, Shape
        <5>2. call[i][c] \in Request
          BY <1>1 DEF Shape
        <5>3. [call[i][c] EXCEPT !.awaited = FALSE].pc = call[i][c].pc
          BY <5>2 DEF Request
        <5>4. call[i][c].pc \in Ended => c \in over
          BY <2>1 DEF AwaitedOnly, Awaited
        <5>5. NoCall.pc \notin Ended
          BY DEF NoCall, Ended
        <5> HIDE DEF over
        <5> QED
          BY <5>1, <5>3, <5>4, <5>5
      <4> QED
        BY <4>1, <4>2
    <3> QED
      BY <3>1, <3>2
  <2>5. \A j \in BmcInsts \ {i} : Working(j)' <=> Working(j)
    BY <1>3 DEF Working
  <2>6. AwaitedOnly'
    BY <2>1, <2>3, <2>4, <2>5 DEF AwaitedOnly
  <2> QED
    BY <2>2, <2>6
<1>6. Locked' <=> Locked
  BY <1>2 DEF Locked
<1> QED
  BY <1>4, <1>5, <1>6 DEF BmcInv

(* Any step of a request, whatever the channel, keeps the shapes.          *)
LEMMA CallShape ==
  ASSUME Shape, NEW i \in BmcInsts, NEW c \in BmcCalls, CallStep(i, c)
  PROVE  /\ Shape' /\ channel' = channel
         /\ \A j \in BmcInsts : inst'[j].phase = inst[j].phase /\ inst'[j].found = inst[j].found
         /\ UNCHANGED <<live, minted>> \/ Granted(i)
<1> DEFINE old == call[i][c]
<1>1. /\ old \in Request /\ inst[i] \in Instance /\ inst[i].token \in Nat
      /\ inst[i].lock \in {0} \union BmcCalls /\ minted \in Nat /\ minted + 1 \in Nat
  BY DEF Shape, Instance
<1>2. UNCHANGED <<live, minted>> \/ Granted(i)
  BY DEF CallStep, Begin, Reuse, AskLogin, LoginGranted, LoginRefused, LoginLost, Answered,
         AnsweredAnyway, Unauthorized, RequestFails, Grant, Granted
<1>3. \E t \in Nat : TokenTo(i, t)
  <2>1. CASE UNCHANGED inst
    BY <1>1, <2>1, TokenKept
  <2>2. CASE AskLogin(i, c)
    <3>1. PICK k \in {0} \union BmcCalls : inst' = [inst EXCEPT ![i].lock = k]
      BY <1>1, <2>2 DEF AskLogin
    <3>2. inst' = [inst EXCEPT ![i].token = inst[i].token, ![i].lock = k]
      BY <1>1, <3>1 DEF Shape, Instance
    <3> QED
      BY <1>1, <3>2, TokenSet
  <2>3. CASE Unauthorized(i, c)
    <3>1. PICK t \in Nat : inst' = [inst EXCEPT ![i].token = t]
      BY <1>1, <2>3 DEF Unauthorized
    <3>2. inst' = [inst EXCEPT ![i].token = t, ![i].lock = inst[i].lock]
      BY <1>1, <3>1 DEF Shape, Instance
    <3> QED
      BY <1>1, <3>2, TokenSet
  <2>4. CASE LoginGranted(i, c) \/ LoginRefused(i, c) \/ LoginLost(i, c)
    BY <1>1, <2>4, TokenSet DEF LoginGranted, LoginRefused, LoginLost, Unlock
  <2> QED
    BY <2>1, <2>2, <2>3, <2>4
       DEF CallStep, Begin, Reuse, Answered, AnsweredAnyway, RequestFails
<1>4. \E r \in Request : Becomes(i, c, r)
  <2>1. \A pc \in BmcPcs : [old EXCEPT !.pc = pc] \in Request
    BY <1>1 DEF Request
  <2>2. \A id \in Nat : Sent(i, c, id) \in Request
    <3> SUFFICES ASSUME NEW id \in Nat PROVE Sent(i, c, id) \in Request
      OBVIOUS
    <3>1. PICK cr \in Nat, pc \in BmcPcs : Sent(i, c, id) = [old EXCEPT !.pc = pc, !.cred = cr]
      <4> DEFINE baked == channel.kind = "xmlapi" /\ Role(i) = "poll" /\ ~old.again
                 cr == IF baked THEN old.cred ELSE id
                 pc == IF Role(i) = "probe" THEN "done" ELSE "sent"
      <4>1. Sent(i, c, id) = [old EXCEPT !.pc = pc, !.cred = cr]
        BY <1>1 DEF Sent, Request
      <4>2. cr \in Nat /\ pc \in BmcPcs
        BY <1>1 DEF Request, BmcPcs
      <4> QED
        BY <4>1, <4>2
    <3> QED
      BY <1>1, <3>1 DEF Request
  <2>3. CASE Begin(i, c)
    <3>1. PICK pc \in BmcPcs : Becomes(i, c, [old EXCEPT !.pc = pc, !.cred = inst[i].token])
      BY <2>3 DEF Begin, BmcPcs
    <3>2. [old EXCEPT !.pc = pc, !.cred = inst[i].token] \in Request
      BY <1>1 DEF Request
    <3> QED
      BY <3>1, <3>2
  <2>4. CASE Unauthorized(i, c)
    <3>1. PICK pc \in BmcPcs : Becomes(i, c, [old EXCEPT !.again = TRUE, !.pc = pc])
      BY <2>4 DEF Unauthorized, BmcPcs
    <3>2. [old EXCEPT !.again = TRUE, !.pc = pc] \in Request
      BY <1>1 DEF Request
    <3> QED
      BY <3>1, <3>2
  <2>5. CASE Reuse(i, c)
    BY <1>1, <2>2, <2>5 DEF Reuse
  <2>6. CASE LoginGranted(i, c)
    BY <1>1, <2>2, <2>6 DEF LoginGranted
  <2>7. CASE \/ AskLogin(i, c) \/ LoginRefused(i, c) \/ LoginLost(i, c)
             \/ Answered(i, c) \/ AnsweredAnyway(i, c) \/ RequestFails(i, c)
    <3>1. \E pc \in {"asking", "failed", "done"} : SetPc(i, c, pc)
      BY <2>7 DEF AskLogin, LoginRefused, LoginLost, Answered, AnsweredAnyway, RequestFails
    <3> QED
      BY <2>1, <3>1 DEF SetPc, BmcPcs
  <2> QED
    BY <2>3, <2>4, <2>5, <2>6, <2>7 DEF CallStep
<1>5. harm' \in [BmcInsts -> [died : Nat, lost : Nat]]
  <2>1. harm' = harm \/ harm' = [harm EXCEPT ![i].lost = @ + 1]
    BY DEF CallStep, Begin, Reuse, AskLogin, LoginGranted, LoginRefused, LoginLost, Answered,
           AnsweredAnyway, Unauthorized, RequestFails
  <2> QED
    BY <2>1 DEF Shape
<1>6. channel' = channel
  BY DEF CallStep, Begin, Reuse, AskLogin, LoginGranted, LoginRefused, LoginLost, Answered,
         AnsweredAnyway, Unauthorized, RequestFails
<1>7. live' \subseteq Session /\ minted' \in Nat
  <2>1. [id |-> minted + 1, of |-> i, late |-> inst[i].phase # "run"] \in Session
    BY <1>1 DEF Session
  <2> QED
    BY <1>1, <1>2, <2>1 DEF Granted, Shape
<1>8. call' \in [BmcInsts -> [BmcCalls -> Request]]
  BY <1>4, BecomesShape
<1>9. /\ inst' \in [BmcInsts -> Instance]
      /\ \A j \in BmcInsts : inst'[j].phase = inst[j].phase /\ inst'[j].found = inst[j].found
  BY <1>3 DEF TokenTo
<1> QED
  BY <1>2, <1>5, <1>6, <1>7, <1>8, <1>9 DEF Shape

LEMMA CallInv ==
  ASSUME BmcInv, NEW i \in BmcInsts, NEW c \in BmcCalls, CallStep(i, c)
  PROVE  BmcInv'
<1>1. Shape /\ IsFiniteSet(live)
  BY DEF BmcInv
<1>2. Shape' /\ channel' = channel /\ (UNCHANGED <<live, minted>> \/ Granted(i))
  BY <1>1, CallShape
<1>3. IsFiniteSet(live')
  <2>1. live' = live \/ \E s : live' = live \union {s}
    BY <1>2 DEF Granted
  <2> QED
    BY <1>1, <2>1, FS_AddElement
<1>4. ASSUME Locked PROVE Apart' /\ AwaitedOnly' /\ Renewed'
  <2>1. PICK r \in Request, t \in Nat : Moves(i, c, r, t) /\ Outcome(i, c, r, t)
    BY <1>1, <1>4, CallMoves
  <2> QED
    BY <1>1, <1>4, <2>1, CallApart, CallAwaited, CallRenewed DEF BmcInv
<1>5. Locked' <=> Locked
  BY <1>2 DEF Locked
<1> QED
  BY <1>2, <1>3, <1>4, <1>5 DEF BmcInv

LEMMA BmcInvInit == BmcInit => BmcInv
<1>1. BmcInit => IsFiniteSet(live)
  BY FS_EmptySet DEF BmcInit
<1> QED
  BY <1>1, ShapeInit, ApartInit, AwaitedInit, RenewedInit DEF BmcInv

LEMMA BmcInvNext == BmcInv /\ [BmcNext]_bmcVars => BmcInv'
<1> SUFFICES ASSUME BmcInv, [BmcNext]_bmcVars PROVE BmcInv'
  OBVIOUS
<1>1. CASE UNCHANGED bmcVars
  BY <1>1 DEF bmcVars, BmcInv, Shape, Locked, Apart, Mine, AwaitedOnly, Working, Renewed,
              RenewedBy, Role, DeadFor, IsLive
<1>2. CASE LossStep
  BY <1>2, LossInv
<1>3. CASE \E i \in BmcInsts : Spawn(i) \/ EndStep(i)
  BY <1>3, GatherInv
<1>4. CASE \E i \in BmcInsts, c \in BmcCalls : CallStep(i, c)
  BY <1>4, CallInv
<1> QED
  BY <1>1, <1>2, <1>3, <1>4 DEF BmcNext, InstStep, LossStep

THEOREM BmcInvariance == BmcSpec => []BmcInv
<1> QED
  BY BmcInvInit, BmcInvNext, PTL DEF BmcSpec

(* With the login lock a request goes stale only after two sessions of its *)
(* instance died, whatever expires, is reaped or fails.                    *)
THEOREM StaleNeedsTwoDeaths == BmcSpec => []StaleOnlyAfterTwoDeaths
<1>1. BmcInv => StaleOnlyAfterTwoDeaths
  <2> SUFFICES ASSUME BmcInv, Locked, NEW i \in BmcInsts, NEW c \in BmcCalls,
                      call[i][c].pc = "stale", Role(i) # "kvm"
               PROVE  harm[i].died >= 2
    BY DEF StaleOnlyAfterTwoDeaths
  <2>1. Working(i)
    BY DEF BmcInv, AwaitedOnly, Ended
  <2> QED
    BY <2>1 DEF BmcInv, Renewed, RenewedBy, DeadFor
<1> QED
  BY <1>1, BmcInvariance, PTL

-----------------------------------------------------------------------------
(* What the reapers leave.                                                 *)

(* A session opened in time belongs to an instance that is not closed, and *)
(* a reaper that has made its list has the sessions of its instance on it. *)
Reapable ==
  XmlKind => \A s \in live : ~s.late =>
    /\ inst[s.of].phase \notin {"idle", "closed"}
    /\ inst[s.of].phase = "kill" => s \in inst[s.of].found

LEMMA ReapableNext ==
  ASSUME Shape, IsFiniteSet(live), Reapable, [BmcNext]_bmcVars
  PROVE  Reapable'
<1>1. CASE \E i \in BmcInsts, c \in BmcCalls : CallStep(i, c)
  <2>1. PICK i \in BmcInsts, c \in BmcCalls : CallStep(i, c)
    BY <1>1
  <2>2. /\ channel' = channel
        /\ \A j \in BmcInsts : inst'[j].phase = inst[j].phase /\ inst'[j].found = inst[j].found
        /\ UNCHANGED <<live, minted>> \/ Granted(i)
    BY <2>1, CallShape
  <2> SUFFICES ASSUME XmlKind, NEW s \in live', ~s.late
               PROVE  /\ inst'[s.of].phase \notin {"idle", "closed"}
                      /\ inst'[s.of].phase = "kill" => s \in inst'[s.of].found
    BY <2>2 DEF Reapable, XmlKind
  <2>3. CASE s \in live
    <3>1. s.of \in BmcInsts
      BY <2>3 DEF Shape, Session
    <3> QED
      BY <2>2, <2>3, <3>1 DEF Reapable
  <2>4. CASE s = [id |-> minted + 1, of |-> i, late |-> inst[i].phase # "run"]
    <3>1. s.of = i /\ inst[i].phase = "run"
      BY <2>4
    <3> QED
      BY <2>2, <3>1
  <2> QED
    BY <2>2, <2>3, <2>4 DEF Granted
<1>2. CASE \E i \in BmcInsts : OpenInst(i) \/ Logout(i) \/ ReapList(i) \/ ReapKill(i)
  <2>1. PICK i \in BmcInsts : OpenInst(i) \/ Logout(i) \/ ReapList(i) \/ ReapKill(i)
    BY <1>2
  <2>2. live' \subseteq live /\ channel' = channel
    BY <1>2, LossShape DEF LossStep
  <2>3. PICK ph, t, F : ToPhase(i, ph, t, F)
    BY <2>1, InstMoves
  <2> SUFFICES ASSUME XmlKind, NEW s \in live', ~s.late
               PROVE  /\ inst'[s.of].phase \notin {"idle", "closed"}
                      /\ inst'[s.of].phase = "kill" => s \in inst'[s.of].found
    BY <2>2 DEF Reapable, XmlKind
  <2>4. /\ s \in live /\ s.of \in BmcInsts /\ inst[s.of].phase \notin {"idle", "closed"}
        /\ inst[s.of].phase = "kill" => s \in inst[s.of].found
    BY <2>2 DEF Reapable, Shape, Session
  <2>5. CASE s.of # i
    BY <2>3, <2>4, <2>5 DEF ToPhase
  <2>6. CASE s.of = i /\ OpenInst(i)
    BY <2>4, <2>6 DEF OpenInst
  <2>7. CASE s.of = i /\ Logout(i)
    BY <2>7, InstMoves DEF ToPhase, AfterLogout
  <2>8. CASE s.of = i /\ ReapList(i)
    BY <2>4, <2>8, InstMoves DEF ToPhase
  <2>9. CASE s.of = i /\ ReapKill(i)
    BY <2>4, <2>9 DEF ReapKill
  <2> QED
    BY <2>1, <2>5, <2>6, <2>7, <2>8, <2>9
<1>3. CASE \E i \in BmcInsts : Spawn(i) \/ EndStep(i)
  <2>1. PICK i \in BmcInsts : Spawn(i) \/ EndStep(i)
    BY <1>3
  <2>2. live' = live /\ channel' = channel
    BY <2>1 DEF Spawn, EndStep
  <2>3. /\ \A j \in BmcInsts : inst'[j].found = inst[j].found
        /\ \A j \in BmcInsts : inst'[j].phase \in {inst[j].phase, "run", "logout", "left", "kept"}
    <3>1. CASE Spawn(i)
      BY <3>1 DEF Spawn
    <3>2. CASE EndStep(i)
      <4>1. PICK e : Place(i, Onwards(i, e))
        BY <3>2 DEF EndStep
      <4> QED
        BY <4>1, PlaceShape
    <3> QED
      BY <2>1, <3>1, <3>2
  <2>4. \A s \in live : s.of \in BmcInsts
    BY DEF Shape, Session
  <2> QED
    BY <2>2, <2>3, <2>4 DEF Reapable, XmlKind
<1>4. CASE \E s \in live : Expire(s)
  BY <1>4 DEF Expire, Reapable, XmlKind
<1>5. CASE UNCHANGED bmcVars
  BY <1>5 DEF bmcVars, Reapable, XmlKind
<1> QED
  BY <1>1, <1>2, <1>3, <1>4, <1>5 DEF BmcNext, InstStep

(* Once every instance is closed after its reaper, the only XMLAPI         *)
(* sessions left are those that requests nobody waited for opened later.   *)
THEOREM ReapersLeaveNothing == BmcSpec => []ReapedClean
<1>1. BmcInit => Reapable
  BY DEF BmcInit, Reapable
<1>2. BmcInv /\ Reapable /\ [BmcNext]_bmcVars => Reapable'
  BY ReapableNext DEF BmcInv
<1>3. BmcInv /\ Reapable => ReapedClean
  <2> SUFFICES ASSUME BmcInv, Reapable, XmlKind, NEW s \in live,
                      \A i \in BmcInsts : inst[i].phase \in {"idle", "closed"}
               PROVE  s.late
    BY DEF ReapedClean
  <2>1. s.of \in BmcInsts
    BY DEF BmcInv, Shape, Session
  <2>2. s.late \in BOOLEAN
    BY DEF BmcInv, Shape, Session
  <2> QED
    BY <2>1, <2>2 DEF Reapable
<1> QED
  BY <1>1, <1>2, <1>3, BmcInvariance, PTL DEF BmcSpec

-----------------------------------------------------------------------------
(* How many sessions an instance with the login lock loses sight of.  A    *)
(* request that does not know yet that its session is gone is a debt: if a *)
(* new token is there when it learns of it, that token is dropped.  When   *)
(* the token in use dies, all but the first to learn of it become late.    *)

(* Whoever asks for a login has the lock, and nobody has a token then.     *)
Turns ==
  \A i \in BmcInsts, c \in BmcCalls :
    /\ call[i][c].pc = "asking" => inst[i].lock = c /\ inst[i].token = 0
    /\ call[i][c].pc = "sent" => call[i][c].cred # 0

Single == \A s, u \in live : s.id = u.id => s = u

Late(i) == {c \in BmcCalls : /\ call[i][c].pc = "sent"
                             /\ call[i][c].cred # inst[i].token
                             /\ ~IsLive(call[i][c].cred)}
Cut(i) == inst[i].token # 0 /\ ~IsLive(inst[i].token)
Account(i) == Cardinality(Strays(i)) + Cardinality(Late(i)) + (IF Cut(i) THEN Others ELSE 0)

Counted ==
  Locked => Turns /\ Single /\ \A i \in BmcInsts : Account(i) <= MostStrays(i)

LEMMA CallsCount ==
  /\ Cardinality(BmcCalls) \in Nat /\ Cardinality(BmcCalls) = Others + 1
  /\ Others \in Nat
<1>1. Cardinality(BmcCalls) \in Nat /\ Cardinality(BmcCalls) # 0
  BY BmcFinite, FS_CardinalityType, FS_EmptySet
<1> QED
  BY <1>1 DEF Others

LEMMA StraysCount ==
  ASSUME IsFiniteSet(live), NEW i \in BmcInsts
  PROVE  /\ IsFiniteSet(Own(i)) /\ IsFiniteSet(Strays(i)) /\ Cardinality(Strays(i)) \in Nat
<1>1. Own(i) \in SUBSET live /\ Strays(i) \in SUBSET Own(i)
  BY DEF Own, Strays
<1>2. IsFiniteSet(Own(i))
  BY <1>1, FS_Subset
<1>3. IsFiniteSet(Strays(i))
  BY <1>1, <1>2, FS_Subset
<1> QED
  BY <1>2, <1>3, FS_CardinalityType

LEMMA LateCount ==
  ASSUME NEW i \in BmcInsts
  PROVE  /\ IsFiniteSet(Late(i)) /\ Cardinality(Late(i)) \in Nat
         /\ Cardinality(Late(i)) <= Others + 1
<1>1. Late(i) \in SUBSET BmcCalls
  BY DEF Late
<1>2. IsFiniteSet(Late(i)) /\ Cardinality(Late(i)) <= Cardinality(BmcCalls)
  BY <1>1, BmcFinite, FS_Subset
<1> QED
  BY <1>2, FS_CardinalityType, CallsCount

LEMMA Smaller ==
  ASSUME NEW S, NEW T, S \subseteq T, IsFiniteSet(T)
  PROVE  Cardinality(S) <= Cardinality(T)
BY FS_Subset

(* One of the bigger set is not in the smaller.                            *)
LEMMA OneFewer ==
  ASSUME NEW S, NEW T, NEW x \in T, S \subseteq T \ {x}, IsFiniteSet(T)
  PROVE  Cardinality(S) <= Cardinality(T) - 1
<1>1. IsFiniteSet(T \ {x}) /\ Cardinality(T \ {x}) = Cardinality(T) - 1
  BY FS_RemoveElement
<1>2. S \in SUBSET (T \ {x})
  OBVIOUS
<1> QED
  BY <1>1, <1>2, FS_Subset

LEMMA OneMore ==
  ASSUME NEW S, NEW T, NEW x, S \subseteq T \union {x}, IsFiniteSet(T)
  PROVE  Cardinality(S) <= Cardinality(T) + 1
<1>1. IsFiniteSet(T \union {x}) /\ Cardinality(T \union {x}) <= Cardinality(T) + 1
  <2>1. Cardinality(T) \in Nat
    BY FS_CardinalityType
  <2> QED
    BY <2>1, FS_AddElement
<1>2. S \in SUBSET (T \union {x})
  OBVIOUS
<1>3. Cardinality(S) <= Cardinality(T \union {x})
  BY <1>1, <1>2, FS_Subset
<1>4. IsFiniteSet(S) /\ Cardinality(S) \in Nat /\ Cardinality(T \union {x}) \in Nat
      /\ Cardinality(T) \in Nat
  BY <1>1, <1>2, FS_Subset, FS_CardinalityType
<1> QED
  BY <1>1, <1>3, <1>4

(* The bound moves with the sessions that died or whose answer was lost.   *)
LEMMA MostType ==
  ASSUME Shape, NEW i \in BmcInsts
  PROVE  MostStrays(i) \in Nat
<1>1. harm[i].died \in Nat /\ harm[i].lost \in Nat
  BY DEF Shape
<1>2. Others * harm[i].died \in Nat
  BY <1>1, CallsCount
<1> QED
  BY <1>1, <1>2, CallsCount DEF MostStrays

LEMMA MostSame ==
  ASSUME Shape, Shape', NEW i \in BmcInsts, harm'[i].died = harm[i].died,
         Parted(i) => Parted(i)'
  PROVE  MostStrays(i)' >= MostStrays(i) + harm'[i].lost - harm[i].lost
<1>1. harm[i].died \in Nat /\ harm[i].lost \in Nat /\ harm'[i].lost \in Nat
  BY DEF Shape
<1>2. PICK p \in Nat : p = Others * harm[i].died
  BY <1>1, CallsCount
<1>3. p = Others' * harm'[i].died /\ Others' = Others
  BY <1>2 DEF Others
<1>4. Cardinality(BmcCalls) \in Nat
  BY CallsCount
<1> QED
  BY <1>1, <1>2, <1>3, <1>4 DEF MostStrays

(* Both sides of the account are numbers, now and in the next state.       *)
Numbers == Shape /\ IsFiniteSet(live) =>
             \A i \in BmcInsts : MostStrays(i) \in Nat /\ Account(i) \in Nat

LEMMA AccountNumbers == Numbers
<1>1. ASSUME IsFiniteSet(live), NEW i \in BmcInsts
      PROVE  Account(i) \in Nat
  BY <1>1, StraysCount, LateCount, CallsCount DEF Account
<1> QED
  BY <1>1, MostType DEF Numbers

LEMMA NumbersNext == Numbers'
BY AccountNumbers, PTL

(* What a step does to the three parts of an account.                      *)
LEMMA AccountKept ==
  ASSUME Shape, Shape', NEW i \in BmcInsts, IsFiniteSet(live),
         Strays(i)' \subseteq Strays(i), Late(i)' \subseteq Late(i), Cut(i)' => Cut(i)
  PROVE  Account(i)' <= Account(i)
<1>1. /\ IsFiniteSet(Strays(i)) /\ Cardinality(Strays(i)) \in Nat
      /\ IsFiniteSet(Late(i)) /\ Cardinality(Late(i)) \in Nat
  BY StraysCount, LateCount
<1>2. PICK S, L : S = Strays(i)' /\ L = Late(i)'
  OBVIOUS
<1>3. Cardinality(S) <= Cardinality(Strays(i)) /\ Cardinality(L) <= Cardinality(Late(i))
  BY <1>1, <1>2, Smaller
<1>4. Cardinality(S) \in Nat /\ Cardinality(L) \in Nat
  BY <1>1, <1>2, FS_Subset, FS_CardinalityType
<1>5. Others \in Nat /\ Others' = Others
  BY CallsCount DEF Others
<1> QED
  BY <1>1, <1>2, <1>3, <1>4, <1>5 DEF Account

(* One that only waits for its turn changes nothing but its place.         *)
LEMMA NewPc ==
  ASSUME Shape, NEW i \in BmcInsts, NEW c \in BmcCalls, NEW pc \in BmcPcs, SetPc(i, c, pc)
  PROVE  call'[i][c].pc \in {pc, "free"}
<1>1. PICK r \in Request : CallTo(i, c, r) /\ r.pc = pc
  BY SetPcTo
<1> QED
  BY <1>1 DEF CallTo, NoCall

LEMMA NotAsking ==
  ASSUME Shape, NEW i \in BmcInsts, NEW c \in BmcCalls, NEW r \in Request,
         Becomes(i, c, r), r.pc # "asking"
  PROVE  call'[i][c].pc # "asking"
BY BecomesShape DEF NoCall

(* The lock is taken by the request that asks, and given back with the     *)
(* answer; other instances are not concerned.                              *)
LEMMA LockMoves ==
  ASSUME Shape, Locked, NEW i \in BmcInsts, NEW c \in BmcCalls, CallStep(i, c)
  PROVE  /\ \A j \in BmcInsts \ {i} : inst'[j] = inst[j]
         /\ \/ /\ inst'[i].lock = inst[i].lock /\ inst'[i].token \in {0, inst[i].token}
               /\ call'[i][c].pc # "asking"
            \/ /\ inst[i].lock = 0 /\ inst[i].token = 0
               /\ inst'[i].lock = c /\ inst'[i].token = 0
            \/ call[i][c].pc = "asking" /\ call'[i][c].pc # "asking"
<1> DEFINE old == call[i][c]
<1>1. /\ old \in Request /\ inst[i] \in Instance
      /\ inst \in [BmcInsts -> Instance]
  BY DEF Shape
<1>2. channel.kind \notin {"xmlapi", "ibmc"}
  BY DEF Locked
<1>3. CASE Begin(i, c)
  <2>1. PICK pc \in {"login", "sent"} :
          Becomes(i, c, [old EXCEPT !.pc = pc, !.cred = inst[i].token])
    BY <1>3 DEF Begin
  <2> DEFINE r == [old EXCEPT !.pc = pc, !.cred = inst[i].token]
  <2>2. r \in Request /\ r.pc = pc
    BY <1>1 DEF Request, Instance, BmcPcs
  <2>3. Becomes(i, c, r)
    BY <2>1
  <2> HIDE DEF r
  <2>4. call'[i][c].pc # "asking"
    BY <2>2, <2>3, NotAsking
  <2> QED
    BY <1>3, <2>4 DEF Begin
<1>4. CASE Reuse(i, c)
  <2>1. inst[i].token \in Nat /\ Becomes(i, c, Sent(i, c, inst[i].token)) /\ inst' = inst
    BY <1>1, <1>4 DEF Reuse, Instance
  <2>2. PICK cr \in Nat, pc \in {"done", "sent"} :
          Sent(i, c, inst[i].token) = [old EXCEPT !.pc = pc, !.cred = cr]
    BY <1>2, <2>1 DEF Sent
  <2> DEFINE r == [old EXCEPT !.pc = pc, !.cred = cr]
  <2>3. r \in Request /\ r.pc = pc
    BY <1>1 DEF Request, BmcPcs
  <2>4. Becomes(i, c, r)
    BY <2>1, <2>2
  <2> HIDE DEF r
  <2>5. call'[i][c].pc # "asking"
    BY <2>3, <2>4, NotAsking
  <2> QED
    BY <2>1, <2>5
<1>5. CASE AskLogin(i, c)
  BY <1>1, <1>5 DEF AskLogin, Instance
<1>6. CASE LoginGranted(i, c)
  <2>1. minted + 1 \in Nat /\ Becomes(i, c, Sent(i, c, minted + 1)) /\ old.pc = "asking"
    BY <1>6 DEF LoginGranted, Shape
  <2>2. PICK cr \in Nat, pc \in {"done", "sent"} :
          Sent(i, c, minted + 1) = [old EXCEPT !.pc = pc, !.cred = cr]
    BY <1>2, <2>1 DEF Sent
  <2> DEFINE r == [old EXCEPT !.pc = pc, !.cred = cr]
  <2>3. r \in Request /\ r.pc = pc
    BY <1>1 DEF Request, BmcPcs
  <2>4. Becomes(i, c, r)
    BY <2>1, <2>2
  <2> HIDE DEF r
  <2>5. call'[i][c].pc # "asking"
    BY <2>3, <2>4, NotAsking
  <2> QED
    BY <1>1, <1>6, <2>1, <2>5 DEF LoginGranted, Unlock
<1>7. CASE LoginRefused(i, c) \/ LoginLost(i, c)
  <2>1. SetPc(i, c, "failed") /\ old.pc = "asking"
        /\ inst' = [inst EXCEPT ![i].token = inst[i].token, ![i].lock = 0]
    BY <1>7 DEF LoginRefused, LoginLost, Unlock
  <2>2. call'[i][c].pc # "asking"
    BY <2>1, NewPc DEF BmcPcs
  <2> QED
    BY <1>1, <2>1, <2>2
<1>8. CASE Answered(i, c) \/ AnsweredAnyway(i, c) \/ RequestFails(i, c)
  <2>1. inst' = inst /\ (SetPc(i, c, "done") \/ SetPc(i, c, "failed"))
    BY <1>8 DEF Answered, AnsweredAnyway, RequestFails
  <2>2. call'[i][c].pc # "asking"
    BY <2>1, NewPc DEF BmcPcs
  <2> QED
    BY <2>1, <2>2
<1>9. CASE Unauthorized(i, c)
  <2>1. PICK pc \in {"login", "stale"}, t \in {0, inst[i].token} :
          /\ Becomes(i, c, [old EXCEPT !.again = TRUE, !.pc = pc])
          /\ inst' = [inst EXCEPT ![i].token = t]
    BY <1>9 DEF Unauthorized
  <2> DEFINE r == [old EXCEPT !.again = TRUE, !.pc = pc]
  <2>2. r \in Request /\ r.pc = pc
    BY <1>1 DEF Request, BmcPcs
  <2>3. Becomes(i, c, r)
    BY <2>1
  <2> HIDE DEF r
  <2>4. call'[i][c].pc # "asking"
    BY <2>2, <2>3, NotAsking
  <2>5. inst'[i].lock = inst[i].lock /\ inst'[i].token = t
    BY <1>1, <2>1 DEF Instance
  <2> QED
    BY <1>1, <2>1, <2>4, <2>5
<1> QED
  BY <1>3, <1>4, <1>5, <1>6, <1>7, <1>8, <1>9 DEF CallStep

LEMMA CallTurns ==
  ASSUME Shape, Locked, Turns, NEW i \in BmcInsts, NEW c \in BmcCalls, CallStep(i, c)
  PROVE  Turns'
<1>1. PICK r \in Request, t \in Nat : Moves(i, c, r, t) /\ Outcome(i, c, r, t)
  BY CallMoves
<1>2. \A j \in BmcInsts, d \in BmcCalls :
        call'[j][d] = IF <<j, d>> = <<i, c>>
                        THEN IF r.pc \in Ended /\ ~r.awaited THEN NoCall ELSE r
                        ELSE call[j][d]
  BY <1>1 DEF Moves, CallTo
<1>3. r.pc = "sent" => r.cred # 0
  BY <1>1 DEF Outcome, Waits, Sends, Renews, GivesUp, Refused
<1>4. ASSUME NEW j \in BmcInsts, NEW d \in BmcCalls, call'[j][d].pc = "sent"
      PROVE  call'[j][d].cred # 0
  BY <1>2, <1>3, <1>4 DEF Turns, NoCall
<1>5. ASSUME NEW j \in BmcInsts, NEW d \in BmcCalls, call'[j][d].pc = "asking"
      PROVE  inst'[j].lock = d /\ inst'[j].token = 0
  <2>1. CASE j # i
    BY <1>2, <1>5, <2>1, LockMoves DEF Turns
  <2>2. CASE j = i /\ d # c
    <3>1. inst[i].lock = d /\ inst[i].token = 0
      BY <1>2, <1>5, <2>2 DEF Turns
    <3>2. d # 0 /\ (call[i][c].pc = "asking" => d = c)
      BY <3>1, BmcFinite DEF Turns
    <3> QED
      BY <2>2, <3>1, <3>2, LockMoves
  <2>3. CASE j = i /\ d = c
    BY <1>5, <2>3, LockMoves
  <2> QED
    BY <2>1, <2>2, <2>3
<1> QED
  BY <1>4, <1>5 DEF Turns

(* A session is granted while its instance has no token; if the instance   *)
(* does not get to know of it, its answer was lost.                        *)
LEMMA CallGrants ==
  ASSUME Shape, Locked, Turns, NEW i \in BmcInsts, NEW c \in BmcCalls, CallStep(i, c)
  PROVE  /\ \A j \in BmcInsts : harm'[j].lost >= harm[j].lost
         /\ minted' # minted =>
              /\ inst[i].token = 0
              /\ inst'[i].token = 0 => harm'[i].lost = harm[i].lost + 1
<1>1. \A j \in BmcInsts : harm[j] \in [died : Nat, lost : Nat] /\ harm[j].lost \in Nat
  BY DEF Shape
<1>2. CASE LoginLost(i, c)
  <2>1. harm' = [harm EXCEPT ![i].lost = @ + 1] /\ inst[i].token = 0
    BY <1>2 DEF LoginLost, Turns
  <2>2. \A j \in BmcInsts : harm'[j].lost = IF j = i THEN harm[i].lost + 1 ELSE harm[j].lost
    BY <1>1, <2>1 DEF Shape
  <2> QED
    BY <1>1, <2>1, <2>2
<1>3. CASE ~LoginLost(i, c)
  <2>1. harm' = harm
    BY <1>3 DEF CallStep, Begin, Reuse, AskLogin, LoginGranted, LoginRefused, Answered,
                AnsweredAnyway, Unauthorized, RequestFails
  <2>2. ASSUME minted' # minted
        PROVE  inst[i].token = 0 /\ inst'[i].token # 0
    <3>1. ~AnsweredAnyway(i, c)
      BY DEF AnsweredAnyway, Turns
    <3>2. LoginGranted(i, c)
      BY <1>3, <2>2, <3>1
         DEF CallStep, Begin, Reuse, AskLogin, LoginRefused, Answered, Unauthorized, RequestFails
    <3>3. inst[i].token = 0 /\ inst' = [inst EXCEPT ![i].token = minted + 1, ![i].lock = 0]
      BY <3>2 DEF LoginGranted, Unlock, Turns
    <3>4. inst[i] \in Instance /\ minted \in Nat
      BY DEF Shape
    <3>5. inst'[i].token = minted + 1
      BY <3>3, <3>4 DEF Shape, Instance
    <3> QED
      BY <3>3, <3>4, <3>5
  <2> QED
    BY <1>1, <2>1, <2>2
<1> QED
  BY <1>2, <1>3

LEMMA CallSingle ==
  ASSUME Shape, Apart, Single, NEW i \in BmcInsts, UNCHANGED live \/ Granted(i)
  PROVE  Single'
<1>1. CASE Granted(i)
  <2>1. minted \in Nat /\ \A s \in live : s.id # minted + 1
    BY DEF Shape, Apart
  <2> QED
    BY <1>1, <2>1 DEF Granted, Single
<1>2. CASE UNCHANGED live
  BY <1>2 DEF Single
<1> QED
  BY <1>1, <1>2

(* A session that is granted has an id of its own.                         *)
LEMMA GrantFresh ==
  ASSUME Shape, Apart, NEW i \in BmcInsts, UNCHANGED <<live, minted>> \/ Granted(i)
  PROVE  /\ \A id \in Nat : id <= minted => (IsLive(id)' <=> IsLive(id))
         /\ \A j \in BmcInsts \ {i} : Own(j)' = Own(j)
         /\ \A s \in live : s.id # 0
<1>1. minted \in Nat /\ \A s \in live : s.id # 0
  BY DEF Shape, Apart
<1> QED
  BY <1>1 DEF Granted, IsLive, Own

(* A step of another instance's request.                                   *)
LEMMA OthersAccount ==
  ASSUME Shape, Shape', Apart, IsFiniteSet(live), NEW i \in BmcInsts, NEW c \in BmcCalls,
         NEW r \in Request, NEW t \in Nat, Moves(i, c, r, t),
         UNCHANGED <<live, minted>> \/ Granted(i), NEW j \in BmcInsts \ {i}
  PROVE  Account(j)' <= Account(j)
<1>1. inst'[j].token = inst[j].token /\ \A d \in BmcCalls : call'[j][d] = call[j][d]
  BY DEF Moves, TokenTo, CallTo
<1>2. inst[j].token \in Nat /\ inst[j].token <= minted
      /\ \A d \in BmcCalls : call[j][d].cred \in Nat /\ call[j][d].cred <= minted
  BY DEF Shape, Instance, Request, Apart
<1>3. \A id \in Nat : id <= minted => (IsLive(id)' <=> IsLive(id))
  BY GrantFresh
<1>4. Strays(j)' \subseteq Strays(j)
  BY <1>1, GrantFresh DEF Strays
<1>5. Late(j)' \subseteq Late(j)
  <2> SUFFICES ASSUME NEW d \in Late(j)' PROVE d \in Late(j)
    OBVIOUS
  <2>1. /\ d \in BmcCalls /\ call'[j][d].pc = "sent" /\ call'[j][d].cred # inst'[j].token
        /\ ~\E s \in live' : s.id = call'[j][d].cred
    BY DEF Late, IsLive
  <2>2. PICK id \in Nat : id = call[j][d].cred
    BY <1>2, <2>1
  <2>3. ~IsLive(id)' /\ id <= minted
    BY <1>1, <1>2, <2>1, <2>2 DEF IsLive
  <2> QED
    BY <1>1, <1>3, <2>1, <2>2, <2>3 DEF Late, IsLive
<1>6. Cut(j)' => Cut(j)
  <2>1. PICK id \in Nat : id = inst[j].token
    BY <1>2
  <2> QED
    BY <1>1, <1>2, <1>3, <2>1 DEF Cut, IsLive
<1> QED
  BY <1>4, <1>5, <1>6, AccountKept

(* Of the own requests.  One that learns that its session is gone drops    *)
(* the token: that is one stray more if the token was good, and one late   *)
(* request less; if it was not, the others become late.                    *)
LEMMA RenewAccount ==
  ASSUME Shape, Shape', Apart, Single, Turns, IsFiniteSet(live), NEW i \in BmcInsts,
         NEW c \in BmcCalls, NEW r \in Request, NEW t \in Nat, Moves(i, c, r, t),
         Renews(i, c, r, t)
  PROVE  Account(i)' <= Account(i)
<1> DEFINE tok == inst[i].token
<1>1. /\ inst'[i].token = 0 /\ live' = live /\ tok \in Nat
      /\ call[i][c].pc = "sent" /\ ~IsLive(call[i][c].cred) /\ call'[i][c].pc # "sent"
      /\ \A d \in BmcCalls \ {c} : call'[i][d] = call[i][d]
  BY DEF Renews, Refused, Moves, TokenTo, CallTo, NoCall, Shape, Instance
<1>2. \A s \in live : s.id # 0
  BY DEF Apart
<1>3. ~Cut(i)'
  BY <1>1 DEF Cut
<1>4. \A d \in Late(i)' : /\ d \in BmcCalls \ {c} /\ call[i][d].pc = "sent"
                          /\ ~IsLive(call[i][d].cred)
  BY <1>1 DEF Late, IsLive
<1>5. Strays(i)' = Own(i)
  BY <1>1, <1>2 DEF Strays, Own
<1>6. PICK S, L : S = Strays(i)' /\ L = Late(i)'
  OBVIOUS
<1> DEFINE m == Cardinality(Strays(i))  n == Cardinality(Late(i))
           m1 == Cardinality(S)         n1 == Cardinality(L)
<1>7. /\ IsFiniteSet(Strays(i)) /\ m \in Nat /\ IsFiniteSet(Late(i)) /\ n \in Nat
      /\ Others \in Nat /\ IsFiniteSet(Own(i)) /\ m1 \in Nat /\ n1 \in Nat
  <2>1. IsFiniteSet(S)
    BY <1>5, <1>6, StraysCount
  <2>2. L \in SUBSET BmcCalls
    BY <1>4, <1>6
  <2>3. IsFiniteSet(L)
    BY <2>2, BmcFinite, FS_Subset
  <2> QED
    BY <2>1, <2>3, FS_CardinalityType, StraysCount, LateCount, CallsCount
<1>8. Account(i)' = m1 + n1 /\ Account(i) = m + n + (IF Cut(i) THEN Others ELSE 0)
  BY <1>3, <1>6, <1>7 DEF Account
<1>9. CASE tok = 0
  <2>1. m1 = m
    BY <1>2, <1>5, <1>6, <1>9 DEF Strays, Own
  <2>2. \A d \in BmcCalls : call[i][d].pc = "sent" => call[i][d].cred # tok
    BY <1>9 DEF Turns
  <2>3. L \subseteq Late(i)
    BY <1>4, <1>6, <2>2 DEF Late
  <2>4. n1 <= n
    BY <1>7, <2>3, Smaller
  <2> HIDE DEF m, n, m1, n1
  <2> QED
    BY <1>7, <1>8, <2>1, <2>4
<1>10. CASE tok # 0 /\ ~IsLive(tok)
  <2>1. m1 = m
    BY <1>5, <1>6, <1>10 DEF Strays, Own, IsLive
  <2>2. L \subseteq BmcCalls \ {c}
    BY <1>4, <1>6
  <2>3. n1 <= Others
    BY <2>2, BmcFinite, OneFewer DEF Others
  <2>4. Cut(i)
    BY <1>10 DEF Cut
  <2> HIDE DEF m, n, m1, n1
  <2> QED
    BY <1>7, <1>8, <2>1, <2>3, <2>4
<1>11. CASE IsLive(tok)
  <2>1. PICK s \in live : s.id = tok
    BY <1>11 DEF IsLive
  <2>2. S \subseteq Strays(i) \union {s}
    BY <1>5, <1>6, <2>1 DEF Strays, Own, Single
  <2>3. m1 <= m + 1
    BY <1>7, <2>2, OneMore
  <2>4. \A d \in BmcCalls : ~IsLive(call[i][d].cred) => call[i][d].cred # tok
    BY <1>11
  <2>5. c \in Late(i)
    BY <1>1, <2>4 DEF Late
  <2>6. L \subseteq Late(i) \ {c}
    BY <1>4, <1>6, <2>4 DEF Late
  <2>7. n1 <= n - 1
    BY <1>7, <2>5, <2>6, OneFewer
  <2> HIDE DEF m, n, m1, n1
  <2> QED
    BY <1>7, <1>8, <2>3, <2>7
<1> QED
  BY <1>9, <1>10, <1>11

(* Any other step of a request without a grant settles debts at most.      *)
LEMMA QuietAccount ==
  ASSUME Shape, Shape', IsFiniteSet(live), NEW i \in BmcInsts, NEW c \in BmcCalls,
         NEW r \in Request, NEW t \in Nat, Moves(i, c, r, t), live' = live,
         t = inst[i].token, r.pc = "sent" => r.cred = t
  PROVE  Account(i)' <= Account(i)
<1>1. /\ inst'[i].token = inst[i].token
      /\ \A d \in BmcCalls \ {c} : call'[i][d] = call[i][d]
      /\ call'[i][c].pc = "sent" => call'[i][c].cred = inst[i].token
  BY DEF Moves, TokenTo, CallTo, NoCall
<1>2. Strays(i)' \subseteq Strays(i) /\ (Cut(i)' => Cut(i))
  BY <1>1 DEF Strays, Own, Cut, IsLive
<1>3. Late(i)' \subseteq Late(i)
  BY <1>1 DEF Late, IsLive
<1> QED
  BY <1>2, <1>3, AccountKept

(* The session that is granted becomes the token; if its answer is lost,   *)
(* it is one stray more.                                                   *)
LEMMA GrantAccount ==
  ASSUME Shape, Shape', Apart, Turns, IsFiniteSet(live), NEW i \in BmcInsts,
         NEW c \in BmcCalls, NEW r \in Request, NEW t \in Nat, Moves(i, c, r, t),
         Granted(i), inst[i].token = 0, t \in {0, minted + 1},
         r.pc = "sent" => r.cred = minted + 1
  PROVE  Account(i)' <= Account(i) + (IF t = 0 THEN 1 ELSE 0)
<1> DEFINE new == [id |-> minted + 1, of |-> i, late |-> inst[i].phase # "run"]
<1>1. /\ inst'[i].token = t
      /\ \A d \in BmcCalls \ {c} : call'[i][d] = call[i][d]
      /\ call'[i][c].pc = "sent" => call'[i][c].cred = minted + 1
  BY DEF Moves, TokenTo, CallTo, NoCall
<1>2. minted \in Nat /\ live' = live \union {new} /\ new.id = minted + 1
      /\ \A s \in live : s.id # 0 /\ s.id # minted + 1
  BY DEF Shape, Granted, Apart
<1>3. ~Cut(i) /\ ~Cut(i)'
  <2>1. \E s \in live' : s.id = minted + 1
    BY <1>2
  <2> QED
    BY <1>1, <2>1 DEF Cut, IsLive
<1>4. Late(i)' \subseteq Late(i)
  <2> SUFFICES ASSUME NEW d \in Late(i)' PROVE d \in Late(i)
    OBVIOUS
  <2>1. /\ d \in BmcCalls /\ call'[i][d].pc = "sent"
        /\ ~\E s \in live' : s.id = call'[i][d].cred
    BY DEF Late, IsLive
  <2>2. d # c
    BY <1>1, <1>2, <2>1
  <2>3. call[i][d].pc = "sent" /\ call[i][d].cred # 0
        /\ ~\E s \in live : s.id = call[i][d].cred
    BY <1>1, <1>2, <2>1, <2>2 DEF Turns
  <2> QED
    BY <2>1, <2>3 DEF Late, IsLive
<1>5. Strays(i) = Own(i)
  BY <1>2 DEF Strays, Own
<1>6. Own(i)' \subseteq Own(i) \union {new}
  BY <1>2 DEF Own
<1> HIDE DEF new
<1>7. CASE t # 0
  <2>1. t = minted + 1
    BY <1>7
  <2>2. Strays(i)' \subseteq Strays(i)
    BY <1>1, <1>2, <1>5, <1>6, <2>1 DEF Strays
  <2> QED
    <3>1. Account(i)' <= Account(i)
      BY <1>3, <1>4, <2>2, AccountKept
    <3>2. Account(i) \in Int
      BY StraysCount, LateCount, CallsCount DEF Account
    <3> QED
      BY <1>7, <3>1, <3>2
<1>8. CASE t = 0
  <2>1. PICK S, L : S = Strays(i)' /\ L = Late(i)'
    OBVIOUS
  <2>2. S \subseteq Strays(i) \union {new} /\ L \subseteq Late(i)
    BY <1>4, <1>5, <1>6, <2>1 DEF Strays
  <2>3. /\ IsFiniteSet(Strays(i)) /\ Cardinality(Strays(i)) \in Nat
        /\ IsFiniteSet(Late(i)) /\ Cardinality(Late(i)) \in Nat
    BY StraysCount, LateCount
  <2>4. IsFiniteSet(S) /\ IsFiniteSet(L)
    <3>1. IsFiniteSet(Strays(i) \union {new})
      BY <2>3, FS_AddElement
    <3> QED
      BY <2>2, <2>3, <3>1, FS_Subset
  <2>5. Cardinality(S) \in Nat /\ Cardinality(L) \in Nat
    BY <2>4, FS_CardinalityType
  <2>6. Cardinality(S) <= Cardinality(Strays(i)) + 1 /\ Cardinality(L) <= Cardinality(Late(i))
    BY <2>2, <2>3, OneMore, Smaller
  <2> QED
    BY <1>3, <1>8, <2>1, <2>3, <2>5, <2>6 DEF Account
<1> QED
  BY <1>7, <1>8

LEMMA CallCounted ==
  ASSUME BmcInv, Counted, Locked, NEW i \in BmcInsts, NEW c \in BmcCalls, CallStep(i, c)
  PROVE  Counted'
<1>1. Shape /\ Apart /\ IsFiniteSet(live) /\ Turns /\ Single /\ channel' = channel
  BY CallShape DEF BmcInv, Counted
<1>2. Shape'
  BY <1>1, CallShape
<1>3. PICK r \in Request, t \in Nat : Moves(i, c, r, t) /\ Outcome(i, c, r, t)
  BY <1>1, CallMoves
<1>4. UNCHANGED <<live, minted>> \/ Granted(i)
  BY <1>3 DEF Outcome, Waits, Sends, Renews, GivesUp, Refused
<1>5. Turns' /\ Single'
  BY <1>1, <1>4, CallTurns, CallSingle
<1>6. inst'[i].token = t /\ minted \in Nat /\ inst[i].token \in Nat
  BY <1>1, <1>3 DEF Moves, TokenTo, Shape, Instance
<1>7. IsFiniteSet(live')
  <2>1. live' = live \/ \E s : live' = live \union {s}
    BY <1>4 DEF Granted
  <2> QED
    BY <1>1, <2>1, FS_AddElement
<1>8. ASSUME NEW j \in BmcInsts
      PROVE  /\ MostStrays(j)' >= MostStrays(j) + harm'[j].lost - harm[j].lost
             /\ harm'[j].lost \in Nat /\ harm[j].lost \in Nat
             /\ harm'[j].lost >= harm[j].lost
             /\ MostStrays(j) \in Nat /\ MostStrays(j)' \in Nat
             /\ Account(j) \in Nat /\ Account(j)' \in Nat
             /\ Account(j) <= MostStrays(j)
  <2>1. harm'[j].died = harm[j].died /\ inst'[j].phase = inst[j].phase
    BY <1>3 DEF Moves, NobodyDies, TokenTo
  <2>2. Parted(j)' <=> Parted(j)
    BY <2>1 DEF Parted
  <2>3. MostStrays(j)' >= MostStrays(j) + harm'[j].lost - harm[j].lost
    BY <1>1, <1>2, <2>1, <2>2, MostSame
  <2>4. harm'[j].lost >= harm[j].lost
    BY <1>1, CallGrants
  <2>5. harm'[j].lost \in Nat /\ harm[j].lost \in Nat
    BY <1>1, <1>2 DEF Shape
  <2>6. MostStrays(j) \in Nat /\ Account(j) \in Nat
    BY <1>1, AccountNumbers DEF Numbers
  <2>7. MostStrays(j)' \in Nat /\ Account(j)' \in Nat
    BY <1>2, <1>7, NumbersNext DEF Numbers
  <2>8. Account(j) <= MostStrays(j)
    BY DEF Counted
  <2> QED
    BY <2>3, <2>4, <2>5, <2>6, <2>7, <2>8
<1>9. ASSUME NEW j \in BmcInsts, Account(j)' <= Account(j)
      PROVE  Account(j)' <= MostStrays(j)'
  BY <1>8, <1>9
<1>10. ASSUME NEW j \in BmcInsts
       PROVE  Account(j)' <= MostStrays(j)'
  <2>1. CASE j # i
    BY <1>1, <1>2, <1>3, <1>4, <1>9, <2>1, OthersAccount
  <2>2. CASE j = i /\ UNCHANGED live /\ t = inst[i].token
    <3>1. r.pc = "sent" => r.cred = t
      BY <1>3, <2>2 DEF Outcome, Waits, Sends, Renews, GivesUp, Refused
    <3> QED
      BY <1>1, <1>2, <1>3, <1>9, <2>2, <3>1, QuietAccount
  <2>3. CASE j = i /\ Renews(i, c, r, t)
    BY <1>1, <1>2, <1>3, <1>9, <2>3, RenewAccount
  <2>4. CASE j = i /\ Granted(i)
    <3>1. /\ inst[i].token = 0
          /\ inst'[i].token = 0 => harm'[i].lost = harm[i].lost + 1
      <4>1. minted' # minted
        BY <1>6, <2>4 DEF Granted
      <4> QED
        BY <1>1, <4>1, CallGrants
    <3>2. t \in {0, minted + 1} /\ (r.pc = "sent" => r.cred = minted + 1)
      <4>1. minted' # minted
        BY <1>6, <2>4 DEF Granted
      <4> QED
        BY <1>3, <3>1, <4>1 DEF Outcome, Waits, Sends, Renews, GivesUp, Refused
    <3>3. Account(i)' <= Account(i) + (IF t = 0 THEN 1 ELSE 0)
      BY <1>1, <1>2, <1>3, <2>4, <3>1, <3>2, GrantAccount
    <3> QED
      BY <1>6, <1>8, <2>4, <3>1, <3>3
  <2> QED
    BY <1>3, <1>4, <2>1, <2>2, <2>3, <2>4
       DEF Outcome, Waits, Sends, Renews, GivesUp, Refused
<1> QED
  BY <1>5, <1>10 DEF Counted

-----------------------------------------------------------------------------
(* The accounts under the steps of the instances and of time.              *)

LEMMA LockStays ==
  ASSUME Shape, NEW i \in BmcInsts, OpenInst(i) \/ InstStep(i), NEW j \in BmcInsts
  PROVE  inst'[j].lock = inst[j].lock
<1>1. inst \in [BmcInsts -> Instance] /\ inst[i] \in Instance
  BY DEF Shape
<1>2. CASE OpenInst(i) \/ Spawn(i)
  BY <1>1, <1>2 DEF OpenInst, Spawn, Instance
<1>3. CASE EndStep(i)
  <2>1. PICK e : Place(i, Onwards(i, e))
    BY <1>3 DEF EndStep
  <2> DEFINE p == Onwards(i, e)
  <2>2. Place(i, p)
    BY <2>1
  <2> HIDE DEF p
  <2> QED
    BY <1>1, <2>2 DEF Place, Instance
<1>4. CASE Logout(i) \/ ReapList(i) \/ ReapKill(i)
  BY <1>1, <1>4 DEF Logout, ReapList, ReapKill, Instance
<1> QED
  BY <1>2, <1>3, <1>4 DEF InstStep

(* Requests that stay as they are, or are cleared or new.                  *)
LEMMA TurnsStay ==
  ASSUME Shape, Turns,
         \A j \in BmcInsts, c \in BmcCalls :
           \/ call'[j][c].pc \in {"free", "begin"}
           \/ call'[j][c].pc = call[j][c].pc /\ call'[j][c].cred = call[j][c].cred,
         \A j \in BmcInsts : /\ inst'[j].lock = inst[j].lock
                             /\ inst'[j].token \in {0, inst[j].token}
  PROVE  Turns'
<1> SUFFICES ASSUME NEW j \in BmcInsts, NEW c \in BmcCalls
             PROVE  /\ call'[j][c].pc = "asking" => inst'[j].lock = c /\ inst'[j].token = 0
                    /\ call'[j][c].pc = "sent" => call'[j][c].cred # 0
  BY DEF Turns
<1>1. /\ call[j][c].pc = "asking" => inst[j].lock = c /\ inst[j].token = 0
      /\ call[j][c].pc = "sent" => call[j][c].cred # 0
  BY DEF Turns
<1>2. \/ call'[j][c].pc \in {"free", "begin"}
      \/ call'[j][c].pc = call[j][c].pc /\ call'[j][c].cred = call[j][c].cred
  OBVIOUS
<1>3. inst'[j].lock = inst[j].lock /\ inst'[j].token \in {0, inst[j].token}
  OBVIOUS
<1> QED
  BY <1>1, <1>2, <1>3

(* A step that moves an instance on in its program or in close().          *)
LEMMA IdleAccount ==
  ASSUME Shape, Shape', IsFiniteSet(live), NEW j \in BmcInsts, Account(j) <= MostStrays(j),
         UNCHANGED <<live, harm>>, inst'[j].token = inst[j].token, Parted(j) => Parted(j)',
         \A c \in BmcCalls :
           \/ call'[j][c].pc \in {"free", "begin"}
           \/ call'[j][c].pc = call[j][c].pc /\ call'[j][c].cred = call[j][c].cred
  PROVE  Account(j)' <= MostStrays(j)'
<1>1. Strays(j)' \subseteq Strays(j) /\ Late(j)' \subseteq Late(j) /\ (Cut(j)' => Cut(j))
  BY DEF Strays, Own, Late, Cut, IsLive
<1>2. Account(j)' <= Account(j)
  BY <1>1, AccountKept
<1>3. MostStrays(j)' >= MostStrays(j) + harm[j].lost - harm[j].lost /\ harm[j].lost \in Nat
  BY MostSame DEF Shape
<1>4. /\ MostStrays(j) \in Nat /\ Account(j) \in Nat
      /\ MostStrays(j)' \in Nat /\ Account(j)' \in Nat
  BY AccountNumbers, NumbersNext DEF Numbers
<1> QED
  BY <1>2, <1>3, <1>4

LEMMA MoveCounted ==
  ASSUME BmcInv, BmcInv', Counted, Locked, NEW i \in BmcInsts,
         OpenInst(i) \/ Spawn(i) \/ EndStep(i) \/ ReapList(i)
  PROVE  Counted'
<1>1. Shape /\ Shape' /\ IsFiniteSet(live) /\ Turns /\ Single
  BY DEF BmcInv, Counted
<1>2. UNCHANGED <<channel, live, harm>>
  BY DEF OpenInst, Spawn, EndStep, ReapList
<1>3. /\ \A j \in BmcInsts : /\ inst'[j].token = inst[j].token
                             /\ inst'[j].lock = inst[j].lock
                             /\ Parted(j) => Parted(j)'
      /\ \A j \in BmcInsts, c \in BmcCalls :
           \/ call'[j][c].pc \in {"free", "begin"}
           \/ call'[j][c].pc = call[j][c].pc /\ call'[j][c].cred = call[j][c].cred
  <2>1. \A j \in BmcInsts : inst'[j].lock = inst[j].lock
    BY <1>1, LockStays DEF InstStep
  <2>2. CASE OpenInst(i) \/ ReapList(i)
    <3>1. call' = call
      BY <2>2 DEF OpenInst, ReapList
    <3>2. PICK ph, F : /\ ToPhase(i, ph, inst[i].token, F)
                       /\ Parted(i) => ph \in {"kill", "left"}
      BY <1>1, <2>2, InstMoves DEF Parted, OpenInst
    <3>3. \A j \in BmcInsts : inst'[j].token = inst[j].token /\ (Parted(j) => Parted(j)')
      <4>1. \A j \in BmcInsts \ {i} : inst'[j] = inst[j]
        BY <3>2 DEF ToPhase
      <4>2. inst'[i].token = inst[i].token /\ inst'[i].phase = ph
        BY <3>2 DEF ToPhase
      <4> QED
        BY <3>2, <4>1, <4>2 DEF Parted
    <3> QED
      BY <2>1, <3>1, <3>3
  <2>3. CASE Spawn(i) \/ EndStep(i)
    <3>1. Regroups(i)
      BY <1>1, <2>3, SpawnRegroups, EndRegroups
    <3>2. ~Parted(i)
      BY <2>3 DEF Spawn, EndStep, Parted
    <3>3. \A j \in BmcInsts : inst'[j].token = inst[j].token
      <4>1. CASE Spawn(i)
        BY <4>1 DEF Spawn
      <4>2. CASE EndStep(i)
        BY <1>1, <4>2, PlaceShape DEF EndStep
      <4> QED
        BY <2>3, <4>1, <4>2
    <3>4. \A j \in BmcInsts \ {i} : inst'[j].phase = inst[j].phase
      <4>1. CASE Spawn(i)
        BY <4>1 DEF Spawn
      <4>2. CASE EndStep(i)
        BY <1>1, <4>2, PlaceShape DEF EndStep
      <4> QED
        BY <2>3, <4>1, <4>2
    <3> QED
      BY <2>1, <3>1, <3>2, <3>3, <3>4 DEF Regroups, Parted
  <2> QED
    BY <2>2, <2>3
<1>4. Turns' /\ Single'
  <2>1. Turns'
    BY <1>1, <1>3, TurnsStay
  <2> QED
    BY <1>1, <1>2, <2>1 DEF Single
<1>5. \A j \in BmcInsts : Account(j)' <= MostStrays(j)'
  BY <1>1, <1>2, <1>3, IdleAccount DEF Counted
<1> QED
  BY <1>4, <1>5 DEF Counted

LEMMA BereaveExact ==
  ASSUME Shape, IsFiniteSet(live), NEW gone \in SUBSET live, Bereave(gone), NEW j \in BmcInsts
  PROVE  /\ harm'[j].died = harm[j].died + Cardinality({s \in gone : s.of = j})
         /\ harm'[j].lost = harm[j].lost
<1> DEFINE n == Cardinality({s \in gone : s.of = j})
<1>1. n \in Nat
  BY FS_Subset, FS_CardinalityType
<1>2. harm'[j] = [harm[j] EXCEPT !.died = @ + n]
  BY DEF Bereave
<1> HIDE DEF n
<1>3. harm[j] \in [died : Nat, lost : Nat]
  BY DEF Shape
<1>4. harm'[j].died = harm[j].died + n /\ harm'[j].lost = harm[j].lost
  BY <1>1, <1>2, <1>3
<1> QED
  BY <1>4 DEF n

LEMMA Times ==
  ASSUME NEW m \in Nat, NEW d \in Nat, NEW a \in Nat, NEW b \in {0, 1}
  PROVE  /\ m * (d + (a + b)) = m * d + m * a + (IF b = 1 THEN m ELSE 0)
         /\ m * d \in Nat /\ m * a \in Nat
         /\ a >= 1 => m * a >= m
<1>1. m * (d + (a + b)) = m * d + m * a + m * b
  OBVIOUS
<1>2. m * b = IF b = 1 THEN m ELSE 0
  <2>1. CASE b = 0
    BY <2>1
  <2>2. CASE b = 1
    BY <2>2
  <2> QED
    BY <2>1, <2>2
<1>3. m * d \in Nat /\ m * a \in Nat
  OBVIOUS
<1>4. ASSUME a >= 1 PROVE m * a >= m
  <2>1. PICK k \in Nat : a = k + 1
    BY <1>4
  <2>2. m * (k + 1) = m * k + m /\ m * k \in Nat
    OBVIOUS
  <2> QED
    BY <2>1, <2>2
<1> QED
  BY <1>1, <1>2, <1>3, <1>4

(* Deaths: of a strays, and perhaps of the token, b.                       *)
LEMMA MostDeaths ==
  ASSUME Shape, Shape', NEW j \in BmcInsts, NEW a \in Nat, NEW b \in {0, 1},
         harm'[j].died = harm[j].died + (a + b), harm'[j].lost = harm[j].lost,
         Parted(j) => Parted(j)'
  PROVE  /\ MostStrays(j)' >= MostStrays(j) + (IF b = 1 THEN Others ELSE 0)
         /\ a >= 1 => MostStrays(j)' >= MostStrays(j) + Others + (IF b = 1 THEN Others ELSE 0)
<1>1. PICK d \in Nat : d = harm[j].died
  BY DEF Shape
<1>2. harm[j].lost \in Nat /\ Cardinality(BmcCalls) \in Nat /\ Others \in Nat
  BY CallsCount DEF Shape
<1>3. /\ Others * (d + (a + b)) = Others * d + Others * a + (IF b = 1 THEN Others ELSE 0)
      /\ Others * d \in Nat /\ Others * a \in Nat
      /\ a >= 1 => Others * a >= Others
  BY <1>1, <1>2, Times
<1>4. PICK x \in Nat, y \in Nat, z \in Nat :
        /\ x = Others * d /\ y = Others * a
        /\ z = x + y + (IF b = 1 THEN Others ELSE 0) /\ z = Others * (d + (a + b))
  BY <1>1, <1>2, <1>3
<1>5. a >= 1 => y >= Others
  BY <1>3, <1>4
<1>6. MostStrays(j) = harm[j].lost + x + (IF Parted(j) THEN Cardinality(BmcCalls) ELSE 0)
  BY <1>1, <1>4 DEF MostStrays
<1>7. MostStrays(j)' = harm[j].lost + z + (IF Parted(j)' THEN Cardinality(BmcCalls) ELSE 0)
  BY <1>1, <1>4 DEF MostStrays, Others
<1> QED
  BY <1>2, <1>4, <1>5, <1>6, <1>7

LEMMA DeathAccount ==
  ASSUME Shape, Shape', Apart, Single, IsFiniteSet(live), NEW gone \in SUBSET live,
         live' = live \ gone, Bereave(gone), UNCHANGED call, NEW j \in BmcInsts,
         inst'[j].token = inst[j].token, Parted(j) => Parted(j)',
         Account(j) <= MostStrays(j)
  PROVE  Account(j)' <= MostStrays(j)'
<1> DEFINE tok == inst[j].token
           A == {s \in gone : s.of = j /\ s.id # tok}
           B == {s \in gone : s.of = j /\ s.id = tok}
           a == Cardinality(A)  b == Cardinality(B)
<1>1. IsFiniteSet(A) /\ IsFiniteSet(B) /\ a \in Nat
  <2>1. A \in SUBSET live /\ B \in SUBSET live
    OBVIOUS
  <2>2. IsFiniteSet(A) /\ IsFiniteSet(B)
    BY <2>1, FS_Subset
  <2> QED
    BY <2>2, FS_CardinalityType
<1>2. b \in {0, 1} /\ (b = 0 => B = {})
  <2>1. CASE B = {}
    BY <2>1, FS_EmptySet
  <2>2. CASE B # {}
    <3>1. PICK s : s \in B
      BY <2>2
    <3>2. B = {s}
      BY <3>1 DEF Single
    <3> QED
      BY <3>2, FS_Singleton
  <2> QED
    BY <2>1, <2>2
<1>3. Cardinality({s \in gone : s.of = j}) = a + b
  <2> DEFINE U == {s \in gone : s.of = j}
  <2>1. U = A \union B /\ A \intersect B = {}
    OBVIOUS
  <2>2. Cardinality(A \union B) = a + b - Cardinality(A \intersect B)
    BY <1>1, FS_Union
  <2>3. Cardinality(A \intersect B) = 0
    BY <2>1, FS_EmptySet
  <2> HIDE DEF A, B, U
  <2>4. Cardinality(U) = a + b
    BY <1>1, <1>2, <2>1, <2>2, <2>3
  <2> QED
    BY <2>4 DEF U
<1>4. harm'[j].died = harm[j].died + (a + b) /\ harm'[j].lost = harm[j].lost
  BY <1>3, BereaveExact
<1>5. PICK S, L : S = Strays(j)' /\ L = Late(j)'
  OBVIOUS
<1> DEFINE m == Cardinality(Strays(j))  n == Cardinality(Late(j))
           m1 == Cardinality(S)         n1 == Cardinality(L)
<1>6. IsFiniteSet(Strays(j)) /\ m \in Nat /\ IsFiniteSet(Late(j)) /\ n \in Nat /\ Others \in Nat
  BY StraysCount, LateCount, CallsCount
<1>7. m1 = m - a
  <2>1. S = Strays(j) \ A /\ Strays(j) \intersect A = A
    BY <1>5 DEF Strays, Own
  <2> HIDE DEF A
  <2>2. \A T : T = Strays(j) =>
          Cardinality(T \ A) = Cardinality(T) - Cardinality(T \intersect A)
    BY <1>6, FS_Difference
  <2>3. PICK T : T = Strays(j)
    OBVIOUS
  <2>4. Cardinality(T \ A) = Cardinality(T) - Cardinality(T \intersect A)
    BY <2>2, <2>3
  <2> QED
    BY <2>1, <2>3, <2>4
<1>8. /\ n1 \in Nat /\ n1 <= Others + 1 /\ m1 \in Nat
  <2>1. L \in SUBSET BmcCalls
    BY <1>5 DEF Late
  <2>2. IsFiniteSet(L) /\ n1 <= Cardinality(BmcCalls)
    BY <2>1, BmcFinite, FS_Subset
  <2>3. S \in SUBSET Strays(j)
    BY <1>5 DEF Strays, Own
  <2> QED
    BY <1>6, <2>2, <2>3, FS_CardinalityType, FS_Subset, CallsCount
<1>9. A = {} => n1 <= n
  <2>1. ASSUME A = {} PROVE L \subseteq Late(j)
    <3> SUFFICES ASSUME NEW c \in L PROVE c \in Late(j)
      OBVIOUS
    <3>1. /\ c \in BmcCalls /\ call[j][c].pc = "sent" /\ call[j][c].cred # tok
          /\ ~\E s \in live' : s.id = call[j][c].cred
      BY <1>5 DEF Late, IsLive
    <3>2. ASSUME NEW s \in live, s.id = call[j][c].cred PROVE FALSE
      <4>1. s \in gone /\ s.of = j
        BY <3>1, <3>2 DEF Apart, Mine
      <4> QED
        BY <2>1, <3>1, <3>2, <4>1
    <3> QED
      BY <3>1, <3>2 DEF Late, IsLive
  <2> QED
    BY <1>6, <2>1, Smaller
<1>10. Cut(j)' => Cut(j) \/ b = 1
  <2> SUFFICES ASSUME Cut(j)', ~Cut(j), B = {} PROVE FALSE
    BY <1>2
  <2>1. tok # 0 /\ ~\E s \in live' : s.id = tok
    BY DEF Cut, IsLive
  <2>2. PICK s \in live : s.id = tok
    BY <2>1 DEF Cut, IsLive
  <2>3. s \in gone /\ s.of = j
    BY <2>1, <2>2 DEF Apart, Mine
  <2> QED
    BY <2>2, <2>3
<1>11. /\ MostStrays(j)' >= MostStrays(j) + (IF b = 1 THEN Others ELSE 0)
       /\ a >= 1 => MostStrays(j)' >= MostStrays(j) + Others + (IF b = 1 THEN Others ELSE 0)
  <2> HIDE DEF a, b
  <2> QED
    BY <1>1, <1>2, <1>4, MostDeaths
<1>12. MostStrays(j) \in Nat /\ MostStrays(j)' \in Nat
  <2>1. IsFiniteSet(live')
    BY FS_Difference
  <2> QED
    BY <2>1, AccountNumbers, NumbersNext DEF Numbers
<1>13. Account(j) = m + n + (IF Cut(j) THEN Others ELSE 0)
  BY DEF Account
<1>14. Account(j)' = m1 + n1 + (IF Cut(j)' THEN Others ELSE 0)
  BY <1>5 DEF Account, Others
<1>15. a = 0 => A = {}
  BY <1>1, FS_EmptySet
<1> HIDE DEF a, b, m, n, m1, n1, A, B
<1>16. CASE a = 0
  BY <1>1, <1>2, <1>6, <1>7, <1>8, <1>9, <1>10, <1>11, <1>12, <1>13, <1>14, <1>15, <1>16
<1>17. CASE a >= 1
  BY <1>1, <1>2, <1>6, <1>7, <1>8, <1>10, <1>11, <1>12, <1>13, <1>14, <1>17
<1> QED
  BY <1>1, <1>16, <1>17

LEMMA DeathCounted ==
  ASSUME BmcInv, BmcInv', Counted, Locked,
         (\E s \in live : Expire(s)) \/ \E i \in BmcInsts : ReapKill(i)
  PROVE  Counted'
<1>1. Shape /\ Shape' /\ Apart /\ IsFiniteSet(live) /\ Turns /\ Single
  BY DEF BmcInv, Counted
<1>2. PICK gone \in SUBSET live : /\ live' = live \ gone /\ Bereave(gone)
                                  /\ UNCHANGED <<channel, call>>
  <2>1. CASE \E s \in live : Expire(s)
    <3>1. PICK s \in live : Expire(s)
      BY <2>1
    <3>2. {s} \in SUBSET live /\ live' = live \ {s} /\ Bereave({s}) /\ UNCHANGED <<channel, call>>
      BY <3>1 DEF Expire
    <3> QED
      BY <3>2
  <2>2. CASE \E i \in BmcInsts : ReapKill(i)
    <3>1. PICK i \in BmcInsts : ReapKill(i)
      BY <2>2
    <3>2. PICK gone \in SUBSET live : gone = live \intersect inst[i].found
      OBVIOUS
    <3>3. live' = live \ gone /\ Bereave(gone) /\ UNCHANGED <<channel, call>>
      BY <3>1, <3>2 DEF ReapKill
    <3> QED
      BY <3>3
  <2> QED
    BY <2>1, <2>2
<1>3. \A j \in BmcInsts : /\ inst'[j].token = inst[j].token /\ inst'[j].lock = inst[j].lock
                          /\ Parted(j) => Parted(j)'
  <2>1. CASE \E s \in live : Expire(s)
    BY <2>1 DEF Expire, Parted
  <2>2. CASE \E i \in BmcInsts : ReapKill(i)
    <3>1. PICK i \in BmcInsts : ReapKill(i)
      BY <2>2
    <3>2. ToPhase(i, "closed", inst[i].token, {})
      BY <1>1, <3>1, InstMoves
    <3>3. \A j \in BmcInsts : inst'[j].lock = inst[j].lock
      BY <1>1, <3>1, LockStays DEF InstStep
    <3> QED
      BY <3>2, <3>3 DEF ToPhase, Parted
  <2> QED
    BY <2>1, <2>2
<1>4. Turns' /\ Single'
  <2>1. Turns'
    BY <1>1, <1>2, <1>3, TurnsStay
  <2> QED
    BY <1>1, <1>2, <2>1 DEF Single
<1>5. \A j \in BmcInsts : Account(j)' <= MostStrays(j)'
  BY <1>1, <1>2, <1>3, DeathAccount DEF Counted
<1> QED
  BY <1>4, <1>5 DEF Counted

(* A logout takes the token's session; requests that are still out become  *)
(* late.  Other instances do not notice.                                   *)
LEMMA LogoutElsewhere ==
  ASSUME Shape, Shape', Apart, IsFiniteSet(live), NEW i \in BmcInsts, Logout(i),
         NEW j \in BmcInsts \ {i}, Account(j) <= MostStrays(j)
  PROVE  Account(j)' <= MostStrays(j)'
<1>1. inst'[j] = inst[j] /\ call' = call /\ live' \subseteq live
  BY InstMoves DEF ToPhase, Logout
<1>2. harm'[j] = harm[j]
  BY DEF Logout, Shape
<1>3. \A s \in live \ live' : s.of = i
  BY DEF Logout, Apart, Mine
<1>4. \A id : Mine(j, id) /\ IsLive(id) => \E s \in live' : s.id = id
  BY <1>3 DEF Mine, IsLive
<1>5. Strays(j)' \subseteq Strays(j)
  BY <1>1 DEF Strays, Own
<1>6. Late(j)' \subseteq Late(j)
  <2> SUFFICES ASSUME NEW c \in Late(j)' PROVE c \in Late(j)
    OBVIOUS
  <2>1. /\ c \in BmcCalls /\ call[j][c].pc = "sent" /\ call[j][c].cred # inst[j].token
        /\ ~\E s \in live' : s.id = call[j][c].cred
    BY <1>1 DEF Late, IsLive
  <2>2. ~IsLive(call[j][c].cred)
    BY <1>4, <2>1 DEF Apart
  <2> QED
    BY <2>1, <2>2 DEF Late
<1>7. Cut(j)' => Cut(j)
  <2>1. ASSUME Cut(j)' PROVE inst[j].token # 0 /\ ~\E s \in live' : s.id = inst[j].token
    BY <1>1, <2>1 DEF Cut, IsLive
  <2> QED
    BY <1>4, <2>1 DEF Apart, Cut
<1>8. Account(j)' <= Account(j)
  BY <1>5, <1>6, <1>7, AccountKept
<1>9. MostStrays(j)' >= MostStrays(j) + harm[j].lost - harm[j].lost /\ harm[j].lost \in Nat
  <2>1. Parted(j) => Parted(j)'
    BY <1>1 DEF Parted
  <2> QED
    BY <1>2, <2>1, MostSame DEF Shape
<1>10. /\ MostStrays(j) \in Nat /\ Account(j) \in Nat
       /\ MostStrays(j)' \in Nat /\ Account(j)' \in Nat
  <2>1. IsFiniteSet(live')
    BY <1>1, FS_Subset
  <2> QED
    BY <2>1, AccountNumbers, NumbersNext DEF Numbers
<1> QED
  BY <1>8, <1>9, <1>10

LEMMA LogoutAccount ==
  ASSUME Shape, Shape', Apart, Single, IsFiniteSet(live), NEW i \in BmcInsts, Locked, Logout(i),
         Account(i) <= MostStrays(i)
  PROVE  Account(i)' <= MostStrays(i)'
<1> DEFINE tok == inst[i].token
<1>1. inst'[i].token = 0 /\ inst'[i].phase = AfterLogout /\ inst[i].phase = "logout"
      /\ live' \subseteq live
  BY InstMoves DEF ToPhase, Logout
<1>2. ~Cut(i)' /\ ~Parted(i) /\ Parted(i)'
  BY <1>1 DEF Cut, Parted, AfterLogout
<1>3. PICK S, L : S = Strays(i)' /\ L = Late(i)'
  OBVIOUS
<1> DEFINE m == Cardinality(Strays(i))  n == Cardinality(Late(i))
           m1 == Cardinality(S)         n1 == Cardinality(L)
<1>4. IsFiniteSet(Strays(i)) /\ m \in Nat /\ n \in Nat /\ Others \in Nat /\ IsFiniteSet(Own(i))
      /\ Cardinality(BmcCalls) = Others + 1
  BY StraysCount, LateCount, CallsCount
<1>5. n1 \in Nat /\ n1 <= Others + 1
  <2>1. L \in SUBSET BmcCalls
    BY <1>3 DEF Late
  <2>2. IsFiniteSet(L) /\ n1 <= Cardinality(BmcCalls)
    BY <2>1, BmcFinite, FS_Subset
  <2> QED
    BY <1>4, <2>2, FS_CardinalityType
<1>6. S \subseteq Own(i)
  BY <1>1, <1>3 DEF Strays, Own
<1>7. m1 \in Nat
  BY <1>4, <1>6, FS_Subset, FS_CardinalityType
<1>8. harm[i].lost \in Nat /\ harm'[i].died = harm[i].died /\ harm'[i].lost \in Nat
  BY DEF Shape, Logout
<1>9. m1 - m <= harm'[i].lost - harm[i].lost
  <2>1. CASE live' = {s \in live : s.id # tok} /\ UNCHANGED harm
    <3>1. S \subseteq Strays(i)
      BY <1>3, <2>1 DEF Strays, Own
    <3>2. m1 <= m
      BY <1>4, <3>1, Smaller
    <3> HIDE DEF m, m1
    <3> QED
      BY <1>4, <1>7, <1>8, <2>1, <3>2
  <2>2. CASE IsLive(tok) /\ harm' = [harm EXCEPT ![i].lost = @ + 1]
    <3>1. PICK s \in live : s.id = tok
      BY <2>2 DEF IsLive
    <3>2. S \subseteq Strays(i) \union {s}
      BY <1>6, <3>1 DEF Strays, Own, Single
    <3>3. m1 <= m + 1
      BY <1>4, <3>2, OneMore
    <3>4. harm'[i].lost = harm[i].lost + 1
      BY <2>2 DEF Shape
    <3> HIDE DEF m, m1
    <3> QED
      BY <1>4, <1>7, <1>8, <3>3, <3>4
  <2> QED
    BY <2>1, <2>2 DEF Logout
<1>10. Account(i)' = m1 + n1 /\ Account(i) >= m
  <2>1. Account(i) = m + n + (IF Cut(i) THEN Others ELSE 0)
    BY DEF Account
  <2>2. Account(i)' = m1 + n1
    BY <1>2, <1>3, <1>5, <1>7 DEF Account
  <2> HIDE DEF m, n
  <2> QED
    BY <1>4, <2>1, <2>2
<1>11. MostStrays(i)' = MostStrays(i) + harm'[i].lost - harm[i].lost + Others + 1
  <2>1. PICK p \in Nat : p = Others * harm[i].died
    BY <1>4 DEF Shape
  <2>2. MostStrays(i) = harm[i].lost + p + 0
    BY <1>2, <2>1 DEF MostStrays
  <2>3. MostStrays(i)' = harm'[i].lost + p + Cardinality(BmcCalls)
    BY <1>2, <1>8, <2>1 DEF MostStrays, Others
  <2>4. Others \in Nat /\ Cardinality(BmcCalls) = Others + 1
    BY CallsCount
  <2> QED
    BY <1>8, <2>2, <2>3, <2>4
<1>12. MostStrays(i) \in Nat /\ Account(i) \in Nat
  BY AccountNumbers DEF Numbers
<1> HIDE DEF m, n, m1, n1
<1> QED
  BY <1>4, <1>5, <1>7, <1>8, <1>9, <1>10, <1>11, <1>12

LEMMA LogoutCounted ==
  ASSUME BmcInv, BmcInv', Counted, Locked, NEW i \in BmcInsts, Logout(i)
  PROVE  Counted'
<1>1. Shape /\ Shape' /\ Apart /\ IsFiniteSet(live) /\ Turns /\ Single
  BY DEF BmcInv, Counted
<1>2. call' = call /\ live' \subseteq live
  BY DEF Logout
<1>3. \A j \in BmcInsts : /\ inst'[j].lock = inst[j].lock
                          /\ inst'[j].token \in {0, inst[j].token}
  <2>1. ToPhase(i, AfterLogout, 0, inst[i].found)
    BY <1>1, InstMoves
  <2> QED
    BY <1>1, <2>1, LockStays DEF InstStep, ToPhase
<1>4. Turns' /\ Single'
  <2>1. Turns'
    BY <1>1, <1>2, <1>3, TurnsStay
  <2> QED
    BY <1>1, <1>2, <2>1 DEF Single
<1>5. \A j \in BmcInsts : Account(j)' <= MostStrays(j)'
  <2> SUFFICES ASSUME NEW j \in BmcInsts PROVE Account(j)' <= MostStrays(j)'
    OBVIOUS
  <2>1. Account(j) <= MostStrays(j)
    BY DEF Counted
  <2>2. CASE j # i
    BY <1>1, <2>1, <2>2, LogoutElsewhere
  <2>3. CASE j = i
    BY <1>1, <2>1, <2>3, LogoutAccount
  <2> QED
    BY <2>2, <2>3
<1> QED
  BY <1>4, <1>5 DEF Counted

LEMMA CountedInit == BmcInit => Counted
<1> SUFFICES ASSUME BmcInit PROVE Counted
  OBVIOUS
<1>1. \A i \in BmcInsts, c \in BmcCalls : call[i][c].pc = "free"
  BY DEF BmcInit, NoCall
<1>2. Turns /\ Single
  BY <1>1 DEF BmcInit, Turns, Single
<1>3. ASSUME NEW i \in BmcInsts PROVE Account(i) = 0
  <2>1. Strays(i) = {} /\ Late(i) = {}
    BY <1>1 DEF BmcInit, Strays, Own, Late
  <2>2. ~Cut(i)
    BY DEF BmcInit, Cut, NewInst
  <2> QED
    BY <2>1, <2>2, FS_EmptySet DEF Account
<1>4. ASSUME NEW i \in BmcInsts PROVE MostStrays(i) >= 0
  BY ShapeInit, MostType
<1> QED
  BY <1>2, <1>3, <1>4 DEF Counted

LEMMA CountedNext ==
  ASSUME BmcInv, BmcInv', Counted, [BmcNext]_bmcVars
  PROVE  Counted'
<1> SUFFICES ASSUME Locked' PROVE Counted'
  BY DEF Counted
<1>1. Locked
  <2>1. CASE \E i \in BmcInsts, c \in BmcCalls : CallStep(i, c)
    BY <2>1, CallShape DEF BmcInv, Locked
  <2>2. CASE \E i \in BmcInsts : OpenInst(i) \/ InstStep(i)
    BY <2>2 DEF OpenInst, InstStep, Spawn, EndStep, Logout, ReapList, ReapKill, Locked
  <2>3. CASE (\E s \in live : Expire(s)) \/ UNCHANGED bmcVars
    BY <2>3 DEF Expire, bmcVars, Locked
  <2> QED
    BY <2>1, <2>2, <2>3 DEF BmcNext
<1>2. CASE UNCHANGED bmcVars
  <2>1. Turns' /\ Single'
    BY <1>1, <1>2 DEF Counted, Turns, Single, bmcVars
  <2>2. \A j \in BmcInsts : Account(j)' = Account(j) /\ MostStrays(j)' = MostStrays(j)
    BY <1>2 DEF bmcVars, Account, MostStrays, Strays, Own, Late, Cut, IsLive, Others, Parted
  <2> QED
    BY <1>1, <2>1, <2>2 DEF Counted
<1>3. CASE \E i \in BmcInsts, c \in BmcCalls : CallStep(i, c)
  BY <1>1, <1>3, CallCounted
<1>4. CASE \E i \in BmcInsts : OpenInst(i) \/ Spawn(i) \/ EndStep(i) \/ ReapList(i)
  BY <1>1, <1>4, MoveCounted
<1>5. CASE \E i \in BmcInsts : Logout(i)
  BY <1>1, <1>5, LogoutCounted
<1>6. CASE (\E s \in live : Expire(s)) \/ \E i \in BmcInsts : ReapKill(i)
  BY <1>1, <1>6, DeathCounted
<1> QED
  BY <1>2, <1>3, <1>4, <1>5, <1>6 DEF BmcNext, InstStep

-----------------------------------------------------------------------------
(* Plain Redfish, undisturbed.  The first request of an instance runs      *)
(* alone and fetches the token; it stays good until the logout, so nobody  *)
(* else logs in, and there are never more sessions than instances.         *)

Sess(i) == [id |-> inst[i].token, of |-> i, late |-> FALSE]

HoldsOne(i) ==
  /\ inst[i].token <= minted /\ inst[i].phase \notin {"list", "kill"}
  /\ \A s \in live : s.of = i => inst[i].token # 0 /\ s = Sess(i)
  /\ inst[i].token # 0 => Sess(i) \in live /\ inst[i].phase \in {"run", "logout"}
  /\ Role(i) = "kvm" => inst[i].token = 0
  /\ Role(i) # "kvm" /\ inst[i].token = 0 /\ inst[i].phase \in {"idle", "run"}
       => inst[i].key = 1 /\ inst[i].step = 1

(* A request of an instance with that token in that phase.                 *)
CalmCall(i, q, tok, ph) ==
  /\ Role(i) = "kvm" => q.pc \notin {"login", "asking"}
  /\ Role(i) # "kvm" =>
       /\ q.pc # "free" => q.awaited /\ ph = "run"
       /\ tok # 0 => /\ q.pc \in {"free", "begin", "sent", "done"}
                     /\ q.pc = "sent" => q.cred = tok
       /\ tok = 0 => /\ q.pc \notin Ended
                     /\ q.pc \in {"begin", "sent"} => ~q.again
                     /\ q.pc = "sent" => q.cred = 0

Alone(i) == Role(i) # "kvm" /\ inst[i].token = 0 =>
  \A c, d \in BmcCalls : call[i][c].pc # "free" /\ call[i][d].pc # "free" => c = d

CalmInst(i) ==
  /\ HoldsOne(i) /\ Alone(i)
  /\ \A c \in BmcCalls : CalmCall(i, call[i][c], inst[i].token, inst[i].phase)

Distinct == \A i, j \in BmcInsts : inst[i].token = inst[j].token /\ inst[i].token # 0 => i = j

Calm ==
  /\ faults \in Nat
  /\ channel.kind = "ibmc" /\ Undisturbed => Distinct /\ \A i \in BmcInsts : CalmInst(i)

LEMMA CalmInit == BmcInit => Calm
BY DEF BmcInit, Calm, CalmInst, HoldsOne, Alone, CalmCall, Distinct, NewInst, NoCall, Ended

(* While an instance has no session there is room for one more.            *)
LEMMA RoomForAll ==
  ASSUME Shape, \A i \in BmcInsts : HoldsOne(i), Cardinality(BmcInsts) <= BmcSlots,
         NEW i \in BmcInsts, inst[i].token = 0
  PROVE  ~(Cardinality(live) >= BmcSlots)
<1> DEFINE f == [s \in live |-> s.of]
<1>1. \A s \in live : s.of \in BmcInsts /\ s.of # i /\ s = Sess(s.of)
  BY DEF Shape, Session, HoldsOne
<1>2. f \in [live -> BmcInsts \ {i}]
  BY <1>1
<1>3. ASSUME NEW s \in live, NEW u \in live, f[s] = f[u] PROVE s = u
  <2>1. s.of = u.of
    BY <1>3
  <2> QED
    BY <1>1, <2>1
<1>4. f \in Injection(live, BmcInsts \ {i})
  BY <1>2, <1>3 DEF Injection, IsInjective
<1>5. IsFiniteSet(BmcInsts \ {i}) /\ Cardinality(BmcInsts \ {i}) = Cardinality(BmcInsts) - 1
      /\ Cardinality(BmcInsts) \in Nat
  BY BmcFinite, FS_RemoveElement, FS_CardinalityType
<1> HIDE DEF f
<1>6. IsFiniteSet(live) /\ Cardinality(live) <= Cardinality(BmcInsts \ {i})
  BY <1>4, <1>5, FS_Injection
<1>7. Cardinality(live) \in Nat /\ BmcSlots \in Nat
  BY <1>6, BmcFinite, FS_CardinalityType
<1> QED
  BY <1>5, <1>6, <1>7

(* What a request of plain Redfish can do when nothing fails.              *)
RfOutcome(i, c, r, t) ==
  LET old == call[i][c]  tok == inst[i].token IN
  \/ /\ old.pc = "begin" /\ r.pc = "sent" /\ r.cred = tok /\ r.again = old.again
     /\ t = tok /\ UNCHANGED <<live, minted>>
  \/ /\ old.pc = "login" /\ r.pc = "asking" /\ t = tok /\ UNCHANGED <<live, minted>>
  \/ /\ old.pc = "asking" /\ r.pc \in {"sent", "done"} /\ r.cred = minted + 1
     /\ t = minted + 1 /\ Granted(i)
  \/ /\ old.pc = "asking" /\ Cardinality(live) >= BmcSlots
  \/ /\ old.pc = "sent" /\ IsLive(old.cred) /\ r.pc = "done"
     /\ t = tok /\ UNCHANGED <<live, minted>>
  \/ /\ old.pc = "sent" /\ ~IsLive(old.cred) /\ r.pc = "login" /\ t = 0 /\ tok = 0
     /\ Role(i) # "kvm" /\ UNCHANGED <<live, minted>>
  \/ /\ old.pc = "sent" /\ ~IsLive(old.cred) /\ r.pc = "stale" /\ t = tok
     /\ (old.again \/ Role(i) = "kvm" \/ tok # 0) /\ UNCHANGED <<live, minted>>

LEMMA RfMoves ==
  ASSUME Shape, channel.kind = "ibmc", faults \in Nat, faults' = 0,
         NEW i \in BmcInsts, NEW c \in BmcCalls, CallStep(i, c)
  PROVE  \E r \in Request, t \in Nat :
           /\ CallTo(i, c, r) /\ r.awaited = call[i][c].awaited
           /\ TokenTo(i, t) /\ RfOutcome(i, c, r, t)
<1> DEFINE old == call[i][c]  tok == inst[i].token
<1>1. /\ old \in Request /\ inst[i] \in Instance /\ tok \in Nat /\ minted + 1 \in Nat
      /\ inst[i].lock \in {0} \union BmcCalls
  BY DEF Shape, Instance
<1>2. ~Locked /\ ~XmlKind /\ ~Fault
  BY DEF Locked, XmlKind, Fault
<1>3. CASE Begin(i, c)
  <2> DEFINE r == [old EXCEPT !.pc = "sent", !.cred = tok]
  <2>1. Becomes(i, c, r) /\ UNCHANGED <<inst, live, minted>> /\ old.pc = "begin"
    BY <1>3 DEF Begin
  <2>2. /\ r \in Request /\ r.pc = "sent" /\ r.cred = tok /\ r.again = old.again
        /\ r.awaited = old.awaited
    BY <1>1 DEF Request, BmcPcs
  <2> HIDE DEF r
  <2>3. CallTo(i, c, r) /\ TokenTo(i, tok)
    BY <2>1, <2>2, MoveTo, TokenKept
  <2>4. RfOutcome(i, c, r, tok)
    BY <2>1, <2>2 DEF RfOutcome
  <2> QED
    BY <1>1, <2>2, <2>3, <2>4
<1>4. CASE AskLogin(i, c)
  <2>1. SetPc(i, c, "asking") /\ UNCHANGED <<live, minted>> /\ old.pc = "login"
        /\ inst' = [inst EXCEPT ![i].lock = inst[i].lock]
    BY <1>2, <1>4 DEF AskLogin
  <2>2. inst' = [inst EXCEPT ![i].token = tok, ![i].lock = inst[i].lock]
    BY <1>1, <2>1 DEF Shape, Instance
  <2>3. TokenTo(i, tok)
    BY <1>1, <2>2, TokenSet
  <2>4. PICK r \in Request : CallTo(i, c, r) /\ r.pc = "asking" /\ r.awaited = old.awaited
    BY <2>1, SetPcTo DEF BmcPcs
  <2>5. RfOutcome(i, c, r, tok)
    BY <2>1, <2>4 DEF RfOutcome
  <2> QED
    BY <1>1, <2>3, <2>4, <2>5
<1>5. CASE LoginGranted(i, c)
  <2> DEFINE pc == IF Role(i) = "probe" THEN "done" ELSE "sent"
             r == [old EXCEPT !.pc = pc, !.cred = minted + 1]
  <2>1. Becomes(i, c, r) /\ Granted(i) /\ old.pc = "asking"
    BY <1>5 DEF LoginGranted, Sent, Grant, Granted
  <2>2. pc \in {"sent", "done"}
    OBVIOUS
  <2> HIDE DEF pc
  <2>3. r \in Request /\ r.pc = pc /\ r.cred = minted + 1 /\ r.awaited = old.awaited
    BY <1>1, <2>2 DEF Request, BmcPcs
  <2> HIDE DEF r
  <2>4. CallTo(i, c, r) /\ TokenTo(i, minted + 1)
    BY <1>1, <1>5, <2>1, <2>3, MoveTo, TokenSet DEF LoginGranted, Unlock
  <2>5. RfOutcome(i, c, r, minted + 1)
    BY <2>1, <2>2, <2>3 DEF RfOutcome
  <2> QED
    BY <1>1, <2>3, <2>4, <2>5
<1>6. CASE LoginRefused(i, c)
  <2>1. SetPc(i, c, "failed") /\ old.pc = "asking" /\ Cardinality(live) >= BmcSlots
        /\ inst' = [inst EXCEPT ![i].token = tok, ![i].lock = 0]
    BY <1>6 DEF LoginRefused, Unlock
  <2>2. TokenTo(i, tok)
    BY <1>1, <2>1, TokenSet
  <2>3. PICK r \in Request : CallTo(i, c, r) /\ r.awaited = old.awaited
    BY <2>1, SetPcTo DEF BmcPcs
  <2>4. RfOutcome(i, c, r, tok)
    BY <2>1 DEF RfOutcome
  <2> QED
    BY <1>1, <2>2, <2>3, <2>4
<1>7. CASE Answered(i, c)
  <2>1. SetPc(i, c, "done") /\ old.pc = "sent" /\ IsLive(old.cred)
        /\ UNCHANGED <<inst, live, minted>>
    BY <1>7 DEF Answered
  <2>2. PICK r \in Request : CallTo(i, c, r) /\ r.pc = "done" /\ r.awaited = old.awaited
    BY <2>1, SetPcTo DEF BmcPcs
  <2>3. TokenTo(i, tok) /\ RfOutcome(i, c, r, tok)
    BY <2>1, <2>2, TokenKept DEF RfOutcome
  <2> QED
    BY <1>1, <2>2, <2>3
<1>8. CASE Unauthorized(i, c)
  <2> DEFINE retry == Retries(i, c)
             pc == IF retry THEN "login" ELSE "stale"
             t == IF retry THEN 0 ELSE tok
             r == [old EXCEPT !.again = TRUE, !.pc = pc]
  <2>1. /\ Becomes(i, c, r) /\ inst' = [inst EXCEPT ![i].token = t]
        /\ UNCHANGED <<live, minted>> /\ old.pc = "sent" /\ ~IsLive(old.cred)
    BY <1>1, <1>8 DEF Unauthorized
  <2>2. \/ pc = "login" /\ t = 0 /\ tok = 0 /\ Role(i) # "kvm"
        \/ pc = "stale" /\ t = tok /\ (old.again \/ Role(i) = "kvm" \/ tok # 0)
    BY DEF Retries
  <2>3. t \in Nat /\ pc \in BmcPcs
    BY <1>1, <2>2 DEF BmcPcs
  <2> HIDE DEF pc, t
  <2>4. r \in Request /\ r.pc = pc /\ r.awaited = old.awaited
    BY <1>1, <2>3 DEF Request, BmcPcs
  <2> HIDE DEF r
  <2>5. inst' = [inst EXCEPT ![i].token = t, ![i].lock = inst[i].lock]
    BY <1>1, <2>1 DEF Shape, Instance
  <2>6. CallTo(i, c, r) /\ TokenTo(i, t)
    BY <1>1, <2>1, <2>3, <2>4, <2>5, MoveTo, TokenSet
  <2>7. RfOutcome(i, c, r, t)
    BY <2>1, <2>2, <2>4 DEF RfOutcome
  <2> QED
    BY <2>3, <2>4, <2>6, <2>7
<1> QED
  BY <1>2, <1>3, <1>4, <1>5, <1>6, <1>7, <1>8
     DEF CallStep, Reuse, LoginLost, AnsweredAnyway, RequestFails

(* The rest of the instance stays as it is.                                *)
LEMMA PlaceStays ==
  ASSUME Shape, NEW i \in BmcInsts, NEW c \in BmcCalls, CallStep(i, c), NEW j \in BmcInsts
  PROVE  inst'[j].key = inst[j].key /\ inst'[j].step = inst[j].step
<1>1. inst \in [BmcInsts -> Instance] /\ inst[i] \in Instance
  BY DEF Shape
<1>2. CASE UNCHANGED inst
  BY <1>2
<1>3. CASE AskLogin(i, c)
  BY <1>1, <1>3 DEF AskLogin, Instance
<1>4. CASE LoginGranted(i, c) \/ LoginRefused(i, c) \/ LoginLost(i, c)
  <2>1. PICK t : inst' = [inst EXCEPT ![i].token = t, ![i].lock = 0]
    BY <1>4 DEF LoginGranted, LoginRefused, LoginLost, Unlock
  <2> QED
    BY <1>1, <2>1 DEF Instance
<1>5. CASE Unauthorized(i, c)
  <2>1. PICK t : inst' = [inst EXCEPT ![i].token = t]
    BY <1>5 DEF Unauthorized
  <2> QED
    BY <1>1, <2>1 DEF Instance
<1> QED
  BY <1>2, <1>3, <1>4, <1>5 DEF CallStep, Begin, Reuse, Answered, AnsweredAnyway, RequestFails

(* The token that the request's instance has afterwards.                   *)
LEMMA RfToken ==
  ASSUME Shape, NEW i \in BmcInsts, NEW c \in BmcCalls, NEW r \in Request, NEW t \in Nat,
         CalmInst(i), \A j \in BmcInsts : HoldsOne(j), Cardinality(BmcInsts) <= BmcSlots,
         RfOutcome(i, c, r, t), r.awaited = call[i][c].awaited
  PROVE  /\ CalmCall(i, r, t, inst[i].phase)
         /\ r.pc \in Ended /\ ~r.awaited => Role(i) = "kvm"
         /\ call[i][c].pc # "free"
         /\ \/ t = inst[i].token /\ UNCHANGED <<live, minted>>
            \/ /\ inst[i].token = 0 /\ t = minted + 1 /\ Granted(i) /\ inst[i].phase = "run"
               /\ Role(i) # "kvm"
<1> DEFINE old == call[i][c]  tok == inst[i].token  ph == inst[i].phase
<1>1. CalmCall(i, old, tok, ph) /\ HoldsOne(i)
  BY DEF CalmInst
<1>2. tok \in Nat /\ minted \in Nat
  BY DEF Shape, Instance
<1>3. ~IsLive(0) /\ (tok # 0 => IsLive(tok))
  <2>1. ASSUME NEW s \in live PROVE s.id # 0
    <3>1. s.of \in BmcInsts
      BY DEF Shape, Session
    <3>2. inst[s.of].token # 0 /\ s = Sess(s.of)
      BY <3>1 DEF HoldsOne
    <3> QED
      BY <3>2 DEF Sess
  <2>2. tok # 0 => Sess(i) \in live /\ Sess(i).id = tok
    BY <1>1 DEF HoldsOne, Sess
  <2> QED
    BY <2>1, <2>2 DEF IsLive
<1>4. old.pc = "asking" => Role(i) # "kvm" /\ tok = 0 /\ ph = "run" /\ old.awaited
  BY <1>1 DEF CalmCall
<1>5. ~(old.pc = "asking" /\ Cardinality(live) >= BmcSlots)
  BY <1>4, RoomForAll
<1>6. Role(i) = "kvm" => tok = 0
  BY <1>1 DEF HoldsOne
<1> QED
  BY <1>1, <1>2, <1>3, <1>4, <1>5, <1>6 DEF RfOutcome, CalmCall, Ended

(* A step of a request keeps the others as they are.                       *)
LEMMA CallCalm ==
  ASSUME Shape, Shape', channel.kind = "ibmc", channel' = channel, faults \in Nat, faults' = 0,
         Cardinality(BmcInsts) <= BmcSlots, Distinct, \A j \in BmcInsts : CalmInst(j),
         NEW i \in BmcInsts, NEW c \in BmcCalls, CallStep(i, c)
  PROVE  Distinct' /\ \A j \in BmcInsts : CalmInst(j)'
<1>1. PICK r \in Request, t \in Nat :
        /\ CallTo(i, c, r) /\ r.awaited = call[i][c].awaited
        /\ TokenTo(i, t) /\ RfOutcome(i, c, r, t)
  BY RfMoves
<1>2. \A j \in BmcInsts : HoldsOne(j) /\ Alone(j)
  BY DEF CalmInst
<1>3. /\ CalmCall(i, r, t, inst[i].phase)
      /\ r.pc \in Ended /\ ~r.awaited => Role(i) = "kvm"
      /\ call[i][c].pc # "free"
      /\ \/ t = inst[i].token /\ UNCHANGED <<live, minted>>
         \/ /\ inst[i].token = 0 /\ t = minted + 1 /\ Granted(i) /\ inst[i].phase = "run"
            /\ Role(i) # "kvm"
  BY <1>1, <1>2, RfToken
<1>4. \A j \in BmcInsts : /\ inst'[j].phase = inst[j].phase
                          /\ inst'[j].token = IF j = i THEN t ELSE inst[j].token
                          /\ inst'[j].key = inst[j].key /\ inst'[j].step = inst[j].step
                          /\ inst[j].token \in Nat
  BY <1>1, PlaceStays DEF TokenTo, Shape, Instance
<1>5. minted \in Nat
  BY DEF Shape
<1>6. \A j \in BmcInsts, d \in BmcCalls : <<j, d>> # <<i, c>> => call'[j][d] = call[j][d]
  BY <1>1 DEF CallTo
<1>7. call'[i][c] = r \/ (call'[i][c] = NoCall /\ Role(i) = "kvm")
  BY <1>1, <1>3 DEF CallTo
<1>8. CASE t = inst[i].token /\ UNCHANGED <<live, minted>>
  <2>1. \A j \in BmcInsts : inst'[j].token = inst[j].token
    BY <1>4, <1>8
  <2>2. Distinct'
    BY <2>1 DEF Distinct
  <2> SUFFICES ASSUME NEW j \in BmcInsts PROVE CalmInst(j)'
    BY <2>2
  <2>3. HoldsOne(j)'
    BY <1>2, <1>4, <1>8, <2>1 DEF HoldsOne, Sess, Role
  <2>4. \A d \in BmcCalls : call'[j][d].pc # "free" => call[j][d].pc # "free"
    BY <1>3, <1>6
  <2>5. Alone(j)'
    BY <1>2, <2>1, <2>4 DEF Alone, Role
  <2>6. ASSUME NEW d \in BmcCalls
        PROVE  CalmCall(j, call[j][d], inst[j].token, inst[j].phase)'
    <3>1. CASE <<j, d>> # <<i, c>>
      <4>1. CalmCall(j, call[j][d], inst[j].token, inst[j].phase)
        BY DEF CalmInst
      <4> QED
        BY <1>4, <1>6, <2>1, <3>1, <4>1 DEF CalmCall, Role
    <3>2. CASE <<j, d>> = <<i, c>>
      BY <1>3, <1>4, <1>7, <1>8, <2>1, <3>2 DEF CalmCall, Role, NoCall, Ended
    <3> QED
      BY <3>1, <3>2
  <2> QED
    BY <2>3, <2>5, <2>6 DEF CalmInst
<1>9. CASE /\ inst[i].token = 0 /\ t = minted + 1 /\ Granted(i) /\ inst[i].phase = "run"
           /\ Role(i) # "kvm"
  <2>1. /\ inst'[i].token = minted + 1 /\ minted' = minted + 1
        /\ live' = live \union {[id |-> minted + 1, of |-> i, late |-> FALSE]}
    BY <1>4, <1>9 DEF Granted
  <2>2. \A j \in BmcInsts : inst[j].token <= minted
    BY <1>2 DEF HoldsOne
  <2>3. Distinct'
    <3>1. \A j \in BmcInsts \ {i} : inst'[j].token # minted + 1
      BY <1>4, <1>5, <2>2
    <3>2. \A j \in BmcInsts \ {i} : inst'[j].token = inst[j].token
      BY <1>4
    <3> QED
      BY <2>1, <3>1, <3>2 DEF Distinct
  <2> SUFFICES ASSUME NEW j \in BmcInsts PROVE CalmInst(j)'
    BY <2>3
  <2>4. CASE j = i
    <3>1. Sess(i)' = [id |-> minted + 1, of |-> i, late |-> FALSE]
      BY <2>1 DEF Sess
    <3>2. \A s \in live : s.of # i
      BY <1>2, <1>9 DEF HoldsOne
    <3>3. HoldsOne(i)'
      BY <1>4, <1>5, <1>9, <2>1, <3>1, <3>2 DEF HoldsOne, Role
    <3>4. Alone(i)'
      BY <1>5, <2>1 DEF Alone
    <3>5. ASSUME NEW d \in BmcCalls
          PROVE  CalmCall(i, call[i][d], inst[i].token, inst[i].phase)'
      <4>1. CASE d # c
        <5>1. call[i][d].pc = "free"
          BY <1>2, <1>3, <1>9, <4>1 DEF Alone
        <5> QED
          BY <1>5, <1>6, <1>9, <2>1, <4>1, <5>1 DEF CalmCall, Role, Ended
      <4>2. CASE d = c
        BY <1>3, <1>4, <1>7, <1>9, <4>2 DEF CalmCall, Role
      <4> QED
        BY <4>1, <4>2
    <3> QED
      BY <2>4, <3>3, <3>4, <3>5 DEF CalmInst
  <2>5. CASE j # i
    <3>1. inst'[j].token = inst[j].token /\ inst'[j].phase = inst[j].phase
      BY <1>4, <2>5
    <3>2. \A d \in BmcCalls : call'[j][d] = call[j][d]
      BY <1>6, <2>5
    <3>3. Sess(j)' = Sess(j)
      BY <3>1 DEF Sess
    <3>4. /\ \A s \in live' : s.of = j => s \in live
          /\ Sess(j) \in live => Sess(j) \in live'
      BY <2>1, <2>5
    <3>5. HoldsOne(j)'
      <4>1. HoldsOne(j)
        BY <1>2
      <4>2. inst'[j].token <= minted'
        BY <1>4, <1>5, <2>1, <2>2, <3>1
      <4> QED
        BY <1>4, <3>1, <3>3, <3>4, <4>1, <4>2 DEF HoldsOne, Role
    <3>6. Alone(j)'
      <4>1. Alone(j) /\ \A d \in BmcCalls : call'[j][d].pc = call[j][d].pc
        BY <1>2, <3>2
      <4> QED
        BY <3>1, <4>1 DEF Alone, Role
    <3>7. \A d \in BmcCalls : CalmCall(j, call[j][d], inst[j].token, inst[j].phase)'
      BY <3>1, <3>2 DEF CalmInst, CalmCall, Role
    <3> QED
      BY <3>5, <3>6, <3>7 DEF CalmInst
  <2> QED
    BY <2>4, <2>5
<1> QED
  BY <1>3, <1>8, <1>9

(* An instance that a step leaves alone, with its sessions, stays calm.    *)
LEMMA ElsewhereCalm ==
  ASSUME NEW j \in BmcInsts, CalmInst(j), channel' = channel, minted' = minted,
         inst'[j] = inst[j], \A d \in BmcCalls : call'[j][d] = call[j][d],
         \A s \in live' : s.of = j => s \in live, \A s \in live : s.of = j => s \in live'
  PROVE  CalmInst(j)'
<1>1. Sess(j)' = Sess(j) /\ Sess(j).of = j
  BY DEF Sess
<1>2. HoldsOne(j)'
  BY <1>1 DEF CalmInst, HoldsOne, Role
<1>3. Alone(j)'
  <2>1. Alone(j) /\ \A d \in BmcCalls : call'[j][d].pc = call[j][d].pc
    BY DEF CalmInst
  <2> QED
    BY <2>1 DEF Alone, Role
<1>4. \A d \in BmcCalls : CalmCall(j, call[j][d], inst[j].token, inst[j].phase)'
  BY DEF CalmInst, CalmCall, Role
<1> QED
  BY <1>2, <1>3, <1>4 DEF CalmInst

LEMMA OpenCalm ==
  ASSUME Shape, channel.kind = "ibmc", NEW i \in BmcInsts, OpenInst(i), CalmInst(i)
  PROVE  CalmInst(i)'
<1>1. HoldsOne(i) /\ inst[i].phase = "idle" /\ inst[i].token = 0
  BY DEF CalmInst, HoldsOne, OpenInst
<1>2. /\ inst'[i].token = 0 /\ inst'[i].phase = "run"
      /\ inst'[i].key = inst[i].key /\ inst'[i].step = inst[i].step
  BY <1>1 DEF OpenInst, Shape, Instance
<1>3. UNCHANGED <<channel, call, live, minted>>
  BY DEF OpenInst
<1>4. \A c \in BmcCalls : /\ CalmCall(i, call[i][c], 0, "idle")
                          /\ Role(i) # "kvm" => call[i][c].pc = "free"
  BY <1>1 DEF CalmInst, CalmCall
<1>5. HoldsOne(i)'
  BY <1>1, <1>2, <1>3 DEF HoldsOne, Role, Sess
<1>6. Alone(i)'
  BY <1>3, <1>4 DEF Alone, Role
<1>7. \A c \in BmcCalls : CalmCall(i, call[i][c], inst[i].token, inst[i].phase)'
  BY <1>2, <1>3, <1>4 DEF CalmCall, Role, Ended
<1> QED
  BY <1>5, <1>6, <1>7 DEF CalmInst

(* The first gather is one request, so whoever has no session yet runs it. *)
LEMMA SpawnCalm ==
  ASSUME Shape, NEW i \in BmcInsts, Spawn(i), CalmInst(i), Program(i)[1][1].width = 1
  PROVE  CalmInst(i)'
<1> DEFINE open == {c \in BmcCalls : call[i][c].pc = "free"}
           w == Step(i).width
           S == CHOOSE s \in SUBSET open : Cardinality(s) = w
<1>1. /\ inst[i].phase = "run" /\ Awaited(i) = {} /\ Cardinality(open) >= w
      /\ call' = [call EXCEPT ![i] = [c \in BmcCalls |-> IF c \in S THEN NewCall ELSE @[c]]]
      /\ UNCHANGED <<channel, inst, live, minted>>
  BY DEF Spawn
<1>2. HoldsOne(i) /\ Alone(i)
  BY DEF CalmInst
<1>3. HoldsOne(i)'
  BY <1>1, <1>2 DEF HoldsOne, Role, Sess
<1>4. \A c \in BmcCalls : call'[i][c] = IF c \in S THEN NewCall ELSE call[i][c]
  <2> HIDE DEF S
  <2> QED
    BY <1>1 DEF Shape
<1>5. \A c \in BmcCalls : CalmCall(i, call[i][c], inst[i].token, inst[i].phase)'
  <2> HIDE DEF S
  <2> SUFFICES ASSUME NEW c \in BmcCalls
               PROVE  CalmCall(i, call[i][c], inst[i].token, inst[i].phase)'
    OBVIOUS
  <2>1. CalmCall(i, call[i][c], inst[i].token, inst[i].phase)
    BY DEF CalmInst
  <2>2. CASE call'[i][c] = call[i][c]
    BY <1>1, <2>1, <2>2 DEF CalmCall, Role
  <2>3. CASE call'[i][c] = NewCall
    <3>1. NewCall.pc = "begin" /\ NewCall.awaited /\ ~NewCall.again
      BY DEF NewCall, NoCall
    <3> QED
      BY <1>1, <2>3, <3>1 DEF CalmCall, Role, Ended
  <2> QED
    BY <1>4, <2>2, <2>3
<1>6. Alone(i)'
  <2> SUFFICES ASSUME Role(i) # "kvm", inst[i].token = 0 PROVE Alone(i)'
    BY <1>1 DEF Alone, Role
  <2>1. inst[i].key = 1 /\ inst[i].step = 1
    BY <1>1, <1>2 DEF HoldsOne
  <2>2. w = 1
    BY <2>1 DEF Step
  <2>3. open # {}
    <3> HIDE DEF open, S, w
    <3> QED
      BY <1>1, <2>2, FS_EmptySet
  <2>4. \E s \in SUBSET open : Cardinality(s) = w
    <3>1. PICK c \in open : TRUE
      BY <2>3
    <3>2. {c} \in SUBSET open /\ Cardinality({c}) = 1
      BY FS_Singleton
    <3> QED
      BY <2>2, <3>2
  <2>5. S \in SUBSET open /\ Cardinality(S) = 1
    BY <2>2, <2>4
  <2>6. PICK x : S = {x}
    <3>1. IsFiniteSet(S)
      BY <2>5, BmcFinite, FS_Subset
    <3> HIDE DEF S
    <3> QED
      BY <2>5, <3>1, FS_Singleton
  <2> HIDE DEF S
  <2>7. \A c \in BmcCalls : call[i][c].pc = "free"
    BY <1>1 DEF CalmInst, CalmCall, Awaited
  <2>8. \A c \in BmcCalls : call'[i][c].pc # "free" => c = x
    BY <1>4, <2>6, <2>7
  <2> QED
    BY <2>8 DEF Alone
<1> QED
  BY <1>3, <1>5, <1>6 DEF CalmInst

(* A gather ends when its instance has a session, and all have ended.      *)
LEMMA EndCalm ==
  ASSUME Shape, NEW i \in BmcInsts, EndStep(i), CalmInst(i), inst[i].token \in Nat
  PROVE  CalmInst(i)'
<1> DEFINE over == {c \in Awaited(i) : call[i][c].pc \in Ended}
           bad == {c \in over : Raised(i, c)}
           e == ~Step(i).lenient /\ bad # {}
<1>1. /\ Awaited(i) # {} /\ (over = Awaited(i) \/ bad # {})
      /\ call' = [call EXCEPT ![i] = [c \in BmcCalls |->
                   IF c \in over THEN NoCall ELSE [@[c] EXCEPT !.awaited = FALSE]]]
      /\ Place(i, Onwards(i, e)) /\ UNCHANGED <<channel, live, minted>>
      /\ inst[i].phase = "run"
  BY DEF EndStep
<1>2. HoldsOne(i) /\ \A c \in BmcCalls : CalmCall(i, call[i][c], inst[i].token, inst[i].phase)
  BY DEF CalmInst
<1>3. /\ inst'[i].token = inst[i].token
      /\ inst'[i].phase \in {"run", "logout", "left", "kept"}
  BY <1>1, PlaceShape
<1>4. CASE Role(i) = "kvm"
  <2>1. inst[i].token = 0
    BY <1>2, <1>4 DEF HoldsOne
  <2>2. HoldsOne(i)'
    BY <1>1, <1>2, <1>3, <1>4, <2>1 DEF HoldsOne, Role, Sess
  <2>3. \A c \in BmcCalls : call'[i][c].pc \in {"free", call[i][c].pc, "begin"}
    BY EndRegroups DEF Regroups
  <2>4. \A c \in BmcCalls : call[i][c].pc \notin {"login", "asking"}
    BY <1>2, <1>4 DEF CalmCall
  <2>5. \A c \in BmcCalls : CalmCall(i, call[i][c], inst[i].token, inst[i].phase)'
    BY <1>1, <1>4, <2>3, <2>4 DEF CalmCall, Role
  <2>6. Alone(i)'
    BY <1>1, <1>4 DEF Alone, Role
  <2> QED
    BY <2>2, <2>5, <2>6 DEF CalmInst
<1>5. CASE Role(i) # "kvm"
  <2>1. PICK c \in over : TRUE
    BY <1>1
  <2>2. inst[i].token # 0
    BY <1>2, <1>5, <2>1 DEF CalmCall, Awaited
  <2>3. bad = {}
    BY <1>2, <1>5, <2>2 DEF CalmCall, Raised, Awaited
  <2>4. over = Awaited(i)
    BY <1>1, <2>3
  <2>5. \A d \in BmcCalls : d \notin over => call[i][d].pc = "free"
    BY <1>2, <1>5, <2>4 DEF CalmCall, Awaited
  <2>6. \A d \in BmcCalls : call'[i][d].pc = "free"
    <3>1. \A d \in BmcCalls : [call[i][d] EXCEPT !.awaited = FALSE].pc = call[i][d].pc
      BY DEF Shape, Request
    <3> HIDE DEF over
    <3>2. \A d \in BmcCalls : call'[i][d] = IF d \in over THEN NoCall
                                            ELSE [call[i][d] EXCEPT !.awaited = FALSE]
      BY <1>1 DEF Shape
    <3>3. NoCall.pc = "free"
      BY DEF NoCall
    <3> QED
      BY <2>5, <3>1, <3>2, <3>3
  <2>7. inst'[i].phase \in {"run", "logout"}
    <3> HIDE DEF e
    <3> DEFINE p == Onwards(i, e)
    <3>1. p.phase \in {"run", "logout"}
      BY <1>5 DEF Onwards
    <3>2. Place(i, p) /\ inst \in [BmcInsts -> Instance]
      BY <1>1 DEF Shape
    <3> HIDE DEF p
    <3>3. inst'[i].phase = p.phase
      BY <3>2 DEF Place, Instance
    <3> QED
      BY <3>1, <3>3
  <2>8. HoldsOne(i)'
    BY <1>1, <1>2, <1>3, <2>2, <2>7 DEF HoldsOne, Role, Sess
  <2>9. \A d \in BmcCalls : CalmCall(i, call[i][d], inst[i].token, inst[i].phase)'
    BY <1>1, <1>3, <1>5, <2>2, <2>6 DEF CalmCall, Role
  <2>10. Alone(i)'
    BY <2>6 DEF Alone
  <2> QED
    BY <2>8, <2>9, <2>10 DEF CalmInst
<1> QED
  BY <1>4, <1>5

(* The logout takes the instance's session and no other.                   *)
LEMMA LogoutCalm ==
  ASSUME Shape, channel.kind = "ibmc", NEW i \in BmcInsts, Logout(i), faults \in Nat, faults' = 0,
         \A j \in BmcInsts : CalmInst(j), Distinct
  PROVE  Distinct' /\ \A j \in BmcInsts : CalmInst(j)'
<1>1. /\ live' = {s \in live : s.id # inst[i].token} /\ UNCHANGED <<channel, call, minted>>
      /\ inst[i].phase = "logout"
  BY DEF Logout, Fault
<1>2. /\ inst'[i].phase = "closed" /\ inst'[i].token = 0
      /\ \A j \in BmcInsts \ {i} : inst'[j] = inst[j]
  BY InstMoves DEF ToPhase, AfterLogout, XmlKind
<1>3. Distinct'
  BY <1>2 DEF Distinct
<1>4. CalmInst(i)'
  <2>1. HoldsOne(i)
    BY DEF CalmInst
  <2>2. \A s \in live' : s.of # i
    BY <1>1, <2>1 DEF HoldsOne, Sess
  <2>3. minted \in Nat
    BY DEF Shape
  <2>4. HoldsOne(i)'
    BY <1>1, <1>2, <2>2, <2>3 DEF HoldsOne
  <2>5. \A c \in BmcCalls : CalmCall(i, call[i][c], inst[i].token, inst[i].phase)
    BY DEF CalmInst
  <2>6. \A c \in BmcCalls : Role(i) # "kvm" => call[i][c].pc = "free"
    BY <1>1, <2>5 DEF CalmCall
  <2>7. \A c \in BmcCalls : CalmCall(i, call[i][c], inst[i].token, inst[i].phase)'
    BY <1>1, <1>2, <2>5, <2>6 DEF CalmCall, Role, Ended
  <2>8. Alone(i)'
    BY <1>1, <2>6 DEF Alone, Role
  <2> QED
    BY <2>4, <2>7, <2>8 DEF CalmInst
<1>5. ASSUME NEW j \in BmcInsts \ {i} PROVE CalmInst(j)'
  <2>1. HoldsOne(j)
    BY DEF CalmInst
  <2>2. ASSUME NEW s \in live, s.of = j PROVE s \in live'
    <3>1. inst[j].token # 0 /\ s = Sess(j)
      BY <2>1, <2>2 DEF HoldsOne
    <3>2. s.id # inst[i].token
      BY <3>1 DEF Distinct, Sess
    <3> QED
      BY <1>1, <3>2
  <2> QED
    BY <1>1, <1>2, <2>2, ElsewhereCalm
<1> QED
  BY <1>3, <1>4, <1>5

LEMMA ProgramStays ==
  ASSUME channel' = channel, NEW i \in BmcInsts
  PROVE  Program(i)' = Program(i)
BY Zenon DEF Program, Role

LEMMA CalmNext ==
  ASSUME BmcInv, BmcInv', Calm, [BmcNext]_bmcVars
  PROVE  Calm'
<1>1. Shape /\ Shape' /\ faults \in Nat
  BY DEF BmcInv, Calm
<1>2. channel' = channel /\ faults' \in Nat /\ (faults' = 0 => faults = 0)
  <2>1. faults' \in {faults, faults + 1} /\ channel' = channel
    <3>1. CASE \E i \in BmcInsts, c \in BmcCalls : CallStep(i, c)
      BY <3>1 DEF CallStep, Begin, Reuse, AskLogin, LoginGranted, LoginRefused, LoginLost,
                  Answered, AnsweredAnyway, Unauthorized, RequestFails, Fault
    <3>2. CASE \E i \in BmcInsts : OpenInst(i) \/ InstStep(i)
      BY <3>2 DEF OpenInst, InstStep, Spawn, EndStep, Logout, ReapList, ReapKill, Fault
    <3>3. CASE (\E s \in live : Expire(s)) \/ UNCHANGED bmcVars
      BY <3>3 DEF Expire, bmcVars, Fault
    <3> QED
      BY <3>1, <3>2, <3>3 DEF BmcNext
  <2> QED
    BY <1>1, <2>1
<1> SUFFICES ASSUME channel.kind = "ibmc", Undisturbed'
             PROVE  Distinct' /\ \A j \in BmcInsts : CalmInst(j)'
  BY <1>2 DEF Calm
<1>3. /\ faults' = 0 /\ faults = 0 /\ Cardinality(BmcInsts) <= BmcSlots
      /\ \A j \in BmcInsts : Program(j)[1][1].width = 1
  BY <1>2, ProgramStays DEF Undisturbed
<1>4. Distinct /\ \A j \in BmcInsts : CalmInst(j)
  BY <1>3 DEF Calm, Undisturbed
<1>5. CASE UNCHANGED bmcVars
  <2>1. Distinct'
    BY <1>4, <1>5 DEF Distinct, bmcVars
  <2>2. \A j \in BmcInsts : CalmInst(j)'
    BY <1>4, <1>5, ElsewhereCalm DEF bmcVars
  <2> QED
    BY <2>1, <2>2
<1>6. CASE \E i \in BmcInsts, c \in BmcCalls : CallStep(i, c)
  BY <1>1, <1>2, <1>3, <1>4, <1>6, CallCalm
<1>7. ASSUME NEW i \in BmcInsts, OpenInst(i) \/ Spawn(i) \/ EndStep(i)
      PROVE  Distinct' /\ \A j \in BmcInsts : CalmInst(j)'
  <2>1. /\ \A j \in BmcInsts : inst'[j].token = inst[j].token
        /\ UNCHANGED <<live, minted>>
        /\ \A j \in BmcInsts \ {i} : inst'[j] = inst[j] /\ \A d \in BmcCalls : call'[j][d] = call[j][d]
    <3>1. CASE OpenInst(i)
      BY <1>1, <3>1, InstMoves DEF ToPhase, OpenInst
    <3>2. CASE Spawn(i)
      BY <1>1, <3>2, SpawnRegroups DEF Spawn, Regroups
    <3>3. CASE EndStep(i)
      <4>1. PICK e : Place(i, Onwards(i, e))
        BY <3>3 DEF EndStep
      <4>2. \A j \in BmcInsts \ {i} : inst'[j] = inst[j]
        BY <1>1, <4>1 DEF Place, Shape
      <4> QED
        BY <1>1, <3>3, <4>1, <4>2, PlaceShape, EndRegroups DEF EndStep, Regroups
    <3> QED
      BY <1>7, <3>1, <3>2, <3>3
  <2>2. Distinct'
    BY <1>4, <2>1 DEF Distinct
  <2>3. CalmInst(i)'
    <3>1. inst[i].token \in Nat
      BY <1>1 DEF Shape, Instance
    <3> QED
      BY <1>1, <1>3, <1>4, <1>7, <3>1, OpenCalm, SpawnCalm, EndCalm
  <2>4. ASSUME NEW j \in BmcInsts \ {i} PROVE CalmInst(j)'
    BY <1>2, <1>4, <2>1, ElsewhereCalm
  <2> QED
    BY <2>2, <2>3, <2>4
<1>8. CASE \E i \in BmcInsts : Logout(i)
  BY <1>1, <1>3, <1>4, <1>8, LogoutCalm
<1>9. CASE \E i \in BmcInsts : ReapList(i) \/ ReapKill(i)
  BY <1>4, <1>9 DEF CalmInst, HoldsOne, ReapList, ReapKill
<1>10. CASE \E s \in live : Expire(s)
  BY <1>3, <1>10 DEF Expire, Fault
<1> QED
  BY <1>5, <1>6, <1>7, <1>8, <1>9, <1>10 DEF BmcNext, InstStep

-----------------------------------------------------------------------------
LEMMA CountedBounds ==
  ASSUME BmcInv, Counted
  PROVE  LosesFew
<1> SUFFICES ASSUME Locked, NEW i \in BmcInsts
             PROVE  Cardinality(Strays(i)) <= MostStrays(i)
  BY DEF LosesFew
<1>1. Shape /\ IsFiniteSet(live) /\ Account(i) <= MostStrays(i)
  BY DEF BmcInv, Counted
<1>2. /\ Cardinality(Strays(i)) \in Nat /\ Cardinality(Late(i)) \in Nat
      /\ MostStrays(i) \in Nat /\ Others \in Nat
  BY <1>1, StraysCount, LateCount, CallsCount, MostType
<1> QED
  BY <1>1, <1>2 DEF Account

LEMMA CalmBounds ==
  ASSUME Calm
  PROVE  LosesNone
<1> SUFFICES ASSUME channel.kind = "ibmc", Undisturbed, NEW i \in BmcInsts, NEW s \in Strays(i)
             PROVE  FALSE
  BY DEF LosesNone
<1>1. HoldsOne(i) /\ s \in live /\ s.of = i /\ s.id # inst[i].token
  BY DEF Calm, CalmInst, Strays, Own
<1> QED
  BY <1>1 DEF HoldsOne, Sess

(* An instance loses no more sessions than were lost under way, than its   *)
(* other requests when one dies, and than the ones still out when it logs  *)
(* out; plain Redfish loses none while nothing fails; and the reapers      *)
(* leave nothing behind.                                                   *)
THEOREM SessionsStayBounded == BmcSpec => []SessionsBounded
<1>1. BmcInit => Counted /\ Calm
  BY CountedInit, CalmInit
<1>2. BmcInv /\ BmcInv' /\ (Counted /\ Calm) /\ [BmcNext]_bmcVars => (Counted /\ Calm)'
  BY CountedNext, CalmNext
<1>3. BmcInv /\ Counted /\ Calm => LosesFew /\ LosesNone
  BY CountedBounds, CalmBounds
<1> QED
  BY <1>1, <1>2, <1>3, BmcInvariance, ReapersLeaveNothing, PTL DEF BmcSpec, SessionsBounded

-----------------------------------------------------------------------------
(* Types with their bounds: every session that anyone refers to has been   *)
(* granted, and every instance is at a step that its program has.          *)
Issued(id) == id \in 0..minted
Ids ==
  /\ \A s \in live : s.id \in 1..minted
  /\ \A i \in BmcInsts :
       /\ Issued(inst[i].token)
       /\ \A s \in inst[i].found : s.id \in 1..minted
       /\ \A c \in BmcCalls : Issued(call[i][c].cred)
At(i, p) == p.key \in DOMAIN Program(i) /\ p.step \in DOMAIN Program(i)[p.key]
Typed == /\ channel \in BmcCases /\ faults \in 0..channel.faults
         /\ Ids /\ \A i \in BmcInsts : At(i, inst[i])

LEMMA ProgramsRun ==
  ASSUME channel \in BmcCases, NEW i \in BmcInsts
  PROVE  /\ Len(Program(i)) \in Nat \ {0} /\ DOMAIN Program(i) = 1..Len(Program(i))
         /\ \A k \in DOMAIN Program(i) : /\ Len(Program(i)[k]) \in Nat \ {0}
                                        /\ DOMAIN Program(i)[k] = 1..Len(Program(i)[k])
<1> DEFINE G == [width : Int, lenient : BOOLEAN]
<1>1. CASE Role(i) = "poll"
  <2>1. Program(i) \in Seq(Seq(G) \ {<<>>}) \ {<<>>}
    BY <1>1, BmcCasesOK DEF Program
  <2> HIDE DEF G
  <2> QED
    BY <2>1
<1>2. CASE Role(i) # "poll"
  <2>1. PICK p : p = Action(channel.kind)
    OBVIOUS
  <2>2. Len(p) \in Nat \ {0} /\ DOMAIN p = 1..Len(p)
    <3>1. \A o : /\ Len(<<o>>) = 1 /\ DOMAIN <<o>> = 1..1
                 /\ Len(<<o, o>>) = 2 /\ DOMAIN <<o, o>> = 1..2
      OBVIOUS
    <3>2. PICK o : o = One
      OBVIOUS
    <3>3. p = <<o>> \/ p = <<o, o>>
      BY <2>1, <3>2 DEF Action
    <3> QED
      BY <3>1, <3>3
  <2>3. Program(i) = <<p>>
    BY <1>2, <2>1 DEF Program
  <2>4. Len(Program(i)) = 1 /\ Program(i)[1] = p /\ DOMAIN Program(i) = 1..1
    BY <2>3
  <2> QED
    BY <2>2, <2>4
<1> QED
  BY <1>1, <1>2

LEMMA IdsStep ==
  ASSUME Shape, Shape', Ids, minted <= minted',
         \A s \in live' : s \in live \/ (s.id = minted + 1 /\ minted' = minted + 1),
         \A j \in BmcInsts :
           /\ inst'[j].token \in {0, inst[j].token, minted'}
           /\ inst'[j].found \subseteq inst[j].found \union live
           /\ \A c \in BmcCalls :
                call'[j][c].cred \in {0, call[j][c].cred, inst[j].token, minted'}
  PROVE  Ids'
<1>1. minted \in Nat /\ minted' \in Nat
  BY DEF Shape
<1>2. /\ \A id : Issued(id) => Issued(id)'
      /\ Issued(0)' /\ Issued(minted)'
      /\ \A id : id \in 1..minted => id \in 1..minted'
  BY <1>1 DEF Issued
<1>3. \A s \in live' : s.id \in 1..minted'
  BY <1>1, <1>2 DEF Ids
<1>4. ASSUME NEW j \in BmcInsts PROVE Issued(inst[j].token)' /\ \A s \in inst'[j].found : s.id \in 1..minted'
  <2>1. PICK t : t = inst'[j].token
    OBVIOUS
  <2>2. Issued(t)'
    BY <1>1, <1>2, <2>1 DEF Ids, Issued
  <2>3. Issued(inst[j].token)'
    BY <2>1, <2>2 DEF Issued
  <2> QED
    BY <1>2, <2>3 DEF Ids
<1>5. ASSUME NEW j \in BmcInsts, NEW c \in BmcCalls PROVE Issued(call[j][c].cred)'
  <2>1. PICK t : t = call'[j][c].cred
    OBVIOUS
  <2>2. Issued(t)'
    BY <1>1, <1>2, <2>1 DEF Ids, Issued
  <2> QED
    BY <2>1, <2>2 DEF Issued
<1> QED
  BY <1>3, <1>4, <1>5 DEF Ids

LEMMA CallIds ==
  ASSUME Shape, Ids, NEW i \in BmcInsts, NEW c \in BmcCalls, CallStep(i, c)
  PROVE  Ids'
<1>1. /\ Shape' /\ \A j \in BmcInsts : inst'[j].found = inst[j].found
      /\ UNCHANGED <<live, minted>> \/ Granted(i)
      /\ minted \in Nat
  BY CallShape DEF Shape
<1>2. minted <= minted' /\ \A s \in live' : s \in live \/ (s.id = minted + 1 /\ minted' = minted + 1)
  BY <1>1 DEF Granted
<1>3. \A j \in BmcInsts : inst'[j].token \in {0, inst[j].token, minted'}
  <2>1. inst \in [BmcInsts -> Instance] /\ inst[i] \in Instance
    BY DEF Shape
  <2>2. CASE UNCHANGED inst
    BY <2>2
  <2>3. CASE AskLogin(i, c)
    BY <2>1, <2>3 DEF AskLogin, Instance
  <2>4. CASE LoginGranted(i, c) \/ LoginRefused(i, c) \/ LoginLost(i, c)
    <3>1. PICK t \in {inst[i].token, minted'} : inst' = [inst EXCEPT ![i].token = t, ![i].lock = 0]
      BY <2>4 DEF LoginGranted, LoginRefused, LoginLost, Unlock, Grant
    <3> QED
      BY <2>1, <3>1 DEF Instance
  <2>5. CASE Unauthorized(i, c)
    <3>1. PICK t \in {0, inst[i].token} : inst' = [inst EXCEPT ![i].token = t]
      BY <2>5 DEF Unauthorized
    <3> QED
      BY <2>1, <3>1 DEF Instance
  <2> QED
    BY <2>2, <2>3, <2>4, <2>5 DEF CallStep, Begin, Reuse, Answered, AnsweredAnyway, RequestFails
<1>4. \A j \in BmcInsts, d \in BmcCalls :
        call'[j][d].cred \in {0, call[j][d].cred, inst[j].token, minted'}
  <2>1. call \in [BmcInsts -> [BmcCalls -> Request]]
    BY DEF Shape
  <2>2. PICK old : old = call[i][c]
    OBVIOUS
  <2>3. old \in Request
    BY <2>1, <2>2
  <2>4. \E r : Becomes(i, c, r) /\ r.cred \in {old.cred, inst[i].token, minted'}
    <3>1. \A id : Sent(i, c, id).cred \in {old.cred, id}
      BY <2>2, <2>3 DEF Sent, Request
    <3>2. \A pc : [old EXCEPT !.pc = pc].cred = old.cred
      BY <2>3 DEF Request
    <3>3. \A pc : [old EXCEPT !.pc = pc, !.cred = inst[i].token].cred = inst[i].token
      BY <2>3 DEF Request
    <3>4. \A pc : [old EXCEPT !.again = TRUE, !.pc = pc].cred = old.cred
      BY <2>3 DEF Request
    <3>5. CASE Begin(i, c)
      <4>1. PICK pc : Becomes(i, c, [old EXCEPT !.pc = pc, !.cred = inst[i].token])
        BY <2>2, <3>5 DEF Begin
      <4> QED
        BY <3>3, <4>1
    <3>6. CASE Unauthorized(i, c)
      <4>1. PICK pc : Becomes(i, c, [old EXCEPT !.again = TRUE, !.pc = pc])
        BY <2>2, <3>6 DEF Unauthorized
      <4> QED
        BY <3>4, <4>1
    <3>7. CASE Reuse(i, c)
      BY <3>1, <3>7 DEF Reuse
    <3>8. CASE LoginGranted(i, c)
      BY <3>1, <3>8 DEF LoginGranted, Grant
    <3>9. CASE \/ AskLogin(i, c) \/ LoginRefused(i, c) \/ LoginLost(i, c)
               \/ Answered(i, c) \/ AnsweredAnyway(i, c) \/ RequestFails(i, c)
      <4>1. PICK pc : SetPc(i, c, pc)
        BY <3>9 DEF AskLogin, LoginRefused, LoginLost, Answered, AnsweredAnyway, RequestFails
      <4> QED
        BY <2>2, <3>2, <4>1 DEF SetPc
    <3> QED
      BY <3>5, <3>6, <3>7, <3>8, <3>9 DEF CallStep
  <2>5. PICK q : /\ call' = [call EXCEPT ![i][c] = q]
                 /\ q.cred \in {0, old.cred, inst[i].token, minted'}
    <3>1. NoCall.cred = 0
      BY DEF NoCall
    <3>2. PICK r : Becomes(i, c, r) /\ r.cred \in {old.cred, inst[i].token, minted'}
      BY <2>4
    <3> QED
      BY <3>1, <3>2 DEF Becomes
  <2> QED
    BY <2>1, <2>2, <2>5
<1> QED
  BY <1>1, <1>2, <1>3, <1>4, IdsStep

LEMMA OnwardsAt ==
  ASSUME channel \in BmcCases, NEW i \in BmcInsts, inst[i].key \in Nat, inst[i].step \in Nat,
         At(i, inst[i]), NEW e
  PROVE  At(i, Onwards(i, e))
<1>1. PICK P, k, s, p : /\ P = Program(i) /\ k = inst[i].key /\ s = inst[i].step
                        /\ p = Onwards(i, e)
  OBVIOUS
<1>2. /\ Len(P) \in Nat \ {0} /\ DOMAIN P = 1..Len(P)
      /\ \A n \in DOMAIN P : Len(P[n]) \in Nat \ {0} /\ DOMAIN P[n] = 1..Len(P[n])
  BY <1>1, ProgramsRun
<1>3. k \in DOMAIN P /\ s \in DOMAIN P[k]
  BY <1>1 DEF At
<1>4. \/ s < Len(P[k]) /\ p.key = k /\ p.step = s + 1
      \/ k < Len(P) /\ p.key = k + 1 /\ p.step = 1
      \/ p.key = 1 /\ p.step = 1
  BY <1>1 DEF Onwards
<1>5. p.key \in DOMAIN P /\ p.step \in DOMAIN P[p.key]
  <2>1. CASE s < Len(P[k]) /\ p.key = k /\ p.step = s + 1
    BY <1>2, <1>3, <2>1
  <2>2. CASE k < Len(P) /\ p.key = k + 1 /\ p.step = 1
    BY <1>2, <1>3, <2>2
  <2>3. CASE p.key = 1 /\ p.step = 1
    BY <1>2, <2>3
  <2> QED
    BY <1>4, <2>1, <2>2, <2>3
<1> QED
  BY <1>1, <1>5 DEF At

LEMMA GatherIds ==
  ASSUME Shape, Shape', Ids, NEW i \in BmcInsts, Spawn(i) \/ EndStep(i)
  PROVE  Ids'
<1>1. Regroups(i) /\ UNCHANGED <<live, minted>> /\ minted \in Nat
  BY SpawnRegroups, EndRegroups DEF Spawn, EndStep, Shape
<1>2. \A j \in BmcInsts : inst'[j].token = inst[j].token /\ inst'[j].found = inst[j].found
  <2>1. CASE Spawn(i)
    BY <2>1 DEF Spawn
  <2>2. CASE EndStep(i)
    <3>1. PICK e : Place(i, Onwards(i, e))
      BY <2>2 DEF EndStep
    <3> QED
      BY <3>1, PlaceShape
  <2> QED
    BY <2>1, <2>2
<1>3. \A j \in BmcInsts, d \in BmcCalls : call'[j][d].cred \in {0, call[j][d].cred}
  BY <1>1 DEF Regroups
<1> QED
  BY <1>1, <1>2, <1>3, IdsStep

LEMMA LossIds ==
  ASSUME Shape, Shape', IsFiniteSet(live), Ids, LossStep
  PROVE  Ids'
<1>1. /\ live' \subseteq live /\ UNCHANGED <<call, minted>> /\ minted \in Nat
      /\ \A j \in BmcInsts : inst'[j].token \in {0, inst[j].token}
  BY LossShape DEF Shape
<1>2. ASSUME NEW j \in BmcInsts
      PROVE  inst'[j].found \subseteq inst[j].found \union live
  <2>1. CASE \E s \in live : Expire(s)
    BY <2>1 DEF Expire
  <2>2. ASSUME NEW i \in BmcInsts, OpenInst(i) \/ Logout(i) \/ ReapList(i) \/ ReapKill(i)
        PROVE  inst'[j].found \subseteq inst[j].found \union live
    <3>1. \E ph, t, F : ToPhase(i, ph, t, F) /\ F \in {{}, live, inst[i].found}
      BY <2>2, InstMoves
    <3> QED
      BY <3>1 DEF ToPhase
  <2> QED
    BY <2>1, <2>2 DEF LossStep
<1> QED
  BY <1>1, <1>2, IdsStep

LEMMA AtNext ==
  ASSUME Shape, Typed, NEW j \in BmcInsts, [BmcNext]_bmcVars, channel' = channel
  PROVE  At(j, inst[j])'
<1>1. /\ inst \in [BmcInsts -> Instance] /\ inst[j].key \in Nat /\ inst[j].step \in Nat
      /\ channel \in BmcCases /\ At(j, inst[j])
  BY DEF Shape, Instance, Typed
<1>2. PICK P : P = Program(j)
  OBVIOUS
<1>3. Program(j)' = P
  BY <1>2, ProgramStays
<1>4. (inst'[j].key = inst[j].key /\ inst'[j].step = inst[j].step) => At(j, inst[j])'
  BY <1>1, <1>2, <1>3 DEF At
<1>5. CASE UNCHANGED inst
  BY <1>4, <1>5
<1>6. CASE \E i \in BmcInsts, c \in BmcCalls : CallStep(i, c)
  BY <1>4, <1>6, PlaceStays
<1>7. ASSUME NEW i \in BmcInsts, OpenInst(i) \/ Logout(i) \/ ReapList(i) \/ ReapKill(i)
      PROVE  At(j, inst[j])'
  <2>1. \/ \E ph : inst' = [inst EXCEPT ![i].phase = ph]
        \/ \E ph, F : inst' = [inst EXCEPT ![i].phase = ph, ![i].found = F]
        \/ \E ph, t : inst' = [inst EXCEPT ![i].token = t, ![i].phase = ph]
    BY <1>7 DEF OpenInst, Logout, ReapList, ReapKill
  <2>2. inst[i] \in Instance /\ inst[j] \in Instance
    BY <1>1
  <2>3. inst'[j].key = inst[j].key /\ inst'[j].step = inst[j].step
    <3>1. CASE \E ph : inst' = [inst EXCEPT ![i].phase = ph]
      BY <1>1, <2>2, <3>1 DEF Instance
    <3>2. CASE \E ph, F : inst' = [inst EXCEPT ![i].phase = ph, ![i].found = F]
      BY <1>1, <2>2, <3>2 DEF Instance
    <3>3. CASE \E ph, t : inst' = [inst EXCEPT ![i].token = t, ![i].phase = ph]
      BY <1>1, <2>2, <3>3 DEF Instance
    <3> QED
      BY <2>1, <3>1, <3>2, <3>3
  <2> QED
    BY <1>4, <2>3
<1>8. ASSUME NEW i \in BmcInsts, EndStep(i) PROVE At(j, inst[j])'
  <2>1. PICK e : Place(i, Onwards(i, e))
    BY <1>8 DEF EndStep
  <2>2. CASE j # i
    BY <1>1, <1>4, <2>1, <2>2 DEF Place
  <2>3. CASE j = i
    <3>1. PICK p : p = Onwards(i, e)
      OBVIOUS
    <3>2. p.key \in DOMAIN P /\ p.step \in DOMAIN P[p.key]
      BY <1>1, <1>2, <2>3, <3>1, OnwardsAt DEF At
    <3>3. inst'[j].key = p.key /\ inst'[j].step = p.step
      BY <1>1, <2>1, <2>3, <3>1 DEF Place, Instance
    <3> QED
      BY <1>3, <3>2, <3>3 DEF At
  <2> QED
    BY <2>2, <2>3
<1>9. CASE \E i \in BmcInsts : Spawn(i)
  BY <1>5, <1>9 DEF Spawn
<1>10. CASE (\E s \in live : Expire(s)) \/ UNCHANGED bmcVars
  BY <1>5, <1>10 DEF Expire, bmcVars
<1> QED
  BY <1>6, <1>7, <1>8, <1>9, <1>10 DEF BmcNext, InstStep

LEMMA TypedInit == BmcInit => Typed
<1> SUFFICES ASSUME BmcInit PROVE Typed
  OBVIOUS
<1>1. channel \in BmcCases /\ faults \in 0..channel.faults
  BY BmcCasesOK DEF BmcInit
<1>2. Ids
  BY DEF BmcInit, Ids, Issued, NewInst, NoCall
<1>3. ASSUME NEW i \in BmcInsts PROVE At(i, inst[i])
  <2>1. inst[i].key = 1 /\ inst[i].step = 1
    BY DEF BmcInit, NewInst
  <2>2. PICK P : P = Program(i)
    OBVIOUS
  <2>3. /\ Len(P) \in Nat \ {0} /\ DOMAIN P = 1..Len(P)
        /\ \A n \in DOMAIN P : Len(P[n]) \in Nat \ {0} /\ DOMAIN P[n] = 1..Len(P[n])
    BY <1>1, <2>2, ProgramsRun
  <2>4. 1 \in DOMAIN P /\ 1 \in DOMAIN P[1]
    BY <2>3
  <2> QED
    BY <2>1, <2>2, <2>4 DEF At
<1> QED
  BY <1>1, <1>2, <1>3 DEF Typed

LEMMA TypedNext ==
  ASSUME BmcInv, BmcInv', Typed, [BmcNext]_bmcVars
  PROVE  Typed'
<1>1. Shape /\ Shape' /\ IsFiniteSet(live) /\ Ids
  BY DEF BmcInv, Typed
<1>2. channel' = channel /\ (faults' = faults \/ Fault)
  <2>1. CASE \E i \in BmcInsts, c \in BmcCalls : CallStep(i, c)
    BY <2>1 DEF CallStep, Begin, Reuse, AskLogin, LoginGranted, LoginRefused, LoginLost,
                Answered, AnsweredAnyway, Unauthorized, RequestFails
  <2>2. CASE \E i \in BmcInsts : OpenInst(i) \/ InstStep(i)
    BY <2>2 DEF OpenInst, InstStep, Spawn, EndStep, Logout, ReapList, ReapKill
  <2>3. CASE (\E s \in live : Expire(s)) \/ UNCHANGED bmcVars
    BY <2>3 DEF Expire, bmcVars
  <2> QED
    BY <2>1, <2>2, <2>3 DEF BmcNext
<1>3. channel' \in BmcCases /\ faults' \in 0..channel'.faults
  <2>1. channel \in BmcCases /\ faults \in 0..channel.faults /\ channel.faults \in Nat
    BY BmcCasesOK DEF Typed
  <2> QED
    BY <1>2, <2>1 DEF Fault
<1>4. Ids'
  <2>1. CASE UNCHANGED bmcVars
    BY <1>1, <2>1 DEF Ids, Issued, bmcVars
  <2>2. CASE LossStep
    BY <1>1, <2>2, LossIds
  <2>3. CASE \E i \in BmcInsts : Spawn(i) \/ EndStep(i)
    BY <1>1, <2>3, GatherIds
  <2>4. CASE \E i \in BmcInsts, c \in BmcCalls : CallStep(i, c)
    BY <1>1, <2>4, CallIds
  <2> QED
    BY <2>1, <2>2, <2>3, <2>4 DEF BmcNext, InstStep, LossStep
<1>5. \A j \in BmcInsts : At(j, inst[j])'
  BY <1>1, <1>2, AtNext
<1> QED
  BY <1>3, <1>4, <1>5 DEF Typed

LEMMA TypedOK ==
  ASSUME Shape, Typed
  PROVE  BmcTypeOK
<1> DEFINE S == [id : 1..minted, of : BmcInsts, late : BOOLEAN]
<1>1. /\ channel.kind \in BmcKinds /\ channel.role \in [BmcInsts -> BmcRoles]
      /\ minted \in Nat /\ faults \in 0..channel.faults
      /\ harm \in [BmcInsts -> [died : Nat, lost : Nat]]
  BY BmcCasesOK DEF Shape, Typed
<1>2. \A s \in Session : s.id \in 1..minted => s \in S
  BY DEF Session
<1>3. live \subseteq S
  BY <1>2 DEF Shape, Typed, Ids
<1>4. ASSUME NEW i \in BmcInsts
      PROVE  /\ inst[i] \in [phase : BmcPhases, key : 1..Len(Program(i)), step : Nat,
                             token : 0..minted, lock : {0} \union BmcCalls,
                             found : SUBSET S]
             /\ inst[i].step \in DOMAIN Program(i)[inst[i].key]
  <2>1. PICK P, q : P = Program(i) /\ q = inst[i]
    OBVIOUS
  <2>2. q \in Instance /\ q.token \in 0..minted /\ \A s \in q.found : s.id \in 1..minted
    BY <2>1 DEF Shape, Typed, Ids, Issued
  <2>3. q.key \in 1..Len(P) /\ q.step \in DOMAIN P[q.key]
    BY <2>1, ProgramsRun DEF Typed, At
  <2>4. q.found \subseteq S
    BY <1>2, <2>2 DEF Instance
  <2> HIDE DEF S
  <2>5. q \in [phase : BmcPhases, key : 1..Len(P), step : Nat, token : 0..minted,
               lock : {0} \union BmcCalls, found : SUBSET S]
    BY <2>2, <2>3, <2>4 DEF Instance
  <2> QED
    BY <2>1, <2>3, <2>5
<1>5. call \in [BmcInsts -> [BmcCalls ->
        [pc : BmcPcs, cred : 0..minted, again : BOOLEAN, awaited : BOOLEAN]]]
  <2> DEFINE R == [pc : BmcPcs, cred : 0..minted, again : BOOLEAN, awaited : BOOLEAN]
  <2>1. \A r \in Request : r.cred \in 0..minted => r \in R
    BY DEF Request
  <2>2. \A i \in BmcInsts, c \in BmcCalls : call[i][c] \in R
    BY <2>1 DEF Shape, Typed, Ids, Issued
  <2> HIDE DEF R
  <2>3. call \in [BmcInsts -> [BmcCalls -> R]]
    BY <2>2 DEF Shape
  <2> QED
    BY <2>3 DEF R
<1> QED
  BY <1>1, <1>3, <1>4, <1>5 DEF BmcTypeOK

(* Every session that a token, a request or a reaper's list names has been *)
(* granted, and no instance runs off the end of its program.               *)
THEOREM SessionsTyped == BmcSpec => []BmcTypeOK
<1>1. BmcInv /\ BmcInv' /\ Typed /\ [BmcNext]_bmcVars => Typed'
  BY TypedNext
<1>2. BmcInv /\ Typed => BmcTypeOK
  BY TypedOK DEF BmcInv
<1> QED
  BY <1>1, <1>2, TypedInit, BmcInvariance, PTL DEF BmcSpec
===============================================================================

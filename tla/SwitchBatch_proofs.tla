------------------------- MODULE SwitchBatch_proofs -------------------------
(***************************************************************************)
(* Proofs about SwitchBatch, for any writers, plans, VLANs and ports: what *)
(* a request is told about its commands and about the save is true, and a  *)
(* batch that asks for something possible is done.                         *)
(*                                                                         *)
(* No property is inductive.  A refusal can be on its way: read with the   *)
(* next command's output, so that until then only `late` knows of it       *)
(* (Noted).  A configuration that a reboot would lose is owed by some      *)
(* request that still runs or was not told "saved" (Owed).  And while a    *)
(* batch runs alone, the configuration is what its first k commands make   *)
(* of the one it began with (After), so that the next is accepted.         *)
(***************************************************************************)
EXTENDS SwitchBatch, FiniteSetTheorems, SequenceTheorems, TLAPS

(* The shape of a request and of its answer.                               *)
Requests(T) == [phase : {"idle", "open", "run", "done"}, todo : T,
                errors : BOOLEAN, late : BOOLEAN, stale : BOOLEAN]
Shape(w) ==
  /\ writer[w] \in Requests({writer[w].todo})
  /\ report[w] \in [ok : BOOLEAN, saved : BOOLEAN, warned : BOOLEAN]
  /\ refused[w] \in BOOLEAN

Shapes ==
  /\ DOMAIN writer = SwWriters /\ writer = [w \in SwWriters |-> writer[w]]
  /\ DOMAIN report = SwWriters /\ report = [w \in SwWriters |-> report[w]]
  /\ DOMAIN refused = SwWriters /\ refused = [w \in SwWriters |-> refused[w]]
  /\ \A w \in SwWriters : Shape(w)

(* A refusal shows in the errors, or will with the next output.            *)
Noted(w) ==
  /\ writer[w].phase \in {"idle", "open"} => ~refused[w]
  /\ writer[w].phase = "run" /\ refused[w] => writer[w].errors \/ writer[w].late
  /\ writer[w].phase = "done" /\ report[w].ok /\ ~report[w].warned => ~refused[w]
  /\ Hpe => ~writer[w].late

AllNoted == \A w \in SwWriters : Noted(w)

(* Who has an unsaved configuration on the account.                        *)
Owes(w) == \/ writer[w].phase = "run"
           \/ writer[w].phase = "done" /\ (~report[w].saved \/ writer[w].late)

Owed == running # startup => ~Hpe /\ \E w \in SwWriters : Owes(w)

SwInv == Shapes /\ AllNoted /\ Owed

-----------------------------------------------------------------------------
(* A step of one request leaves the others as they were.                   *)
LEMMA OthersSame ==
  ASSUME NEW w \in SwWriters, SwInv, plan' = plan,
         NEW r, writer' = [writer EXCEPT ![w] = r],
         NEW a, report' = [report EXCEPT ![w] = a],
         NEW n, refused' = [refused EXCEPT ![w] = n],
         Shape(w)', Noted(w)',
         running' # startup' =>
           ~Hpe /\ (Owes(w)' \/ (running # startup /\ ~Owes(w)))
  PROVE  SwInv'
<1>1. /\ DOMAIN writer' = SwWriters /\ writer' = [u \in SwWriters |-> writer'[u]]
      /\ DOMAIN report' = SwWriters /\ report' = [u \in SwWriters |-> report'[u]]
      /\ DOMAIN refused' = SwWriters /\ refused' = [u \in SwWriters |-> refused'[u]]
  BY DEF SwInv, Shapes
<1>2. ASSUME NEW u \in SwWriters, u # w
      PROVE  writer'[u] = writer[u] /\ report'[u] = report[u] /\ refused'[u] = refused[u]
  BY <1>2 DEF SwInv, Shapes
<1>3. ASSUME NEW u \in SwWriters, u # w
      PROVE  Shape(u)' /\ Noted(u)' /\ (Owes(u)' <=> Owes(u))
  BY <1>2, <1>3 DEF SwInv, Shapes, AllNoted, Shape, Noted, Owes, Hpe
<1>4. Shapes'
  BY <1>1, <1>3 DEF Shapes
<1>5. AllNoted'
  BY <1>3 DEF AllNoted
<1>6. Owed'
  <2> SUFFICES ASSUME running' # startup', ~Owes(w)'
               PROVE  \E u \in SwWriters : Owes(u)'
    BY DEF Owed, Hpe
  <2>1. PICK u \in SwWriters : Owes(u)
    BY DEF SwInv, Owed
  <2>2. u # w
    BY <2>1
  <2> QED
    BY <2>1, <2>2, <1>3
<1> QED
  BY <1>4, <1>5, <1>6 DEF SwInv

(* A request that is answered without a command.                           *)
LEMMA DeniedKeeps ==
  ASSUME NEW w \in SwWriters, SwInv, Answers(w, Denied),
         UNCHANGED <<plan, running, startup, refused>>
  PROVE  SwInv'
<1> DEFINE r == [writer[w] EXCEPT !.phase = "done"]
<1>1. /\ writer' = [writer EXCEPT ![w] = r]
      /\ report' = [report EXCEPT ![w] = Denied]
  BY DEF Answers, Goes
<1>2. refused' = [refused EXCEPT ![w] = refused[w]]
  BY DEF SwInv, Shapes
<1>3. /\ writer'[w] = r /\ report'[w] = Denied /\ refused'[w] = refused[w]
  BY <1>1 DEF SwInv, Shapes
<1>4. /\ r.phase = "done" /\ r.todo = writer[w].todo
      /\ r.errors = writer[w].errors /\ r.late = writer[w].late
      /\ r.stale = writer[w].stale
      /\ r \in Requests({r.todo})
  BY DEF SwInv, Shapes, Shape, Requests
<1>5. Shape(w)' /\ Noted(w)' /\ Owes(w)'
  BY <1>3, <1>4 DEF SwInv, Shapes, AllNoted, Shape, Noted, Owes, Denied, NoReport, Hpe
<1>6. running' # startup' => ~Hpe
  BY DEF SwInv, Owed
<1> HIDE DEF r
<1> QED
  BY <1>1, <1>2, <1>5, <1>6, OthersSame

-----------------------------------------------------------------------------
LEMMA SubmitKeeps == ASSUME NEW w \in SwWriters, SwInv, Submit(w) PROVE SwInv'
<1>1. CASE Answers(w, Denied)
  BY <1>1, DeniedKeeps DEF Submit
<1>2. CASE ~Answers(w, Denied)
  <2> DEFINE r == [writer[w] EXCEPT !.phase = "open", !.todo = Commands(plan.maker, Items(w))]
  <2>1. /\ writer' = [writer EXCEPT ![w] = r]
        /\ UNCHANGED <<plan, running, startup, report, refused>>
        /\ writer[w].phase = "idle"
    BY <1>2 DEF Submit
  <2>2. /\ report' = [report EXCEPT ![w] = report[w]]
        /\ refused' = [refused EXCEPT ![w] = refused[w]]
    BY <2>1 DEF SwInv, Shapes
  <2>3. writer'[w] = r
    BY <2>1 DEF SwInv, Shapes
  <2>4. /\ r.phase = "open" /\ r.errors = writer[w].errors /\ r.late = writer[w].late
        /\ r \in Requests({r.todo})
    BY DEF SwInv, Shapes, Shape, Requests
  <2>5. Shape(w)' /\ Noted(w)' /\ ~Owes(w)
    BY <2>1, <2>3, <2>4 DEF SwInv, Shapes, AllNoted, Shape, Noted, Owes, Hpe
  <2>6. running' # startup' => ~Hpe /\ running # startup
    BY <2>1 DEF SwInv, Owed
  <2> HIDE DEF r
  <2> QED
    BY <2>1, <2>2, <2>5, <2>6, OthersSame
<1> QED
  BY <1>1, <1>2

LEMMA OpenKeeps == ASSUME NEW w \in SwWriters, SwInv, OpenSession(w) PROVE SwInv'
<1>1. CASE Answers(w, Denied)
  BY <1>1, DeniedKeeps DEF OpenSession
<1>2. CASE ~Answers(w, Denied)
  <2> DEFINE r == [writer[w] EXCEPT !.phase = "run"]
  <2>1. /\ writer' = [writer EXCEPT ![w] = r]
        /\ UNCHANGED <<plan, running, startup, report, refused>>
        /\ writer[w].phase = "open"
    BY <1>2 DEF OpenSession, Goes
  <2>2. /\ report' = [report EXCEPT ![w] = report[w]]
        /\ refused' = [refused EXCEPT ![w] = refused[w]]
    BY <2>1 DEF SwInv, Shapes
  <2>3. writer'[w] = r
    BY <2>1 DEF SwInv, Shapes
  <2>4. /\ r.phase = "run" /\ r.errors = writer[w].errors /\ r.late = writer[w].late
        /\ r \in Requests({r.todo})
    BY DEF SwInv, Shapes, Shape, Requests
  <2>5. Shape(w)' /\ Noted(w)' /\ Owes(w)'
    BY <2>1, <2>3, <2>4 DEF SwInv, Shapes, AllNoted, Shape, Noted, Owes, Hpe
  <2>6. running' # startup' => ~Hpe
    BY <2>1 DEF SwInv, Owed
  <2> HIDE DEF r
  <2> QED
    BY <2>1, <2>2, <2>5, <2>6, OthersSame
<1> QED
  BY <1>1, <1>2

(* The verdict of the switch on the next command.                          *)
Yes(w) == Accepts(running, Head(writer[w].todo)) /\ ~writer[w].stale

LEMMA CommandKeeps == ASSUME NEW w \in SwWriters, SwInv, Command(w) PROVE SwInv'
<1> DEFINE skip == ~Yes(w) /\ Head(writer[w].todo).op = "add"
           todo == IF skip THEN Tail(Tail(writer[w].todo)) ELSE Tail(writer[w].todo)
<1>1. PICK late \in BOOLEAN :
        /\ late => Dlink /\ ~Yes(w)
        /\ writer' = [writer EXCEPT ![w].todo = todo, ![w].late = late,
                        ![w].errors = @ \/ Blames(w, Yes(w), late)]
  BY DEF Command, Yes
<1>2. /\ writer[w].phase = "run" /\ UNCHANGED <<plan, report>>
      /\ startup' = IF Hpe THEN running' ELSE startup
      /\ refused' = [refused EXCEPT ![w] = @ \/ ~Yes(w)]
  BY DEF Command, Yes
<1> DEFINE err == writer[w].errors \/ Blames(w, Yes(w), late)
           r == [writer[w] EXCEPT !.todo = todo, !.late = late, !.errors = err]
<1>3. writer' = [writer EXCEPT ![w] = r]
  BY <1>1 DEF SwInv, Shapes, Shape, Requests
<1>4. /\ writer'[w] = r /\ report' = [report EXCEPT ![w] = report[w]]
      /\ report'[w] = report[w]
      /\ refused'[w] = (refused[w] \/ ~Yes(w))
  BY <1>2, <1>3 DEF SwInv, Shapes
<1>5. /\ r.phase = "run" /\ r.late = late /\ r.errors = err
      /\ r \in Requests({r.todo})
  BY <1>2 DEF SwInv, Shapes, Shape, Requests
<1>6. /\ err \in BOOLEAN
      /\ Hpe => ~late
      /\ refused[w] \/ ~Yes(w) => err \/ late
  BY <1>1, <1>2 DEF SwInv, AllNoted, Noted, Blames, Hpe, Dlink
<1>7. (refused[w] \/ ~Yes(w)) \in BOOLEAN
  OBVIOUS
<1> HIDE DEF err, r
<1>8. Shape(w)'
  BY <1>4, <1>5, <1>6 DEF SwInv, Shapes, Shape
<1>9. Noted(w)' /\ Owes(w)'
  BY <1>2, <1>4, <1>5, <1>6 DEF Noted, Owes, Hpe
<1>10. running' # startup' => ~Hpe
  BY <1>2 DEF Hpe
<1>11. PICK n : refused' = [refused EXCEPT ![w] = n]
  BY <1>2
<1> QED
  BY <1>2, <1>3, <1>4, <1>8, <1>9, <1>10, <1>11, OthersSame

LEMMA FinishKeeps == ASSUME NEW w \in SwWriters, SwInv, Finish(w) PROVE SwInv'
<1> DEFINE a == [ok |-> ~writer[w].errors, saved |-> TRUE, warned |-> FALSE]
           r == [writer[w] EXCEPT !.phase = "done"]
<1>1. /\ writer' = [writer EXCEPT ![w] = r] /\ report' = [report EXCEPT ![w] = a]
      /\ UNCHANGED <<plan, running, startup, refused>>
      /\ Hpe /\ writer[w].phase = "run"
  BY DEF Finish, Answers, Goes
<1>2. /\ writer'[w] = r /\ report'[w] = a /\ refused'[w] = refused[w]
      /\ refused' = [refused EXCEPT ![w] = refused[w]]
  BY <1>1 DEF SwInv, Shapes
<1>3. /\ r.phase = "done" /\ r.errors = writer[w].errors /\ r.late = writer[w].late
      /\ r \in Requests({r.todo})
  BY DEF SwInv, Shapes, Shape, Requests
<1>4. writer[w].errors \in BOOLEAN /\ (refused[w] => writer[w].errors) /\ ~writer[w].late
  BY <1>1 DEF SwInv, Shapes, Shape, Requests, AllNoted, Noted
<1>5. a \in [ok : BOOLEAN, saved : BOOLEAN, warned : BOOLEAN] /\ (a.ok => ~writer[w].errors)
  BY <1>4
<1> HIDE DEF a, r
<1>6. Shape(w)' /\ Noted(w)'
  BY <1>1, <1>2, <1>3, <1>4, <1>5 DEF SwInv, Shapes, Shape, Noted, Hpe
<1>7. running' = startup'
  BY <1>1 DEF SwInv, Owed
<1> QED
  BY <1>1, <1>2, <1>6, <1>7, OthersSame

LEMMA SaveKeeps == ASSUME NEW w \in SwWriters, SwInv, Save(w) PROVE SwInv'
<1>1. PICK fails \in BOOLEAN, late \in BOOLEAN :
        /\ late => fails
        /\ startup' = IF fails THEN startup ELSE running
        /\ LET shown == SaveError(w, fails, late)
               bad == writer[w].errors \/ (shown /\ ~Single(w))
           IN /\ report' = [report EXCEPT ![w] =
                    [ok |-> ~bad, saved |-> ~shown, warned |-> shown /\ ~bad]]
              /\ writer' = [writer EXCEPT ![w].phase = "done", ![w].late = late]
  BY DEF Save
<1>2. /\ Dlink /\ writer[w].phase = "run" /\ UNCHANGED <<plan, running, refused>>
  BY DEF Save
<1> DEFINE shown == writer[w].late \/ (fails /\ ~late)
           bad == writer[w].errors \/ (shown /\ ~Single(w))
           a == [ok |-> ~bad, saved |-> ~shown, warned |-> shown /\ ~bad]
           r == [writer[w] EXCEPT !.phase = "done", !.late = late]
<1>3. writer' = [writer EXCEPT ![w] = r] /\ report' = [report EXCEPT ![w] = a]
  BY <1>1 DEF SwInv, Shapes, Shape, Requests, SaveError
<1>4. /\ writer'[w] = r /\ report'[w] = a /\ refused'[w] = refused[w]
      /\ refused' = [refused EXCEPT ![w] = refused[w]]
  BY <1>2, <1>3 DEF SwInv, Shapes
<1>5. /\ r.phase = "done" /\ r.errors = writer[w].errors /\ r.late = late
      /\ r \in Requests({r.todo})
  BY DEF SwInv, Shapes, Shape, Requests
<1>6. /\ writer[w].errors \in BOOLEAN /\ writer[w].late \in BOOLEAN
      /\ refused[w] => writer[w].errors \/ writer[w].late
  BY <1>2 DEF SwInv, Shapes, Shape, Requests, AllNoted, Noted
<1>7. /\ shown \in BOOLEAN /\ bad \in BOOLEAN
      /\ a \in [ok : BOOLEAN, saved : BOOLEAN, warned : BOOLEAN]
      /\ a.ok = ~bad /\ a.saved = ~shown /\ a.warned = (shown /\ ~bad)
  OBVIOUS
<1>8. a.ok /\ ~a.warned => ~refused[w]
  BY <1>6, <1>7
<1>9. ~Hpe
  BY <1>2 DEF Dlink, Hpe
<1>10. fails /\ ~late => ~a.saved
  BY <1>7
<1> HIDE DEF shown, bad, a, r
<1>11. Shape(w)' /\ Noted(w)'
  BY <1>2, <1>4, <1>5, <1>6, <1>7, <1>8, <1>9 DEF SwInv, Shapes, Shape, Noted, Hpe
<1>12. running' # startup' => ~Hpe /\ Owes(w)'
  BY <1>1, <1>2, <1>4, <1>5, <1>9, <1>10 DEF Owes
<1> QED
  BY <1>2, <1>3, <1>4, <1>11, <1>12, OthersSame

LEMMA ExpiresKeeps == ASSUME NEW w \in SwWriters, SwInv, WebExpires(w) PROVE SwInv'
<1> DEFINE r == [writer[w] EXCEPT !.stale = TRUE]
<1>1. /\ writer' = [writer EXCEPT ![w] = r]
      /\ UNCHANGED <<plan, running, startup, report, refused>>
  BY DEF WebExpires
<1>2. /\ writer'[w] = r /\ report' = [report EXCEPT ![w] = report[w]]
      /\ refused' = [refused EXCEPT ![w] = refused[w]]
  BY <1>1 DEF SwInv, Shapes
<1>3. /\ r.phase = writer[w].phase /\ r.errors = writer[w].errors
      /\ r.late = writer[w].late
      /\ r \in Requests({r.todo})
  BY DEF SwInv, Shapes, Shape, Requests
<1> HIDE DEF r
<1>4. Shape(w)' /\ Noted(w)' /\ (Owes(w)' <=> Owes(w))
  BY <1>1, <1>2, <1>3 DEF SwInv, Shapes, AllNoted, Shape, Noted, Owes, Hpe
<1>5. running' # startup' => ~Hpe /\ running # startup
  BY <1>1 DEF SwInv, Owed
<1> QED
  BY <1>1, <1>2, <1>4, <1>5, OthersSame

LEMMA RebootKeeps == ASSUME SwInv, Reboot PROVE SwInv'
<1>1. /\ running' = startup' /\ UNCHANGED <<plan, refused>>
      /\ writer' = [w \in SwWriters |->
           IF writer[w].phase = "run" THEN [writer[w] EXCEPT !.phase = "done"]
           ELSE writer[w]]
      /\ report' = [w \in SwWriters |->
           IF writer[w].phase = "run" THEN Denied ELSE report[w]]
  BY DEF Reboot
<1>2. ASSUME NEW w \in SwWriters, writer[w].phase # "run" PROVE Shape(w)' /\ Noted(w)'
  <2>1. writer'[w] = writer[w] /\ report'[w] = report[w] /\ refused'[w] = refused[w]
    BY <1>1, <1>2
  <2> QED
    BY <1>1, <2>1 DEF SwInv, Shapes, AllNoted, Shape, Noted, Hpe
<1>3. ASSUME NEW w \in SwWriters, writer[w].phase = "run" PROVE Shape(w)' /\ Noted(w)'
  <2> DEFINE r == [writer[w] EXCEPT !.phase = "done"]
  <2>1. writer'[w] = r /\ report'[w] = Denied /\ refused'[w] = refused[w]
    BY <1>1, <1>3
  <2>2. /\ r.phase = "done" /\ r.errors = writer[w].errors /\ r.late = writer[w].late
        /\ r \in Requests({r.todo})
    BY DEF SwInv, Shapes, Shape, Requests
  <2> HIDE DEF r
  <2> QED
    BY <1>1, <2>1, <2>2 DEF SwInv, Shapes, AllNoted, Shape, Noted, Denied, NoReport, Hpe
<1>4. Shapes'
  BY <1>1, <1>2, <1>3 DEF SwInv, Shapes
<1>5. AllNoted'
  BY <1>2, <1>3 DEF AllNoted
<1>6. Owed'
  BY <1>1 DEF Owed
<1> QED
  BY <1>4, <1>5, <1>6 DEF SwInv

-----------------------------------------------------------------------------
LEMMA SwInvAlways == SwSpec => []SwInv
<1>1. SwInit => SwInv
  <2> SUFFICES ASSUME SwInit PROVE SwInv
    OBVIOUS
  <2>1. ASSUME NEW w \in SwWriters PROVE Shape(w) /\ Noted(w)
    BY <2>1 DEF SwInit, Shape, Requests, Noted, NewWriter, NoReport
  <2>2. Shapes
    BY <2>1 DEF SwInit, Shapes
  <2> QED
    BY <2>1, <2>2 DEF SwInit, SwInv, AllNoted, Owed
<1>2. SwInv /\ [SwNext]_swVars => SwInv'
  <2> SUFFICES ASSUME SwInv, [SwNext]_swVars PROVE SwInv'
    OBVIOUS
  <2>1. CASE UNCHANGED swVars
    BY <2>1 DEF swVars, SwInv, Shapes, AllNoted, Owed, Shape, Noted, Owes, Hpe
  <2>2. ASSUME NEW w \in SwWriters, Break(w) PROVE SwInv'
    BY <2>2, DeniedKeeps DEF Break
  <2> QED
    BY <2>1, <2>2, SubmitKeeps, OpenKeeps, CommandKeeps, FinishKeeps, SaveKeeps,
       ExpiresKeeps, RebootKeeps DEF SwNext, WriterStep
<1> QED
  BY <1>1, <1>2, PTL DEF SwSpec

(* Whatever is answered late, breaks or runs side by side: an ok without a *)
(* warning means that the switch refused no command of the request.        *)
THEOREM OkIsTrue == SwSpec => []OkMeansAllApplied
<1>1. SwInv => OkMeansAllApplied
  BY DEF SwInv, AllNoted, Noted, OkMeansAllApplied, Finished
<1> QED
  BY SwInvAlways, <1>1, PTL

(* When every request has ended and was told "saved", with nothing late,   *)
(* the switch would come back from a reboot as it is.                      *)
THEOREM SavedIsTrue == SwSpec => []SavedSurvivesReboot
<1>1. SwInv => SavedSurvivesReboot
  BY DEF SwInv, Owed, Owes, SavedSurvivesReboot, Finished
<1> QED
  BY SwInvAlways, <1>1, PTL

-----------------------------------------------------------------------------
(* The order of a batch.  The k-th command is the slot with k - 1 sooner   *)
(* ones; there is one for each k, and no slot is left out, because no two  *)
(* have the same rank.                                                     *)
Makers == {"dlink", "hpe"}

LEMMA TurnOf ==
  ASSUME NEW x \in SwEdits
  PROVE  /\ Turn(x) \in 1..6
         /\ Turn(x) = 1 <=> x.op = "create"
         /\ Turn(x) = 2 <=> x.op = "rename"
         /\ Turn(x) \in 3..5 <=> x.op = "change"
         /\ Turn(x) = 6 <=> x.op = "delete"
         /\ x.op = "change" => /\ Turn(x) = 3 <=> x.mode = "none"
                               /\ Turn(x) = 4 <=> x.mode = "tagged"
                               /\ Turn(x) = 5 <=> x.mode = "untagged"
  BY DEF SwEdits, Turn, Modes

LEMMA FormsOf ==
  ASSUME NEW m \in Makers, NEW x \in SwEdits
  PROVE  /\ m = "hpe" /\ x.op = "create" => Forms(m, x) = <<"add", "label">>
         /\ ~(m = "hpe" /\ x.op = "create") => Forms(m, x) = <<x.op>>
  BY DEF Forms

LEMMA LenForms ==
  ASSUME NEW m \in Makers, NEW x \in SwEdits, NEW j \in {1, 2}
  PROVE  j <= Len(Forms(m, x)) <=> (j = 2 => m = "hpe" /\ x.op = "create")
<1> PICK L : L = Len(Forms(m, x))
  OBVIOUS
<1>1. m = "hpe" /\ x.op = "create" => L = 2
  BY FormsOf
<1>2. ~(m = "hpe" /\ x.op = "create") => L = 1
  <2>1. ~(m = "hpe" /\ x.op = "create") => Forms(m, x) = <<x.op>>
    BY FormsOf
  <2>2. \A o : Len(<<o>>) = 1
    OBVIOUS
  <2> QED
    BY <2>1, <2>2
<1>3. CASE m = "hpe" /\ x.op = "create"
  <2>1. L = 2 /\ j <= 2
    BY <1>1, <1>3
  <2> QED
    BY <1>3, <2>1
<1>4. CASE ~(m = "hpe" /\ x.op = "create")
  <2>1. L = 1 /\ (j <= 1 <=> j # 2)
    BY <1>2, <1>4
  <2>2. j <= L <=> j # 2
    BY <2>1
  <2> QED
    BY <1>4, <2>2
<1> QED
  BY <1>3, <1>4

LEMMA SlotIs ==
  ASSUME NEW m \in Makers, NEW its \in Seq(SwEdits), NEW s
  PROVE  s \in Slots(m, its) <=>
           \E n \in 1..Len(its), j \in {1, 2} :
             s = <<n, j>> /\ (j = 2 => m = "hpe" /\ its[n].op = "create")
<1>1. DOMAIN its = 1..Len(its) /\ \A n \in DOMAIN its : its[n] \in SwEdits
  OBVIOUS
<1>2. ASSUME NEW n \in DOMAIN its, NEW j \in {1, 2}
      PROVE  j <= Len(Forms(m, its[n])) <=> (j = 2 => m = "hpe" /\ its[n].op = "create")
  BY <1>1, LenForms
<1>3. s \in Slots(m, its) <=>
        \E n \in DOMAIN its, j \in {1, 2} : s = <<n, j>> /\ j <= Len(Forms(m, its[n]))
  BY DEF Slots
<1> QED
  BY <1>1, <1>2, <1>3

LEMMA SlotsFinite ==
  ASSUME NEW m \in Makers, NEW its \in Seq(SwEdits)
  PROVE  /\ IsFiniteSet(Slots(m, its)) /\ Cardinality(Slots(m, its)) \in Nat
         /\ \A s \in Slots(m, its) : /\ s[1] \in 1..Len(its) /\ s[2] \in {1, 2}
                                     /\ s = <<s[1], s[2]>>
                                     /\ its[s[1]] \in SwEdits
<1>1. Len(its) \in Nat /\ DOMAIN its = 1..Len(its)
  OBVIOUS
<1>2. IsFiniteSet(1..Len(its))
  BY <1>1, FS_Interval
<1>3. IsFiniteSet({1, 2})
  <2>1. {1, 2} = {1} \union {2}
    OBVIOUS
  <2>2. IsFiniteSet({1})
    BY FS_Singleton, Zenon
  <2>3. IsFiniteSet({1} \union {2})
    BY <2>2, FS_AddElement, Zenon
  <2> QED
    BY <2>1, <2>3
<1>4. IsFiniteSet((DOMAIN its) \X {1, 2})
  BY <1>1, <1>2, <1>3, FS_Product
<1>5. Slots(m, its) \subseteq (DOMAIN its) \X {1, 2}
  BY DEF Slots
<1>6. IsFiniteSet(Slots(m, its))
  BY <1>4, <1>5, FS_Subset
<1>7. Cardinality(Slots(m, its)) \in Nat
  BY <1>6, FS_CardinalityType
<1>8. ASSUME NEW s \in Slots(m, its)
      PROVE  s[1] \in 1..Len(its) /\ s[2] \in {1, 2} /\ s = <<s[1], s[2]>>
  BY <1>1, <1>5, <1>8
<1> QED
  BY <1>1, <1>6, <1>7, <1>8

(* Of two slots one is the sooner, and only one.                           *)
LEMMA SoonerOrders ==
  ASSUME NEW m \in Makers, NEW its \in Seq(SwEdits)
  PROVE  /\ \A s, t \in Slots(m, its) : s # t => Sooner(its, s, t) \/ Sooner(its, t, s)
         /\ \A s, t \in Slots(m, its) : ~(Sooner(its, s, t) /\ Sooner(its, t, s))
         /\ \A s, t, u \in Slots(m, its) :
              Sooner(its, s, t) /\ Sooner(its, t, u) => Sooner(its, s, u)
<1> DEFINE K(s) == Turn(its[s[1]])
<1>1. \A s \in Slots(m, its) : /\ K(s) \in Int /\ s[1] \in Int /\ s[2] \in Int
                               /\ s = <<s[1], s[2]>>
  BY SlotsFinite, TurnOf
<1>2. \A s, t : Sooner(its, s, t) <=>
        \/ K(s) < K(t)
        \/ K(s) = K(t) /\ (s[1] < t[1] \/ (s[1] = t[1] /\ s[2] < t[2]))
  BY DEF Sooner
<1> HIDE DEF K
<1>3. ASSUME NEW s \in Slots(m, its), NEW t \in Slots(m, its), s # t
      PROVE  Sooner(its, s, t) \/ Sooner(its, t, s)
  <2>1. s[1] # t[1] \/ s[2] # t[2]
    BY <1>1, <1>3
  <2> QED
    BY <1>1, <1>2, <2>1
<1>4. ASSUME NEW s \in Slots(m, its), NEW t \in Slots(m, its)
      PROVE  ~(Sooner(its, s, t) /\ Sooner(its, t, s))
  BY <1>1, <1>2
<1>5. ASSUME NEW s \in Slots(m, its), NEW t \in Slots(m, its), NEW u \in Slots(m, its),
             Sooner(its, s, t), Sooner(its, t, u)
      PROVE  Sooner(its, s, u)
  BY <1>1, <1>2, <1>5
<1> QED
  BY <1>3, <1>4, <1>5

Ahead(m, its, s) == {t \in Slots(m, its) : Sooner(its, t, s)}

LEMMA RanksFit ==
  ASSUME NEW m \in Makers, NEW its \in Seq(SwEdits)
  PROVE  /\ \A s, t \in Slots(m, its) : Sooner(its, s, t) =>
              Cardinality(Ahead(m, its, s)) < Cardinality(Ahead(m, its, t))
         /\ \A s \in Slots(m, its) :
              Cardinality(Ahead(m, its, s)) \in 0..(Cardinality(Slots(m, its)) - 1)
         /\ \A k \in 1..Cardinality(Slots(m, its)) :
              \E s \in Slots(m, its) : Cardinality(Ahead(m, its, s)) = k - 1
<1> DEFINE S == Slots(m, its)
           N == Cardinality(S)
           A(s) == Ahead(m, its, s)
           rank == [s \in S |-> Cardinality(A(s)) + 1]
<1>1. IsFiniteSet(S) /\ N \in Nat
  BY SlotsFinite
<1>2. ASSUME NEW s \in S
      PROVE  /\ IsFiniteSet(A(s)) /\ Cardinality(A(s)) \in Nat /\ Cardinality(A(s)) < N
             /\ s \notin A(s)
  <2>1. A(s) \in SUBSET S /\ s \notin A(s)
    BY SoonerOrders DEF Ahead
  <2>2. /\ IsFiniteSet(A(s)) /\ Cardinality(A(s)) <= N
        /\ N = Cardinality(A(s)) => S = A(s)
    BY <1>1, <2>1, FS_Subset
  <2>3. Cardinality(A(s)) \in Nat
    BY <2>2, FS_CardinalityType
  <2> QED
    BY <1>1, <2>1, <2>2, <2>3
<1>3. ASSUME NEW s \in S, NEW t \in S, Sooner(its, s, t)
      PROVE  Cardinality(A(s)) < Cardinality(A(t))
  <2>1. A(s) \in SUBSET A(t) /\ s \in A(t)
    BY <1>3, SoonerOrders DEF Ahead
  <2>2. /\ Cardinality(A(s)) <= Cardinality(A(t))
        /\ Cardinality(A(t)) = Cardinality(A(s)) => A(t) = A(s)
    BY <1>2, <2>1, FS_Subset
  <2> HIDE DEF A, S
  <2> QED
    BY <1>2, <2>1, <2>2
<1>4. rank \in Injection(S, 1..N)
  <2>1. \A s \in S : rank[s] = Cardinality(A(s)) + 1
    OBVIOUS
  <2>2. rank \in [S -> 1..N]
    BY <1>1, <1>2
  <2>3. \A s, t \in S : rank[s] = rank[t] => s = t
    <3> HIDE DEF rank, A, N
    <3> SUFFICES ASSUME NEW s \in S, NEW t \in S, rank[s] = rank[t], s # t PROVE FALSE
      OBVIOUS
    <3>1. Sooner(its, s, t) \/ Sooner(its, t, s)
      BY SoonerOrders
    <3>2. Cardinality(A(s)) = Cardinality(A(t))
      BY <1>2, <2>1
    <3> HIDE DEF S
    <3> QED
      BY <1>2, <1>3, <3>1, <3>2
  <2> HIDE DEF rank, N, S
  <2> QED
    BY <2>2, <2>3 DEF Injection, IsInjective
<1>5. IsFiniteSet(1..N) /\ Cardinality(1..N) = N
  BY <1>1, FS_Interval
<1>6. rank \in Surjection(S, 1..N)
  BY <1>1, <1>4, <1>5, FS_Injection
<1>7. \A k \in 1..N : \E s \in S : rank[s] = k
  BY <1>6 DEF Surjection
<1>8. \A k \in 1..N : \E s \in S : Cardinality(A(s)) = k - 1
  <2> SUFFICES ASSUME NEW k \in 1..N PROVE \E s \in S : Cardinality(A(s)) = k - 1
    OBVIOUS
  <2>1. PICK s \in S : rank[s] = k
    BY <1>7
  <2>2. Cardinality(A(s)) + 1 = k
    BY <2>1
  <2> QED
    BY <1>2, <2>2
<1> QED
  BY <1>1, <1>2, <1>3, <1>8

(* The first k slots; the next one is later than these and sooner than     *)
(* all the others.                                                         *)
First(m, its, k) == {Nth(m, its, j) : j \in 1..k}

LEMMA NthIs ==
  ASSUME NEW m \in Makers, NEW its \in Seq(SwEdits)
  PROVE  /\ \A k \in 1..Cardinality(Slots(m, its)) :
              /\ Nth(m, its, k) \in Slots(m, its)
              /\ Cardinality(Ahead(m, its, Nth(m, its, k))) = k - 1
         /\ \A s \in Slots(m, its) :
              \E k \in 1..Cardinality(Slots(m, its)) : s = Nth(m, its, k)
<1> DEFINE S == Slots(m, its)
           N == Cardinality(S)
<1>1. N \in Nat
  BY SlotsFinite
<1>2. ASSUME NEW k \in 1..N
      PROVE  Nth(m, its, k) \in S /\ Cardinality(Ahead(m, its, Nth(m, its, k))) = k - 1
  <2>1. Nth(m, its, k) = CHOOSE s \in S : Cardinality(Ahead(m, its, s)) = k - 1
    BY DEF Nth, Ahead
  <2>2. \E s \in S : Cardinality(Ahead(m, its, s)) = k - 1
    BY RanksFit
  <2> QED
    BY <2>1, <2>2
<1>3. ASSUME NEW s \in S PROVE \E k \in 1..N : s = Nth(m, its, k)
  <2> PICK c : c = Cardinality(Ahead(m, its, s))
    OBVIOUS
  <2>1. c \in 0..(N - 1)
    BY RanksFit
  <2> PICK k : k = c + 1
    OBVIOUS
  <2>2. k \in 1..N /\ k - 1 = c
    BY <1>1, <2>1
  <2> PICK t : t = Nth(m, its, k)
    OBVIOUS
  <2>3. t \in S /\ Cardinality(Ahead(m, its, t)) = c
    BY <1>2, <2>2
  <2>4. s = t
    <3> SUFFICES ASSUME s # t PROVE FALSE
      OBVIOUS
    <3>1. Sooner(its, s, t) \/ Sooner(its, t, s)
      BY <2>3, SoonerOrders
    <3>2. Cardinality(Ahead(m, its, s)) = Cardinality(Ahead(m, its, t)) /\ c \in Int
      BY <2>1, <2>3
    <3> QED
      BY <2>3, <3>1, <3>2, RanksFit
  <2> QED
    BY <2>2, <2>4
<1> QED
  BY <1>2, <1>3

LEMMA NextSlot ==
  ASSUME NEW m \in Makers, NEW its \in Seq(SwEdits),
         NEW k \in 0..(Cardinality(Slots(m, its)) - 1),
         NEW s, s = Nth(m, its, k + 1), NEW D, D = First(m, its, k)
  PROVE  /\ s \in Slots(m, its) /\ s \notin D /\ D \subseteq Slots(m, its)
         /\ \A t \in D : Sooner(its, t, s)
         /\ \A t \in Slots(m, its) : t = s \/ t \in D \/ Sooner(its, s, t)
         /\ First(m, its, k + 1) = D \union {s}
<1> DEFINE S == Slots(m, its)
           N == Cardinality(S)
           C(t) == Cardinality(Ahead(m, its, t))
<1>1. N \in Nat /\ k + 1 \in 1..N /\ k \in Nat
  BY SlotsFinite
<1>2. /\ \A j \in 1..N : Nth(m, its, j) \in S /\ C(Nth(m, its, j)) = j - 1
      /\ \A t \in S : \E j \in 1..N : t = Nth(m, its, j)
      /\ \A t, u \in S : t # u => Sooner(its, t, u) \/ Sooner(its, u, t)
      /\ \A t, u \in S : Sooner(its, t, u) => C(t) < C(u)
  BY NthIs, SoonerOrders, RanksFit
<1> HIDE DEF C, S, N
<1>3. s \in S /\ C(s) = k
  BY <1>1, <1>2
<1>4. ASSUME NEW j \in 1..N, NEW t, t = Nth(m, its, j)
      PROVE  /\ t \in S /\ C(t) = j - 1
             /\ j <= k => t # s /\ Sooner(its, t, s)
             /\ j > k + 1 => t # s /\ Sooner(its, s, t)
  <2>1. t \in S /\ C(t) = j - 1
    BY <1>2, <1>4
  <2>2. ASSUME t # s PROVE Sooner(its, t, s) \/ Sooner(its, s, t)
    BY <1>2, <1>3, <2>1, <2>2
  <2>3. Sooner(its, t, s) => j - 1 < k
    BY <1>2, <1>3, <2>1
  <2>4. Sooner(its, s, t) => k < j - 1
    BY <1>2, <1>3, <2>1
  <2> QED
    BY <1>1, <1>3, <2>1, <2>2, <2>3, <2>4
<1>5. \A t \in D : t \in S /\ t # s /\ Sooner(its, t, s)
  BY <1>1, <1>4 DEF First
<1>6. ASSUME NEW t \in S PROVE t = s \/ t \in D \/ Sooner(its, s, t)
  <2>1. PICK j \in 1..N : t = Nth(m, its, j)
    BY <1>2
  <2>2. j = k + 1 \/ j \in 1..k \/ j > k + 1
    BY <1>1
  <2> QED
    BY <1>4, <2>1, <2>2 DEF First
<1>7. 1..(k + 1) = 1..k \union {k + 1}
  BY <1>1
<1>8. First(m, its, k + 1) = D \union {s}
  BY <1>7 DEF First
<1> QED
  BY <1>3, <1>5, <1>6, <1>8 DEF S


-----------------------------------------------------------------------------
(* What is sent, and how two forms of one batch differ.                    *)
IsFormOf(m, x, j, f) ==
  /\ f.vid = x.vid /\ f.name = x.name /\ f.port = x.port /\ f.mode = x.mode
  /\ x.op = "create" /\ m = "hpe" => f.op = IF j = 1 THEN "add" ELSE "label"
  /\ ~(x.op = "create" /\ m = "hpe") => f.op = x.op /\ j = 1

LEMMA FormIs ==
  ASSUME NEW m \in Makers, NEW its \in Seq(SwEdits), NEW s \in Slots(m, its)
  PROVE  /\ its[s[1]] \in SwEdits /\ s[2] \in {1, 2} /\ s[1] \in 1..Len(its)
         /\ s = <<s[1], s[2]>>
         /\ IsFormOf(m, its[s[1]], s[2], Form(m, its, s))
<1>1. PICK n \in 1..Len(its), j \in {1, 2} :
        s = <<n, j>> /\ (j = 2 => m = "hpe" /\ its[n].op = "create")
  BY SlotIs
<1> PICK x : x = its[n]
  OBVIOUS
<1> PICK f : f = Form(m, its, s)
  OBVIOUS
<1>2. x \in SwEdits /\ s[1] = n /\ s[2] = j /\ its[s[1]] = x
  BY <1>1
<1> PICK o : o = Forms(m, x)[j]
  OBVIOUS
<1>3. f = [x EXCEPT !.op = o]
  BY <1>2 DEF Form
<1>4. /\ f.vid = x.vid /\ f.name = x.name /\ f.port = x.port /\ f.mode = x.mode
      /\ f.op = o
  BY <1>2, <1>3 DEF SwEdits
<1>5. CASE x.op = "create" /\ m = "hpe"
  <2>1. Forms(m, x) = <<"add", "label">>
    BY <1>2, <1>5, FormsOf
  <2>2. o = IF j = 1 THEN "add" ELSE "label"
    BY <2>1
  <2> QED
    BY <1>1, <1>2, <1>4, <1>5, <2>2 DEF IsFormOf
<1>6. CASE ~(x.op = "create" /\ m = "hpe")
  <2>1. j = 1
    BY <1>1, <1>6
  <2>2. Forms(m, x) = <<x.op>>
    BY <1>2, <1>6, FormsOf
  <2>3. o = x.op
    BY <2>1, <2>2
  <2> QED
    BY <1>1, <1>2, <1>4, <1>6, <2>1, <2>3 DEF IsFormOf
<1> QED
  BY <1>5, <1>6

(* A batch that asks for something possible, fit to be reasoned about.     *)
Possible(m, its, cf) ==
  /\ m \in Makers /\ its \in Seq(SwEdits)
  /\ cf \in SwConfig /\ cf.name[1] # Absent /\ Consistent(cf, its)

Made(its, v) == \E n \in 1..Len(its) : its[n].op = "create" /\ its[n].vid = v

LEMMA PossibleMeans ==
  ASSUME NEW m, NEW its, NEW cf, Possible(m, its, cf)
  PROVE  /\ \A k, n \in 1..Len(its) : k # n /\ its[k].op = its[n].op =>
              \/ its[k].vid # its[n].vid
              \/ its[k].op = "change" /\ its[k].port # its[n].port
         /\ \A k, n \in 1..Len(its) :
              /\ its[k].op = "change" /\ its[n].op = "change"
              /\ its[k].mode = "untagged" /\ its[n].mode = "untagged"
              /\ its[k].port = its[n].port
              => its[k] = its[n]
         /\ \A v : Made(its, v) => ~Exists(cf, v)
         /\ \A n \in 1..Len(its) :
              its[n].op # "create" => Exists(cf, its[n].vid) \/ Made(its, its[n].vid)
         /\ \A n \in 1..Len(its) : its[n].op = "delete" =>
              its[n].vid # 1 /\ Members(Target(cf, its), its[n].vid) = {}
         /\ \A n \in 1..Len(its) : its[n] \in SwEdits
<1>1. /\ Consistent(cf, its) /\ DOMAIN its = 1..Len(its)
      /\ \A n \in 1..Len(its) : its[n] \in SwEdits
  BY DEF Possible
<1>2. ASSUME NEW op
      PROVE  \A x : x \in Asks(its, op) <=> \E n \in 1..Len(its) : its[n].op = op /\ x = its[n]
  BY <1>1 DEF Asks
<1>3. \A v : Made(its, v) <=> v \in {x.vid : x \in Asks(its, "create")}
  BY <1>2 DEF Made
<1>4. \A k, n \in 1..Len(its) : k # n /\ its[k].op = its[n].op =>
              \/ its[k].vid # its[n].vid
              \/ its[k].op = "change" /\ its[k].port # its[n].port
  BY <1>1 DEF Consistent
<1>5. \A x, y \in Asks(its, "change") : x.mode = "untagged" /\ y.mode = "untagged"
                                          /\ x.port = y.port => x = y
  BY <1>1 DEF Consistent
<1>6. \A v \in {x.vid : x \in Asks(its, "create")} : ~Exists(cf, v)
  BY <1>1 DEF Consistent
<1>7. \A x \in Asks(its, "change") \union Asks(its, "rename") \union Asks(its, "delete") :
        Exists(cf, x.vid) \/ x.vid \in {y.vid : y \in Asks(its, "create")}
  BY <1>1 DEF Consistent
<1>8. \A v \in SwVids : Gone(its, v) => v # 1 /\ Members(Target(cf, its), v) = {}
  BY <1>1 DEF Consistent
<1>9. \A n \in 1..Len(its) :
        its[n].op # "create" => Exists(cf, its[n].vid) \/ Made(its, its[n].vid)
  <2> SUFFICES ASSUME NEW n \in 1..Len(its), its[n].op # "create"
               PROVE  Exists(cf, its[n].vid) \/ Made(its, its[n].vid)
    OBVIOUS
  <2>1. its[n].op \in {"change", "rename", "delete"}
    BY <1>1 DEF SwEdits
  <2>2. its[n] \in Asks(its, "change") \union Asks(its, "rename") \union Asks(its, "delete")
    BY <1>2, <2>1
  <2> QED
    BY <1>3, <1>7, <2>2
<1>10. \A n \in 1..Len(its) : its[n].op = "delete" =>
         its[n].vid # 1 /\ Members(Target(cf, its), its[n].vid) = {}
  <2> SUFFICES ASSUME NEW n \in 1..Len(its), its[n].op = "delete"
               PROVE  its[n].vid # 1 /\ Members(Target(cf, its), its[n].vid) = {}
    OBVIOUS
  <2>1. its[n] \in Asks(its, "delete") /\ its[n].vid \in SwVids
    BY <1>1, <1>2 DEF SwEdits
  <2>2. Gone(its, its[n].vid)
    BY <2>1 DEF Gone
  <2> QED
    BY <1>8, <2>1, <2>2
<1>11. \A k, n \in 1..Len(its) :
              /\ its[k].op = "change" /\ its[n].op = "change"
              /\ its[k].mode = "untagged" /\ its[n].mode = "untagged"
              /\ its[k].port = its[n].port
              => its[k] = its[n]
  BY <1>2, <1>5
<1> QED
  BY <1>1, <1>3, <1>4, <1>6, <1>9, <1>10, <1>11

(* Where the switch is when the slots D have been carried out.             *)
Did(m, its, D, op, v) == \E s \in D : Form(m, its, s).op = op /\ Form(m, its, s).vid = v
Moved(m, its, D, v, p) ==
  \E s \in D : LET f == Form(m, its, s) IN f.op = "change" /\ f.vid = v /\ f.port = p
Taken(m, its, D, p) ==
  \E s \in D : LET f == Form(m, its, s)
               IN f.op = "change" /\ f.mode = "untagged" /\ f.port = p

NameAfter(m, its, cf, D, v, n) ==
  /\ Did(m, its, D, "delete", v) => n = Absent
  /\ ~Did(m, its, D, "delete", v) =>
       /\ \A s \in D : LET f == Form(m, its, s) IN
            /\ f.op = "rename" /\ f.vid = v => n = f.name
            /\ f.op \in {"create", "label"} /\ f.vid = v
                 /\ ~Did(m, its, D, "rename", v) => n = f.name
       /\ ~(\E op \in {"rename", "create", "label"} : Did(m, its, D, op, v)) =>
            n = IF Did(m, its, D, "add", v) THEN "VLAN" ELSE cf.name[v]
ModeAfter(m, its, cf, D, v, p, o) ==
  /\ \A s \in D : LET f == Form(m, its, s) IN
       f.op = "change" /\ f.vid = v /\ f.port = p => o = f.mode
  /\ ~Moved(m, its, D, v, p) =>
       o = IF cf.mode[v][p] = "untagged" /\ Taken(m, its, D, p) THEN "none"
           ELSE cf.mode[v][p]
IsConfig(run) ==
  \E n, o : /\ run = [name |-> n, mode |-> o] /\ n = [v \in SwVids |-> n[v]]
            /\ o \in [SwVids -> [SwPorts -> Modes]]
After(m, its, cf, D, run) ==
  /\ IsConfig(run)
  /\ \A v \in SwVids : NameAfter(m, its, cf, D, v, run.name[v])
  /\ \A v \in SwVids, p \in SwPorts : ModeAfter(m, its, cf, D, v, p, run.mode[v][p])


(* The next slot, seen from those that have been carried out.              *)
Frontier(m, its, D, s) ==
  /\ D \subseteq Slots(m, its) /\ s \in Slots(m, its) /\ s \notin D
  /\ \A t \in D : Sooner(its, t, s)
  /\ \A t \in Slots(m, its) : t = s \/ t \in D \/ Sooner(its, s, t)

Starts == {"create", "add", "label"}

(* The form of a slot, and the turn of its item.                           *)
LEMMA OpIs ==
  ASSUME NEW m \in Makers, NEW its \in Seq(SwEdits), NEW s \in Slots(m, its)
  PROVE  /\ Form(m, its, s).op \in Starts \union {"rename", "change", "delete"}
         /\ Form(m, its, s).op \in Starts <=> its[s[1]].op = "create"
         /\ Form(m, its, s).op \notin Starts =>
              Form(m, its, s).op = its[s[1]].op /\ s[2] = 1
         /\ Form(m, its, s).op \in {"create", "add"} => s[2] = 1
         /\ Form(m, its, s).op = "label" => s[2] = 2 /\ m = "hpe"
         /\ Form(m, its, s).op = "create" => m # "hpe"
         /\ Form(m, its, s).op = "add" => m = "hpe"
         /\ Form(m, its, s).vid = its[s[1]].vid /\ Form(m, its, s).vid \in SwVids
         /\ Form(m, its, s).name = its[s[1]].name
         /\ Form(m, its, s).name \in STRING \ {Absent}
         /\ Form(m, its, s).port = its[s[1]].port /\ Form(m, its, s).port \in SwPorts
         /\ Form(m, its, s).mode = its[s[1]].mode /\ Form(m, its, s).mode \in Modes
<1> PICK x, j, f : x = its[s[1]] /\ j = s[2] /\ f = Form(m, its, s)
  OBVIOUS
<1>1. x \in SwEdits /\ j \in {1, 2} /\ IsFormOf(m, x, j, f)
  BY FormIs
<1>2. CASE x.op = "create" /\ m = "hpe"
  BY <1>1, <1>2 DEF IsFormOf, SwEdits, Starts
<1>3. CASE ~(x.op = "create" /\ m = "hpe")
  BY <1>1, <1>3 DEF IsFormOf, SwEdits, Starts
<1> QED
  BY <1>2, <1>3

LEMMA TurnsGrow ==
  ASSUME NEW m \in Makers, NEW its \in Seq(SwEdits),
         NEW s \in Slots(m, its), NEW t \in Slots(m, its), Sooner(its, t, s)
  PROVE  /\ Turn(its[t[1]]) <= Turn(its[s[1]])
         /\ t[1] = s[1] => t[2] < s[2]
<1>1. /\ Turn(its[t[1]]) \in Int /\ Turn(its[s[1]]) \in Int
      /\ t[1] \in Int /\ s[1] \in Int /\ t[2] \in Int /\ s[2] \in Int
  BY SlotsFinite, TurnOf
<1> QED
  BY <1>1 DEF Sooner

(* Two slots with the same effect are one.                                 *)
LEMMA FormsDiffer ==
  ASSUME NEW m, NEW its, NEW cf, Possible(m, its, cf),
         NEW s \in Slots(m, its), NEW t \in Slots(m, its), s # t
  PROVE  /\ Form(m, its, s).op = Form(m, its, t).op
              /\ Form(m, its, s).vid = Form(m, its, t).vid
              => /\ Form(m, its, s).op = "change"
                 /\ Form(m, its, s).port # Form(m, its, t).port
         /\ Form(m, its, s).op = "change" /\ Form(m, its, t).op = "change"
              /\ Form(m, its, s).port = Form(m, its, t).port
              => Form(m, its, s).mode # "untagged" \/ Form(m, its, t).mode # "untagged"
<1>1. m \in Makers /\ its \in Seq(SwEdits)
  BY DEF Possible
<1> PICK f, g, x, y, k, n :
      /\ f = Form(m, its, s) /\ g = Form(m, its, t)
      /\ x = its[s[1]] /\ y = its[t[1]] /\ k = s[1] /\ n = t[1]
  OBVIOUS
<1>2. /\ k \in 1..Len(its) /\ n \in 1..Len(its) /\ x = its[k] /\ y = its[n]
      /\ s = <<k, s[2]>> /\ t = <<n, t[2]>>
  BY <1>1, FormIs
<1>3. /\ f.op \in Starts <=> x.op = "create"
      /\ f.op \notin Starts => f.op = x.op /\ s[2] = 1
      /\ f.op \in {"create", "add"} => s[2] = 1
      /\ f.op = "label" => s[2] = 2
      /\ g.op \in Starts <=> y.op = "create"
      /\ g.op \notin Starts => g.op = y.op /\ t[2] = 1
      /\ g.op \in {"create", "add"} => t[2] = 1
      /\ g.op = "label" => t[2] = 2
      /\ f.vid = x.vid /\ g.vid = y.vid /\ f.port = x.port /\ g.port = y.port
      /\ f.mode = x.mode /\ g.mode = y.mode
  BY <1>1, OpIs
<1>4. f.op = g.op => k # n
  <2> SUFFICES ASSUME f.op = g.op, k = n PROVE FALSE
    OBVIOUS
  <2>1. s[2] = t[2]
    BY <1>3 DEF Starts
  <2> QED
    BY <1>2, <2>1
<1>5. f.op = g.op => x.op = y.op
  BY <1>3
<1>6. /\ x.op = y.op /\ k # n => x.vid # y.vid \/ (x.op = "change" /\ x.port # y.port)
      /\ x.op = "change" /\ y.op = "change" /\ x.mode = "untagged" /\ y.mode = "untagged"
           /\ x.port = y.port => x = y
  BY <1>2, PossibleMeans
<1>7. f.op = g.op /\ f.vid = g.vid => f.op = "change" /\ f.port # g.port
  BY <1>3, <1>4, <1>5, <1>6 DEF Starts
<1>8. f.op = "change" /\ g.op = "change" /\ f.port = g.port
        => f.mode # "untagged" \/ g.mode # "untagged"
  <2> SUFFICES ASSUME f.op = "change", g.op = "change", f.port = g.port,
                      f.mode = "untagged", g.mode = "untagged"
               PROVE  FALSE
    OBVIOUS
  <2>1. x.op = "change" /\ y.op = "change"
    BY <1>3 DEF Starts
  <2>2. x = y
    BY <1>3, <1>6, <2>1
  <2> QED
    BY <1>3, <1>7, <2>2
<1> QED
  BY <1>7, <1>8

(* What has been done, and what has not, when a slot's turn comes.         *)
LEMMA TurnsPassed ==
  ASSUME NEW m \in Makers, NEW its \in Seq(SwEdits), NEW D, NEW s,
         Frontier(m, its, D, s),
         NEW f, f = Form(m, its, s),
         NEW t \in Slots(m, its), NEW g, g = Form(m, its, t)
  PROVE  /\ t \in D =>
              /\ f.op \in Starts => g.op \in Starts
              /\ f.op = "rename" => g.op \in Starts \union {"rename"}
              /\ f.op = "change" => g.op # "delete"
              /\ f.op = "change" /\ g.op = "change" =>
                   /\ f.mode = "none" => g.mode = "none"
                   /\ f.mode = "tagged" => g.mode # "untagged"
         /\ f.op \in {"rename", "change", "delete"} /\ g.op \in Starts => t \in D
         /\ f.op = "delete" /\ g.op = "change" => t \in D
<1> PICK x, y, a, b : x = its[s[1]] /\ y = its[t[1]] /\ a = Turn(x) /\ b = Turn(y)
  OBVIOUS
<1>1. s \in Slots(m, its) /\ x \in SwEdits /\ y \in SwEdits
  BY SlotsFinite DEF Frontier
<1>2. /\ a \in 1..6 /\ b \in 1..6
      /\ a = 1 <=> x.op = "create"
      /\ a = 2 <=> x.op = "rename"
      /\ a \in 3..5 <=> x.op = "change"
      /\ a = 6 <=> x.op = "delete"
      /\ x.op = "change" => (a = 3 <=> x.mode = "none") /\ (a = 4 <=> x.mode = "tagged")
                            /\ (a = 5 <=> x.mode = "untagged")
      /\ b = 1 <=> y.op = "create"
      /\ b = 2 <=> y.op = "rename"
      /\ b \in 3..5 <=> y.op = "change"
      /\ b = 6 <=> y.op = "delete"
      /\ y.op = "change" => (b = 3 <=> y.mode = "none") /\ (b = 4 <=> y.mode = "tagged")
                            /\ (b = 5 <=> y.mode = "untagged")
  BY <1>1, TurnOf
<1>3. /\ f.op \in Starts \union {"rename", "change", "delete"}
      /\ f.op \in Starts <=> x.op = "create"
      /\ f.op \notin Starts => f.op = x.op
      /\ g.op \in Starts \union {"rename", "change", "delete"}
      /\ g.op \in Starts <=> y.op = "create"
      /\ g.op \notin Starts => g.op = y.op
      /\ f.mode = x.mode /\ g.mode = y.mode /\ f.mode \in Modes /\ g.mode \in Modes
  BY <1>1, OpIs
<1>4. t \in D => b <= a
  BY <1>1, TurnsGrow DEF Frontier
<1>5. b < a => t \in D
  <2> SUFFICES ASSUME b < a, t \notin D PROVE FALSE
    OBVIOUS
  <2>1. t = s \/ Sooner(its, s, t)
    BY DEF Frontier
  <2>2. a <= b
    BY <1>1, <1>2, <2>1, TurnsGrow
  <2> QED
    BY <1>2, <2>2
<1>6. /\ "rename" \notin Starts /\ "change" \notin Starts /\ "delete" \notin Starts
  BY DEF Starts
<1>7. ASSUME t \in D
      PROVE  /\ f.op \in Starts => g.op \in Starts
             /\ f.op = "rename" => g.op \in Starts \union {"rename"}
             /\ f.op = "change" => g.op # "delete"
  BY <1>2, <1>3, <1>4, <1>6, <1>7
<1>8. ASSUME t \in D, f.op = "change", g.op = "change"
      PROVE  /\ f.mode = "none" => g.mode = "none"
             /\ f.mode = "tagged" => g.mode # "untagged"
  <2>1. a \in 3..5 /\ b \in 3..5 /\ b <= a
    BY <1>2, <1>3, <1>4, <1>6, <1>8
  <2> QED
    BY <1>2, <1>3, <1>6, <1>8, <2>1
<1>9. f.op \in {"rename", "change", "delete"} /\ g.op \in Starts => b < a
  BY <1>2, <1>3, <1>6
<1>10. f.op = "delete" /\ g.op = "change" => b < a
  BY <1>2, <1>3, <1>6
<1> QED
  BY <1>5, <1>7, <1>8, <1>9, <1>10

(* A VLAN that is made has been, and has its name, when others use it.     *)
LEMMA MadeBefore ==
  ASSUME NEW m, NEW its, NEW cf, Possible(m, its, cf), NEW D, NEW s,
         Frontier(m, its, D, s), NEW f, f = Form(m, its, s)
  PROVE  /\ f.op \in {"rename", "change", "delete"} =>
              Exists(cf, f.vid) \/ Did(m, its, D, "create", f.vid)
                                \/ Did(m, its, D, "label", f.vid)
         /\ f.op = "label" => Did(m, its, D, "add", f.vid)
         /\ f.op \in {"create", "add"} =>
              ~Exists(cf, f.vid) /\ \A t \in D : Form(m, its, t).vid # f.vid
         /\ f.op = "delete" => f.vid # 1 /\ Members(Target(cf, its), f.vid) = {}
<1>1. m \in Makers /\ its \in Seq(SwEdits) /\ s \in Slots(m, its)
  BY DEF Possible, Frontier
<1> PICK x, n : x = its[s[1]] /\ n = s[1]
  OBVIOUS
<1>2. n \in 1..Len(its) /\ x = its[n] /\ x \in SwEdits /\ s = <<n, s[2]>>
  BY <1>1, SlotsFinite
<1>3. /\ f.op \in Starts \union {"rename", "change", "delete"}
      /\ f.op \in Starts <=> x.op = "create"
      /\ f.op \notin Starts => f.op = x.op /\ s[2] = 1
      /\ f.op \in {"create", "add"} => s[2] = 1
      /\ f.op = "label" => s[2] = 2 /\ m = "hpe"
      /\ f.vid = x.vid
  BY <1>1, OpIs
<1>4. /\ \A v : Made(its, v) => ~Exists(cf, v)
      /\ x.op # "create" => Exists(cf, x.vid) \/ Made(its, x.vid)
      /\ x.op = "delete" => x.vid # 1 /\ Members(Target(cf, its), x.vid) = {}
  BY <1>2, PossibleMeans
<1>5. ASSUME f.op \in {"rename", "change", "delete"}, ~Exists(cf, f.vid)
      PROVE  Did(m, its, D, "create", f.vid) \/ Did(m, its, D, "label", f.vid)
  <2>1. Made(its, x.vid)
    BY <1>3, <1>4, <1>5 DEF Starts
  <2>2. PICK k \in 1..Len(its) : its[k].op = "create" /\ its[k].vid = x.vid
    BY <2>1 DEF Made
  <2> PICK j : j = IF m = "hpe" THEN 2 ELSE 1
    OBVIOUS
  <2> PICK t, y : t = <<k, j>> /\ y = its[k]
    OBVIOUS
  <2>3. t \in Slots(m, its) /\ t[1] = k /\ t[2] = j
    BY <1>1, <2>2, SlotIs
  <2> PICK g : g = Form(m, its, t)
    OBVIOUS
  <2>4. IsFormOf(m, y, j, g)
    BY <1>1, <2>3, FormIs
  <2>5. g.op \in {"create", "label"} /\ g.vid = f.vid
    BY <1>3, <2>2, <2>4 DEF IsFormOf
  <2>6. t \in D
    BY <1>1, <1>5, <2>3, <2>5, TurnsPassed DEF Starts
  <2> QED
    BY <2>5, <2>6 DEF Did
<1>6. ASSUME f.op = "label" PROVE Did(m, its, D, "add", f.vid)
  <2> PICK t : t = <<n, 1>>
    OBVIOUS
  <2>1. t \in Slots(m, its) /\ t[1] = n /\ t[2] = 1
    BY <1>1, <1>2, SlotIs
  <2> PICK g : g = Form(m, its, t)
    OBVIOUS
  <2>2. IsFormOf(m, x, 1, g) /\ x.op = "create" /\ m = "hpe" /\ s[2] = 2
    BY <1>2, <1>1, <1>3, <1>6, <2>1, FormIs DEF Starts
  <2>3. g.op = "add" /\ g.vid = f.vid
    BY <1>3, <2>2 DEF IsFormOf
  <2>4. t \in D
    <3> SUFFICES ASSUME t \notin D PROVE FALSE
      OBVIOUS
    <3>1. t # s
      BY <2>1, <2>2
    <3>2. Sooner(its, s, t)
      BY <2>1, <3>1 DEF Frontier
    <3>3. s[2] < t[2]
      BY <1>1, <2>1, <3>2, TurnsGrow
    <3> QED
      BY <2>1, <2>2, <3>3
  <2> QED
    BY <2>3, <2>4 DEF Did
<1>7. ASSUME f.op \in {"create", "add"}
      PROVE  ~Exists(cf, f.vid) /\ \A t \in D : Form(m, its, t).vid # f.vid
  <2>1. x.op = "create" /\ s[2] = 1
    BY <1>3, <1>7 DEF Starts
  <2>2. ~Exists(cf, f.vid)
    BY <1>2, <1>3, <1>4, <2>1 DEF Made
  <2>3. ASSUME NEW t \in D, Form(m, its, t).vid = f.vid PROVE FALSE
    <3> PICK g, y, k : g = Form(m, its, t) /\ y = its[t[1]] /\ k = t[1]
      OBVIOUS
    <3>1. t \in Slots(m, its) /\ Sooner(its, t, s)
      BY DEF Frontier
    <3>2. g.op \in Starts
      BY <1>1, <1>7, <3>1, TurnsPassed DEF Starts
    <3>3. y.op = "create" /\ g.vid = y.vid /\ k \in 1..Len(its) /\ y = its[k] /\ t[2] \in {1, 2}
      BY <1>1, <3>1, <3>2, OpIs, SlotsFinite
    <3>4. k = n
      BY <1>2, <1>3, <2>1, <2>3, <3>3, PossibleMeans
    <3>5. t[2] < s[2]
      BY <1>1, <3>1, <3>4, TurnsGrow
    <3> QED
      BY <2>1, <3>3, <3>5
  <2> QED
    BY <2>2, <2>3
<1>8. f.op = "delete" => x.op = "delete"
  BY <1>3 DEF Starts
<1> QED
  BY <1>3, <1>4, <1>5, <1>6, <1>7, <1>8

(* What a batch asks for, by its slots.                                    *)
LEMMA AsksBySlots ==
  ASSUME NEW m \in Makers, NEW its \in Seq(SwEdits), NEW D, D = Slots(m, its)
  PROVE  /\ \A s \in D : Form(m, its, s).op \notin Starts =>
              \E x \in Asks(its, Form(m, its, s).op) :
                /\ x.op = Form(m, its, s).op /\ x.vid = Form(m, its, s).vid
                /\ x.name = Form(m, its, s).name /\ x.port = Form(m, its, s).port
                /\ x.mode = Form(m, its, s).mode
         /\ \A s \in D : Form(m, its, s).op \in Starts =>
              \E x \in Asks(its, "create") : x.vid = Form(m, its, s).vid
         /\ \A op \in {"rename", "change", "delete"} : \A x \in Asks(its, op) :
              \E s \in D :
                /\ Form(m, its, s).op = op /\ Form(m, its, s).vid = x.vid
                /\ Form(m, its, s).name = x.name /\ Form(m, its, s).port = x.port
                /\ Form(m, its, s).mode = x.mode
         /\ \A x \in Asks(its, "create") :
              \E s \in D :
                /\ Form(m, its, s).op \in {"create", "label"}
                /\ Form(m, its, s).vid = x.vid /\ Form(m, its, s).name = x.name
<1>1. DOMAIN its = 1..Len(its) /\ \A n \in 1..Len(its) : its[n] \in SwEdits
  OBVIOUS
<1>2. \A op : \A x : x \in Asks(its, op) <=> \E n \in 1..Len(its) : its[n].op = op /\ x = its[n]
  BY <1>1 DEF Asks
<1>3. ASSUME NEW n \in 1..Len(its), NEW x, x = its[n]
      PROVE  \E s \in D :
               /\ Form(m, its, s).vid = x.vid /\ Form(m, its, s).name = x.name
               /\ Form(m, its, s).port = x.port /\ Form(m, its, s).mode = x.mode
               /\ x.op # "create" => Form(m, its, s).op = x.op
               /\ x.op = "create" => Form(m, its, s).op \in {"create", "label"}
  <2> PICK j, s : /\ j = IF m = "hpe" /\ x.op = "create" THEN 2 ELSE 1
                  /\ s = <<n, j>>
    OBVIOUS
  <2>1. s \in Slots(m, its) /\ s[1] = n /\ s[2] = j
    BY <1>3, SlotIs
  <2> PICK f : f = Form(m, its, s)
    OBVIOUS
  <2>2. IsFormOf(m, x, j, f)
    BY <1>3, <2>1, FormIs
  <2>3. /\ f.vid = x.vid /\ f.name = x.name /\ f.port = x.port /\ f.mode = x.mode
        /\ x.op # "create" => f.op = x.op
        /\ x.op = "create" => f.op \in {"create", "label"}
    BY <2>2 DEF IsFormOf
  <2> QED
    BY <2>1, <2>3
<1>4. ASSUME NEW s \in D
      PROVE  \E n \in 1..Len(its) : \E x :
               /\ x = its[n]
               /\ Form(m, its, s).vid = x.vid /\ Form(m, its, s).name = x.name
               /\ Form(m, its, s).port = x.port /\ Form(m, its, s).mode = x.mode
               /\ Form(m, its, s).op \notin Starts => Form(m, its, s).op = x.op
               /\ Form(m, its, s).op \in Starts => x.op = "create"
  <2> PICK n, x, f : n = s[1] /\ x = its[n] /\ f = Form(m, its, s)
    OBVIOUS
  <2>1. n \in 1..Len(its)
    BY SlotsFinite
  <2>2. /\ f.vid = x.vid /\ f.name = x.name /\ f.port = x.port /\ f.mode = x.mode
        /\ f.op \notin Starts => f.op = x.op
        /\ f.op \in Starts => x.op = "create"
    BY OpIs
  <2> QED
    BY <2>1, <2>2
<1>5. ASSUME NEW s \in D, Form(m, its, s).op \notin Starts
      PROVE  \E x \in Asks(its, Form(m, its, s).op) :
                /\ x.op = Form(m, its, s).op /\ x.vid = Form(m, its, s).vid
                /\ x.name = Form(m, its, s).name /\ x.port = Form(m, its, s).port
                /\ x.mode = Form(m, its, s).mode
  BY <1>2, <1>4, <1>5
<1>6. ASSUME NEW s \in D, Form(m, its, s).op \in Starts
      PROVE  \E x \in Asks(its, "create") : x.vid = Form(m, its, s).vid
  BY <1>2, <1>4, <1>6
<1>7. ASSUME NEW op \in {"rename", "change", "delete"}, NEW x \in Asks(its, op)
      PROVE  \E s \in D :
                /\ Form(m, its, s).op = op /\ Form(m, its, s).vid = x.vid
                /\ Form(m, its, s).name = x.name /\ Form(m, its, s).port = x.port
                /\ Form(m, its, s).mode = x.mode
  <2>1. PICK n \in 1..Len(its) : its[n].op = op /\ x = its[n]
    BY <1>2
  <2>2. x.op = op /\ x.op # "create"
    BY <2>1
  <2> QED
    BY <1>3, <2>1, <2>2
<1>8. ASSUME NEW x \in Asks(its, "create")
      PROVE  \E s \in D :
                /\ Form(m, its, s).op \in {"create", "label"}
                /\ Form(m, its, s).vid = x.vid /\ Form(m, its, s).name = x.name
  <2>1. PICK n \in 1..Len(its) : its[n].op = "create" /\ x = its[n]
    BY <1>2
  <2> QED
    BY <1>3, <2>1
<1> QED
  BY <1>5, <1>6, <1>7, <1>8

(* When all port changes are done, the ports are as they were asked for.   *)
LEMMA ModesDone ==
  ASSUME NEW m, NEW its, NEW cf, Possible(m, its, cf), NEW D, NEW run,
         D \subseteq Slots(m, its), After(m, its, cf, D, run),
         \A s \in Slots(m, its) : Form(m, its, s).op = "change" => s \in D,
         NEW v \in SwVids, NEW p \in SwPorts
  PROVE  run.mode[v][p] = TargetMode(cf, its, v, p)
<1>1. m \in Makers /\ its \in Seq(SwEdits)
  BY DEF Possible
<1> DEFINE changes == {x \in Asks(its, "change") : x.port = p}
<1>2. ModeAfter(m, its, cf, D, v, p, run.mode[v][p])
  BY DEF After
<1>3. ASSUME NEW x \in changes
      PROVE  \E s \in D : /\ Form(m, its, s).op = "change" /\ Form(m, its, s).vid = x.vid
                          /\ Form(m, its, s).port = p /\ Form(m, its, s).mode = x.mode
  BY <1>1, AsksBySlots
<1>4. ASSUME NEW s \in D, Form(m, its, s).op = "change", Form(m, its, s).port = p
      PROVE  \E x \in changes : x.vid = Form(m, its, s).vid /\ x.mode = Form(m, its, s).mode
  BY <1>1, <1>4, AsksBySlots DEF Starts
<1>5. CASE \E x \in changes : x.vid = v
  <2> PICK x : x = CHOOSE y \in changes : y.vid = v
    OBVIOUS
  <2>1. x \in changes /\ x.vid = v
    BY <1>5
  <2>2. TargetMode(cf, its, v, p) = (CHOOSE y \in changes : y.vid = v).mode
    BY <1>5, Zenon DEF TargetMode
  <2>3. run.mode[v][p] = x.mode
    BY <1>2, <1>3, <2>1 DEF ModeAfter
  <2> HIDE DEF changes
  <2> QED
    BY <2>2, <2>3, Zenon
<1>6. CASE ~\E x \in changes : x.vid = v
  <2>1. ~Moved(m, its, D, v, p)
    BY <1>4, <1>6 DEF Moved
  <2>2. Taken(m, its, D, p) <=> \E x \in changes : x.mode = "untagged"
    BY <1>3, <1>4 DEF Taken
  <2>3. TargetMode(cf, its, v, p) =
          IF cf.mode[v][p] = "untagged" /\ \E x \in changes : x.mode = "untagged"
          THEN "none" ELSE cf.mode[v][p]
    BY <1>6 DEF TargetMode
  <2> HIDE DEF changes
  <2>4. run.mode[v][p] = IF cf.mode[v][p] = "untagged" /\ Taken(m, its, D, p) THEN "none"
                         ELSE cf.mode[v][p]
    BY <1>2, <2>1 DEF ModeAfter
  <2> QED
    BY <2>2, <2>3, <2>4
<1> QED
  BY <1>5, <1>6

LEMMA NamesDone ==
  ASSUME NEW m, NEW its, NEW cf, Possible(m, its, cf), NEW D, NEW run,
         D = Slots(m, its), After(m, its, cf, D, run), NEW v \in SwVids
  PROVE  run.name[v] = TargetName(cf, its, v)
<1>1. m \in Makers /\ its \in Seq(SwEdits)
  BY DEF Possible
<1>2. NameAfter(m, its, cf, D, v, run.name[v])
  BY DEF After
<1>3. Gone(its, v) <=> Did(m, its, D, "delete", v)
  BY <1>1, AsksBySlots DEF Gone, Did, Starts
<1>4. (\E x \in Asks(its, "rename") : x.vid = v) <=> Did(m, its, D, "rename", v)
  BY <1>1, AsksBySlots DEF Did, Starts
<1>5. /\ (\E x \in Asks(its, "create") : x.vid = v) <=>
           Did(m, its, D, "create", v) \/ Did(m, its, D, "label", v)
      /\ Did(m, its, D, "add", v) => \E x \in Asks(its, "create") : x.vid = v
  BY <1>1, AsksBySlots DEF Did, Starts
<1>6. /\ \A x \in Asks(its, "create") : x.op = "create"
      /\ \A x \in Asks(its, "rename") : x.op = "rename"
  BY DEF Asks
<1>10. \A x \in Asks(its, "rename") :
         \E s \in D : /\ Form(m, its, s).op = "rename" /\ Form(m, its, s).vid = x.vid
                     /\ Form(m, its, s).name = x.name
  BY <1>1, AsksBySlots
<1>11. \A x \in Asks(its, "create") :
         \E s \in D : /\ Form(m, its, s).op \in {"create", "label"}
                     /\ Form(m, its, s).vid = x.vid /\ Form(m, its, s).name = x.name
  BY <1>1, AsksBySlots
<1>7. CASE Gone(its, v)
  <2>1. TargetName(cf, its, v) = Absent
    BY <1>7, Zenon DEF TargetName
  <2>2. run.name[v] = Absent
    BY <1>2, <1>3, <1>7 DEF NameAfter
  <2> QED
    BY <2>1, <2>2
<1>8. CASE ~Gone(its, v) /\ \E x \in Named(its) : x.vid = v
  <2> DEFINE Best(x) == /\ x.vid = v
                        /\ (\E y \in Asks(its, "rename") : y.vid = v) => x.op = "rename"
  <2> PICK x : x = CHOOSE y \in Named(its) : Best(y)
    OBVIOUS
  <2>1. \E y \in Named(its) : Best(y)
    BY <1>6, <1>8 DEF Named
  <2>2. x \in Named(its) /\ Best(x)
    BY <2>1
  <2>3. TargetName(cf, its, v) = x.name
    <3>1. TargetName(cf, its, v) = (CHOOSE y \in Named(its) : Best(y)).name
      BY <1>8, Zenon DEF TargetName
    <3> QED
      BY <3>1, Zenon
  <2>4. CASE x \in Asks(its, "rename")
    <3>1. \E s \in D : /\ Form(m, its, s).op = "rename" /\ Form(m, its, s).vid = v
                       /\ Form(m, its, s).name = x.name
      <4>1. x.vid = v
        BY <2>2
      <4> HIDE DEF Best
      <4> QED
        BY <1>10, <2>4, <4>1
    <3> QED
      BY <1>2, <1>3, <1>8, <2>3, <3>1 DEF NameAfter
  <2>5. CASE x \in Asks(its, "create")
    <3>1. \E s \in D : /\ Form(m, its, s).op \in {"create", "label"}
                       /\ Form(m, its, s).vid = v /\ Form(m, its, s).name = x.name
      <4>1. x.vid = v
        BY <2>2
      <4> HIDE DEF Best
      <4> QED
        BY <1>11, <2>5, <4>1
    <3>2. ~Did(m, its, D, "rename", v)
      BY <1>4, <1>6, <2>2, <2>5
    <3> QED
      BY <1>2, <1>3, <1>8, <2>3, <3>1, <3>2 DEF NameAfter
  <2> QED
    BY <2>2, <2>4, <2>5 DEF Named
<1>9. CASE ~Gone(its, v) /\ ~\E x \in Named(its) : x.vid = v
  <2>1. TargetName(cf, its, v) = cf.name[v]
    BY <1>9 DEF TargetName
  <2>2. ~(\E op \in {"rename", "create", "label"} : Did(m, its, D, op, v))
        /\ ~Did(m, its, D, "add", v)
    BY <1>4, <1>5, <1>9 DEF Named
  <2> QED
    BY <1>2, <1>3, <1>9, <2>1, <2>2 DEF NameAfter
<1> QED
  BY <1>7, <1>8, <1>9

(* When all is done the switch is as it was asked to be.                   *)
LEMMA AllDone ==
  ASSUME NEW m, NEW its, NEW cf, Possible(m, its, cf), NEW run,
         After(m, its, cf, Slots(m, its), run)
  PROVE  run = Target(cf, its)
<1>1. IsConfig(run)
  BY DEF After
<1>2. \A v \in SwVids : run.name[v] = TargetName(cf, its, v)
  BY NamesDone
<1>3. \A v \in SwVids, p \in SwPorts : run.mode[v][p] = TargetMode(cf, its, v, p)
  BY ModesDone
<1>4. PICK n, o : /\ run = [name |-> n, mode |-> o] /\ n = [v \in SwVids |-> n[v]]
                  /\ o \in [SwVids -> [SwPorts -> Modes]]
  BY <1>1 DEF IsConfig
<1>8. run.name = n /\ run.mode = o
  BY <1>4
<1>5. n = [v \in SwVids |-> TargetName(cf, its, v)]
  BY <1>2, <1>4, <1>8
<1>6. ASSUME NEW v \in SwVids PROVE o[v] = [p \in SwPorts |-> TargetMode(cf, its, v, p)]
  <2>1. o[v] \in [SwPorts -> Modes]
    BY <1>4
  <2> QED
    BY <1>3, <1>8, <2>1
<1>7. o = [v \in SwVids |-> [p \in SwPorts |-> TargetMode(cf, its, v, p)]]
  BY <1>4, <1>6
<1> QED
  BY <1>4, <1>5, <1>7 DEF Target

LEMMA NoneDone ==
  ASSUME NEW m, NEW its, NEW cf, Possible(m, its, cf)
  PROVE  After(m, its, cf, {}, cf)
<1> PICK n, o : n = cf.name /\ o = cf.mode
  OBVIOUS
<1>4. /\ cf = [name |-> n, mode |-> o]
      /\ n \in [SwVids -> STRING] /\ o \in [SwVids -> [SwPorts -> Modes]]
  BY DEF Possible, SwConfig
<1>1. IsConfig(cf)
  BY <1>4 DEF IsConfig
<1>2. \A v \in SwVids : NameAfter(m, its, cf, {}, v, cf.name[v])
  BY DEF NameAfter, Did
<1>3. \A v \in SwVids, p \in SwPorts : ModeAfter(m, its, cf, {}, v, p, cf.mode[v][p])
  BY DEF ModeAfter, Moved, Taken
<1> QED
  BY <1>1, <1>2, <1>3 DEF After

-----------------------------------------------------------------------------
(* One command.  What it makes of the names and the modes.                 *)
LEMMA AppliedIs ==
  ASSUME NEW run, IsConfig(run), NEW f, f.vid \in SwVids,
         f.mode \in Modes, f.op \in Starts \union {"rename", "change", "delete"},
         NEW new, new = Applied(run, f)
  PROVE  /\ IsConfig(new)
         /\ f.op # "change" =>
              /\ new.mode = run.mode
              /\ \A v \in SwVids : v # f.vid => new.name[v] = run.name[v]
              /\ new.name[f.vid] = IF f.op = "add" THEN "VLAN"
                                   ELSE IF f.op = "delete" THEN Absent ELSE f.name
         /\ f.op = "change" =>
              /\ new.name = run.name
              /\ \A v \in SwVids, p \in SwPorts : new.mode[v][p] =
                   IF v = f.vid /\ p = f.port THEN f.mode
                   ELSE IF v # f.vid /\ p = f.port /\ f.mode = "untagged"
                             /\ run.mode[v][p] = "untagged" THEN "none"
                   ELSE run.mode[v][p]
<1>1. PICK n, o : /\ run = [name |-> n, mode |-> o] /\ n = [v \in SwVids |-> n[v]]
                  /\ o \in [SwVids -> [SwPorts -> Modes]]
  BY DEF IsConfig
<1>4. run.name = n /\ run.mode = o
  BY <1>1
<1>2. CASE f.op # "change"
  <2> PICK t : t = IF f.op = "add" THEN "VLAN" ELSE IF f.op = "delete" THEN Absent ELSE f.name
    OBVIOUS
  <2>2. new = [run EXCEPT !.name[f.vid] = t]
    BY <1>2 DEF Applied, Starts
  <2>3. new = [name |-> [n EXCEPT ![f.vid] = t], mode |-> o]
    BY <1>1, <2>2
  <2>4. new.mode = o /\ new.name = [n EXCEPT ![f.vid] = t]
    BY <2>3
  <2> PICK q : q = [n EXCEPT ![f.vid] = t]
    OBVIOUS
  <2>5. q = [v \in SwVids |-> q[v]]
    <3>1. DOMAIN n = SwVids
      BY <1>1
    <3>2. q = [v \in DOMAIN n |-> IF v = f.vid THEN t ELSE n[v]]
      OBVIOUS
    <3> QED
      BY <3>1, <3>2
  <2>6. IsConfig(new)
    BY <1>1, <2>3, <2>5 DEF IsConfig
  <2>7. new.name[f.vid] = t /\ \A v \in SwVids : v # f.vid => new.name[v] = n[v]
    BY <1>1, <2>4
  <2> QED
    BY <1>2, <1>4, <2>4, <2>6, <2>7
<1>3. CASE f.op = "change"
  <2> PICK j : j = Joined(run, f)
    OBVIOUS
  <2>1. new = [run EXCEPT !.mode = j]
    BY <1>3 DEF Applied
  <2>2. new = [name |-> n, mode |-> j]
    BY <1>1, <2>1
  <2>3. new.name = n /\ new.mode = j
    BY <2>2
  <2>4. ASSUME NEW v \in SwVids, NEW p \in SwPorts
        PROVE  /\ j[v][p] = IF v = f.vid /\ p = f.port THEN f.mode
                   ELSE IF v # f.vid /\ p = f.port /\ f.mode = "untagged"
                             /\ o[v][p] = "untagged" THEN "none"
                   ELSE o[v][p]
               /\ j[v][p] \in Modes
    <3>1. j[v][p] = CASE v = f.vid /\ p = f.port -> f.mode
                      [] v # f.vid /\ p = f.port /\ f.mode = "untagged"
                           /\ o[v][p] = "untagged" -> "none"
                      [] OTHER -> o[v][p]
      BY <1>4 DEF Joined
    <3>2. o[v][p] \in Modes
      BY <1>1
    <3> QED
      BY <3>1, <3>2 DEF Modes
  <2>5. j \in [SwVids -> [SwPorts -> Modes]]
    <3>1. j = [v \in SwVids |-> [p \in SwPorts |-> j[v][p]]]
      BY DEF Joined
    <3> QED
      BY <2>4, <3>1
  <2>6. IsConfig(new)
    BY <1>1, <2>2, <2>5 DEF IsConfig
  <2> QED
    BY <1>3, <1>4, <2>3, <2>4, <2>6
<1> QED
  BY <1>2, <1>3

(* The slots carried out with one more.                                    *)
LEMMA OneMore ==
  ASSUME NEW m, NEW its, NEW D, NEW s, NEW f, f = Form(m, its, s), NEW E, E = D \union {s}
  PROVE  /\ \A op, v : Did(m, its, E, op, v) <=>
                         Did(m, its, D, op, v) \/ (f.op = op /\ f.vid = v)
         /\ \A v, p : Moved(m, its, E, v, p) <=>
              Moved(m, its, D, v, p) \/ (f.op = "change" /\ f.vid = v /\ f.port = p)
         /\ \A p : Taken(m, its, E, p) <=>
              Taken(m, its, D, p) \/ (f.op = "change" /\ f.mode = "untagged" /\ f.port = p)
  BY DEF Did, Moved, Taken

(* A VLAN that was there or is made stays until it is deleted.             *)
LEMMA StillThere ==
  ASSUME NEW m \in Makers, NEW its \in Seq(SwEdits), NEW cf \in SwConfig,
         NEW D, D \subseteq Slots(m, its), NEW run, After(m, its, cf, D, run),
         NEW v \in SwVids, ~Did(m, its, D, "delete", v),
         Exists(cf, v) \/ \E op \in {"create", "add", "label"} : Did(m, its, D, op, v)
  PROVE  Exists(run, v)
<1>1. NameAfter(m, its, cf, D, v, run.name[v])
  BY DEF After
<1>2. \A s \in D : Form(m, its, s).name # Absent
  BY OpIs
<1>3. CASE \E op \in {"rename", "create", "label"} : Did(m, its, D, op, v)
  BY <1>1, <1>2, <1>3 DEF NameAfter, Exists, Did
<1>4. CASE ~\E op \in {"rename", "create", "label"} : Did(m, its, D, op, v)
  <2>1. run.name[v] = IF Did(m, its, D, "add", v) THEN "VLAN" ELSE cf.name[v]
    BY <1>1, <1>4 DEF NameAfter
  <2>2. Exists(cf, v) \/ Did(m, its, D, "add", v)
    BY <1>4
  <2>3. "VLAN" # Absent
    BY Zenon DEF Absent
  <2> QED
    BY <2>1, <2>2, <2>3 DEF Exists
<1> QED
  BY <1>3, <1>4

(* The switch accepts the next command.                                    *)
LEMMA NextAccepted ==
  ASSUME NEW m, NEW its, NEW cf, Possible(m, its, cf), NEW D, NEW s,
         Frontier(m, its, D, s), NEW run, After(m, its, cf, D, run),
         NEW f, f = Form(m, its, s)
  PROVE  Accepts(run, f)
<1>1. /\ m \in Makers /\ its \in Seq(SwEdits) /\ cf \in SwConfig
      /\ s \in Slots(m, its) /\ s \notin D /\ D \subseteq Slots(m, its)
  BY DEF Possible, Frontier
<1>2. f.op \in Starts \union {"rename", "change", "delete"} /\ f.vid \in SwVids
  BY <1>1, OpIs
<1>3. CASE f.op \in {"create", "add"}
  <2>1. ~Exists(cf, f.vid) /\ \A t \in D : Form(m, its, t).vid # f.vid
    BY <1>3, MadeBefore
  <2>2. NameAfter(m, its, cf, D, f.vid, run.name[f.vid])
    BY <1>2 DEF After
  <2>3. run.name[f.vid] = cf.name[f.vid]
    BY <2>1, <2>2 DEF NameAfter, Did
  <2> QED
    BY <1>3, <2>1, <2>3 DEF Accepts, Exists
<1>4. ~Did(m, its, D, "delete", f.vid)
  <2> SUFFICES ASSUME NEW t \in D, Form(m, its, t).op = "delete",
                      Form(m, its, t).vid = f.vid
               PROVE  FALSE
    BY DEF Did
  <2>1. f.op = "delete"
    BY <1>1, <1>2, TurnsPassed DEF Starts
  <2>2. t \in Slots(m, its) /\ t # s
    BY <1>1
  <2> QED
    BY <1>1, <2>1, <2>2, FormsDiffer
<1>5. CASE f.op \in {"rename", "label", "change", "delete"}
  <2>1. Exists(cf, f.vid) \/ \E op \in {"create", "add", "label"} : Did(m, its, D, op, f.vid)
    BY <1>5, MadeBefore
  <2>2. Exists(run, f.vid)
    BY <1>1, <1>2, <1>4, <2>1, StillThere
  <2>3. CASE f.op = "delete"
    <3>1. Members(Target(cf, its), f.vid) = {}
      BY <2>3, MadeBefore
    <3>2. \A t \in Slots(m, its) : Form(m, its, t).op = "change" => t \in D
      BY <1>1, <2>3, TurnsPassed
    <3>3. \A p \in SwPorts : run.mode[f.vid][p] = TargetMode(cf, its, f.vid, p)
      BY <1>1, <1>2, <3>2, ModesDone
    <3>4. \A p \in SwPorts : Target(cf, its).mode[f.vid][p] = TargetMode(cf, its, f.vid, p)
      BY <1>2 DEF Target
    <3>5. Members(run, f.vid) = {}
      BY <3>1, <3>3, <3>4 DEF Members
    <3> QED
      BY <2>2, <2>3, <3>5 DEF Accepts
  <2> QED
    BY <1>5, <2>2, <2>3 DEF Accepts
<1> QED
  BY <1>2, <1>3, <1>5 DEF Starts

(* After it one more slot has been carried out: the names,                 *)
LEMMA NextNames ==
  ASSUME NEW m, NEW its, NEW cf, Possible(m, its, cf), NEW D, NEW s,
         Frontier(m, its, D, s), NEW run, After(m, its, cf, D, run),
         NEW f, f = Form(m, its, s), NEW E, E = D \union {s},
         NEW new, new = Applied(run, f), NEW v \in SwVids
  PROVE  NameAfter(m, its, cf, E, v, new.name[v])
<1>1. /\ m \in Makers /\ its \in Seq(SwEdits) /\ cf \in SwConfig
      /\ s \in Slots(m, its) /\ s \notin D /\ D \subseteq Slots(m, its)
  BY DEF Possible, Frontier
<1>2. /\ f.op \in Starts \union {"rename", "change", "delete"} /\ f.vid \in SwVids
      /\ f.mode \in Modes
      /\ f.op = "label" => m = "hpe"
  BY <1>1, OpIs
<1>3. \A op, u : Did(m, its, E, op, u) <=> Did(m, its, D, op, u) \/ (f.op = op /\ f.vid = u)
  BY OneMore
<1>4. /\ NameAfter(m, its, cf, D, v, run.name[v])
      /\ f.op # "change" =>
           /\ v # f.vid => new.name[v] = run.name[v]
           /\ new.name[f.vid] = IF f.op = "add" THEN "VLAN"
                                ELSE IF f.op = "delete" THEN Absent ELSE f.name
      /\ f.op = "change" => new.name = run.name
  BY <1>2, AppliedIs DEF After
<1>5. CASE f.op = "change" \/ v # f.vid
  <2>1. new.name[v] = run.name[v]
    BY <1>4, <1>5
  <2>2. \A op : op # "change" => (Did(m, its, E, op, v) <=> Did(m, its, D, op, v))
    BY <1>3, <1>5
  <2>3. ASSUME NEW t \in E, Form(m, its, t).op \in {"rename", "create", "label"},
               Form(m, its, t).vid = v
        PROVE  t \in D
    BY <1>5, <2>3
  <2> QED
    BY <1>4, <2>1, <2>2, <2>3 DEF NameAfter
<1>6. CASE f.op # "change" /\ v = f.vid
  <2> PICK n : n = new.name[v]
    OBVIOUS
  <2>1. n = IF f.op = "add" THEN "VLAN" ELSE IF f.op = "delete" THEN Absent ELSE f.name
    BY <1>4, <1>6
  <2>2. ASSUME NEW t \in D, Form(m, its, t).vid = v
        PROVE  Form(m, its, t).op # f.op
    BY <1>1, <1>6, <2>2, FormsDiffer
  <2>3. \A op : Did(m, its, E, op, v) <=> Did(m, its, D, op, v) \/ f.op = op
    BY <1>3, <1>6
  <2>4. \A op : Did(m, its, D, op, v) => op # f.op /\ \E t \in D : Form(m, its, t).op = op
                                                          /\ Form(m, its, t).vid = v
    BY <2>2 DEF Did
  <2>5. CASE f.op = "delete"
    <3>1. Did(m, its, E, "delete", v) /\ n = Absent
      BY <2>1, <2>3, <2>5
    <3> QED
      BY <3>1 DEF NameAfter
  <2>6. CASE f.op = "rename"
    <3>3. ASSUME NEW t \in D PROVE Form(m, its, t).op # "delete"
      BY <1>1, <2>6, TurnsPassed DEF Starts
    <3>1. ~Did(m, its, E, "delete", v) /\ Did(m, its, E, "rename", v) /\ n = f.name
      BY <2>1, <2>3, <2>4, <2>6, <3>3
    <3>2. ASSUME NEW t \in E, Form(m, its, t).op = "rename", Form(m, its, t).vid = v
          PROVE  n = Form(m, its, t).name
      BY <2>2, <2>6, <3>1, <3>2
    <3> QED
      BY <3>1, <3>2 DEF NameAfter
  <2>7. CASE f.op \in Starts
    <3>1. ASSUME NEW t \in D PROVE Form(m, its, t).op \in Starts
      BY <1>1, <2>7, TurnsPassed
    <3>2. ~Did(m, its, E, "delete", v) /\ ~Did(m, its, E, "rename", v)
      <4>1. "delete" \notin Starts /\ "rename" \notin Starts
        BY DEF Starts
      <4> QED
        BY <2>3, <2>4, <2>7, <3>1, <4>1
    <3>3. CASE f.op \in {"create", "add"}
      <4>1. \A t \in D : Form(m, its, t).vid # v
        BY <1>6, <3>3, MadeBefore
      <4>2. \A op : Did(m, its, E, op, v) <=> f.op = op
        BY <2>3, <2>4, <4>1
      <4>3. ASSUME NEW t \in E, Form(m, its, t).vid = v PROVE Form(m, its, t) = f
        BY <4>1, <4>3
      <4>4. CASE f.op = "create"
        <5>1. n = f.name /\ Did(m, its, E, "create", v)
          BY <2>1, <4>2, <4>4
        <5> QED
          BY <3>2, <4>3, <5>1 DEF NameAfter
      <4>5. CASE f.op = "add"
        <5>1. n = "VLAN" /\ Did(m, its, E, "add", v)
          BY <2>1, <4>2, <4>5
        <5>2. ASSUME NEW t \in E, Form(m, its, t).vid = v
              PROVE  Form(m, its, t).op \notin {"rename", "create", "label"}
          BY <4>3, <4>5, <5>2
        <5> QED
          BY <3>2, <4>2, <4>5, <5>1, <5>2 DEF NameAfter
      <4> QED
        BY <3>3, <4>4, <4>5
    <3>4. CASE f.op = "label"
      <4>1. ASSUME NEW t \in E, Form(m, its, t).op \in {"create", "label"},
                   Form(m, its, t).vid = v
            PROVE  Form(m, its, t) = f
        <5>1. t \in Slots(m, its)
          BY <1>1
        <5>2. Form(m, its, t).op # "create"
          BY <1>1, <1>2, <3>4, <5>1, OpIs
        <5> QED
          BY <2>2, <3>4, <4>1, <5>2
      <4>2. n = f.name /\ Did(m, its, E, "label", v)
        BY <2>1, <2>3, <3>4
      <4> QED
        BY <3>2, <4>1, <4>2 DEF NameAfter, Did
    <3> QED
      BY <2>7, <3>3, <3>4 DEF Starts
  <2> QED
    BY <1>2, <1>6, <2>5, <2>6, <2>7
<1> QED
  BY <1>5, <1>6

(* ... and the modes.                                                      *)
LEMMA NextModes ==
  ASSUME NEW m, NEW its, NEW cf, Possible(m, its, cf), NEW D, NEW s,
         Frontier(m, its, D, s), NEW run, After(m, its, cf, D, run),
         NEW f, f = Form(m, its, s), NEW E, E = D \union {s},
         NEW new, new = Applied(run, f), NEW v \in SwVids, NEW p \in SwPorts
  PROVE  ModeAfter(m, its, cf, E, v, p, new.mode[v][p])
<1>1. /\ m \in Makers /\ its \in Seq(SwEdits) /\ cf \in SwConfig
      /\ s \in Slots(m, its) /\ s \notin D /\ D \subseteq Slots(m, its)
  BY DEF Possible, Frontier
<1>2. /\ f.op \in Starts \union {"rename", "change", "delete"} /\ f.vid \in SwVids
      /\ f.mode \in Modes
  BY <1>1, OpIs
<1>3. /\ Moved(m, its, E, v, p) <=>
           Moved(m, its, D, v, p) \/ (f.op = "change" /\ f.vid = v /\ f.port = p)
      /\ Taken(m, its, E, p) <=>
           Taken(m, its, D, p) \/ (f.op = "change" /\ f.mode = "untagged" /\ f.port = p)
  BY OneMore
<1> PICK o, q : o = run.mode[v][p] /\ q = new.mode[v][p]
  OBVIOUS
<1>4. /\ ModeAfter(m, its, cf, D, v, p, o)
      /\ f.op # "change" => q = o
      /\ f.op = "change" =>
           q = IF v = f.vid /\ p = f.port THEN f.mode
               ELSE IF v # f.vid /\ p = f.port /\ f.mode = "untagged" /\ o = "untagged"
                    THEN "none" ELSE o
  <2>1. /\ f.op # "change" => new.mode = run.mode
        /\ f.op = "change" =>
             new.mode[v][p] = IF v = f.vid /\ p = f.port THEN f.mode
                ELSE IF v # f.vid /\ p = f.port /\ f.mode = "untagged"
                          /\ run.mode[v][p] = "untagged"
                     THEN "none" ELSE run.mode[v][p]
    BY <1>2, AppliedIs DEF After
  <2> QED
    BY <2>1 DEF After
<1>5. CASE f.op = "change" /\ v = f.vid /\ p = f.port
  <2>1. q = f.mode /\ Moved(m, its, E, v, p)
    BY <1>3, <1>4, <1>5
  <2>2. ASSUME NEW t \in E, Form(m, its, t).op = "change", Form(m, its, t).vid = v,
               Form(m, its, t).port = p
        PROVE  q = Form(m, its, t).mode
    <3>1. t \notin D
      BY <1>1, <1>5, <2>2, FormsDiffer
    <3> QED
      BY <2>1, <3>1
  <2> QED
    BY <2>1, <2>2 DEF ModeAfter
<1>6. CASE ~(f.op = "change" /\ v = f.vid /\ p = f.port)
  <2>1. /\ Moved(m, its, E, v, p) <=> Moved(m, its, D, v, p)
        /\ \A t \in E : /\ Form(m, its, t).op = "change" /\ Form(m, its, t).vid = v
                        /\ Form(m, its, t).port = p
             => t \in D
    BY <1>3, <1>6
  <2>2. CASE f.op = "change" /\ f.port = p /\ f.mode = "untagged"
    <3>1. Taken(m, its, E, p) /\ v # f.vid /\ q = IF o = "untagged" THEN "none" ELSE o
      BY <1>3, <1>4, <1>6, <2>2
    <3>2. ASSUME NEW t \in D, Form(m, its, t).op = "change", Form(m, its, t).vid = v,
                 Form(m, its, t).port = p
          PROVE  q = Form(m, its, t).mode
      <4>1. Form(m, its, t).mode # "untagged"
        BY <1>1, <2>2, <3>2, FormsDiffer
      <4>2. o = Form(m, its, t).mode
        BY <1>4, <3>2 DEF ModeAfter
      <4> QED
        BY <3>1, <4>1, <4>2
    <3>3. ASSUME ~Moved(m, its, D, v, p)
          PROVE  q = IF cf.mode[v][p] = "untagged" THEN "none" ELSE cf.mode[v][p]
      <4>1. o = IF cf.mode[v][p] = "untagged" /\ Taken(m, its, D, p) THEN "none"
                ELSE cf.mode[v][p]
        BY <1>4, <3>3 DEF ModeAfter
      <4> QED
        BY <3>1, <4>1
    <3> QED
      BY <2>1, <3>1, <3>2, <3>3 DEF ModeAfter
  <2>3. CASE ~(f.op = "change" /\ f.port = p /\ f.mode = "untagged")
    <3>1. (Taken(m, its, E, p) <=> Taken(m, its, D, p)) /\ q = o
      BY <1>3, <1>4, <1>6, <2>3
    <3> QED
      BY <1>4, <2>1, <3>1 DEF ModeAfter
  <2> QED
    BY <2>2, <2>3
<1> QED
  BY <1>5, <1>6

LEMMA NextDone ==
  ASSUME NEW m, NEW its, NEW cf, Possible(m, its, cf), NEW D, NEW s,
         Frontier(m, its, D, s), NEW run, After(m, its, cf, D, run)
  PROVE  After(m, its, cf, D \union {s}, Applied(run, Form(m, its, s)))
<1> PICK E, f, new : E = D \union {s} /\ f = Form(m, its, s) /\ new = Applied(run, f)
  OBVIOUS
<1>1. /\ f.op \in Starts \union {"rename", "change", "delete"} /\ f.vid \in SwVids
      /\ f.mode \in Modes
  BY OpIs DEF Possible, Frontier
<1>2. IsConfig(new)
  BY <1>1, AppliedIs DEF After
<1>3. /\ \A v \in SwVids : NameAfter(m, its, cf, E, v, new.name[v])
      /\ \A v \in SwVids, p \in SwPorts : ModeAfter(m, its, cf, E, v, p, new.mode[v][p])
  BY NextNames, NextModes
<1> QED
  BY <1>2, <1>3 DEF After

-----------------------------------------------------------------------------
(* What is left of a batch after its first k commands.                     *)
Rest(m, its, k) ==
  [n \in 1..(Cardinality(Slots(m, its)) - k) |-> Form(m, its, Nth(m, its, n + k))]

LEMMA TailIs ==
  ASSUME NEW L \in Nat, NEW q, q = [n \in 1..(L + 1) |-> q[n]]
  PROVE  q # <<>> /\ Head(q) = q[1] /\ Tail(q) = [n \in 1..L |-> q[n + 1]]
<1> PICK T, M : T = {q[n] : n \in 1..(L + 1)} /\ M = L + 1
  OBVIOUS
<1>1. M \in Nat /\ q \in [1..M -> T]
  OBVIOUS
<1>2. q \in UNION {[1..n -> T] : n \in Nat}
  BY <1>1
<1>3. q \in Seq(T)
  <2>1. Seq(T) = UNION {[1..n -> T] : n \in Nat}
    BY SeqDef
  <2> QED
    BY <1>2, <2>1, Zenon
<1>4. Len(q) = M
  <2>1. Len(q) \in Nat /\ DOMAIN q = 1..Len(q) /\ DOMAIN q = 1..M
    BY <1>1, <1>3, LenProperties
  <2> PICK K : K = Len(q)
    OBVIOUS
  <2> QED
    BY <1>1, <2>1
<1> QED
  BY <1>3, <1>4

LEMMA RestIs ==
  ASSUME NEW m \in Makers, NEW its \in Seq(SwEdits), NEW N, N = Cardinality(Slots(m, its)),
         NEW k \in 0..N
  PROVE  /\ Rest(m, its, 0) = Commands(m, its)
         /\ Rest(m, its, k) = <<>> => k = N
         /\ Rest(m, its, k) # <<>> =>
              /\ k + 1 \in 0..N
              /\ Head(Rest(m, its, k)) = Form(m, its, Nth(m, its, k + 1))
              /\ Tail(Rest(m, its, k)) = Rest(m, its, k + 1)
<1>1. N \in Nat
  BY SlotsFinite
<1> DEFINE F(n) == Form(m, its, Nth(m, its, n))
<1>2. Rest(m, its, 0) = Commands(m, its)
  <2>1. /\ Rest(m, its, 0) = [n \in 1..(N - 0) |-> F(n + 0)]
        /\ Commands(m, its) = [n \in 1..N |-> F(n)]
    BY DEF Rest, Commands
  <2>2. N - 0 = N /\ \A n \in 1..N : n + 0 = n
    BY <1>1
  <2> HIDE DEF F
  <2> QED
    BY <2>1, <2>2
<1> PICK q : q = Rest(m, its, k)
  OBVIOUS
<1>3. q = [n \in 1..(N - k) |-> F(n + k)]
  BY DEF Rest
<1>4. CASE k = N
  <2>1. 1..(N - k) = {}
    BY <1>1, <1>4
  <2>2. q = [n \in {} |-> F(n + k)]
    BY <1>3, <2>1
  <2> HIDE DEF F
  <2>3. q = <<>>
    BY <2>2
  <2> QED
    BY <1>2, <1>4, <2>3
<1>5. CASE k < N
  <2> PICK L : L = N - k - 1
    OBVIOUS
  <2>1. L \in Nat /\ L + 1 = N - k /\ N - (k + 1) = L /\ k + 1 \in 0..N
    BY <1>1, <1>5
  <2> HIDE DEF F
  <2>2. /\ q = [n \in 1..(L + 1) |-> q[n]]
        /\ \A n \in 1..(L + 1) : q[n] = F(n + k)
    BY <1>3, <2>1
  <2>3. q # <<>> /\ Head(q) = q[1] /\ Tail(q) = [n \in 1..L |-> q[n + 1]]
    BY <2>1, <2>2, TailIs
  <2>4. q[1] = F(k + 1)
    <3>1. 1 \in 1..(L + 1) /\ 1 + k = k + 1
      BY <1>1, <2>1
    <3> QED
      BY <2>2, <3>1
  <2>5. Tail(q) = [n \in 1..L |-> F(n + (k + 1))]
    <3>1. \A n \in 1..L : n + 1 \in 1..(L + 1) /\ (n + 1) + k = n + (k + 1)
      BY <1>1, <2>1
    <3>2. \A n \in 1..L : q[n + 1] = F(n + (k + 1))
      BY <2>2, <3>1
    <3>3. Tail(q) = [n \in 1..L |-> q[n + 1]]
      BY <2>3
    <3> QED
      BY <3>2, <3>3
  <2>6. Rest(m, its, k + 1) = [n \in 1..L |-> F(n + (k + 1))]
    BY <2>1 DEF Rest, F
  <2>7. q # <<>> /\ Head(q) = F(k + 1) /\ Tail(q) = Rest(m, its, k + 1)
    BY <2>3, <2>4, <2>5, <2>6
  <2> QED
    BY <1>2, <2>1, <2>7 DEF F
<1>6. k = N \/ k < N
  BY <1>1
<1> QED
  BY <1>4, <1>5, <1>6

(* The course of a batch that is alone on a switch that does not fail, by  *)
(* its request r, its report a and the configuration.                      *)
CourseOf(m, its, cf, r, a, run) ==
  Possible(m, its, cf) =>
    /\ r.phase # "done" => ~r.errors /\ ~r.late /\ ~r.stale
    /\ r.phase \in {"idle", "open"} => run = cf
    /\ r.phase = "open" => r.todo = Commands(m, its)
    /\ r.phase = "run" =>
         \E k \in 0..Cardinality(Slots(m, its)) :
           r.todo = Rest(m, its, k) /\ After(m, its, cf, First(m, its, k), run)
    /\ r.phase = "done" => a.ok /\ run = Target(cf, its)

LEMMA NothingInvalid ==
  ASSUME NEW m, NEW its, NEW cf, Possible(m, its, cf)
  PROVE  \A n \in DOMAIN its : ~Invalid(its[n])
<1>1. DOMAIN its = 1..Len(its) /\ Exists(cf, 1)
  BY DEF Possible, Exists
<1>2. /\ \A v : Made(its, v) => ~Exists(cf, v)
      /\ \A n \in 1..Len(its) : its[n].op = "delete" => its[n].vid # 1
  BY PossibleMeans
<1>3. \A n \in 1..Len(its) : its[n].op = "create" => its[n].vid # 1
  BY <1>1, <1>2 DEF Made
<1> QED
  BY <1>1, <1>2, <1>3 DEF Invalid

LEMMA CourseOpens ==
  ASSUME NEW m, NEW its, NEW cf, NEW r, NEW a, NEW run,
         CourseOf(m, its, cf, r, a, run), r.phase = "open",
         NEW t, t.phase = "run", t.todo = r.todo, t.errors = r.errors,
         t.late = r.late, t.stale = r.stale
  PROVE  CourseOf(m, its, cf, t, a, run)
<1> SUFFICES ASSUME Possible(m, its, cf) PROVE CourseOf(m, its, cf, t, a, run)
  BY DEF CourseOf
<1>1. ~r.errors /\ ~r.late /\ ~r.stale /\ run = cf /\ r.todo = Commands(m, its)
  BY DEF CourseOf
<1>2. m \in Makers /\ its \in Seq(SwEdits)
  BY DEF Possible
<1> PICK N : N = Cardinality(Slots(m, its))
  OBVIOUS
<1>3. 0 \in 0..N
  BY <1>2, SlotsFinite
<1>4. t.todo = Rest(m, its, 0)
  BY <1>1, <1>2, <1>3, RestIs
<1>5. First(m, its, 0) = {}
  BY DEF First
<1>6. After(m, its, cf, First(m, its, 0), run)
  BY <1>1, <1>5, NoneDone
<1> QED
  BY <1>1, <1>3, <1>4, <1>6 DEF CourseOf

LEMMA CourseRuns ==
  ASSUME NEW m, NEW its, NEW cf, NEW r, NEW a, NEW run,
         CourseOf(m, its, cf, r, a, run), Possible(m, its, cf),
         r.phase = "run", r.todo # <<>>, NEW x, x = Head(r.todo)
  PROVE  /\ Accepts(run, x) /\ ~r.stale /\ ~r.errors /\ ~r.late
         /\ \A t : /\ t.phase = "run" /\ t.todo = Tail(r.todo) /\ ~t.errors
                   /\ ~t.late /\ ~t.stale
              => CourseOf(m, its, cf, t, a, Applied(run, x))
<1> PICK N : N = Cardinality(Slots(m, its))
  OBVIOUS
<1>1. ~r.errors /\ ~r.late /\ ~r.stale
  BY DEF CourseOf
<1>2. PICK k \in 0..N : r.todo = Rest(m, its, k) /\ After(m, its, cf, First(m, its, k), run)
  BY DEF CourseOf
<1>3. m \in Makers /\ its \in Seq(SwEdits)
  BY DEF Possible
<1> PICK s, D : s = Nth(m, its, k + 1) /\ D = First(m, its, k)
  OBVIOUS
<1>4. /\ k + 1 \in 0..N /\ x = Form(m, its, s) /\ Tail(r.todo) = Rest(m, its, k + 1)
  BY <1>2, <1>3, RestIs
<1>5. N \in Nat /\ k \in 0..(N - 1)
  <2>1. N \in Nat
    BY <1>3, SlotsFinite
  <2> QED
    BY <1>4, <2>1
<1>6. Frontier(m, its, D, s) /\ First(m, its, k + 1) = D \union {s}
  BY <1>3, <1>5, NextSlot DEF Frontier
<1>7. Accepts(run, x)
  BY <1>2, <1>4, <1>6, NextAccepted
<1>8. After(m, its, cf, First(m, its, k + 1), Applied(run, x))
  BY <1>2, <1>4, <1>6, NextDone
<1>9. ASSUME NEW t, t.phase = "run", t.todo = Tail(r.todo), ~t.errors, ~t.late, ~t.stale
      PROVE  CourseOf(m, its, cf, t, a, Applied(run, x))
  BY <1>4, <1>8, <1>9 DEF CourseOf
<1> QED
  BY <1>1, <1>7, <1>9

LEMMA CourseEnds ==
  ASSUME NEW m, NEW its, NEW cf, NEW r, NEW a, NEW run,
         CourseOf(m, its, cf, r, a, run), Possible(m, its, cf),
         r.phase = "run", r.todo = <<>>
  PROVE  ~r.errors /\ ~r.late /\ run = Target(cf, its)
<1> PICK N : N = Cardinality(Slots(m, its))
  OBVIOUS
<1>1. ~r.errors /\ ~r.late
  BY DEF CourseOf
<1>2. PICK k \in 0..N : r.todo = Rest(m, its, k) /\ After(m, its, cf, First(m, its, k), run)
  BY DEF CourseOf
<1>3. m \in Makers /\ its \in Seq(SwEdits)
  BY DEF Possible
<1>4. k = N
  BY <1>2, <1>3, RestIs
<1>5. First(m, its, N) = Slots(m, its)
  BY <1>3, NthIs DEF First
<1>6. run = Target(cf, its)
  BY <1>2, <1>4, <1>5, AllDone
<1> QED
  BY <1>1, <1>6

-----------------------------------------------------------------------------
(* The course of a request, while no other one was begun and nothing failed. *)
Course(w) ==
  Alone(w) /\ trouble = 0 =>
    CourseOf(plan.maker, Items(w), plan.start, writer[w], report[w], running)
Begun(w) == writer[w].phase # "idle" => w \in DOMAIN plan.asked
Courses ==
  /\ plan \in SwPlans /\ trouble \in Nat
  /\ \A w \in SwWriters : Begun(w) /\ Course(w)

(* After a step of w no other request has been alone.                      *)
LEMMA StepOfOne ==
  ASSUME SwInv, Courses, NEW w \in SwWriters, plan' = plan, trouble' \in Nat,
         NEW r, writer' = [writer EXCEPT ![w] = r], r.phase # "idle",
         w \in DOMAIN plan.asked, Course(w)'
  PROVE  Courses'
<1>1. /\ writer'[w].phase # "idle"
      /\ \A u \in SwWriters : u # w => writer'[u] = writer[u]
  BY DEF SwInv, Shapes
<1>2. ASSUME NEW u \in SwWriters PROVE Begun(u)'
  BY <1>1 DEF Courses, Begun
<1>3. ASSUME NEW u \in SwWriters, u # w PROVE Course(u)'
  <2>1. ~Alone(u)'
    BY <1>1, <1>3 DEF Alone
  <2> QED
    BY <2>1 DEF Course
<1> QED
  BY <1>2, <1>3 DEF Courses

LEMMA FaultEnds ==
  ASSUME Courses, SwFault, NEW w \in SwWriters PROVE trouble' \in Nat /\ Course(w)'
<1>1. trouble' \in Nat /\ trouble' # 0
  BY DEF Courses, SwFault
<1> QED
  BY <1>1 DEF Course

(* The step is that of a request that is alone: what there is to show.     *)
LEMMA CourseStep ==
  ASSUME SwInv, Courses, NEW w \in SwWriters, plan' = plan,
         NEW r, writer' = [writer EXCEPT ![w] = r], UNCHANGED trouble,
         NEW m, NEW its, NEW cf, m = plan.maker, its = Items(w), cf = plan.start,
         Alone(w) /\ trouble = 0 /\ Possible(m, its, cf) /\
           CourseOf(m, its, cf, writer[w], report[w], running)
         => CourseOf(m, its, cf, r, report'[w], running')
  PROVE  Course(w)'
<1>1. /\ writer'[w] = r
      /\ \A u \in SwWriters : u # w => writer'[u] = writer[u]
  BY DEF SwInv, Shapes
<1>2. SUFFICES ASSUME Alone(w)', trouble' = 0
               PROVE  CourseOf(m, its, cf, r, report'[w], running')
  BY <1>1 DEF Course, Items
<1>3. Alone(w)
  BY <1>1, <1>2 DEF Alone
<1>4. CourseOf(m, its, cf, writer[w], report[w], running)
  BY <1>2, <1>3 DEF Courses, Course
<1>5. CASE Possible(m, its, cf)
  BY <1>2, <1>3, <1>4, <1>5
<1>6. CASE ~Possible(m, its, cf)
  BY <1>6 DEF CourseOf
<1> QED
  BY <1>5, <1>6

LEMMA SubmitCourses ==
  ASSUME SwInv, Courses, NEW w \in SwWriters, Submit(w) PROVE Courses'
<1> PICK m, its, cf : m = plan.maker /\ its = Items(w) /\ cf = plan.start
  OBVIOUS
<1>1. /\ writer[w].phase = "idle" /\ w \in DOMAIN plan.asked
      /\ UNCHANGED <<plan, running, trouble>> /\ trouble' \in Nat
  BY DEF Submit, Courses
<1>2. CASE \E n \in DOMAIN its : Invalid(its[n])
  <2> PICK r : r = [writer[w] EXCEPT !.phase = "done"]
    OBVIOUS
  <2>1. writer' = [writer EXCEPT ![w] = r] /\ r.phase = "done"
    BY <1>2 DEF Submit, Answers, Goes, SwInv, Shapes, Shape, Requests
  <2>2. ~Possible(m, its, cf)
    BY <1>2, NothingInvalid
  <2>3. Course(w)'
    BY <1>1, <2>1, <2>2, CourseStep
  <2> QED
    BY <1>1, <2>1, <2>3, StepOfOne
<1>3. CASE ~\E n \in DOMAIN its : Invalid(its[n])
  <2> PICK r : r = [writer[w] EXCEPT !.phase = "open", !.todo = Commands(m, its)]
    OBVIOUS
  <2>1. writer' = [writer EXCEPT ![w] = r] /\ report' = report
    BY <1>3 DEF Submit
  <2>2. /\ r.phase = "open" /\ r.todo = Commands(m, its) /\ r.errors = writer[w].errors
        /\ r.late = writer[w].late /\ r.stale = writer[w].stale
    BY DEF SwInv, Shapes, Shape, Requests
  <2>3. CourseOf(m, its, cf, writer[w], report[w], running)
        => CourseOf(m, its, cf, r, report'[w], running')
    BY <1>1, <2>2 DEF CourseOf
  <2>4. Course(w)'
    BY <1>1, <2>1, <2>3, CourseStep
  <2> QED
    BY <1>1, <2>1, <2>2, <2>4, StepOfOne
<1> QED
  BY <1>2, <1>3

LEMMA OpenCourses ==
  ASSUME SwInv, Courses, NEW w \in SwWriters, OpenSession(w) PROVE Courses'
<1> PICK m, its, cf : m = plan.maker /\ its = Items(w) /\ cf = plan.start
  OBVIOUS
<1>1. /\ writer[w].phase = "open" /\ w \in DOMAIN plan.asked
      /\ UNCHANGED <<plan, running>>
  BY DEF OpenSession, Courses, Begun
<1>2. CASE SwFault /\ Answers(w, Denied)
  <2> PICK r : r = [writer[w] EXCEPT !.phase = "done"]
    OBVIOUS
  <2>1. writer' = [writer EXCEPT ![w] = r] /\ r.phase = "done"
    BY <1>2 DEF Answers, Goes, SwInv, Shapes, Shape, Requests
  <2> QED
    BY <1>1, <1>2, <2>1, FaultEnds, StepOfOne
<1>3. CASE Hpe /\ Cardinality(InUse) >= SwPool /\ Answers(w, Denied) /\ UNCHANGED trouble
  <2> PICK r : r = [writer[w] EXCEPT !.phase = "done"]
    OBVIOUS
  <2>1. writer' = [writer EXCEPT ![w] = r] /\ r.phase = "done"
    BY <1>3 DEF Answers, Goes, SwInv, Shapes, Shape, Requests
  <2>2. ~Alone(w)
    <3> SUFFICES ASSUME Alone(w) PROVE FALSE
      OBVIOUS
    <3>1. InUse = {}
      BY <1>1 DEF InUse, Alone
    <3>2. Cardinality({}) = 0
      BY FS_EmptySet
    <3> QED
      BY <1>3, <3>1, <3>2, SwPlansOK
  <2>3. Course(w)'
    BY <1>1, <1>3, <2>1, <2>2, CourseStep
  <2> QED
    BY <1>1, <1>3, <2>1, <2>3, StepOfOne DEF Courses
<1>4. CASE Goes(w, "run") /\ UNCHANGED <<report, trouble>>
  <2> PICK r : r = [writer[w] EXCEPT !.phase = "run"]
    OBVIOUS
  <2>1. writer' = [writer EXCEPT ![w] = r]
    BY <1>4 DEF Goes
  <2>2. /\ r.phase = "run" /\ r.todo = writer[w].todo /\ r.errors = writer[w].errors
        /\ r.late = writer[w].late /\ r.stale = writer[w].stale
    BY DEF SwInv, Shapes, Shape, Requests
  <2>3. CourseOf(m, its, cf, writer[w], report[w], running)
        => CourseOf(m, its, cf, r, report'[w], running')
    BY <1>1, <1>4, <2>2, CourseOpens
  <2>4. Course(w)'
    BY <1>1, <1>4, <2>1, <2>3, CourseStep
  <2> QED
    BY <1>1, <1>4, <2>1, <2>2, <2>4, StepOfOne DEF Courses
<1> QED
  BY <1>2, <1>3, <1>4 DEF OpenSession

LEMMA CommandCourses ==
  ASSUME SwInv, Courses, NEW w \in SwWriters, Command(w) PROVE Courses'
<1> PICK m, its, cf, x : m = plan.maker /\ its = Items(w) /\ cf = plan.start
                         /\ x = Head(writer[w].todo)
  OBVIOUS
<1> DEFINE yes == Yes(w)
           skip == ~yes /\ x.op = "add"
           todo == IF skip THEN Tail(Tail(writer[w].todo)) ELSE Tail(writer[w].todo)
<1>1. /\ writer[w].phase = "run" /\ writer[w].todo # <<>> /\ w \in DOMAIN plan.asked
      /\ UNCHANGED <<plan, report>>
      /\ running' = IF yes THEN Applied(running, x) ELSE running
  BY DEF Command, Courses, Begun, Yes
<1>2. PICK late \in BOOLEAN :
        /\ IF late THEN Dlink /\ ~yes /\ SwFault ELSE UNCHANGED trouble
        /\ writer' = [writer EXCEPT ![w].todo = todo, ![w].late = late,
                        ![w].errors = @ \/ Blames(w, yes, late)]
  BY DEF Command, Yes
<1> PICK err : err = (writer[w].errors \/ Blames(w, yes, late))
  OBVIOUS
<1> PICK r : r = [writer[w] EXCEPT !.todo = todo, !.late = late, !.errors = err]
  OBVIOUS
<1>3. writer' = [writer EXCEPT ![w] = r]
  BY <1>2 DEF SwInv, Shapes, Shape, Requests
<1>4. /\ r.phase = "run" /\ r.todo = todo /\ r.late = late /\ r.errors = err
      /\ r.stale = writer[w].stale
  BY <1>1 DEF SwInv, Shapes, Shape, Requests
<1>5. CASE late
  BY <1>1, <1>2, <1>3, <1>4, <1>5, FaultEnds, StepOfOne
<1>6. CASE ~late
  <2>1. UNCHANGED trouble /\ trouble' \in Nat
    BY <1>2, <1>6 DEF Courses
  <2>2. ASSUME CourseOf(m, its, cf, writer[w], report[w], running), Possible(m, its, cf)
        PROVE  CourseOf(m, its, cf, r, report'[w], running')
    <3>1. /\ Accepts(running, x) /\ ~writer[w].stale /\ ~writer[w].errors /\ ~writer[w].late
          /\ \A t : /\ t.phase = "run" /\ t.todo = Tail(writer[w].todo) /\ ~t.errors
                    /\ ~t.late /\ ~t.stale
               => CourseOf(m, its, cf, t, report[w], Applied(running, x))
      BY <1>1, <2>2, CourseRuns
    <3>2. yes
      BY <3>1 DEF Yes
    <3>3. ~err
      BY <3>1, <3>2 DEF Blames
    <3>4. r.todo = Tail(writer[w].todo) /\ running' = Applied(running, x)
      BY <1>1, <1>4, <3>2
    <3>5. ~r.errors /\ ~r.late /\ ~r.stale
      BY <1>4, <1>6, <3>1, <3>3
    <3> HIDE DEF todo, yes
    <3> QED
      BY <1>1, <1>4, <3>1, <3>4, <3>5
  <2>3. Course(w)'
    <3> HIDE DEF todo, yes
    <3> QED
      BY <1>1, <1>3, <2>1, <2>2, CourseStep
  <2> QED
    BY <1>1, <1>3, <1>4, <2>1, <2>3, StepOfOne
<1> QED
  BY <1>5, <1>6

LEMMA FinishCourses ==
  ASSUME SwInv, Courses, NEW w \in SwWriters, Finish(w) PROVE Courses'
<1> PICK m, its, cf, r : m = plan.maker /\ its = Items(w) /\ cf = plan.start
                         /\ r = [writer[w] EXCEPT !.phase = "done"]
  OBVIOUS
<1>1. /\ writer[w].phase = "run" /\ writer[w].todo = <<>> /\ w \in DOMAIN plan.asked
      /\ UNCHANGED <<plan, running, trouble>> /\ trouble' \in Nat
      /\ writer' = [writer EXCEPT ![w] = r]
  BY DEF Finish, Answers, Goes, Courses, Begun
<1>2. report'[w].ok = ~writer[w].errors
  BY DEF Finish, Answers, SwInv, Shapes
<1>3. r.phase = "done"
  BY DEF SwInv, Shapes, Shape, Requests
<1>4. ASSUME CourseOf(m, its, cf, writer[w], report[w], running), Possible(m, its, cf)
      PROVE  CourseOf(m, its, cf, r, report'[w], running')
  <2>1. ~writer[w].errors /\ running = Target(cf, its)
    BY <1>1, <1>4, CourseEnds
  <2> QED
    BY <1>1, <1>2, <1>3, <2>1 DEF CourseOf
<1>5. Course(w)'
  BY <1>1, <1>4, CourseStep
<1> QED
  BY <1>1, <1>3, <1>5, StepOfOne

LEMMA SaveCourses ==
  ASSUME SwInv, Courses, NEW w \in SwWriters, Save(w) PROVE Courses'
<1> PICK m, its, cf : m = plan.maker /\ its = Items(w) /\ cf = plan.start
  OBVIOUS
<1>1. PICK fails \in BOOLEAN, late \in BOOLEAN :
        /\ late => fails
        /\ IF fails THEN SwFault ELSE UNCHANGED trouble
        /\ report' = [report EXCEPT ![w] =
             [ok |-> ~(writer[w].errors \/ (SaveError(w, fails, late) /\ ~Single(w))),
              saved |-> ~SaveError(w, fails, late),
              warned |-> SaveError(w, fails, late) /\
                ~(writer[w].errors \/ (SaveError(w, fails, late) /\ ~Single(w)))]]
        /\ writer' = [writer EXCEPT ![w].phase = "done", ![w].late = late]
  BY DEF Save
<1> PICK r : r = [writer[w] EXCEPT !.phase = "done", !.late = late]
  OBVIOUS
<1>2. writer' = [writer EXCEPT ![w] = r] /\ r.phase = "done"
  BY <1>1 DEF SwInv, Shapes, Shape, Requests
<1>3. /\ writer[w].phase = "run" /\ writer[w].todo = <<>> /\ w \in DOMAIN plan.asked
      /\ UNCHANGED <<plan, running>>
  BY DEF Save, Courses, Begun
<1>4. CASE fails
  BY <1>1, <1>2, <1>3, <1>4, FaultEnds, StepOfOne
<1>5. CASE ~fails
  <2>1. UNCHANGED trouble /\ trouble' \in Nat /\ ~late
    BY <1>1, <1>5 DEF Courses
  <2>2. report'[w].ok = ~(writer[w].errors \/ (SaveError(w, fails, late) /\ ~Single(w)))
    BY <1>1 DEF SwInv, Shapes
  <2>3. ASSUME CourseOf(m, its, cf, writer[w], report[w], running), Possible(m, its, cf)
        PROVE  CourseOf(m, its, cf, r, report'[w], running')
    <3>1. ~writer[w].errors /\ ~writer[w].late /\ running = Target(cf, its)
      BY <1>3, <2>3, CourseEnds
    <3>2. ~SaveError(w, fails, late)
      BY <1>5, <3>1 DEF SaveError
    <3>3. report'[w].ok
      BY <2>2, <3>1, <3>2
    <3> QED
      BY <1>2, <1>3, <3>1, <3>3 DEF CourseOf
  <2>4. Course(w)'
    BY <1>2, <1>3, <2>1, <2>3, CourseStep
  <2> QED
    BY <1>2, <1>3, <2>1, <2>4, StepOfOne
<1> QED
  BY <1>4, <1>5

LEMMA FaultCourses ==
  ASSUME SwInv, Courses, NEW w \in SwWriters, Break(w) \/ WebExpires(w) PROVE Courses'
<1>1. PICK r : writer' = [writer EXCEPT ![w] = r] /\ r.phase # "idle"
  <2>1. CASE Break(w)
    <3> PICK r : r = [writer[w] EXCEPT !.phase = "done"]
      OBVIOUS
    <3>1. writer' = [writer EXCEPT ![w] = r] /\ r.phase # "idle"
      BY <2>1 DEF Break, Answers, Goes, SwInv, Shapes, Shape, Requests
    <3> QED
      BY <3>1
  <2>2. CASE WebExpires(w)
    <3> PICK r : r = [writer[w] EXCEPT !.stale = TRUE]
      OBVIOUS
    <3>1. writer' = [writer EXCEPT ![w] = r] /\ r.phase # "idle"
      BY <2>2 DEF WebExpires, SwInv, Shapes, Shape, Requests
    <3> QED
      BY <3>1
  <2> QED
    BY <2>1, <2>2
<1>2. SwFault /\ plan' = plan /\ w \in DOMAIN plan.asked
  BY DEF Break, WebExpires, Courses, Begun
<1> QED
  BY <1>1, <1>2, FaultEnds, StepOfOne

LEMMA RebootCourses == ASSUME SwInv, Courses, Reboot PROVE Courses'
<1>1. SwFault /\ plan' = plan
  BY DEF Reboot
<1>2. ASSUME NEW w \in SwWriters PROVE writer'[w].phase # "idle" => writer[w].phase # "idle"
  BY DEF Reboot
<1>3. trouble' \in Nat /\ \A w \in SwWriters : Course(w)'
  <2>1. trouble' \in Nat /\ trouble' # 0
    BY <1>1 DEF Courses, SwFault
  <2> QED
    BY <2>1 DEF Course
<1>4. \A w \in SwWriters : Begun(w)'
  BY <1>1, <1>2 DEF Courses, Begun
<1> QED
  BY <1>1, <1>3, <1>4 DEF Courses

LEMMA CoursesAlways == SwSpec => []Courses
<1>1. SwInit => Courses
  <2> SUFFICES ASSUME SwInit PROVE Courses
    OBVIOUS
  <2>1. ASSUME NEW w \in SwWriters PROVE Begun(w) /\ Course(w)
    BY DEF SwInit, Begun, Course, CourseOf, NewWriter
  <2> QED
    BY <2>1 DEF SwInit, Courses
<1>2. SwInv /\ Courses /\ [SwNext]_swVars => Courses'
  <2> SUFFICES ASSUME SwInv, Courses, [SwNext]_swVars PROVE Courses'
    OBVIOUS
  <2>1. CASE UNCHANGED swVars
    BY <2>1 DEF swVars, Courses, Begun, Course, Alone, Items
  <2> QED
    BY <2>1, SubmitCourses, OpenCourses, CommandCourses, FinishCourses, SaveCourses,
       FaultCourses, RebootCourses DEF SwNext, WriterStep
<1> QED
  BY <1>1, <1>2, SwInvAlways, PTL DEF SwSpec

(* A request that is alone on a switch that does not fail, and asks for    *)
(* something possible, is answered ok and has left exactly what it asked   *)
(* for: for any items in any order, on either make of switch.              *)
THEOREM PossibleIsDone == SwSpec => []ConsistentBatchSucceeds
<1>1. Courses => ConsistentBatchSucceeds
  <2> SUFFICES ASSUME Courses, NEW w \in SwWriters, Finished(w), Alone(w), trouble = 0,
                      Consistent(plan.start, Items(w))
               PROVE  report[w].ok /\ running = Target(plan.start, Items(w))
    BY DEF ConsistentBatchSucceeds
  <2>1. plan \in SwPlans /\ w \in DOMAIN plan.asked
    BY DEF Courses, Begun, Finished
  <2>2. Possible(plan.maker, Items(w), plan.start)
    BY <2>1, SwPlansOK DEF Possible, Items, Makers
  <2> QED
    BY <2>2 DEF Courses, Course, CourseOf, Finished
<1> QED
  BY CoursesAlways, <1>1, PTL

-----------------------------------------------------------------------------
(* Types.  What a request has left to send is always the end of its own    *)
(* commands; a refused create over two forms takes its label along.        *)
Sends(w, q) ==
  \/ q = <<>>
  \/ /\ w \in DOMAIN plan.asked
     /\ \E k \in 0..Cardinality(Slots(plan.maker, Items(w))) :
          q = Rest(plan.maker, Items(w), k)
Typed == /\ plan \in SwPlans /\ trouble \in 0..plan.faults
         /\ running \in SwConfig /\ startup \in SwConfig
         /\ \A w \in SwWriters : Sends(w, writer[w].todo)

LEMMA SlotsCount ==
  ASSUME NEW m \in Makers, NEW its \in Seq(SwEdits)
  PROVE  Cardinality(Slots(m, its)) <= 2 * Len(its)
<1> PICK L, A, B : L = Len(its) /\ A = 1..L /\ B = {1, 2}
  OBVIOUS
<1>1. L \in Nat /\ DOMAIN its = A
  OBVIOUS
<1>2. IsFiniteSet(A) /\ Cardinality(A) = L
  <2>1. /\ IsFiniteSet(1..L)
        /\ Cardinality(1..L) = IF 1 > L THEN 0 ELSE L - 1 + 1
    <3>1. 1 \in Int /\ L \in Int
      BY <1>1
    <3> QED
      BY ONLY <3>1, FS_Interval
  <2> QED
    BY <1>1, <2>1
<1>3. IsFiniteSet(B) /\ Cardinality(B) = 2
  <2>1. IsFiniteSet({1}) /\ Cardinality({1}) = 1
    BY FS_Singleton, Zenon
  <2>2. IsFiniteSet({1} \union {2}) /\ Cardinality({1} \union {2}) = Cardinality({1}) + 1
    <3>1. 2 \notin {1}
      OBVIOUS
    <3> QED
      BY <2>1, <3>1, FS_AddElement
  <2>3. B = {1} \union {2}
    OBVIOUS
  <2> QED
    BY <2>1, <2>2, <2>3
<1>4. IsFiniteSet(A \X B) /\ Cardinality(A \X B) = L * 2
  <2>1. IsFiniteSet(A \X B) /\ Cardinality(A \X B) = Cardinality(A) * Cardinality(B)
    BY <1>2, <1>3, FS_Product, Zenon
  <2> QED
    BY <1>2, <1>3, <2>1
<1>5. Slots(m, its) \subseteq A \X B
  BY <1>1 DEF Slots
<1>6. Cardinality(Slots(m, its)) <= Cardinality(A \X B)
  BY <1>4, <1>5, FS_Subset
<1> QED
  BY <1>1, <1>4, <1>6

LEMMA LenRest ==
  ASSUME NEW m \in Makers, NEW its \in Seq(SwEdits),
         NEW k \in 0..Cardinality(Slots(m, its))
  PROVE  Len(Rest(m, its, k)) <= 2 * Len(its)
<1> PICK N, q, L : N = Cardinality(Slots(m, its)) /\ q = Rest(m, its, k) /\ L = N - k
  OBVIOUS
<1>1. N \in Nat /\ N <= 2 * Len(its) /\ L \in 0..N /\ Len(its) \in Nat
  BY SlotsFinite, SlotsCount
<1>2. q = [n \in 1..L |-> q[n]]
  BY DEF Rest
<1> PICK T : T = {q[n] : n \in 1..L}
  OBVIOUS
<1>3. q \in [1..L -> T] /\ L \in Nat
  BY <1>1, <1>2
<1>4. q \in UNION {[1..n -> T] : n \in Nat}
  BY <1>3
<1>5. q \in Seq(T)
  <2>1. Seq(T) = UNION {[1..n -> T] : n \in Nat}
    BY SeqDef
  <2> QED
    BY <1>4, <2>1, Zenon
<1>6. Len(q) = L
  <2>1. Len(q) \in Nat /\ DOMAIN q = 1..Len(q) /\ DOMAIN q = 1..L
    BY <1>3, <1>5, LenProperties
  <2> PICK K : K = Len(q)
    OBVIOUS
  <2> QED
    BY <1>3, <2>1
<1> QED
  BY <1>1, <1>6

(* The label of a create follows its number at once, so that with a        *)
(* refused number its own label is skipped and no other command.           *)
LEMMA LabelFollows ==
  ASSUME NEW m \in Makers, NEW its \in Seq(SwEdits), NEW N, N = Cardinality(Slots(m, its)),
         NEW k \in 0..(N - 1), NEW s, s = Nth(m, its, k + 1), Form(m, its, s).op = "add"
  PROVE  k + 2 \in 0..N /\ Nth(m, its, k + 2) = <<s[1], 2>>
<1>1. N \in Nat /\ k \in Nat /\ k + 1 \in 1..N
  BY SlotsFinite
<1>2. s \in Slots(m, its) /\ Cardinality(Ahead(m, its, s)) = k
  BY <1>1, NthIs
<1> PICK n, t : n = s[1] /\ t = <<n, 2>>
  OBVIOUS
<1>3. s = <<n, 1>> /\ m = "hpe" /\ its[n].op = "create" /\ n \in 1..Len(its) /\ its[n] \in SwEdits
  BY <1>2, FormIs, OpIs DEF Starts
<1>4. t \in Slots(m, its) /\ t[1] = n /\ t[2] = 2 /\ s[1] = n /\ s[2] = 1 /\ t # s
  BY <1>3, SlotIs
<1>5. Sooner(its, s, t)
  BY <1>4 DEF Sooner
<1>6. k + 2 \in 0..N /\ k + 1 \in 0..(N - 1)
  <2>1. /\ Cardinality(Ahead(m, its, s)) < Cardinality(Ahead(m, its, t))
        /\ Cardinality(Ahead(m, its, t)) \in 0..(N - 1)
    BY <1>2, <1>4, <1>5, RanksFit
  <2> QED
    BY <1>1, <1>2, <2>1
<1> PICK u, D, E : u = Nth(m, its, k + 2) /\ D = First(m, its, k) /\ E = First(m, its, k + 1)
  OBVIOUS
<1>7. /\ s \notin D /\ D \subseteq Slots(m, its) /\ E = D \union {s}
      /\ \A v \in D : Sooner(its, v, s)
      /\ \A v \in Slots(m, its) : v = s \/ v \in D \/ Sooner(its, s, v)
  BY NextSlot
<1>8. /\ u \in Slots(m, its) /\ u \notin E
      /\ \A v \in Slots(m, its) : v = u \/ v \in E \/ Sooner(its, u, v)
  <2>1. u = Nth(m, its, (k + 1) + 1)
    BY <1>1
  <2> QED
    BY <1>6, <2>1, NextSlot
<1>9. Sooner(its, s, u)
  BY <1>7, <1>8
<1>10. t \notin E
  BY <1>2, <1>4, <1>5, <1>7, SoonerOrders
<1>11. ~Sooner(its, u, t)
  <2> SUFFICES ASSUME Sooner(its, u, t) PROVE FALSE
    OBVIOUS
  <2>1. u[1] \in 1..Len(its) /\ u[2] \in {1, 2} /\ its[u[1]] \in SwEdits /\ Len(its) \in Nat
    BY <1>8, SlotsFinite
  <2>2. Turn(its[u[1]]) \in Int /\ Turn(its[n]) \in Int
    BY <1>3, <2>1, TurnOf
  <2>3. /\ \/ Turn(its[n]) < Turn(its[u[1]])
           \/ Turn(its[n]) = Turn(its[u[1]]) /\ (n < u[1] \/ (n = u[1] /\ 1 < u[2]))
        /\ \/ Turn(its[u[1]]) < Turn(its[n])
           \/ Turn(its[u[1]]) = Turn(its[n]) /\ (u[1] < n \/ (u[1] = n /\ u[2] < 2))
    BY <1>4, <1>9 DEF Sooner
  <2> QED
    BY <1>3, <2>1, <2>2, <2>3
<1>12. u = t
  BY <1>4, <1>8, <1>10, <1>11
<1> QED
  BY <1>6, <1>12

(* A step that is no command of w leaves the configurations alone, or      *)
(* takes one over from the other.                                          *)
LEMMA TypedKeeps ==
  ASSUME Typed, plan' = plan, UNCHANGED trouble \/ SwFault,
         running' \in {running, startup}, startup' \in {running, startup},
         \A w \in SwWriters : \/ writer'[w].todo = writer[w].todo
                              \/ Sends(w, writer'[w].todo)
  PROVE  Typed'
<1>1. trouble' \in 0..plan'.faults
  <2>1. plan.faults \in Nat
    BY SwPlansOK DEF Typed
  <2> QED
    BY <2>1 DEF Typed, SwFault
<1>2. ASSUME NEW w \in SwWriters PROVE Sends(w, writer[w].todo)'
  <2>1. PICK q : q = writer'[w].todo
    OBVIOUS
  <2>2. Sends(w, q)
    BY <2>1 DEF Typed
  <2> QED
    BY <2>1, <2>2 DEF Sends, Items
<1> QED
  BY <1>1, <1>2 DEF Typed

LEMMA ConfigsSame ==
  ASSUME NEW run
  PROVE  run \in SwConfig <=> IsConfig(run) /\ \A v \in SwVids : run.name[v] \in STRING
<1>1. ASSUME run \in SwConfig
      PROVE  IsConfig(run) /\ \A v \in SwVids : run.name[v] \in STRING
  <2>1. PICK n, o : n = run.name /\ o = run.mode
    OBVIOUS
  <2>2. /\ run = [name |-> n, mode |-> o] /\ n \in [SwVids -> STRING]
        /\ o \in [SwVids -> [SwPorts -> Modes]]
    BY <1>1, <2>1 DEF SwConfig
  <2>3. n = [v \in SwVids |-> n[v]] /\ \A v \in SwVids : n[v] \in STRING
    BY <2>2
  <2> QED
    BY <2>1, <2>2, <2>3 DEF IsConfig
<1>2. ASSUME IsConfig(run), \A v \in SwVids : run.name[v] \in STRING PROVE run \in SwConfig
  <2>1. PICK n, o : /\ run = [name |-> n, mode |-> o] /\ n = [v \in SwVids |-> n[v]]
                    /\ o \in [SwVids -> [SwPorts -> Modes]]
    BY <1>2 DEF IsConfig
  <2>2. run.name = n
    BY <2>1
  <2>3. n \in [SwVids -> STRING]
    BY <1>2, <2>1, <2>2
  <2> QED
    BY <2>1, <2>3 DEF SwConfig
<1> QED
  BY <1>1, <1>2

LEMMA CommandTyped ==
  ASSUME SwInv, Typed, NEW w \in SwWriters, Command(w)
  PROVE  Typed'
<1> PICK m, its, q, x : /\ m = plan.maker /\ its = Items(w) /\ q = writer[w].todo /\ x = Head(q)
  OBVIOUS
<1> PICK N : N = Cardinality(Slots(m, its))
  OBVIOUS
<1>1. q # <<>> /\ Sends(w, q) /\ plan' = plan
  BY DEF Command, Typed
<1>2. w \in DOMAIN plan.asked /\ \E k \in 0..N : q = Rest(m, its, k)
  BY <1>1 DEF Sends
<1>3. PICK k \in 0..N : q = Rest(m, its, k)
  BY <1>2
<1>4. m \in Makers /\ its \in Seq(SwEdits) /\ plan.faults \in Nat
  BY <1>2, SwPlansOK DEF Typed, Makers, Items
<1>5. N \in Nat
  BY <1>4, SlotsFinite
<1> PICK s : s = Nth(m, its, k + 1)
  OBVIOUS
<1>6. k + 1 \in 0..N /\ x = Form(m, its, s) /\ Tail(q) = Rest(m, its, k + 1)
  BY <1>1, <1>3, <1>4, RestIs
<1>7. k \in 0..(N - 1) /\ k + 1 \in 1..N
  BY <1>5, <1>6
<1>8. s \in Slots(m, its)
  BY <1>4, <1>7, NthIs
<1>9. ASSUME x.op = "add" PROVE k + 2 \in 0..N /\ Tail(Tail(q)) = Rest(m, its, k + 2)
  <2>1. k + 2 \in 0..N
    BY <1>4, <1>6, <1>7, <1>9, LabelFollows
  <2>2. PICK j : j = k + 1
    OBVIOUS
  <2>3. j \in 0..N /\ j # N /\ j + 1 = k + 2 /\ Tail(q) = Rest(m, its, j)
    BY <1>5, <1>6, <2>1, <2>2
  <2>4. Tail(Rest(m, its, j)) = Rest(m, its, j + 1)
    BY <1>4, <2>3, RestIs
  <2> QED
    BY <2>1, <2>3, <2>4
<1>10. /\ Sends(w, Tail(q))
       /\ x.op = "add" => Sends(w, Tail(Tail(q)))
  BY <1>2, <1>6, <1>9 DEF Sends
<1>11. trouble' \in 0..plan'.faults
  BY <1>1, <1>4 DEF Command, Typed, SwFault
<1>12. running' \in {running, Applied(running, x)} /\ startup' \in {running', startup}
  BY DEF Command
<1>13. Applied(running, x) \in SwConfig
  <2>1. PICK new : new = Applied(running, x)
    OBVIOUS
  <2>2. /\ x.op \in Starts \union {"rename", "change", "delete"} /\ x.vid \in SwVids
        /\ x.name \in STRING /\ x.mode \in Modes
    BY <1>4, <1>6, <1>8, OpIs
  <2>3. IsConfig(running) /\ \A v \in SwVids : running.name[v] \in STRING
    BY ConfigsSame DEF Typed
  <2>4. IsConfig(new) /\ \A v \in SwVids : new.name[v] \in STRING
    <3>1. /\ IsConfig(new)
          /\ x.op # "change" =>
               /\ \A v \in SwVids : v # x.vid => new.name[v] = running.name[v]
               /\ new.name[x.vid] = IF x.op = "add" THEN "VLAN"
                                    ELSE IF x.op = "delete" THEN Absent ELSE x.name
          /\ x.op = "change" => new.name = running.name
      BY <2>1, <2>2, <2>3, AppliedIs
    <3>2. PICK n, o : n = new.name /\ o = running.name
      OBVIOUS
    <3>3. CASE x.op = "change"
      BY <2>3, <3>1, <3>3
    <3>4. CASE x.op # "change"
      <4>1. PICK t : t = IF x.op = "add" THEN "VLAN"
                         ELSE IF x.op = "delete" THEN Absent ELSE x.name
        OBVIOUS
      <4>2. t \in STRING
        <5>1. "VLAN" \in STRING /\ Absent \in STRING
          BY SwTextsAreStrings
        <5> QED
          BY <2>2, <4>1, <5>1
      <4>3. n[x.vid] = t /\ \A v \in SwVids : v # x.vid => n[v] = o[v]
        BY <3>1, <3>2, <3>4, <4>1
      <4>4. \A v \in SwVids : n[v] \in STRING
        <5> SUFFICES ASSUME NEW v \in SwVids PROVE n[v] \in STRING
          OBVIOUS
        <5>1. o[v] \in STRING
          BY <2>3, <3>2
        <5> QED
          BY <4>2, <4>3, <5>1
      <4> QED
        BY <3>1, <3>2, <4>4
    <3> QED
      BY <3>3, <3>4
  <2> QED
    BY <2>1, <2>4, ConfigsSame
<1>14. running' \in SwConfig /\ startup' \in SwConfig
  BY <1>12, <1>13 DEF Typed
<1>15. ASSUME NEW u \in SwWriters PROVE Sends(u, writer[u].todo)'
  <2>1. PICK t : t = writer'[u].todo
    OBVIOUS
  <2>2. CASE u # w
    <3>1. writer'[u] = writer[u]
      BY <2>2 DEF Command, SwInv, Shapes
    <3>2. Sends(u, t)
      BY <2>1, <3>1 DEF Typed
    <3> QED
      BY <1>1, <2>1, <3>2 DEF Sends, Items
  <2>3. CASE u = w
    <3>1. t = Tail(q) \/ (x.op = "add" /\ t = Tail(Tail(q)))
      BY <2>1, <2>3 DEF Command, SwInv, Shapes, Shape, Requests
    <3>2. Sends(u, t)
      BY <1>10, <2>3, <3>1
    <3> QED
      BY <1>1, <2>1, <3>2 DEF Sends, Items
  <2> QED
    BY <2>2, <2>3
<1> QED
  BY <1>1, <1>11, <1>14, <1>15 DEF Typed

LEMMA SubmitTyped ==
  ASSUME SwInv, Typed, NEW w \in SwWriters, Submit(w)
  PROVE  Typed'
<1> PICK m, its : m = plan.maker /\ its = Items(w)
  OBVIOUS
<1>1. m \in Makers /\ its \in Seq(SwEdits) /\ w \in DOMAIN plan.asked
  BY SwPlansOK DEF Submit, Typed, Makers, Items
<1>2. 0 \in 0..Cardinality(Slots(m, its)) /\ Commands(m, its) = Rest(m, its, 0)
  <2>1. 0 \in 0..Cardinality(Slots(m, its))
    BY <1>1, SlotsFinite
  <2> QED
    BY <1>1, <2>1, RestIs
<1>3. Sends(w, Commands(m, its))
  BY <1>1, <1>2 DEF Sends
<1>4. \A u \in SwWriters : \/ writer'[u].todo = writer[u].todo
                           \/ Sends(u, writer'[u].todo)
  BY <1>3 DEF Submit, Answers, Goes, SwInv, Shapes, Shape, Requests
<1> QED
  BY <1>4, TypedKeeps DEF Submit

LEMMA TypedAlways == SwSpec => []Typed
<1>1. SwInit => Typed
  <2> SUFFICES ASSUME SwInit PROVE Typed
    OBVIOUS
  <2>1. plan \in SwPlans /\ plan.faults \in Nat /\ plan.start \in SwConfig
    BY SwPlansOK DEF SwInit
  <2>2. \A w \in SwWriters : writer[w].todo = <<>>
    BY DEF SwInit, NewWriter
  <2> QED
    BY <2>1, <2>2 DEF SwInit, Typed, Sends
<1>2. SwInv /\ Typed /\ [SwNext]_swVars => Typed'
  <2> SUFFICES ASSUME SwInv, Typed, [SwNext]_swVars PROVE Typed'
    OBVIOUS
  <2>1. CASE UNCHANGED swVars
    BY <2>1, TypedKeeps DEF swVars
  <2>2. ASSUME NEW w \in SwWriters, OpenSession(w) \/ Finish(w) \/ Break(w) \/ WebExpires(w)
        PROVE  Typed'
    <3>1. \A u \in SwWriters : writer'[u].todo = writer[u].todo
      BY <2>2 DEF OpenSession, Finish, Break, WebExpires, Answers, Goes,
                  SwInv, Shapes, Shape, Requests
    <3> QED
      BY <2>2, <3>1, TypedKeeps DEF OpenSession, Finish, Break, WebExpires
  <2>3. ASSUME NEW w \in SwWriters, Save(w) PROVE Typed'
    <3>1. \A u \in SwWriters : writer'[u].todo = writer[u].todo
      BY <2>3 DEF Save, SwInv, Shapes, Shape, Requests
    <3>2. startup' \in {running, startup} /\ (SwFault \/ UNCHANGED trouble)
      BY <2>3 DEF Save
    <3> QED
      BY <2>3, <3>1, <3>2, TypedKeeps DEF Save
  <2>4. CASE Reboot
    <3>1. \A u \in SwWriters : writer'[u].todo = writer[u].todo
      BY <2>4 DEF Reboot, SwInv, Shapes, Shape, Requests
    <3> QED
      BY <2>4, <3>1, TypedKeeps DEF Reboot
  <2> QED
    BY <2>1, <2>2, <2>3, <2>4, SubmitTyped, CommandTyped DEF SwNext, WriterStep
<1> QED
  BY <1>1, <1>2, SwInvAlways, PTL DEF SwSpec

(* The configuration stays one of the switch, and a request never sends    *)
(* more than two commands for an item: also where a refused number takes   *)
(* the label behind it along, which is then always there and its own.      *)
THEOREM SwitchTyped == SwSpec => []SwTypeOK
<1>1. SwInv /\ Typed => SwTypeOK
  <2> SUFFICES ASSUME SwInv, Typed PROVE SwTypeOK
    OBVIOUS
  <2>1. plan.maker \in {"dlink", "hpe"} /\ plan.start \in SwConfig
    BY SwPlansOK DEF Typed
  <2>2. ASSUME NEW w \in SwWriters, w \in DOMAIN plan.asked
        PROVE  Len(writer[w].todo) <= 2 * Len(Items(w))
    <3>1. plan.maker \in Makers /\ Items(w) \in Seq(SwEdits) /\ Len(Items(w)) \in Nat
      BY <2>2, SwPlansOK DEF Typed, Makers, Items
    <3> QED
      BY <3>1, LenRest DEF Typed, Sends
  <2>3. /\ report \in [SwWriters -> [ok : BOOLEAN, saved : BOOLEAN, warned : BOOLEAN]]
        /\ refused \in [SwWriters -> BOOLEAN]
    BY DEF SwInv, Shapes, Shape
  <2>4. ASSUME NEW w \in SwWriters
        PROVE  /\ writer[w].phase \in {"idle", "open", "run", "done"}
               /\ {writer[w].errors, writer[w].late, writer[w].stale} \subseteq BOOLEAN
    BY DEF SwInv, Shapes, Shape, Requests
  <2> QED
    BY <2>1, <2>2, <2>3, <2>4 DEF Typed, SwTypeOK
<1> QED
  BY <1>1, SwInvAlways, TypedAlways, PTL
===============================================================================

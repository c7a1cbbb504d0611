--------------------------- MODULE MCIntegrations ---------------------------
(***************************************************************************)
(* Small instances of the four device and service integrations for TLC.    *)
(* They share nothing, so a behaviour runs one of them (`part`) while the  *)
(* others rest in one initial state: the sum of their states, not the      *)
(* product.                                                                *)
(***************************************************************************)
EXTENDS BmcSession, SwitchBatch, Monitors, UsbUps

VARIABLE part

intVars == <<bmcVars, swVars, monVars, upsVars, part>>

-----------------------------------------------------------------------------
(* Sessions: every kind, beside an action, a second poll, a KVM launch or  *)
(* a connection test, with the fetches that gather most.                   *)
Case(k, other, keys, n) ==
  [kind |-> k, role |-> [i \in BmcInsts |-> IF i = "a" THEN "poll" ELSE other],
   keys |-> keys, faults |-> n]
MCBmcCases ==
  {Case("xmlapi", "action", <<"hardware">>, 1),
   Case("xmlapi", "probe", <<"status", "network">>, 1),
   Case("xmlapi", "kvm", <<"power">>, 0),
   Case("hybridXml", "poll", <<"storage">>, 1),
   Case("hybridXml", "kvm", <<"storage">>, 1),
   Case("hybridXml", "kvm", <<"hardware", "network">>, 1),
   Case("hybridRf", "action", <<"status", "hardware">>, 2),
   Case("ibmc", "action", <<"status", "hardware", "storage", "power">>, 1)}

(* Switch: alone, any order of up to four of seven edits; two users with   *)
(* edits that meet, and two faults.                                        *)
Edited(edit, v, name, mode) ==
  [op |-> edit, vid |-> v, name |-> name, port |-> "p", mode |-> mode]
Create2 == Edited("create", 2, "a", "none")
Rename2 == Edited("rename", 2, "b", "none")
Change(v, mode) == Edited("change", v, "-", mode)
Delete(v) == Edited("delete", v, "-", "none")
Edits7 == {Create2, Rename2, Change(2, "tagged"), Change(2, "untagged"),
           Change(3, "none"), Change(3, "untagged"), Delete(3)}
Once(n) == {s \in [1..n -> Edits7] : \A k, l \in 1..n : s[k] = s[l] => k = l}

Config(names, modes) ==
  [name |-> names, mode |-> [v \in SwVids |-> [p \in SwPorts |-> modes[v]]]]
Starts ==
  {Config(<<"default", "", "c">>, <<"untagged", "none", "tagged">>),
   Config(<<"default", "", "c">>, <<"none", "none", "untagged">>)}

Batch(items) == [single |-> FALSE, items |-> items]
Asked == {Batch(<<Create2, Change(2, "untagged"), Delete(3)>>),
          Batch(<<Delete(3), Change(3, "none")>>),
          Batch(<<Delete(1), Create2>>),
          [single |-> TRUE, items |-> <<Delete(3)>>],
          [single |-> TRUE, items |-> <<Create2>>]}
Plan(k, start, asked, n) ==
  [maker |-> k, start |-> start, asked |-> asked, faults |-> n]
MCSwPlans ==
  {Plan(k, cf, [w \in {"u"} |-> Batch(s)], 0) :
     k \in {"dlink", "hpe"}, cf \in Starts, s \in UNION {Once(n) : n \in 1..4}}
  \union
  {Plan(k, cf, [w \in {"u", "v"} |-> IF w = "u" THEN a ELSE b], 2) :
     k \in {"dlink", "hpe"}, cf \in Starts, a \in Asked, b \in Asked}

(* Monitors: a user alone, with and without faults; two users who meet on  *)
(* a page; two users whose requests outlive a row.                         *)
MonPlan(users, n, f, pages) ==
  [users |-> users, requests |-> n, faults |-> f, pages |-> pages]
MCMonPlans ==
  {MonPlan({"u"}, 3, 0, {1, 2}), MonPlan({"u"}, 2, 2, {1, 2}),
   MonPlan({"u", "v"}, 2, 1, {1, 2}), MonPlan({"u", "v"}, 4, 0, {})}

(* UPS: reads in a row for the filter, two polls at a time, and a wedged   *)
(* bus under three readers while time passes.                              *)
MCUpsCases ==
  {[readers |-> {"poll"}, reads |-> 5, faults |-> 1, changes |-> 1, time |-> 0],
   [readers |-> {"poll", "refresh"}, reads |-> 2, faults |-> 1, changes |-> 1,
    time |-> 0],
   [readers |-> {"poll", "test", "diag"}, reads |-> 2, faults |-> 1,
    changes |-> 0, time |-> 2]}

-----------------------------------------------------------------------------
FirstBmc == CHOOSE c \in BmcCases : TRUE
FirstPlan == CHOOSE p \in SwPlans : TRUE
FirstMon == CHOOSE p \in MonPlans : TRUE
FirstScene == CHOOSE c \in UpsCases : TRUE

IntInit ==
  /\ part \in {"bmc", "switch", "monitors", "ups"}
  /\ BmcInit /\ (part = "bmc" \/ channel = FirstBmc)
  /\ UpsInit /\ (part = "ups" \/ (scene = FirstScene /\ ups.level = UpsTop))
  /\ MonInit /\ (part = "monitors" \/ mplan = FirstMon)
  /\ SwInit /\ (part = "switch" \/ plan = FirstPlan)

OnlyBmc(A) == part = "bmc" /\ A /\ UNCHANGED <<swVars, monVars, upsVars, part>>
OnlySw(A) == part = "switch" /\ A /\ UNCHANGED <<bmcVars, monVars, upsVars, part>>
OnlyMon(A) == part = "monitors" /\ A /\ UNCHANGED <<bmcVars, swVars, upsVars, part>>
OnlyUps(A) == part = "ups" /\ A /\ UNCHANGED <<bmcVars, swVars, monVars, part>>

IntNext == \/ OnlyBmc(BmcNext) \/ OnlySw(SwNext)
           \/ OnlyMon(MonNext) \/ OnlyUps(UpsNext)

(* Less than the fairness of the four specifications: someone goes on.     *)
Busy == \/ OnlyBmc(\E i \in BmcInsts : BmcSteps(i))
        \/ OnlySw(\E w \in SwWriters : WriterStep(w))
        \/ OnlyMon(\E u \in MonUsers : MonStep(u))
        \/ OnlyUps(\E r \in UpsReaders : ReaderStep(r))

IntSpec == IntInit /\ [][IntNext]_intVars /\ WF_intVars(Busy)

-----------------------------------------------------------------------------
(* All four are well typed; the bounds these types state are the limits of *)
(* the code: one handle of a UPS, two forms for an edit, one retry.        *)
IntegrationsTypeOK == BmcTypeOK /\ SwTypeOK /\ MonTypeOK /\ UpsTypeOK

(* Whatever fails, everything that was begun ends: polls and actions close *)
(* their sessions, switch and monitor requests are answered, UPS reads end.*)
EveryoneFinishes == []<>(BmcAtRest /\ SwAtRest /\ MonAtRest /\ UpsAtRest)
=============================================================================

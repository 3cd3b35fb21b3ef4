--------------------------- MODULE LocalGoalsProofs ---------------------------
(***************************************************************************)
(* What local goals promise, for every number of requests, processes, run  *)
(* ids, calibrations and folders: what runs was reviewed (RunsAsReviewed), *)
(* what is shown and applied is finished (ReviewsAreFinished), what is     *)
(* told is true (GoalsInv), and evidence stays (EvidenceStays).            *)
(***************************************************************************)
EXTENDS LocalGoals, TLAPS

-----------------------------------------------------------------------------
(***************************************************************************)
(* The inductive invariant.  Whoever works on a run holds the lease, so    *)
(* the settings it was admitted under stay; a run is begun where nothing   *)
(* of its id is, and until its end record nothing says that it ended.      *)
(***************************************************************************)
Origins == {"managed", "external", "damaged"}

Task == [pc : Pcs, kind : Kinds, id : Id \cup {None}, place : Place,
         plan : Plan \cup {None}, shown : Plan \cup {None}, origin : Origins,
         result : States \cup {"error", "cancelled"}, rounds : Nat]

Desks == [id : Id \cup {None}, running : BOOLEAN, asked : BOOLEAN,
          receipt : States \cup {"finalizing"}]

Settings == [place : Place, used : BOOLEAN, profile : Profile \cup {None}]

TypeInv ==
    /\ settings \in Settings
    /\ plugged \subseteq Folder
    /\ runtime \in Origins
    /\ planFile \in {None} \cup [reviewed : Plan, now : Plan]
    /\ lease \in Actor \cup {None}
    /\ evidence \in [Place -> [Id -> Evidence]]
    /\ task \in [Actor -> Task]
    /\ desk \in Desks
    /\ returned \in [Id -> {"none"} \cup Final]
    /\ applied \subseteq Id

\* Evidence of a run is in one place, which stays the chosen one.
PlaceInv ==
    \A i \in Id :
        /\ \A x \in Place :
             ~Has(x, i) => evidence[x][i].end = "none" /\ evidence[x][i].ended = "none"
        /\ \A x \in Folder : Has(x, i) => settings.used /\ settings.place = x
        /\ \A x, y \in Place : Has(x, i) /\ Has(y, i) => x = y

Finished(i) == \E x \in Place : evidence[x][i].end = "review"

\* What is finished was returned, and what is applied is finished.
FinishInv ==
    /\ \A i \in Id : Finished(i) => returned[i] = "review"
    /\ \A i \in applied : Finished(i)

NotOver(i) == \A x \in Place : evidence[x][i].end = "none" /\ evidence[x][i].ended = "none"

\* What whoever works on a run relies on.
Works(a) ==
    /\ task[a].pc \in Holding =>
         /\ lease = a /\ task[a].id \in Id
         /\ settings.place = task[a].place
         /\ task[a].place # Legacy => settings.used
    /\ At(a, "prepared") => \A x \in Place : ~Has(x, task[a].id)
    /\ task[a].pc \in {"begun", "running", "returned"} =>
         Mine(a).attempt /\ NotOver(task[a].id)
    /\ At(a, "returned") /\ task[a].result \in Final => returned[task[a].id] = task[a].result
    /\ task[a].pc \in {"ended", "published"} =>
         Mine(a).attempt /\ (task[a].result = "review" <=> Mine(a).end = "review")

Applies(a) == At(a, "applying") => task[a].id \in Id /\ Finished(task[a].id)

\* What is carried to admission, and what was shown.
Reviewed(a) ==
    /\ task[a].pc \in {"reviewed", "confirmed"} \cup Admitted =>
         /\ task[a].plan \in Plan /\ task[a].shown \in Plan
         /\ task[a].plan.profile = task[a].shown.profile
         /\ task[a].plan.unverified => task[a].shown.unverified
    /\ task[a].pc \in Admitted =>
         /\ settings.profile = task[a].shown.profile
         /\ task[a].origin # "managed" => task[a].shown.unverified

\* The sidecar's own run is the one in its State, everybody else's is not.
Live == {"running", "returned", "ended"}

Alive(a) == a \in Handler /\ task[a].pc \in Live

Shows(a) ==
    /\ Alive(a) => desk.running /\ desk.id = task[a].id
    /\ task[a].pc \in Holding /\ (a \in Shell \/ task[a].pc \in Admitted) => task[a].id # desk.id

\* A request cannot be left at an end whose record failed.
Requested(a) ==
    a \in Handler => task[a].kind = "request" /\ (At(a, "ended") => task[a].result \in States)

Own(a) == Works(a) /\ Applies(a) /\ Reviewed(a) /\ Shows(a) /\ Requested(a)

DeskInv ==
    /\ desk.running => desk.receipt # "review" /\ \E a \in Handler : Alive(a)
    /\ desk.id = None => ~desk.running /\ desk.receipt # "review"
    /\ desk.id # None => \E x \in Place : Has(x, desk.id)
    /\ desk.id # None /\ ~desk.running => (desk.receipt = "review" <=> Finished(desk.id))
    /\ orphans = {}

IInv == TypeInv /\ PlaceInv /\ FinishInv /\ DeskInv /\ \A a \in Actor : Own(a)

-----------------------------------------------------------------------------
(***************************************************************************)
(* A step of one actor.  Others that work on a run hold the lease, and     *)
(* then this one changes nothing they rely on.                             *)
(***************************************************************************)
Others(a) == \A b \in Actor \ {a} : task'[b] = task[b]

Shared == <<settings, evidence, returned, desk, orphans>>

LEMMA StepOf ==
    ASSUME IInv, NEW a \in Actor,
           TypeInv', PlaceInv', FinishInv', DeskInv', Own(a)', Others(a),
           settings'.profile = settings.profile,
           \A i \in Id : Finished(i) => Finished(i)',
           lease \in {a, None} \/ UNCHANGED <<lease, Shared>>
    PROVE  IInv'
<1> SUFFICES ASSUME NEW b \in Actor \ {a} PROVE Own(b)'
  BY DEF IInv
<1>1. Own(b) /\ task'[b] = task[b] /\ task[b].id \in Id \cup {None}
  BY DEF IInv, Others, TypeInv, Task
<1>2. Applies(b)' /\ Reviewed(b)' /\ Requested(b)'
  <2>1. Applies(b)'
    BY <1>1 DEF Own, Applies, At
  <2>2. Reviewed(b)'
    BY <1>1 DEF Own, Reviewed
  <2>3. Requested(b)'
    BY <1>1 DEF Own, Requested, At
  <2> QED
    BY <2>1, <2>2, <2>3
<1>3. CASE task[b].pc \in Holding
  <2>1. lease = b /\ b # None
    BY <1>1, <1>3, GoalsAssumption DEF Own, Works
  <2>2. UNCHANGED <<lease, settings, evidence, returned, desk, orphans>>
    BY <2>1 DEF Shared
  <2>3. Works(b)'
    BY <1>1, <2>2 DEF Own, Works, At, Mine, Has, NotOver
  <2>4. Shows(b)'
    BY <1>1, <2>2 DEF Own, Shows, Alive
  <2> QED
    BY <1>2, <2>3, <2>4 DEF Own
<1>4. CASE task[b].pc \notin Holding
  <2>1. Works(b)' /\ Shows(b)'
    BY <1>1, <1>4 DEF Works, Shows, Alive, Live, At, Holding, Admitted
  <2> QED
    BY <1>2, <2>1 DEF Own
<1> QED
  BY <1>3, <1>4

\* It changes nothing on disk, nor in the sidecar's State.
LEMMA QuietStep ==
    ASSUME IInv, NEW a \in Actor,
           UNCHANGED <<Shared, plugged, runtime, planFile>>,
           lease' \in Actor \cup {None}, lease \in {a, None} \/ lease' = lease,
           task' \in [Actor -> Task], Others(a), Own(a)',
           Alive(a) => Alive(a)',
           applied' \subseteq Id, \A i \in applied' : i \in applied \/ Finished(i)
    PROVE  IInv'
<1>1. settings' = settings /\ evidence' = evidence /\ returned' = returned /\ desk' = desk
      /\ orphans' = orphans /\ plugged' = plugged /\ runtime' = runtime /\ planFile' = planFile
  BY DEF Shared
<1>2. TypeInv'
  BY <1>1 DEF IInv, TypeInv
<1>3. PlaceInv' /\ \A i \in Id : Finished(i)' <=> Finished(i)
  BY <1>1 DEF IInv, PlaceInv, Finished, Has
<1>4. FinishInv'
  BY <1>1 DEF IInv, FinishInv, Finished
<1>5. DeskInv'
  <2>1. desk.running => \E b \in Handler : Alive(b)'
    <3> SUFFICES ASSUME NEW b \in Handler, Alive(b) PROVE Alive(b)'
      BY DEF IInv, DeskInv
    <3> QED
      BY DEF Others, Alive, Actor
  <2> QED
    BY <1>1, <2>1 DEF IInv, DeskInv, Has, Finished
<1> QED
  BY <1>1, <1>2, <1>3, <1>4, <1>5, StepOf DEF Shared
-----------------------------------------------------------------------------
(***************************************************************************)
(* Records.  What each update does to the fields of a task, of evidence    *)
(* and of the sidecar's State.                                             *)
(***************************************************************************)
LEMMA Blank ==
    /\ Idle \in Task /\ Idle.pc = "idle" /\ Idle.kind = "request" /\ Idle.id = None
    /\ NoEvidence \in Evidence /\ NoEvidence.end = "none" /\ NoEvidence.ended = "none"
    /\ NoEvidence.receipt = "none" /\ NoEvidence.intact /\ ~NoEvidence.attempt
    /\ NoRun.id = None /\ ~NoRun.running /\ NoRun.receipt = "none"
    /\ NoRun \in Desks
  BY DEF Idle, Task, NoEvidence, Evidence, NoRun, Desks, Pcs, Kinds, Place, Origins, States,
     Final, Unfinished, Cut

LEMMA Moves ==
    ASSUME task \in [Actor -> Task], NEW a \in Actor, NEW pc \in Pcs, Goto(a, pc)
    PROVE  /\ task' \in [Actor -> Task] /\ Others(a)
           /\ task'[a].pc = pc
           /\ task'[a].kind = task[a].kind /\ task'[a].id = task[a].id
           /\ task'[a].place = task[a].place /\ task'[a].plan = task[a].plan
           /\ task'[a].shown = task[a].shown /\ task'[a].origin = task[a].origin
           /\ task'[a].result = task[a].result
<1> DEFINE x == [task[a] EXCEPT !.pc = pc]
<1>1. task[a] \in Task
  OBVIOUS
<1>2. /\ x \in Task /\ x.pc = pc /\ x.kind = task[a].kind /\ x.id = task[a].id
      /\ x.place = task[a].place /\ x.plan = task[a].plan /\ x.shown = task[a].shown
      /\ x.origin = task[a].origin /\ x.result = task[a].result
  BY <1>1 DEF Task
<1>3. task' = [task EXCEPT ![a] = x]
  BY DEF Goto
<1> QED
  BY <1>2, <1>3 DEF Others

LEMMA Leaves ==
    ASSUME task \in [Actor -> Task], NEW a \in Actor, Leave(a)
    PROVE  /\ task' \in [Actor -> Task] /\ Others(a)
           /\ task'[a].pc = "idle" /\ task'[a].kind = "request"
  BY Blank DEF Leave, Others

LEMMA Prepares ==
    ASSUME task \in [Actor -> Task], NEW a \in Actor, NEW i \in Id, runtime \in Origins,
           task' = [task EXCEPT ![a].id = i, ![a].origin = runtime, ![a].pc = "prepared"]
    PROVE  /\ task' \in [Actor -> Task] /\ Others(a)
           /\ task'[a].pc = "prepared" /\ task'[a].id = i /\ task'[a].origin = runtime
           /\ task'[a].place = task[a].place /\ task'[a].plan = task[a].plan
           /\ task'[a].shown = task[a].shown /\ task'[a].kind = task[a].kind
<1> DEFINE x == [task[a] EXCEPT !.id = i, !.origin = runtime, !.pc = "prepared"]
<1>1. task[a] \in Task /\ "prepared" \in Pcs
  BY DEF Pcs
<1>2. /\ x \in Task /\ x.pc = "prepared" /\ x.id = i /\ x.place = task[a].place
      /\ x.plan = task[a].plan /\ x.shown = task[a].shown /\ x.origin = runtime
      /\ x.kind = task[a].kind
  BY <1>1 DEF Task
<1>3. task' = [task EXCEPT ![a] = x]
  OBVIOUS
<1> QED
  BY <1>2, <1>3 DEF Others
-----------------------------------------------------------------------------
(***************************************************************************)
(* Review.                                                                 *)
(***************************************************************************)
LEMMA AsksStep ==
    ASSUME IInv, NEW a \in Actor, NEW kind \in Kinds, NEW i \in Id \cup {None},
           NEW plan \in Plan, NEW shown \in Plan,
           plan.profile = shown.profile, plan.unverified => shown.unverified,
           a \in Handler => kind = "request",
           Asks(a, kind, i, plan, shown),
           UNCHANGED <<settings, world, lease, evidence, desk, history>>
    PROVE  IInv'
<1> DEFINE x == [Idle EXCEPT !.pc = "reviewed", !.kind = kind, !.id = i,
                             !.plan = plan, !.shown = shown]
<1>1. Idle \in Task /\ "reviewed" \in Pcs
  BY Blank DEF Pcs
<1>2. x \in Task /\ x.pc = "reviewed" /\ x.plan = plan /\ x.shown = shown /\ x.kind = kind
  BY <1>1 DEF Task
<1>3. task \in [Actor -> Task] /\ task' = [task EXCEPT ![a] = x] /\ At(a, "idle")
  BY DEF Asks, IInv, TypeInv
<1>4. task' \in [Actor -> Task] /\ task'[a] = x /\ Others(a)
  BY <1>2, <1>3 DEF Others
<1>5. Own(a)'
  BY <1>2, <1>4
     DEF Own, Works, Applies, Reviewed, Shows, Requested, Alive, At, Holding, Admitted, Live
<1>6. ~Alive(a)
  BY <1>3 DEF Alive, Live, At
<1> QED
  BY <1>4, <1>5, <1>6, QuietStep DEF IInv, TypeInv, Shared, world, history

LEMMA ReviewStep ==
    ASSUME IInv, NEW a \in Actor, Review(a) \/ ReviewedPlan(a) \/ RequestFile(a)
    PROVE  IInv'
<1>1. /\ settings.profile \in Profile \cup {None}
      /\ planFile # None =>
           /\ planFile.now \in Plan /\ planFile.reviewed \in Plan
           /\ planFile.now.profile \in Profile /\ planFile.reviewed.profile \in Profile
  BY DEF IInv, TypeInv, Settings, Plan
<1>2. \A f \in Profile, permit \in BOOLEAN :
        /\ PlanOf(f, permit) \in Plan
        /\ PlanOf(f, permit).profile = f /\ PlanOf(f, permit).unverified = permit
  BY DEF PlanOf, Plan
<1>3. CASE Review(a)
  <2>1. PICK kind \in Kinds, i \in Id \cup {None}, permit \in BOOLEAN :
          /\ a \in Handler => kind = "request"
          /\ Asks(a, kind, i, PlanOf(settings.profile, permit), PlanOf(settings.profile, permit))
    BY <1>3 DEF Review
  <2>2. settings.profile \in Profile
        /\ UNCHANGED <<settings, world, lease, evidence, desk, history>>
    BY <1>1, <1>3 DEF Review
  <2> QED
    BY <1>2, <2>1, <2>2, AsksStep
<1>4. CASE ReviewedPlan(a)
  <2>1. PICK permit \in BOOLEAN :
          Asks(a, "cli", None, PlanOf(planFile.now.profile, permit),
                               PlanOf(planFile.reviewed.profile, permit))
    BY <1>4 DEF ReviewedPlan
  <2>2. /\ planFile # None /\ planFile.now = planFile.reviewed
        /\ UNCHANGED <<settings, world, lease, evidence, desk, history>>
    BY <1>4 DEF ReviewedPlan, PlanUnchanged
  <2>3. "cli" \in Kinds /\ a \notin Handler
    BY <1>4, GoalsAssumption DEF Kinds, ReviewedPlan
  <2> QED
    BY <1>1, <1>2, <2>1, <2>2, <2>3, AsksStep
<1>5. CASE RequestFile(a)
  <2>1. PICK permit \in BOOLEAN :
          Asks(a, "cli", None, PlanOf(settings.profile, permit), PlanOf(settings.profile, permit))
    BY <1>5 DEF RequestFile
  <2>2. settings.profile \in Profile
        /\ UNCHANGED <<settings, world, lease, evidence, desk, history>>
    BY <1>1, <1>5 DEF RequestFile
  <2>3. "cli" \in Kinds /\ a \notin Handler
    BY <1>5, GoalsAssumption DEF Kinds, RequestFile
  <2> QED
    BY <1>2, <2>1, <2>2, <2>3, AsksStep
<1> QED
  BY <1>3, <1>4, <1>5

LEMMA ConfirmStep ==
    ASSUME IInv, NEW a \in Actor, Confirm(a)
    PROVE  IInv'
<1> DEFINE x == [task[a] EXCEPT !.place = settings.place, !.pc = "confirmed"]
<1>1. task[a] \in Task /\ "confirmed" \in Pcs /\ settings.place \in Place /\ Own(a)
  BY DEF Pcs, IInv, TypeInv, Settings
<1>2. x \in Task /\ x.pc = "confirmed" /\ x.plan = task[a].plan /\ x.shown = task[a].shown
      /\ x.kind = task[a].kind
  BY <1>1 DEF Task
<1>3. task \in [Actor -> Task] /\ task' = [task EXCEPT ![a] = x] /\ At(a, "reviewed")
  BY DEF Confirm, IInv, TypeInv
<1>4. task' \in [Actor -> Task] /\ task'[a] = x /\ Others(a)
  BY <1>2, <1>3 DEF Others
<1>5. Own(a)'
  BY <1>1, <1>2, <1>3, <1>4
     DEF Own, Works, Applies, Reviewed, Shows, Requested, Alive, At, Holding, Admitted, Live
<1>6. ~Alive(a)
  BY <1>3 DEF Alive, Live, At
<1> QED
  BY <1>4, <1>5, <1>6, QuietStep DEF Confirm, IInv, TypeInv, Shared, outside, world, history

-----------------------------------------------------------------------------
(***************************************************************************)
(* Leaving.                                                                *)
(***************************************************************************)
LEMMA LeaveStep ==
    ASSUME IInv, NEW a \in Actor, Leave(a), ~Alive(a),
           lease' \in {lease, None}, lease \in {a, None} \/ lease' = lease,
           UNCHANGED <<Shared, plugged, runtime, planFile>>,
           applied' \subseteq Id, \A i \in applied' : i \in applied \/ Finished(i)
    PROVE  IInv'
<1>1. /\ task' \in [Actor -> Task] /\ Others(a)
      /\ task'[a].pc = "idle" /\ task'[a].kind = "request"
  BY Leaves DEF IInv, TypeInv
<1>2. Own(a)' /\ ~Alive(a)'
  BY <1>1
     DEF Own, Works, Applies, Reviewed, Shows, Requested, Alive, At, Holding, Admitted, Live
<1> QED
  BY <1>1, <1>2, QuietStep DEF IInv, TypeInv

LEMMA RefuseStep ==
    ASSUME IInv, NEW a \in Actor, Refuse(a)
    PROVE  IInv'
<1>1. ~Alive(a)
  BY DEF Refuse, Alive, Live
<1> QED
  BY <1>1, LeaveStep DEF Refuse, IInv, TypeInv, Shared, outside, world, history

LEMMA ReleaseStep ==
    ASSUME IInv, NEW a \in Actor, Release(a)
    PROVE  IInv'
<1>1. ~Alive(a) /\ task[a].pc \in Holding
  BY GoalsAssumption DEF Release, Alive, Live, At, Holding, Admitted
<1>2. lease = a
  BY <1>1 DEF IInv, Own, Works
<1> QED
  BY <1>1, <1>2, LeaveStep DEF Release, IInv, TypeInv, Shared, outside, world, history

LEMMA SavedReview ==
    ASSUME NEW e \in Evidence, NEW live \in BOOLEAN, Saved(e, live) = "review"
    PROVE  e.end = "review" /\ e.intact
  BY DEF Saved, Evidence, Unfinished, Final, Cut

LEMMA LookupIn ==
    ASSUME TypeInv, NEW i \in Id
    PROVE  Lookup(i) \in Place /\ Found(i) \in Evidence
  BY DEF TypeInv, Lookup, Found, Place, Settings

LEMMA ReadToApplyStep ==
    ASSUME IInv, NEW a \in Actor, ReadToApply(a)
    PROVE  IInv'
<1>1. PICK i \in Id :
        /\ Saved(Found(i), a \in Handler /\ desk.running /\ desk.id = i) = "review"
        /\ task' = [task EXCEPT ![a] = [Idle EXCEPT !.pc = "applying", !.id = i]]
  BY DEF ReadToApply
<1> DEFINE x == [Idle EXCEPT !.pc = "applying", !.id = i]
<1>2. Finished(i)
  BY <1>1, SavedReview, LookupIn DEF IInv, Found, Finished
<1>3. Idle \in Task /\ "applying" \in Pcs
  BY Blank DEF Pcs
<1>4. x \in Task /\ x.pc = "applying" /\ x.id = i /\ x.kind = "request"
  BY <1>3, Blank DEF Task
<1>5. task \in [Actor -> Task] /\ At(a, "idle")
  BY DEF ReadToApply, IInv, TypeInv
<1>6. task' \in [Actor -> Task] /\ task'[a] = x /\ Others(a)
  BY <1>1, <1>4, <1>5 DEF Others
<1>7. evidence' = evidence
  BY DEF ReadToApply
<1>8. Own(a)'
  BY <1>2, <1>4, <1>6, <1>7
     DEF Own, Works, Applies, Reviewed, Shows, Requested, Alive, At, Holding, Admitted, Live,
         Finished
<1>9. ~Alive(a)
  BY <1>5 DEF Alive, Live, At
<1> QED
  BY <1>6, <1>8, <1>9, QuietStep DEF ReadToApply, IInv, TypeInv, Shared, world, history

LEMMA ApplyStep ==
    ASSUME IInv, NEW a \in Actor, Apply(a)
    PROVE  IInv'
<1>1. At(a, "applying") /\ Leave(a) /\ applied' \in {applied, applied \cup {task[a].id}}
      /\ UNCHANGED <<settings, outside, lease, evidence, desk, returned, launches, orphans>>
  BY DEF Apply
<1>2. ~Alive(a)
  BY <1>1 DEF Alive, Live, At
<1>3. Finished(task[a].id) /\ task[a].id \in Id
  BY <1>1 DEF IInv, Own, Applies
<1> QED
  BY <1>1, <1>2, <1>3, LeaveStep DEF IInv, TypeInv, Shared, outside, world

-----------------------------------------------------------------------------
(***************************************************************************)
(* Preparing, and what is then written.                                    *)
(***************************************************************************)
LEMMA HasId ==
    ASSUME IInv, NEW a \in Actor, task[a].pc \in Holding
    PROVE  /\ lease = a /\ task[a].id \in Id /\ task[a].id # None /\ task[a].place \in Place
           /\ settings.place = task[a].place /\ (task[a].place # Legacy => settings.used)
  BY GoalsAssumption DEF IInv, Own, Works, TypeInv, Task

LEMMA NotAlive ==
    ASSUME IInv, NEW a \in Actor, ~Alive(a), Others(a), desk.running
    PROVE  \E b \in Handler : Alive(b)'
<1> SUFFICES ASSUME NEW b \in Handler, Alive(b) PROVE Alive(b)'
  BY DEF IInv, DeskInv
<1> QED
  BY DEF Others, Alive, Actor

LEMMA PrepareStep ==
    ASSUME IInv, NEW a \in Actor, Prepare(a)
    PROVE  IInv'
<1>1. PICK i \in Id :
        /\ Names(a, i)
        /\ task' = [task EXCEPT ![a].id = i, ![a].origin = runtime, ![a].pc = "prepared"]
  BY DEF Prepare
<1>2. /\ task' \in [Actor -> Task] /\ Others(a)
      /\ task'[a].pc = "prepared" /\ task'[a].id = i /\ task'[a].origin = runtime
      /\ task'[a].place = task[a].place /\ task'[a].plan = task[a].plan
      /\ task'[a].shown = task[a].shown /\ task'[a].kind = task[a].kind
  BY <1>1, Prepares DEF IInv, TypeInv
<1> DEFINE s == [settings EXCEPT !.used = MarkedUse(task[a].place)]
<1>3. settings \in Settings /\ settings' = s /\ lease = None /\ lease' = a
      /\ UNCHANGED <<outside, evidence, desk, history>>
  BY DEF IInv, TypeInv, Prepare, LeaseFree
<1>4. /\ s \in Settings /\ s.place = settings.place /\ s.profile = settings.profile
      /\ (settings.used => s.used) /\ (task[a].place # Legacy => s.used)
  BY <1>3 DEF Settings, MarkedUse
<1>5. TypeInv'
  BY <1>2, <1>3, <1>4 DEF IInv, TypeInv, outside, world, history
<1>6. PlaceInv'
  BY <1>3, <1>4 DEF IInv, PlaceInv, Has
<1>7. \A j \in Id : Finished(j) <=> Finished(j)'
  BY <1>3 DEF Finished
<1>8. FinishInv'
  BY <1>3 DEF IInv, FinishInv, Finished, history
<1>9. At(a, "confirmed") /\ settings.place = task[a].place
      /\ settings.profile = task[a].plan.profile /\ RuntimeAllowed(task[a].plan)
  BY DEF Prepare, SameRoot, StillSelected
<1>10. \A x \in Place : ~Has(x, i)
  <2>1. CASE task[a].id = None
    BY <1>1, <2>1 DEF Names, Fresh
  <2>2. CASE task[a].id # None
    <3>1. ~Has(task[a].place, i) /\ ~Has(Legacy, i)
      BY <1>1, <2>2 DEF Names
    <3> QED
      BY <1>9, <3>1 DEF IInv, PlaceInv, Place
  <2> QED
    BY <2>1, <2>2
<1>11. ~Alive(a)
  BY <1>9 DEF Alive, Live, At
<1>12. DeskInv'
  <2>1. desk.running => \E b \in Handler : Alive(b)'
    BY <1>2, <1>11, NotAlive
  <2> QED
    BY <1>3, <2>1 DEF IInv, DeskInv, Has, Finished, history
<1>13. Own(a)'
  <2>1. Works(a)'
    BY <1>2, <1>3, <1>4, <1>9, <1>10 DEF Works, At, Has
  <2>2. Applies(a)'
    BY <1>2 DEF Applies, At
  <2>3. Reviewed(a)'
    <3>1. /\ task[a].plan \in Plan /\ task[a].shown \in Plan
          /\ task[a].plan.profile = task[a].shown.profile
          /\ task[a].plan.unverified => task[a].shown.unverified
      BY <1>9 DEF IInv, Own, Reviewed, At
    <3> QED
      BY <1>2, <1>3, <1>4, <1>9, <3>1 DEF Reviewed, RuntimeAllowed
  <2>4. Shows(a)'
    <3>1. desk.id # i
      BY <1>10, GoalsAssumption DEF IInv, DeskInv
    <3> QED
      BY <1>2, <1>3, <3>1 DEF Shows, Alive, Live
  <2>5. Requested(a)'
    BY <1>2 DEF IInv, Own, Requested, At
  <2> QED
    BY <2>1, <2>2, <2>3, <2>4, <2>5 DEF Own
<1> QED
  BY <1>2, <1>3, <1>4, <1>5, <1>6, <1>7, <1>8, <1>12, <1>13, StepOf

Elsewhere(p, i) ==
    \A x \in Place, j \in Id : x # p \/ j # i => evidence'[x][j] = evidence[x][j]

\* Whoever works on a run writes into its evidence.
LEMMA Writes ==
    ASSUME IInv, NEW a \in Actor, task[a].pc \in Holding, NEW e \in Evidence, Write(a, e),
           NEW p \in Place, NEW i \in Id, p = task[a].place, i = task[a].id,
           e.attempt, \A x \in Place : Has(x, i) => x = p,
           Mine(a).end = "review" => e.end = "review",
           settings' = settings
    PROVE  /\ evidence' \in [Place -> [Id -> Evidence]]
           /\ evidence'[p][i] = e
           /\ Elsewhere(p, i)
           /\ PlaceInv'
           /\ \A j \in Id : Finished(j) => Finished(j)'
           /\ \A j \in Id \ {i} : Finished(j)' => Finished(j)
           /\ Finished(i)' <=> e.end = "review"
           /\ \A x \in Place, j \in Id : Has(x, j) => Has(x, j)'
<1>1. p \in Place /\ i \in Id /\ settings.place = p /\ (p # Legacy => settings.used)
  BY HasId
<1>2. evidence \in [Place -> [Id -> Evidence]]
  BY DEF IInv, TypeInv
<1>3. evidence' = [evidence EXCEPT ![p][i] = e]
  BY DEF Write
<1>4. evidence' \in [Place -> [Id -> Evidence]] /\ evidence'[p][i] = e
  BY <1>1, <1>2, <1>3
<1>5. \A x \in Place, j \in Id : x # p \/ j # i => evidence'[x][j] = evidence[x][j]
  BY <1>1, <1>2, <1>3
<1>6. \A x \in Place, j \in Id : Has(x, j) => Has(x, j)'
  BY <1>1, <1>4, <1>5 DEF Has
<1>7. \A x \in Place : x # p => ~Has(x, i) /\ evidence[x][i].end = "none"
                                /\ evidence[x][i].ended = "none"
  BY <1>1 DEF IInv, PlaceInv
<1>8. PlaceInv'
  <2> SUFFICES ASSUME NEW j \in Id
               PROVE  /\ \A x \in Place :
                           ~Has(x, j)' => evidence'[x][j].end = "none" /\ evidence'[x][j].ended = "none"
                      /\ \A x \in Folder : Has(x, j)' => settings'.used /\ settings'.place = x
                      /\ \A x, y \in Place : Has(x, j)' /\ Has(y, j)' => x = y
    BY DEF PlaceInv
  <2>1. CASE j = i
    <3>1. \A x \in Place : x # p => evidence'[x][j] = evidence[x][j] /\ ~Has(x, j)'
      BY <1>5, <1>7, <2>1 DEF Has
    <3>2. Has(p, j)'
      BY <1>4, <2>1 DEF Has
    <3>3. \A x \in Folder : x \in Place /\ x # Legacy
      BY GoalsAssumption DEF Place
    <3> QED
      BY <1>1, <1>7, <2>1, <3>1, <3>2, <3>3
  <2>2. CASE j # i
    <3>1. \A x \in Place : evidence'[x][j] = evidence[x][j]
      BY <1>5, <2>2
    <3> QED
      BY <3>1 DEF IInv, PlaceInv, Has, Place
  <2> QED
    BY <2>1, <2>2
<1>9. Finished(i)' <=> e.end = "review"
  BY <1>1, <1>4, <1>5, <1>7 DEF Finished
<1>10. \A j \in Id \ {i} : Finished(j)' <=> Finished(j)
  BY <1>5 DEF Finished
<1>11. Finished(i) => Finished(i)'
  BY <1>7, <1>9 DEF Finished, Mine
<1> QED
  BY <1>4, <1>5, <1>6, <1>8, <1>9, <1>10, <1>11 DEF Elsewhere

LEMMA BeginStep ==
    ASSUME IInv, NEW a \in Actor, BeginAttempt(a)
    PROVE  IInv'
<1> DEFINE e == [NoEvidence EXCEPT !.attempt = TRUE]
<1>1. e \in Evidence /\ e.attempt /\ e.end = "none" /\ e.ended = "none"
  BY Blank DEF Evidence
<1>2. At(a, "prepared") /\ Write(a, e) /\ Goto(a, "begun")
      /\ UNCHANGED <<settings, outside, lease, desk, returned, applied, orphans>>
  BY DEF BeginAttempt
<1> HIDE DEF e
<1>3. task[a].pc \in Holding /\ "begun" \in Pcs
  BY <1>2 DEF At, Holding, Admitted, Pcs
<1>4. PICK p \in Place, i \in Id : p = task[a].place /\ i = task[a].id
  BY <1>3, HasId
<1>5. /\ lease = a /\ settings.place = p /\ (p # Legacy => settings.used)
      /\ \A x \in Place : ~Has(x, i)
  BY <1>2, <1>3, <1>4, HasId DEF IInv, Own, Works
<1>6. /\ Mine(a).end = "none"
      /\ \A x \in Place : evidence[x][i].end = "none" /\ evidence[x][i].ended = "none"
  BY <1>4, <1>5 DEF IInv, PlaceInv, Mine
<1>7. /\ evidence' \in [Place -> [Id -> Evidence]] /\ evidence'[p][i] = e /\ Elsewhere(p, i)
      /\ PlaceInv' /\ \A j \in Id : Finished(j) => Finished(j)'
      /\ \A j \in Id \ {i} : Finished(j)' => Finished(j)
      /\ ~Finished(i)' /\ \A x \in Place, j \in Id : Has(x, j) => Has(x, j)'
  BY <1>1, <1>2, <1>3, <1>4, <1>5, <1>6, Writes
<1>8. /\ task' \in [Actor -> Task] /\ Others(a) /\ task'[a].pc = "begun"
      /\ task'[a].id = i /\ task'[a].place = p /\ task'[a].plan = task[a].plan
      /\ task'[a].shown = task[a].shown /\ task'[a].origin = task[a].origin
      /\ task'[a].kind = task[a].kind
  BY <1>2, <1>3, <1>4, Moves DEF IInv, TypeInv
<1>9. TypeInv'
  BY <1>2, <1>7, <1>8 DEF IInv, TypeInv, outside, world
<1>10. FinishInv'
  BY <1>2, <1>4, <1>7 DEF IInv, FinishInv, TypeInv
<1>11. ~Alive(a) /\ desk.id # i
  BY <1>2, <1>3, <1>4 DEF Alive, Live, At, IInv, Own, Shows, Admitted
<1>12. DeskInv'
  <2>1. desk.running => \E b \in Handler : Alive(b)'
    BY <1>8, <1>11, NotAlive
  <2>2. desk.id # None => desk.id \in Id \ {i}
    BY <1>11 DEF IInv, TypeInv, Desks
  <2> QED
    BY <1>2, <1>7, <2>1, <2>2 DEF IInv, DeskInv
<1>13. Own(a)'
  <2>1. NotOver(i)'
    BY <1>1, <1>5, <1>6, <1>7 DEF NotOver, Elsewhere
  <2>2. Works(a)'
    BY <1>1, <1>2, <1>4, <1>5, <1>7, <1>8, <2>1 DEF Works, At, Mine, Has
  <2>3. Reviewed(a)'
    BY <1>2, <1>8 DEF IInv, Own, Reviewed, At, Admitted
  <2>4. Shows(a)' /\ Applies(a)'
    BY <1>2, <1>8, <1>11 DEF Shows, Alive, Live, Applies, At
  <2>5. Requested(a)'
    BY <1>8 DEF IInv, Own, Requested, At
  <2> QED
    BY <2>2, <2>3, <2>4, <2>5 DEF Own
<1> QED
  BY <1>2, <1>5, <1>7, <1>8, <1>9, <1>10, <1>12, <1>13, StepOf

-----------------------------------------------------------------------------
(***************************************************************************)
(* The run is started.                                                     *)
(***************************************************************************)
LEMMA Started ==
    ASSUME IInv, NEW a \in Actor, Runs(a)
    PROVE  /\ task' \in [Actor -> Task] /\ Others(a)
           /\ task'[a].pc = "running"
           /\ task'[a].id = task[a].id /\ task'[a].place = task[a].place
           /\ task'[a].kind = task[a].kind
<1> DEFINE x == [task[a] EXCEPT !.plan = None, !.shown = None, !.origin = "managed",
                                !.pc = "running"]
<1>1. task[a] \in Task /\ "running" \in Pcs /\ "managed" \in Origins
  BY DEF IInv, TypeInv, Pcs, Origins
<1>2. x \in Task /\ x.pc = "running" /\ x.id = task[a].id /\ x.place = task[a].place
      /\ x.kind = task[a].kind
  BY <1>1 DEF Task
<1>3. task' = [task EXCEPT ![a] = x]
  BY DEF Runs
<1> QED
  BY <1>2, <1>3 DEF Others, IInv, TypeInv

LEMMA LaunchStep ==
    ASSUME IInv, NEW a \in Actor, Launch(a)
    PROVE  IInv'
<1>1. /\ At(a, "begun") /\ a \in Shell /\ Runs(a)
      /\ UNCHANGED <<settings, outside, lease, evidence, desk, history>>
  BY DEF Launch
<1>2. /\ task' \in [Actor -> Task] /\ Others(a) /\ task'[a].pc = "running"
      /\ task'[a].id = task[a].id /\ task'[a].place = task[a].place
      /\ task'[a].kind = task[a].kind
  BY <1>1, Started
<1>3. ~Alive(a) /\ a \notin Handler
  BY <1>1, GoalsAssumption DEF Alive
<1>4. Own(a)'
  <2>1. Works(a)'
    BY <1>1, <1>2 DEF IInv, Own, Works, At, Mine, Has, NotOver, Holding, Admitted
  <2>2. Shows(a)'
    BY <1>1, <1>2, <1>3 DEF IInv, Own, Shows, Alive, At, Holding, Admitted
  <2>3. Applies(a)' /\ Reviewed(a)'
    BY <1>2 DEF Applies, Reviewed, At, Admitted
  <2>4. Requested(a)'
    BY <1>2 DEF IInv, Own, Requested, At
  <2> QED
    BY <2>1, <2>2, <2>3, <2>4 DEF Own
<1> QED
  BY <1>1, <1>2, <1>3, <1>4, QuietStep DEF IInv, TypeInv, Shared, outside, world, history

\* Only one works on a run: the sidecar's own run would hold the lease.
LEMMA NoneAlive ==
    ASSUME IInv, NEW a \in Actor, task[a].pc \in Holding, ~Alive(a)
    PROVE  ~desk.running
<1>1. \A b \in Handler : b \in Actor /\ (Alive(b) => lease = b)
  BY DEF IInv, Own, Works, Alive, Live, Holding, Admitted, Actor
<1>2. lease = a
  BY HasId
<1> QED
  BY <1>1, <1>2 DEF IInv, DeskInv

LEMMA SpawnStep ==
    ASSUME IInv, NEW a \in Actor, Spawn(a)
    PROVE  IInv'
<1>1. At(a, "begun") /\ a \in Handler /\ task[a].pc \in Holding /\ ~Alive(a)
  BY DEF Spawn, At, Holding, Admitted, Alive, Live
<1>2. ~desk.running
  BY <1>1, NoneAlive
<1> DEFINE d == [NoRun EXCEPT !.id = task[a].id, !.running = TRUE]
<1>3. /\ desk' = d /\ Runs(a)
      /\ UNCHANGED <<lease, orphans, settings, outside, evidence, returned, applied, launches>>
  BY <1>2 DEF Spawn
<1>4. PICK p \in Place, i \in Id : p = task[a].place /\ i = task[a].id
  BY <1>1, HasId
<1>5. /\ d \in Desks /\ d.id = i /\ d.running /\ d.receipt = "none"
  BY <1>4, Blank DEF Desks
<1>6. /\ task' \in [Actor -> Task] /\ Others(a) /\ task'[a].pc = "running"
      /\ task'[a].id = i /\ task'[a].place = p /\ task'[a].kind = task[a].kind
  BY <1>3, <1>4, Started
<1>7. TypeInv'
  BY <1>3, <1>5, <1>6 DEF IInv, TypeInv, outside, world
<1>8. PlaceInv' /\ FinishInv' /\ \A j \in Id : Finished(j) => Finished(j)'
  BY <1>3 DEF IInv, PlaceInv, FinishInv, Finished, Has
<1>9. Alive(a)'
  BY <1>1, <1>6 DEF Alive, Live
<1>10. Has(p, i)
  BY <1>1, <1>4 DEF IInv, Own, Works, At, Mine, Has
<1>11. i # None
  BY GoalsAssumption
<1> HIDE DEF d
<1>12. DeskInv'
  BY <1>1, <1>3, <1>4, <1>5, <1>9, <1>10, <1>11 DEF IInv, DeskInv, Has
<1>13. Own(a)'
  <2>1. Works(a)'
    BY <1>1, <1>3, <1>4, <1>6 DEF IInv, Own, Works, At, Mine, Has, NotOver, Holding, Admitted
  <2>2. Shows(a)'
    BY <1>1, <1>3, <1>5, <1>6, GoalsAssumption DEF Shows, Alive, Holding, Admitted
  <2>3. Applies(a)' /\ Reviewed(a)'
    BY <1>6 DEF Applies, Reviewed, At, Admitted
  <2>4. Requested(a)'
    BY <1>6 DEF IInv, Own, Requested, At
  <2> QED
    BY <2>1, <2>2, <2>3, <2>4 DEF Own
<1>14. lease = a
  BY <1>1, HasId
<1> QED
  BY <1>3, <1>6, <1>7, <1>8, <1>12, <1>13, <1>14, StepOf

-----------------------------------------------------------------------------
(***************************************************************************)
(* The run, until it returns.                                              *)
(***************************************************************************)
LEMMA Running ==
    ASSUME IInv, NEW a \in Actor, task[a].pc \in {"running", "returned"}
    PROVE  \E p \in Place, i \in Id :
             /\ p = task[a].place /\ i = task[a].id /\ i # None /\ task[a].pc \in Holding
             /\ lease = a /\ settings.place = p /\ (p # Legacy => settings.used)
             /\ Mine(a) = evidence[p][i] /\ Mine(a) \in Evidence
             /\ Mine(a).attempt /\ Mine(a).end = "none" /\ NotOver(i) /\ ~Finished(i)
             /\ \A x \in Place : Has(x, i) => x = p
             /\ a \in Handler => desk.running /\ desk.id = i
             /\ a \in Shell => desk.id # i
<1>1. task[a].pc \in Holding /\ (a \in Handler => Alive(a))
  BY DEF Holding, Admitted, Alive, Live
<1>2. PICK p \in Place, i \in Id : p = task[a].place /\ i = task[a].id /\ i # None
  BY <1>1, HasId
<1>3. lease = a /\ settings.place = p /\ (p # Legacy => settings.used)
  BY <1>1, <1>2, HasId
<1>4. /\ Mine(a) = evidence[p][i] /\ Mine(a) \in Evidence /\ Mine(a).attempt
      /\ NotOver(i) /\ Mine(a).end = "none" /\ Has(p, i)
  BY <1>2 DEF IInv, TypeInv, Own, Works, Mine, NotOver, Has
<1>5. ~Finished(i)
  BY <1>4 DEF NotOver, Finished
<1>6. \A x \in Place : Has(x, i) => x = p
  BY <1>4 DEF IInv, PlaceInv
<1>7. /\ a \in Handler => desk.running /\ desk.id = i
      /\ a \in Shell => desk.id # i
  BY <1>1, <1>2 DEF IInv, Own, Shows
<1> QED
  BY <1>1, <1>2, <1>3, <1>4, <1>5, <1>6, <1>7

LEMMA Ended ==
    ASSUME IInv, NEW a \in Actor, NEW r \in States \cup {"error", "cancelled"}, Ends(a, r)
    PROVE  /\ task' \in [Actor -> Task] /\ Others(a)
           /\ task'[a].pc = "returned" /\ task'[a].result = r
           /\ task'[a].id = task[a].id /\ task'[a].place = task[a].place
           /\ task'[a].kind = task[a].kind
<1> DEFINE x == [task[a] EXCEPT !.result = r, !.rounds = 0, !.pc = "returned"]
<1>1. task[a] \in Task /\ "returned" \in Pcs
  BY DEF IInv, TypeInv, Pcs
<1>2. /\ x \in Task /\ x.pc = "returned" /\ x.result = r
      /\ x.id = task[a].id /\ x.place = task[a].place /\ x.kind = task[a].kind
  BY <1>1 DEF Task
<1>3. task' = [task EXCEPT ![a] = x]
  BY DEF Ends
<1> QED
  BY <1>2, <1>3 DEF Others, IInv, TypeInv

LEMMA ReturnsStep ==
    ASSUME IInv, NEW a \in Actor, Returns(a) \/ Fails(a) \/ Dropped(a)
    PROVE  IInv'
<1>1. At(a, "running") /\ task[a].pc \in {"running", "returned"}
  BY DEF Returns, Fails, Dropped, At
<1>2. PICK p \in Place, i \in Id :
        /\ p = task[a].place /\ i = task[a].id /\ i # None /\ task[a].pc \in Holding
        /\ lease = a /\ settings.place = p /\ (p # Legacy => settings.used)
        /\ Mine(a) = evidence[p][i] /\ Mine(a).attempt /\ NotOver(i) /\ ~Finished(i)
        /\ a \in Handler => desk.running /\ desk.id = i
        /\ a \in Shell => desk.id # i
  BY <1>1, Running
<1>3. PICK r \in States \cup {"error", "cancelled"} :
        /\ Ends(a, r)
        /\ returned' = IF r \in Final THEN [returned EXCEPT ![i] = r] ELSE returned
  BY <1>2 DEF Returns, Fails, Dropped, States, Final
<1>4. UNCHANGED <<settings, outside, lease, evidence, desk, applied, launches, orphans>>
  BY <1>3 DEF Ends
<1>5. /\ task' \in [Actor -> Task] /\ Others(a) /\ task'[a].pc = "returned"
      /\ task'[a].result = r /\ task'[a].id = i /\ task'[a].place = p
      /\ task'[a].kind = task[a].kind
  BY <1>2, <1>3, Ended
<1>6. /\ returned' \in [Id -> {"none"} \cup Final]
      /\ r \in Final => returned'[i] = r
      /\ \A j \in Id \ {i} : returned'[j] = returned[j]
  BY <1>3 DEF IInv, TypeInv
<1>7. TypeInv'
  BY <1>4, <1>5, <1>6 DEF IInv, TypeInv, outside, world
<1>8. PlaceInv' /\ \A j \in Id : Finished(j) <=> Finished(j)'
  BY <1>4 DEF IInv, PlaceInv, Finished, Has
<1>9. FinishInv'
  BY <1>2, <1>4, <1>6, <1>8 DEF IInv, FinishInv, TypeInv
<1>10. DeskInv'
  <2>1. desk.running => \E b \in Handler : Alive(b)'
    <3> SUFFICES ASSUME NEW b \in Handler, Alive(b) PROVE Alive(b)'
      BY DEF IInv, DeskInv
    <3> QED
      BY <1>5 DEF Others, Alive, Live, Actor
  <2> QED
    BY <1>4, <2>1 DEF IInv, DeskInv, Has, Finished
<1>11. Own(a)'
  <2>1. Works(a)'
    BY <1>2, <1>4, <1>5, <1>6 DEF Works, At, Mine, Has, NotOver
  <2>2. Shows(a)'
    BY <1>2, <1>4, <1>5 DEF Shows, Alive, Actor, Admitted
  <2>3. Applies(a)' /\ Reviewed(a)'
    BY <1>5 DEF Applies, Reviewed, At, Admitted
  <2>4. Requested(a)'
    BY <1>5 DEF IInv, Own, Requested, At
  <2> QED
    BY <2>1, <2>2, <2>3, <2>4 DEF Own
<1> QED
  BY <1>2, <1>4, <1>5, <1>7, <1>8, <1>9, <1>10, <1>11, StepOf

-----------------------------------------------------------------------------
(***************************************************************************)
(* What a run saves, and its end.                                          *)
(***************************************************************************)
LEMMA SaveStep ==
    ASSUME IInv, NEW a \in Actor, task[a].pc \in {"running", "returned"},
           NEW e \in Evidence, e.attempt, Write(a, e),
           e.end = "review" => returned[task[a].id] = "review",
           UNCHANGED <<settings, outside, lease, history>>,
           task' \in [Actor -> Task], Others(a), task'[a].pc \in {"running", "ended"},
           task'[a].id = task[a].id, task'[a].place = task[a].place, task'[a].kind = task[a].kind,
           a \in Handler /\ task'[a].pc = "ended" => task'[a].result \in States,
           task'[a].pc = "running" => e.end = "none" /\ e.ended = "none",
           task'[a].pc = "ended" => (task'[a].result = "review" <=> e.end = "review"),
           desk' \in Desks,
           desk' = desk \/ (a \in Handler /\ desk'.id = desk.id /\ desk'.running = desk.running
                            /\ desk'.receipt # "review")
    PROVE  IInv'
<1>1. PICK p \in Place, i \in Id :
        /\ p = task[a].place /\ i = task[a].id /\ i # None /\ task[a].pc \in Holding
        /\ lease = a /\ settings.place = p /\ (p # Legacy => settings.used)
        /\ Mine(a).end = "none" /\ NotOver(i) /\ ~Finished(i)
        /\ \A x \in Place : Has(x, i) => x = p
        /\ a \in Handler => desk.running /\ desk.id = i
        /\ a \in Shell => desk.id # i
  BY Running
<1>2. /\ evidence' \in [Place -> [Id -> Evidence]] /\ evidence'[p][i] = e /\ Elsewhere(p, i)
      /\ PlaceInv' /\ \A j \in Id : Finished(j) => Finished(j)'
      /\ \A j \in Id \ {i} : Finished(j)' => Finished(j)
      /\ Finished(i)' <=> e.end = "review"
      /\ \A x \in Place, j \in Id : Has(x, j) => Has(x, j)'
  BY <1>1, Writes
<1>3. task'[a].id = i /\ task'[a].place = p /\ returned' = returned /\ applied' = applied
      /\ orphans' = orphans
  BY <1>1 DEF history
<1>4. TypeInv'
  BY <1>2, <1>3 DEF IInv, TypeInv, outside, world
<1>5. FinishInv'
  BY <1>1, <1>2, <1>3 DEF IInv, FinishInv, TypeInv
<1>6. a \in Handler => Alive(a)'
  BY DEF Alive, Live
<1>7. desk'.id = desk.id /\ desk'.running = desk.running /\ desk.id \in Id \cup {None}
  BY DEF IInv, TypeInv, Desks
<1>8. DeskInv'
  <2>1. CASE a \in Handler
    BY <1>1, <1>2, <1>3, <1>6, <1>7, <2>1 DEF IInv, DeskInv
  <2>2. CASE a \in Shell
    <3>1. desk' = desk /\ ~Alive(a) /\ desk.id # i
      BY <1>1, <2>2, GoalsAssumption DEF Alive
    <3>2. desk.running => \E b \in Handler : Alive(b)'
      BY <3>1, NotAlive
    <3> QED
      BY <1>2, <1>3, <1>7, <3>1, <3>2 DEF IInv, DeskInv
  <2> QED
    BY <2>1, <2>2 DEF Actor
<1>9. Own(a)'
  <2>1. task'[a].pc = "running" => NotOver(i)'
    BY <1>1, <1>2 DEF NotOver, Elsewhere
  <2>2. Works(a)'
    BY <1>1, <1>2, <1>3, <2>1 DEF Works, At, Mine
  <2>3. Shows(a)'
    BY <1>1, <1>3, <1>7 DEF Shows, Alive, Admitted
  <2>4. Applies(a)' /\ Reviewed(a)'
    BY DEF Applies, Reviewed, At, Admitted
  <2>5. Requested(a)'
    BY DEF IInv, Own, Requested, At
  <2> QED
    BY <2>2, <2>3, <2>4, <2>5 DEF Own
<1> QED
  BY <1>1, <1>2, <1>4, <1>5, <1>8, <1>9, StepOf

\* Or nothing is saved of its end.
LEMMA LostStep ==
    ASSUME IInv, NEW a \in Actor, task[a].pc \in {"running", "returned"},
           UNCHANGED <<settings, outside, lease, evidence, desk, history>>,
           task' \in [Actor -> Task], Others(a), task'[a].pc \in {"returned", "ended"},
           task'[a].id = task[a].id, task'[a].place = task[a].place, task'[a].kind = task[a].kind,
           a \in Handler /\ task'[a].pc = "ended" => task'[a].result \in States,
           task'[a].result \notin Final
    PROVE  IInv'
<1>1. PICK p \in Place, i \in Id :
        /\ p = task[a].place /\ i = task[a].id /\ lease = a
        /\ settings.place = p /\ (p # Legacy => settings.used)
        /\ Mine(a) = evidence[p][i] /\ Mine(a).attempt /\ Mine(a).end = "none" /\ NotOver(i)
        /\ a \in Handler => desk.running /\ desk.id = i
        /\ a \in Shell => desk.id # i
  BY Running
<1>2. Own(a)'
  <2>1. Works(a)'
    BY <1>1 DEF Works, At, Mine, NotOver, Final
  <2>2. Shows(a)'
    BY <1>1 DEF Shows, Alive, Admitted
  <2>3. Applies(a)' /\ Reviewed(a)'
    BY DEF Applies, Reviewed, At, Admitted
  <2>4. Requested(a)'
    BY DEF IInv, Own, Requested, At
  <2> QED
    BY <2>1, <2>2, <2>3, <2>4 DEF Own
<1>3. Alive(a) => Alive(a)'
  BY DEF Alive, Live
<1> QED
  BY <1>2, <1>3, QuietStep DEF IInv, TypeInv, Shared, outside, world, history

LEMMA PersistStep ==
    ASSUME IInv, NEW a \in Actor, Persist(a)
    PROVE  IInv'
<1>1. PICK r \in After(Mine(a).receipt) :
         /\ Write(a, [Mine(a) EXCEPT !.receipt = r])
         /\ task' = [task EXCEPT ![a].rounds = @ + (IF r = "verifying" THEN 1 ELSE 0)]
         /\ desk' = IF a \in Handler THEN [desk EXCEPT !.receipt = Visible(r)] ELSE desk
  BY DEF Persist
<1>2. At(a, "running") /\ task[a].pc \in {"running", "returned"} /\ task[a] \in Task
      /\ UNCHANGED <<settings, outside, lease, history>> /\ desk \in Desks
  BY DEF Persist, At, IInv, TypeInv
<1> DEFINE e == [Mine(a) EXCEPT !.receipt = r]
           x == [task[a] EXCEPT !.rounds = @ + (IF r = "verifying" THEN 1 ELSE 0)]
           d == [desk EXCEPT !.receipt = Visible(r)]
<1>3. /\ Mine(a) \in Evidence /\ Mine(a).attempt /\ Mine(a).end = "none" /\ Mine(a).ended = "none"
  BY <1>2, Running DEF NotOver
<1>4. r \in Unfinished \cup Final
  BY <1>1 DEF After, Unfinished, Final
<1>5. e \in Evidence /\ e.attempt /\ e.end = "none" /\ e.ended = "none"
  BY <1>3, <1>4 DEF Evidence
<1>6. x \in Task /\ x.pc = "running" /\ x.id = task[a].id /\ x.place = task[a].place
      /\ x.kind = task[a].kind
  BY <1>2 DEF Task, At
<1>7. task' = [task EXCEPT ![a] = x]
  BY <1>1
<1>8. task' \in [Actor -> Task] /\ Others(a) /\ task'[a] = x
  BY <1>6, <1>7 DEF Others, IInv, TypeInv
<1>9. /\ d \in Desks /\ d.id = desk.id /\ d.running = desk.running /\ d.receipt # "review"
  BY <1>2, <1>4 DEF Desks, Visible, States, Unfinished, Final
<1>10. Write(a, e) /\ desk' = IF a \in Handler THEN d ELSE desk
  BY <1>1
<1> HIDE DEF e, x, d
<1> QED
  BY <1>2, <1>5, <1>6, <1>8, <1>9, <1>10, SaveStep

LEMMA WriteEndStep ==
    ASSUME IInv, NEW a \in Actor, WriteEnd(a)
    PROVE  IInv'
<1> DEFINE e == [Mine(a) EXCEPT !.end = task[a].result]
<1>1. /\ At(a, "returned") /\ task[a].result \in Final /\ Write(a, e) /\ Goto(a, "ended")
      /\ UNCHANGED <<settings, outside, lease, desk, history>>
  BY DEF WriteEnd
<1>2. task[a].pc \in {"running", "returned"} /\ "ended" \in Pcs /\ desk \in Desks
  BY <1>1 DEF At, Pcs, IInv, TypeInv
<1>3. Mine(a) \in Evidence /\ Mine(a).attempt
  BY <1>2, Running
<1>4. e \in Evidence /\ e.attempt /\ e.end = task[a].result
  BY <1>1, <1>3 DEF Evidence
<1>5. returned[task[a].id] = task[a].result
  BY <1>1 DEF IInv, Own, Works
<1>6. /\ task' \in [Actor -> Task] /\ Others(a) /\ task'[a].pc = "ended"
      /\ task'[a].id = task[a].id /\ task'[a].place = task[a].place
      /\ task'[a].result = task[a].result /\ task'[a].kind = task[a].kind
  BY <1>1, <1>2, Moves DEF IInv, TypeInv
<1>7. task[a].result \in States
  BY <1>1 DEF States
<1> HIDE DEF e
<1> QED
  BY <1>1, <1>2, <1>4, <1>5, <1>6, <1>7, SaveStep

LEMMA WriteEndFailsStep ==
    ASSUME IInv, NEW a \in Actor, WriteEndFails(a)
    PROVE  IInv'
<1> DEFINE pc == IF task[a].kind = "tui" THEN "ended" ELSE "returned"
           x == [task[a] EXCEPT !.result = "error", !.pc = pc]
<1>1. /\ task[a].pc \in {"running", "returned"} /\ task[a] \in Task
      /\ pc \in Pcs /\ pc \in {"returned", "ended"} /\ (pc = "ended" => task[a].kind = "tui")
      /\ UNCHANGED <<settings, outside, lease, evidence, desk, history>>
  BY DEF WriteEndFails, At, Pcs, IInv, TypeInv
<1> HIDE DEF pc
<1>2. /\ x \in Task /\ x.pc = pc /\ x.id = task[a].id /\ x.place = task[a].place
      /\ x.result = "error" /\ x.kind = task[a].kind
  BY <1>1 DEF Task
<1>3. task' = [task EXCEPT ![a] = x]
  BY DEF WriteEndFails, pc
<1>4. task' \in [Actor -> Task] /\ Others(a) /\ task'[a] = x
  BY <1>2, <1>3 DEF Others, IInv, TypeInv
<1>5. "error" \notin Final /\ (a \in Handler => task[a].kind # "tui")
  BY DEF Final, IInv, Own, Requested
<1> HIDE DEF x
<1> QED
  BY <1>1, <1>2, <1>4, <1>5, LostStep

LEMMA RecordEndStep ==
    ASSUME IInv, NEW a \in Actor, RecordEnd(a)
    PROVE  IInv'
<1> DEFINE readable == Reachable(task[a].place) /\ Mine(a).receipt # "none"
           cut == CutTo(Mine(a).receipt, task[a].result)
           r == IF readable THEN cut ELSE "none"
           x == [task[a] EXCEPT !.result = r, !.pc = "ended"]
           e == [Mine(a) EXCEPT !.end = cut]
           f == [Mine(a) EXCEPT !.ended = EndedTo(task[a].result)]
<1>1. /\ task[a].pc \in {"running", "returned"} /\ task[a] \in Task /\ "ended" \in Pcs
      /\ UNCHANGED <<settings, outside, lease, desk, history>> /\ desk \in Desks
  BY DEF RecordEnd, At, Pcs, IInv, TypeInv
<1>2. cut \in Cut /\ r \in Cut \cup {"none"}
  BY DEF CutTo, Cut
<1>3. r \in States /\ r \notin Final /\ cut # "review" /\ r # "review"
  BY <1>2 DEF States, Cut, Final
<1>4. /\ Write(a, e) \/ Write(a, f) \/ UNCHANGED evidence
      /\ task' = [task EXCEPT ![a] = x]
  BY DEF RecordEnd
<1>5. Mine(a) \in Evidence /\ Mine(a).attempt /\ Mine(a).end = "none"
  BY <1>1, Running
<1>6. e \in Evidence /\ e.attempt /\ e.end # "review"
  <2> HIDE DEF cut
  <2> QED
    BY <1>2, <1>3, <1>5 DEF Evidence
<1>7. f \in Evidence /\ f.attempt /\ f.end # "review"
  BY <1>5 DEF Evidence, EndedTo
<1> HIDE DEF r
<1>8. /\ x \in Task /\ x.pc = "ended" /\ x.id = task[a].id /\ x.place = task[a].place
      /\ x.result = r /\ x.kind = task[a].kind
  BY <1>1, <1>3 DEF Task
<1> HIDE DEF x, e, f, cut
<1>9. task' \in [Actor -> Task] /\ Others(a) /\ task'[a] = x
  BY <1>4, <1>8 DEF Others, IInv, TypeInv
<1>10. CASE Write(a, e)
  BY <1>1, <1>3, <1>6, <1>8, <1>9, <1>10, SaveStep
<1>11. CASE Write(a, f)
  BY <1>1, <1>3, <1>7, <1>8, <1>9, <1>11, SaveStep
<1>12. CASE UNCHANGED evidence
  BY <1>1, <1>3, <1>8, <1>9, <1>12, LostStep
<1> QED
  BY <1>4, <1>10, <1>11, <1>12

LEMMA PublishStep ==
    ASSUME IInv, NEW a \in Actor, Publish(a)
    PROVE  IInv'
<1> DEFINE d == [desk EXCEPT !.running = FALSE, !.asked = FALSE, !.receipt = task[a].result]
<1>1. /\ At(a, "ended") /\ a \in Handler /\ desk' = d /\ Goto(a, "published")
      /\ UNCHANGED <<settings, outside, lease, evidence, history>>
  BY DEF Publish
<1>2. task[a].pc \in Holding /\ Alive(a) /\ "published" \in Pcs
  BY <1>1 DEF At, Holding, Admitted, Alive, Live, Pcs
<1>3. PICK p \in Place, i \in Id : p = task[a].place /\ i = task[a].id
  BY <1>2, HasId
<1>4. desk.id = i /\ desk \in Desks /\ i # None /\ lease = a
  BY <1>2, <1>3, HasId DEF IInv, TypeInv, Own, Shows
<1>5. /\ Has(p, i) /\ Mine(a) = evidence[p][i]
      /\ (task[a].result = "review" <=> evidence[p][i].end = "review")
  BY <1>1, <1>3 DEF IInv, Own, Works, At, Has, Mine
<1>6. task[a].result = "review" <=> Finished(i)
  BY <1>5 DEF IInv, PlaceInv, Finished
<1>7. /\ task' \in [Actor -> Task] /\ Others(a) /\ task'[a].pc = "published"
      /\ task'[a].id = i /\ task'[a].place = p /\ task'[a].result = task[a].result
      /\ task'[a].kind = task[a].kind
  BY <1>1, <1>2, <1>3, Moves DEF IInv, TypeInv
<1>8. task[a].result \in States
  BY <1>1 DEF IInv, Own, Requested
<1>9. /\ d \in Desks /\ d.id = i /\ ~d.running /\ d.receipt = task[a].result
  BY <1>4, <1>8 DEF Desks
<1> HIDE DEF d
<1>10. TypeInv'
  BY <1>1, <1>7, <1>9 DEF IInv, TypeInv, outside, world, history
<1>11. PlaceInv' /\ FinishInv' /\ \A j \in Id : Finished(j) <=> Finished(j)'
  BY <1>1 DEF IInv, PlaceInv, FinishInv, Finished, Has, history
<1>12. DeskInv'
  BY <1>1, <1>4, <1>5, <1>6, <1>9, <1>11 DEF IInv, DeskInv, Has, history
<1>13. Own(a)'
  <2>1. Works(a)'
    BY <1>1, <1>2, <1>3, <1>4, <1>5, <1>7, HasId DEF Works, At, Mine, Has, IInv, Own
  <2>2. Shows(a)' /\ Requested(a)'
    <3>1. a \notin Shell
      BY <1>1, GoalsAssumption
    <3>2. task[a].kind = "request"
      BY <1>1 DEF IInv, Own, Requested
    <3> QED
      BY <1>7, <3>1, <3>2 DEF Shows, Requested, Alive, Live, Admitted, At
  <2>3. Applies(a)' /\ Reviewed(a)'
    BY <1>7 DEF Applies, Reviewed, At, Admitted
  <2> QED
    BY <2>1, <2>2, <2>3 DEF Own
<1> QED
  BY <1>1, <1>4, <1>7, <1>10, <1>11, <1>12, <1>13, StepOf

-----------------------------------------------------------------------------
(***************************************************************************)
(* What is asked of no run, and what happens outside.                      *)
(***************************************************************************)
LEMMA WorldStep ==
    ASSUME IInv, TypeInv', UNCHANGED <<Shared, lease, task, applied>>
    PROVE  IInv'
<1>1. settings' = settings /\ evidence' = evidence /\ returned' = returned /\ desk' = desk
      /\ orphans' = orphans /\ lease' = lease /\ task' = task /\ applied' = applied
  BY DEF Shared
<1>2. PlaceInv' /\ FinishInv' /\ DeskInv'
  BY <1>1 DEF IInv, PlaceInv, FinishInv, DeskInv, Finished, Has, Alive
<1>3. ASSUME NEW a \in Actor
      PROVE  Own(a)'
  <2>1. Own(a)
    BY DEF IInv
  <2> QED
    BY <1>1, <2>1 DEF Own, Works, Applies, Reviewed, Shows, Requested, Alive, At, Mine, Has,
       NotOver, Finished
<1> QED
  BY <1>2, <1>3 DEF IInv

LEMMA CancelStep ==
    ASSUME IInv, NEW i \in Id, Cancel(i)
    PROVE  IInv'
<1> DEFINE d == [desk EXCEPT !.asked = TRUE]
<1>1. desk \in Desks /\ desk' = d
      /\ UNCHANGED <<settings, outside, lease, evidence, task, history>>
  BY DEF Cancel, IInv, TypeInv
<1>2. d \in Desks /\ d.id = desk.id /\ d.running = desk.running /\ d.receipt = desk.receipt
  BY <1>1 DEF Desks
<1> HIDE DEF d
<1>3. TypeInv'
  BY <1>1, <1>2 DEF IInv, TypeInv, outside, world, history
<1>4. PlaceInv' /\ FinishInv' /\ DeskInv'
  BY <1>1, <1>2 DEF IInv, PlaceInv, FinishInv, DeskInv, Finished, Has, Alive, history
<1>5. ASSUME NEW a \in Actor
      PROVE  Own(a)'
  <2>1. Own(a)
    BY DEF IInv
  <2> QED
    BY <1>1, <1>2, <2>1 DEF Own, Works, Applies, Reviewed, Shows, Requested, Alive, At, Mine, Has,
       NotOver, Finished, history
<1> QED
  BY <1>3, <1>4, <1>5 DEF IInv

\* With the lease free, nobody works on a run.
LEMMA OperationStep ==
    ASSUME IInv, Operation, settings' \in Settings, PlaceInv'
    PROVE  IInv'
<1>1. lease = None /\ UNCHANGED <<world, lease, evidence, task, desk, history>>
  BY DEF Operation, LeaseFree
<1>2. TypeInv'
  BY <1>1 DEF IInv, TypeInv, world, history
<1>3. FinishInv' /\ DeskInv'
  BY <1>1 DEF IInv, FinishInv, DeskInv, Finished, Has, Alive, history
<1>4. ASSUME NEW a \in Actor
      PROVE  Own(a)'
  <2>1. Own(a) /\ task' = task /\ evidence' = evidence /\ desk' = desk
    BY <1>1 DEF IInv
  <2>2. task[a].pc \notin Holding
    BY <1>1, <2>1, GoalsAssumption DEF Own, Works
  <2>3. Works(a)' /\ Shows(a)'
    BY <2>1, <2>2 DEF Works, Shows, Alive, Live, At, Holding, Admitted
  <2>4. Applies(a)' /\ Requested(a)'
    BY <2>1 DEF Own, Applies, Requested, At, Finished
  <2>5. Reviewed(a)'
    BY <2>1, <2>2 DEF Own, Reviewed, Holding
  <2> QED
    BY <2>3, <2>4, <2>5 DEF Own
<1> QED
  BY <1>2, <1>3, <1>4 DEF IInv

LEMMA RecalibrateStep ==
    ASSUME IInv, Recalibrate
    PROVE  IInv'
<1>1. PICK f \in Profile \cup {None} : settings' = [settings EXCEPT !.profile = f]
  BY DEF Recalibrate
<1> DEFINE s == [settings EXCEPT !.profile = f]
<1>2. settings \in Settings /\ settings' = s
  BY <1>1 DEF IInv, TypeInv
<1>3. s \in Settings /\ s.place = settings.place /\ s.used = settings.used
  BY <1>2 DEF Settings
<1> HIDE DEF s
<1>4. Operation /\ evidence' = evidence
  BY DEF Recalibrate, Operation
<1>5. PlaceInv'
  BY <1>2, <1>3, <1>4 DEF IInv, PlaceInv, Has
<1> QED
  BY <1>2, <1>3, <1>4, <1>5, OperationStep

LEMMA ChooseFolderStep ==
    ASSUME IInv, ChooseFolder
    PROVE  IInv'
<1>1. PICK x \in plugged : settings' = [settings EXCEPT !.place = x]
  BY DEF ChooseFolder
<1> DEFINE s == [settings EXCEPT !.place = x]
<1>2. settings \in Settings /\ settings' = s /\ x \in Place /\ ~settings.used
  BY <1>1 DEF IInv, TypeInv, Place, ChooseFolder
<1>3. s \in Settings
  BY <1>2 DEF Settings
<1> HIDE DEF s
<1>4. Operation /\ evidence' = evidence
  BY DEF ChooseFolder, Operation
<1>5. PlaceInv'
  BY <1>2, <1>4 DEF IInv, PlaceInv, Has
<1> QED
  BY <1>2, <1>3, <1>4, <1>5, OperationStep

LEMMA OutsideStep ==
    ASSUME IInv, Replug \/ RuntimeChanges \/ EditPlanFile
    PROVE  IInv'
<1>1. UNCHANGED <<Shared, lease, task, applied>>
  BY DEF Replug, RuntimeChanges, EditPlanFile, Changes, Shared, history
<1>2. CASE Replug
  <2>1. plugged' \subseteq Folder
    BY <1>2 DEF Replug, IInv, TypeInv
  <2> QED
    BY <1>1, <1>2, <2>1, WorldStep DEF Replug, IInv, TypeInv, Shared
<1>3. CASE RuntimeChanges
  BY <1>1, <1>3, WorldStep DEF RuntimeChanges, Origins, IInv, TypeInv, Shared
<1>4. CASE EditPlanFile
  <2>1. PICK plan \in Plan : planFile' = [planFile EXCEPT !.now = plan]
    BY <1>4 DEF EditPlanFile
  <2>2. planFile \in [reviewed : Plan, now : Plan]
    BY <1>4 DEF EditPlanFile, IInv, TypeInv
  <2>3. planFile' \in [reviewed : Plan, now : Plan]
    BY <2>1, <2>2
  <2> QED
    BY <1>1, <1>4, <2>3, WorldStep DEF EditPlanFile, IInv, TypeInv, Shared
<1> QED
  BY <1>2, <1>3, <1>4

LEMMA TamperStep ==
    ASSUME IInv, Tamper
    PROVE  IInv'
<1>1. PICK x \in Place, i \in Id : evidence' = [evidence EXCEPT ![x][i].intact = FALSE]
  BY DEF Tamper
<1> DEFINE e == [evidence[x][i] EXCEPT !.intact = FALSE]
<1>2. evidence \in [Place -> [Id -> Evidence]] /\ evidence[x][i] \in Evidence
  BY DEF IInv, TypeInv
<1>3. /\ e \in Evidence /\ e.attempt = evidence[x][i].attempt /\ e.end = evidence[x][i].end
      /\ e.ended = evidence[x][i].ended
  BY <1>2 DEF Evidence
<1>4. evidence' = [evidence EXCEPT ![x][i] = e]
  BY <1>1
<1> HIDE DEF e
<1>5. /\ evidence' \in [Place -> [Id -> Evidence]]
      /\ \A y \in Place, j \in Id :
           /\ evidence'[y][j].attempt = evidence[y][j].attempt
           /\ evidence'[y][j].end = evidence[y][j].end
           /\ evidence'[y][j].ended = evidence[y][j].ended
  BY <1>2, <1>3, <1>4
<1>6. UNCHANGED <<settings, plugged, runtime, planFile, lease, task, desk, history>>
  BY DEF Tamper
<1>7. TypeInv'
  BY <1>5, <1>6 DEF IInv, TypeInv, history
<1>8. /\ PlaceInv' /\ \A j \in Id : Finished(j)' <=> Finished(j)
      /\ \A y \in Place, j \in Id : Has(y, j)' <=> Has(y, j)
  <2>1. \A y \in Place, j \in Id : Has(y, j)' <=> Has(y, j)
    BY <1>5 DEF Has
  <2>2. \A j \in Id : Finished(j)' <=> Finished(j)
    BY <1>5 DEF Finished
  <2>3. \A y \in Folder : y \in Place
    BY DEF Place
  <2>4. PlaceInv'
    BY <1>5, <1>6, <2>1, <2>3 DEF IInv, PlaceInv
  <2> QED
    BY <2>1, <2>2, <2>4
<1>9. FinishInv' /\ DeskInv'
  <2>1. desk.id \in Id \cup {None}
    BY DEF IInv, TypeInv, Desks
  <2> QED
    BY <1>6, <1>8, <2>1 DEF IInv, TypeInv, FinishInv, DeskInv, Alive, history
<1>10. ASSUME NEW a \in Actor
       PROVE  Own(a)'
  <2>1. Own(a) /\ task' = task /\ lease' = lease /\ settings' = settings /\ desk' = desk
        /\ returned' = returned
    BY <1>6 DEF IInv, history
  <2>2. task[a].pc \in Holding => task[a].place \in Place /\ task[a].id \in Id
    BY HasId
  <2>3. Works(a)'
    BY <1>5, <2>1, <2>2 DEF Own, Works, At, Mine, Has, NotOver, Holding, Admitted
  <2>4. Applies(a)' /\ Reviewed(a)' /\ Shows(a)' /\ Requested(a)'
    BY <1>8, <2>1 DEF Own, Applies, Reviewed, Shows, Requested, Alive, At
  <2> QED
    BY <2>3, <2>4 DEF Own
<1> QED
  BY <1>7, <1>8, <1>9, <1>10 DEF IInv

\* A process dies with all its tasks; the lease goes with it.
LEMMA KillStep ==
    ASSUME IInv, NEW process \in Processes, Kill(process)
    PROVE  IInv'
<1>1. /\ task' = [a \in Actor |-> IF a \in process THEN Idle ELSE task[a]]
      /\ lease' = IF lease \in process THEN None ELSE lease
      /\ desk' = IF process = Handler THEN NoRun ELSE desk
      /\ UNCHANGED <<settings, plugged, runtime, planFile, evidence, history>>
  BY DEF Kill, Changes
<1>2. task' \in [Actor -> Task]
  BY <1>1, Blank DEF IInv, TypeInv
<1>3. TypeInv'
  BY <1>1, <1>2, Blank DEF IInv, TypeInv, history
<1>4. PlaceInv' /\ FinishInv' /\ \A i \in Id : Finished(i) <=> Finished(i)'
  BY <1>1 DEF IInv, PlaceInv, FinishInv, Finished, Has, history
<1>5. DeskInv'
  <2>1. CASE process = Handler
    BY <1>1, <2>1, Blank DEF IInv, DeskInv, history
  <2>2. CASE process # Handler
    <3>1. desk' = desk /\ \A b \in Handler : b \in Actor /\ b \notin process
      BY <1>1, <2>2, GoalsAssumption DEF Processes, Actor
    <3>2. \A b \in Handler : task'[b] = task[b]
      BY <1>1, <3>1
    <3> QED
      BY <1>1, <3>1, <3>2 DEF IInv, DeskInv, Alive, Has, Finished, history
  <2> QED
    BY <2>1, <2>2
<1>6. ASSUME NEW a \in Actor
      PROVE  Own(a)'
  <2>1. CASE a \in process
    <3>1. task'[a] = Idle
      BY <1>1, <2>1
    <3> QED
      BY <3>1, Blank
         DEF Own, Works, Applies, Reviewed, Shows, Requested, Alive, At, Holding, Admitted, Live
  <2>2. CASE a \notin process
    <3>1. task'[a] = task[a] /\ Own(a)
      BY <1>1, <2>2 DEF IInv
    <3>2. Works(a)'
      <4>1. lease = a => lease' = a
        BY <1>1, <2>2
      <4> QED
        BY <1>1, <3>1, <4>1 DEF Own, Works, At, Mine, Has, NotOver, history
    <3>3. Applies(a)' /\ Reviewed(a)' /\ Requested(a)'
      BY <1>1, <3>1 DEF Own, Applies, Reviewed, Requested, At, Finished
    <3>4. Shows(a)'
      <4>1. CASE process = Handler
        <5>1. a \notin Handler /\ (task[a].pc \in Holding => task[a].id # None)
          BY <2>2, <4>1, HasId
        <5> QED
          BY <1>1, <3>1, <4>1, <5>1, Blank DEF Shows, Alive
      <4>2. CASE process # Handler
        BY <1>1, <3>1, <4>2 DEF Own, Shows, Alive
      <4> QED
        BY <4>1, <4>2
    <3> QED
      BY <3>2, <3>3, <3>4 DEF Own
  <2> QED
    BY <2>1, <2>2
<1> QED
  BY <1>3, <1>4, <1>5, <1>6 DEF IInv

-----------------------------------------------------------------------------
(***************************************************************************)
(* The invariant.                                                          *)
(***************************************************************************)
LEMMA InitHolds ==
    ASSUME Init
    PROVE  IInv
<1>1. TypeInv
  <2>1. planFile \in {None} \cup [reviewed : Plan, now : Plan]
    <3>1. settings.profile \in Profile
      BY DEF Init
    <3>2. [profile : {settings.profile}, unverified : BOOLEAN] \subseteq Plan
      BY <3>1 DEF Plan
    <3>3. \A plan \in Plan : [reviewed |-> plan, now |-> plan] \in [reviewed : Plan, now : Plan]
      OBVIOUS
    <3> QED
      BY <3>2, <3>3 DEF Init
  <2>2. settings \in Settings
    BY DEF Init, Settings
  <2> QED
    BY <2>1, <2>2, Blank DEF Init, TypeInv, Origins
<1>2. PlaceInv /\ FinishInv
  <2>1. \A x \in Place, i \in Id : evidence[x][i] = NoEvidence
    BY DEF Init
  <2>2. \A x \in Folder : x \in Place
    BY DEF Place
  <2> QED
    BY <2>1, <2>2, Blank DEF Init, PlaceInv, FinishInv, Finished, Has
<1>3. DeskInv
  BY Blank DEF Init, DeskInv
<1>4. \A a \in Actor : Own(a)
  BY Blank DEF Init, Own, Works, Applies, Reviewed, Shows, Requested, Alive, At, Holding,
     Admitted, Live
<1> QED
  BY <1>1, <1>2, <1>3, <1>4 DEF IInv

LEMMA NextHolds ==
    ASSUME IInv, [Next]_vars
    PROVE  IInv'
<1>1. ASSUME NEW a \in Actor, Admission(a)
      PROVE  IInv'
  BY <1>1, ReviewStep, ConfirmStep, PrepareStep, RefuseStep, BeginStep, LaunchStep, SpawnStep
     DEF Admission
<1>2. ASSUME NEW a \in Actor, Run(a)
      PROVE  IInv'
  BY <1>2, PersistStep, ReturnsStep, WriteEndStep, WriteEndFailsStep, RecordEndStep, PublishStep,
     ReleaseStep DEF Run
<1>3. ASSUME NEW a \in Actor, ReadToApply(a) \/ Apply(a)
      PROVE  IInv'
  BY <1>3, ReadToApplyStep, ApplyStep
<1>4. CASE UNCHANGED vars
  BY <1>4, WorldStep DEF vars, outside, world, history, Shared, IInv, TypeInv
<1> QED
  BY <1>1, <1>2, <1>3, <1>4, CancelStep, RecalibrateStep, ChooseFolderStep, OutsideStep,
     TamperStep, KillStep DEF Next, Over

THEOREM Invariant == Spec => []IInv
<1>1. Init => IInv
  BY InitHolds
<1>2. IInv /\ [Next]_vars => IInv'
  BY NextHolds
<1> QED
  BY <1>1, <1>2, PTL DEF Spec

-----------------------------------------------------------------------------
(***************************************************************************)
(* What follows from it.                                                   *)
(***************************************************************************)
\* The lookup finds the one place where evidence of a run is.
LEMMA FindsEvidence ==
    ASSUME TypeInv, PlaceInv, NEW i \in Id, NEW x \in Place, Has(x, i)
    PROVE  /\ Lookup(i) = x
           /\ Finished(i) <=> Found(i).end = "review"
<1>1. Lookup(i) = x
  BY GoalsAssumption DEF PlaceInv, Lookup, Place
<1>2. \A y \in Place : y # x => evidence[y][i].end # "review"
  BY DEF PlaceInv
<1> QED
  BY <1>1, <1>2 DEF Finished, Found

(***************************************************************************)
(* A run is the one its user saw, and a runtime of others is used only     *)
(* with consent given now (RunsAsReviewed): no selection changes under a   *)
(* run, because whoever is admitted holds the lease.                       *)
(***************************************************************************)
THEOREM RunsTheReviewed == Spec => []RunsAsReviewed
<1>1. IInv => RunsAsReviewed
  BY DEF IInv, Own, Reviewed, RunsAsReviewed
<1> QED
  BY <1>1, Invariant, PTL

(***************************************************************************)
(* A review is shown, and applied, only of a run that returned it, and     *)
(* whose end is on disk (ReviewsAreFinished).                              *)
(***************************************************************************)
THEOREM ShowsTheFinished == Spec => []ReviewsAreFinished
<1>1. IInv => ReviewsAreFinished
  <2> SUFFICES ASSUME IInv PROVE ReviewsAreFinished
    OBVIOUS
  <2>1. ASSUME NEW i \in Id, NEW live \in BOOLEAN, Saved(Found(i), live) = "review"
        PROVE  returned[i] = "review" /\ Found(i).intact
    <3>1. Lookup(i) \in Place /\ Found(i).end = "review" /\ Found(i).intact
      BY <2>1, LookupIn, SavedReview DEF IInv
    <3>2. Finished(i)
      BY <3>1 DEF Found, Finished
    <3> QED
      BY <3>1, <3>2 DEF IInv, FinishInv
  <2>2. ASSUME Status = "review"
        PROVE  returned[desk.id] = "review" /\ Found(desk.id).intact
    <3>1. ~desk.running /\ desk.receipt = "review" /\ Found(desk.id).intact
      BY <2>2 DEF Status, Valid, IInv, DeskInv
    <3>2. desk.id \in Id
      BY <3>1 DEF IInv, DeskInv, TypeInv, Desks
    <3>3. Finished(desk.id)
      BY <3>1, <3>2, GoalsAssumption DEF IInv, DeskInv
    <3> QED
      BY <3>1, <3>2, <3>3 DEF IInv, FinishInv
  <2>3. \A i \in applied : returned[i] = "review"
    BY DEF IInv, TypeInv, FinishInv
  <2> QED
    BY <2>1, <2>2, <2>3 DEF ReviewsAreFinished
<1> QED
  BY <1>1, Invariant, PTL

-----------------------------------------------------------------------------
(***************************************************************************)
(* Evidence stays.  What is written is either of a run that has none yet,  *)
(* or by the one who works on it, before its end.                          *)
(***************************************************************************)
Kept == \A x \in Place, i \in Id :
          Has(x, i) => /\ Has(x, i)'
                       /\ evidence[x][i].end # "none" => evidence'[x][i].end = evidence[x][i].end

LEMMA WriteKeeps ==
    ASSUME IInv, NEW a \in Actor, task[a].pc \in Holding, NEW e, Write(a, e), e.attempt,
           \/ Mine(a).end = "none"
           \/ ~Mine(a).attempt
    PROVE  Kept
<1>1. PICK p \in Place, i \in Id : p = task[a].place /\ i = task[a].id
  BY HasId
<1>2. evidence \in [Place -> [Id -> Evidence]] /\ evidence' = [evidence EXCEPT ![p][i] = e]
  BY <1>1 DEF IInv, TypeInv, Write
<1>3. evidence'[p][i] = e /\ Elsewhere(p, i)
  BY <1>2 DEF Elsewhere
<1> QED
  BY <1>1, <1>3 DEF Kept, Has, Mine, Elsewhere

LEMMA NextKeeps ==
    ASSUME IInv, [Next]_vars
    PROVE  Kept
<1>1. ASSUME NEW a \in Actor, BeginAttempt(a)
      PROVE  Kept
  <2> DEFINE e == [NoEvidence EXCEPT !.attempt = TRUE]
  <2>1. Write(a, e) /\ task[a].pc \in Holding /\ ~Mine(a).attempt
    BY <1>1 DEF BeginAttempt, At, Holding, Admitted, Has, Mine
  <2>2. e.attempt
    BY Blank DEF Evidence
  <2> HIDE DEF e
  <2> QED
    BY <2>1, <2>2, WriteKeeps
<1>2. ASSUME NEW a \in Actor, Persist(a) \/ WriteEnd(a) \/ RecordEnd(a)
      PROVE  Kept
  <2>1. task[a].pc \in {"running", "returned"} /\ task[a].pc \in Holding
    BY <1>2 DEF Persist, WriteEnd, RecordEnd, At, Holding
  <2>2. Mine(a) \in Evidence /\ Mine(a).attempt /\ Mine(a).end = "none"
    BY <2>1, Running
  <2>3. /\ \A r : [Mine(a) EXCEPT !.receipt = r].attempt
        /\ \A r : [Mine(a) EXCEPT !.end = r].attempt
        /\ \A r : [Mine(a) EXCEPT !.ended = r].attempt
    BY <2>2 DEF Evidence
  <2>4. CASE UNCHANGED evidence
    BY <2>4 DEF Kept, Has
  <2>5. CASE \E r : Write(a, [Mine(a) EXCEPT !.receipt = r])
    BY <2>1, <2>2, <2>3, <2>5, WriteKeeps
  <2>6. CASE \E r : Write(a, [Mine(a) EXCEPT !.end = r])
    BY <2>1, <2>2, <2>3, <2>6, WriteKeeps
  <2>7. CASE \E r : Write(a, [Mine(a) EXCEPT !.ended = r])
    BY <2>1, <2>2, <2>3, <2>7, WriteKeeps
  <2> QED
    BY <1>2, <2>4, <2>5, <2>6, <2>7 DEF Persist, WriteEnd, RecordEnd
<1>3. CASE Tamper
  <2>1. PICK x \in Place, i \in Id : evidence' = [evidence EXCEPT ![x][i].intact = FALSE]
    BY <1>3 DEF Tamper
  <2>2. evidence \in [Place -> [Id -> Evidence]]
    BY DEF IInv, TypeInv
  <2>3. \A y \in Place, j \in Id : evidence'[y][j].attempt = evidence[y][j].attempt
                                   /\ evidence'[y][j].end = evidence[y][j].end
    BY <2>1, <2>2 DEF Evidence
  <2> QED
    BY <2>3 DEF Kept, Has
<1>4. CASE UNCHANGED evidence
  BY <1>4 DEF Kept, Has
<1>5. \/ \E a \in Actor : BeginAttempt(a) \/ Persist(a) \/ WriteEnd(a) \/ RecordEnd(a)
      \/ Tamper
      \/ UNCHANGED evidence
  BY DEF Next, Admission, Run, Review, ReviewedPlan, RequestFile, Confirm, Prepare, Refuse, Launch,
     Spawn, Returns, Fails, Dropped, Ends, WriteEndFails, Publish, Release, ReadToApply, Apply,
     Cancel, Recalibrate, ChooseFolder, Operation, Replug, RuntimeChanges, EditPlanFile, Changes,
     Kill, Over, vars
<1> QED
  BY <1>1, <1>2, <1>3, <1>4, <1>5

-----------------------------------------------------------------------------
(***************************************************************************)
(* A run that the sidecar shows as stopped is on disk as stopped: what it  *)
(* publishes was written, and an end is not rewritten.                     *)
(***************************************************************************)
Past == {"ended", "published"}

Stopped(x, i) == evidence[x][i].end = "stopped"

StopInv ==
    /\ \A a \in Actor :
         task[a].pc \in Past /\ task[a].result = "stopped" => Stopped(task[a].place, task[a].id)
    /\ desk.id # None /\ ~desk.running /\ desk.receipt = "stopped" =>
         \E x \in Place : Stopped(x, desk.id)

SameEnd(a) ==
    /\ task[a].pc \in Past
    /\ task'[a].result = task[a].result
    /\ task'[a].id = task[a].id /\ task'[a].place = task[a].place

\* The only way to an end that says stopped is to write it.
LEMMA AdmissionEnds ==
    ASSUME IInv, NEW b \in Actor, Admission(b) \/ ReadToApply(b) \/ Apply(b)
    PROVE  Others(b) /\ task'[b].pc \notin Past
<1> USE DEF Past, Others
<1>1. task \in [Actor -> Task]
  BY DEF IInv, TypeInv
<1>2. CASE Review(b) \/ ReviewedPlan(b) \/ RequestFile(b)
  <2>1. \E x : task' = [task EXCEPT ![b] = x] /\ x.pc = "reviewed"
    <3>1. PICK kind, i, plan, shown : Asks(b, kind, i, plan, shown)
      BY <1>2 DEF Review, ReviewedPlan, RequestFile
    <3> DEFINE x == [Idle EXCEPT !.pc = "reviewed", !.kind = kind, !.id = i,
                                 !.plan = plan, !.shown = shown]
    <3>2. x.pc = "reviewed"
      BY DEF Idle
    <3>3. task' = [task EXCEPT ![b] = x]
      BY <3>1 DEF Asks
    <3> QED
      BY <3>2, <3>3
  <2> QED
    BY <1>1, <2>1
<1>3. CASE Confirm(b)
  BY <1>1, <1>3 DEF Confirm, Task
<1>4. CASE Prepare(b)
  BY <1>1, <1>4 DEF Prepare, Task
<1>5. CASE Refuse(b) \/ Apply(b)
  BY <1>1, <1>5, Blank DEF Refuse, Apply, Leave
<1>6. CASE BeginAttempt(b)
  BY <1>1, <1>6 DEF BeginAttempt, Goto, Task
<1>7. CASE Launch(b)
  BY <1>7, Started DEF Launch
<1>8. CASE Spawn(b)
  <2>1. CASE Runs(b)
    BY <2>1, Started
  <2>2. CASE Leave(b)
    BY <1>1, <2>2, Blank DEF Leave
  <2> QED
    BY <1>8, <2>1, <2>2 DEF Spawn
<1>9. CASE ReadToApply(b)
  <2>1. PICK i \in Id : task' = [task EXCEPT ![b] = [Idle EXCEPT !.pc = "applying", !.id = i]]
    BY <1>9 DEF ReadToApply
  <2>2. [Idle EXCEPT !.pc = "applying", !.id = i].pc = "applying"
    BY DEF Idle
  <2> QED
    BY <1>1, <2>1, <2>2
<1> QED
  BY <1>2, <1>3, <1>4, <1>5, <1>6, <1>7, <1>8, <1>9 DEF Admission

LEMMA RunEnds ==
    ASSUME IInv, NEW b \in Actor, Run(b),
           task'[b].pc \in Past, task'[b].result = "stopped"
    PROVE  WriteEnd(b) \/ SameEnd(b)
<1> USE DEF Past
<1>1. task \in [Actor -> Task] /\ task[b] \in Task
  BY DEF IInv, TypeInv
<1>2. ~Persist(b)
  BY <1>1 DEF Persist, Task, At
<1>3. ~(Returns(b) \/ Fails(b) \/ Dropped(b))
  BY <1>1 DEF Returns, Fails, Dropped, Ends, Task
<1>4. ~WriteEndFails(b)
  BY <1>1 DEF WriteEndFails, Task
<1>5. ~RecordEnd(b)
  BY <1>1 DEF RecordEnd, CutTo, Task
<1>6. ~Release(b)
  BY <1>1, Blank DEF Release, Leave
<1>7. Publish(b) => SameEnd(b)
  BY <1>1 DEF Publish, Goto, At, SameEnd, Task
<1> QED
  BY <1>2, <1>3, <1>4, <1>5, <1>6, <1>7 DEF Run

LEMMA RunOthers ==
    ASSUME IInv, NEW b \in Actor, Run(b)
    PROVE  Others(b)
  BY DEF IInv, TypeInv, Others, Run, Persist, Returns, Fails, Dropped, Ends, WriteEnd,
     WriteEndFails, RecordEnd, Publish, Release, Goto, Leave

LEMMA TaskEnds ==
    ASSUME IInv, [Next]_vars, NEW a \in Actor,
           task'[a].pc \in Past, task'[a].result = "stopped"
    PROVE  WriteEnd(a) \/ SameEnd(a)
<1>1. CASE task'[a] = task[a]
  BY <1>1 DEF SameEnd
<1>2. ASSUME NEW b \in Actor, Admission(b) \/ ReadToApply(b) \/ Apply(b)
      PROVE  SameEnd(a)
  BY <1>1, <1>2, AdmissionEnds DEF Others, SameEnd
<1>3. ASSUME NEW b \in Actor, Run(b)
      PROVE  WriteEnd(a) \/ SameEnd(a)
  BY <1>1, <1>3, RunEnds, RunOthers DEF Others
<1>4. ASSUME NEW process \in Processes, Kill(process)
      PROVE  WriteEnd(a) \/ SameEnd(a)
  <2>1. task'[a] \in {Idle, task[a]}
    BY <1>4 DEF Kill
  <2>2. Idle.pc \notin Past
    BY DEF Idle, Past
  <2>3. task'[a] = task[a]
    BY <2>1, <2>2
  <2> QED
    BY <1>1, <2>3
<1>5. CASE UNCHANGED task
  BY <1>1, <1>5
<1> QED
  BY <1>2, <1>3, <1>4, <1>5
     DEF Next, Cancel, Recalibrate, ChooseFolder, Operation, Replug, RuntimeChanges,
         EditPlanFile, Tamper, Over, vars

\* What the sidecar shows of a run that is over was published, or is as before.
LEMMA DeskEnds ==
    ASSUME IInv, [Next]_vars, desk'.id # None, ~desk'.running, desk'.receipt = "stopped"
    PROVE  \/ \E a \in Handler : Publish(a)
           \/ desk' = desk
<1>1. desk \in Desks
  BY DEF IInv, TypeInv
<1>2. \A b \in Actor : ~(Spawn(b) /\ desk' # desk)
  BY DEF Spawn, NoRun
<1>3. ASSUME NEW b \in Actor, Persist(b)
      PROVE  desk' = desk
  <2>1. b \in Handler => desk.running
    BY <1>3 DEF Persist, At, IInv, Own, Shows, Alive, Live
  <2> QED
    BY <1>1, <1>3, <2>1 DEF Persist, Desks
<1>4. \A i \in Id : ~Cancel(i)
  BY <1>1 DEF Cancel, Desks
<1>5. \A process \in Processes : Kill(process) => desk' = desk
  BY Blank DEF Kill
<1>6. \/ \E b \in Actor : Spawn(b) \/ Persist(b) \/ Publish(b)
      \/ \E i \in Id : Cancel(i)
      \/ \E process \in Processes : Kill(process)
      \/ desk' = desk
  BY DEF Next, Admission, Run, Review, ReviewedPlan, RequestFile, Confirm, Prepare, Refuse,
     BeginAttempt, Launch, Returns, Fails, Dropped, Ends, WriteEnd, WriteEndFails, RecordEnd,
     Release, ReadToApply, Apply, Recalibrate, ChooseFolder, Operation, Replug, RuntimeChanges,
     EditPlanFile, Tamper, Changes, Over, vars
<1>7. \A b \in Actor : Publish(b) => b \in Handler
  BY DEF Publish
<1> QED
  BY <1>2, <1>3, <1>4, <1>5, <1>6, <1>7

LEMMA NextStops ==
    ASSUME IInv, StopInv, [Next]_vars
    PROVE  StopInv'
<1>1. /\ Kept
      /\ \A x \in Place, i \in Id : Stopped(x, i) => Stopped(x, i)'
  <2>1. Kept
    BY NextKeeps
  <2>2. \A x \in Place, i \in Id : Stopped(x, i) => Has(x, i)
    BY DEF IInv, PlaceInv, Stopped
  <2> QED
    BY <2>1, <2>2 DEF Kept, Stopped
<1>2. ASSUME NEW a \in Actor, task'[a].pc \in Past, task'[a].result = "stopped"
      PROVE  evidence'[task'[a].place][task'[a].id].end = "stopped"
  <2>1. CASE WriteEnd(a)
    <3>1. /\ task[a] \in Task /\ evidence \in [Place -> [Id -> Evidence]]
          /\ task[a].pc \in Holding
      BY <2>1 DEF IInv, TypeInv, WriteEnd, At, Holding
    <3>2. /\ task[a].id \in Id /\ task[a].place \in Place
          /\ evidence' = [evidence EXCEPT ![task[a].place][task[a].id] =
                             [Mine(a) EXCEPT !.end = task[a].result]]
      BY <2>1, <3>1, HasId DEF WriteEnd, Write
    <3>3. /\ task'[a].result = task[a].result
          /\ task'[a].id = task[a].id /\ task'[a].place = task[a].place
      BY <2>1, <3>1 DEF WriteEnd, Goto, Task, IInv, TypeInv
    <3>4. Mine(a) \in Evidence
      BY <3>1, <3>2 DEF Mine
    <3>5. [Mine(a) EXCEPT !.end = task[a].result].end = task[a].result
      BY <3>4 DEF Evidence
    <3> QED
      BY <1>2, <3>1, <3>2, <3>3, <3>5
  <2>2. CASE SameEnd(a)
    <3>1. task[a].pc \in Holding
      BY <2>2 DEF SameEnd, Past, Holding
    <3>2. task[a].id \in Id /\ task[a].place \in Place
      BY <3>1, HasId
    <3>3. Stopped(task[a].place, task[a].id)
      BY <1>2, <2>2 DEF SameEnd, StopInv
    <3> QED
      BY <1>1, <2>2, <3>2, <3>3 DEF SameEnd, Stopped
  <2> QED
    BY <1>2, <2>1, <2>2, TaskEnds
<1>3. ASSUME desk'.id # None, ~desk'.running, desk'.receipt = "stopped"
      PROVE  \E x \in Place : Stopped(x, desk.id)' /\ desk'.id = desk.id
  <2>1. ASSUME NEW a \in Handler, Publish(a)
        PROVE  \E x \in Place : Stopped(x, desk.id)' /\ desk'.id = desk.id
    <3>1. a \in Actor /\ desk \in Desks /\ Alive(a) /\ task[a].pc \in Holding
      BY <2>1 DEF Publish, At, Alive, Live, Holding, Actor, IInv, TypeInv
    <3>2. desk.id = task[a].id /\ task[a].place \in Place
      BY <3>1, HasId DEF IInv, Own, Shows
    <3>3. desk'.id = desk.id /\ task[a].result = "stopped"
      BY <1>3, <2>1, <3>1 DEF Publish, Desks
    <3>4. Stopped(task[a].place, task[a].id)
      BY <2>1, <3>1, <3>3 DEF Publish, At, StopInv, Past
    <3> QED
      BY <2>1, <3>2, <3>3, <3>4 DEF Publish, Stopped
  <2>2. CASE desk' = desk
    <3>1. PICK x \in Place : Stopped(x, desk.id)
      BY <1>3, <2>2 DEF StopInv
    <3>2. desk.id \in Id
      BY <1>3, <2>2 DEF IInv, TypeInv, Desks
    <3> QED
      BY <1>1, <2>2, <3>1, <3>2 DEF Stopped
  <2> QED
    BY <1>3, <2>1, <2>2, DeskEnds
<1> QED
  BY <1>2, <1>3 DEF StopInv, Stopped

(***************************************************************************)
(* What the user is told is true, and no refused start leaves an attempt   *)
(* behind (GoalsInv).                                                      *)
(***************************************************************************)
THEOREM TellsTheTruth == Spec => []GoalsInv
<1>1. IInv /\ StopInv => GoalsInv
  <2> SUFFICES ASSUME IInv, StopInv PROVE GoalsInv
    OBVIOUS
  <2>1. TypeOK
    BY DEF IInv, TypeInv, Settings, Desks, Task, DeskInv, TypeOK
  <2>2. LeaseHeld /\ orphans = {}
    BY DEF IInv, Own, Works, LeaseHeld, DeskInv
  <2>3. StatusAgrees
    <3> SUFFICES ASSUME ~desk.running, desk.id # None, Reachable(Lookup(desk.id))
                 PROVE  /\ Status = "review" <=> Saved(Found(desk.id), FALSE) = "review"
                        /\ Status \in Final => Saved(Found(desk.id), FALSE) = Status
      BY DEF StatusAgrees
    <3>1. desk.id \in Id /\ \E x \in Place : Has(x, desk.id)
      BY DEF IInv, TypeInv, Desks, DeskInv
    <3>2. Found(desk.id) \in Evidence
      BY <3>1, LookupIn DEF IInv
    <3>3. desk.receipt = "review" <=> Found(desk.id).end = "review"
      BY <3>1, FindsEvidence DEF IInv, DeskInv
    <3>4. Saved(Found(desk.id), FALSE) = "review" <=>
            Found(desk.id).end = "review" /\ Found(desk.id).intact
      <4>1. Saved(Found(desk.id), FALSE) = "review" =>
              Found(desk.id).end = "review" /\ Found(desk.id).intact
        BY <3>2, SavedReview
      <4>2. Found(desk.id).end = "review" /\ Found(desk.id).intact =>
              Saved(Found(desk.id), FALSE) = "review"
        BY DEF Saved
      <4> QED
        BY <4>1, <4>2
    <3>5. Status = "review" <=> desk.receipt = "review" /\ Found(desk.id).intact
      <4>1. Has(Lookup(desk.id), desk.id)
        BY <3>1, FindsEvidence DEF IInv
      <4> QED
        BY <4>1 DEF Status, Valid
    <3>6. Status = "stopped" => Saved(Found(desk.id), FALSE) = "stopped"
      <4> SUFFICES ASSUME Status = "stopped"
                   PROVE  Found(desk.id).end = "stopped"
        BY DEF Saved
      <4>1. PICK x \in Place : Stopped(x, desk.id)
        BY DEF Status, StopInv
      <4>2. Has(x, desk.id)
        BY <3>1, <4>1 DEF IInv, PlaceInv, Stopped
      <4>3. Lookup(desk.id) = x
        BY <3>1, <4>2, FindsEvidence DEF IInv
      <4> QED
        BY <4>1, <4>3 DEF Stopped, Found
    <3> QED
      BY <3>3, <3>4, <3>5, <3>6 DEF Final
  <2>4. LiveIsLive
    <3> SUFFICES ASSUME desk.running
                 PROVE  \E a \in Handler :
                          /\ task[a].id = desk.id
                          /\ At(a, "running") =>
                               Saved(Found(desk.id), TRUE) \in
                                 {"started", "finalizing", "stopped"} \cup Unfinished
      BY DEF LiveIsLive
    <3>1. PICK a \in Handler : Alive(a)
      BY DEF IInv, DeskInv
    <3>2. task[a].id = desk.id /\ a \in Actor
      BY <3>1 DEF IInv, Own, Shows, Actor
    <3>3. ASSUME At(a, "running")
          PROVE  Saved(Found(desk.id), TRUE) \in
                   {"started", "finalizing", "stopped"} \cup Unfinished
      <4>1. PICK p \in Place, i \in Id :
              /\ i = task[a].id /\ Mine(a) = evidence[p][i] /\ Mine(a) \in Evidence
              /\ Mine(a).attempt /\ NotOver(i)
        BY <3>2, <3>3, Running DEF At
      <4>2. Found(i) = Mine(a)
        BY <4>1, FindsEvidence DEF IInv, Has, Found
      <4>3. Mine(a).end = "none" /\ Mine(a).ended = "none"
        BY <4>1 DEF NotOver
      <4>4. Mine(a).receipt \in {"none"} \cup Unfinished \cup Final
        BY <4>1 DEF Evidence
      <4>5. Saved(Mine(a), TRUE) \in {"started", "finalizing", "stopped"} \cup Unfinished
        BY <4>3, <4>4 DEF Saved, Unfinished, Final
      <4> QED
        BY <3>2, <4>1, <4>2, <4>5
    <3> QED
      BY <3>2, <3>3
  <2> QED
    BY <2>1, <2>2, <2>3, <2>4 DEF GoalsInv
<1>2. Init => IInv /\ StopInv
  <2>1. Init => StopInv
    BY Blank DEF Init, StopInv, Past
  <2> QED
    BY <2>1, InitHolds
<1>3. IInv /\ StopInv /\ [Next]_vars => IInv' /\ StopInv'
  BY NextHolds, NextStops
<1> QED
  BY <1>1, <1>2, <1>3, PTL DEF Spec

-----------------------------------------------------------------------------
LaunchInv == launches \in [Id -> Nat]

LEMMA Launched ==
    ASSUME [Next]_vars
    PROVE  launches' = launches \/ \E a \in Actor : BeginAttempt(a)
  BY DEF Next, Admission, Run, Review, ReviewedPlan, RequestFile, Confirm, Prepare, Refuse, Launch,
     Spawn, Persist, Returns, Fails, Dropped, Ends, WriteEnd, WriteEndFails, RecordEnd, Publish,
     Release, ReadToApply, Apply, Cancel, Recalibrate, ChooseFolder, Operation, Replug,
     RuntimeChanges, EditPlanFile, Tamper, Changes, Kill, Over, vars, history

LEMMA LaunchesNew ==
    ASSUME IInv, LaunchInv, [Next]_vars
    PROVE  /\ LaunchInv'
           /\ \A x \in Place, i \in Id : Has(x, i) => launches'[i] = launches[i]
<1>1. CASE launches' = launches
  BY <1>1 DEF LaunchInv
<1>2. ASSUME NEW a \in Actor, BeginAttempt(a)
      PROVE  /\ LaunchInv'
             /\ \A x \in Place, i \in Id : Has(x, i) => launches'[i] = launches[i]
  <2>1. /\ task[a].id \in Id /\ \A x \in Place : ~Has(x, task[a].id)
        /\ launches' = [launches EXCEPT ![task[a].id] = @ + 1]
    BY <1>2, HasId DEF BeginAttempt, At, Holding, Admitted, IInv, Own, Works
  <2> QED
    BY <2>1 DEF LaunchInv
<1> QED
  BY <1>1, <1>2, Launched

(***************************************************************************)
(* A run is found where its evidence was put, from the moment it is begun  *)
(* on; its id is not begun again, and its end is not rewritten             *)
(* (EvidenceStays).                                                        *)
(***************************************************************************)
THEOREM EvidenceStaysPut == Spec => EvidenceStays
<1>1. Init => IInv /\ LaunchInv
  <2>1. Init => LaunchInv
    BY DEF Init, LaunchInv
  <2> QED
    BY <2>1, InitHolds
<1>2. IInv /\ LaunchInv /\ [Next]_vars => IInv' /\ LaunchInv' /\ [EvidenceKept]_vars
  <2> SUFFICES ASSUME IInv, LaunchInv, [Next]_vars
               PROVE  IInv' /\ LaunchInv' /\ EvidenceKept
    OBVIOUS
  <2>1. IInv' /\ LaunchInv' /\ Kept
    BY NextHolds, NextKeeps, LaunchesNew
  <2>2. ASSUME NEW x \in Place, NEW i \in Id, Has(x, i)'
        PROVE  Lookup(i)' = x
    <3>1. TypeInv' /\ PlaceInv'
      BY <2>1 DEF IInv
    <3> QED
      BY <2>2, <3>1, GoalsAssumption DEF PlaceInv, Lookup, Place
  <2> QED
    BY <2>1, <2>2, LaunchesNew DEF EvidenceKept, Kept
<1> QED
  BY <1>1, <1>2, PTL DEF Spec, EvidenceStays
=============================================================================

------------------------- MODULE ModelManagerProofs -------------------------
(***************************************************************************)
(* The settings of the local models (module ModelManager), proved for      *)
(* every number of processes, models, runtimes, folders and operations:    *)
(* the lease protects every copy of the settings, a selected model is one  *)
(* that was measured, and the file forgets nothing that was done.          *)
(*                                                                         *)
(* All rest on one inductive invariant, which says of each process what    *)
(* its operation knows at each of its steps.  An operation that works      *)
(* holds the lease, and only who holds it writes the file or changes a     *)
(* model through a runtime: what others do cannot disturb it.              *)
(***************************************************************************)
EXTENDS ModelManager, FiniteSetTheorems, WellFoundedInduction, TLAPS

-----------------------------------------------------------------------------
(***************************************************************************)
(* The shape of the settings and of an operation.                          *)
(***************************************************************************)
IsSettings(s) ==
    s = [x \in {"schema", "endpoint", "active", "profiles", "attempts",
                "calibrating", "root", "used", "installed"} |-> s[x]]

IsOperation(o) ==
    o = [x \in {"kind", "model", "pc", "s", "shown", "digest", "best",
                "moves", "alien"} |-> o[x]]

Measuring == {"off_edit", "off_create", "default_edit", "recheck"}

RunSteps == {"prepared", "running"}

Steps == {"loaded", "selected", "provisioned", "starting", "pull", "pulling",
          "pulled", "delete", "deleted"} \cup Measuring \cup RunSteps

Holds(p) == ~At(p, "idle") /\ ~At(p, "asked") /\ ~At(p, "confirmed")

(***************************************************************************)
(* What the operation of p knows.                                          *)
(***************************************************************************)
Shaped(p) ==
    \/ op[p] = Idle
    \/ /\ IsOperation(op[p])
       /\ op[p].pc \in Steps \cup {"asked", "confirmed", "admitted"}

CopyIsFile(p) == Working(p) => S(p) = file

\* A goal was shown a calibration of the endpoint it was shown.
GoalShown(p) ==
    Kind(p) = "goal" /\ ~At(p, "idle") =>
        /\ op[p].shown = [x \in {"endpoint", "root", "profile"} |-> op[p].shown[x]]
        /\ op[p].shown.profile # None
        /\ op[p].shown.profile.endpoint = op[p].shown.endpoint

Admitted(p) == At(p, "admitted") /\ Kind(p) # "goal" => AsShown(p)

Works(p) == Working(p) => AsShown(p)

GoalSteps(p) ==
    Working(p) => (Kind(p) = "goal" <=> op[p].pc \in RunSteps)

GoalRuns(p) ==
    Kind(p) = "goal" /\ Working(p) => Selected(file) = op[p].shown.profile

Chosen(p) ==
    At(p, "selected") => \E f \in ProfilesOf(S(p), op[p].model) : f.protocol

Deleting(p) ==
    op[p].pc \in {"delete", "deleted"} => op[p].model # S(p).active

\* How often the weights were replaced says whether they are the ones.
Measures(p) ==
    op[p].pc \in Measuring =>
        /\ Here(p) \in Place
        /\ Kind(p) = "calibrate" /\ op[p].digest # None
        /\ op[p].moves \in Nat
        /\ op[p].moves = 0 => weights[Here(p)] = op[p].digest /\ op[p].alien = FALSE
        /\ op[p].moves = 1 => weights[Here(p)] # op[p].digest

Unmeasured(p) ==
    op[p].pc \in {"asked", "confirmed", "admitted", "loaded"} =>
        op[p].digest = None /\ op[p].moves = 0 /\ op[p].alien = FALSE

Confirmed(p) == At(p, "confirmed") => Kind(p) = "goal"

Leased(p) == Holds(p) => lease = p

Knows(p) ==
    /\ Shaped(p) /\ Leased(p) /\ CopyIsFile(p)
    /\ GoalShown(p) /\ Admitted(p) /\ Works(p) /\ GoalSteps(p) /\ GoalRuns(p)
    /\ Chosen(p) /\ Deleting(p) /\ Measures(p) /\ Unmeasured(p)
    /\ Confirmed(p)

Static ==
    /\ op = [q \in Process |-> op[q]]
    /\ IsSettings(file)
    /\ weights \in [Place -> Digest \cup {None}]
    /\ ActiveIsCalibrated /\ ProfilesAreMeasured

IInv == Static /\ \A p \in Process : Knows(p)

-----------------------------------------------------------------------------
(***************************************************************************)
(* What does not disturb the others, and what an operation that goes on    *)
(* still knows.                                                            *)
(***************************************************************************)
Aside(p) ==
    /\ \A q \in Process \ {p} : op'[q] = op[q]
    /\ file' = file \/ lease = p
    /\ weights' = weights \/ lease = p
    /\ lease' = lease \/ lease \in {p, None}

\* Only who holds the lease writes: the others know what they knew.
LEMMA OthersKnow ==
    ASSUME IInv, NEW p \in Process, Aside(p), NEW q \in Process \ {p}
    PROVE  Knows(q)'
<1>1. Knows(q) /\ op'[q] = op[q]
  BY DEF IInv, Aside
<1>2. CASE Holds(q)
  <2>1. lease = q /\ lease # p /\ lease # None
    BY <1>1, <1>2, ManagerAssumption DEF Knows, Leased
  <2>2. file' = file /\ weights' = weights /\ lease' = lease
    BY <2>1 DEF Aside
  <2> QED
    BY <1>1, <2>2 DEF Knows, Shaped, Leased, Holds, CopyIsFile, GoalShown, Admitted,
       Works, GoalSteps, GoalRuns, Chosen, Deleting, Measures, Unmeasured, Confirmed,
       Working, AsShown, At, Kind, S, Here
<1>3. CASE ~Holds(q)
  <2>1. op[q].pc \in {"idle", "asked", "confirmed"}
    BY <1>3 DEF Holds, At
  <2>2. Shaped(q)' /\ GoalShown(q)' /\ Unmeasured(q)' /\ Confirmed(q)'
    BY <1>1 DEF Knows, Shaped, GoalShown, Unmeasured, Confirmed, At, Kind
  <2>3. ~Working(q)' /\ ~Holds(q)' /\ ~At(q, "admitted")'
    BY <1>1, <2>1 DEF Working, Holds, At
  <2>4. op'[q].pc \notin {"selected", "delete", "deleted"} \cup Measuring
    BY <1>1, <2>1 DEF Measuring
  <2> QED
    BY <2>2, <2>3, <2>4 DEF Knows, Leased, CopyIsFile, Admitted, Works, GoalSteps,
       GoalRuns, Chosen, Deleting, Measures, At
<1> QED
  BY <1>2, <1>3

\* An operation that is over knows nothing.
LEMMA IdleKnows ==
    ASSUME NEW p \in Process, op'[p] = Idle
    PROVE  Knows(p)'
<1>1. op'[p].pc = "idle"
  BY DEF Idle
<1>2. ~Working(p)' /\ ~Holds(p)' /\ ~At(p, "admitted")' /\ At(p, "idle")'
  BY <1>1 DEF Working, Holds, At
<1>3. op'[p].pc \notin {"selected", "delete", "deleted"} \cup Measuring
  BY <1>1 DEF Measuring
<1> QED
  BY <1>1, <1>2, <1>3 DEF Knows, Shaped, Leased, CopyIsFile, GoalShown, Admitted, Works,
     GoalSteps, GoalRuns, Chosen, Deleting, Measures, Unmeasured, Confirmed, At

\* What is selected does not hang on the other fields of the settings.
LEMMA SelectionKept ==
    ASSUME Static,
           file'.active = file.active, file'.endpoint = file.endpoint,
           file'.profiles = file.profiles
    PROVE  /\ ActiveIsCalibrated' /\ ProfilesAreMeasured'
           /\ Selected(file') = Selected(file)
BY DEF Static, ActiveIsCalibrated, ProfilesAreMeasured, Selected, ProfilesOf

\* A calibration that is selected belongs to the endpoint.
LEMMA SelectedIsOne ==
    ASSUME NEW s, Selected(s) # None
    PROVE  Selected(s) \in s.profiles /\ Selected(s).endpoint = s.endpoint
<1>1. s.active # None /\ Cardinality(ProfilesOf(s, s.active)) = 1
  BY DEF Selected
<1>2. ProfilesOf(s, s.active) # {}
  BY <1>1, FS_EmptySet
<1>3. Selected(s) \in ProfilesOf(s, s.active)
  BY <1>1, <1>2 DEF Selected
<1> QED
  BY <1>3 DEF ProfilesOf

\* Who works holds the lease, and its copy is the file.
LEMMA WorkingFacts ==
    ASSUME IInv, NEW p \in Process, Working(p)
    PROVE  /\ lease = p /\ S(p) = file /\ IsSettings(file)
           /\ IsOperation(op[p]) /\ op[p].pc \in Steps
           /\ AsShown(p) /\ GoalSteps(p) /\ GoalRuns(p) /\ GoalShown(p)
<1>1. Knows(p)
  BY DEF IInv
<1>2. op[p] # Idle
  BY DEF Working, Idle
<1>3. Holds(p)
  BY DEF Working, Holds, At
<1> QED
  BY <1>1, <1>2, <1>3 DEF Knows, Shaped, Leased, CopyIsFile, Works, Working, IInv, Static

(***************************************************************************)
(* An operation takes a step and goes on working, after it saved at most   *)
(* what selects nothing.                                                   *)
(***************************************************************************)
LEMMA GoesOn ==
    ASSUME IInv, NEW p \in Process, Working(p), NEW o,
           op' = [op EXCEPT ![p] = o], IsOperation(o),
           o.kind = Kind(p), o.model = op[p].model, o.shown = op[p].shown,
           o.s = file', o.pc \in Steps \ {"loaded"},
           o.pc \in RunSteps <=> op[p].pc \in RunSteps,
           IsSettings(file'),
           file'.endpoint = file.endpoint, file'.root = file.root,
           file'.active = file.active, file'.profiles = file.profiles,
           lease' = lease,
           weights' \in [Place -> Digest \cup {None}],
           Chosen(p)', Deleting(p)', Measures(p)'
    PROVE  IInv'
<1>1. lease = p /\ S(p) = file /\ AsShown(p)
      /\ GoalSteps(p) /\ GoalRuns(p) /\ GoalShown(p)
  BY WorkingFacts
<1>2. op'[p] = o /\ \A q \in Process \ {p} : op'[q] = op[q]
  BY DEF IInv, Static
<1>3. op' = [q \in Process |-> op'[q]]
  BY DEF IInv, Static
<1>4. Aside(p)
  BY <1>1, <1>2 DEF Aside
<1>5. ActiveIsCalibrated' /\ ProfilesAreMeasured' /\ Selected(file') = Selected(file)
  BY SelectionKept DEF IInv
<1>6. Static'
  BY <1>3, <1>5 DEF Static
<1>7. o.pc \notin {"idle", "asked", "confirmed", "admitted", "loaded"}
  BY DEF Steps, Measuring, RunSteps
<1>8. Working(p)'
  BY <1>2, <1>7 DEF Working
<1>9. Shaped(p)' /\ Leased(p)' /\ CopyIsFile(p)'
  BY <1>1, <1>2 DEF Shaped, Leased, CopyIsFile, S
<1>10. AsShown(p)'
  BY <1>1, <1>2 DEF AsShown
<1>11. ~At(p, "idle")
  BY DEF Working, At
<1>12. GoalShown(p)'
  BY <1>1, <1>2, <1>11 DEF GoalShown, Kind
<1>13. GoalSteps(p)' /\ GoalRuns(p)'
  BY <1>1, <1>2, <1>5 DEF GoalSteps, GoalRuns, Kind
<1>14. Admitted(p)' /\ Works(p)' /\ Unmeasured(p)' /\ Confirmed(p)'
  BY <1>2, <1>7, <1>10 DEF Admitted, Works, Unmeasured, Confirmed, At
<1>15. Knows(p)'
  BY <1>9, <1>12, <1>13, <1>14 DEF Knows
<1>16. \A q \in Process : Knows(q)'
  BY <1>4, <1>15, OthersKnow
<1> QED
  BY <1>6, <1>16 DEF IInv

-----------------------------------------------------------------------------
(***************************************************************************)
(* An operation ends: its process knows nothing any more, and what it      *)
(* saved must select a calibration that was measured.                      *)
(***************************************************************************)
LEMMA OperationEnds ==
    ASSUME IInv, NEW p \in Process,
           op' = [op EXCEPT ![p] = Idle],
           lease' = lease \/ lease \in {p, None},
           file' = file \/ lease = p,
           IsSettings(file'), ActiveIsCalibrated', ProfilesAreMeasured',
           weights' = weights
    PROVE  IInv'
<1>1. op'[p] = Idle /\ \A q \in Process \ {p} : op'[q] = op[q]
  BY DEF IInv, Static
<1>2. Static'
  BY DEF IInv, Static
<1>3. Aside(p)
  BY <1>1 DEF Aside
<1>4. \A q \in Process : Knows(q)'
  BY <1>1, <1>3, OthersKnow, IdleKnows
<1> QED
  BY <1>2, <1>4 DEF IInv

\* Nothing is saved: the settings are as good as they were.
LEMMA EndsQuietly ==
    ASSUME IInv, NEW p \in Process,
           op' = [op EXCEPT ![p] = Idle],
           lease' = lease \/ lease \in {p, None},
           UNCHANGED <<file, weights>>
    PROVE  IInv'
<1>1. IsSettings(file') /\ ActiveIsCalibrated' /\ ProfilesAreMeasured'
  BY DEF IInv, Static, ActiveIsCalibrated, ProfilesAreMeasured, ProfilesOf
<1> QED
  BY <1>1, OperationEnds

\* A change that leaves the selection alone is saved.
LEMMA EndsSaved ==
    ASSUME IInv, NEW p \in Process, Working(p),
           NEW s, SaveAndEnd(p, s), IsSettings(s),
           s.active = file.active, s.endpoint = file.endpoint, s.profiles = file.profiles,
           weights' = weights
    PROVE  IInv'
<1>1. lease = p
  BY WorkingFacts
<1>2. ActiveIsCalibrated' /\ ProfilesAreMeasured'
  BY SelectionKept DEF IInv, SaveAndEnd
<1> QED
  BY <1>1, <1>2, OperationEnds DEF SaveAndEnd, End

LEMMA DeselectStep ==
    ASSUME IInv, NEW p \in Process, Deselect(p)
    PROVE  IInv'
<1>1. Working(p)
  BY DEF Deselect, Starts, At, Working
<1>2. lease = p /\ S(p) = file /\ IsSettings(file)
  BY <1>1, WorkingFacts
<1>3. file' = [file EXCEPT !.active = None]
  BY <1>2 DEF Deselect, SaveAndEnd
<1>4. IsSettings(file') /\ file'.active = None /\ file'.profiles = file.profiles
  BY <1>2, <1>3 DEF IsSettings
<1>5. ActiveIsCalibrated' /\ ProfilesAreMeasured'
  BY <1>4 DEF IInv, Static, ActiveIsCalibrated, ProfilesAreMeasured
<1> QED
  BY <1>2, <1>4, <1>5, OperationEnds DEF Deselect, SaveAndEnd, End, Runtime

LEMMA SetEndpointStep ==
    ASSUME IInv, NEW p \in Process, SetEndpoint(p)
    PROVE  IInv'
<1>1. Working(p)
  BY DEF SetEndpoint, Starts, At, Working
<1>2. lease = p /\ S(p) = file /\ IsSettings(file)
  BY <1>1, WorkingFacts
<1>3. PICK e \in Endpoint : SaveAndEnd(p, ChangedEndpoint(S(p), e))
  BY DEF SetEndpoint
<1>4. file' = [file EXCEPT !.endpoint = e, !.active = None]
  BY <1>2, <1>3 DEF SaveAndEnd, ChangedEndpoint
<1>5. IsSettings(file') /\ file'.active = None /\ file'.profiles = file.profiles
  BY <1>2, <1>4 DEF IsSettings
<1>6. ActiveIsCalibrated' /\ ProfilesAreMeasured'
  BY <1>5 DEF IInv, Static, ActiveIsCalibrated, ProfilesAreMeasured
<1> QED
  BY <1>2, <1>3, <1>5, <1>6, OperationEnds DEF SetEndpoint, SaveAndEnd, End, Runtime

\* A newer schema changes nothing else.
LEMMA NewerSchema ==
    ASSUME NEW s, NEW n, IsSettings(s)
    PROVE  /\ IsSettings(AtLeast(s, n))
           /\ AtLeast(s, n).active = s.active /\ AtLeast(s, n).endpoint = s.endpoint
           /\ AtLeast(s, n).profiles = s.profiles /\ AtLeast(s, n).root = s.root
BY DEF IsSettings, AtLeast

\* Nor does the mark of an installed runtime.
LEMMA MarkedRuntime ==
    ASSUME NEW s, IsSettings(s)
    PROVE  /\ IsSettings(WithRuntime(s))
           /\ WithRuntime(s).active = s.active /\ WithRuntime(s).endpoint = s.endpoint
           /\ WithRuntime(s).profiles = s.profiles /\ WithRuntime(s).root = s.root
<1> DEFINE newer == AtLeast(s, 3)
           set   == [newer EXCEPT !.installed = TRUE, !.used = @ \/ s.root # DefaultRoot]
<1>1. /\ IsSettings(newer)
      /\ newer.active = s.active /\ newer.endpoint = s.endpoint
      /\ newer.profiles = s.profiles /\ newer.root = s.root
  BY NewerSchema
<1>2. WithRuntime(s) = IF s.installed THEN s ELSE set
  BY DEF WithRuntime
<1> HIDE DEF newer
<1>3. /\ IsSettings(set)
      /\ set.active = s.active /\ set.endpoint = s.endpoint
      /\ set.profiles = s.profiles /\ set.root = s.root
  BY <1>1 DEF IsSettings
<1> QED
  BY <1>2, <1>3

LEMMA SetStorageStep ==
    ASSUME IInv, NEW p \in Process, SetStorage(p)
    PROVE  IInv'
<1>1. Working(p)
  BY DEF SetStorage, Starts, At, Working
<1>2. S(p) = file /\ IsSettings(file)
  BY <1>1, WorkingFacts
<1>3. PICK r : SaveAndEnd(p, [AtLeast(S(p), 2) EXCEPT !.root = r])
  BY DEF SetStorage
<1> DEFINE newer == AtLeast(S(p), 2)
           s     == [newer EXCEPT !.root = r]
<1>4. /\ IsSettings(s)
      /\ s.active = file.active /\ s.endpoint = file.endpoint /\ s.profiles = file.profiles
  <2>1. /\ IsSettings(newer) /\ newer.active = file.active
        /\ newer.endpoint = file.endpoint /\ newer.profiles = file.profiles
    BY <1>2, NewerSchema
  <2> HIDE DEF newer
  <2> QED
    BY <2>1 DEF IsSettings
<1>5. SaveAndEnd(p, s) /\ weights' = weights
  BY <1>3 DEF SetStorage, Runtime
<1> HIDE DEF s
<1> QED
  BY <1>1, <1>4, <1>5, EndsSaved

LEMMA SaveSelectionStep ==
    ASSUME IInv, NEW p \in Process, SaveSelection(p)
    PROVE  IInv'
<1>1. Working(p) /\ At(p, "selected")
  BY DEF SaveSelection, At, Working
<1>2. lease = p /\ S(p) = file /\ IsSettings(file)
  BY <1>1, WorkingFacts
<1>3. \E f \in ProfilesOf(file, op[p].model) : f.protocol
  BY <1>1, <1>2 DEF IInv, Knows, Chosen
<1>4. file' = [file EXCEPT !.active = op[p].model]
  BY <1>2 DEF SaveSelection, SaveAndEnd
<1>5. /\ IsSettings(file') /\ file'.active = op[p].model
      /\ file'.profiles = file.profiles /\ file'.endpoint = file.endpoint
  BY <1>2, <1>4 DEF IsSettings
<1>6. ActiveIsCalibrated' /\ ProfilesAreMeasured'
  BY <1>3, <1>5 DEF IInv, Static, ActiveIsCalibrated, ProfilesAreMeasured, ProfilesOf
<1> QED
  BY <1>2, <1>5, <1>6, OperationEnds DEF SaveSelection, SaveAndEnd, End, Runtime

LEMMA SetupExistingStep ==
    ASSUME IInv, NEW p \in Process, SetupExisting(p)
    PROVE  IInv'
<1>1. Working(p)
  BY DEF SetupExisting, Starts, At, Working
<1>2. S(p) = file /\ IsSettings(file)
  BY <1>1, WorkingFacts
<1> DEFINE s == WithRuntime(S(p))
<1>3. /\ IsSettings(s)
      /\ s.active = file.active /\ s.endpoint = file.endpoint /\ s.profiles = file.profiles
  BY <1>2, MarkedRuntime
<1>4. SaveAndEnd(p, s) /\ weights' = weights
  BY DEF SetupExisting, Runtime
<1> HIDE DEF s
<1> QED
  BY <1>1, <1>3, <1>4, EndsSaved

LEMMA ConfirmInstallStep ==
    ASSUME IInv, NEW p \in Process, ConfirmInstall(p)
    PROVE  IInv'
<1>1. Working(p)
  BY DEF ConfirmInstall, At, Working
<1>2. S(p) = file /\ IsSettings(file)
  BY <1>1, WorkingFacts
<1> DEFINE s == [S(p) EXCEPT !.attempts = Without(@, Here(p))]
<1>3. /\ IsSettings(s)
      /\ s.active = file.active /\ s.endpoint = file.endpoint /\ s.profiles = file.profiles
  BY <1>2 DEF IsSettings
<1>4. SaveAndEnd(p, s) /\ weights' = weights
  BY DEF ConfirmInstall
<1> HIDE DEF s
<1> QED
  BY <1>1, <1>3, <1>4, EndsSaved

\* The model that is removed is not the one selected.
LEMMA ConfirmRemoveStep ==
    ASSUME IInv, NEW p \in Process, ConfirmRemove(p)
    PROVE  IInv'
<1>1. Working(p) /\ op[p].pc = "deleted"
  BY DEF ConfirmRemove, At, Working
<1>2. lease = p /\ S(p) = file /\ IsSettings(file)
  BY <1>1, WorkingFacts
<1>3. op[p].model # file.active
  BY <1>1, <1>2 DEF IInv, Knows, Deleting
<1>4. file' = [file EXCEPT !.profiles = @ \ ProfilesOf(file, op[p].model)]
  BY <1>2 DEF ConfirmRemove, SaveAndEnd
<1>5. /\ IsSettings(file') /\ file'.active = file.active /\ file'.endpoint = file.endpoint
      /\ file'.profiles = file.profiles \ ProfilesOf(file, op[p].model)
  BY <1>2, <1>4 DEF IsSettings
<1>6. ActiveIsCalibrated' /\ ProfilesAreMeasured'
  BY <1>3, <1>5 DEF IInv, Static, ActiveIsCalibrated, ProfilesAreMeasured, ProfilesOf
<1> QED
  BY <1>2, <1>5, <1>6, OperationEnds DEF ConfirmRemove, SaveAndEnd, End, Runtime

(***************************************************************************)
(* The recheck: weights that are the first ones were never replaced, or    *)
(* more than once.                                                         *)
(***************************************************************************)
LEMMA RecordCalibrationStep ==
    ASSUME IInv, NEW p \in Process, RecordCalibration(p)
    PROVE  IInv'
<1>1. Working(p) /\ op[p].pc \in Measuring
  BY DEF RecordCalibration, At, Working, Measuring
<1>2. lease = p /\ S(p) = file /\ IsSettings(file)
  BY <1>1, WorkingFacts
<1> DEFINE new == NewProfile(p)
           active == IF file.active = op[p].model /\ op[p].best = "none"
                       THEN None ELSE file.active
<1>3. new.sound
  <2>1. Measures(p) /\ weights[Here(p)] = op[p].digest
    BY <1>1 DEF IInv, Knows, RecordCalibration, StillMeasured
  <2>2. op[p].alien => op[p].moves > 1
    BY <1>1, <2>1 DEF Measures
  <2> QED
    BY <2>2 DEF NewProfile
<1>4. /\ new.model = op[p].model /\ new.endpoint = file.endpoint
      /\ new.protocol = (op[p].best # "none")
  BY <1>2 DEF NewProfile
<1>5. file' = [file EXCEPT !.active = active,
                           !.profiles = (file.profiles \ ProfilesOf(file, op[p].model)) \cup {new},
                           !.calibrating = FALSE]
  BY <1>2 DEF RecordCalibration, SaveAndEnd
<1> HIDE DEF new
<1>6. /\ IsSettings(file') /\ file'.endpoint = file.endpoint /\ file'.active = active
      /\ file'.profiles = (file.profiles \ ProfilesOf(file, op[p].model)) \cup {new}
  BY <1>2, <1>5 DEF IsSettings
<1>7. ProfilesAreMeasured'
  BY <1>3, <1>6 DEF IInv, Static, ProfilesAreMeasured
<1>8. ActiveIsCalibrated'
  <2>1. CASE file.active = op[p].model
    BY <1>4, <1>6, <2>1 DEF ActiveIsCalibrated, ProfilesOf
  <2>2. CASE file.active # op[p].model
    BY <1>6, <2>2 DEF IInv, Static, ActiveIsCalibrated, ProfilesOf
  <2> QED
    BY <2>1, <2>2
<1> QED
  BY <1>2, <1>6, <1>7, <1>8, OperationEnds DEF RecordCalibration, SaveAndEnd, End, Runtime

-----------------------------------------------------------------------------
(***************************************************************************)
(* Steps after which the operation goes on.                                *)
(***************************************************************************)
\* Steps that know nothing of their own.
Plain == {"provisioned", "starting", "pull", "pulling", "pulled"} \cup RunSteps

LEMMA PlainStep ==
    ASSUME NEW p \in Process, op'[p].pc \in Plain
    PROVE  Chosen(p)' /\ Deleting(p)' /\ Measures(p)'
BY DEF Plain, RunSteps, Measuring, Chosen, Deleting, Measures, At

\* Only the place in the operation changes, and perhaps the runtime.
LEMMA Advances ==
    ASSUME IInv, NEW p \in Process, Working(p),
           NEW pc \in Steps \ {"loaded"}, pc \in RunSteps <=> op[p].pc \in RunSteps,
           Goto(p, pc), UNCHANGED <<file, lease>>,
           weights' \in [Place -> Digest \cup {None}],
           Chosen(p)', Deleting(p)', Measures(p)'
    PROVE  IInv'
<1> DEFINE o == [op[p] EXCEPT !.pc = pc]
<1>1. S(p) = file /\ IsSettings(file) /\ IsOperation(op[p])
  BY WorkingFacts
<1>2. op' = [op EXCEPT ![p] = o]
  BY DEF Goto
<1>3. /\ IsOperation(o) /\ o.kind = Kind(p) /\ o.model = op[p].model
      /\ o.shown = op[p].shown /\ o.s = S(p) /\ o.pc = pc
  BY <1>1 DEF IsOperation, Kind, S
<1>4. IsSettings(file')
  BY <1>1 DEF IsSettings
<1> HIDE DEF o
<1> QED
  BY <1>1, <1>2, <1>3, <1>4, GoesOn

\* Settings that select the same are saved.
LEMMA Saves ==
    ASSUME IInv, NEW p \in Process, Working(p),
           NEW pc \in Plain, pc \in RunSteps <=> op[p].pc \in RunSteps,
           NEW s, IsSettings(s), Save(p, s, pc),
           s.endpoint = file.endpoint, s.root = file.root,
           s.active = file.active, s.profiles = file.profiles,
           weights' = weights
    PROVE  IInv'
<1> DEFINE o == [op[p] EXCEPT !.s = s, !.pc = pc]
<1>1. IsOperation(op[p])
  BY WorkingFacts
<1>2. op' = [op EXCEPT ![p] = o]
  BY DEF Save
<1>3. /\ IsOperation(o) /\ o.kind = Kind(p) /\ o.model = op[p].model
      /\ o.shown = op[p].shown /\ o.s = s /\ o.pc = pc
  BY <1>1 DEF IsOperation, Kind
<1> HIDE DEF o
<1>4. op'[p] = o
  BY <1>2 DEF IInv, Static
<1>5. Chosen(p)' /\ Deleting(p)' /\ Measures(p)'
  BY <1>3, <1>4, PlainStep
<1>6. o.pc \in Steps \ {"loaded"}
  BY <1>3 DEF Plain, Steps, RunSteps
<1>7. file' = s /\ lease' = lease
  BY DEF Save
<1>8. weights' \in [Place -> Digest \cup {None}]
  BY DEF IInv, Static
<1> QED
  BY <1>2, <1>3, <1>5, <1>6, <1>7, <1>8, GoesOn

\* The steps that neither save nor know anything of their own.
LEMMA PlainAdvance ==
    ASSUME IInv, NEW p \in Process, Working(p),
           NEW pc \in Plain \ RunSteps, op[p].pc \notin RunSteps,
           Goto(p, pc), UNCHANGED <<file, lease>>,
           weights' \in [Place -> Digest \cup {None}]
    PROVE  IInv'
<1>1. op'[p].pc = pc
  <2>1. IsOperation(op[p])
    BY WorkingFacts
  <2> QED
    BY <2>1 DEF Goto, IInv, Static, IsOperation
<1>2. Chosen(p)' /\ Deleting(p)' /\ Measures(p)'
  BY <1>1, PlainStep
<1>3. pc \in Steps \ {"loaded"}
  BY DEF Plain, Steps
<1> QED
  BY <1>2, <1>3, Advances

LEMMA SetupInstallStep ==
    ASSUME IInv, NEW p \in Process, SetupInstall(p)
    PROVE  IInv'
<1>1. Working(p) /\ op[p].pc \notin RunSteps
  BY DEF SetupInstall, Starts, At, Working, RunSteps
<1>2. "provisioned" \in Plain \ RunSteps
  BY DEF Plain, RunSteps
<1>3. Goto(p, "provisioned") /\ UNCHANGED <<file, lease>>
      /\ weights' \in [Place -> Digest \cup {None}]
  BY DEF SetupInstall, IInv, Static
<1> QED
  BY <1>1, <1>2, <1>3, PlainAdvance

LEMMA AskPullStep ==
    ASSUME IInv, NEW p \in Process, AskPull(p)
    PROVE  IInv'
<1>1. Working(p) /\ op[p].pc \notin RunSteps
  BY DEF AskPull, At, Working, RunSteps
<1>2. "pulling" \in Plain \ RunSteps
  BY DEF Plain, RunSteps
<1>3. Goto(p, "pulling") /\ UNCHANGED <<file, lease>>
      /\ weights' \in [Place -> Digest \cup {None}]
  BY DEF AskPull, IInv, Static
<1> QED
  BY <1>1, <1>2, <1>3, PlainAdvance

LEMMA PulledStep ==
    ASSUME IInv, NEW p \in Process, Pulled(p)
    PROVE  IInv'
<1>1. Working(p) /\ op[p].pc \notin RunSteps
  BY DEF Pulled, At, Working, RunSteps
<1>2. "pulled" \in Plain \ RunSteps
  BY DEF Plain, RunSteps
<1>3. Goto(p, "pulled") /\ UNCHANGED <<file, lease>>
      /\ weights' \in [Place -> Digest \cup {None}]
  BY DEF Pulled, IInv, Static
<1> QED
  BY <1>1, <1>2, <1>3, PlainAdvance

LEMMA SetupRecordStep ==
    ASSUME IInv, NEW p \in Process, SetupRecord(p)
    PROVE  IInv'
<1>1. Working(p) /\ op[p].pc \notin RunSteps
  BY DEF SetupRecord, At, Working, RunSteps
<1>2. S(p) = file /\ IsSettings(file)
  BY <1>1, WorkingFacts
<1> DEFINE s == WithRuntime(S(p))
<1>3. /\ IsSettings(s) /\ s.endpoint = file.endpoint /\ s.root = file.root
      /\ s.active = file.active /\ s.profiles = file.profiles
  BY <1>2, MarkedRuntime
<1>4. Save(p, s, "starting") /\ weights' = weights
  BY DEF SetupRecord, Runtime
<1>5. "starting" \in Plain /\ "starting" \notin RunSteps
  BY DEF Plain, RunSteps
<1> HIDE DEF s
<1> QED
  BY <1>1, <1>3, <1>4, <1>5, Saves

LEMMA BeginInstallStep ==
    ASSUME IInv, NEW p \in Process, BeginInstall(p)
    PROVE  IInv'
<1>1. Working(p) /\ op[p].pc \notin RunSteps
  BY DEF BeginInstall, Starts, At, Working, RunSteps
<1>2. S(p) = file /\ IsSettings(file)
  BY <1>1, WorkingFacts
<1> DEFINE newer == AtLeast(S(p), 5)
           some  == Recent(Append(Without(S(p).attempts, Here(p)), Here(p)))
           s     == [newer EXCEPT !.attempts = some]
<1>3. /\ IsSettings(newer) /\ newer.endpoint = file.endpoint /\ newer.root = file.root
      /\ newer.active = file.active /\ newer.profiles = file.profiles
  BY <1>2, NewerSchema
<1>4. Save(p, s, "pull") /\ weights' = weights
  BY DEF BeginInstall
<1> HIDE DEF newer, some
<1>5. /\ IsSettings(s) /\ s.endpoint = file.endpoint /\ s.root = file.root
      /\ s.active = file.active /\ s.profiles = file.profiles
  BY <1>3 DEF IsSettings
<1>6. "pull" \in Plain /\ "pull" \notin RunSteps
  BY DEF Plain, RunSteps
<1> HIDE DEF s
<1> QED
  BY <1>1, <1>4, <1>5, <1>6, Saves

LEMMA BeginRunStep ==
    ASSUME IInv, NEW p \in Process, BeginRun(p)
    PROVE  IInv'
<1>1. Working(p) /\ op[p].pc \in RunSteps
  BY DEF BeginRun, At, Working, RunSteps
<1>2. S(p) = file /\ IsSettings(file)
  BY <1>1, WorkingFacts
<1> DEFINE s == [S(p) EXCEPT !.used = @ \/ S(p).root # DefaultRoot]
<1>3. /\ IsSettings(s) /\ s.endpoint = file.endpoint /\ s.root = file.root
      /\ s.active = file.active /\ s.profiles = file.profiles
  BY <1>2 DEF IsSettings
<1>4. Save(p, s, "running") /\ weights' = weights
  BY DEF BeginRun, Runtime
<1>5. "running" \in Plain /\ "running" \in RunSteps
  BY DEF Plain, RunSteps
<1> HIDE DEF s
<1> QED
  BY <1>1, <1>3, <1>4, <1>5, Saves

LEMMA SelectStep ==
    ASSUME IInv, NEW p \in Process, Select(p)
    PROVE  IInv'
<1>1. Working(p) /\ op[p].pc \notin RunSteps
  BY DEF Select, Starts, At, Working, RunSteps
<1>2. "selected" \in Steps \ {"loaded"} /\ "selected" \notin RunSteps
  BY DEF Steps, RunSteps
<1>3. IsOperation(op[p])
  BY <1>1, WorkingFacts
<1>4. op'[p] = [op[p] EXCEPT !.pc = "selected"]
  BY DEF Select, Goto, IInv, Static
<1>5. op'[p].pc = "selected" /\ op'[p].model = op[p].model /\ op'[p].s = op[p].s
  BY <1>3, <1>4 DEF IsOperation
<1>6. Deleting(p)' /\ Measures(p)'
  BY <1>5 DEF Deleting, Measures, Measuring
<1>7. Chosen(p)'
  <2>1. Cardinality(ProfilesOf(S(p), op[p].model)) # 0
    BY DEF Select
  <2>2. PICK f \in ProfilesOf(S(p), op[p].model) : TRUE
    BY <2>1, FS_EmptySet
  <2>3. f.protocol
    BY <2>2 DEF Select, Live
  <2> QED
    BY <1>5, <2>2, <2>3 DEF Chosen, S
<1>8. weights' \in [Place -> Digest \cup {None}]
  BY DEF Select, Runtime, IInv, Static
<1> QED
  BY <1>1, <1>2, <1>6, <1>7, <1>8, Advances DEF Select

LEMMA RemoveModelStep ==
    ASSUME IInv, NEW p \in Process, RemoveModel(p)
    PROVE  IInv'
<1>1. Working(p) /\ op[p].pc \notin RunSteps
  BY DEF RemoveModel, Starts, At, Working, RunSteps
<1>2. "delete" \in Steps \ {"loaded"} /\ "delete" \notin RunSteps
  BY DEF Steps, RunSteps
<1>3. IsOperation(op[p])
  BY <1>1, WorkingFacts
<1>4. op'[p] = [op[p] EXCEPT !.pc = "delete"]
  BY DEF RemoveModel, Goto, IInv, Static
<1>5. op'[p].pc = "delete" /\ op'[p].model = op[p].model /\ op'[p].s = op[p].s
  BY <1>3, <1>4 DEF IsOperation
<1>6. Chosen(p)' /\ Deleting(p)' /\ Measures(p)'
  BY <1>5 DEF Chosen, Deleting, Measures, Measuring, At, S, RemoveModel
<1>7. weights' \in [Place -> Digest \cup {None}]
  BY DEF RemoveModel, Runtime, IInv, Static
<1> QED
  BY <1>1, <1>2, <1>6, <1>7, Advances DEF RemoveModel

LEMMA DeleteModelStep ==
    ASSUME IInv, NEW p \in Process, DeleteModel(p)
    PROVE  IInv'
<1>1. Working(p) /\ op[p].pc = "delete" /\ op[p].pc \notin RunSteps
  BY DEF DeleteModel, At, Working, RunSteps
<1>2. "deleted" \in Steps \ {"loaded"} /\ "deleted" \notin RunSteps
  BY DEF Steps, RunSteps
<1>3. IsOperation(op[p])
  BY <1>1, WorkingFacts
<1>4. op'[p] = [op[p] EXCEPT !.pc = "deleted"]
  BY DEF DeleteModel, Goto, IInv, Static
<1>5. op'[p].pc = "deleted" /\ op'[p].model = op[p].model /\ op'[p].s = op[p].s
  BY <1>3, <1>4 DEF IsOperation
<1>6. Deleting(p)
  BY DEF IInv, Knows
<1>7. Chosen(p)' /\ Deleting(p)' /\ Measures(p)'
  BY <1>1, <1>5, <1>6 DEF Chosen, Deleting, Measures, Measuring, At, S
<1>8. weights' \in [Place -> Digest \cup {None}]
  BY DEF DeleteModel, IInv, Static
<1> QED
  BY <1>1, <1>2, <1>7, <1>8, Advances DEF DeleteModel

-----------------------------------------------------------------------------
(***************************************************************************)
(* Calibration.                                                            *)
(***************************************************************************)
LEMMA BeginCalibrationStep ==
    ASSUME IInv, NEW p \in Process, BeginCalibration(p)
    PROVE  IInv'
<1>1. Working(p) /\ op[p].pc = "loaded" /\ op[p].pc \notin RunSteps
  BY DEF BeginCalibration, Starts, At, Working, RunSteps
<1>2. S(p) = file /\ IsSettings(file) /\ IsOperation(op[p]) /\ lease' = lease
  BY <1>1, WorkingFacts DEF BeginCalibration
<1> DEFINE newer == AtLeast(S(p), 4)
           s     == [newer EXCEPT !.calibrating = TRUE]
           o     == [op[p] EXCEPT !.s = s, !.digest = weights[Here(p)], !.pc = "off_edit"]
<1>3. /\ IsSettings(newer) /\ newer.endpoint = file.endpoint /\ newer.root = file.root
      /\ newer.active = file.active /\ newer.profiles = file.profiles
  BY <1>2, NewerSchema
<1>4. file' = s /\ op' = [op EXCEPT ![p] = o]
  BY DEF BeginCalibration
<1> HIDE DEF newer
<1>5. /\ IsSettings(s) /\ s.endpoint = file.endpoint /\ s.root = file.root
      /\ s.active = file.active /\ s.profiles = file.profiles
  BY <1>3 DEF IsSettings
<1> HIDE DEF s
<1>6. /\ IsOperation(o) /\ o.kind = Kind(p) /\ o.model = op[p].model
      /\ o.shown = op[p].shown /\ o.s = s /\ o.pc = "off_edit"
      /\ o.digest = weights[Here(p)] /\ o.moves = op[p].moves /\ o.alien = op[p].alien
  BY <1>2 DEF IsOperation, Kind
<1> HIDE DEF o
<1>7. op'[p] = o
  BY <1>4 DEF IInv, Static
<1>8. Here(p)' = Here(p) /\ Here(p) \in Place /\ Kind(p) = "calibrate"
  BY <1>2, <1>5, <1>6, <1>7 DEF Here, S, BeginCalibration, Starts, OnModel
<1>9. op[p].moves = 0 /\ op[p].alien = FALSE
  BY <1>1 DEF IInv, Knows, Unmeasured
<1>10. weights[Here(p)] # None /\ weights' = weights
  BY DEF BeginCalibration, Runtime
<1>11. Chosen(p)' /\ Deleting(p)' /\ Measures(p)'
  <2>1. Chosen(p)' /\ Deleting(p)'
    BY <1>6, <1>7 DEF Chosen, Deleting, At
  <2>2. /\ op'[p].moves = 0 /\ op'[p].alien = FALSE /\ Kind(p)' = "calibrate"
        /\ op'[p].digest = weights[Here(p)] /\ op'[p].digest # None
    BY <1>6, <1>7, <1>8, <1>9, <1>10 DEF Kind
  <2>3. (weights[Here(p)])' = op'[p].digest
    BY <1>8, <1>10, <2>2
  <2>4. op'[p].moves \in Nat /\ op'[p].moves # 1
    BY <2>2
  <2>5. (Here(p) \in Place)'
    BY <1>8 DEF Place
  <2> QED
    BY <2>1, <2>2, <2>3, <2>4, <2>5 DEF Measures
<1>12. o.pc \in Steps \ {"loaded"} /\ o.pc \notin RunSteps
  BY <1>6 DEF Steps, Measuring, RunSteps
<1>13. weights' \in [Place -> Digest \cup {None}]
  BY <1>10 DEF IInv, Static
<1> QED
  BY <1>1, <1>2, <1>4, <1>5, <1>6, <1>11, <1>12, <1>13, GoesOn

\* A probe notes when it ran on other weights.
LEMMA ProbeStep ==
    ASSUME IInv, NEW p \in Process, op[p].pc \in Measuring,
           NEW result, NEW pc \in Measuring, Probe(p, result, pc)
    PROVE  IInv'
<1>1. Working(p) /\ op[p].pc \notin RunSteps
  BY DEF Working, Measuring, RunSteps
<1>2. S(p) = file /\ IsSettings(file) /\ IsOperation(op[p])
  BY <1>1, WorkingFacts
<1> DEFINE alien == op[p].alien \/ weights[Here(p)] \notin {None, op[p].digest}
           o     == [op[p] EXCEPT !.best = result, !.pc = pc, !.alien = alien]
<1>3. /\ file' = file /\ lease' = lease /\ weights' = weights
      /\ op' = [op EXCEPT ![p] = o]
  BY <1>2 DEF Probe, Runtime
<1> HIDE DEF alien
<1>4. /\ IsOperation(o) /\ o.kind = Kind(p) /\ o.model = op[p].model
      /\ o.shown = op[p].shown /\ o.s = S(p) /\ o.pc = pc
      /\ o.digest = op[p].digest /\ o.moves = op[p].moves /\ o.alien = alien
  BY <1>2 DEF IsOperation, Kind, S
<1> HIDE DEF o
<1>5. op'[p] = o
  BY <1>3 DEF IInv, Static
<1>6. Here(p)' = Here(p) /\ Kind(p)' = Kind(p)
  BY <1>4, <1>5 DEF Here, S, Kind
<1>7. Measures(p)
  BY DEF IInv, Knows
<1>8. Measures(p)'
  BY <1>3, <1>4, <1>5, <1>6, <1>7 DEF Measures, alien
<1>9. Chosen(p)' /\ Deleting(p)'
  BY <1>4, <1>5 DEF Chosen, Deleting, Measuring, At
<1>10. o.pc \in Steps \ {"loaded"} /\ o.pc \notin RunSteps
  BY <1>4 DEF Steps, Measuring, RunSteps
<1>11. weights' \in [Place -> Digest \cup {None}] /\ IsSettings(file')
  BY <1>2, <1>3 DEF IInv, Static, IsSettings
<1> QED
  BY <1>1, <1>2, <1>3, <1>4, <1>8, <1>9, <1>10, <1>11, GoesOn

LEMMA ProbesStep ==
    ASSUME IInv, NEW p \in Process, ProbeOffEdit(p) \/ ProbeOffCreate(p) \/ ProbeDefault(p)
    PROVE  IInv'
<1>1. op[p].pc \in Measuring
  BY DEF ProbeOffEdit, ProbeOffCreate, ProbeDefault, At, Measuring
<1>2. \E result, pc : pc \in Measuring /\ Probe(p, result, pc)
  <2>1. {"default_edit", "off_create", "recheck"} \subseteq Measuring
    BY DEF Measuring
  <2> QED
    BY <2>1 DEF ProbeOffEdit, ProbeOffCreate, ProbeDefault
<1> QED
  BY <1>1, <1>2, ProbeStep

-----------------------------------------------------------------------------
(***************************************************************************)
(* Admission.                                                              *)
(***************************************************************************)
LEMMA Quiet ==
    ASSUME IInv, NEW p \in Process, NEW o, op' = [op EXCEPT ![p] = o],
           lease' = lease \/ lease \in {p, None},
           UNCHANGED <<file, weights>>,
           op'[p] = o => Knows(p)'
    PROVE  IInv'
<1>1. op'[p] = o /\ \A q \in Process \ {p} : op'[q] = op[q]
  BY DEF IInv, Static
<1>2. Static'
  BY DEF IInv, Static, IsSettings, ActiveIsCalibrated, ProfilesAreMeasured, ProfilesOf
<1>3. Aside(p)
  BY <1>1 DEF Aside
<1>4. \A q \in Process : Knows(q)'
  BY <1>1, <1>3, OthersKnow
<1> QED
  BY <1>2, <1>4 DEF IInv

\* Before it works an operation knows what it was asked, and no more.
LEMMA NotYetWorking ==
    ASSUME NEW p \in Process, NEW o, op'[p] = o, IsOperation(o),
           o.pc \in {"asked", "confirmed", "admitted"},
           o.digest = None, o.moves = 0, o.alien = FALSE,
           GoalShown(p)',
           o.pc = "confirmed" => o.kind = "goal",
           o.pc = "admitted" => lease' = p /\ (o.kind # "goal" => AsShown(p)')
    PROVE  Knows(p)'
<1>1. Shaped(p)' /\ Unmeasured(p)'
  BY DEF Shaped, Unmeasured
<1>2. ~Working(p)'
  BY DEF Working
<1>3. o.pc \notin {"selected", "delete", "deleted"} \cup Measuring
  BY DEF Measuring
<1>4. Leased(p)' /\ Admitted(p)' /\ Confirmed(p)'
  BY DEF Leased, Holds, Admitted, Confirmed, At, Kind
<1> QED
  BY <1>1, <1>2, <1>3, <1>4 DEF Knows, CopyIsFile, Works, GoalSteps, GoalRuns, Chosen,
     Deleting, Measures, At

LEMMA AskStep ==
    ASSUME IInv, NEW p \in Process, NEW kind, Ask(p, kind)
    PROVE  IInv'
<1>1. PICK m \in ModelsFor(p, kind) :
         op' = [op EXCEPT ![p] =
                  [kind |-> kind, model |-> m, pc |-> "asked", s |-> Fresh,
                   shown |-> IF Expects(p, kind) THEN Showing ELSE None,
                   digest |-> None, best |-> "none",
                   moves |-> 0, alien |-> FALSE]]
  BY DEF Ask
<1> DEFINE shown == IF Expects(p, kind) THEN Showing ELSE None
           o == [kind |-> kind, model |-> m, pc |-> "asked", s |-> Fresh,
                 shown |-> shown, digest |-> None, best |-> "none",
                 moves |-> 0, alien |-> FALSE]
<1>2. op' = [op EXCEPT ![p] = o]
  BY <1>1
<1>3. kind = "goal" =>
        /\ shown = [x \in {"endpoint", "root", "profile"} |-> shown[x]]
        /\ shown.profile # None
        /\ shown.profile.endpoint = shown.endpoint
  <2>1. SUFFICES ASSUME kind = "goal"
                 PROVE  /\ shown = [x \in {"endpoint", "root", "profile"} |-> shown[x]]
                        /\ shown.profile # None
                        /\ shown.profile.endpoint = shown.endpoint
    OBVIOUS
  <2>2. shown = Showing
    BY <2>1 DEF Expects
  <2>3. Showing.profile # None
    BY <2>1 DEF Ask
  <2>4. Showing.profile = Selected(file) /\ Showing.endpoint = file.endpoint
    BY <2>3 DEF Showing
  <2>5. Showing.profile.endpoint = Showing.endpoint
    BY <2>3, <2>4, SelectedIsOne
  <2>6. Showing = [x \in {"endpoint", "root", "profile"} |-> Showing[x]]
    BY DEF Showing
  <2> QED
    BY <2>2, <2>3, <2>5, <2>6
<1> HIDE DEF shown
<1>4. /\ IsOperation(o) /\ o.pc = "asked" /\ o.digest = None /\ o.moves = 0
      /\ o.alien = FALSE /\ o.kind = kind /\ o.shown = shown
  BY DEF IsOperation
<1> HIDE DEF o
<1>5. ASSUME op'[p] = o PROVE Knows(p)'
  <2>1. GoalShown(p)'
    BY <1>3, <1>4, <1>5 DEF GoalShown, Kind
  <2> QED
    BY <1>4, <1>5, <2>1, NotYetWorking
<1>6. lease' = lease /\ UNCHANGED <<file, weights>>
  BY DEF Ask, Runtime
<1> QED
  BY <1>2, <1>5, <1>6, Quiet

LEMMA AdmitStep ==
    ASSUME IInv, NEW p \in Process, Admit(p)
    PROVE  IInv'
<1> DEFINE o == [op[p] EXCEPT !.pc = "admitted"]
<1>1. op[p].pc = "asked" /\ op[p] # Idle /\ Knows(p)
  BY DEF Admit, At, Idle, IInv
<1>2. IsOperation(op[p]) /\ op[p].digest = None /\ op[p].moves = 0 /\ op[p].alien = FALSE
  BY <1>1 DEF Knows, Shaped, Unmeasured
<1>3. op' = [op EXCEPT ![p] = o]
  BY DEF Admit, Goto
<1>4. /\ IsOperation(o) /\ o.pc = "admitted" /\ o.kind = Kind(p)
      /\ o.shown = op[p].shown /\ o.digest = None /\ o.moves = 0 /\ o.alien = FALSE
  BY <1>2 DEF IsOperation, Kind
<1> HIDE DEF o
<1>5. ASSUME op'[p] = o PROVE Knows(p)'
  <2>1. AsShown(p)' /\ lease' = p
    BY <1>4, <1>5 DEF Admit, AsShown
  <2>2. GoalShown(p)'
    BY <1>4, <1>5 DEF Admit, GoalShown, Kind
  <2> QED
    BY <1>4, <1>5, <2>1, <2>2, NotYetWorking
<1>6. lease \in {p, None} /\ UNCHANGED <<file, weights>>
  BY DEF Admit, LeaseFree, Runtime
<1> QED
  BY <1>3, <1>5, <1>6, Quiet

LEMMA ConfirmGoalStep ==
    ASSUME IInv, NEW p \in Process, ConfirmGoal(p)
    PROVE  IInv'
<1> DEFINE shown == [op[p].shown EXCEPT !.root = file.root]
           o     == [op[p] EXCEPT !.shown = shown, !.pc = "confirmed"]
<1>1. op[p].pc = "asked" /\ op[p] # Idle /\ Knows(p) /\ Kind(p) = "goal" /\ ~At(p, "idle")
  BY DEF ConfirmGoal, At, Idle, IInv
<1>2. IsOperation(op[p]) /\ op[p].digest = None /\ op[p].moves = 0 /\ op[p].alien = FALSE
  BY <1>1 DEF Knows, Shaped, Unmeasured
<1>3. /\ op[p].shown = [x \in {"endpoint", "root", "profile"} |-> op[p].shown[x]]
      /\ op[p].shown.profile # None
      /\ op[p].shown.profile.endpoint = op[p].shown.endpoint
  BY <1>1 DEF Knows, GoalShown
<1>4. op' = [op EXCEPT ![p] = o]
  BY DEF ConfirmGoal
<1>5. /\ shown = [x \in {"endpoint", "root", "profile"} |-> shown[x]]
      /\ shown.profile # None
      /\ shown.profile.endpoint = shown.endpoint
  BY <1>3
<1> HIDE DEF shown
<1>6. /\ IsOperation(o) /\ o.pc = "confirmed" /\ o.shown = shown /\ o.kind = "goal"
      /\ o.digest = None /\ o.moves = 0 /\ o.alien = FALSE
  BY <1>1, <1>2 DEF IsOperation, Kind
<1> HIDE DEF o
<1>7. ASSUME op'[p] = o PROVE Knows(p)'
  <2>1. GoalShown(p)'
    BY <1>5, <1>6, <1>7 DEF GoalShown
  <2> QED
    BY <1>6, <1>7, <2>1, NotYetWorking
<1>8. lease' = lease /\ UNCHANGED <<file, weights>>
  BY DEF ConfirmGoal, Runtime
<1> QED
  BY <1>4, <1>7, <1>8, Quiet

LEMMA AdmitGoalStep ==
    ASSUME IInv, NEW p \in Process, AdmitGoal(p)
    PROVE  IInv'
<1> DEFINE o == [op[p] EXCEPT !.pc = "admitted"]
<1>1. op[p].pc = "confirmed" /\ op[p] # Idle /\ Knows(p)
  BY DEF AdmitGoal, At, Idle, IInv
<1>2. IsOperation(op[p]) /\ op[p].digest = None /\ op[p].moves = 0 /\ op[p].alien = FALSE
  BY <1>1 DEF Knows, Shaped, Unmeasured
<1>3. op' = [op EXCEPT ![p] = o]
  BY DEF AdmitGoal, Goto
<1>4. /\ IsOperation(o) /\ o.pc = "admitted" /\ o.kind = Kind(p)
      /\ o.shown = op[p].shown /\ o.digest = None /\ o.moves = 0 /\ o.alien = FALSE
  BY <1>2 DEF IsOperation, Kind
<1>5. Kind(p) = "goal"
  BY <1>1 DEF Knows, Confirmed, At
<1> HIDE DEF o
<1>6. ASSUME op'[p] = o PROVE Knows(p)'
  <2>1. lease' = p /\ ~At(p, "idle")
    BY <1>1 DEF AdmitGoal, At
  <2>2. GoalShown(p)'
    BY <1>1, <1>4, <1>6, <2>1 DEF Knows, GoalShown, Kind
  <2> QED
    BY <1>4, <1>5, <1>6, <2>1, <2>2, NotYetWorking
<1>7. lease \in {p, None} /\ UNCHANGED <<file, weights>>
  BY DEF AdmitGoal, LeaseFree, Runtime
<1> QED
  BY <1>3, <1>6, <1>7, Quiet

(***************************************************************************)
(* The settings are loaded with the lease held: the operation begins to    *)
(* work on a copy that is the file.                                        *)
(***************************************************************************)
LEMMA BeginsToWork ==
    ASSUME IInv, NEW p \in Process, At(p, "admitted"),
           NEW pc \in {"loaded", "prepared"},
           op' = [op EXCEPT ![p].s = file, ![p].pc = pc],
           UNCHANGED <<file, lease, weights>>,
           AsShown(p),
           Kind(p) = "goal" <=> pc = "prepared",
           Kind(p) = "goal" => Selected(file) = op[p].shown.profile
    PROVE  IInv'
<1> DEFINE o == [op[p] EXCEPT !.s = file, !.pc = pc]
<1>1. op[p] # Idle /\ op[p].pc = "admitted" /\ Knows(p) /\ Holds(p) /\ ~At(p, "idle")
  BY DEF At, Idle, IInv, Holds
<1>2. /\ IsOperation(op[p]) /\ lease = p /\ GoalShown(p)
      /\ op[p].digest = None /\ op[p].moves = 0 /\ op[p].alien = FALSE
  BY <1>1 DEF Knows, Shaped, Leased, Unmeasured
<1>3. op' = [op EXCEPT ![p] = o]
  OBVIOUS
<1>4. /\ IsOperation(o) /\ o.pc = pc /\ o.kind = Kind(p) /\ o.shown = op[p].shown
      /\ o.s = file /\ o.digest = None /\ o.moves = 0 /\ o.alien = FALSE
  BY <1>2 DEF IsOperation, Kind
<1> HIDE DEF o
<1>5. ASSUME op'[p] = o PROVE Knows(p)'
  <2>1. pc \in Steps /\ pc \notin {"selected", "delete", "deleted"} \cup Measuring
    BY DEF Steps, RunSteps, Measuring
  <2>2. Shaped(p)' /\ Leased(p)' /\ CopyIsFile(p)' /\ Unmeasured(p)'
    BY <1>2, <1>4, <1>5, <2>1 DEF Shaped, Leased, CopyIsFile, S, Unmeasured
  <2>3. GoalShown(p)'
    BY <1>1, <1>2, <1>4, <1>5 DEF GoalShown, Kind
  <2>4. AsShown(p)' /\ Admitted(p)' /\ Works(p)'
    BY <1>4, <1>5 DEF AsShown, Admitted, Works
  <2>5. GoalSteps(p)'
    BY <1>4, <1>5 DEF GoalSteps, RunSteps, Kind
  <2>6. GoalRuns(p)'
    <3>1. Selected(file)' = Selected(file)
      BY DEF Selected, ProfilesOf
    <3> QED
      BY <1>4, <1>5, <3>1 DEF GoalRuns, Kind
  <2>7. Chosen(p)' /\ Deleting(p)' /\ Measures(p)' /\ Confirmed(p)'
    BY <1>4, <1>5, <2>1 DEF Chosen, Deleting, Measures, Confirmed, At
  <2> QED
    BY <2>2, <2>3, <2>4, <2>5, <2>6, <2>7 DEF Knows
<1> QED
  BY <1>3, <1>5, Quiet

LEMMA LoadStep ==
    ASSUME IInv, NEW p \in Process, Load(p)
    PROVE  IInv'
<1>1. At(p, "admitted") /\ Kind(p) # "goal"
  BY DEF Load
<1>2. AsShown(p)
  BY <1>1 DEF IInv, Knows, Admitted
<1>3. op' = [op EXCEPT ![p].s = file, ![p].pc = "loaded"] /\ UNCHANGED <<file, lease, weights>>
  BY DEF Load, Runtime
<1> QED
  BY <1>1, <1>2, <1>3, BeginsToWork

LEMMA PrepareGoalStep ==
    ASSUME IInv, NEW p \in Process, PrepareGoal(p)
    PROVE  IInv'
<1>1. At(p, "admitted") /\ Kind(p) = "goal" /\ ~At(p, "idle")
  BY DEF PrepareGoal, At
<1>2. Selected(file) = op[p].shown.profile
  BY DEF PrepareGoal, AsReviewed
<1>3. GoalShown(p)
  BY DEF IInv, Knows
<1>4. Selected(file).endpoint = file.endpoint
  BY <1>1, <1>2, <1>3, SelectedIsOne DEF GoalShown
<1>5. AsShown(p)
  BY <1>1, <1>2, <1>3, <1>4 DEF AsShown, GoalShown, PrepareGoal
<1>6. op' = [op EXCEPT ![p].s = file, ![p].pc = "prepared"] /\ UNCHANGED <<file, lease, weights>>
  BY DEF PrepareGoal
<1> QED
  BY <1>1, <1>2, <1>5, <1>6, BeginsToWork

-----------------------------------------------------------------------------
(***************************************************************************)
(* Other programs replace the weights of one model: whoever measures them  *)
(* counts it.                                                              *)
(***************************************************************************)
LEMMA OtherProgramsStep ==
    ASSUME IInv, NEW x \in Place, OtherPrograms(x)
    PROVE  IInv'
<1>1. PICK d \in (Digest \cup {None}) \ {weights[x]} : weights' = [weights EXCEPT ![x] = d]
  BY DEF OtherPrograms
<1>2. op' = [p \in Process |-> IF Calibrates(p, x) THEN [op[p] EXCEPT !.moves = @ + 1] ELSE op[p]]
  BY DEF OtherPrograms
<1>3. file' = file /\ lease' = lease
  BY DEF OtherPrograms
<1>4. weights' \in [Place -> Digest \cup {None}] /\ weights'[x] # weights[x]
      /\ \A y \in Place \ {x} : weights'[y] = weights[y]
  BY <1>1 DEF IInv, Static
<1>5. Static'
  <2>1. op' = [q \in Process |-> op'[q]]
    BY <1>2
  <2>2. IsSettings(file') /\ ActiveIsCalibrated' /\ ProfilesAreMeasured'
    BY <1>3 DEF IInv, Static, IsSettings, ActiveIsCalibrated, ProfilesAreMeasured, ProfilesOf
  <2> QED
    BY <1>4, <2>1, <2>2 DEF Static
<1>6. ASSUME NEW p \in Process PROVE Knows(p)'
  <2>1. Knows(p)
    BY DEF IInv
  <2>2. CASE Calibrates(p, x)
    <3>1. op[p] # Idle /\ IsOperation(op[p])
      <4>1. op[p].kind = "calibrate"
        BY <2>2 DEF Calibrates, Kind
      <4>2. op[p] # Idle
        BY <4>1 DEF Idle
      <4> QED
        BY <2>1, <4>2 DEF Knows, Shaped
    <3>2. op'[p] = [op[p] EXCEPT !.moves = @ + 1]
      BY <1>2, <2>2
    <3>3. /\ IsOperation(op'[p]) /\ op'[p].kind = op[p].kind /\ op'[p].pc = op[p].pc
          /\ op'[p].model = op[p].model /\ op'[p].s = op[p].s /\ op'[p].shown = op[p].shown
          /\ op'[p].digest = op[p].digest /\ op'[p].alien = op[p].alien
          /\ op'[p].moves = op[p].moves + 1
      BY <3>1, <3>2 DEF IsOperation
    <3>4. Shaped(p)' /\ Leased(p)' /\ CopyIsFile(p)' /\ GoalShown(p)' /\ Admitted(p)'
      BY <1>3, <2>1, <3>1, <3>3 DEF Knows, Shaped, Leased, Holds, CopyIsFile, Working,
         GoalShown, Admitted, AsShown, At, Kind, S
    <3>5. Works(p)' /\ GoalSteps(p)' /\ GoalRuns(p)'
      BY <1>3, <2>1, <3>3 DEF Knows, Works, GoalSteps, GoalRuns, Working, AsShown,
         Selected, ProfilesOf, Kind
    <3>6. Chosen(p)' /\ Deleting(p)' /\ Confirmed(p)'
      BY <1>3, <2>1, <3>3 DEF Knows, Chosen, Deleting, Confirmed, ProfilesOf, At, Kind, S
    <3>7. Unmeasured(p)'
      BY <2>1, <2>2, <3>3 DEF Knows, Unmeasured, Calibrates
    <3>8. Measures(p)'
      <4>1. SUFFICES ASSUME op[p].pc \in Measuring
                     PROVE  Measures(p)'
        BY <3>3 DEF Measures
      <4>2. Here(p)' = x /\ Here(p) = x /\ Kind(p)' = Kind(p)
        BY <2>2, <3>3 DEF Here, S, Kind, Calibrates
      <4>3. /\ Kind(p) = "calibrate" /\ op[p].digest # None /\ op[p].moves \in Nat
            /\ op[p].moves = 0 => weights[x] = op[p].digest
        BY <2>1, <4>1, <4>2 DEF Knows, Measures
      <4>4. op'[p].moves \in Nat /\ op'[p].moves # 0
        BY <3>3, <4>3
      <4>5. op'[p].moves = 1 => weights'[x] # op'[p].digest
        BY <1>4, <3>3, <4>3
      <4> QED
        BY <3>3, <4>2, <4>3, <4>4, <4>5 DEF Measures, Place
    <3> QED
      BY <3>4, <3>5, <3>6, <3>7, <3>8 DEF Knows
  <2>3. CASE ~Calibrates(p, x)
    <3>1. op'[p] = op[p]
      BY <1>2, <2>3
    <3>2. Measures(p)'
      <4>1. SUFFICES ASSUME op[p].pc \in Measuring
                     PROVE  Measures(p)'
        BY <3>1 DEF Measures
      <4>2. Measures(p)
        BY <2>1 DEF Knows
      <4>3. Here(p) \in Place \ {x}
        BY <2>3, <4>1, <4>2 DEF Measures, Calibrates
      <4>4. Here(p)' = Here(p) /\ (weights[Here(p)])' = weights[Here(p)]
        BY <1>4, <3>1, <4>3 DEF Here, S
      <4> QED
        BY <3>1, <4>2, <4>4 DEF Measures, Kind, Place
    <3> QED
      BY <1>3, <2>1, <3>1, <3>2 DEF Knows, Shaped, Leased, Holds, CopyIsFile, GoalShown,
         Admitted, Works, GoalSteps, GoalRuns, Chosen, Deleting, Unmeasured, Confirmed,
         Working, AsShown, At, Kind, S, Selected, ProfilesOf
  <2> QED
    BY <2>2, <2>3
<1> QED
  BY <1>5, <1>6 DEF IInv

-----------------------------------------------------------------------------
(***************************************************************************)
(* The inductive invariant.                                                *)
(***************************************************************************)
LEMMA InitIInv == Init => IInv
<1> SUFFICES ASSUME Init PROVE IInv
  OBVIOUS
<1>1. op = [q \in Process |-> op[q]] /\ \A p \in Process : op[p] = Idle
  BY DEF Init
<1>2. /\ IsSettings(file) /\ file.active = None /\ file.profiles = {}
  BY DEF Init, Fresh, IsSettings
<1>3. weights \in [Place -> Digest \cup {None}]
  BY DEF Init
<1>4. Static
  BY <1>1, <1>2, <1>3 DEF Static, ActiveIsCalibrated, ProfilesAreMeasured
<1>5. ASSUME NEW p \in Process PROVE Knows(p)
  <2>1. op[p] = Idle /\ op[p].pc = "idle"
    BY <1>1 DEF Idle
  <2> QED
    BY <2>1 DEF Knows, Shaped, Leased, Holds, CopyIsFile, GoalShown, Admitted, Works,
       GoalSteps, GoalRuns, Chosen, Deleting, Measures, Unmeasured, Confirmed, Working,
       Measuring, At
<1> QED
  BY <1>4, <1>5 DEF IInv

LEMMA QuietEndings ==
    ASSUME IInv, NEW p \in Process, SetupStart(p) \/ EndRun(p) \/ Stops(p)
    PROVE  IInv'
<1>1. CASE SetupStart(p)
  <2>1. Working(p)
    BY <1>1 DEF SetupStart, At, Working
  <2> QED
    BY <1>1, <2>1, WorkingFacts, EndsQuietly DEF SetupStart, End, Runtime
<1>2. CASE EndRun(p)
  <2>1. Working(p)
    BY <1>2 DEF EndRun, At, Working
  <2> QED
    BY <1>2, <2>1, WorkingFacts, EndsQuietly DEF EndRun, End, Runtime
<1>3. CASE Stops(p)
  BY <1>3, EndsQuietly DEF Stops, Runtime
<1> QED
  BY <1>1, <1>2, <1>3

LEMMA StepIInv ==
    ASSUME IInv, NEW p \in Process, Step(p)
    PROVE  IInv'
BY AskStep, AdmitStep, LoadStep, DeselectStep, SetEndpointStep, SetStorageStep, SelectStep,
   SaveSelectionStep, SetupExistingStep, SetupInstallStep, SetupRecordStep, QuietEndings,
   BeginInstallStep, AskPullStep, PulledStep, ConfirmInstallStep, RemoveModelStep,
   DeleteModelStep, ConfirmRemoveStep, BeginCalibrationStep, ProbesStep,
   RecordCalibrationStep, ConfirmGoalStep, AdmitGoalStep, PrepareGoalStep, BeginRunStep
   DEF Step

LEMMA NextIInv == IInv /\ [Next]_vars => IInv'
<1> SUFFICES ASSUME IInv, [Next]_vars PROVE IInv'
  OBVIOUS
<1>1. CASE UNCHANGED vars
  <2>1. file' = file /\ lease' = lease /\ op' = op /\ weights' = weights
    BY <1>1 DEF vars
  <2>2. Static'
    BY <2>1 DEF IInv, Static, IsSettings, ActiveIsCalibrated, ProfilesAreMeasured, ProfilesOf
  <2>3. ASSUME NEW p \in Process PROVE Knows(p)'
    <3>1. Knows(p)
      BY DEF IInv
    <3> QED
      BY <2>1, <3>1 DEF Knows, Shaped, Leased, Holds, CopyIsFile, GoalShown, Admitted, Works,
         GoalSteps, GoalRuns, Chosen, Deleting, Measures, Unmeasured, Confirmed, Working,
         AsShown, At, Kind, S, Here
  <2> QED
    BY <2>2, <2>3 DEF IInv
<1>2. CASE \E p \in Process : Step(p)
  BY <1>2, StepIInv
<1>3. CASE \E x \in Place : OtherPrograms(x)
  BY <1>3, OtherProgramsStep
<1> QED
  BY <1>1, <1>2, <1>3 DEF Next, Over

\* Every process knows what its operation needs to know, in every state.
THEOREM Inductive == Spec => []IInv
BY InitIInv, NextIInv, PTL DEF Spec

(***************************************************************************)
(* No update of the settings is lost and no operation works where its user *)
(* was not shown it would, for any number of processes (mutate_with_lease, *)
(* OperationExpectation::check).                                           *)
(***************************************************************************)
THEOREM LeaseProtects == Spec => []LeaseInv
<1>1. IInv => LeaseInv
  <2> SUFFICES ASSUME IInv, NEW p \in Process, Working(p)
               PROVE  lease = p /\ S(p) = file /\ AsShown(p)
    BY DEF LeaseInv, NoLostUpdate, WorksAsShown
  <2> QED
    BY WorkingFacts
<1> QED
  BY <1>1, Inductive, PTL

(***************************************************************************)
(* A selected model is calibrated, its calibration measured the weights it *)
(* names, and the selection stands while a goal runs with it               *)
(* (record_calibration, prepare_at).                                       *)
(***************************************************************************)
THEOREM SelectionsAreMeasured == Spec => []SelectionInv
<1>1. IInv => SelectionInv
  <2> SUFFICES ASSUME IInv PROVE SelectionInv
    OBVIOUS
  <2>1. RunKeepsItsModel
    BY DEF IInv, Knows, GoalRuns, RunKeepsItsModel
  <2> QED
    BY <2>1 DEF IInv, Static, SelectionInv
<1> QED
  BY <1>1, Inductive, PTL

-----------------------------------------------------------------------------
(***************************************************************************)
(* Nothing is forgotten (RecordInv).  First what Without keeps of the      *)
(* attempts, which it computes one by one: there is such a sequence up to  *)
(* every number of them, by the least number there is none for.            *)
(***************************************************************************)
LEMMA LeastNatural ==
    ASSUME NEW T, T \subseteq Nat, T # {}
    PROVE  \E n \in T : \A m \in T : n <= m
<1> DEFINE R == OpToRel(<, Nat)
<1>1. IsWellFoundedOn(R, Nat)
  BY NatLessThanWellFounded
<1>2. \A n, m \in Nat : n < m => <<n, m>> \in R
  BY DEF OpToRel
<1> HIDE DEF R
<1>3. PICK n \in T : \A m \in T : <<m, n>> \notin R
  BY <1>1, WFMin
<1>4. \A m \in T : n <= m
  <2> TAKE m \in T
  <2>1. ~(m < n)
    BY <1>2, <1>3
  <2> QED
    BY <2>1
<1> QED
  BY <1>4

\* k holds what Without keeps of the first n attempts, for each n.
KeptOf(a, x, n, before) ==
    IF n = 0 THEN <<>> ELSE IF a[n] = x THEN before ELSE Append(before, a[n])

KeepsTo(k, a, x, n) == k = [i \in 0 .. n |-> KeptOf(a, x, i, k[i - 1])]

LEMMA KeepsExists ==
    ASSUME NEW a, NEW x, NEW n \in Nat
    PROVE  \E k : KeepsTo(k, a, x, n)
<1> DEFINE Bad == {m \in Nat : ~ \E k : KeepsTo(k, a, x, m)}
<1>1. Bad \subseteq Nat
  OBVIOUS
<1> SUFFICES ASSUME Bad # {} PROVE FALSE
  OBVIOUS
<1> HIDE DEF Bad
<1>2. PICK m \in Bad : \A l \in Bad : m <= l
  BY <1>1, LeastNatural
<1> USE DEF Bad
<1>3. m # 0
  <2> DEFINE k == [i \in 0 .. 0 |-> <<>>]
  <2>1. k = [i \in 0 .. 0 |-> KeptOf(a, x, i, k[i - 1])]
    BY DEF KeptOf
  <2>2. KeepsTo(k, a, x, 0)
    BY <2>1 DEF KeepsTo
  <2> QED
    BY <2>2
<1>4. m - 1 \in Nat /\ m - 1 \notin Bad
  BY <1>2, <1>3
<1>5. PICK k : KeepsTo(k, a, x, m - 1)
  BY <1>4
<1> DEFINE l == [i \in 0 .. m |-> KeptOf(a, x, i, k[i - 1])]
<1>6. \A i \in 0 .. m - 1 : l[i] = k[i]
  <2> TAKE i \in 0 .. m - 1
  <2>1. k[i] = KeptOf(a, x, i, k[i - 1])
    BY <1>5 DEF KeepsTo
  <2>2. i \in 0 .. m
    BY <1>4
  <2> QED
    BY <2>1, <2>2
<1>7. \A i \in 0 .. m : KeptOf(a, x, i, k[i - 1]) = KeptOf(a, x, i, l[i - 1])
  <2> TAKE i \in 0 .. m
  <2>1. CASE i = 0
    BY <2>1 DEF KeptOf
  <2>2. CASE i # 0
    <3>1. i - 1 \in 0 .. m - 1
      BY <1>4, <2>2
    <3> QED
      BY <1>6, <3>1
  <2> QED
    BY <2>1, <2>2
<1>8. KeepsTo(l, a, x, m)
  BY <1>7 DEF KeepsTo
<1> QED
  BY <1>8

LEMMA WithoutIsKept ==
    ASSUME NEW a, NEW x, Len(a) \in Nat
    PROVE  \E k : KeepsTo(k, a, x, Len(a)) /\ Without(a, x) = k[Len(a)]
<1> DEFINE P(k) == k = [n \in 0 .. Len(a) |->
                           IF n = 0 THEN <<>>
                           ELSE IF a[n] = x THEN k[n - 1]
                           ELSE Append(k[n - 1], a[n])]
<1>1. \E k : P(k)
  <2>1. PICK k : KeepsTo(k, a, x, Len(a))
    BY KeepsExists
  <2>2. P(k)
    BY <2>1 DEF KeepsTo, KeptOf
  <2> QED
    BY <2>2
<1>2. P(CHOOSE k : P(k))
  BY <1>1
<1>3. Without(a, x) = (CHOOSE k : P(k))[Len(a)]
  BY DEF Without
<1>4. KeepsTo(CHOOSE k : P(k), a, x, Len(a))
  BY <1>2 DEF KeepsTo, KeptOf
<1> QED
  BY <1>3, <1>4

LEMMA AppendHolds ==
    ASSUME NEW X, NEW b \in Seq(X), NEW e \in X
    PROVE  /\ Append(b, e) \in Seq(X) /\ Len(Append(b, e)) = Len(b) + 1 /\ Len(b) \in Nat
           /\ ToSet(Append(b, e)) = ToSet(b) \cup {e}
<1> DEFINE c == Append(b, e)
<1>1. /\ c \in Seq(X) /\ Len(c) = Len(b) + 1 /\ Len(b) \in Nat
      /\ \A i \in 1 .. Len(b) : c[i] = b[i]
      /\ c[Len(b) + 1] = e /\ DOMAIN c = 1 .. Len(b) + 1 /\ DOMAIN b = 1 .. Len(b)
  OBVIOUS
<1> HIDE DEF c
<1>2. ASSUME NEW y \in ToSet(c) PROVE y \in ToSet(b) \cup {e}
  <2>1. PICK i \in 1 .. Len(b) + 1 : y = c[i]
    BY <1>1, <1>2 DEF ToSet
  <2>2. i \in 1 .. Len(b) \/ i = Len(b) + 1
    BY <1>1
  <2> QED
    BY <1>1, <2>1, <2>2 DEF ToSet
<1>3. ASSUME NEW y \in ToSet(b) \cup {e} PROVE y \in ToSet(c)
  <2>1. ASSUME NEW i \in 1 .. Len(b), y = b[i] PROVE y \in ToSet(c)
    BY <1>1, <2>1 DEF ToSet
  <2>2. CASE y = e
    BY <1>1, <2>2 DEF ToSet
  <2> QED
    BY <1>1, <1>3, <2>1, <2>2 DEF ToSet
<1> QED
  BY <1>1, <1>2, <1>3 DEF c

\* What Without keeps: everything but x, and no more than there was.
LEMMA WithoutKeeps ==
    ASSUME NEW X, NEW a \in Seq(X), NEW x
    PROVE  /\ Without(a, x) \in Seq(X) /\ Len(Without(a, x)) <= Len(a)
           /\ ToSet(Without(a, x)) = ToSet(a) \ {x}
<1>1. Len(a) \in Nat /\ DOMAIN a = 1 .. Len(a) /\ \A i \in 1 .. Len(a) : a[i] \in X
  OBVIOUS
<1>2. PICK k : KeepsTo(k, a, x, Len(a)) /\ Without(a, x) = k[Len(a)]
  BY <1>1, WithoutIsKept
<1> DEFINE Good(n) == /\ k[n] \in Seq(X) /\ Len(k[n]) <= n
                      /\ ToSet(k[n]) = {a[i] : i \in 1 .. n} \ {x}
           Bad == {n \in 0 .. Len(a) : ~Good(n)}
<1>3. Bad = {}
  <2>1. Bad \subseteq Nat
    OBVIOUS
  <2> SUFFICES ASSUME Bad # {} PROVE FALSE
    OBVIOUS
  <2> HIDE DEF Bad
  <2>2. PICK n \in Bad : \A l \in Bad : n <= l
    BY <2>1, LeastNatural
  <2> USE DEF Bad
  <2>3. k[n] = KeptOf(a, x, n, k[n - 1]) /\ n \in 0 .. Len(a) /\ ~Good(n)
    BY <1>2, <2>2 DEF KeepsTo
  <2>4. n # 0
    <3>1. CASE n = 0
      <4>1. k[n] = <<>>
        BY <2>3, <3>1 DEF KeptOf
      <4>2. Good(n)
        BY <3>1, <4>1 DEF ToSet
      <4> QED
        BY <2>3, <4>2
    <3> QED
      BY <3>1
  <2>5. n \in 1 .. Len(a) /\ n - 1 \in 0 .. Len(a) /\ n - 1 \notin Bad /\ a[n] \in X
    <3>1. n \in 1 .. Len(a) /\ n - 1 \in 0 .. Len(a) /\ ~(n <= n - 1)
      BY <1>1, <2>3, <2>4
    <3>2. n - 1 \notin Bad
      <4> HIDE DEF Bad
      <4> QED
        BY <2>2, <3>1
    <3> QED
      BY <1>1, <3>1, <3>2
  <2>6. Good(n - 1)
    BY <2>5
  <2>7. {a[i] : i \in 1 .. n} = {a[i] : i \in 1 .. n - 1} \cup {a[n]}
    BY <2>5
  <2>8. CASE a[n] = x
    BY <2>3, <2>4, <2>5, <2>6, <2>7, <2>8 DEF KeptOf
  <2>9. CASE a[n] # x
    <3> DEFINE b == k[n - 1]
    <3>1. b \in Seq(X) /\ Len(b) <= n - 1 /\ ToSet(b) = {a[i] : i \in 1 .. n - 1} \ {x}
      BY <2>6
    <3>2. k[n] = Append(b, a[n])
      BY <2>3, <2>4, <2>9 DEF KeptOf
    <3> HIDE DEF b
    <3>3. /\ Append(b, a[n]) \in Seq(X) /\ Len(Append(b, a[n])) = Len(b) + 1
          /\ ToSet(Append(b, a[n])) = ToSet(b) \cup {a[n]}
          /\ Len(b) \in Nat
      BY <2>5, <3>1, AppendHolds
    <3> QED
      BY <2>3, <2>5, <2>7, <2>9, <3>1, <3>2, <3>3
  <2> QED
    BY <2>8, <2>9
<1>4. Len(a) \in 0 .. Len(a)
  BY <1>1
<1>5. Good(Len(a))
  <2> HIDE DEF Good
  <2>1. Len(a) \notin Bad
    <3> HIDE DEF Bad
    <3> QED
      BY <1>3
  <2> QED
    BY <1>4, <2>1
<1>6. ToSet(a) = {a[i] : i \in 1 .. Len(a)}
  BY <1>1 DEF ToSet
<1> QED
  BY <1>2, <1>5, <1>6

\* The attempts after one more: itself among them, never more than the cap,
\* and none but the oldest is gone.
LEMMA RecentKeeps ==
    ASSUME NEW X, NEW a \in Seq(X), Len(a) <= AttemptCap, NEW x \in X
    PROVE  LET all == Append(Without(a, x), x)
           IN  /\ all \in Seq(X) /\ ToSet(a) \subseteq ToSet(all)
               /\ Recent(all) \in Seq(X)
               /\ Len(Recent(all)) <= AttemptCap
               /\ x \in ToSet(Recent(all))
<1> DEFINE b == Without(a, x)
           all == Append(b, x)
<1>1. /\ b \in Seq(X) /\ Len(b) <= AttemptCap /\ ToSet(b) = ToSet(a) \ {x}
      /\ AttemptCap \in Nat \ {0}
  <2>1. b \in Seq(X) /\ Len(b) <= Len(a) /\ ToSet(b) = ToSet(a) \ {x}
    BY WithoutKeeps
  <2> QED
    BY <2>1, ManagerAssumption
<1> HIDE DEF b
<1>2. /\ all \in Seq(X) /\ Len(all) = Len(b) + 1 /\ all[Len(b) + 1] = x
      /\ DOMAIN all = 1 .. Len(b) + 1
      /\ \A i \in 1 .. Len(b) : all[i] = b[i]
      /\ Len(b) \in Nat /\ DOMAIN b = 1 .. Len(b)
  BY <1>1
<1> HIDE DEF all
<1>3. ToSet(b) \subseteq ToSet(all) /\ x \in ToSet(all)
  BY <1>2 DEF ToSet
<1>4. CASE Len(all) > AttemptCap
  <2>0. Recent(all) = Tail(all)
    BY <1>4 DEF Recent
  <2>1. Recent(all) = Tail(all) /\ Len(b) = AttemptCap
    <3>1. /\ Len(b) <= AttemptCap /\ AttemptCap \in Nat /\ Len(b) \in Nat
          /\ Len(b) + 1 > AttemptCap
      BY <1>1, <1>2, <1>4
    <3> QED
      BY <2>0, <3>1
  <2>2. /\ Tail(all) \in Seq(X) /\ Len(Tail(all)) = Len(b)
        /\ Tail(all)[Len(b)] = x /\ Len(b) \in DOMAIN Tail(all)
    BY <1>1, <1>2, <2>1
  <2> QED
    BY <1>1, <1>2, <1>3, <2>1, <2>2 DEF ToSet, all, b
<1>5. CASE ~(Len(all) > AttemptCap)
  <2>1. Recent(all) = all
    BY <1>5 DEF Recent
  <2> QED
    BY <1>1, <1>2, <1>3, <1>5, <2>1 DEF all, b
<1> QED
  BY <1>4, <1>5

-----------------------------------------------------------------------------
(***************************************************************************)
(* Settings that can be loaded again, field by field.                      *)
(***************************************************************************)
Good(s) ==
    /\ IsSettings(s)
    /\ s.schema \in 1 .. 5 /\ s.endpoint \in Endpoint /\ s.active \in Model \cup {None}
    /\ s.profiles \in SUBSET Profile /\ s.attempts \in Seq(Place)
    /\ s.calibrating \in BOOLEAN /\ s.root \in Root
    /\ s.used \in BOOLEAN /\ s.installed \in BOOLEAN
    /\ Loadable(s)

Installing == {"pull", "pulling", "pulled"}

Placed == {"selected", "delete", "deleted"} \cup Installing \cup Measuring

(***************************************************************************)
(* What an operation was asked and works on: once it is about a model, one *)
(* its endpoint may hold; and a model whose download may have been asked   *)
(* for is among the attempts.                                              *)
(***************************************************************************)
Formed(o) ==
    \/ o = Idle
    \/ /\ o.kind \in Kinds
       /\ o.shown \in Shown \/ (o.shown = None /\ o.kind # "goal")
       /\ o.digest \in Digest \cup {None}
       /\ o.pc \in Placed => <<o.s.endpoint, o.model>> \in Place
       /\ o.pc \in Installing => <<o.s.endpoint, o.model>> \in ToSet(o.s.attempts)

Recorded ==
    /\ Good(file) /\ NothingForgotten
    /\ lease \in Process \cup {None} /\ data \subseteq Root /\ pulled \subseteq Place
    /\ \A p \in Process : Formed(op[p])

LEMMA GoodTyped ==
    ASSUME NEW s, Good(s)
    PROVE  s \in Settings
BY DEF Good, IsSettings, Settings

\* What Phonton writes can be loaded again.
LEMMA GoodNewer ==
    ASSUME NEW s, Good(s), NEW n \in 1 .. 5
    PROVE  /\ Good(AtLeast(s, n)) /\ AtLeast(s, n).schema >= n
           /\ AtLeast(s, n).schema \in 1 .. 5
           /\ AtLeast(s, n).attempts = s.attempts /\ AtLeast(s, n).root = s.root
           /\ AtLeast(s, n).used = s.used /\ AtLeast(s, n).installed = s.installed
           /\ AtLeast(s, n).endpoint = s.endpoint
<1> DEFINE t == AtLeast(s, n)
<1>1. /\ IsSettings(t) /\ t.schema = Larger(s.schema, n)
      /\ t.endpoint = s.endpoint /\ t.active = s.active /\ t.profiles = s.profiles
      /\ t.attempts = s.attempts /\ t.calibrating = s.calibrating /\ t.root = s.root
      /\ t.used = s.used /\ t.installed = s.installed
  BY DEF Good, IsSettings, AtLeast
<1>2. t.schema \in 1 .. 5 /\ t.schema >= n /\ t.schema >= s.schema
  BY <1>1 DEF Larger, Good
<1> HIDE DEF t
<1>3. s.schema \in 1 .. 5 /\ (t.schema = 1 => s.schema = 1) /\ (s.schema = 5 => t.schema = 5)
  BY <1>2 DEF Good
<1>4. Loadable(t)
  BY <1>1, <1>2, <1>3 DEF Good, Loadable
<1> QED
  BY <1>1, <1>2, <1>4 DEF Good, t

LEMMA GoodActive ==
    ASSUME NEW s, Good(s), NEW m \in Model \cup {None}
    PROVE  /\ Good([s EXCEPT !.active = m])
           /\ [s EXCEPT !.active = m].attempts = s.attempts
           /\ [s EXCEPT !.active = m].root = s.root
<1> DEFINE t == [s EXCEPT !.active = m]
<1>1. /\ IsSettings(t) /\ t.schema = s.schema
      /\ t.endpoint = s.endpoint /\ t.active = m /\ t.profiles = s.profiles
      /\ t.attempts = s.attempts /\ t.calibrating = s.calibrating /\ t.root = s.root
      /\ t.used = s.used /\ t.installed = s.installed
  BY DEF Good, IsSettings
<1> HIDE DEF t
<1> QED
  BY <1>1 DEF Good, Loadable, t

LEMMA GoodEndpoint ==
    ASSUME NEW s, Good(s), NEW e \in Endpoint
    PROVE  /\ Good(ChangedEndpoint(s, e))
           /\ ChangedEndpoint(s, e).attempts = s.attempts
           /\ ChangedEndpoint(s, e).root = s.root
<1> DEFINE t == ChangedEndpoint(s, e)
<1>1. /\ IsSettings(t) /\ t.schema = s.schema
      /\ t.endpoint = e /\ t.active = None /\ t.profiles = s.profiles
      /\ t.attempts = s.attempts /\ t.calibrating = s.calibrating /\ t.root = s.root
      /\ t.used = s.used /\ t.installed = s.installed
  BY DEF Good, IsSettings, ChangedEndpoint
<1> HIDE DEF t
<1> QED
  BY <1>1 DEF Good, Loadable, t

LEMMA GoodRoot ==
    ASSUME NEW s, Good(s), ~s.used, ~s.installed, NEW r \in Root \ {DefaultRoot}
    PROVE  LET t == [AtLeast(s, 2) EXCEPT !.root = r]
           IN  Good(t) /\ t.attempts = s.attempts /\ t.root = r
<1> DEFINE u == AtLeast(s, 2)
           t == [u EXCEPT !.root = r]
<1>1. /\ Good(u) /\ u.schema >= 2 /\ u.attempts = s.attempts
      /\ ~u.used /\ ~u.installed
  BY GoodNewer
<1> HIDE DEF u
<1>2. /\ IsSettings(t) /\ t.schema = u.schema
      /\ t.endpoint = u.endpoint /\ t.active = u.active /\ t.profiles = u.profiles
      /\ t.attempts = u.attempts /\ t.calibrating = u.calibrating /\ t.root = r
      /\ t.used = u.used /\ t.installed = u.installed
  BY <1>1 DEF Good, IsSettings
<1> HIDE DEF t
<1>3. t.schema # 1
  BY <1>1, <1>2 DEF Good
<1> QED
  BY <1>1, <1>2, <1>3 DEF Good, Loadable, t, u

LEMMA GoodRuntime ==
    ASSUME NEW s, Good(s)
    PROVE  /\ Good(WithRuntime(s))
           /\ WithRuntime(s).attempts = s.attempts /\ WithRuntime(s).root = s.root
<1> DEFINE u == AtLeast(s, 3)
           t == [u EXCEPT !.installed = TRUE, !.used = @ \/ s.root # DefaultRoot]
<1>1. /\ Good(u) /\ u.schema >= 3 /\ u.attempts = s.attempts
      /\ u.root = s.root /\ u.used = s.used
  BY GoodNewer
<1>2. WithRuntime(s) = IF s.installed THEN s ELSE t
  BY DEF WithRuntime
<1> HIDE DEF u
<1>3. /\ IsSettings(t) /\ t.schema = u.schema
      /\ t.endpoint = u.endpoint /\ t.active = u.active /\ t.profiles = u.profiles
      /\ t.attempts = u.attempts /\ t.calibrating = u.calibrating /\ t.root = u.root
      /\ t.used = (u.used \/ s.root # DefaultRoot) /\ t.installed = TRUE
  BY <1>1 DEF Good, IsSettings
<1> HIDE DEF t
<1>4. t.schema # 1 /\ t.schema >= 3
  BY <1>1, <1>3 DEF Good
<1>5. Good(t)
  BY <1>1, <1>3, <1>4 DEF Good, Loadable
<1> QED
  BY <1>1, <1>2, <1>3, <1>5

LEMMA GoodUsed ==
    ASSUME NEW s, Good(s)
    PROVE  LET t == [s EXCEPT !.used = @ \/ s.root # DefaultRoot]
           IN  Good(t) /\ t.attempts = s.attempts /\ t.root = s.root
<1> DEFINE t == [s EXCEPT !.used = @ \/ s.root # DefaultRoot]
<1>1. /\ IsSettings(t) /\ t.schema = s.schema
      /\ t.endpoint = s.endpoint /\ t.active = s.active /\ t.profiles = s.profiles
      /\ t.attempts = s.attempts /\ t.calibrating = s.calibrating /\ t.root = s.root
      /\ t.used = (s.used \/ s.root # DefaultRoot) /\ t.installed = s.installed
  BY DEF Good, IsSettings
<1> HIDE DEF t
<1> QED
  BY <1>1 DEF Good, Loadable, t

LEMMA GoodAttempts ==
    ASSUME NEW s, Good(s), NEW a \in Seq(Place),
           a # <<>> => s.schema = 5 /\ Len(a) <= AttemptCap
    PROVE  LET t == [s EXCEPT !.attempts = a]
           IN  Good(t) /\ t.attempts = a /\ t.root = s.root /\ t.endpoint = s.endpoint
<1> DEFINE t == [s EXCEPT !.attempts = a]
<1>1. /\ IsSettings(t) /\ t.schema = s.schema
      /\ t.endpoint = s.endpoint /\ t.active = s.active /\ t.profiles = s.profiles
      /\ t.attempts = a /\ t.calibrating = s.calibrating /\ t.root = s.root
      /\ t.used = s.used /\ t.installed = s.installed
  BY DEF Good, IsSettings
<1> HIDE DEF t
<1> QED
  BY <1>1 DEF Good, Loadable, t

LEMMA GoodProfiles ==
    ASSUME NEW s, Good(s), NEW f \in SUBSET Profile
    PROVE  LET t == [s EXCEPT !.profiles = f]
           IN  Good(t) /\ t.attempts = s.attempts /\ t.root = s.root
<1> DEFINE t == [s EXCEPT !.profiles = f]
<1>1. /\ IsSettings(t) /\ t.schema = s.schema
      /\ t.endpoint = s.endpoint /\ t.active = s.active /\ t.profiles = f
      /\ t.attempts = s.attempts /\ t.calibrating = s.calibrating /\ t.root = s.root
      /\ t.used = s.used /\ t.installed = s.installed
  BY DEF Good, IsSettings
<1> HIDE DEF t
<1> QED
  BY <1>1 DEF Good, Loadable, t

LEMMA GoodCalibrated ==
    ASSUME NEW s, Good(s), NEW m \in Model \cup {None}, NEW f \in SUBSET Profile
    PROVE  LET t == [s EXCEPT !.active = m, !.profiles = f, !.calibrating = FALSE]
           IN  Good(t) /\ t.attempts = s.attempts /\ t.root = s.root
<1> DEFINE t == [s EXCEPT !.active = m, !.profiles = f, !.calibrating = FALSE]
<1>1. /\ IsSettings(t) /\ t.schema = s.schema
      /\ t.endpoint = s.endpoint /\ t.active = m /\ t.profiles = f
      /\ t.attempts = s.attempts /\ t.calibrating = FALSE /\ t.root = s.root
      /\ t.used = s.used /\ t.installed = s.installed
  BY DEF Good, IsSettings
<1> HIDE DEF t
<1> QED
  BY <1>1 DEF Good, Loadable, t

LEMMA GoodCalibrating ==
    ASSUME NEW s, Good(s)
    PROVE  LET t == [AtLeast(s, 4) EXCEPT !.calibrating = TRUE]
           IN  Good(t) /\ t.attempts = s.attempts /\ t.root = s.root /\ t.endpoint = s.endpoint
<1> DEFINE u == AtLeast(s, 4)
           t == [u EXCEPT !.calibrating = TRUE]
<1>1. /\ Good(u) /\ u.schema >= 4 /\ u.attempts = s.attempts /\ u.root = s.root
      /\ u.endpoint = s.endpoint
  BY GoodNewer
<1> HIDE DEF u
<1>2. /\ IsSettings(t) /\ t.schema = u.schema
      /\ t.endpoint = u.endpoint /\ t.active = u.active /\ t.profiles = u.profiles
      /\ t.attempts = u.attempts /\ t.calibrating = TRUE /\ t.root = u.root
      /\ t.used = u.used /\ t.installed = u.installed
  BY <1>1 DEF Good, IsSettings
<1> HIDE DEF t
<1> QED
  BY <1>1, <1>2 DEF Good, Loadable, t, u

-----------------------------------------------------------------------------
(***************************************************************************)
(* One operation changes.                                                  *)
(***************************************************************************)
LEMMA OneFormed ==
    ASSUME IInv, Recorded, NEW p \in Process, NEW o, op' = [op EXCEPT ![p] = o], Formed(o)
    PROVE  \A q \in Process : Formed(op'[q])
BY DEF IInv, Static, Recorded

LEMMA IdleFormed == Formed(Idle)
BY DEF Formed

\* Nothing is saved, and nothing is done that would have to be.
LEMMA QuietRecorded ==
    ASSUME IInv, Recorded, \A q \in Process : Formed(op'[q]),
           lease' \in Process \cup {None}, UNCHANGED <<file, data, pulled>>
    PROVE  Recorded'
BY DEF Recorded, NothingForgotten, Good, IsSettings, Loadable

\* Settings are saved that know as much of the folders and the downloads.
LEMMA SavedRecorded ==
    ASSUME IInv, Recorded, \A q \in Process : Formed(op'[q]),
           lease' \in Process \cup {None}, NEW s, Good(s), file' = s,
           s.attempts = file.attempts, s.root = file.root,
           UNCHANGED <<data, pulled>>
    PROVE  Recorded'
BY DEF Recorded, NothingForgotten, Good, IsSettings, Loadable

LEMMA SaveEnds ==
    ASSUME IInv, Recorded, NEW p \in Process, NEW s, SaveAndEnd(p, s), Good(s),
           s.attempts = file.attempts, s.root = file.root, UNCHANGED <<data, pulled>>
    PROVE  Recorded'
<1>1. op' = [op EXCEPT ![p] = Idle] /\ lease' = None /\ file' = s
  BY DEF SaveAndEnd, End
<1>2. \A q \in Process : Formed(op'[q])
  BY <1>1, OneFormed, IdleFormed
<1> QED
  BY <1>1, <1>2, SavedRecorded

\* What a working operation knows, once more.
LEMMA AtWork ==
    ASSUME IInv, Recorded, NEW p \in Process, Working(p)
    PROVE  /\ S(p) = file /\ IsOperation(op[p]) /\ Good(S(p)) /\ op[p] # Idle
           /\ Formed(op[p]) /\ lease \in Process \cup {None}
           /\ op[p].kind \in Kinds /\ op[p].digest \in Digest \cup {None}
           /\ op[p].pc \in Placed => Here(p) \in Place
           /\ op[p].pc \in Installing => Here(p) \in ToSet(file.attempts)
<1>1. S(p) = file /\ IsOperation(op[p])
  BY WorkingFacts
<1>2. op[p] # Idle
  BY DEF Working, Idle
<1>3. Formed(op[p]) /\ Good(file) /\ lease \in Process \cup {None}
  BY DEF Recorded
<1> QED
  BY <1>1, <1>2, <1>3 DEF Formed, Here, S

\* An operation goes on: of the same request, about the same model.
LEMMA FormedNext ==
    ASSUME NEW p \in Process, Formed(op[p]), op[p] # Idle, NEW o,
           o.kind = op[p].kind, o.shown = op[p].shown, o.digest \in Digest \cup {None},
           o.pc \in Placed => <<o.s.endpoint, o.model>> \in Place,
           o.pc \in Installing => <<o.s.endpoint, o.model>> \in ToSet(o.s.attempts)
    PROVE  Formed(o)
BY DEF Formed

LEMMA FormedGoto ==
    ASSUME IInv, Recorded, NEW p \in Process, op[p] # Idle, NEW pc, Goto(p, pc),
           pc \in Placed => Here(p) \in Place,
           pc \in Installing => Here(p) \in ToSet(S(p).attempts)
    PROVE  \A q \in Process : Formed(op'[q])
<1> DEFINE o == [op[p] EXCEPT !.pc = pc]
<1>1. IsOperation(op[p]) /\ Formed(op[p])
  BY DEF IInv, Knows, Shaped, Recorded
<1>2. /\ o.kind = op[p].kind /\ o.shown = op[p].shown /\ o.digest = op[p].digest
      /\ o.pc = pc /\ o.s = op[p].s /\ o.model = op[p].model
  BY <1>1 DEF IsOperation
<1>3. op' = [op EXCEPT ![p] = o]
  BY DEF Goto
<1> HIDE DEF o
<1>4. Formed(o)
  BY <1>1, <1>2, FormedNext DEF Here, S, Formed
<1> QED
  BY <1>3, <1>4, OneFormed

LEMMA FormedSave ==
    ASSUME IInv, Recorded, NEW p \in Process, Working(p), NEW s, NEW pc, Save(p, s, pc),
           pc \notin Placed \ Installing,
           pc \in Installing => /\ <<s.endpoint, op[p].model>> \in Place
                                /\ <<s.endpoint, op[p].model>> \in ToSet(s.attempts)
    PROVE  \A q \in Process : Formed(op'[q])
<1> DEFINE o == [op[p] EXCEPT !.s = s, !.pc = pc]
<1>1. IsOperation(op[p]) /\ Formed(op[p]) /\ op[p] # Idle /\ op[p].digest \in Digest \cup {None}
  BY AtWork
<1>2. /\ o.kind = op[p].kind /\ o.shown = op[p].shown /\ o.digest = op[p].digest
      /\ o.pc = pc /\ o.s = s /\ o.model = op[p].model
  BY <1>1 DEF IsOperation
<1>3. op' = [op EXCEPT ![p] = o]
  BY DEF Save
<1> HIDE DEF o
<1>4. Formed(o)
  BY <1>1, <1>2, FormedNext
<1> QED
  BY <1>3, <1>4, OneFormed

-----------------------------------------------------------------------------
\* A selection that is shown is a calibration of the file.
LEMMA ShowingTyped ==
    ASSUME Recorded
    PROVE  Showing \in Shown
<1>1. Good(file)
  BY DEF Recorded
<1>2. Selected(file) \in Profile \cup {None}
  <2>1. CASE Selected(file) = None
    BY <2>1
  <2>2. CASE Selected(file) # None
    BY <1>1, <2>2, SelectedIsOne DEF Good
  <2> QED
    BY <2>1, <2>2
<1> QED
  BY <1>1, <1>2 DEF Showing, Shown, Good

LEMMA AskRecorded ==
    ASSUME IInv, Recorded, NEW p \in Process, NEW kind \in Kinds, Ask(p, kind)
    PROVE  Recorded'
<1>1. PICK m \in ModelsFor(p, kind) :
        op' = [op EXCEPT ![p] =
                 [kind |-> kind, model |-> m, pc |-> "asked", s |-> Fresh,
                  shown |-> IF Expects(p, kind) THEN Showing ELSE None,
                  digest |-> None, best |-> "none", moves |-> 0, alien |-> FALSE]]
  BY DEF Ask
<1> DEFINE o == [kind |-> kind, model |-> m, pc |-> "asked", s |-> Fresh,
                 shown |-> IF Expects(p, kind) THEN Showing ELSE None,
                 digest |-> None, best |-> "none", moves |-> 0, alien |-> FALSE]
<1>2. o.shown = Showing \/ (o.shown = None /\ kind # "goal")
  BY DEF Expects
<1>3. "asked" \notin Placed /\ "asked" \notin Installing
  BY DEF Placed, Installing, Measuring
<1>4. /\ o.kind = kind /\ o.digest = None /\ o.pc = "asked"
  OBVIOUS
<1>5. op' = [op EXCEPT ![p] = o]
  BY <1>1
<1> HIDE DEF o
<1>6. Formed(o)
  BY <1>2, <1>3, <1>4, ShowingTyped DEF Formed
<1>7. lease' \in Process \cup {None} /\ UNCHANGED <<file, data, pulled>>
  BY DEF Ask, Runtime, Recorded
<1> QED
  BY <1>5, <1>6, <1>7, OneFormed, QuietRecorded

LEMMA AdmitRecorded ==
    ASSUME IInv, Recorded, NEW p \in Process, Admit(p) \/ AdmitGoal(p)
    PROVE  Recorded'
<1>1. Goto(p, "admitted") /\ lease' = p /\ UNCHANGED <<file, data, pulled>>
  BY DEF Admit, AdmitGoal, Runtime
<1>2. op[p] # Idle
  BY DEF Admit, AdmitGoal, At, Idle
<1>3. "admitted" \notin Placed /\ "admitted" \notin Installing
  BY DEF Placed, Installing, Measuring
<1> QED
  BY <1>1, <1>2, <1>3, FormedGoto, QuietRecorded

\* The settings are loaded: nothing is about a model yet.
LEMMA LoadsFormed ==
    ASSUME IInv, Recorded, NEW p \in Process, op[p] # Idle, NEW pc \in {"loaded", "prepared"},
           op' = [op EXCEPT ![p].s = file, ![p].pc = pc]
    PROVE  \A q \in Process : Formed(op'[q])
<1> DEFINE o == [op[p] EXCEPT !.s = file, !.pc = pc]
<1>1. IsOperation(op[p]) /\ Formed(op[p])
  BY DEF IInv, Knows, Shaped, Recorded
<1>2. o.kind = op[p].kind /\ o.shown = op[p].shown /\ o.digest = op[p].digest /\ o.pc = pc
  BY <1>1 DEF IsOperation
<1>3. op' = [op EXCEPT ![p] = o]
  OBVIOUS
<1> HIDE DEF o
<1>4. pc \notin Placed /\ pc \notin Installing
  BY DEF Placed, Installing, Measuring
<1>5. Formed(o)
  BY <1>1, <1>2, <1>4, FormedNext DEF Formed
<1> QED
  BY <1>3, <1>5, OneFormed

LEMMA LoadRecorded ==
    ASSUME IInv, Recorded, NEW p \in Process, Load(p)
    PROVE  Recorded'
<1>1. op' = [op EXCEPT ![p].s = file, ![p].pc = "loaded"] /\ op[p] # Idle
      /\ UNCHANGED <<file, lease, data, pulled>>
  BY DEF Load, Runtime, At, Idle
<1>2. lease \in Process \cup {None}
  BY DEF Recorded
<1> QED
  BY <1>1, <1>2, LoadsFormed, QuietRecorded

\* The evidence of a goal goes to the folder the settings name.
LEMMA PrepareRecorded ==
    ASSUME IInv, Recorded, NEW p \in Process, PrepareGoal(p)
    PROVE  Recorded'
<1>1. op' = [op EXCEPT ![p].s = file, ![p].pc = "prepared"] /\ op[p] # Idle
      /\ UNCHANGED <<file, lease, pulled>>
      /\ data' = data \cup ({file.root} \ {DefaultRoot})
  BY DEF PrepareGoal, At, Idle
<1>2. \A q \in Process : Formed(op'[q])
  BY <1>1, LoadsFormed
<1> QED
  BY <1>1, <1>2 DEF Recorded, NothingForgotten, Good, IsSettings, Loadable

LEMMA ConfirmGoalRecorded ==
    ASSUME IInv, Recorded, NEW p \in Process, ConfirmGoal(p)
    PROVE  Recorded'
<1> DEFINE shown == [op[p].shown EXCEPT !.root = file.root]
           o     == [op[p] EXCEPT !.shown = shown, !.pc = "confirmed"]
<1>1. op[p] # Idle /\ op[p].kind = "goal"
  BY DEF ConfirmGoal, At, Idle, Kind
<1>2. IsOperation(op[p]) /\ Formed(op[p]) /\ Good(file) /\ lease \in Process \cup {None}
  BY <1>1 DEF IInv, Knows, Shaped, Recorded
<1>3. op[p].shown \in Shown
  BY <1>1, <1>2 DEF Formed
<1>4. shown \in Shown
  BY <1>2, <1>3 DEF Shown, Good
<1> HIDE DEF shown
<1>5. /\ o.kind = "goal" /\ o.shown = shown /\ o.digest = op[p].digest /\ o.pc = "confirmed"
  BY <1>1, <1>2 DEF IsOperation
<1>6. op' = [op EXCEPT ![p] = o] /\ UNCHANGED <<file, lease, data, pulled>>
  BY DEF ConfirmGoal, Runtime, shown
<1> HIDE DEF o
<1>7. "confirmed" \notin Placed /\ "confirmed" \notin Installing
  BY DEF Placed, Installing, Measuring
<1>8. Formed(o)
  BY <1>1, <1>2, <1>4, <1>5, <1>7 DEF Formed, Kinds
<1> QED
  BY <1>2, <1>6, <1>8, OneFormed, QuietRecorded

-----------------------------------------------------------------------------
(***************************************************************************)
(* Operations that end with what they saved.                               *)
(***************************************************************************)
LEMMA ChoicesRecorded ==
    ASSUME IInv, Recorded, NEW p \in Process, Deselect(p) \/ SetEndpoint(p) \/ SaveSelection(p)
    PROVE  Recorded'
<1>1. Working(p) /\ UNCHANGED <<data, pulled>>
  BY DEF Deselect, SetEndpoint, SaveSelection, Starts, At, Working, Runtime
<1>2. S(p) = file /\ Good(file)
  BY <1>1, AtWork
<1>3. CASE Deselect(p)
  <2>1. SaveAndEnd(p, [file EXCEPT !.active = None])
    BY <1>2, <1>3 DEF Deselect
  <2> QED
    BY <1>1, <1>2, <2>1, GoodActive, SaveEnds
<1>4. CASE SetEndpoint(p)
  <2>1. PICK e \in Endpoint : SaveAndEnd(p, ChangedEndpoint(file, e))
    BY <1>2, <1>4 DEF SetEndpoint
  <2> QED
    BY <1>1, <1>2, <2>1, GoodEndpoint, SaveEnds
<1>5. CASE SaveSelection(p)
  <2>1. SaveAndEnd(p, [file EXCEPT !.active = op[p].model])
    BY <1>2, <1>5 DEF SaveSelection
  <2>2. op[p].pc \in Placed
    BY <1>5 DEF SaveSelection, At, Placed
  <2>3. op[p].model \in Model
    BY <1>1, <2>2, AtWork DEF Here, Place
  <2> QED
    BY <1>1, <1>2, <2>1, <2>3, GoodActive, SaveEnds
<1> QED
  BY <1>3, <1>4, <1>5

\* The folder changes only while none holds data.
LEMMA StorageRecorded ==
    ASSUME IInv, Recorded, NEW p \in Process, SetStorage(p)
    PROVE  Recorded'
<1>1. Working(p) /\ UNCHANGED <<data, pulled>> /\ CanSwitch(S(p))
  BY DEF SetStorage, Starts, At, Working, Runtime
<1>2. S(p) = file /\ Good(file)
  BY <1>1, AtWork
<1>3. ~file.used /\ ~file.installed /\ file.root \notin data
  BY <1>1, <1>2 DEF CanSwitch
<1>4. data = {}
  BY <1>3 DEF Recorded, NothingForgotten
<1>5. PICK r \in Root \ {DefaultRoot} : SaveAndEnd(p, [AtLeast(file, 2) EXCEPT !.root = r])
  BY <1>2 DEF SetStorage
<1> DEFINE t == [AtLeast(file, 2) EXCEPT !.root = r]
<1>6. Good(t) /\ t.attempts = file.attempts
  BY <1>2, <1>3, GoodRoot
<1> HIDE DEF t
<1>7. op' = [op EXCEPT ![p] = Idle] /\ lease' = None /\ file' = t
  BY <1>5 DEF SaveAndEnd, End, t
<1>8. \A q \in Process : Formed(op'[q])
  BY <1>7, OneFormed, IdleFormed
<1> QED
  BY <1>1, <1>4, <1>6, <1>7, <1>8 DEF Recorded, NothingForgotten, Good, IsSettings, Loadable

LEMMA SetupRecorded ==
    ASSUME IInv, Recorded, NEW p \in Process, SetupExisting(p) \/ SetupRecord(p)
    PROVE  Recorded'
<1>1. Working(p) /\ UNCHANGED <<data, pulled>>
  BY DEF SetupExisting, SetupRecord, Starts, At, Working, Runtime
<1>2. S(p) = file /\ Good(file) /\ lease \in Process \cup {None}
  BY <1>1, AtWork
<1>3. /\ Good(WithRuntime(file)) /\ WithRuntime(file).attempts = file.attempts
      /\ WithRuntime(file).root = file.root
  BY <1>2, GoodRuntime
<1>4. CASE SetupExisting(p)
  <2>1. SaveAndEnd(p, WithRuntime(file))
    BY <1>2, <1>4 DEF SetupExisting
  <2> QED
    BY <1>1, <1>3, <2>1, SaveEnds
<1>5. CASE SetupRecord(p)
  <2>1. Save(p, WithRuntime(file), "starting")
    BY <1>2, <1>5 DEF SetupRecord
  <2>2. "starting" \notin Placed /\ "starting" \notin Installing
    BY DEF Placed, Installing, Measuring
  <2>3. \A q \in Process : Formed(op'[q])
    BY <1>1, <2>1, <2>2, FormedSave
  <2>4. file' = WithRuntime(file) /\ lease' = lease
    BY <2>1 DEF Save
  <2> QED
    BY <1>1, <1>2, <1>3, <2>3, <2>4, SavedRecorded
<1> QED
  BY <1>4, <1>5

\* The folder a runtime is installed in is the one the settings name.
LEMMA SetupInstallRecorded ==
    ASSUME IInv, Recorded, NEW p \in Process, SetupInstall(p)
    PROVE  Recorded'
<1>1. Working(p) /\ Goto(p, "provisioned") /\ data' = data \cup {S(p).root}
      /\ UNCHANGED <<file, lease, pulled>>
  BY DEF SetupInstall, Starts, At, Working
<1>2. S(p) = file /\ op[p] # Idle
  BY <1>1, AtWork
<1>3. "provisioned" \notin Placed /\ "provisioned" \notin Installing
  BY DEF Placed, Installing, Measuring
<1>4. \A q \in Process : Formed(op'[q])
  BY <1>1, <1>2, <1>3, FormedGoto
<1> QED
  BY <1>1, <1>2, <1>4 DEF Recorded, NothingForgotten, Good, IsSettings, Loadable

LEMMA ConfirmRemoveRecorded ==
    ASSUME IInv, Recorded, NEW p \in Process, ConfirmRemove(p)
    PROVE  Recorded'
<1>1. Working(p) /\ UNCHANGED <<data, pulled>>
  BY DEF ConfirmRemove, At, Working, Runtime
<1>2. S(p) = file /\ Good(file) /\ IsSettings(file)
  BY <1>1, AtWork DEF Good
<1> DEFINE kept == file.profiles \ ProfilesOf(file, op[p].model)
           t    == [file EXCEPT !.profiles = kept]
<1>3. kept \in SUBSET Profile
  BY <1>2 DEF Good
<1>4. SaveAndEnd(p, t)
  BY <1>2 DEF ConfirmRemove
<1> HIDE DEF kept
<1>5. Good(t) /\ t.attempts = file.attempts /\ t.root = file.root
  BY <1>2, <1>3, GoodProfiles
<1> HIDE DEF t
<1> QED
  BY <1>1, <1>4, <1>5, SaveEnds

LEMMA RecordRecorded ==
    ASSUME IInv, Recorded, NEW p \in Process, RecordCalibration(p)
    PROVE  Recorded'
<1>1. Working(p) /\ UNCHANGED <<data, pulled>> /\ op[p].pc \in Measuring
  BY DEF RecordCalibration, At, Working, Runtime, Measuring
<1>2. S(p) = file /\ Good(file) /\ Here(p) \in Place /\ op[p].digest \in Digest \cup {None}
  BY <1>1, AtWork DEF Placed
<1> DEFINE new    == NewProfile(p)
           active == IF file.active = op[p].model /\ op[p].best = "none"
                       THEN None ELSE file.active
           all    == (file.profiles \ ProfilesOf(file, op[p].model)) \cup {new}
           t      == [file EXCEPT !.active = active, !.profiles = all, !.calibrating = FALSE]
<1>3. new \in Profile
  <2>1. op[p].digest # None
    BY <1>1 DEF IInv, Knows, Measures
  <2>2. op[p].model \in Model /\ S(p).endpoint \in Endpoint
    BY <1>2 DEF Here, Place
  <2>3. (op[p].best # "none") \in BOOLEAN /\ (op[p].alien => op[p].moves > 1) \in BOOLEAN
    OBVIOUS
  <2> QED
    BY <1>2, <2>1, <2>2, <2>3 DEF NewProfile, Profile
<1> HIDE DEF new
<1>4. all \in SUBSET Profile /\ active \in Model \cup {None}
  BY <1>2, <1>3 DEF Good
<1>5. SaveAndEnd(p, t)
  BY <1>2 DEF RecordCalibration, new
<1> HIDE DEF all, active
<1>6. Good(t) /\ t.attempts = file.attempts /\ t.root = file.root
  <2>1. Good(file) /\ active \in Model \cup {None} /\ all \in SUBSET Profile
    BY <1>2, <1>4
  <2>2. \A m \in Model \cup {None}, f \in SUBSET Profile :
          LET u == [file EXCEPT !.active = m, !.profiles = f, !.calibrating = FALSE]
          IN  Good(u) /\ u.attempts = file.attempts /\ u.root = file.root
    BY <2>1, GoodCalibrated
  <2> QED
    BY <2>1, <2>2
<1> HIDE DEF t
<1> QED
  BY <1>1, <1>5, <1>6, SaveEnds

-----------------------------------------------------------------------------
(***************************************************************************)
(* Installing a model.                                                     *)
(***************************************************************************)
LEMMA BeginInstallRecorded ==
    ASSUME IInv, Recorded, NEW p \in Process, BeginInstall(p)
    PROVE  Recorded'
<1> DEFINE x     == Here(p)
           all   == Append(Without(file.attempts, x), x)
           newer == AtLeast(file, 5)
           t     == [newer EXCEPT !.attempts = Recent(all)]
<1>1. Working(p) /\ x \in Place /\ data' = data
  BY DEF BeginInstall, Starts, At, Working, OnModel
<1>2. S(p) = file /\ Good(file) /\ lease \in Process \cup {None}
  BY <1>1, AtWork
<1>3. /\ Save(p, t, "pull")
      /\ pulled' = pulled \ (ToSet(all) \ ToSet(Recent(all)))
  BY <1>2 DEF BeginInstall
<1>4. /\ Good(newer) /\ newer.schema >= 5 /\ newer.schema \in 1 .. 5
      /\ newer.root = file.root /\ newer.endpoint = file.endpoint
  BY <1>2, GoodNewer
<1>5. file.attempts \in Seq(Place) /\ Len(file.attempts) <= AttemptCap
  BY <1>2, ManagerAssumption DEF Good, Loadable
<1> HIDE DEF x
<1>6. /\ ToSet(file.attempts) \subseteq ToSet(all)
      /\ Recent(all) \in Seq(Place) /\ Len(Recent(all)) <= AttemptCap
      /\ x \in ToSet(Recent(all))
  BY <1>1, <1>5, RecentKeeps
<1> HIDE DEF all, newer
<1>7. /\ Good(t) /\ t.attempts = Recent(all) /\ t.root = file.root
      /\ t.endpoint = file.endpoint
  BY <1>4, <1>6, GoodAttempts
<1>8. x = <<t.endpoint, op[p].model>>
  BY <1>2, <1>7 DEF Here, x
<1>9. file' = t /\ lease' = lease
  BY <1>3 DEF Save
<1> HIDE DEF t
<1>10. "pull" \notin Placed \ Installing
  BY DEF Installing
<1>11. \A q \in Process : Formed(op'[q])
  BY <1>1, <1>3, <1>6, <1>7, <1>8, <1>10, FormedSave
<1>12. pulled' \subseteq ToSet(Recent(all)) /\ pulled' \subseteq pulled
  BY <1>3, <1>6 DEF Recorded, NothingForgotten
<1> QED
  BY <1>1, <1>2, <1>7, <1>9, <1>11, <1>12 DEF Recorded, NothingForgotten, Good, IsSettings, Loadable

LEMMA PullRecorded ==
    ASSUME IInv, Recorded, NEW p \in Process, AskPull(p) \/ Pulled(p)
    PROVE  Recorded'
<1>1. /\ Working(p) /\ op[p].pc \in Installing
      /\ \E pc \in Installing : Goto(p, pc)
      /\ pulled' \in {pulled, pulled \cup {Here(p)}} /\ UNCHANGED <<file, lease, data>>
  BY DEF AskPull, Pulled, At, Working, Installing
<1>2. /\ S(p) = file /\ op[p] # Idle /\ Here(p) \in Place /\ Here(p) \in ToSet(file.attempts)
  BY <1>1, AtWork DEF Placed
<1>3. \A q \in Process : Formed(op'[q])
  BY <1>1, <1>2, FormedGoto
<1> QED
  BY <1>1, <1>2, <1>3 DEF Recorded, NothingForgotten, Good, IsSettings, Loadable

LEMMA ConfirmInstallRecorded ==
    ASSUME IInv, Recorded, NEW p \in Process, ConfirmInstall(p)
    PROVE  Recorded'
<1> DEFINE x == Here(p)
           a == Without(file.attempts, x)
           t == [file EXCEPT !.attempts = a]
<1>1. Working(p) /\ data' = data /\ pulled' = pulled \ {x}
  BY DEF ConfirmInstall, At, Working
<1>2. S(p) = file /\ Good(file)
  BY <1>1, AtWork
<1>3. SaveAndEnd(p, t)
  BY <1>2 DEF ConfirmInstall
<1>4. file.attempts \in Seq(Place)
  BY <1>2 DEF Good
<1> HIDE DEF x
<1>5. /\ a \in Seq(Place) /\ Len(a) <= Len(file.attempts)
      /\ ToSet(a) = ToSet(file.attempts) \ {x}
  BY <1>4, WithoutKeeps
<1> HIDE DEF a
<1>6. a # <<>> => file.schema = 5 /\ Len(a) <= AttemptCap
  <2> SUFFICES ASSUME a # <<>> PROVE file.schema = 5 /\ Len(a) <= AttemptCap
    OBVIOUS
  <2>1. Len(a) \in Nat \ {0} /\ Len(file.attempts) \in Nat
    BY <1>4, <1>5
  <2>2. file.attempts # <<>>
    BY <1>4, <1>5, <2>1
  <2>3. file.schema = 5 /\ Len(file.attempts) <= AttemptCap
    BY <1>2, <2>2 DEF Good, Loadable
  <2> QED
    BY <1>5, <2>1, <2>3, ManagerAssumption
<1>7. Good(t) /\ t.attempts = a /\ t.root = file.root
  BY <1>2, <1>5, <1>6, GoodAttempts
<1> HIDE DEF t
<1>8. op' = [op EXCEPT ![p] = Idle] /\ lease' = None /\ file' = t
  BY <1>3 DEF SaveAndEnd, End
<1>9. \A q \in Process : Formed(op'[q])
  BY <1>8, OneFormed, IdleFormed
<1>10. pulled' \subseteq ToSet(a)
  BY <1>1, <1>5 DEF Recorded, NothingForgotten
<1> QED
  BY <1>1, <1>7, <1>8, <1>9, <1>10 DEF Recorded, NothingForgotten, Good, IsSettings, Loadable

-----------------------------------------------------------------------------
(***************************************************************************)
(* The other steps.                                                        *)
(***************************************************************************)
LEMMA ModelRecorded ==
    ASSUME IInv, Recorded, NEW p \in Process, Select(p) \/ RemoveModel(p) \/ DeleteModel(p)
    PROVE  Recorded'
<1>1. /\ Working(p) /\ UNCHANGED <<file, lease, data, pulled>>
      /\ \E pc \in Placed \ Installing : Goto(p, pc)
  BY DEF Select, RemoveModel, DeleteModel, Starts, At, Working, Runtime, Placed, Installing
<1>2. Here(p) \in Place
  <2>1. CASE Select(p) \/ RemoveModel(p)
    BY <2>1 DEF Select, RemoveModel, Starts, OnModel
  <2>2. CASE DeleteModel(p)
    BY <1>1, <2>2, AtWork DEF DeleteModel, At, Placed
  <2> QED
    BY <2>1, <2>2
<1>3. op[p] # Idle /\ lease \in Process \cup {None}
  BY <1>1, AtWork
<1> QED
  BY <1>1, <1>2, <1>3, FormedGoto, QuietRecorded

LEMMA BeginCalibrationRecorded ==
    ASSUME IInv, Recorded, NEW p \in Process, BeginCalibration(p)
    PROVE  Recorded'
<1> DEFINE t == [AtLeast(file, 4) EXCEPT !.calibrating = TRUE]
           o == [op[p] EXCEPT !.s = t, !.digest = weights[Here(p)], !.pc = "off_edit"]
<1>1. Working(p) /\ Here(p) \in Place /\ UNCHANGED <<lease, data, pulled>>
  BY DEF BeginCalibration, Starts, At, Working, OnModel, Runtime
<1>2. /\ S(p) = file /\ Good(file) /\ lease \in Process \cup {None}
      /\ IsOperation(op[p]) /\ Formed(op[p]) /\ op[p] # Idle
  BY <1>1, AtWork
<1>3. file' = t /\ op' = [op EXCEPT ![p] = o]
  BY <1>2 DEF BeginCalibration
<1>4. /\ Good(t) /\ t.attempts = file.attempts /\ t.root = file.root
      /\ t.endpoint = file.endpoint
  BY <1>2, GoodCalibrating
<1> HIDE DEF t
<1>5. weights[Here(p)] \in Digest \cup {None}
  BY <1>1 DEF IInv, Static
<1>6. /\ o.kind = op[p].kind /\ o.shown = op[p].shown /\ o.digest = weights[Here(p)]
      /\ o.pc = "off_edit" /\ o.s = t /\ o.model = op[p].model
  BY <1>2 DEF IsOperation
<1> HIDE DEF o
<1>7. <<t.endpoint, op[p].model>> \in Place
  BY <1>1, <1>2, <1>4 DEF Here
<1>8. "off_edit" \notin Installing
  BY DEF Installing
<1>9. Formed(o)
  BY <1>2, <1>5, <1>6, <1>7, <1>8, FormedNext
<1> QED
  BY <1>1, <1>2, <1>3, <1>4, <1>9, OneFormed, SavedRecorded

LEMMA ProbesRecorded ==
    ASSUME IInv, Recorded, NEW p \in Process,
           ProbeOffEdit(p) \/ ProbeOffCreate(p) \/ ProbeDefault(p)
    PROVE  Recorded'
<1>1. PICK result, pc : pc \in Measuring /\ Probe(p, result, pc)
  <2>1. {"off_create", "default_edit", "recheck"} \subseteq Measuring
    BY DEF Measuring
  <2>2. CASE ProbeOffEdit(p)
    BY <2>1, <2>2 DEF ProbeOffEdit
  <2>3. CASE ProbeOffCreate(p)
    BY <2>1, <2>3 DEF ProbeOffCreate
  <2>4. CASE ProbeDefault(p)
    BY <2>1, <2>4 DEF ProbeDefault
  <2> QED
    BY <2>2, <2>3, <2>4
<1>2. Working(p) /\ op[p].pc \in Measuring
  BY DEF ProbeOffEdit, ProbeOffCreate, ProbeDefault, At, Working, Measuring
<1>3. /\ S(p) = file /\ Good(file) /\ lease \in Process \cup {None}
      /\ IsOperation(op[p]) /\ Formed(op[p]) /\ op[p] # Idle /\ Here(p) \in Place
      /\ op[p].digest \in Digest \cup {None}
  BY <1>2, AtWork DEF Placed
<1> DEFINE o == [op[p] EXCEPT !.best = result, !.pc = pc,
                   !.alien = @ \/ weights[Here(p)] \notin {None, op[p].digest}]
<1>4. op' = [op EXCEPT ![p] = o] /\ UNCHANGED <<file, lease, data, pulled>>
  BY <1>1, <1>3 DEF Probe, Runtime
<1>5. /\ o.kind = op[p].kind /\ o.shown = op[p].shown /\ o.digest = op[p].digest
      /\ o.pc = pc /\ o.s = op[p].s /\ o.model = op[p].model
  BY <1>3 DEF IsOperation
<1> HIDE DEF o
<1>6. pc \notin Installing
  BY <1>1 DEF Installing, Measuring
<1>7. Formed(o)
  BY <1>3, <1>5, <1>6, FormedNext DEF Here, S
<1> QED
  BY <1>3, <1>4, <1>7, OneFormed, QuietRecorded

LEMMA BeginRunRecorded ==
    ASSUME IInv, Recorded, NEW p \in Process, BeginRun(p)
    PROVE  Recorded'
<1> DEFINE t == [file EXCEPT !.used = @ \/ file.root # DefaultRoot]
<1>1. Working(p) /\ UNCHANGED <<data, pulled>>
  BY DEF BeginRun, At, Working, Runtime
<1>2. S(p) = file /\ Good(file) /\ lease \in Process \cup {None}
  BY <1>1, AtWork
<1>3. Save(p, t, "running")
  BY <1>2 DEF BeginRun
<1>4. Good(t) /\ t.attempts = file.attempts /\ t.root = file.root
  BY <1>2, GoodUsed
<1>5. file' = t /\ lease' = lease
  BY <1>3 DEF Save
<1> HIDE DEF t
<1>6. "running" \notin Placed /\ "running" \notin Installing
  BY DEF Placed, Installing, Measuring
<1>7. \A q \in Process : Formed(op'[q])
  BY <1>1, <1>3, <1>6, FormedSave
<1> QED
  BY <1>1, <1>2, <1>4, <1>5, <1>7, SavedRecorded

LEMMA EndingsRecorded ==
    ASSUME IInv, Recorded, NEW p \in Process, SetupStart(p) \/ EndRun(p) \/ Stops(p)
    PROVE  Recorded'
<1>1. op' = [op EXCEPT ![p] = Idle] /\ lease' \in {lease, None}
      /\ UNCHANGED <<file, data, pulled>>
  BY DEF SetupStart, EndRun, Stops, End, Runtime
<1>2. lease' \in Process \cup {None}
  BY <1>1 DEF Recorded
<1> QED
  BY <1>1, <1>2, OneFormed, IdleFormed, QuietRecorded

LEMMA OthersRecorded ==
    ASSUME IInv, Recorded, NEW x \in Place, OtherPrograms(x)
    PROVE  Recorded'
<1>1. /\ op' = [p \in Process |-> IF Calibrates(p, x) THEN [op[p] EXCEPT !.moves = @ + 1]
                                                      ELSE op[p]]
      /\ UNCHANGED <<file, lease, data, pulled>>
  BY DEF OtherPrograms
<1>2. ASSUME NEW p \in Process PROVE Formed(op'[p])
  <2>1. Formed(op[p])
    BY DEF Recorded
  <2>2. CASE Calibrates(p, x)
    <3>1. op[p] # Idle
      BY <2>2 DEF Calibrates, Kind, Idle
    <3>2. IsOperation(op[p])
      BY <3>1 DEF IInv, Knows, Shaped
    <3>3. op'[p] = [op[p] EXCEPT !.moves = @ + 1]
      BY <1>1, <2>2
    <3>4. /\ op'[p].kind = op[p].kind /\ op'[p].shown = op[p].shown
          /\ op'[p].digest = op[p].digest /\ op'[p].pc = op[p].pc
          /\ op'[p].s = op[p].s /\ op'[p].model = op[p].model
      BY <3>2, <3>3 DEF IsOperation
    <3> QED
      BY <2>1, <3>1, <3>4 DEF Formed
  <2>3. CASE ~Calibrates(p, x)
    BY <1>1, <2>1, <2>3
  <2> QED
    BY <2>2, <2>3
<1>3. lease \in Process \cup {None}
  BY DEF Recorded
<1> QED
  BY <1>1, <1>2, <1>3, QuietRecorded

-----------------------------------------------------------------------------
LEMMA InitRecorded == Init => Recorded
<1> SUFFICES ASSUME Init PROVE Recorded
  OBVIOUS
<1>1. file = Fresh /\ lease = None /\ data = {} /\ pulled = {}
      /\ \A p \in Process : op[p] = Idle
  BY DEF Init
<1>2. Good(Fresh)
  <2>1. /\ IsSettings(Fresh) /\ Fresh.schema = 1 /\ Fresh.endpoint = Managed
        /\ Fresh.active = None /\ Fresh.profiles = {} /\ Fresh.attempts = <<>>
        /\ Fresh.calibrating = FALSE /\ Fresh.root = DefaultRoot
        /\ Fresh.used = FALSE /\ Fresh.installed = FALSE
    BY DEF Fresh, IsSettings
  <2>2. 1 \in 1 .. 5 /\ <<>> \in Seq(Place)
    OBVIOUS
  <2>3. Loadable(Fresh)
    BY <2>1 DEF Loadable
  <2> QED
    BY <2>1, <2>2, <2>3, ManagerAssumption DEF Good
<1> QED
  BY <1>1, <1>2, IdleFormed DEF Recorded, NothingForgotten, Fresh

LEMMA StepRecorded ==
    ASSUME IInv, Recorded, NEW p \in Process, Step(p)
    PROVE  Recorded'
BY AskRecorded, AdmitRecorded, LoadRecorded, PrepareRecorded, ConfirmGoalRecorded,
   ChoicesRecorded, StorageRecorded, SetupRecorded, SetupInstallRecorded,
   ConfirmRemoveRecorded, RecordRecorded, BeginInstallRecorded, PullRecorded,
   ConfirmInstallRecorded, ModelRecorded, BeginCalibrationRecorded, ProbesRecorded,
   BeginRunRecorded, EndingsRecorded DEF Step

LEMMA NextRecorded ==
    ASSUME IInv, Recorded, [Next]_vars
    PROVE  Recorded'
<1>1. CASE UNCHANGED vars
  <2>1. UNCHANGED <<file, data, pulled, lease, op>>
    BY <1>1 DEF vars
  <2> QED
    BY <2>1, QuietRecorded DEF Recorded
<1> QED
  BY <1>1, StepRecorded, OthersRecorded DEF Next, Over

LEMMA RecordedFollows ==
    ASSUME IInv, Recorded
    PROVE  RecordInv
<1>1. ASSUME NEW p \in Process
      PROVE  /\ Kind(p) \in Kinds \cup {"none"}
             /\ Kind(p) # "none" => op[p].shown \in Shown \cup {None}
  <2>1. Formed(op[p])
    BY DEF Recorded
  <2>2. CASE op[p] = Idle
    BY <2>2 DEF Kind, Idle
  <2>3. CASE op[p] # Idle
    BY <2>1, <2>3 DEF Formed, Kind
  <2> QED
    BY <2>2, <2>3
<1>2. file \in Settings /\ Loadable(file)
  BY GoodTyped DEF Recorded, Good
<1>3. TypeOK
  BY <1>1, <1>2 DEF TypeOK, IInv, Static, Recorded
<1> QED
  BY <1>2, <1>3 DEF RecordInv, Recorded

(***************************************************************************)
(* Whatever Phonton writes can be loaded again, a download that was asked  *)
(* for stays listed until it is confirmed or pushed out, and data is only  *)
(* in the folder the settings name, wherever an operation was cut off      *)
(* (begin_install, finish_install, storage::save and switch).              *)
(***************************************************************************)
THEOREM NothingIsForgotten == Spec => []RecordInv
<1>1. Init => Recorded
  BY InitRecorded
<1>2. IInv /\ Recorded /\ [Next]_vars => Recorded'
  BY NextRecorded
<1>3. IInv /\ Recorded => RecordInv
  BY RecordedFollows
<1> QED
  BY <1>1, <1>2, <1>3, Inductive, PTL DEF Spec

=============================================================================

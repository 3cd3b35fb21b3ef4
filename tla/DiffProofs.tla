----------------------------- MODULE DiffProofs -----------------------------
(***************************************************************************)
(* The way of a diff, first through verification and then into the user's  *)
(* repository.  The lock file and the verdicts of concurrent verifications *)
(* (module Verification) are proved for every number of verifications and  *)
(* processes, every set of candidates and every size of the memo.  What a  *)
(* reject works from, removes and spares (module DiffApplier) is proved    *)
(* for every set of files, of lines at HEAD and of lines the user types,   *)
(* and every number of subtasks.                                           *)
(***************************************************************************)
EXTENDS Verification, DiffApplier, TLAPS

-----------------------------------------------------------------------------
(***************************************************************************)
(* Verification.  The inductive invariant.                                 *)
(***************************************************************************)
Entry == [key : Keys, verdict : Verdicts]

Types ==
    /\ TypeOK
    /\ memo \in [Process -> Seq(Entry)]
    /\ pruner \in {"none", "deleting", "deleted"}
    /\ takenOver \in BOOLEAN /\ disturbed \in BOOLEAN

\* Only a verification in its copy is on the cache root; one beyond the static
\* checks brings no manifest; a throwaway copy is what it was patched with.
JobsInv ==
    \A j \in Job :
        /\ job[j].cached => job[j].stage \in {"copy", "memo", "check", "test"}
        /\ job[j].stage \notin {"static", "ended"} => ~job[j].diff.manifest
        /\ ~job[j].cached /\ job[j].stage \in {"memo", "check", "test"}
             => own[j] = TreeOf(j)

\* A lock belongs to a killed process or to a verification on the cache root, and
\* until a stale lock is taken over it belongs to the only one there.
HolderInv ==
    /\ lock # NoLock =>
         /\ lock.owner \in Job
         /\ ProcessOf[lock.owner] \notin alive \/ job[lock.owner].cached
    /\ ~takenOver => \A j \in Job : job[j].cached => lock.owner = j
    /\ LockProtects

\* What the fingerprint of an undisturbed copy stands for.
KeyFor(j) == [tree |-> TreeOf(j), packages |-> Touched(j)]

\* Undisturbed, a verification in use of a copy finds in it what it patched, and
\* has read its fingerprint from that; its tests run on sources that build.
CopyInv ==
    ~disturbed =>
        \A j \in Job :
            /\ Using(j) => shared = TreeOf(j)
            /\ ProcessOf[j] \in alive /\ job[j].stage \in {"check", "test"}
                 => job[j].key = KeyFor(j)
            /\ ProcessOf[j] \in alive /\ job[j].stage = "test"
                 => job[j].passed /\ job[j].diff.builds

IInv == Types /\ JobsInv /\ HolderInv /\ CopyInv /\ VerdictInv

-----------------------------------------------------------------------------
(***************************************************************************)
(* The steps of a verification, by what they do.                           *)
(***************************************************************************)

\* What a verification with a copy answers, and what the memo takes of it.
Answers(j, v) ==
    /\ ProcessOf[j] \in alive
    /\ job[j].stage \in {"copy", "memo", "check", "test"}
    /\ v \in Verdicts
    /\ Answer(j, v)
    /\ UNCHANGED <<alive, shared, pruner, takenOver, disturbed>>
    /\ \/ memo' = memo
       \/ /\ job[j].stage \in {"check", "test"}
          /\ job[j].key # NoTree /\ v # "unavailable"
          /\ MemoPut(ProcessOf[j], job[j].key, v)

\* Where an answer comes from: it is what the memo, the checks or the tests say of
\* the copy.
Grounded(j, v) ==
    \/ v = "unavailable" \/ (v = "error" /\ memo' = memo)
    \/ /\ job[j].stage = "memo" /\ memo' = memo
       /\ \E e \in Entries(ProcessOf[j]) : e.key = KeyOf(j) /\ e.verdict = v
       /\ KeyOf(j) # NoTree
    \/ /\ job[j].stage = "check" /\ v = "fail"
       /\ CopyOf(j) # NoTree /\ ~CopyOf(j).builds
    \/ /\ job[j].stage = "test"
       /\ \/ TestsSkipped(j) /\ v = IF job[j].passed THEN "pass" ELSE "not_run"
          \/ ~TestsSkipped(j) /\ v = TestVerdict(CopyOf(j), Touched(j))

Misses(j) ==
    /\ Runs(j, "memo")
    /\ job' = [job EXCEPT ![j].stage = "check", ![j].key = KeyOf(j)]
    /\ UNCHANGED <<verdict, own, lock, alive, shared, memo, pruner, takenOver, disturbed>>

TakesLock(j) ==
    /\ ProcessOf[j] \in alive /\ job[j].stage \in {"lock", "reopen"}
    /\ \/ /\ lock = NoLock /\ lock' = [owner |-> j, stale |-> FALSE]
          /\ job' = [job EXCEPT ![j].stage = "copy", ![j].cached = TRUE]
       \/ /\ lock # NoLock /\ lock' = lock
          /\ \E st \in {"remove", "copy"} : job' = [job EXCEPT ![j].stage = st]
    /\ UNCHANGED <<verdict, alive, shared, own, memo, pruner, takenOver, disturbed>>

LEMMA ConcludeAnswers ==
    ASSUME TypeOK, NEW j \in Job, NEW v \in Verdicts, ProcessOf[j] \in alive,
           job[j].stage \in {"check", "test"}, Conclude(j, v)
    PROVE  Answers(j, v)
BY DEF Conclude, Answers, MemoPut, Keeps

LEMMA MemoGetCases ==
    ASSUME TypeOK, NEW j \in Job, MemoGet(j)
    PROVE  Misses(j) \/ \E v \in Verdicts : Answers(j, v) /\ Grounded(j, v)
<1> DEFINE hits == {e \in Entries(ProcessOf[j]) : e.key = KeyOf(j)}
<1>1. CASE KeyOf(j) # NoTree /\ hits # {}
  <2>1. PICK e \in hits : Answer(j, e.verdict)
    BY <1>1 DEF MemoGet
  <2>2. e.verdict \in Verdicts
    <3>1. ProcessOf[j] \in Process
      BY DEF Process
    <3>2. Entries(ProcessOf[j]) \subseteq [key : Keys, verdict : Verdicts]
      BY <3>1 DEF TypeOK
    <3> QED
      BY <3>2
  <2>3. Answers(j, e.verdict)
    BY <1>1, <2>1, <2>2 DEF MemoGet, Answers, Runs
  <2>4. Grounded(j, e.verdict)
    BY <1>1, <2>1 DEF MemoGet, Grounded, Runs
  <2> QED
    BY <2>2, <2>3, <2>4
<1>2. CASE ~(KeyOf(j) # NoTree /\ hits # {})
  BY <1>2 DEF MemoGet, Misses
<1> QED
  BY <1>1, <1>2

\* What the tests of some packages amount to, and when they pass.
LEMMA TestVerdicts ==
    ASSUME NEW tree, NEW ps
    PROVE  /\ TestVerdict(tree, ps) \in {"pass", "fail", "not_run"}
           /\ TestVerdict(tree, ps) = "pass" <=>
                ps \cap (tree.breaks \ tree.tests) = {} /\ ps \cap Untested = {}
BY DEF TestVerdict

LEMMA VerifyCases ==
    ASSUME TypeOK, NEW j \in Job, VerifyStep(j)
    PROVE  \/ StaticChecks(j) \/ TakesLock(j) \/ RemoveLock(j) \/ Patch(j) \/ Misses(j)
           \/ ChecksPass(j)
           \/ \E v \in Verdicts : Answers(j, v) /\ Grounded(j, v)
<1>1. CASE TryLock(j) \/ ReopenLock(j)
  BY <1>1 DEF TryLock, ReopenLock, TakesLock, Runs, Goto
<1>2. CASE PatchFails(j)
  <2>1. Answers(j, "error") /\ Grounded(j, "error")
    BY <1>2 DEF PatchFails, Answers, Grounded, Runs, Verdicts
  <2> QED
    BY <2>1 DEF Verdicts
<1>3. CASE MemoGet(j)
  BY <1>3, MemoGetCases
<1>4. CASE ChecksFail(j)
  BY <1>4, ConcludeAnswers DEF ChecksFail, Grounded, Runs, Verdicts
<1>5. CASE LayerUnavailable(j)
  BY <1>5, ConcludeAnswers DEF LayerUnavailable, Grounded, Runs, Verdicts
<1>6. CASE TestsEnd(j)
  <2>1. Runs(j, "test") /\ {"pass", "fail", "not_run"} \subseteq Verdicts
    BY <1>6 DEF TestsEnd, Verdicts
  <2>2. CASE TestsSkipped(j)
    <3> DEFINE v == IF job[j].passed THEN "pass" ELSE "not_run"
    <3>1. v \in Verdicts /\ Conclude(j, v)
      BY <1>6, <2>1, <2>2 DEF TestsEnd
    <3>2. Grounded(j, v)
      BY <2>1, <2>2 DEF Grounded, Runs
    <3> HIDE DEF v
    <3> QED
      BY <2>1, <3>1, <3>2, ConcludeAnswers DEF Runs
  <2>3. CASE ~TestsSkipped(j)
    <3> DEFINE v == TestVerdict(CopyOf(j), Touched(j))
    <3>1. v \in Verdicts
      BY <2>1, TestVerdicts
    <3>2. Conclude(j, v)
      BY <1>6, <2>3 DEF TestsEnd
    <3>3. Grounded(j, v)
      BY <2>1, <2>3 DEF Grounded, Runs
    <3> HIDE DEF v
    <3> QED
      BY <2>1, <3>1, <3>2, <3>3, ConcludeAnswers DEF Runs
  <2> QED
    BY <2>2, <2>3
<1> QED
  BY <1>1, <1>2, <1>3, <1>4, <1>5, <1>6 DEF VerifyStep, Verdicts


-----------------------------------------------------------------------------
(***************************************************************************)
(* The memo.                                                               *)
(***************************************************************************)
LEMMA TailOfMemo ==
    ASSUME NEW s \in Seq(Entry), s # <<>>
    PROVE  /\ Tail(s) \in Seq(Entry) /\ Len(Tail(s)) = Len(s) - 1
           /\ \A i \in DOMAIN Tail(s) : i + 1 \in DOMAIN s /\ Tail(s)[i] = s[i + 1]
  OBVIOUS

\* The memo of a process never holds more than its size, and a new entry is the
\* only one to come.
LEMMA MemoPutEntries ==
    ASSUME Types, NEW p \in Process, NEW key \in Keys \cup {NoTree}, NEW v \in Verdicts,
           MemoPut(p, key, v), key # NoTree, v # "unavailable"
    PROVE  /\ memo' \in [Process -> Seq(Entry)]
           /\ \A q \in Process : Len(memo'[q]) <= MemoSize
           /\ \A q \in Process : Entries(q)' \subseteq Entries(q) \cup {[key |-> key, verdict |-> v]}
           /\ \A q \in Process \ {p} : Entries(q)' = Entries(q)
<1> DEFINE e == [key |-> key, verdict |-> v]
           m == IF Len(memo[p]) >= MemoSize THEN Tail(memo[p]) ELSE memo[p]
<1>1. e \in Entry /\ memo \in [Process -> Seq(Entry)] /\ memo[p] \in Seq(Entry)
  BY DEF Entry, Types
<1>2. Len(memo[p]) <= MemoSize /\ MemoSize \in Nat \ {0} /\ Len(memo[p]) \in Nat
  BY <1>1, VerificationAssumption DEF Types, TypeOK
<1>3. memo' = [memo EXCEPT ![p] = Append(m, e)]
  BY DEF MemoPut, Keeps
<1>4. /\ m \in Seq(Entry) /\ Len(m) < MemoSize
      /\ \A i \in DOMAIN m : m[i] \in Entries(p)
  <2>1. CASE Len(memo[p]) >= MemoSize
    <3>1. memo[p] # <<>>
      BY <1>1, <1>2, <2>1
    <3> QED
      BY <1>1, <1>2, <2>1, <3>1, TailOfMemo DEF Entries
  <2>2. CASE Len(memo[p]) < MemoSize
    BY <1>1, <1>2, <2>2 DEF Entries
  <2>3. Len(memo[p]) >= MemoSize \/ Len(memo[p]) < MemoSize
    BY <1>2
  <2> QED
    BY <2>1, <2>2, <2>3
<1> HIDE DEF m, e
<1>5. /\ Append(m, e) \in Seq(Entry) /\ Len(Append(m, e)) <= MemoSize
      /\ \A i \in DOMAIN Append(m, e) : Append(m, e)[i] \in Entries(p) \cup {e}
  BY <1>1, <1>2, <1>4
<1>6. memo' \in [Process -> Seq(Entry)] /\ \A q \in Process : Len(memo'[q]) <= MemoSize
  BY <1>1, <1>3, <1>5 DEF Types, TypeOK
<1>7. Entries(p)' \subseteq Entries(p) \cup {e}
  BY <1>1, <1>3, <1>5 DEF Entries
<1>8. \A q \in Process \ {p} : Entries(q)' = Entries(q)
  BY <1>1, <1>3 DEF Entries
<1> QED
  BY <1>6, <1>7, <1>8 DEF e

\* The memo after an answer.
LEMMA MemoAfterAnswer ==
    ASSUME Types, NEW j \in Job, NEW v \in Verdicts, Answers(j, v)
    PROVE  /\ memo' \in [Process -> Seq(Entry)]
           /\ \A q \in Process : Len(memo'[q]) <= MemoSize
           /\ \A q \in Process : Entries(q)' \subseteq [key : Keys, verdict : Verdicts]
           /\ memo' # memo => /\ job[j].key # NoTree /\ job[j].stage \in {"check", "test"}
                              /\ v # "unavailable"
           /\ \A q \in Process : Entries(q)' \subseteq Entries(q)
                \/ Entries(q)' \subseteq Entries(q) \cup {[key |-> job[j].key, verdict |-> v]}
<1>1. ProcessOf[j] \in Process /\ job[j].key \in Keys \cup {NoTree}
  BY DEF Process, Types, TypeOK
<1>2. \A q \in Process : Entries(q) \subseteq [key : Keys, verdict : Verdicts]
  BY DEF Types, TypeOK
<1>3. CASE memo' = memo
  BY <1>2, <1>3 DEF Types, TypeOK, Entries
<1>4. CASE memo' # memo
  <2>1. /\ job[j].key # NoTree /\ v # "unavailable" /\ job[j].stage \in {"check", "test"}
        /\ MemoPut(ProcessOf[j], job[j].key, v)
    BY <1>4 DEF Answers
  <2>2. [key |-> job[j].key, verdict |-> v] \in [key : Keys, verdict : Verdicts]
    BY <1>1, <2>1
  <2> QED
    BY <1>1, <1>2, <2>1, <2>2, MemoPutEntries
<1> QED
  BY <1>3, <1>4


-----------------------------------------------------------------------------
(***************************************************************************)
(* Types.                                                                  *)
(***************************************************************************)
JobRecord == [diff : Diffs, stage : Stages, original : BOOLEAN,
           cached : BOOLEAN, key : Keys \cup {NoTree}, passed : BOOLEAN]

\* The updates of a record of a verification.
LEMMA StageRecord ==
    ASSUME job \in [Job -> JobRecord], NEW j \in Job, NEW st \in Stages
    PROVE  [job EXCEPT ![j].stage = st] \in [Job -> JobRecord]
<1> DEFINE r == [job[j] EXCEPT !.stage = st]
<1>1. job[j] \in JobRecord
  OBVIOUS
<1>2. r \in JobRecord
  BY <1>1 DEF JobRecord
<1>3. [job EXCEPT ![j].stage = st] = [job EXCEPT ![j] = r]
  OBVIOUS
<1> HIDE DEF r
<1> QED
  BY <1>2, <1>3

LEMMA LockRecord ==
    ASSUME job \in [Job -> JobRecord], NEW j \in Job, NEW st \in Stages
    PROVE  [job EXCEPT ![j].stage = st, ![j].cached = TRUE] \in [Job -> JobRecord]
<1> DEFINE r == [job[j] EXCEPT !.stage = st, !.cached = TRUE]
<1>1. job[j] \in JobRecord
  OBVIOUS
<1>2. r \in JobRecord
  BY <1>1 DEF JobRecord
<1>3. [job EXCEPT ![j].stage = st, ![j].cached = TRUE] = [job EXCEPT ![j] = r]
  OBVIOUS
<1> HIDE DEF r
<1> QED
  BY <1>2, <1>3

LEMMA KeyRecord ==
    ASSUME job \in [Job -> JobRecord], NEW j \in Job, NEW st \in Stages, NEW k \in Keys \cup {NoTree}
    PROVE  [job EXCEPT ![j].stage = st, ![j].key = k] \in [Job -> JobRecord]
<1> DEFINE r == [job[j] EXCEPT !.stage = st, !.key = k]
<1>1. job[j] \in JobRecord
  OBVIOUS
<1>2. r \in JobRecord
  BY <1>1 DEF JobRecord
<1>3. [job EXCEPT ![j].stage = st, ![j].key = k] = [job EXCEPT ![j] = r]
  OBVIOUS
<1> HIDE DEF r
<1> QED
  BY <1>2, <1>3

LEMMA PassRecord ==
    ASSUME job \in [Job -> JobRecord], NEW j \in Job, NEW st \in Stages, NEW p \in BOOLEAN
    PROVE  [job EXCEPT ![j].stage = st, ![j].passed = p] \in [Job -> JobRecord]
<1> DEFINE r == [job[j] EXCEPT !.stage = st, !.passed = p]
<1>1. job[j] \in JobRecord
  OBVIOUS
<1>2. r \in JobRecord
  BY <1>1 DEF JobRecord
<1>3. [job EXCEPT ![j].stage = st, ![j].passed = p] = [job EXCEPT ![j] = r]
  OBVIOUS
<1> HIDE DEF r
<1> QED
  BY <1>2, <1>3

LEMMA AnswerRecord ==
    ASSUME job \in [Job -> JobRecord], NEW j \in Job, NEW st \in Stages, NEW o \in BOOLEAN
    PROVE  [job EXCEPT ![j].stage = st, ![j].original = o, ![j].cached = FALSE,
                   ![j].key = NoTree, ![j].passed = FALSE] \in [Job -> JobRecord]
<1> DEFINE r == [job[j] EXCEPT !.stage = st, !.original = o, !.cached = FALSE, !.key = NoTree, !.passed = FALSE]
<1>1. job[j] \in JobRecord
  OBVIOUS
<1>2. r \in JobRecord
  BY <1>1 DEF JobRecord
<1>3. [job EXCEPT ![j].stage = st, ![j].original = o, ![j].cached = FALSE,
                   ![j].key = NoTree, ![j].passed = FALSE] = [job EXCEPT ![j] = r]
  OBVIOUS
<1> HIDE DEF r
<1> QED
  BY <1>2, <1>3

LEMMA CopyTypes ==
    ASSUME Types, NEW j \in Job
    PROVE  /\ job[j].diff \in Diffs
           /\ TreeOf(j) \in Trees /\ CopyOf(j) \in Trees \cup {NoTree}
           /\ KeyOf(j) \in Keys \cup {NoTree}
<1>1. job[j].diff \in Diffs
  BY DEF Types, TypeOK
<1>2. Rewrites(j) \subseteq Package /\ Touched(j) \subseteq Package
  BY <1>1 DEF Rewrites, Touched, Diffs
<1>3. TreeOf(j) \in Trees
  BY <1>1, <1>2 DEF TreeOf, Trees, Diffs
<1>4. CopyOf(j) \in Trees \cup {NoTree}
  BY DEF CopyOf, Types, TypeOK
<1>5. KeyOf(j) \in Keys \cup {NoTree}
  BY <1>2, <1>4 DEF KeyOf, Keys
<1> QED
  BY <1>1, <1>3, <1>4, <1>5

\* What an answer does to the record, the copy, the verdict and the lock of the
\* verification, and to nothing else.
LEMMA AnswerEffect ==
    ASSUME Types, NEW j \in Job, NEW v \in Verdicts, Answers(j, v)
    PROVE  /\ job' \in [Job -> JobRecord] /\ own' \in [Job -> Trees \cup {NoTree}]
           /\ verdict' \in [Job -> Verdicts \cup {"none"}]
           /\ \A k \in Job \ {j} : job'[k] = job[k] /\ own'[k] = own[k] /\ verdict'[k] = verdict[k]
           /\ job'[j].diff = job[j].diff /\ ~job'[j].cached
           /\ job'[j].stage = IF AgainWithOriginals(j, v) THEN "lock" ELSE "ended"
           /\ verdict'[j] \in {verdict[j], v, "unavailable"}
           /\ verdict'[j] = v /\ v = "pass" => verdict[j] = "pass" \/ ~AgainWithOriginals(j, v)
           /\ lock' = IF job[j].cached THEN NoLock ELSE lock
<1>1. job \in [Job -> JobRecord]
  BY DEF Types, TypeOK, JobRecord
<1>2. own \in [Job -> Trees \cup {NoTree}] /\ verdict \in [Job -> Verdicts \cup {"none"}]
  BY DEF Types, TypeOK
<1> DEFINE again == AgainWithOriginals(j, v)
           final == IF ~job[j].original \/ v \in {"pass", "error"} THEN v ELSE "unavailable"
<1>3. /\ job' = [job EXCEPT ![j].stage = IF again THEN "lock" ELSE "ended",
                            ![j].original = again,
                            ![j].cached = FALSE, ![j].key = NoTree,
                            ![j].passed = FALSE]
      /\ verdict' = IF again THEN verdict ELSE [verdict EXCEPT ![j] = final]
      /\ own' = [own EXCEPT ![j] = NoTree]
      /\ Release(j)
  BY DEF Answers, Answer
<1>4. again \in BOOLEAN
  BY DEF AgainWithOriginals
<1>5. final \in {v, "unavailable"} /\ final \in Verdicts
  BY DEF Verdicts
<1>6. job' \in [Job -> JobRecord]
  <2>1. {"lock", "ended"} \subseteq Stages
    BY DEF Stages
  <2> QED
    BY <1>1, <1>3, <1>4, <2>1, AnswerRecord
<1>7. own' \in [Job -> Trees \cup {NoTree}]
  BY <1>2, <1>3
<1>8. verdict' \in [Job -> Verdicts \cup {"none"}] /\ verdict'[j] \in {verdict[j], v, "unavailable"}
  BY <1>2, <1>3, <1>5
<1>9. \A k \in Job \ {j} : job'[k] = job[k] /\ own'[k] = own[k] /\ verdict'[k] = verdict[k]
  BY <1>1, <1>2, <1>3
<1>10. /\ job'[j].diff = job[j].diff /\ ~job'[j].cached
       /\ job'[j].stage = IF again THEN "lock" ELSE "ended"
  BY <1>1, <1>3, <1>4 DEF JobRecord
<1>11. verdict'[j] = v /\ v = "pass" => verdict[j] = "pass" \/ ~again
  BY <1>3
<1> QED
  BY <1>3, <1>6, <1>7, <1>8, <1>9, <1>10, <1>11 DEF Release

LEMMA TypesStep ==
    ASSUME Types, NEW j \in Job, VerifyStep(j)
    PROVE  Types'
<1>1. /\ job \in [Job -> JobRecord] /\ verdict \in [Job -> Verdicts \cup {"none"}]
      /\ alive \subseteq Process /\ lock \in [owner : Job \cup {NoJob}, stale : BOOLEAN]
      /\ shared \in Trees \cup {NoTree} /\ own \in [Job -> Trees \cup {NoTree}]
      /\ takenOver \in BOOLEAN /\ disturbed \in BOOLEAN
  BY DEF Types, TypeOK, JobRecord
<1>2. TypeOK
  BY DEF Types
<1>3. TreeOf(j) \in Trees /\ KeyOf(j) \in Keys \cup {NoTree}
  BY CopyTypes
<1>4. NoLock \in [owner : Job \cup {NoJob}, stale : BOOLEAN]
  BY DEF NoLock
<1>5. \A p \in Process : /\ Len(memo[p]) <= MemoSize
                         /\ Entries(p) \subseteq [key : Keys, verdict : Verdicts]
  BY <1>2 DEF TypeOK
<1>9. {"lock", "remove", "reopen", "copy", "memo", "check", "test", "ended"} \subseteq Stages
  BY DEF Stages
<1>6. CASE memo' = memo
  <2>1. /\ memo' \in [Process -> Seq(Entry)]
        /\ \A p \in Process : /\ Len(memo'[p]) <= MemoSize
                              /\ Entries(p)' \subseteq [key : Keys, verdict : Verdicts]
    BY <1>5, <1>6 DEF Types, Entries
  <2>2. CASE StaticChecks(j)
    <3>1. job' \in [Job -> JobRecord]
      BY <1>1, <1>9, <2>2, StageRecord DEF StaticChecks, Goto
    <3>2. verdict' \in [Job -> Verdicts \cup {"none"}]
      BY <1>1, <2>2 DEF StaticChecks, Verdicts
    <3> QED
      BY <1>1, <2>1, <2>2, <3>1, <3>2 DEF StaticChecks, Types, TypeOK, JobRecord
  <2>3. CASE TakesLock(j)
    <3>1. [owner |-> j, stale |-> FALSE] \in [owner : Job \cup {NoJob}, stale : BOOLEAN]
      OBVIOUS
    <3>2. job' \in [Job -> JobRecord] /\ lock' \in [owner : Job \cup {NoJob}, stale : BOOLEAN]
      <4>1. CASE lock = NoLock
        <5>1. /\ job' = [job EXCEPT ![j].stage = "copy", ![j].cached = TRUE]
              /\ lock' = [owner |-> j, stale |-> FALSE]
          BY <2>3, <4>1 DEF TakesLock
        <5> QED
          BY <1>1, <1>9, <3>1, <5>1, LockRecord
      <4>2. CASE lock # NoLock
        <5>1. /\ \E st \in {"remove", "copy"} : job' = [job EXCEPT ![j].stage = st]
              /\ lock' = lock
          BY <2>3, <4>2 DEF TakesLock
        <5> QED
          BY <1>1, <1>9, <5>1, StageRecord
      <4> QED
        BY <4>1, <4>2
    <3> QED
      BY <1>1, <2>1, <2>3, <3>2 DEF TakesLock, Types, TypeOK, JobRecord
  <2>4. CASE RemoveLock(j)
    <3>1. job' \in [Job -> JobRecord]
      BY <1>1, <1>9, <2>4, StageRecord DEF RemoveLock, Goto
    <3>2. takenOver' \in BOOLEAN
      BY <1>1, <2>4 DEF RemoveLock
    <3> QED
      BY <1>1, <1>4, <2>1, <2>4, <3>1, <3>2 DEF RemoveLock, Types, TypeOK, JobRecord
  <2>5. CASE Patch(j)
    <3>1. job' \in [Job -> JobRecord]
      BY <1>1, <1>9, <2>5, StageRecord DEF Patch, Goto
    <3>2. shared' \in Trees \cup {NoTree} /\ own' \in [Job -> Trees \cup {NoTree}]
      BY <1>1, <1>3, <2>5 DEF Patch
    <3>3. disturbed' \in BOOLEAN
      BY <1>1, <2>5 DEF Patch
    <3> QED
      BY <1>1, <2>1, <2>5, <3>1, <3>2, <3>3 DEF Patch, Types, TypeOK, JobRecord
  <2>6. CASE Misses(j)
    <3>1. job' \in [Job -> JobRecord]
      BY <1>1, <1>3, <1>9, <2>6, KeyRecord DEF Misses
    <3> QED
      BY <1>1, <2>1, <2>6, <3>1 DEF Misses, Types, TypeOK, JobRecord
  <2>7. CASE ChecksPass(j)
    <3>1. (CopyOf(j) # NoTree) \in BOOLEAN
      OBVIOUS
    <3>2. job' = [job EXCEPT ![j].stage = "test", ![j].passed = CopyOf(j) # NoTree]
      BY <2>7 DEF ChecksPass
    <3>3. job' \in [Job -> JobRecord]
      BY <1>1, <1>9, <3>1, <3>2, PassRecord
    <3> QED
      BY <1>1, <2>1, <2>7, <3>3 DEF ChecksPass, Types, TypeOK, JobRecord
  <2>8. ASSUME NEW v \in Verdicts, Answers(j, v)
        PROVE  Types'
    BY <1>1, <1>4, <2>1, <2>8, AnswerEffect DEF Answers, Types, TypeOK, JobRecord
  <2> QED
    BY <1>2, <2>2, <2>3, <2>4, <2>5, <2>6, <2>7, <2>8, VerifyCases
<1>7. ASSUME NEW v \in Verdicts, Answers(j, v)
      PROVE  Types'
  <2>1. /\ memo' \in [Process -> Seq(Entry)]
        /\ \A p \in Process : /\ Len(memo'[p]) <= MemoSize
                              /\ Entries(p)' \subseteq [key : Keys, verdict : Verdicts]
    BY <1>7, MemoAfterAnswer
  <2> QED
    BY <1>1, <1>4, <1>7, <2>1, AnswerEffect DEF Answers, Types, TypeOK, JobRecord
<1>8. memo' = memo \/ \E v \in Verdicts : Answers(j, v)
  BY <1>2, VerifyCases DEF StaticChecks, TakesLock, RemoveLock, Patch, Misses, ChecksPass
<1> QED
  BY <1>6, <1>7, <1>8


-----------------------------------------------------------------------------
(***************************************************************************)
(* The fields of the records after a step.                                 *)
(***************************************************************************)
Others(j) == \A k \in Job \ {j} :
    job'[k] = job[k] /\ own'[k] = own[k] /\ verdict'[k] = verdict[k]

Same(j) == job'[j].diff = job[j].diff /\ job'[j].original = job[j].original

LEMMA StaticEffect ==
    ASSUME Types, NEW j \in Job, StaticChecks(j)
    PROVE  /\ Others(j) /\ Same(j) /\ job'[j].cached = job[j].cached
           /\ job'[j].stage \in {"lock", "ended"} /\ own'[j] = own[j]
           /\ job'[j].stage = "lock" => ~job[j].diff.manifest
           /\ verdict'[j] # "pass" \/ verdict'[j] = verdict[j]
<1>1. job \in [Job -> JobRecord] /\ verdict \in [Job -> Verdicts \cup {"none"}]
  BY DEF Types, TypeOK, JobRecord
<1>2. job[j] \in JobRecord
  BY <1>1
<1>3. \/ job' = [job EXCEPT ![j].stage = "lock"] /\ verdict' = verdict /\ ~job[j].diff.manifest
      \/ /\ job' = [job EXCEPT ![j].stage = "ended"]
         /\ \E v \in {"fail", "unavailable"} : verdict' = [verdict EXCEPT ![j] = v]
  BY DEF StaticChecks, Goto, MayExecute
<1>4. own' = own
  BY DEF StaticChecks
<1>5. CASE job' = [job EXCEPT ![j].stage = "lock"] /\ verdict' = verdict /\ ~job[j].diff.manifest
  BY <1>1, <1>2, <1>4, <1>5 DEF JobRecord, Others, Same
<1>6. CASE /\ job' = [job EXCEPT ![j].stage = "ended"]
           /\ \E v \in {"fail", "unavailable"} : verdict' = [verdict EXCEPT ![j] = v]
  BY <1>1, <1>2, <1>4, <1>6 DEF JobRecord, Others, Same
<1> QED
  BY <1>3, <1>5, <1>6

LEMMA LockEffect ==
    ASSUME Types, NEW j \in Job, TakesLock(j)
    PROVE  /\ Others(j) /\ Same(j) /\ own' = own /\ verdict' = verdict
           /\ \/ /\ lock = NoLock /\ lock' = [owner |-> j, stale |-> FALSE]
                 /\ job'[j].cached /\ job'[j].stage = "copy"
              \/ /\ lock # NoLock /\ lock' = lock
                 /\ job'[j].cached = job[j].cached /\ job'[j].stage \in {"remove", "copy"}
<1>1. job \in [Job -> JobRecord] /\ job[j] \in JobRecord
  BY DEF Types, TypeOK, JobRecord
<1>2. CASE lock = NoLock
  BY <1>1, <1>2 DEF TakesLock, JobRecord, Others, Same
<1>3. CASE lock # NoLock
  BY <1>1, <1>3 DEF TakesLock, JobRecord, Others, Same
<1> QED
  BY <1>2, <1>3

LEMMA RemoveEffect ==
    ASSUME Types, NEW j \in Job, RemoveLock(j)
    PROVE  /\ Others(j) /\ Same(j) /\ own' = own /\ verdict' = verdict
           /\ job'[j].cached = job[j].cached /\ job'[j].stage \in {"copy", "reopen"}
<1>1. job \in [Job -> JobRecord] /\ job[j] \in JobRecord
  BY DEF Types, TypeOK, JobRecord
<1> QED
  BY <1>1 DEF RemoveLock, Goto, JobRecord, Others, Same

LEMMA PatchEffect ==
    ASSUME Types, NEW j \in Job, Patch(j)
    PROVE  /\ Others(j) /\ Same(j) /\ verdict' = verdict
           /\ job'[j].cached = job[j].cached /\ job'[j].stage = "memo"
           /\ IF job[j].cached THEN shared' = TreeOf(j) /\ own' = own
                               ELSE own'[j] = TreeOf(j) /\ shared' = shared
<1>1. job \in [Job -> JobRecord] /\ job[j] \in JobRecord /\ own \in [Job -> Trees \cup {NoTree}]
  BY DEF Types, TypeOK, JobRecord
<1> QED
  BY <1>1 DEF Patch, Goto, JobRecord, Others, Same

LEMMA MissEffect ==
    ASSUME Types, NEW j \in Job, Misses(j)
    PROVE  /\ Others(j) /\ Same(j) /\ own' = own /\ verdict' = verdict
           /\ job'[j].cached = job[j].cached /\ job'[j].stage = "check"
           /\ job'[j].key = KeyOf(j)
<1>1. job \in [Job -> JobRecord] /\ job[j] \in JobRecord
  BY DEF Types, TypeOK, JobRecord
<1> QED
  BY <1>1 DEF Misses, JobRecord, Others, Same

LEMMA PassEffect ==
    ASSUME Types, NEW j \in Job, ChecksPass(j)
    PROVE  /\ Others(j) /\ Same(j) /\ own' = own /\ verdict' = verdict
           /\ job'[j].cached = job[j].cached /\ job'[j].stage = "test"
           /\ job'[j].key = job[j].key
           /\ CopyOf(j) # NoTree => job'[j].passed
<1>1. job \in [Job -> JobRecord] /\ job[j] \in JobRecord
  BY DEF Types, TypeOK, JobRecord
<1>2. job' = [job EXCEPT ![j].stage = "test", ![j].passed = CopyOf(j) # NoTree]
  BY DEF ChecksPass
<1>3. job'[j].passed = (CopyOf(j) # NoTree)
  BY <1>1, <1>2 DEF JobRecord
<1> QED
  BY <1>1, <1>2, <1>3 DEF ChecksPass, JobRecord, Others, Same

-----------------------------------------------------------------------------
(***************************************************************************)
(* The records.                                                            *)
(***************************************************************************)
LEMMA JobsStep ==
    ASSUME Types, JobsInv, NEW j \in Job, VerifyStep(j)
    PROVE  JobsInv'
<1> DEFINE Good(k) ==
        /\ job[k].cached => job[k].stage \in {"copy", "memo", "check", "test"}
        /\ job[k].stage \notin {"static", "ended"} => ~job[k].diff.manifest
        /\ ~job[k].cached /\ job[k].stage \in {"memo", "check", "test"} => own[k] = TreeOf(k)
<1>1. Good(j)
  BY DEF JobsInv
<1>2. ASSUME Others(j), Good(j)'
      PROVE  JobsInv'
  <2>1. \A k \in Job \ {j} : Good(k)'
    BY <1>2 DEF JobsInv, Others, TreeOf, Rewrites
  <2> QED
    BY <1>2, <2>1 DEF JobsInv
<1>3. CASE StaticChecks(j)
  <2>1. ~job[j].cached
    BY <1>1, <1>3 DEF StaticChecks, Runs
  <2> QED
    BY <1>2, <1>3, <2>1, StaticEffect DEF Same
<1>4. CASE TakesLock(j)
  BY <1>1, <1>2, <1>4, LockEffect DEF TakesLock, Same
<1>5. CASE RemoveLock(j)
  BY <1>1, <1>2, <1>5, RemoveEffect DEF RemoveLock, Runs, Same
<1>6. CASE Patch(j)
  BY <1>1, <1>2, <1>6, PatchEffect DEF Patch, Runs, Same, TreeOf, Rewrites
<1>7. CASE Misses(j)
  BY <1>1, <1>2, <1>7, MissEffect DEF Misses, Runs, Same, TreeOf, Rewrites
<1>8. CASE ChecksPass(j)
  BY <1>1, <1>2, <1>8, PassEffect DEF ChecksPass, Runs, Same, TreeOf, Rewrites
<1>9. ASSUME NEW v \in Verdicts, Answers(j, v)
      PROVE  JobsInv'
  <2>1. job[j].stage \in {"copy", "memo", "check", "test"}
    BY <1>9 DEF Answers
  <2>2. Others(j) /\ job'[j].diff = job[j].diff /\ ~job'[j].cached
        /\ job'[j].stage \in {"lock", "ended"}
    BY <1>9, AnswerEffect DEF Others
  <2> QED
    BY <1>1, <1>2, <2>1, <2>2
<1> QED
  BY <1>3, <1>4, <1>5, <1>6, <1>7, <1>8, <1>9, VerifyCases DEF Types


-----------------------------------------------------------------------------
(***************************************************************************)
(* The lock file.                                                          *)
(***************************************************************************)
LEMMA HolderStep ==
    ASSUME Types, JobsInv, HolderInv, NEW j \in Job, VerifyStep(j)
    PROVE  HolderInv'
<1>1. NoJob \notin Job /\ NoLock.owner = NoJob /\ alive' = alive /\ pruner' = pruner
  <2>1. alive' = alive /\ pruner' = pruner
    BY VerifyCases DEF Types, StaticChecks, TakesLock, RemoveLock, Patch, Misses, ChecksPass,
                       Answers
  <2> QED
    BY <2>1, VerificationAssumption DEF NoLock
<1>2. ASSUME lock' = lock, takenOver' = takenOver, disturbed' = disturbed,
             Others(j), job'[j].cached = job[j].cached
      PROVE  HolderInv'
  <2>1. \A k \in Job : job'[k].cached = job[k].cached
    BY <1>2 DEF Others
  <2> QED
    BY <1>1, <1>2, <2>1 DEF HolderInv, LockProtects
<1>3. CASE StaticChecks(j) \/ Misses(j) \/ ChecksPass(j)
  BY <1>2, <1>3, StaticEffect, MissEffect, PassEffect
  DEF StaticChecks, Misses, ChecksPass
<1>4. CASE TakesLock(j)
  <2>1. takenOver' = takenOver /\ disturbed' = disturbed
    BY <1>4 DEF TakesLock
  <2>2. CASE lock = NoLock
    <3>1. lock' = [owner |-> j, stale |-> FALSE] /\ job'[j].cached /\ Others(j)
      BY <1>4, <2>2, LockEffect
    <3>2. ~takenOver => \A k \in Job : ~job[k].cached
      BY <1>1, <2>2 DEF HolderInv
    <3> QED
      BY <1>1, <2>1, <3>1, <3>2 DEF HolderInv, LockProtects, Others
  <2>3. CASE lock # NoLock
    BY <1>2, <1>4, <2>1, <2>3, LockEffect
  <2> QED
    BY <2>2, <2>3
<1>5. CASE RemoveLock(j)
  <2>1. /\ lock' = NoLock /\ takenOver' = (takenOver \/ lock # NoLock) /\ disturbed' = disturbed
        /\ Others(j) /\ job'[j].cached = job[j].cached
    BY <1>5, RemoveEffect DEF RemoveLock
  <2>2. ~takenOver' => \A k \in Job : ~job[k].cached
    BY <1>1, <2>1 DEF HolderInv
  <2>3. \A k \in Job : job'[k].cached = job[k].cached
    BY <2>1 DEF Others
  <2> QED
    BY <1>1, <2>1, <2>2, <2>3 DEF HolderInv, LockProtects
<1>6. CASE Patch(j)
  <2>1. /\ lock' = lock /\ takenOver' = takenOver
        /\ disturbed' = (disturbed \/ (job[j].cached /\ \E k \in Job \ {j} : Using(k)))
        /\ Others(j) /\ job'[j].cached = job[j].cached
    BY <1>6, PatchEffect DEF Patch
  <2>2. ~takenOver /\ job[j].cached => \A k \in Job \ {j} : ~Using(k)
    BY DEF HolderInv, Using
  <2>3. LockProtects'
    BY <1>1, <2>1, <2>2 DEF HolderInv, LockProtects
  <2>4. \A k \in Job : job'[k].cached = job[k].cached
    BY <2>1 DEF Others
  <2> QED
    BY <1>1, <2>1, <2>3, <2>4 DEF HolderInv
<1>7. ASSUME NEW v \in Verdicts, Answers(j, v)
      PROVE  HolderInv'
  <2>1. /\ takenOver' = takenOver /\ disturbed' = disturbed /\ ProcessOf[j] \in alive
        /\ lock' = IF job[j].cached THEN NoLock ELSE lock
        /\ Others(j) /\ ~job'[j].cached
    BY <1>7, AnswerEffect DEF Answers, Others
  <2>2. LockProtects'
    BY <1>1, <2>1 DEF HolderInv, LockProtects
  <2>3. ~takenOver => \A k \in Job : job'[k].cached => lock'.owner = k
    BY <2>1 DEF HolderInv, Others
  <2>4. lock' # NoLock => /\ lock'.owner \in Job /\ lock'.owner # j
                          /\ ProcessOf[lock'.owner] \notin alive \/ job[lock'.owner].cached
    BY <2>1 DEF HolderInv
  <2> QED
    BY <1>1, <2>1, <2>2, <2>3, <2>4 DEF HolderInv, Others
<1> QED
  BY <1>3, <1>4, <1>5, <1>6, <1>7, VerifyCases DEF Types

-----------------------------------------------------------------------------
(***************************************************************************)
(* The copies.                                                             *)
(***************************************************************************)

\* Undisturbed, a verification finds what it patched.
LEMMA CopyFits ==
    ASSUME Types, JobsInv, CopyInv, ~disturbed, NEW j \in Job, ProcessOf[j] \in alive,
           job[j].stage \in {"memo", "check", "test"}
    PROVE  CopyOf(j) = TreeOf(j) /\ CopyOf(j) # NoTree
<1>1. TreeOf(j) \in Trees /\ NoTree \notin Trees
  BY CopyTypes, VerificationAssumption
<1>2. CASE job[j].cached
  BY <1>1, <1>2 DEF CopyInv, Using, CopyOf
<1>3. CASE ~job[j].cached
  BY <1>1, <1>3 DEF JobsInv, CopyOf
<1> QED
  BY <1>2, <1>3

LEMMA CopyStep ==
    ASSUME Types, JobsInv, CopyInv, NEW j \in Job, VerifyStep(j)
    PROVE  CopyInv'
<1> DEFINE Fits(k) ==
        /\ Using(k) => shared = TreeOf(k)
        /\ ProcessOf[k] \in alive /\ job[k].stage \in {"check", "test"} => job[k].key = KeyFor(k)
        /\ ProcessOf[k] \in alive /\ job[k].stage = "test"
             => job[k].passed /\ job[k].diff.builds
<1>1. alive' = alive /\ (disturbed => disturbed') /\ ProcessOf[j] \in alive
  BY VerifyCases DEF Types, StaticChecks, TakesLock, RemoveLock, Patch, Misses, ChecksPass,
                     Answers, Runs
<1> SUFFICES ASSUME ~disturbed', ~disturbed
             PROVE  \A k \in Job : Fits(k)'
  BY <1>1 DEF CopyInv
<1>2. \A k \in Job : Fits(k)
  BY DEF CopyInv
<1>3. Others(j)
  BY VerifyCases, StaticEffect, LockEffect, RemoveEffect, PatchEffect, MissEffect, PassEffect,
     AnswerEffect DEF Types, Others
<1>4. ASSUME NEW k \in Job \ {j}
      PROVE  Fits(k)'
  <2>1. /\ job'[k] = job[k] /\ (Using(k)' <=> Using(k))
        /\ TreeOf(k)' = TreeOf(k) /\ KeyFor(k)' = KeyFor(k)
    BY <1>1, <1>3 DEF Others, TreeOf, Rewrites, Touched, KeyFor, Using
  <2>2. Using(k) => shared' = shared
    <3>1. CASE Patch(j)
      BY <3>1, PatchEffect DEF Patch
    <3>2. CASE ~Patch(j)
      BY <3>2, VerifyCases DEF Types, StaticChecks, TakesLock, RemoveLock, Misses, ChecksPass,
                               Answers
    <3> QED
      BY <3>1, <3>2
  <2> QED
    BY <1>1, <1>2, <2>1, <2>2
<1>5. Fits(j)'
  <2>1. CASE StaticChecks(j)
    BY <2>1, StaticEffect DEF Using
  <2>2. CASE TakesLock(j)
    BY <2>2, LockEffect DEF Using
  <2>3. CASE RemoveLock(j)
    BY <2>3, RemoveEffect DEF Using
  <2>4. CASE Patch(j)
    BY <2>4, PatchEffect DEF Using, Same, TreeOf, Rewrites
  <2>5. CASE Misses(j)
    <3>1. CopyOf(j) = TreeOf(j) /\ CopyOf(j) # NoTree /\ shared' = shared
      BY <2>5, CopyFits DEF Misses, Runs
    <3>2. Using(j)' => Using(j)
      BY <1>1, <2>5, MissEffect DEF Using, Misses, Runs
    <3>3. KeyOf(j) = KeyFor(j)
      BY <3>1 DEF KeyOf, KeyFor
    <3>4. TreeOf(j)' = TreeOf(j) /\ KeyFor(j)' = KeyFor(j)
      BY <2>5, MissEffect DEF Same, TreeOf, Rewrites, Touched, KeyFor
    <3> QED
      BY <1>2, <2>5, <3>1, <3>2, <3>3, <3>4, MissEffect
  <2>6. CASE ChecksPass(j)
    <3>1. CopyOf(j) = TreeOf(j) /\ CopyOf(j) # NoTree /\ shared' = shared
      BY <2>6, CopyFits DEF ChecksPass, Runs
    <3>2. Using(j)' => Using(j)
      BY <1>1, <2>6, PassEffect DEF Using, ChecksPass, Runs
    <3>3. job[j].key = KeyFor(j)
      BY <1>2, <2>6 DEF ChecksPass, Runs
    <3>4. job[j].diff.builds
      BY <2>6, <3>1 DEF ChecksPass, TreeOf
    <3>5. TreeOf(j)' = TreeOf(j) /\ KeyFor(j)' = KeyFor(j)
      BY <2>6, PassEffect DEF Same, TreeOf, Rewrites, Touched, KeyFor
    <3> QED
      BY <1>2, <2>6, <3>1, <3>2, <3>3, <3>4, <3>5, PassEffect DEF Same
  <2>7. ASSUME NEW v \in Verdicts, Answers(j, v)
        PROVE  Fits(j)'
    BY <2>7, AnswerEffect DEF Using
  <2> QED
    BY <2>1, <2>2, <2>3, <2>4, <2>5, <2>6, <2>7, VerifyCases DEF Types
<1> QED
  BY <1>4, <1>5

-----------------------------------------------------------------------------
(***************************************************************************)
(* The verdicts.                                                           *)
(***************************************************************************)

\* An answer, undisturbed, is a true one.
LEMMA GroundedTruth ==
    ASSUME Types, JobsInv, CopyInv, VerdictInv, ~disturbed, NEW j \in Job, NEW v \in Verdicts,
           Answers(j, v), Grounded(j, v)
    PROVE  /\ v = "pass" => Truth(KeyFor(j)) = "pass"
           /\ memo' # memo => v = Truth(KeyFor(j)) /\ job[j].key = KeyFor(j)
<1>1. ProcessOf[j] \in alive /\ ProcessOf[j] \in Process
  BY DEF Answers, Process
<1>2. KeyFor(j).tree = TreeOf(j) /\ KeyFor(j).packages = Touched(j)
      /\ TreeOf(j).builds = job[j].diff.builds
  BY DEF KeyFor, TreeOf
<1>3. CASE job[j].stage = "memo" /\ memo' = memo
           /\ \E e \in Entries(ProcessOf[j]) : e.key = KeyOf(j) /\ e.verdict = v
  <2>1. KeyOf(j) = KeyFor(j)
    BY <1>1, <1>3, CopyFits DEF KeyOf, KeyFor
  <2> QED
    BY <1>1, <1>3, <2>1 DEF VerdictInv, MemoTruthful
<1>4. CASE job[j].stage = "check" /\ v = "fail" /\ ~CopyOf(j).builds
  <2>1. CopyOf(j) = TreeOf(j) /\ job[j].key = KeyFor(j)
    BY <1>1, <1>4, CopyFits DEF CopyInv
  <2> QED
    BY <1>2, <1>4, <2>1 DEF Truth
<1>5. CASE /\ job[j].stage = "test"
           /\ \/ TestsSkipped(j) /\ v = IF job[j].passed THEN "pass" ELSE "not_run"
              \/ ~TestsSkipped(j) /\ v = TestVerdict(CopyOf(j), Touched(j))
  <2>1. /\ CopyOf(j) = TreeOf(j) /\ CopyOf(j) # NoTree /\ job[j].key = KeyFor(j)
        /\ job[j].passed /\ job[j].diff.builds
    BY <1>1, <1>5, CopyFits DEF CopyInv
  <2>2. Touched(j) = {} => TestVerdict(TreeOf(j), Touched(j)) = "pass"
    BY TestVerdicts
  <2>3. v = TestVerdict(TreeOf(j), Touched(j))
    BY <1>5, <2>1, <2>2 DEF TestsSkipped
  <2> QED
    BY <1>2, <2>1, <2>3 DEF Truth
<1>6. CASE v = "unavailable" \/ (v = "error" /\ memo' = memo)
  BY <1>6, MemoAfterAnswer
<1> QED
  BY <1>3, <1>4, <1>5, <1>6 DEF Grounded

LEMMA VerdictStep ==
    ASSUME Types, JobsInv, CopyInv, VerdictInv, NEW j \in Job, VerifyStep(j)
    PROVE  VerdictInv'
<1>1. disturbed => disturbed'
  BY VerifyCases DEF Types, StaticChecks, TakesLock, RemoveLock, Patch, Misses, ChecksPass,
                     Answers
<1> SUFFICES ASSUME ~disturbed', ~disturbed
             PROVE  PassIsEarned' /\ MemoTruthful'
  BY <1>1 DEF VerdictInv, PassIsEarned, MemoTruthful
<1>2. Others(j) /\ job'[j].diff = job[j].diff
  BY VerifyCases, StaticEffect, LockEffect, RemoveEffect, PatchEffect, MissEffect, PassEffect,
     AnswerEffect DEF Types, Others, Same
<1> DEFINE Earned(c) == c.builds /\ ~c.manifest /\ c.edits \cap (c.breaks \cup Untested) = {}
<1>3. \A k \in Job : verdict[k] = "pass" => Earned(job[k].diff)
  BY DEF VerdictInv, PassIsEarned
<1>4. \A p \in Process : \A e \in Entries(p) : e.verdict = Truth(e.key)
  BY DEF VerdictInv, MemoTruthful
<1>5. ASSUME verdict'[j] # "pass" \/ verdict'[j] = verdict[j], memo' = memo
      PROVE  PassIsEarned' /\ MemoTruthful'
  BY <1>2, <1>3, <1>4, <1>5 DEF PassIsEarned, MemoTruthful, Others, Entries
<1>6. ASSUME NEW v \in Verdicts, Answers(j, v), Grounded(j, v)
      PROVE  PassIsEarned' /\ MemoTruthful'
  <2>1. /\ v = "pass" => Truth(KeyFor(j)) = "pass"
        /\ memo' # memo => v = Truth(KeyFor(j)) /\ job[j].key = KeyFor(j)
    BY <1>6, GroundedTruth
  <2>2. MemoTruthful'
    <3>1. CASE memo' = memo
      BY <1>4, <3>1 DEF MemoTruthful, Entries
    <3>2. CASE memo' # memo
      <4>1. \A p \in Process : Entries(p)' \subseteq Entries(p) \cup {[key |-> job[j].key, verdict |-> v]}
        BY <1>6, MemoAfterAnswer
      <4> QED
        BY <1>4, <2>1, <3>2, <4>1 DEF MemoTruthful
    <3> QED
      BY <3>1, <3>2
  <2>3. job[j].stage \in {"copy", "memo", "check", "test"} => ~job[j].diff.manifest
    BY DEF JobsInv
  <2>4. ASSUME v = "pass", ~AgainWithOriginals(j, v)
        PROVE  Earned(job[j].diff)
    <3>1. Rewrites(j) = {} /\ job[j].stage \in {"copy", "memo", "check", "test"}
      BY <1>6, <2>4 DEF AgainWithOriginals, Rewrites, Answers
    <3>2. /\ KeyFor(j).packages = job[j].diff.edits
          /\ KeyFor(j).tree.builds = job[j].diff.builds
          /\ KeyFor(j).tree.breaks = job[j].diff.breaks /\ KeyFor(j).tree.tests = {}
      BY <3>1 DEF KeyFor, TreeOf, Touched
    <3>3. job[j].diff.builds /\ TestVerdict(KeyFor(j).tree, job[j].diff.edits) = "pass"
      BY <2>1, <2>4, <3>2 DEF Truth
    <3>4. /\ job[j].diff.edits \cap job[j].diff.breaks = {}
          /\ job[j].diff.edits \cap Untested = {}
      BY <3>2, <3>3, TestVerdicts
    <3> QED
      BY <2>3, <3>1, <3>3, <3>4
  <2>5. verdict'[j] = "pass" => verdict[j] = "pass" \/ (v = "pass" /\ ~AgainWithOriginals(j, v))
    BY <1>6, AnswerEffect
  <2>6. verdict'[j] = "pass" => Earned(job[j].diff)
    BY <1>3, <2>4, <2>5
  <2>7. PassIsEarned'
    BY <1>2, <1>3, <2>6 DEF PassIsEarned, Others
  <2> QED
    BY <2>2, <2>7
<1>7. CASE StaticChecks(j)
  BY <1>5, <1>7, StaticEffect DEF StaticChecks
<1>8. CASE TakesLock(j) \/ RemoveLock(j) \/ Patch(j) \/ Misses(j) \/ ChecksPass(j)
  BY <1>5, <1>8 DEF TakesLock, RemoveLock, Patch, Misses, ChecksPass
<1> QED
  BY <1>6, <1>7, <1>8, VerifyCases DEF Types


-----------------------------------------------------------------------------
(***************************************************************************)
(* Kills, ageing locks and the pruner.                                     *)
(***************************************************************************)
LEMMA KillStep ==
    ASSUME IInv, NEW p \in Process, Kill(p)
    PROVE  IInv'
<1>1. /\ alive' = alive \ {p} /\ memo' = [memo EXCEPT ![p] = <<>>]
      /\ UNCHANGED <<job, verdict, lock, shared, own, pruner, takenOver, disturbed>>
  BY DEF Kill
<1>2. memo \in [Process -> Seq(Entry)] /\ TypeOK
  BY DEF IInv, Types
<1>3. /\ memo' \in [Process -> Seq(Entry)]
      /\ \A q \in Process : Entries(q)' \subseteq Entries(q) /\ Len(memo'[q]) <= MemoSize
  <2>1. <<>> \in Seq(Entry) /\ Len(<<>>) <= MemoSize
    BY VerificationAssumption
  <2>2. memo' \in [Process -> Seq(Entry)]
    BY <1>1, <1>2, <2>1
  <2>3. \A q \in Process : Entries(q)' \subseteq Entries(q)
    BY <1>1, <1>2 DEF Entries
  <2>4. \A q \in Process : Len(memo'[q]) <= MemoSize
    BY <1>1, <1>2, <2>1 DEF TypeOK
  <2> QED
    BY <2>2, <2>3, <2>4
<1>4. Types'
  BY <1>1, <1>2, <1>3 DEF IInv, Types, TypeOK
<1>5. JobsInv'
  BY <1>1 DEF IInv, JobsInv, TreeOf, Rewrites
<1>6. HolderInv'
  BY <1>1 DEF IInv, HolderInv, LockProtects
<1>7. CopyInv'
  BY <1>1 DEF IInv, CopyInv, Using, TreeOf, KeyFor, Touched, Rewrites
<1>8. VerdictInv'
  BY <1>1, <1>3 DEF IInv, VerdictInv, PassIsEarned, MemoTruthful
<1> QED
  BY <1>4, <1>5, <1>6, <1>7, <1>8 DEF IInv

LEMMA LockAgesStep ==
    ASSUME IInv, LockAges
    PROVE  IInv'
<1>1. /\ lock # NoLock /\ ProcessOf[lock.owner] \notin alive
      /\ lock' = [lock EXCEPT !.stale = TRUE]
      /\ UNCHANGED <<job, verdict, alive, shared, own, memo, pruner, takenOver, disturbed>>
  BY DEF LockAges
<1>2. lock' \in [owner : Job \cup {NoJob}, stale : BOOLEAN] /\ lock'.owner = lock.owner
  BY <1>1 DEF IInv, Types, TypeOK
<1>3. Types'
  BY <1>1, <1>2 DEF IInv, Types, TypeOK, Entries
<1>4. JobsInv' /\ CopyInv'
  BY <1>1 DEF IInv, JobsInv, CopyInv, Using, TreeOf, KeyFor, Touched, Rewrites
<1>5. HolderInv'
  BY <1>1, <1>2 DEF IInv, HolderInv, LockProtects
<1>6. VerdictInv'
  BY <1>1 DEF IInv, VerdictInv, PassIsEarned, MemoTruthful, Entries
<1> QED
  BY <1>3, <1>4, <1>5, <1>6 DEF IInv

LEMMA PruneStep ==
    ASSUME IInv, PruneLooks \/ PruneDeletes
    PROVE  IInv'
<1>1. UNCHANGED <<job, verdict, alive, lock, own, memo, takenOver>>
  BY DEF PruneLooks, PruneDeletes
<1>2. \/ pruner' = "deleting" /\ pruner = "none" /\ shared' = shared /\ disturbed' = disturbed
      \/ /\ pruner' = "deleted" /\ shared' = NoTree
         /\ disturbed' = (disturbed \/ \E j \in Job : Using(j))
  BY DEF PruneLooks, PruneDeletes
<1>3. shared' \in Trees \cup {NoTree} /\ disturbed' \in BOOLEAN
  BY <1>2 DEF IInv, Types, TypeOK
<1>4. Types'
  BY <1>1, <1>2, <1>3 DEF IInv, Types, TypeOK, Entries
<1>5. JobsInv'
  BY <1>1 DEF IInv, JobsInv, TreeOf, Rewrites
<1>6. CopyInv'
  BY <1>1, <1>2 DEF IInv, CopyInv, Using, TreeOf, KeyFor, Touched, Rewrites
<1>7. HolderInv'
  BY <1>1, <1>2 DEF IInv, HolderInv, LockProtects
<1>8. VerdictInv'
  BY <1>1, <1>2 DEF IInv, VerdictInv, PassIsEarned, MemoTruthful, Entries
<1> QED
  BY <1>4, <1>5, <1>6, <1>7, <1>8 DEF IInv

LEMMA StutterStep ==
    ASSUME IInv, UNCHANGED vars
    PROVE  IInv'
<1>1. UNCHANGED <<job, verdict, alive, lock, shared, own, memo, pruner, takenOver, disturbed>>
  BY DEF vars
<1>2. Types' /\ JobsInv'
  BY <1>1 DEF IInv, Types, TypeOK, Entries, JobsInv, TreeOf, Rewrites
<1>3. HolderInv' /\ CopyInv' /\ VerdictInv'
  BY <1>1 DEF IInv, HolderInv, LockProtects, CopyInv, Using, TreeOf, KeyFor, Touched, Rewrites, VerdictInv, PassIsEarned,
              MemoTruthful, Entries
<1> QED
  BY <1>2, <1>3 DEF IInv

LEMMA InvariantAtStart == Init => IInv
<1> SUFFICES ASSUME Init
             PROVE  IInv
  OBVIOUS
<1>1. /\ \A j \in Job : /\ job[j].stage = "static" /\ ~job[j].cached
                        /\ verdict[j] = "none"
      /\ lock = NoLock /\ disturbed = FALSE /\ takenOver = FALSE /\ pruner = "none"
      /\ shared = NoTree /\ alive = Process
  BY DEF Init
<1>2. job \in [Job -> JobRecord]
  <2>1. PICK given \in Workload :
          job = [j \in Job |-> [diff |-> given[j], stage |-> "static", original |-> FALSE,
                                cached |-> FALSE, key |-> NoTree, passed |-> FALSE]]
    BY DEF Init
  <2>2. given \in [Job -> Diffs] /\ "static" \in Stages
    BY VerificationAssumption DEF Stages
  <2> QED
    BY <2>1, <2>2 DEF JobRecord
<1>3. \A p \in Process : memo[p] = <<>>
  BY DEF Init
<1>4. memo \in [Process -> Seq(Entry)]
  BY DEF Init
<1>5. \A p \in Process : Entries(p) = {} /\ Len(memo[p]) <= MemoSize
  BY <1>3, VerificationAssumption DEF Entries
<1>6. Types
  <2>1. lock \in [owner : Job \cup {NoJob}, stale : BOOLEAN]
    BY <1>1 DEF NoLock
  <2>2. verdict \in [Job -> Verdicts \cup {"none"}] /\ own \in [Job -> Trees \cup {NoTree}]
    BY DEF Init
  <2>3. \A p \in Process : /\ Len(memo[p]) <= MemoSize
                          /\ Entries(p) \subseteq [key : Keys, verdict : Verdicts]
    BY <1>5
  <2>4. TypeOK
    BY <1>1, <1>2, <2>1, <2>2, <2>3 DEF TypeOK, JobRecord
  <2> QED
    BY <1>1, <1>4, <2>4 DEF Types
<1>7. JobsInv /\ HolderInv
  BY <1>1 DEF JobsInv, HolderInv, LockProtects
<1>8. CopyInv
  BY <1>1 DEF CopyInv, Using
<1>9. VerdictInv
  BY <1>1, <1>5 DEF VerdictInv, PassIsEarned, MemoTruthful
<1> QED
  BY <1>6, <1>7, <1>8, <1>9 DEF IInv

LEMMA VerificationInductive == Spec => []IInv
<1>1. IInv /\ [Next]_vars => IInv'
  <2> SUFFICES ASSUME IInv, [Next]_vars
               PROVE  IInv'
    OBVIOUS
  <2>1. ASSUME NEW j \in Job, VerifyStep(j)
        PROVE  IInv'
    BY <2>1, TypesStep, JobsStep, HolderStep, CopyStep, VerdictStep DEF IInv
  <2> QED
    BY <2>1, KillStep, LockAgesStep, PruneStep, StutterStep DEF Next, Ended
<1> QED
  BY InvariantAtStart, <1>1, PTL DEF Spec

-----------------------------------------------------------------------------
(***************************************************************************)
(* The properties.                                                         *)
(***************************************************************************)

\* The lock file keeps every other verification away from a copy in use until a
\* stale lock is taken over or the cache is pruned, and only killed processes
\* leave it behind, for every interleaving of verifications, kills and ageing.
THEOREM LockFileProtects == Spec => []LockInv
<1>1. IInv => LockInv
  <2> SUFFICES ASSUME IInv, lock # NoLock, ProcessOf[lock.owner] \in alive
               PROVE  job[lock.owner].cached /\ job[lock.owner].stage # "ended"
    BY DEF LockInv, IInv, Types, HolderInv, OnlyKilledLeaveLocks
  <2>1. lock.owner \in Job /\ job[lock.owner].cached
    BY DEF IInv, HolderInv
  <2> QED
    BY <2>1 DEF IInv, JobsInv
<1> QED
  BY VerificationInductive, <1>1, PTL

\* Until a copy is disturbed a Pass is earned and the memo is truthful: a cached
\* verdict is what the checks say of the copy and the packages it is keyed by, and
\* in a package where it changes more than existing tests a candidate passes on the
\* tests it did not write.  The second run does not reach the other packages.
THEOREM VerdictsAreTrue == Spec => []VerdictInv
<1>1. IInv => VerdictInv
  BY DEF IInv
<1> QED
  BY VerificationInductive, <1>1, PTL

-----------------------------------------------------------------------------
(***************************************************************************)
(* The applier.  How far the task is, and which paths are the task's: a    *)
(* subtask at work has recorded its paths, and a checkpoint has HEAD's     *)
(* content wherever nothing was recorded.                                  *)
(***************************************************************************)
ApplierTypes ==
    /\ worktree \in Tree /\ index \in Tree /\ loaded \in Tree /\ pending \in Tree
    /\ preWork \in Tree /\ preIndex \in Tree
    /\ step \in {"idle", "recorded", "writing", "staged", "reverting"}
    /\ seq \in 0 .. MaxSubtasks
    /\ touched \in SUBSET Path /\ todo \in SUBSET Path /\ recorded \in SUBSET Path
    /\ checkpoints \in Seq(Tree)
    /\ over \in BOOLEAN
    /\ answer \in {"none", "refused", "failed", "restored"}
    /\ origin \in [UserLine -> {"untyped", "early", "mid", "late", "racing"}]

AtWork == {"recorded", "writing", "staged"}

StepInv ==
    /\ step \in AtWork => ~over /\ seq # 0 /\ touched \subseteq recorded
    /\ step = "writing" => todo \subseteq touched
    /\ step = "reverting" => over /\ todo \subseteq Delta
    /\ answer = "restored" => over /\ step = "idle"
    /\ recorded # {} => seq # 0

PathsInv ==
    /\ ApplierTypes
    /\ StepInv
    /\ CheckpointsExcludeUnrelated

-----------------------------------------------------------------------------
(***************************************************************************)
(* Lines of the task.  Nobody but the task adds them, and it does only on  *)
(* the paths it has recorded; a reject takes them away path by path.       *)
(***************************************************************************)
Free(c) == c \cap TaskLine = {}

TaskLinesInv ==
    /\ \A p \in Path : Free(preWork[p]) /\ Free(preIndex[p])
    /\ \A p \in Path \ recorded : Free(worktree[p]) /\ Free(index[p]) /\ Free(loaded[p])
    /\ step = "reverting" => \A p \in Delta \ todo : Free(worktree[p]) /\ Free(loaded[p])
    /\ answer = "restored" => \A p \in Delta : Free(worktree[p]) /\ Free(index[p])

(***************************************************************************)
(* Lines of the user.  A line typed before the task is in the snapshot of  *)
(* the path it is found on, wherever on that path it is found; a line      *)
(* typed after the task is in no checkpoint, and so in no file a reject    *)
(* would restore.                                                          *)
(***************************************************************************)
\* What is found on a path, wherever it is found.
Lines(p) == worktree[p] \cup index[p] \cup loaded[p] \cup pending[p]

Unwritten ==
    ~over => \A u \in UserLine :
        /\ origin[u] \notin {"late", "racing"}
        /\ origin[u] = "untyped" => \A p \in Path : u \notin Lines(p)

OnDiskFirst == \A p \in Path \ recorded : Lines(p) \cap UserLine \subseteq worktree[p]

EarlyKept ==
    \A p \in recorded : \A u \in (Lines(p) \cup preIndex[p]) \cap UserLine :
        origin[u] = "early" => u \in preWork[p]

CommittedInTask ==
    \A n \in DOMAIN checkpoints : \A p \in Path : \A u \in checkpoints[n][p] \cap UserLine :
        origin[u] = "mid" \/ (origin[u] = "early" /\ u \in preWork[p])

NoneLate ==
    step = "reverting" =>
        \A p \in todo : \A u \in worktree[p] \cap UserLine : origin[u] # "late"

UserLinesInv == Unwritten /\ OnDiskFirst /\ EarlyKept /\ CommittedInTask /\ NoneLate


-----------------------------------------------------------------------------
(***************************************************************************)
(* Contents.                                                               *)
(***************************************************************************)
LEMMA HeadFacts ==
    /\ HeadTree \in Tree /\ NoFile \in Content
    /\ \A p \in Path : Free(HeadTree[p]) /\ HeadTree[p] \cap UserLine = {}
    /\ TaskLine \cap UserLine = {} /\ Eof \notin UserLine /\ Eof \notin TaskLine
BY ApplierAssumption DEF Tree, Content, Free, NoFile

\* An edit adds at most the subtask's line, and the end of a file that was not there.
LEMMA EditedFacts ==
    ASSUME NEW c \in Content, NEW n \in TaskLine, NEW e \in Edited(c, n)
    PROVE  e \in Content /\ e \cap UserLine \subseteq c
<1>1. e \subseteq c \cup {n, Eof}
  <2>1. CASE c = NoFile
    BY <2>1 DEF Edited
  <2>2. CASE c # NoFile
    BY <2>2 DEF Edited
  <2> QED
    BY <2>1, <2>2
<1>2. c \cup {n, Eof} \in Content
  BY DEF Content
<1>3. e \in Content
  BY <1>1, <1>2 DEF Content
<1> QED
  BY <1>1, <1>3, HeadFacts

LEMMA TypedFacts ==
    ASSUME NEW c \in Content, NEW u \in UserLine
    PROVE  c \cup {u} \in Content /\ (Free(c) => Free(c \cup {u}))
BY HeadFacts DEF Content, Free

\* One path of a tree is replaced.
LEMMA Replaced ==
    ASSUME NEW f \in Tree, NEW p \in Path, NEW c \in Content
    PROVE  LET g == [f EXCEPT ![p] = c]
           IN  /\ g \in Tree /\ g[p] = c
               /\ \A q \in Path \ {p} : g[q] = f[q]
BY DEF Tree

LEMMA DeltaFacts ==
    ASSUME checkpoints \in Seq(Tree)
    PROVE  /\ Delta \in SUBSET Path
           /\ \A p \in Delta : /\ checkpoints # <<>>
                               /\ Len(checkpoints) \in DOMAIN checkpoints
                               /\ Last(checkpoints) = checkpoints[Len(checkpoints)]
                               /\ Last(checkpoints)[p] # HeadTree[p]
           /\ \A n \in DOMAIN checkpoints : checkpoints[n] \in Tree
<1>1. CASE checkpoints = <<>>
  BY <1>1 DEF Delta
<1>2. CASE checkpoints # <<>>
  <2>1. Len(checkpoints) \in Nat \ {0} /\ DOMAIN checkpoints = 1 .. Len(checkpoints)
    BY <1>2
  <2>2. Delta = {p \in Path : Last(checkpoints)[p] # HeadTree[p]}
    BY <1>2 DEF Delta
  <2> QED
    BY <1>2, <2>1, <2>2 DEF Last
<1> QED
  BY <1>1, <1>2

LEMMA DeltaRecorded ==
    ASSUME PathsInv
    PROVE  Delta \subseteq recorded
BY DeltaFacts DEF PathsInv, ApplierTypes, CheckpointsExcludeUnrelated


-----------------------------------------------------------------------------
LEMMA ApplierInitially == ApplierInit => PathsInv /\ TaskLinesInv /\ UserLinesInv
<1> SUFFICES ASSUME ApplierInit PROVE PathsInv /\ TaskLinesInv /\ UserLinesInv
  OBVIOUS
<1> USE DEF ApplierInit
<1>1. ApplierTypes
  <2>1. 0 \in 0 .. MaxSubtasks /\ <<>> \in Seq(Tree)
    BY ApplierAssumption
  <2> QED
    BY <2>1, HeadFacts DEF ApplierTypes
<1>2. StepInv
  BY DEF StepInv, AtWork
<1>3. CheckpointsExcludeUnrelated
  BY DEF CheckpointsExcludeUnrelated
<1>4. TaskLinesInv
  BY HeadFacts DEF TaskLinesInv
<1>5. UserLinesInv
  <2>1. \A p \in Path : \A u \in UserLine : u \notin HeadTree[p]
    BY HeadFacts
  <2> QED
    BY <2>1 DEF UserLinesInv, Unwritten, OnDiskFirst, EarlyKept, CommittedInTask, NoneLate, Lines
<1> QED
  BY <1>1, <1>2, <1>3, <1>4, <1>5 DEF PathsInv

\* The same checkpoints differ from HEAD on the same paths.
LEMMA SameDelta == checkpoints' = checkpoints => Delta' = Delta
BY DEF Delta

LEMMA ApplierTypesStep ==
    ASSUME PathsInv, [ApplierNext]_applierVars
    PROVE  ApplierTypes'
<1> USE DEF PathsInv, ApplierTypes, taskVars, userVars
<1>1. CASE UNCHANGED applierVars
  BY <1>1 DEF applierVars
<1>2. ASSUME NEW p \in Path, NEW u \in UserLine, UserTypes(p, u) PROVE ApplierTypes'
  <2>1. Now \in {"untyped", "early", "mid", "late", "racing"}
    BY DEF Now
  <2>2. worktree[p] \in Content
    BY DEF Tree
  <2>3. worktree' = [worktree EXCEPT ![p] = worktree[p] \cup {u}]
    BY <1>2 DEF UserTypes
  <2>4. worktree' \in Tree
    BY <2>2, <2>3, TypedFacts, Replaced
  <2> QED
    BY <1>2, <2>1, <2>4 DEF UserTypes
<1>3. ASSUME NEW p \in Path, UserStages(p) PROVE ApplierTypes'
  <2>1. worktree[p] \in Content /\ HeadTree[p] \in Content
    BY HeadFacts DEF Tree
  <2>2. index' \in Tree
    BY <1>3, <2>1, Replaced DEF UserStages
  <2> QED
    BY <1>3, <2>2 DEF UserStages
<1>4. ASSUME NEW P \in SUBSET Path, Record(P) PROVE ApplierTypes'
  <2>1. preWork' \in Tree /\ preIndex' \in Tree
    BY <1>4 DEF Record, Tree
  <2>2. seq' \in 0 .. MaxSubtasks
    BY <1>4, ApplierAssumption DEF Record
  <2> QED
    BY <1>4, <2>1, <2>2 DEF Record
<1>5. CASE RecordFails
  <2>1. seq' \in 0 .. MaxSubtasks
    BY <1>5, ApplierAssumption DEF RecordFails
  <2> QED
    BY <1>5, <2>1 DEF RecordFails
<1>6. CASE Materialize
  <2>1. PICK new \in [touched -> UNION {Edited(worktree[p], seq) : p \in touched}] :
           /\ \A p \in touched : new[p] \in Edited(worktree[p], seq)
           /\ pending' = [p \in Path |-> IF p \in touched THEN new[p] ELSE NoFile]
    BY <1>6 DEF Materialize
  <2>2. seq \in TaskLine
    BY <1>6, ApplierAssumption DEF Materialize, StepInv, AtWork, TaskLine
  <2>3. \A p \in touched : new[p] \in Content
    BY <2>1, <2>2, EditedFacts DEF Tree
  <2>4. pending' \in Tree
    BY <2>1, <2>3, HeadFacts DEF Tree
  <2> QED
    BY <1>6, <2>4 DEF Materialize
<1>7. ASSUME NEW p \in Path, WriteFile(p) \/ RevertFile(p) PROVE ApplierTypes'
  <2>1. pending[p] \in Content /\ preWork[p] \in Content /\ preIndex[p] \in Content
    BY DEF Tree
  <2>2. worktree' \in Tree /\ loaded' \in Tree
    BY <1>7, <2>1, Replaced DEF WriteFile, RevertFile
  <2> QED
    BY <1>7, <2>2 DEF WriteFile, RevertFile
<1>8. CASE WriteIndex
  BY <1>8 DEF WriteIndex
<1>9. CASE CommitCheckpoint
  <2>1. Parent \in Tree
    <3>1. CASE seq = 1
      BY <3>1, HeadFacts DEF Parent
    <3>2. CASE seq # 1
      <4>1. seq - 1 = Len(checkpoints) /\ seq - 1 # 0 /\ Len(checkpoints) \in Nat
        BY <1>9, <3>2 DEF CommitCheckpoint
      <4>2. seq - 1 \in 1 .. Len(checkpoints)
        BY <4>1
      <4> QED
        BY <3>2, <4>2 DEF Parent
    <3> QED
      BY <3>1, <3>2
  <2>2. CheckpointTree \in Tree
    BY <2>1 DEF CheckpointTree, Tree
  <2>3. checkpoints' \in Seq(Tree)
    BY <1>9, <2>2 DEF CommitCheckpoint
  <2> QED
    BY <1>9, <2>3 DEF CommitCheckpoint
<1>10. CASE SubtaskFails \/ TaskEnds
  BY <1>10 DEF SubtaskFails, TaskEnds
<1>11. CASE RevertRefuses \/ RevertEnds \/ RevertFails
  BY <1>11 DEF RevertRefuses, RevertEnds, RevertFails
<1>12. CASE RevertStarts
  BY <1>12, DeltaFacts DEF RevertStarts
<1> QED
  BY <1>1, <1>2, <1>3, <1>4, <1>5, <1>6, <1>7, <1>8, <1>9, <1>10, <1>11, <1>12
  DEF ApplierNext, User, TaskStep, Revert

LEMMA StepInvStep ==
    ASSUME PathsInv, [ApplierNext]_applierVars
    PROVE  StepInv'
<1> USE DEF PathsInv, StepInv, AtWork, taskVars, userVars
<1>1. CASE UNCHANGED applierVars
  BY <1>1, SameDelta DEF applierVars
<1>2. ASSUME NEW p \in Path,
             UserStages(p) \/ (\E u \in UserLine : UserTypes(p, u))
      PROVE  StepInv'
  BY <1>2, SameDelta DEF UserTypes, UserStages
<1>3. ASSUME NEW P \in SUBSET Path, Record(P) PROVE StepInv'
  <2>1. seq \in Nat
    BY DEF ApplierTypes
  <2> QED
    BY <1>3, <2>1 DEF Record
<1>4. CASE RecordFails
  <2>1. seq \in Nat
    BY DEF ApplierTypes
  <2> QED
    BY <1>4, <2>1 DEF RecordFails
<1>5. CASE Materialize
  BY <1>5 DEF Materialize
<1>6. ASSUME NEW p \in Path, WriteFile(p) \/ RevertFile(p) PROVE StepInv'
  BY <1>6, SameDelta DEF WriteFile, RevertFile
<1>7. CASE WriteIndex \/ CommitCheckpoint \/ SubtaskFails \/ TaskEnds
  BY <1>7 DEF WriteIndex, CommitCheckpoint, SubtaskFails, TaskEnds
<1>8. CASE RevertRefuses \/ RevertEnds \/ RevertFails
  BY <1>8 DEF RevertRefuses, RevertEnds, RevertFails, Rejectable
<1>9. CASE RevertStarts
  BY <1>9, SameDelta DEF RevertStarts, Rejectable
<1> QED
  BY <1>1, <1>2, <1>3, <1>4, <1>5, <1>6, <1>7, <1>8, <1>9 DEF ApplierNext, User, TaskStep, Revert

\* A checkpoint is added by CommitCheckpoint alone.
LEMMA SameCheckpoints ==
    ASSUME [ApplierNext]_applierVars, ~CommitCheckpoint
    PROVE  checkpoints' = checkpoints
BY DEF ApplierNext, User, TaskStep, Revert, applierVars, taskVars, userVars, UserTypes, UserStages,
   Record, RecordFails, Materialize, WriteFile, WriteIndex, SubtaskFails, TaskEnds,
   RevertRefuses, RevertStarts, RevertFile, RevertEnds, RevertFails

\* Paths are recorded by Record alone, and never forgotten.
LEMMA RecordedStays ==
    ASSUME [ApplierNext]_applierVars
    PROVE  /\ recorded \subseteq recorded'
           /\ ~(\E P \in SUBSET Path : Record(P))
                => recorded' = recorded /\ preWork' = preWork /\ preIndex' = preIndex
BY DEF ApplierNext, User, TaskStep, Revert, applierVars, taskVars, userVars, UserTypes, UserStages,
   Record, RecordFails, Materialize, WriteFile, WriteIndex, CommitCheckpoint, SubtaskFails,
   TaskEnds, RevertRefuses, RevertStarts, RevertFile, RevertEnds, RevertFails

\* What a committed checkpoint holds.
LEMMA CommittedTree ==
    ASSUME PathsInv, CommitCheckpoint
    PROVE  /\ DOMAIN checkpoints' = DOMAIN checkpoints \cup {Len(checkpoints) + 1}
           /\ \A n \in DOMAIN checkpoints : checkpoints'[n] = checkpoints[n]
           /\ \A p \in Path : LET c == checkpoints'[Len(checkpoints) + 1][p] IN
                \/ p \in recorded /\ c = index[p]
                \/ c = HeadTree[p]
                \/ \E n \in DOMAIN checkpoints : c = checkpoints[n][p]
<1>1. /\ checkpoints \in Seq(Tree) /\ seq \in Nat /\ touched \subseteq recorded
      /\ Len(checkpoints) = seq - 1 /\ checkpoints' = Append(checkpoints, CheckpointTree)
  BY DEF CommitCheckpoint, PathsInv, ApplierTypes, StepInv, AtWork
<1>2. checkpoints'[Len(checkpoints) + 1] = CheckpointTree
  BY <1>1
<1>3. ASSUME NEW p \in Path
      PROVE  \/ p \in recorded /\ CheckpointTree[p] = index[p]
             \/ CheckpointTree[p] = HeadTree[p]
             \/ \E n \in DOMAIN checkpoints : CheckpointTree[p] = checkpoints[n][p]
  <2>1. CASE p \in touched
    BY <1>1, <2>1 DEF CheckpointTree
  <2>2. CASE p \notin touched /\ seq = 1
    BY <2>2 DEF CheckpointTree, Parent
  <2>3. CASE p \notin touched /\ seq # 1
    <3>1. seq - 1 \in DOMAIN checkpoints
      <4>1. seq - 1 \in 1 .. Len(checkpoints)
        BY <1>1, <2>3
      <4> QED
        BY <1>1, <4>1
    <3> QED
      BY <2>3, <3>1 DEF CheckpointTree, Parent
  <2> QED
    BY <2>1, <2>2, <2>3
<1> QED
  BY <1>1, <1>2, <1>3

LEMMA PathsStep == PathsInv /\ [ApplierNext]_applierVars => PathsInv'
<1> SUFFICES ASSUME PathsInv, [ApplierNext]_applierVars PROVE PathsInv'
  OBVIOUS
<1>1. CheckpointsExcludeUnrelated'
  <2> SUFFICES ASSUME NEW n \in DOMAIN checkpoints', NEW p \in Path \ recorded'
               PROVE  checkpoints'[n][p] = HeadTree[p]
    BY DEF CheckpointsExcludeUnrelated
  <2>1. p \in Path \ recorded
    BY RecordedStays
  <2>2. \A m \in DOMAIN checkpoints : checkpoints[m][p] = HeadTree[p]
    BY <2>1 DEF PathsInv, CheckpointsExcludeUnrelated
  <2>3. CASE CommitCheckpoint
    BY <2>1, <2>2, <2>3, CommittedTree
  <2>4. CASE ~CommitCheckpoint
    BY <2>2, <2>4, SameCheckpoints
  <2> QED
    BY <2>3, <2>4
<1> QED
  BY <1>1, ApplierTypesStep, StepInvStep DEF PathsInv


LEMMA TaskLinesStep ==
    ASSUME PathsInv, TaskLinesInv, [ApplierNext]_applierVars
    PROVE  TaskLinesInv'
<1> USE DEF TaskLinesInv, taskVars, userVars
<1>0. ApplierTypes /\ StepInv /\ Delta \subseteq recorded
  BY DeltaRecorded DEF PathsInv
<1>1. CASE UNCHANGED applierVars
  BY <1>1, SameDelta DEF applierVars
<1>2. ASSUME NEW p \in Path, NEW u \in UserLine, UserTypes(p, u) PROVE TaskLinesInv'
  <2>1. worktree[p] \in Content
    BY <1>0 DEF ApplierTypes, Tree
  <2>2. worktree' = [worktree EXCEPT ![p] = worktree[p] \cup {u}]
    BY <1>2 DEF UserTypes
  <2>3. \A q \in Path : Free(worktree[q]) => Free(worktree'[q])
    BY <1>0, <2>1, <2>2, TypedFacts, Replaced DEF ApplierTypes
  <2>4. /\ index' = index /\ loaded' = loaded /\ step' = step /\ todo' = todo /\ answer' = answer
        /\ recorded' = recorded /\ preWork' = preWork /\ preIndex' = preIndex /\ Delta' = Delta
    BY <1>2, SameDelta DEF UserTypes
  <2>5. Delta \subseteq Path
    BY <1>0 DEF ApplierTypes
  <2> HIDE DEF TaskLinesInv
  <2> QED
    BY <2>3, <2>4, <2>5 DEF TaskLinesInv
<1>3. ASSUME NEW p \in Path, UserStages(p) PROVE TaskLinesInv'
  <2>1. \A q \in Path : index'[q] \in {index[q], worktree[q], HeadTree[q]}
    BY <1>0, <1>3 DEF UserStages, ApplierTypes, Tree
  <2>2. \A q \in Path : Free(worktree[q]) /\ Free(index[q]) => Free(index'[q])
    BY <2>1, HeadFacts
  <2>3. /\ worktree' = worktree /\ loaded' = loaded /\ step' = step /\ todo' = todo
        /\ answer' = answer /\ recorded' = recorded
        /\ preWork' = preWork /\ preIndex' = preIndex /\ Delta' = Delta
    BY <1>3, SameDelta DEF UserStages
  <2>5. Delta \subseteq Path
    BY <1>0 DEF ApplierTypes
  <2> HIDE DEF TaskLinesInv
  <2> QED
    BY <2>2, <2>3, <2>5 DEF TaskLinesInv
<1>4. ASSUME NEW P \in SUBSET Path, Record(P) PROVE TaskLinesInv'
  <2>1. \A p \in Path :
           /\ preWork'[p] = IF p \in P \ recorded THEN worktree[p] ELSE preWork[p]
           /\ preIndex'[p] = IF p \in P \ recorded THEN index[p] ELSE preIndex[p]
    BY <1>4 DEF Record, NewlyTouched
  <2>2. /\ step' = "recorded" /\ answer' = answer /\ answer # "restored"
        /\ recorded \subseteq recorded' /\ worktree' = worktree /\ index' = index /\ loaded' = index
    BY <1>0, <1>4 DEF Record, StepInv
  <2> QED
    BY <2>1, <2>2
<1>5. CASE Materialize \/ RecordFails \/ SubtaskFails \/ TaskEnds
  <2>1. /\ UNCHANGED <<worktree, index, loaded, recorded, preWork, preIndex, answer>>
        /\ step' # "reverting" /\ Delta' = Delta
    BY <1>0, <1>5, SameDelta
    DEF Materialize, RecordFails, SubtaskFails, TaskEnds, ApplierTypes, StepInv
  <2> QED
    BY <2>1
<1>6. ASSUME NEW p \in Path, WriteFile(p) PROVE TaskLinesInv'
  <2>1. p \in recorded /\ step = "writing"
    BY <1>0, <1>6 DEF WriteFile, StepInv, AtWork
  <2>2. \A q \in Path \ {p} : worktree'[q] = worktree[q] /\ loaded'[q] = loaded[q]
    BY <1>0, <1>6 DEF WriteFile, ApplierTypes, Tree
  <2>3. /\ UNCHANGED <<index, recorded, preWork, preIndex, answer, step>> /\ answer # "restored"
    BY <1>0, <1>6, <2>1 DEF WriteFile, StepInv
  <2> QED
    BY <2>1, <2>2, <2>3
<1>7. CASE WriteIndex \/ CommitCheckpoint
  <2>1. /\ UNCHANGED <<worktree, loaded, recorded, preWork, preIndex, answer>>
        /\ answer # "restored" /\ step' # "reverting" /\ index' \in {index, loaded}
    BY <1>0, <1>7 DEF WriteIndex, CommitCheckpoint, StepInv
  <2> QED
    BY <2>1
<1>8. CASE RevertRefuses \/ RevertFails
  <2>1. /\ UNCHANGED <<worktree, index, loaded, recorded, preWork, preIndex>>
        /\ step' # "reverting" /\ answer' # "restored"
    BY <1>8 DEF RevertRefuses, RevertFails, Rejectable
  <2> QED
    BY <2>1
<1>9. CASE RevertStarts
  <2>1. /\ UNCHANGED <<worktree, index, recorded, preWork, preIndex, answer>>
        /\ loaded' = index /\ answer # "restored" /\ todo' = Delta /\ Delta' = Delta
    BY <1>9, SameDelta DEF RevertStarts, Rejectable
  <2> QED
    BY <2>1
<1>10. ASSUME NEW p \in Path, RevertFile(p) PROVE TaskLinesInv'
  <2>1. /\ step = "reverting" /\ answer # "restored" /\ todo' = todo \ {p} /\ p \in recorded
        /\ UNCHANGED <<index, recorded, preWork, preIndex, answer, step>> /\ Delta' = Delta
    BY <1>0, <1>10, SameDelta DEF RevertFile, StepInv
  <2>2. /\ worktree'[p] = preWork[p] /\ loaded'[p] = preIndex[p]
        /\ \A q \in Path \ {p} : worktree'[q] = worktree[q] /\ loaded'[q] = loaded[q]
    BY <1>0, <1>10 DEF RevertFile, ApplierTypes, Tree
  <2>3. Delta \subseteq Path
    BY <1>0 DEF ApplierTypes
  <2>4. \A q \in Delta \ todo' : Free(worktree'[q]) /\ Free(loaded'[q])
    <3> SUFFICES ASSUME NEW q \in Delta \ todo' PROVE Free(worktree'[q]) /\ Free(loaded'[q])
      OBVIOUS
    <3>1. CASE q = p
      BY <2>2, <3>1
    <3>2. CASE q # p
      BY <2>1, <2>2, <2>3, <3>2
    <3> QED
      BY <3>1, <3>2
  <2> QED
    BY <2>1, <2>2, <2>4
<1>11. CASE RevertEnds
  <2>1. /\ UNCHANGED <<worktree, loaded, recorded, preWork, preIndex>> /\ index' = loaded
        /\ step = "reverting" /\ step' = "idle" /\ todo = {} /\ Delta' = Delta
    BY <1>11, SameDelta DEF RevertEnds
  <2> QED
    BY <2>1
<1> QED
  BY <1>1, <1>2, <1>3, <1>4, <1>5, <1>6, <1>7, <1>8, <1>9, <1>10, <1>11
  DEF ApplierNext, User, TaskStep, Revert


LEMMA OriginStep ==
    ASSUME ApplierTypes, [ApplierNext]_applierVars
    PROVE  \A u \in UserLine : \/ origin'[u] = origin[u]
                               \/ origin[u] = "untyped" /\ origin'[u] = Now
<1>1. CASE origin' = origin
  BY <1>1
<1>2. ASSUME NEW p \in Path, NEW u \in UserLine, UserTypes(p, u)
      PROVE  \A v \in UserLine : \/ origin'[v] = origin[v]
                                 \/ origin[v] = "untyped" /\ origin'[v] = Now
  BY <1>2 DEF UserTypes, ApplierTypes
<1> QED
  BY <1>1, <1>2 DEF ApplierNext, User, TaskStep, Revert, applierVars, userVars, UserStages,
   Record, RecordFails, Materialize, WriteFile, WriteIndex, CommitCheckpoint, SubtaskFails,
   TaskEnds, RevertRefuses, RevertStarts, RevertFile, RevertEnds, RevertFails

LEMMA NowFacts ==
    /\ Now # "untyped"
    /\ Now = "early" => seq = 0 /\ ~over
    /\ Now = "late" => over /\ step # "reverting"
    /\ Now = "racing" => step = "reverting"
BY DEF Now

\* Lines of the user come onto a path by typing and by a reject.
LEMMA LinesStep ==
    ASSUME PathsInv, [ApplierNext]_applierVars, NEW q \in Path, NEW v \in UserLine, v \in Lines(q)'
    PROVE  \/ v \in Lines(q)
           \/ q \in recorded /\ over /\ v \in preWork[q] \cup preIndex[q]
           \/ origin'[v] # origin[v] /\ v \in worktree'[q]
<1> USE DEF Lines, taskVars, userVars
<1>0. ApplierTypes /\ StepInv /\ Delta \subseteq recorded
  BY DeltaRecorded DEF PathsInv
<1>1. ASSUME UNCHANGED <<worktree, index, loaded, pending>> PROVE v \in Lines(q)
  BY <1>1
<1>2. CASE UNCHANGED applierVars
  BY <1>1, <1>2 DEF applierVars
<1>3. ASSUME NEW p \in Path, NEW u \in UserLine, UserTypes(p, u)
      PROVE  v \in Lines(q) \/ (origin'[v] # origin[v] /\ v \in worktree'[q])
  <2>1. /\ worktree'[q] = IF q = p THEN worktree[p] \cup {u} ELSE worktree[q]
        /\ index' = index /\ loaded' = loaded /\ pending' = pending
        /\ origin[u] = "untyped" /\ origin'[u] = Now
    BY <1>0, <1>3 DEF UserTypes, ApplierTypes, Tree
  <2> QED
    BY <2>1, NowFacts
<1>4. ASSUME NEW p \in Path, UserStages(p) PROVE v \in Lines(q)
  <2>1. /\ index'[q] \in {index[q], worktree[q], HeadTree[q]}
        /\ worktree' = worktree /\ loaded' = loaded /\ pending' = pending
    BY <1>0, <1>4 DEF UserStages, ApplierTypes, Tree
  <2> QED
    BY <2>1, HeadFacts
<1>5. ASSUME NEW P \in SUBSET Path, Record(P) PROVE v \in Lines(q)
  BY <1>5 DEF Record
<1>6. CASE Materialize
  <2>1. PICK new \in [touched -> UNION {Edited(worktree[p], seq) : p \in touched}] :
           /\ \A p \in touched : new[p] \in Edited(worktree[p], seq)
           /\ pending' = [p \in Path |-> IF p \in touched THEN new[p] ELSE NoFile]
    BY <1>6 DEF Materialize
  <2>2. seq \in TaskLine /\ worktree[q] \in Content
    BY <1>0, <1>6, ApplierAssumption
    DEF Materialize, StepInv, AtWork, TaskLine, ApplierTypes, Tree
  <2>3. q \in touched => new[q] \cap UserLine \subseteq worktree[q]
    BY <2>1, <2>2, EditedFacts
  <2>4. v \in pending'[q] => v \in worktree[q]
    BY <2>1, <2>3 DEF NoFile
  <2> QED
    BY <1>6, <2>4 DEF Materialize
<1>7. ASSUME NEW p \in Path, WriteFile(p) PROVE v \in Lines(q)
  <2>1. /\ worktree'[q] \in {worktree[q], pending[q]} /\ loaded'[q] \in {loaded[q], pending[q]}
        /\ index' = index /\ pending' = pending
    BY <1>0, <1>7 DEF WriteFile, ApplierTypes, Tree
  <2> QED
    BY <2>1
<1>8. CASE WriteIndex
  BY <1>8 DEF WriteIndex
<1>9. CASE RevertStarts
  BY <1>9 DEF RevertStarts
<1>10. CASE RevertEnds
  BY <1>10 DEF RevertEnds
<1>11. ASSUME NEW p \in Path, RevertFile(p)
       PROVE  v \in Lines(q) \/ (q \in recorded /\ over /\ v \in preWork[q] \cup preIndex[q])
  <2>1. p \in recorded /\ over /\ index' = index /\ pending' = pending
    BY <1>0, <1>11 DEF RevertFile, StepInv
  <2>2. /\ worktree'[q] = IF q = p THEN preWork[p] ELSE worktree[q]
        /\ loaded'[q] = IF q = p THEN preIndex[p] ELSE loaded[q]
    BY <1>0, <1>11 DEF RevertFile, ApplierTypes, Tree
  <2> QED
    BY <2>1, <2>2
<1>12. CASE RecordFails \/ CommitCheckpoint \/ SubtaskFails \/ TaskEnds \/ RevertRefuses \/ RevertFails
  BY <1>1, <1>12 DEF RecordFails, CommitCheckpoint, SubtaskFails, TaskEnds, RevertRefuses, RevertFails
<1> HIDE DEF Lines
<1> QED
  BY <1>2, <1>3, <1>4, <1>5, <1>6, <1>7, <1>8, <1>9, <1>10, <1>11, <1>12
  DEF ApplierNext, User, TaskStep, Revert

\* Who is not the task's is written by the user alone.
LEMMA UnrecordedGrows ==
    ASSUME PathsInv, [ApplierNext]_applierVars, NEW q \in Path \ recorded
    PROVE  worktree[q] \subseteq worktree'[q]
<1>0. ApplierTypes /\ StepInv /\ Delta \subseteq recorded
  BY DeltaRecorded DEF PathsInv
<1>1. CASE worktree' = worktree
  BY <1>1
<1>2. ASSUME NEW p \in Path, NEW u \in UserLine, UserTypes(p, u) PROVE worktree[q] \subseteq worktree'[q]
  BY <1>0, <1>2 DEF UserTypes, ApplierTypes, Tree
<1>3. ASSUME NEW p \in Path, WriteFile(p) \/ RevertFile(p) PROVE worktree[q] \subseteq worktree'[q]
  <2>1. p \in recorded
    BY <1>0, <1>3 DEF WriteFile, RevertFile, StepInv, AtWork
  <2> QED
    BY <1>0, <1>3, <2>1 DEF WriteFile, RevertFile, ApplierTypes, Tree
<1> QED
  BY <1>1, <1>2, <1>3 DEF ApplierNext, User, TaskStep, Revert, applierVars, UserStages,
   Record, RecordFails, Materialize, WriteIndex, CommitCheckpoint, SubtaskFails,
   TaskEnds, RevertRefuses, RevertStarts, RevertEnds, RevertFails


\* Where a line is found after a step.
LEMMA TypedOnlyByUser ==
    ASSUME PathsInv, [ApplierNext]_applierVars, NEW u \in UserLine, origin'[u] # origin[u]
    PROVE  /\ origin[u] = "untyped" /\ origin'[u] = Now
           /\ over' = over /\ step' = step /\ recorded' = recorded
<1>1. origin[u] = "untyped" /\ origin'[u] = Now
  BY OriginStep DEF PathsInv
<1>2. \E p \in Path, v \in UserLine : UserTypes(p, v)
  BY DEF ApplierNext, User, TaskStep, Revert, applierVars, userVars, UserStages,
   Record, RecordFails, Materialize, WriteFile, WriteIndex, CommitCheckpoint, SubtaskFails,
   TaskEnds, RevertRefuses, RevertStarts, RevertFile, RevertEnds, RevertFails
<1> QED
  BY <1>1, <1>2 DEF UserTypes, taskVars

LEMMA OverStays == [ApplierNext]_applierVars /\ over => over'
BY DEF ApplierNext, User, TaskStep, Revert, applierVars, UserTypes, UserStages,
   Record, RecordFails, Materialize, WriteFile, WriteIndex, CommitCheckpoint, SubtaskFails,
   TaskEnds, RevertRefuses, RevertStarts, RevertFile, RevertEnds, RevertFails

LEMMA UserLinesStep ==
    ASSUME PathsInv, UserLinesInv, [ApplierNext]_applierVars
    PROVE  UserLinesInv'
<1>0. ApplierTypes /\ StepInv /\ Delta \subseteq recorded
  BY DeltaRecorded DEF PathsInv
<1>i. Unwritten /\ OnDiskFirst /\ EarlyKept /\ CommittedInTask /\ NoneLate
  BY DEF UserLinesInv
<1>1. Unwritten'
  <2> SUFFICES ASSUME ~over', NEW u \in UserLine
               PROVE  /\ origin'[u] \notin {"late", "racing"}
                      /\ origin'[u] = "untyped" => \A p \in Path : u \notin Lines(p)'
    BY DEF Unwritten
  <2>1. ~over /\ step # "reverting"
    BY <1>0, OverStays DEF StepInv
  <2>2. origin'[u] \notin {"late", "racing"}
    BY <1>0, <1>i, <2>1, OriginStep, NowFacts DEF Unwritten
  <2>3. ASSUME origin'[u] = "untyped", NEW p \in Path, u \in Lines(p)' PROVE FALSE
    <3>1. origin'[u] = origin[u]
      BY <1>0, <2>3, OriginStep, NowFacts
    <3>2. u \in Lines(p)
      BY <2>1, <2>3, <3>1, LinesStep
    <3> QED
      BY <1>i, <2>1, <2>3, <3>1, <3>2 DEF Unwritten
  <2> QED
    BY <2>2, <2>3
<1>2. OnDiskFirst'
  <2> SUFFICES ASSUME NEW p \in Path \ recorded', NEW u \in UserLine, u \in Lines(p)'
               PROVE  u \in worktree'[p]
    BY DEF OnDiskFirst
  <2>1. p \in Path \ recorded
    BY RecordedStays
  <2>2. u \in Lines(p) \/ u \in worktree'[p]
    BY <2>1, LinesStep
  <2>3. u \in Lines(p) => u \in worktree[p]
    BY <1>i, <2>1 DEF OnDiskFirst
  <2> QED
    BY <2>1, <2>2, <2>3, UnrecordedGrows
<1>3. EarlyKept'
  <2> SUFFICES ASSUME NEW p \in recorded', NEW u \in UserLine, origin'[u] = "early",
                      u \in Lines(p)' \cup preIndex'[p]
               PROVE  u \in preWork'[p]
    BY DEF EarlyKept
  <2>0. p \in Path
    BY ApplierTypesStep DEF ApplierTypes
  <2>1. origin[u] = "early"
    <3> SUFFICES ASSUME origin'[u] # origin[u] PROVE FALSE
      OBVIOUS
    <3>1. Now = "early" /\ recorded' = recorded
      BY TypedOnlyByUser
    <3> QED
      BY <1>0, <3>1, NowFacts DEF StepInv
  <2>2. CASE p \in recorded
    <3>1. preWork'[p] = preWork[p] /\ preIndex'[p] = preIndex[p]
      <4>1. ASSUME NEW P \in SUBSET Path, Record(P)
            PROVE  preWork'[p] = preWork[p] /\ preIndex'[p] = preIndex[p]
        BY <2>0, <2>2, <4>1 DEF Record, NewlyTouched
      <4> QED
        BY <4>1, RecordedStays
    <3>2. u \in Lines(p) \/ u \in preWork[p] \cup preIndex[p]
      BY <2>0, <2>1, <3>1, LinesStep
    <3> QED
      BY <1>i, <2>1, <2>2, <3>1, <3>2 DEF EarlyKept
  <2>3. CASE p \notin recorded
    <3>1. PICK P \in SUBSET Path : Record(P)
      BY <2>3, RecordedStays
    <3>2. preWork'[p] = worktree[p] /\ preIndex'[p] = index[p]
      BY <2>0, <2>3, <3>1 DEF Record, NewlyTouched
    <3>3. u \in Lines(p)
      <4>1. CASE u \in Lines(p)'
        BY <2>0, <2>1, <2>3, <4>1, LinesStep
      <4>2. CASE u \in preIndex'[p]
        BY <3>2, <4>2 DEF Lines
      <4> QED
        BY <4>1, <4>2
    <3> QED
      BY <1>i, <2>0, <2>3, <3>2, <3>3 DEF OnDiskFirst
  <2> QED
    BY <2>2, <2>3
<1>4. CommittedInTask'
  <2>1. ASSUME NEW n \in DOMAIN checkpoints, NEW p \in Path, NEW u \in checkpoints[n][p] \cap UserLine
        PROVE  origin'[u] = "mid" \/ (origin'[u] = "early" /\ u \in preWork'[p])
    <3>1. origin[u] = "mid" \/ (origin[u] = "early" /\ u \in preWork[p])
      BY <1>i, <2>1 DEF CommittedInTask
    <3>2. origin'[u] = origin[u]
      BY <1>0, <3>1, OriginStep
    <3>3. p \in recorded
      BY <2>1, HeadFacts DEF PathsInv, CheckpointsExcludeUnrelated
    <3>4. preWork'[p] = preWork[p]
      <4>1. ASSUME NEW P \in SUBSET Path, Record(P) PROVE preWork'[p] = preWork[p]
        BY <2>1, <3>3, <4>1 DEF Record, NewlyTouched
      <4> QED
        BY <4>1, RecordedStays
    <3> QED
      BY <3>1, <3>2, <3>4
  <2>2. CASE CommitCheckpoint
    <3>1. ~over /\ origin' = origin /\ preWork' = preWork
      BY <1>0, <2>2 DEF CommitCheckpoint, userVars, StepInv, AtWork
    <3>2. ASSUME NEW p \in Path, NEW u \in checkpoints'[Len(checkpoints) + 1][p] \cap UserLine
          PROVE  origin'[u] = "mid" \/ (origin'[u] = "early" /\ u \in preWork'[p])
      <4> DEFINE c == checkpoints'[Len(checkpoints) + 1][p]
      <4>1. CASE p \in recorded /\ c = index[p]
        <5>1. u \in Lines(p)
          BY <4>1 DEF Lines
        <5>2. origin[u] \in {"early", "mid"}
          BY <1>0, <1>i, <3>1, <5>1 DEF Unwritten, ApplierTypes
        <5> QED
          BY <1>i, <3>1, <4>1, <5>1, <5>2 DEF EarlyKept
      <4>2. CASE c = HeadTree[p]
        BY <4>2, HeadFacts
      <4>3. ASSUME NEW n \in DOMAIN checkpoints, c = checkpoints[n][p]
            PROVE  origin'[u] = "mid" \/ (origin'[u] = "early" /\ u \in preWork'[p])
        BY <2>1, <4>3
      <4> QED
        BY <2>2, <4>1, <4>2, <4>3, CommittedTree
    <3> QED
      BY <2>1, <2>2, <3>2, CommittedTree DEF CommittedInTask
  <2>3. CASE ~CommitCheckpoint
    BY <2>1, <2>3, SameCheckpoints DEF CommittedInTask
  <2> QED
    BY <2>2, <2>3
<1>5. NoneLate'
  <2> SUFFICES ASSUME step' = "reverting", NEW p \in todo', NEW u \in UserLine, u \in worktree'[p]
               PROVE  origin'[u] # "late"
    BY DEF NoneLate
  <2>1. CASE step = "reverting"
    <3>1. u \in worktree[p] \/ origin'[u] # origin[u]
      <4>1. ASSUME NEW q \in Path, NEW v \in UserLine, UserTypes(q, v)
            PROVE  u \in worktree[p] \/ origin'[u] # origin[u]
        <5>1. p \in Path
          BY ApplierTypesStep DEF ApplierTypes
        <5>2. /\ worktree'[p] = IF p = q THEN worktree[q] \cup {v} ELSE worktree[p]
              /\ origin[v] = "untyped" /\ origin'[v] = Now
          BY <1>0, <4>1, <5>1 DEF UserTypes, ApplierTypes, Tree
        <5> QED
          BY <5>2, NowFacts
      <4>2. ASSUME NEW q \in Path, RevertFile(q)
            PROVE  u \in worktree[p]
        <5>1. p \in Path /\ p # q
          BY <4>2, ApplierTypesStep DEF ApplierTypes, RevertFile
        <5> QED
          BY <1>0, <4>2, <5>1 DEF RevertFile, ApplierTypes, Tree
      <4> QED
        BY <2>1, <4>1, <4>2 DEF ApplierNext, User, TaskStep, Revert, applierVars, UserStages,
          Record, RecordFails, Materialize, WriteFile, WriteIndex, CommitCheckpoint, SubtaskFails,
          TaskEnds, RevertRefuses, RevertStarts, RevertEnds, RevertFails, Rejectable
    <3>2. p \in todo
      BY <2>1 DEF ApplierNext, User, TaskStep, Revert, applierVars, UserTypes, UserStages,
          Record, RecordFails, Materialize, WriteFile, WriteIndex, CommitCheckpoint, SubtaskFails,
          TaskEnds, RevertRefuses, RevertStarts, RevertFile, RevertEnds, RevertFails, Rejectable
    <3>3. CASE origin'[u] = origin[u]
      BY <1>i, <2>1, <3>1, <3>2, <3>3 DEF NoneLate
    <3>4. CASE origin'[u] # origin[u]
      BY <2>1, <3>4, TypedOnlyByUser, NowFacts
    <3> QED
      BY <3>3, <3>4
  <2>2. CASE RevertStarts
    <3>1. /\ p \in Delta /\ Owned(p) /\ worktree' = worktree /\ origin' = origin
      BY <2>2 DEF RevertStarts, userVars
    <3>2. u \in Last(checkpoints)[p]
      BY <3>1 DEF Owned
    <3>3. origin[u] \in {"mid", "early"}
      BY <1>0, <1>i, <3>1, <3>2, DeltaFacts DEF CommittedInTask, ApplierTypes
    <3> QED
      BY <3>1, <3>3
  <2>3. step = "reverting" \/ RevertStarts
    BY DEF ApplierNext, User, TaskStep, Revert, applierVars, UserTypes, UserStages,
      Record, RecordFails, Materialize, WriteFile, WriteIndex, CommitCheckpoint, SubtaskFails,
      TaskEnds, RevertRefuses, RevertFile, RevertEnds, RevertFails
  <2> QED
    BY <2>1, <2>2, <2>3
<1> QED
  BY <1>1, <1>2, <1>3, <1>4, <1>5 DEF UserLinesInv


LEMMA ApplierInductive == ApplierSpec => [](PathsInv /\ TaskLinesInv /\ UserLinesInv)
<1>1. PathsInv /\ TaskLinesInv /\ UserLinesInv /\ [ApplierNext]_applierVars
          => (PathsInv /\ TaskLinesInv /\ UserLinesInv)'
  BY PathsStep, TaskLinesStep, UserLinesStep
<1> QED
  BY <1>1, ApplierInitially, PTL DEF ApplierSpec

(***************************************************************************)
(* A reject works from snapshots that are older than the task and from     *)
(* checkpoints of the task alone (record_pre_task_state, which keeps a     *)
(* path's first snapshot, and commit_checkpoint, which builds on the       *)
(* preceding checkpoint and not on the index).                             *)
(***************************************************************************)
THEOREM SnapshotsAreOlder == ApplierSpec => []SnapshotInv
<1>1. PathsInv /\ TaskLinesInv => SnapshotInv
  BY DEF PathsInv, ApplierTypes, TaskLinesInv, Free, SnapshotInv, ApplierTypeOK,
         SnapshotPredatesTask
<1> QED
  BY <1>1, ApplierInductive, PTL

(***************************************************************************)
(* revert_task: after a reject that succeeded, no path the checkpoints     *)
(* changed between them holds a line of the task, on disk or in the index, *)
(* whatever failed, was cut off, or was edited and staged in between.      *)
(***************************************************************************)
THEOREM RejectsAreComplete == ApplierSpec => []RejectRemovesTask
<1>1. PathsInv /\ TaskLinesInv => RejectRemovesTask
  BY DEF TaskLinesInv, Free, RejectRemovesTask, Delta
<1> QED
  BY <1>1, ApplierInductive, PTL

(***************************************************************************)
(* revert_task: a reject takes away no line the user typed before the task *)
(* began or after it ended.                                                *)
(***************************************************************************)
THEOREM RejectsSpareTheUser == ApplierSpec => RejectKeepsUserWork
<1> DEFINE Spares == step = "reverting" =>
              \A p \in Path, u \in UserLine :
                 u \in worktree[p] /\ origin[u] \in {"early", "late"} => u \in worktree'[p]
<1>1. PathsInv /\ UserLinesInv /\ [ApplierNext]_applierVars => Spares
  <2> SUFFICES ASSUME PathsInv, UserLinesInv, [ApplierNext]_applierVars, step = "reverting",
                      NEW p \in Path, NEW u \in UserLine,
                      u \in worktree[p], origin[u] \in {"early", "late"}
               PROVE  u \in worktree'[p]
    OBVIOUS
  <2>1. ApplierTypes /\ StepInv /\ Delta \subseteq recorded /\ EarlyKept /\ NoneLate
    BY DeltaRecorded DEF PathsInv, UserLinesInv
  <2>2. CASE worktree' = worktree
    BY <2>2
  <2>3. ASSUME NEW q \in Path, NEW v \in UserLine, UserTypes(q, v) PROVE u \in worktree'[p]
    BY <2>1, <2>3 DEF UserTypes, ApplierTypes, Tree
  <2>4. ASSUME NEW q \in Path, RevertFile(q) PROVE u \in worktree'[p]
    <3>1. q \in todo /\ q \in recorded /\ worktree' = [worktree EXCEPT ![q] = preWork[q]]
      BY <2>1, <2>4 DEF RevertFile, StepInv
    <3>2. p = q => u \in preWork[q]
      BY <2>1, <3>1 DEF EarlyKept, NoneLate, Lines
    <3> QED
      BY <2>1, <3>1, <3>2 DEF ApplierTypes, Tree
  <2> QED
    BY <2>2, <2>3, <2>4 DEF ApplierNext, User, TaskStep, Revert, applierVars, UserStages,
      Record, RecordFails, Materialize, WriteFile, WriteIndex, CommitCheckpoint, SubtaskFails,
      TaskEnds, RevertRefuses, RevertStarts, RevertEnds, RevertFails
<1>2. PathsInv /\ UserLinesInv /\ [ApplierNext]_applierVars => [Spares]_applierVars
  BY <1>1
<1> QED
  BY <1>2, ApplierInductive, PTL DEF ApplierSpec, RejectKeepsUserWork

=============================================================================

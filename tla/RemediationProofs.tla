-------------------------- MODULE RemediationProofs --------------------------
(***************************************************************************)
(* What Remediation promises for any number of resources, findings runs,   *)
(* scans and users.                                                        *)
(***************************************************************************)
EXTENDS Remediation, TLAPS

-----------------------------------------------------------------------------
(* Types *)

\* The rule has findings once it was evaluated, where it has seen the fault.
HitsAreFaults ==
  \A s \in Engines :
    /\ engine[s].step # "evaluated" => engine[s].hits = {}
    /\ \A i \in engine[s].hits : engine[s].rows[i] \in Severities

TypeInv == TypeOK /\ HitsAreFaults

LEMMA StatusTables ==
  /\ FindingStatus \in [Outcomes -> Statuses]
  /\ RequestStatus \in [Outcomes -> Ended]
  /\ "OUTPUTS_CAPTURED" \notin Ended
  /\ "POST_VALIDATION_RUNNING" \notin Ended
BY DEF FindingStatus, RequestStatus, Outcomes, Ended, Statuses, Active

LEMMA IdleTyped ==
  /\ IdleEngine \in Engine
  /\ IdleEngine.hits = {}
  /\ IdleScan \in Scan
  /\ IdlePatch \in Patch
  /\ NoFinding \in Findings
BY DEF IdleEngine, Engine, IdleScan, Scan, IdlePatch, Patch, NoFinding, Findings, Severities,
       Rows, Answers, Verdicts, Statuses

\* A commit of an engine's upserts leaves findings.
LEMMA UpsertsTyped ==
  ASSUME TypeInv, NEW s \in Engines
  PROVE  UpsertedFindings(s) \in [Items -> Findings]
<1> SUFFICES ASSUME NEW i \in Items, i \in engine[s].hits
             PROVE  UpsertedFinding(s, i) \in Findings
  BY DEF UpsertedFindings, TypeInv, TypeOK
<1>1. engine[s] \in Engine /\ engine[s].rows[i] \in Severities /\ finding[i] \in Findings
  BY DEF TypeInv, TypeOK, HitsAreFaults
<1>2. CASE i \in New(s)
  BY <1>1, <1>2 DEF UpsertedFinding, Findings, Engine, Statuses, Active
<1>3. CASE i \notin New(s)
  <2> DEFINE severity == Flushed(finding[i].severity, engine[s].seen[i].severity, engine[s].rows[i])
  <2>1. severity \in Severities
    BY <1>1 DEF Flushed, Findings
  <2>2. UpsertedFinding(s, i) = [finding[i] EXCEPT !.severity = severity, !.fresh = engine[s].fresh]
    BY <1>3 DEF UpsertedFinding
  <2> HIDE DEF severity
  <2> QED
    BY <1>1, <2>1, <2>2 DEF Findings, Engine
<1> QED
  BY <1>2, <1>3

\* A commit of a scan's upserts leaves rows.
LEMMA StoreTyped ==
  ASSUME TypeInv, NEW s \in Scanners
  PROVE  Upserted(s) \in [Items -> Rows]
<1>1. scan[s] \in Scan /\ resource \in [Items -> Rows]
  BY DEF TypeInv, TypeOK
<1> QED
  BY <1>1 DEF Upserted, Flushed, Scan, Answers, Rows

\* Steps and rows of the validation that leave it well-typed.
LEMMA ProceedTyped ==
  ASSUME TypeInv, NEW step \in Steps, Proceed(step)
  PROVE  validation' \in Validation /\ validation'.step = step
BY DEF TypeInv, TypeOK, Proceed, Validation

LEMMA LosesTyped ==
  ASSUME TypeInv, Loses
  PROVE  validation' \in Validation /\ engine' \in [Engines -> Engine] /\ HitsAreFaults'
<1>1. validation' \in Validation
  BY DEF TypeInv, TypeOK, Loses, Validation, Steps
<1>2. engine' \in [Engines -> Engine] /\ HitsAreFaults'
  BY IdleTyped DEF TypeInv, TypeOK, Loses, HitsAreFaults, Engines
<1> QED
  BY <1>1, <1>2

LEMMA AbortTyped ==
  ASSUME TypeInv, NEW s \in Engines, Abort(s)
  PROVE  validation' \in Validation /\ engine' \in [Engines -> Engine] /\ HitsAreFaults'
<1>1. CASE s = Validator
  BY <1>1, LosesTyped DEF Abort
<1>2. CASE s # Validator
  BY <1>2, IdleTyped DEF Abort, TypeInv, TypeOK, HitsAreFaults
<1> QED
  BY <1>1, <1>2

LEMMA AfterTyped ==
  ASSUME TypeInv
  PROVE  After \in Findings
<1>1. Original \in Items /\ Validator \in Engines
  BY RemediationAssumption DEF Engines
<1>2. CASE Original \in engine[Validator].hits
  <2>1. engine[Validator].seen[Original] \in Findings
    BY <1>1 DEF TypeInv, TypeOK, Engine
  <2>2. engine[Validator].rows[Original] \in Severities
    BY <1>1, <1>2 DEF TypeInv, HitsAreFaults
  <2> QED
    BY <1>2, <2>1, <2>2 DEF After, Findings
<1>3. CASE Original \notin engine[Validator].hits
  BY <1>1, <1>3 DEF After, TypeInv, TypeOK
<1> QED
  BY <1>2, <1>3

\* A column that is flushed has the value set, the one read, or the one committed.
LEMMA FinishTyped ==
  ASSUME TypeInv, NEW current \in {"none"} \cup Statuses, NEW raised \in BOOLEAN,
         NEW status \in StatusesOnFinish(current, raised)
  PROVE  status \in {"none"} \cup Statuses
<1>1. FindingStatus[validation.outcome] \in Statuses /\ "validation_failed" \in Statuses
  BY StatusTables DEF TypeInv, TypeOK, Validation, Statuses
<1> QED
  BY <1>1 DEF StatusesOnFinish, Flushed

\* What the evaluation of the rule makes of an engine.
LEMMA EvaluateSets ==
  ASSUME TypeInv, NEW s \in Engines, Evaluate(s)
  PROVE  /\ engine' \in [Engines -> Engine]
         /\ \A t \in Engines : t # s => engine'[t] = engine[t]
         /\ engine'[s].step = "evaluated"
         /\ engine'[s].rows = engine[s].rows
         /\ engine'[s].locks = engine[s].locks
         /\ \A i \in engine'[s].hits : /\ engine[s].rows[i] \in Severities
                                      /\ engine'[s].seen[i] = finding[i]
         /\ \A i \in Items :
              engine[s].rows[i] \in Severities /\ ~engine'[s].errors => i \in engine'[s].hits
<1>1. PICK errors \in Erroneous :
        LET hits == {i \in Items \ errors : engine[s].rows[i] \in Severities}
        IN  engine' = [engine EXCEPT
              ![s].step = "evaluated",
              ![s].hits = hits,
              ![s].seen = [i \in Items |-> IF i \in hits THEN finding[i] ELSE NoFinding],
              ![s].fresh = validation.step # "idle",
              ![s].errors = errors # {}]
  BY DEF Evaluate
<1> DEFINE hits == {i \in Items \ errors : engine[s].rows[i] \in Severities}
           seen == [i \in Items |-> IF i \in hits THEN finding[i] ELSE NoFinding]
           fresh == validation.step # "idle"
           failed == errors # {}
           e == [engine[s] EXCEPT !.step = "evaluated", !.hits = hits, !.seen = seen,
                                  !.fresh = fresh, !.errors = failed]
<1>2. engine' = [engine EXCEPT ![s] = e]
  BY <1>1 DEF TypeInv, TypeOK
<1>3. hits \in SUBSET Items /\ seen \in [Items -> Findings]
  BY IdleTyped DEF TypeInv, TypeOK
<1>4. fresh \in BOOLEAN /\ failed \in BOOLEAN
  OBVIOUS
<1>5. engine[s] \in Engine
  BY DEF TypeInv, TypeOK
<1>6. /\ e \in Engine /\ e.step = "evaluated" /\ e.rows = engine[s].rows
      /\ e.locks = engine[s].locks /\ e.hits = hits /\ e.seen = seen /\ e.errors = failed
  <2> HIDE DEF hits, seen, fresh, failed
  <2> QED
    BY <1>3, <1>4, <1>5 DEF Engine
<1>7. engine'[s] = e /\ \A t \in Engines : t # s => engine'[t] = engine[t]
  <2> HIDE DEF e
  <2> QED
    BY <1>2 DEF TypeInv, TypeOK
<1>8. engine' \in [Engines -> Engine]
  <2> HIDE DEF e
  <2> QED
    BY <1>2, <1>6 DEF TypeInv, TypeOK
<1>9. \A i \in hits : engine[s].rows[i] \in Severities /\ seen[i] = finding[i]
  OBVIOUS
<1>10. \A i \in Items : engine[s].rows[i] \in Severities /\ ~failed => i \in hits
  OBVIOUS
<1> HIDE DEF e, hits, seen, failed, fresh
<1> QED
  BY <1>6, <1>7, <1>8, <1>9, <1>10

LEMMA TypeInit == Init => TypeInv
<1> SUFFICES ASSUME Init PROVE TypeInv
  OBVIOUS
<1>1. finding \in [Items -> Findings]
  <2>1. [NoFinding EXCEPT !.status = "open", !.severity = "high"] \in Findings
    BY DEF NoFinding, Findings, Statuses, Active, Severities
  <2> QED
    BY <2>1, IdleTyped DEF Init
<1>2. validation \in Validation
  BY IdleTyped DEF Init, Validation, Steps, Severities, Answers, Outcomes
<1>3. HitsAreFaults
  BY IdleTyped DEF Init, HitsAreFaults
<1> QED
  BY <1>1, <1>2, <1>3, IdleTyped DEF Init, TypeInv, TypeOK

LEMMA TypeStep == TypeInv /\ [Next]_vars => TypeInv'
<1> SUFFICES ASSUME TypeInv, [Next]_vars PROVE TypeInv'
  OBVIOUS
<1>0. Original \in Items /\ Validator \in Engines /\ Validator \in Scanners
  BY RemediationAssumption DEF Engines, Scanners
<1>1. CASE Begin
  <2>1. finding' \in [Items -> Findings]
    BY <1>1 DEF Begin, TypeInv, TypeOK, Findings
  <2>2. validation' \in Validation
    BY <1>0, <1>1 DEF Begin, TypeInv, TypeOK, Validation, Steps, Findings
  <2>3. engine' \in [Engines -> Engine] /\ HitsAreFaults'
    <3>1. \A s \in Engines :
            LET e == [engine[s] EXCEPT !.fresh = FALSE]
            IN  /\ e \in Engine
                /\ e.step = engine[s].step /\ e.hits = engine[s].hits /\ e.rows = engine[s].rows
      BY DEF TypeInv, TypeOK, Engine
    <3>2. engine' = [s \in Engines |-> [engine[s] EXCEPT !.fresh = FALSE]]
      BY <1>1 DEF Begin
    <3> QED
      BY <3>1, <3>2 DEF TypeInv, HitsAreFaults
  <2> QED
    BY <1>1, <2>1, <2>2, <2>3 DEF Begin, TypeInv, TypeOK, others
<1>2. CASE Announce
  <2> DEFINE status == Flushed(finding[Original].status, validation.seen.status, "validating")
  <2>1. status \in {"none"} \cup Statuses
    BY <1>0 DEF Flushed, TypeInv, TypeOK, Findings, Statuses, Active
  <2>2. finding' = [finding EXCEPT ![Original] = [finding[Original] EXCEPT !.status = status]]
    BY <1>0, <1>2 DEF Announce, TypeInv, TypeOK
  <2>3. [finding[Original] EXCEPT !.status = status] \in Findings
    <3> HIDE DEF status
    <3> QED BY <1>0, <2>1 DEF TypeInv, TypeOK, Findings
  <2>4. finding' \in [Items -> Findings]
    BY <2>2, <2>3 DEF TypeInv, TypeOK
  <2>5. validation' \in Validation
    BY <1>2, ProceedTyped DEF Announce, Steps
  <2> QED
    BY <1>2, <2>4, <2>5 DEF Announce, TypeInv, TypeOK, HitsAreFaults, others
<1>3. CASE Rescan
  <2>1. PICK answers \in Collections :
          /\ Collected(Validator, answers)
          /\ validation' = [validation EXCEPT !.step = "collected", !.evidence = answers[Original]]
    BY <1>3 DEF Rescan
  <2>2. answers \in [Items -> Answers]
    BY RemediationAssumption
  <2>3. validation' \in Validation
    BY <1>0, <2>1, <2>2 DEF TypeInv, TypeOK, Validation, Steps
  <2>4. scan' \in [Scanners -> Scan]
    BY <2>1, <2>2 DEF Collected, TypeInv, TypeOK, Scan
  <2> QED
    BY <1>3, <2>3, <2>4 DEF Rescan, TypeInv, TypeOK, HitsAreFaults
<1>4. CASE RescanFails
  BY <1>4, ProceedTyped DEF RescanFails, Steps, TypeInv, TypeOK, HitsAreFaults, others
<1>5. CASE StoreRescan
  <2>1. scan' \in [Scanners -> Scan]
    BY <1>5, IdleTyped DEF StoreRescan, Stored, TypeInv, TypeOK
  <2>2. CASE Collides(Validator)
    BY <1>5, <2>1, <2>2, LosesTyped DEF StoreRescan, TypeInv, TypeOK
  <2>3. CASE ~Collides(Validator)
    BY <1>0, <1>5, <2>1, <2>3, StoreTyped, ProceedTyped
       DEF StoreRescan, TypeInv, TypeOK, HitsAreFaults, Steps
  <2> QED
    BY <2>2, <2>3
<1>6. ASSUME NEW s \in Engines, Load(s)
      PROVE  TypeInv'
  <2>1. engine' = [engine EXCEPT ![s] = [engine[s] EXCEPT !.step = "loaded", !.rows = resource]]
    BY <1>6 DEF Load, TypeInv, TypeOK
  <2>2. [engine[s] EXCEPT !.step = "loaded", !.rows = resource] \in Engine
    BY DEF TypeInv, TypeOK, Engine
  <2> QED
    BY <1>6, <2>1, <2>2 DEF Load, TypeInv, TypeOK, HitsAreFaults, others
<1>7. CASE Compare
  <2>1. validation' \in Validation
    BY <1>7, AfterTyped DEF Compare, TypeInv, TypeOK, Validation, Steps, Outcome, Outcomes
  <2> QED
    BY <1>7, <2>1 DEF Compare, TypeInv, TypeOK, HitsAreFaults, others
<1>8. CASE Finish
  <2>1. PICK raised \in BOOLEAN :
          /\ request' = RequestStatus[Verdict(raised)]
          /\ \E status \in StatusesOnFinish(finding[Original].status, raised) :
               finding' = [UpsertedFindings(Validator) EXCEPT
                 ![Original].status = status,
                 ![Original].dated = Dated(@, validation.seen.dated, validation.outcome = "RESOLVED")]
    BY <1>8 DEF Finish
  <2>2. PICK status \in StatusesOnFinish(finding[Original].status, raised) :
          /\ request' = RequestStatus[Verdict(raised)]
          /\ finding' = [UpsertedFindings(Validator) EXCEPT
               ![Original].status = status,
               ![Original].dated = Dated(@, validation.seen.dated, validation.outcome = "RESOLVED")]
    BY <2>1
  <2>3. request' \in Ended
    BY <2>2, StatusTables DEF Verdict, TypeInv, TypeOK, Validation, Outcomes
  <2>4. finding[Original].status \in {"none"} \cup Statuses
    BY <1>0 DEF TypeInv, TypeOK, Findings
  <2>5. status \in {"none"} \cup Statuses
    BY <2>2, <2>4, FinishTyped
  <2>6. UpsertedFindings(Validator) \in [Items -> Findings]
    BY <1>0, UpsertsTyped
  <2>7. finding' \in [Items -> Findings]
    BY <1>0, <2>2, <2>5, <2>6 DEF Findings, Dated
  <2>8. validation' \in Validation
    BY <1>8, IdleTyped DEF Finish, TypeInv, TypeOK, Validation, Steps
  <2>9. engine' \in [Engines -> Engine] /\ HitsAreFaults'
    BY <1>8, IdleTyped DEF Finish, TypeInv, TypeOK, HitsAreFaults
  <2> QED
    BY <1>8, <2>3, <2>7, <2>8, <2>9 DEF Finish, TypeInv, TypeOK, others
<1>9. ASSUME NEW s \in Engines, Evaluate(s)
      PROVE  TypeInv'
  <2>1. HitsAreFaults'
    BY <1>9, EvaluateSets DEF TypeInv, HitsAreFaults
  <2> QED
    BY <1>9, <2>1, EvaluateSets DEF Evaluate, TypeInv, TypeOK, others
<1>10. ASSUME NEW s \in Engines, NEW i \in Items, Flush(s, i)
       PROVE  TypeInv'
  <2>1. engine' = [engine EXCEPT ![s] = [engine[s] EXCEPT !.locks = engine[s].locks \cup {i}]]
    BY <1>10 DEF Flush, TypeInv, TypeOK
  <2>2. [engine[s] EXCEPT !.locks = engine[s].locks \cup {i}] \in Engine
    BY DEF TypeInv, TypeOK, Engine
  <2> QED
    <3> DEFINE e == [engine[s] EXCEPT !.locks = engine[s].locks \cup {i}]
    <3>1. e.step = engine[s].step /\ e.hits = engine[s].hits /\ e.rows = engine[s].rows
      BY DEF TypeInv, TypeOK, Engine
    <3> HIDE DEF e
    <3>2. engine' \in [Engines -> Engine] /\ HitsAreFaults'
      BY <2>1, <2>2, <3>1 DEF TypeInv, TypeOK, HitsAreFaults, e
    <3> QED
      BY <1>10, <3>2 DEF Flush, TypeInv, TypeOK, others
<1>11. ASSUME NEW s \in Engines, CommitRun(s)
       PROVE  TypeInv'
  <2>1. finding' \in [Items -> Findings]
    BY <1>11, UpsertsTyped DEF CommitRun
  <2>2. engine' \in [Engines -> Engine] /\ HitsAreFaults'
    BY <1>11, IdleTyped DEF CommitRun, TypeInv, TypeOK, HitsAreFaults
  <2> QED
    BY <1>11, <2>1, <2>2 DEF CommitRun, TypeInv, TypeOK, Disturb, others
<1>12. ASSUME NEW s \in Engines, FlushCollides(s) \/ Deadlocks(s)
       PROVE  TypeInv'
  BY <1>12, AbortTyped DEF FlushCollides, Deadlocks, TypeInv, TypeOK, others
<1>13. ASSUME NEW s \in Scans, Collect(s)
       PROVE  TypeInv'
  <2>1. PICK answers \in Collections : Collected(s, answers)
    BY <1>13 DEF Collect
  <2>2. answers \in [Items -> Answers]
    BY RemediationAssumption
  <2>3. scan' \in [Scanners -> Scan]
    BY <2>1, <2>2 DEF Collected, TypeInv, TypeOK, Scan
  <2> QED
    BY <1>13, <2>3 DEF Collect, TypeInv, TypeOK, HitsAreFaults
<1>14. ASSUME NEW s \in Scans, Store(s)
       PROVE  TypeInv'
  <2>1. scan' \in [Scanners -> Scan]
    BY <1>14, IdleTyped DEF Store, Stored, TypeInv, TypeOK
  <2>2. resource' \in [Items -> Rows] /\ disturbed' \subseteq {"run", "scan", "patch"}
    BY <1>14, StoreTyped DEF Store, Scanners, Disturb, TypeInv, TypeOK
  <2> QED
    BY <1>14, <2>1, <2>2 DEF Store, TypeInv, TypeOK, HitsAreFaults
<1>15. ASSUME NEW s \in Patches, LoadForPatch(s)
       PROVE  TypeInv'
  <2>1. patch' \in [Patches -> Patch]
    BY <1>0, <1>15 DEF LoadForPatch, TypeInv, TypeOK, Patch, Findings
  <2> QED
    BY <1>15, <2>1 DEF LoadForPatch, TypeInv, TypeOK, HitsAreFaults
<1>16. ASSUME NEW s \in Patches, CommitPatch(s)
       PROVE  TypeInv'
  <2>1. PICK status \in Choices :
          finding' = [finding EXCEPT
            ![Original].status = Flushed(@, patch[s].status, status),
            ![Original].dated = Dated(@, patch[s].dated, status = "resolved")]
    BY <1>16 DEF CommitPatch
  <2>2. Flushed(finding[Original].status, patch[s].status, status) \in {"none"} \cup Statuses
    BY <1>0, RemediationAssumption DEF Flushed, TypeInv, TypeOK, Findings
  <2>3. Dated(finding[Original].dated, patch[s].dated, status = "resolved") \in BOOLEAN
    BY DEF Dated
  <2>4. finding' \in [Items -> Findings]
    <3> DEFINE statusSet == Flushed(finding[Original].status, patch[s].status, status)
               dateSet == Dated(finding[Original].dated, patch[s].dated, status = "resolved")
               row == [finding[Original] EXCEPT !.status = statusSet, !.dated = dateSet]
    <3>1. finding' = [finding EXCEPT ![Original] = row]
      BY <1>0, <2>1 DEF TypeInv, TypeOK
    <3>2. row \in Findings
      <4> HIDE DEF statusSet, dateSet
      <4> QED BY <1>0, <2>2, <2>3 DEF TypeInv, TypeOK, Findings, statusSet, dateSet
    <3> QED
      BY <1>0, <3>1, <3>2 DEF TypeInv, TypeOK
  <2>5. patch' \in [Patches -> Patch]
    BY <1>16, IdleTyped DEF CommitPatch, TypeInv, TypeOK
  <2> QED
    BY <1>16, <2>4, <2>5 DEF CommitPatch, TypeInv, TypeOK, HitsAreFaults, Disturb
<1>17. CASE Die
  <2>1. validation' \in Validation
    BY <1>17 DEF Die, Proceed, TypeInv, TypeOK, Validation, Steps
  <2> QED
    BY <1>17, <2>1, IdleTyped DEF Die, TypeInv, TypeOK, HitsAreFaults
<1>18. CASE UNCHANGED vars
  BY <1>18 DEF vars, TypeInv, TypeOK, HitsAreFaults
<1> QED
  BY <1>0, <1>1, <1>2, <1>3, <1>4, <1>5, <1>6, <1>7, <1>8, <1>9, <1>10, <1>11, <1>12, <1>13,
     <1>14, <1>15, <1>16, <1>17, <1>18 DEF Next, Validate, Advance, Engines

\* Every state is well-typed, and the rule has findings only where it has seen
\* the fault, for any resources, sessions, collections and faults.
THEOREM TypeCorrect == Spec => [](TypeOK /\ HitsAreFaults)
<1>1. TypeInv => TypeOK /\ HitsAreFaults
  BY DEF TypeInv
<1> QED
  BY <1>1, TypeInit, TypeStep, PTL DEF Spec

-----------------------------------------------------------------------------
(* Findings runs and scans set no status *)

\* A session has locked only findings it has, alone, and none of those that it
\* is going to insert has been inserted by another.
LocksHold ==
  /\ \A s \in Engines : engine[s].locks \subseteq engine[s].hits
  /\ \A s, t \in Engines : s # t => engine[s].locks \cap engine[t].locks = {}
  /\ \A s \in Engines : \A i \in engine[s].locks :
       engine[s].seen[i].status = "none" => finding[i].status = "none"

\* How far the request and the validator's engine are at each step of the command.
PhasesHold ==
  /\ validation.step \in {"idle", "started"} => request = "OUTPUTS_CAPTURED"
  /\ validation.step \in {"announced", "collected", "stored", "failed", "compared"}
       => request = "POST_VALIDATION_RUNNING"
  /\ validation.step \notin {"stored", "compared"} => engine[Validator].step = "idle"
  /\ validation.step = "compared"
       => /\ engine[Validator].step # "loaded"
          /\ engine[Validator].hits \subseteq engine[Validator].locks

LockInv == LocksHold /\ PhasesHold

\* A flushed upsert inserts a finding or keeps its status and its date.
LEMMA UpsertsKeepStatuses ==
  ASSUME TypeInv, LocksHold, NEW s \in Engines, engine[s].hits \subseteq engine[s].locks,
         NEW i \in Items
  PROVE  /\ Exists(i) => /\ UpsertedFindings(s)[i].status = finding[i].status
                         /\ UpsertedFindings(s)[i].dated = finding[i].dated
         /\ i \notin engine[s].locks => UpsertedFindings(s)[i] = finding[i]
<1>1. CASE i \notin engine[s].hits
  BY <1>1 DEF UpsertedFindings
<1>2. CASE i \in engine[s].hits /\ i \in New(s)
  BY <1>2 DEF LocksHold, New, Exists
<1>3. CASE i \in engine[s].hits /\ i \notin New(s)
  <2> DEFINE severity == Flushed(finding[i].severity, engine[s].seen[i].severity, engine[s].rows[i])
  <2>1. UpsertedFindings(s)[i] = [finding[i] EXCEPT !.severity = severity, !.fresh = engine[s].fresh]
    BY <1>3 DEF UpsertedFindings, UpsertedFinding
  <2> HIDE DEF severity
  <2>2. /\ UpsertedFindings(s)[i].status = finding[i].status
        /\ UpsertedFindings(s)[i].dated = finding[i].dated
    BY <2>1 DEF TypeInv, TypeOK, Findings
  <2> QED
    BY <1>3, <2>2
<1> QED
  BY <1>1, <1>2, <1>3

\* A session that has not flushed holds nothing.
LEMMA IdleHoldsNothing ==
  ASSUME TypeInv, LocksHold, NEW s \in Engines, engine[s].step # "evaluated"
  PROVE  engine[s].hits = {} /\ engine[s].locks = {}
BY DEF TypeInv, HitsAreFaults, LocksHold

\* Rolling back releases the locks.
LEMMA ReleaseHolds ==
  ASSUME TypeInv, LocksHold, NEW s \in Engines,
         engine' = [engine EXCEPT ![s] = IdleEngine],
         \A i \in Items : i \notin engine[s].locks => finding'[i] = finding[i]
  PROVE  LocksHold'
<1>1. \A t \in Engines : t # s => engine'[t] = engine[t]
  BY DEF TypeInv, TypeOK
<1>2. engine'[s].locks = {} /\ engine'[s].hits = {}
  BY DEF TypeInv, TypeOK, IdleEngine
<1>3. \A t \in Engines : engine[t].locks \subseteq Items
  BY DEF TypeInv, TypeOK, Engine
<1> QED
  BY <1>1, <1>2, <1>3 DEF LocksHold

\* An engine whose locks are kept, and whose findings are as they were, holds them.
LEMMA UntouchedHolds ==
  ASSUME LocksHold, TypeInv,
         \A s \in Engines : /\ engine'[s].locks = engine[s].locks
                            /\ engine'[s].hits = engine[s].hits
                            /\ engine'[s].seen = engine[s].seen,
         \A s \in Engines : \A i \in engine[s].locks : finding'[i].status = finding[i].status
  PROVE  LocksHold'
BY DEF LocksHold

LEMMA LockInit == Init => LockInv
<1> SUFFICES ASSUME Init PROVE LockInv
  OBVIOUS
<1>1. Validator \in Engines
  BY DEF Engines
<1> QED
  BY <1>1 DEF Init, LockInv, LocksHold, PhasesHold, IdleEngine

LEMMA AbortHolds ==
  ASSUME TypeInv, LockInv, NEW s \in Engines, Abort(s), UNCHANGED <<finding, request>>
  PROVE  LockInv'
<1>1. engine' = [engine EXCEPT ![s] = IdleEngine]
  BY DEF Abort, Loses
<1>2. LocksHold'
  BY <1>1, ReleaseHolds DEF LockInv
<1>3. PhasesHold'
  <2>1. CASE s = Validator
    <3>1. validation'.step = "lost" /\ engine'[Validator].step = "idle"
      BY <1>1, <2>1 DEF Abort, Loses, TypeInv, TypeOK, Validation, Engines, IdleEngine
    <3> QED
      BY <3>1 DEF PhasesHold
  <2>2. CASE s # Validator
    <3>1. engine'[Validator] = engine[Validator] /\ validation' = validation
      BY <1>1, <2>2 DEF Abort, TypeInv, TypeOK, Engines
    <3> QED
      BY <3>1 DEF PhasesHold, LockInv
  <2> QED
    BY <2>1, <2>2
<1> QED
  BY <1>2, <1>3 DEF LockInv

\* A step of the command itself, which leaves the engines and the findings alone.
LEMMA CommandHolds ==
  ASSUME TypeInv, LockInv, NEW step \in Steps, validation'.step = step,
         engine' = engine, finding' = finding, request' = request,
         \/ validation.step = "announced" /\ step \in {"collected", "failed"}
         \/ validation.step = "collected" /\ step = "stored"
         \/ validation.step \in {"failed", "stored"} /\ step = "compared"
            /\ engine[Validator].step # "loaded"
            /\ engine[Validator].hits \subseteq engine[Validator].locks
  PROVE  LockInv'
<1>1. LocksHold'
  BY UntouchedHolds DEF LockInv
<1>2. PhasesHold'
  BY DEF LockInv, PhasesHold
<1> QED
  BY <1>1, <1>2 DEF LockInv

LEMMA LockStep == TypeInv /\ LockInv /\ [Next]_vars => LockInv'
<1> SUFFICES ASSUME TypeInv, LockInv, [Next]_vars PROVE LockInv'
  OBVIOUS
<1> USE DEF LockInv
<1>0. Original \in Items /\ Validator \in Engines
  BY RemediationAssumption DEF Engines
<1>1. CASE Begin
  <2>1. \A s \in Engines : LET e == [engine[s] EXCEPT !.fresh = FALSE]
                           IN  /\ e.locks = engine[s].locks /\ e.hits = engine[s].hits
                               /\ e.seen = engine[s].seen /\ e.step = engine[s].step
    BY DEF TypeInv, TypeOK, Engine
  <2>2. engine' = [s \in Engines |-> [engine[s] EXCEPT !.fresh = FALSE]]
    BY <1>1 DEF Begin
  <2>3. \A i \in Items : finding'[i].status = finding[i].status
    BY <1>1 DEF Begin, TypeInv, TypeOK, Findings
  <2>4. \A s \in Engines : engine[s].locks \subseteq Items
    BY DEF TypeInv, TypeOK, Engine
  <2>5. LocksHold'
    BY <2>1, <2>2, <2>3, <2>4, UntouchedHolds
  <2>6. validation.step = "idle" /\ validation'.step = "started" /\ request' = request
    BY <1>1 DEF Begin, TypeInv, TypeOK, Validation
  <2>7. engine'[Validator].step = engine[Validator].step
    BY <1>0, <2>1, <2>2
  <2> QED
    BY <2>5, <2>6, <2>7 DEF PhasesHold
<1>2. CASE Announce
  <2>1. \A i \in Items : i # Original => finding'[i] = finding[i]
    BY <1>2 DEF Announce, TypeInv, TypeOK
  <2>2. engine' = engine /\ request' = "POST_VALIDATION_RUNNING"
    BY <1>2 DEF Announce
  <2>3. validation.step = "started" /\ validation'.step \in {"announced", "lost"}
    BY <1>2, ProceedTyped DEF Announce, Steps
  <2>4. \A s \in Engines : Original \notin engine[s].locks
    <3>1. engine[Validator].step = "idle"
      BY <2>3 DEF PhasesHold
    <3>2. Original \notin engine[Validator].locks
      BY <1>0, <3>1, IdleHoldsNothing
    <3> QED
      BY <1>2, <3>2 DEF Announce, Free
  <2>5. \A s \in Engines : engine[s].locks \subseteq Items
    BY DEF TypeInv, TypeOK, Engine
  <2>6. LocksHold'
    <3>1. \A s \in Engines : \A i \in engine[s].locks : finding'[i].status = finding[i].status
      BY <2>1, <2>4, <2>5
    <3> QED
      BY <2>2, <3>1, UntouchedHolds
  <2> QED
    BY <2>2, <2>3, <2>6 DEF PhasesHold
<1>3. CASE Rescan
  <2>1. validation.step = "announced" /\ validation'.step = "collected"
    BY <1>3 DEF Rescan, TypeInv, TypeOK, Validation
  <2> QED
    BY <1>3, <2>1, CommandHolds DEF Rescan, Steps
<1>4. CASE RescanFails
  BY <1>4, ProceedTyped, CommandHolds DEF RescanFails, Steps
<1>5. CASE StoreRescan
  <2>1. CASE Collides(Validator)
    <3>1. Abort(Validator) /\ UNCHANGED <<finding, request>>
      BY <1>5, <2>1 DEF StoreRescan, Abort
    <3> QED
      BY <1>0, <3>1, AbortHolds
  <2>2. CASE ~Collides(Validator)
    <3>1. Proceed("stored") /\ UNCHANGED <<finding, request, engine>>
      BY <1>5, <2>2 DEF StoreRescan
    <3>2. validation'.step = "stored"
      BY <3>1, ProceedTyped DEF Steps
    <3>3. validation.step = "collected"
      BY <1>5 DEF StoreRescan
    <3> QED
      BY <3>1, <3>2, <3>3, CommandHolds DEF Steps
  <2> QED
    BY <2>1, <2>2
<1>6. ASSUME NEW s \in Engines, Load(s)
      PROVE  LockInv'
  <2> DEFINE e == [engine[s] EXCEPT !.step = "loaded", !.rows = resource]
  <2>1. engine' = [engine EXCEPT ![s] = e]
    BY <1>6 DEF Load, TypeInv, TypeOK
  <2>2. /\ e.locks = engine[s].locks /\ e.hits = engine[s].hits /\ e.seen = engine[s].seen
        /\ e.step = "loaded"
    BY DEF TypeInv, TypeOK, Engine
  <2> HIDE DEF e
  <2>3. \A t \in Engines : /\ engine'[t].locks = engine[t].locks
                           /\ engine'[t].hits = engine[t].hits
                           /\ engine'[t].seen = engine[t].seen
                           /\ t # s => engine'[t] = engine[t]
    BY <2>1, <2>2 DEF TypeInv, TypeOK
  <2>4. LocksHold'
    BY <1>6, <2>3, UntouchedHolds DEF Load
  <2>5. PhasesHold'
    BY <1>0, <1>6, <2>3 DEF Load, PhasesHold
  <2> QED
    BY <2>4, <2>5
<1>7. CASE Compare
  <2>1. validation'.step = "compared"
    BY <1>7 DEF Compare, TypeInv, TypeOK, Validation
  <2>2. validation.step \in {"failed", "stored"}
    BY <1>7 DEF Compare
  <2>3. engine[Validator].step # "loaded" /\ engine[Validator].hits \subseteq engine[Validator].locks
    BY <1>0, <1>7, IdleHoldsNothing DEF Compare, FlushDone, Waiting
  <2> QED
    BY <1>7, <2>1, <2>2, <2>3, CommandHolds DEF Compare, Steps
<1>8. CASE Finish
  <2>1. validation.step = "compared" /\ validation'.step = "ended"
    BY <1>8 DEF Finish, TypeInv, TypeOK, Validation
  <2>2. \A i \in Items : i # Original => finding'[i] = UpsertedFindings(Validator)[i]
    BY <1>8 DEF Finish, UpsertedFindings
  <2>3. \A i \in Items : i \notin engine[Validator].locks => UpsertedFindings(Validator)[i] = finding[i]
    BY <1>0, <2>1, UpsertsKeepStatuses DEF PhasesHold
  <2>4. \A s \in Engines \ {Validator} : Original \notin engine[s].locks
    BY <1>8 DEF Finish, Free
  <2>5. engine' = [engine EXCEPT ![Validator] = IdleEngine]
    BY <1>8 DEF Finish
  <2>6. \A s \in Engines \ {Validator} : engine'[s] = engine[s]
    BY <2>5 DEF TypeInv, TypeOK
  <2>7. engine'[Validator].locks = {} /\ engine'[Validator].hits = {} /\ engine'[Validator].step = "idle"
    BY <1>0, <2>5 DEF TypeInv, TypeOK, IdleEngine
  <2>8. \A s \in Engines : engine[s].locks \subseteq Items
    BY DEF TypeInv, TypeOK, Engine
  <2>9. \A s \in Engines \ {Validator} : \A i \in engine[s].locks : finding'[i] = finding[i]
    BY <1>0, <2>2, <2>3, <2>4, <2>8 DEF LocksHold
  <2>10. LocksHold'
    BY <2>6, <2>7, <2>9 DEF LocksHold
  <2> QED
    BY <2>1, <2>7, <2>10 DEF PhasesHold
<1>9. ASSUME NEW s \in Engines, Evaluate(s)
      PROVE  LockInv'
  <2>1. engine[s].locks = {}
    BY <1>9, IdleHoldsNothing DEF Evaluate
  <2>2. engine'[s].locks = {}
    BY <1>9, <2>1, EvaluateSets
  <2>3. \A t \in Engines : t # s => engine'[t] = engine[t]
    BY <1>9, EvaluateSets
  <2>4. LocksHold'
    <3>1. finding' = finding
      BY <1>9 DEF Evaluate
    <3>2. \A t \in Engines : engine'[t].locks \subseteq engine'[t].hits
      BY <2>2, <2>3 DEF LockInv, LocksHold
    <3>3. \A t, u \in Engines : t # u => engine'[t].locks \cap engine'[u].locks = {}
      <4> SUFFICES ASSUME NEW t \in Engines, NEW u \in Engines, t # u
                   PROVE  engine'[t].locks \cap engine'[u].locks = {}
        OBVIOUS
      <4>1. CASE t = s \/ u = s
        BY <2>2, <4>1
      <4>2. CASE t # s /\ u # s
        BY <2>3, <4>2 DEF LockInv, LocksHold
      <4> QED
        BY <4>1, <4>2
    <3>4. \A t \in Engines : \A i \in engine'[t].locks :
            engine'[t].seen[i].status = "none" => finding'[i].status = "none"
      BY <2>2, <2>3, <3>1 DEF LockInv, LocksHold
    <3> QED
      BY <3>2, <3>3, <3>4 DEF LocksHold
  <2>5. UNCHANGED <<request, validation>> /\ engine[s].step = "loaded"
    BY <1>9 DEF Evaluate
  <2>6. PhasesHold'
    BY <1>0, <2>3, <2>5 DEF PhasesHold
  <2> QED
    BY <2>4, <2>6
<1>10. ASSUME NEW s \in Engines, NEW i \in Items, Flush(s, i)
       PROVE  LockInv'
  <2> DEFINE e == [engine[s] EXCEPT !.locks = engine[s].locks \cup {i}]
  <2>1. engine' = [engine EXCEPT ![s] = e]
    BY <1>10 DEF Flush, TypeInv, TypeOK
  <2>2. /\ e.locks = engine[s].locks \cup {i} /\ e.hits = engine[s].hits
        /\ e.seen = engine[s].seen /\ e.step = engine[s].step
    BY DEF TypeInv, TypeOK, Engine
  <2> HIDE DEF e
  <2>3. engine'[s] = e /\ \A t \in Engines : t # s => engine'[t] = engine[t]
    BY <2>1 DEF TypeInv, TypeOK
  <2>4. i \in engine[s].hits /\ (i \in New(s) => finding[i].status = "none")
    BY <1>10 DEF Flush, NextToFlush, Waiting, Exists
  <2>5. engine[s].seen[i].status = "none" => finding[i].status = "none"
    BY <2>4 DEF New
  <2>6. \A t \in Engines \ {s} : i \notin engine[t].locks
    BY <1>10 DEF Flush, Free
  <2>7. LocksHold'
    <3>1. \A t \in Engines : engine'[t].locks \subseteq engine'[t].hits
      BY <2>2, <2>3, <2>4 DEF LocksHold
    <3>2. \A t, u \in Engines : t # u => engine'[t].locks \cap engine'[u].locks = {}
      BY <2>2, <2>3, <2>6 DEF LocksHold
    <3>3. finding' = finding
      BY <1>10 DEF Flush
    <3>4. \A t \in Engines : \A j \in engine'[t].locks :
            engine'[t].seen[j].status = "none" => finding'[j].status = "none"
      BY <2>2, <2>3, <2>5, <3>3 DEF LocksHold
    <3> QED
      BY <3>1, <3>2, <3>4 DEF LocksHold
  <2>8. PhasesHold'
    BY <1>0, <1>10, <2>2, <2>3 DEF Flush, PhasesHold
  <2> QED
    BY <2>7, <2>8
<1>11. ASSUME NEW s \in Engines, CommitRun(s)
       PROVE  LockInv'
  <2>1. engine[s].hits \subseteq engine[s].locks
    BY <1>11 DEF CommitRun, FlushDone, Waiting
  <2>2. \A i \in Items : i \notin engine[s].locks => finding'[i] = finding[i]
    BY <1>11, <2>1, UpsertsKeepStatuses DEF CommitRun
  <2>3. LocksHold'
    BY <1>11, <2>2, ReleaseHolds DEF CommitRun
  <2>4. engine'[Validator] = engine[Validator]
    BY <1>0, <1>11, RemediationAssumption DEF CommitRun, TypeInv, TypeOK
  <2>5. PhasesHold'
    BY <1>11, <2>4 DEF CommitRun, PhasesHold
  <2> QED
    BY <2>3, <2>5
<1>12. ASSUME NEW s \in Engines, FlushCollides(s) \/ Deadlocks(s)
       PROVE  LockInv'
  BY <1>12, AbortHolds DEF FlushCollides, Deadlocks
<1>13. ASSUME NEW s \in Scans, Collect(s) \/ Store(s)
       PROVE  LockInv'
  <2>1. UNCHANGED <<finding, request, validation, engine>>
    BY <1>13 DEF Collect, Store
  <2> QED
    BY <2>1 DEF LocksHold, PhasesHold
<1>14. ASSUME NEW s \in Patches, LoadForPatch(s)
       PROVE  LockInv'
  BY <1>14 DEF LoadForPatch, LocksHold, PhasesHold
<1>15. ASSUME NEW s \in Patches, CommitPatch(s)
       PROVE  LockInv'
  <2>1. \A i \in Items : i # Original => finding'[i] = finding[i]
    BY <1>15 DEF CommitPatch, TypeInv, TypeOK
  <2>2. \A t \in Engines : Original \notin engine[t].locks /\ engine[t].locks \subseteq Items
    BY <1>15 DEF CommitPatch, TypeInv, TypeOK, Engine
  <2>3. UNCHANGED <<request, validation, engine>>
    BY <1>15 DEF CommitPatch
  <2>4. \A t \in Engines : \A i \in engine[t].locks : finding'[i].status = finding[i].status
    BY <2>1, <2>2
  <2>5. LocksHold'
    BY <2>3, <2>4, UntouchedHolds
  <2> QED
    BY <2>3, <2>5 DEF PhasesHold
<1>16. CASE Die
  <2>1. engine' = [s \in Engines |-> IdleEngine]
    BY <1>16 DEF Die
  <2>2. LocksHold'
    BY <2>1 DEF LocksHold, IdleEngine
  <2>3. validation'.step = CASE validation.step \in {"idle", "started"} -> "idle"
                             [] validation.step \in {"ended", "lost"}   -> validation.step
                             [] OTHER                                   -> "lost"
    BY <1>16 DEF Die, Proceed, TypeInv, TypeOK, Validation
  <2>4. engine'[Validator].step = "idle" /\ request' = request
    BY <1>0, <1>16, <2>1 DEF Die, IdleEngine
  <2> QED
    BY <2>2, <2>3, <2>4 DEF PhasesHold
<1>17. CASE UNCHANGED vars
  BY <1>17 DEF vars, LocksHold, PhasesHold
<1> QED
  BY <1>0, <1>1, <1>2, <1>3, <1>4, <1>5, <1>6, <1>7, <1>8, <1>9, <1>10, <1>11, <1>12, <1>13,
     <1>14, <1>15, <1>16, <1>17 DEF Next, Validate, Advance, Engines

\* The commits of findings runs and of the validation, of users, and no other
\* step, change findings; those of runs insert findings and set no status.
LEMMA StatusesStep ==
  ASSUME TypeInv, LockInv, [Next]_vars,
         NEW i \in Items, Exists(i), finding'[i].status # finding[i].status
  PROVE  i = Original /\ (patch' # patch \/ request' # request)
<1>0. Original \in Items /\ Validator \in Engines
  BY RemediationAssumption DEF Engines
<1>1. ~UNCHANGED finding
  OBVIOUS
<1>2. CASE Begin
  BY <1>2 DEF Begin, TypeInv, TypeOK, Findings
<1>3. CASE Announce
  <2>1. request = "OUTPUTS_CAPTURED" /\ request' = "POST_VALIDATION_RUNNING"
    BY <1>3 DEF Announce, LockInv, PhasesHold
  <2>2. i = Original
    BY <1>3 DEF Announce, TypeInv, TypeOK
  <2> QED
    BY <2>1, <2>2
<1>4. CASE Finish
  <2>1. validation.step = "compared" /\ request = "POST_VALIDATION_RUNNING"
    BY <1>4 DEF Finish, LockInv, PhasesHold
  <2>2. request' \in Ended
    BY <1>4, StatusTables DEF Finish, Verdict, TypeInv, TypeOK, Validation, Outcomes
  <2>3. UpsertedFindings(Validator)[i].status = finding[i].status
    BY <1>0, <2>1, UpsertsKeepStatuses DEF LockInv, PhasesHold
  <2>4. i # Original => finding'[i] = UpsertedFindings(Validator)[i]
    BY <1>4 DEF Finish, UpsertedFindings
  <2> QED
    BY <2>1, <2>2, <2>3, <2>4, StatusTables
<1>5. ASSUME NEW s \in Engines, CommitRun(s)
      PROVE  FALSE
  <2>1. engine[s].hits \subseteq engine[s].locks
    BY <1>5 DEF CommitRun, FlushDone, Waiting
  <2> QED
    BY <1>5, <2>1, UpsertsKeepStatuses DEF CommitRun, LockInv
<1>6. ASSUME NEW s \in Patches, CommitPatch(s)
      PROVE  i = Original /\ patch' # patch
  <2>1. i = Original
    BY <1>6 DEF CommitPatch, TypeInv, TypeOK
  <2>2. patch'[s].step # patch[s].step
    BY <1>6 DEF CommitPatch, TypeInv, TypeOK, IdlePatch
  <2> QED
    BY <2>1, <2>2
<1>7. ~(\/ Rescan \/ RescanFails \/ StoreRescan \/ Compare \/ Die
        \/ \E s \in Engines : Load(s) \/ Evaluate(s) \/ FlushCollides(s) \/ Deadlocks(s)
        \/ \E s \in Engines, j \in Items : Flush(s, j)
        \/ \E s \in Scans : Collect(s) \/ Store(s)
        \/ \E s \in Patches : LoadForPatch(s)
        \/ UNCHANGED vars)
  BY <1>1 DEF Rescan, RescanFails, StoreRescan, Compare, Die, Load, Evaluate, FlushCollides,
              Deadlocks, Flush, Collect, Store, LoadForPatch, vars
<1> QED
  BY <1>0, <1>2, <1>3, <1>4, <1>5, <1>6, <1>7 DEF Next, Validate, Advance, Engines

\* Findings runs and scans set the status of no known finding, for any of them
\* and in any interleaving.
THEOREM StatusesDecided == Spec => StatusesAreDecided
<1>1. TypeInv /\ LockInv /\ [Next]_vars =>
        [\A i \in Items : Exists(i) /\ finding'[i].status # finding[i].status
           => i = Original /\ (patch' # patch \/ request' # request)]_vars
  BY StatusesStep
<1> QED
  BY <1>1, TypeInit, TypeStep, LockInit, LockStep, PTL DEF Spec, StatusesAreDecided

-----------------------------------------------------------------------------
(* What a validation decides stays *)

Running == {"announced", "collected", "stored", "failed", "compared"}

\* The finding is being validated, and the session of the validation knows it,
\* unless a user has set another status.
StatusKept ==
  /\ Exists(Original)
  /\ "patch" \notin disturbed =>
       /\ validation.step = "started" => validation.seen.status = finding[Original].status
       /\ validation.step \in Running => finding[Original].status = "validating"
       /\ Original \in engine[Validator].hits
            => engine[Validator].seen[Original].status = "validating"
       /\ validation.step = "compared" => validation.seen.status = "validating"

LEMMA StatusUntouched ==
  ASSUME StatusKept,
         finding'[Original].status = finding[Original].status,
         \/ engine'[Validator].hits = {}
         \/ /\ engine'[Validator].hits = engine[Validator].hits
            /\ engine'[Validator].seen = engine[Validator].seen,
         "patch" \in disturbed => "patch" \in disturbed',
         validation'.seen = validation.seen,
         \/ validation'.step = validation.step
         \/ validation.step \in Running /\ validation'.step \in Running \ {"compared"}
         \/ validation'.step = "lost"
  PROVE  StatusKept'
BY DEF StatusKept, Running, Exists

\* The sessions that share no row with the validation.
LEMMA DisturbKeeps ==
  ASSUME NEW kind \in {"run", "scan", "patch"}, Disturb(kind)
  PROVE  /\ disturbed \subseteq disturbed'
         /\ validation.step # "idle" => kind \in disturbed'
         /\ \A k \in disturbed' : k \in disturbed \/ k = kind
BY DEF Disturb

LEMMA AbortLeaves ==
  ASSUME TypeInv, NEW s \in Engines, Abort(s)
  PROVE  /\ engine'[Validator] = engine[Validator] /\ validation' = validation
         \/ /\ engine'[Validator] = IdleEngine
            /\ validation' = [validation EXCEPT !.step = "lost"]
            /\ validation'.step = "lost" /\ validation'.seen = validation.seen
            /\ validation'.evidence = validation.evidence
BY DEF Abort, Loses, TypeInv, TypeOK, Engines, Validation

LEMMA StatusInit == Init => StatusKept
<1> SUFFICES ASSUME Init PROVE StatusKept
  OBVIOUS
<1>1. Validator \in Engines
  BY DEF Engines
<1> QED
  BY <1>1 DEF Init, StatusKept, Running, IdleEngine

\* A run's commit leaves the original finding's status and date, and, where it
\* has no such finding, the time it was last seen.
LEMMA RunKeepsOriginal ==
  ASSUME TypeInv, LockInv, StatusKept, NEW s \in Engines, CommitRun(s)
  PROVE  /\ finding'[Original].status = finding[Original].status
         /\ finding'[Original].dated = finding[Original].dated
         /\ Original \notin engine[s].hits => finding'[Original] = finding[Original]
         /\ engine'[Validator] = engine[Validator]
<1>1. Original \in Items /\ Validator \in Engines /\ s # Validator
  BY RemediationAssumption DEF Engines, CommitRun
<1>2. engine[s].hits \subseteq engine[s].locks
  BY DEF CommitRun, FlushDone, Waiting
<1>3. finding' = UpsertedFindings(s)
  BY DEF CommitRun
<1>4. Exists(Original)
  BY DEF StatusKept
<1> QED
  BY <1>1, <1>2, <1>3, <1>4, UpsertsKeepStatuses DEF LockInv, UpsertedFindings, CommitRun, TypeInv, TypeOK

LEMMA FlushLeaves ==
  ASSUME TypeInv, NEW s \in Engines, NEW i \in Items, Flush(s, i), NEW t \in Engines
  PROVE  /\ engine'[t].step = engine[t].step /\ engine'[t].rows = engine[t].rows
         /\ engine'[t].hits = engine[t].hits /\ engine'[t].seen = engine[t].seen
         /\ engine'[t].errors = engine[t].errors
<1> DEFINE e == [engine[s] EXCEPT !.locks = engine[s].locks \cup {i}]
<1>1. engine' = [engine EXCEPT ![s] = e]
  BY DEF Flush, TypeInv, TypeOK
<1>2. /\ e.step = engine[s].step /\ e.rows = engine[s].rows /\ e.hits = engine[s].hits
      /\ e.seen = engine[s].seen /\ e.errors = engine[s].errors
  BY DEF TypeInv, TypeOK, Engine
<1> HIDE DEF e
<1> QED
  BY <1>1, <1>2 DEF TypeInv, TypeOK

LEMMA LoadLeaves ==
  ASSUME TypeInv, NEW s \in Engines, Load(s)
  PROVE  /\ \A t \in Engines : t # s => engine'[t] = engine[t]
         /\ engine'[s].step = "loaded" /\ engine'[s].rows = resource
         /\ engine'[s].hits = engine[s].hits /\ engine'[s].seen = engine[s].seen
<1> DEFINE e == [engine[s] EXCEPT !.step = "loaded", !.rows = resource]
<1>1. engine' = [engine EXCEPT ![s] = e]
  BY DEF Load, TypeInv, TypeOK
<1>2. /\ e.step = "loaded" /\ e.rows = resource
      /\ e.hits = engine[s].hits /\ e.seen = engine[s].seen
  BY DEF TypeInv, TypeOK, Engine
<1> HIDE DEF e
<1> QED
  BY <1>1, <1>2 DEF TypeInv, TypeOK

\* The finding that is compared, according to where it comes from.
LEMMA AfterIs ==
  ASSUME TypeInv
  PROVE  /\ Original \in engine[Validator].hits =>
              /\ After.status = engine[Validator].seen[Original].status
              /\ After.severity = engine[Validator].rows[Original]
              /\ After.fresh
         /\ Original \notin engine[Validator].hits => After = finding[Original]
<1>1. Original \in Items /\ Validator \in Engines
  BY RemediationAssumption DEF Engines
<1>2. engine[Validator].seen[Original] \in Findings
  BY <1>1 DEF TypeInv, TypeOK, Engine
<1> QED
  BY <1>2 DEF After, Findings

LEMMA StatusStep == TypeInv /\ LockInv /\ StatusKept /\ [Next]_vars => StatusKept'
<1> SUFFICES ASSUME TypeInv, LockInv, StatusKept, [Next]_vars PROVE StatusKept'
  OBVIOUS
<1>0. Original \in Items /\ Validator \in Engines /\ finding[Original] \in Findings
  BY RemediationAssumption DEF Engines, TypeInv, TypeOK
<1>1. CASE Begin
  <2>1. finding'[Original].status = finding[Original].status
    BY <1>0, <1>1 DEF Begin, Findings
  <2>2. validation'.step = "started" /\ validation'.seen.status = finding[Original].status
    BY <1>1 DEF Begin, TypeInv, TypeOK, Validation
  <2>3. engine'[Validator].hits = engine[Validator].hits
    BY <1>0, <1>1 DEF Begin, TypeInv, TypeOK, Engine
  <2>4. engine[Validator].hits = {}
    BY <1>0, <1>1 DEF Begin, LockInv, PhasesHold, TypeInv, HitsAreFaults
  <2> QED
    BY <2>1, <2>2, <2>3, <2>4 DEF StatusKept, Exists, Running
<1>2. CASE Announce
  <2>1. finding'[Original].status = Flushed(finding[Original].status, validation.seen.status, "validating")
    BY <1>0, <1>2 DEF Announce, TypeInv, TypeOK, Findings
  <2>2. validation.step = "started" /\ engine' = engine /\ disturbed' = disturbed
    BY <1>2 DEF Announce
  <2>3. validation'.step \in {"announced", "lost"}
    BY <1>2, ProceedTyped DEF Announce, Steps
  <2>4. engine[Validator].hits = {}
    BY <1>0, <2>2 DEF LockInv, PhasesHold, TypeInv, HitsAreFaults
  <2> QED
    BY <2>1, <2>2, <2>3, <2>4 DEF StatusKept, Exists, Running, Flushed
<1>3. CASE Rescan \/ RescanFails
  <2>1. /\ validation.step = "announced" /\ validation'.step \in {"collected", "failed"}
        /\ validation'.seen = validation.seen
    BY <1>3 DEF Rescan, RescanFails, Proceed, TypeInv, TypeOK, Validation
  <2> QED
    BY <1>3, <2>1, StatusUntouched DEF Rescan, RescanFails, Running
<1>4. CASE StoreRescan
  <2>1. validation.step = "collected" /\ UNCHANGED <<finding, disturbed>>
    BY <1>4 DEF StoreRescan
  <2>2. CASE Collides(Validator)
    <3>1. Abort(Validator)
      BY <1>4, <2>2 DEF StoreRescan, Abort
    <3> QED
      BY <1>0, <2>1, <3>1, AbortLeaves, IdleTyped, StatusUntouched
  <2>3. CASE ~Collides(Validator)
    <3>1. validation'.step = "stored" /\ validation'.seen = validation.seen /\ engine' = engine
      BY <1>4, <2>3 DEF StoreRescan, Proceed, TypeInv, TypeOK, Validation
    <3> QED
      BY <2>1, <3>1, StatusUntouched DEF Running
  <2> QED
    BY <2>2, <2>3
<1>5. ASSUME NEW s \in Engines, Load(s)
      PROVE  StatusKept'
  <2>1. engine'[Validator].hits = engine[Validator].hits /\ engine'[Validator].seen = engine[Validator].seen
    BY <1>0, <1>5, LoadLeaves
  <2> QED
    BY <1>5, <2>1, StatusUntouched DEF Load
<1>6. CASE Compare
  <2>1. validation'.step = "compared" /\ validation'.seen = After
    BY <1>6 DEF Compare, TypeInv, TypeOK, Validation
  <2>2. validation.step \in Running /\ UNCHANGED <<finding, engine, disturbed>>
    BY <1>6 DEF Compare, Running
  <2>3. "patch" \notin disturbed => After.status = "validating"
    BY <2>2, AfterIs DEF StatusKept
  <2> QED
    BY <2>1, <2>2, <2>3 DEF StatusKept, Exists, Running
<1>7. CASE Finish
  <2>1. validation'.step = "ended"
    BY <1>7 DEF Finish, TypeInv, TypeOK, Validation
  <2>2. engine'[Validator].hits = {}
    BY <1>0, <1>7, IdleTyped DEF Finish, TypeInv, TypeOK
  <2>3. PICK raised \in BOOLEAN :
          \E status \in StatusesOnFinish(finding[Original].status, raised) :
            finding' = [UpsertedFindings(Validator) EXCEPT
                 ![Original].status = status,
                 ![Original].dated = Dated(@, validation.seen.dated, validation.outcome = "RESOLVED")]
    BY <1>7 DEF Finish
  <2>4. UpsertedFindings(Validator) \in [Items -> Findings]
    BY <1>0, UpsertsTyped
  <2>5. finding'[Original].status \in StatusesOnFinish(finding[Original].status, raised)
    BY <1>0, <2>3, <2>4 DEF Findings
  <2>6. finding'[Original].status # "none"
    <3>1. FindingStatus[validation.outcome] \in Statuses /\ "none" \notin Statuses
      BY StatusTables DEF TypeInv, TypeOK, Validation, Statuses, Active
    <3> QED
      BY <2>5, <3>1 DEF StatusesOnFinish, Flushed, StatusKept, Exists
  <2> QED
    BY <2>1, <2>2, <2>6 DEF StatusKept, Exists, Running
<1>8. ASSUME NEW s \in Engines, Evaluate(s)
      PROVE  StatusKept'
  <2>1. UNCHANGED <<finding, validation, disturbed>> /\ engine[s].step = "loaded"
    BY <1>8 DEF Evaluate
  <2>2. CASE s = Validator
    <3>1. \A i \in engine'[Validator].hits : engine'[Validator].seen[i] = finding[i]
      BY <1>8, <2>2, EvaluateSets
    <3>2. validation.step \in Running
      BY <2>1, <2>2 DEF LockInv, PhasesHold, Running
    <3> QED
      BY <2>1, <3>1, <3>2 DEF StatusKept, Exists, Running
  <2>3. CASE s # Validator
    BY <1>0, <1>8, <2>1, <2>3, EvaluateSets, StatusUntouched
  <2> QED
    BY <2>2, <2>3
<1>9. ASSUME NEW s \in Engines, NEW i \in Items, Flush(s, i)
      PROVE  StatusKept'
  <2>1. engine'[Validator].hits = engine[Validator].hits /\ engine'[Validator].seen = engine[Validator].seen
    BY <1>0, <1>9, FlushLeaves
  <2> QED
    BY <1>9, <2>1, StatusUntouched DEF Flush
<1>10. ASSUME NEW s \in Engines, CommitRun(s)
       PROVE  StatusKept'
  <2>1. "patch" \in disturbed => "patch" \in disturbed'
    BY <1>10 DEF CommitRun, Disturb
  <2> QED
    BY <1>10, <2>1, RunKeepsOriginal, StatusUntouched DEF CommitRun
<1>11. ASSUME NEW s \in Engines, FlushCollides(s) \/ Deadlocks(s)
       PROVE  StatusKept'
  <2>1. Abort(s) /\ UNCHANGED <<finding, disturbed>>
    BY <1>11 DEF FlushCollides, Deadlocks
  <2> QED
    BY <2>1, AbortLeaves, IdleTyped, StatusUntouched
<1>12. ASSUME NEW s \in Scans, Collect(s) \/ Store(s)
       PROVE  StatusKept'
  <2>1. UNCHANGED <<finding, validation, engine>> /\ disturbed \subseteq disturbed'
    BY <1>12 DEF Collect, Store, Disturb
  <2> QED
    BY <2>1, StatusUntouched
<1>13. ASSUME NEW s \in Patches, LoadForPatch(s)
       PROVE  StatusKept'
  BY <1>13, StatusUntouched DEF LoadForPatch
<1>14. ASSUME NEW s \in Patches, CommitPatch(s)
       PROVE  StatusKept'
  <2>1. UNCHANGED <<validation, engine>> /\ Disturb("patch")
    BY <1>14 DEF CommitPatch
  <2>2. PICK status \in Choices :
          finding' = [finding EXCEPT
            ![Original].status = Flushed(@, patch[s].status, status),
            ![Original].dated = Dated(@, patch[s].dated, status = "resolved")]
    BY <1>14 DEF CommitPatch
  <2>3. finding'[Original].status = Flushed(finding[Original].status, patch[s].status, status)
    BY <1>0, <2>2 DEF TypeInv, TypeOK, Findings
  <2>4. finding'[Original].status # "none"
    BY <2>3, RemediationAssumption DEF Flushed, StatusKept, Exists, Statuses, Active
  <2>5. CASE validation.step = "idle"
    <3>1. engine[Validator].hits = {}
      BY <1>0, <2>5 DEF LockInv, PhasesHold, TypeInv, HitsAreFaults
    <3> QED
      BY <2>1, <2>4, <2>5, <3>1 DEF StatusKept, Exists, Running
  <2>6. CASE validation.step # "idle"
    BY <2>1, <2>4, <2>6, DisturbKeeps DEF StatusKept, Exists
  <2> QED
    BY <2>5, <2>6
<1>15. CASE Die
  <2>1. validation'.step \in {"idle", "ended", "lost"}
    BY <1>15 DEF Die, Proceed, TypeInv, TypeOK, Validation, Steps
  <2>2. engine'[Validator].hits = {} /\ finding' = finding
    BY <1>0, <1>15, IdleTyped DEF Die
  <2> QED
    BY <2>1, <2>2 DEF StatusKept, Exists, Running
<1>16. CASE UNCHANGED vars
  BY <1>16, StatusUntouched DEF vars
<1> QED
  BY <1>0, <1>1, <1>2, <1>3, <1>4, <1>5, <1>6, <1>7, <1>8, <1>9, <1>10, <1>11, <1>12, <1>13,
     <1>14, <1>15, <1>16 DEF Next, Validate, Advance, Engines

\* The statuses of requests and findings tell the outcomes apart.
LEMMA OutcomesDiffer ==
  /\ \A o, p \in Outcomes : RequestStatus[o] = RequestStatus[p] => o = p
  /\ \A o \in Outcomes : FindingStatus[o] # "validating"
  /\ FindingStatus["VALIDATION_FAILED"] = "validation_failed"
BY DEF RequestStatus, FindingStatus, Outcomes

\* The end of a validation, as seen from the request.
LEMMA FinishDecides ==
  ASSUME TypeInv, Finish
  PROVE  \E o \in Outcomes :
           /\ request' = RequestStatus[o]
           /\ o = validation.outcome \/ o = "VALIDATION_FAILED"
           /\ o = "RESOLVED" => finding'[Original].dated
           /\ finding'[Original].status \in {finding[Original].status, FindingStatus[o]}
           /\ (/\ validation.seen.status = "validating"
               /\ finding[Original].status = "validating")
                => finding'[Original].status = FindingStatus[o]
<1>1. PICK raised \in BOOLEAN :
        /\ request' = RequestStatus[Verdict(raised)]
        /\ \E status \in StatusesOnFinish(finding[Original].status, raised) :
             finding' = [UpsertedFindings(Validator) EXCEPT
               ![Original].status = status,
               ![Original].dated = Dated(@, validation.seen.dated, validation.outcome = "RESOLVED")]
  BY DEF Finish
<1>2. PICK status \in StatusesOnFinish(finding[Original].status, raised) :
        finding' = [UpsertedFindings(Validator) EXCEPT
          ![Original].status = status,
          ![Original].dated = Dated(@, validation.seen.dated, validation.outcome = "RESOLVED")]
  BY <1>1
<1>3. Original \in Items /\ Validator \in Engines
  BY RemediationAssumption DEF Engines
<1>4. UpsertedFindings(Validator) \in [Items -> Findings]
  BY <1>3, UpsertsTyped
<1>5. /\ finding'[Original].status = status
      /\ finding'[Original].dated
           = Dated(UpsertedFindings(Validator)[Original].dated, validation.seen.dated,
                   validation.outcome = "RESOLVED")
  BY <1>2, <1>3, <1>4 DEF Findings
<1>6. validation.outcome \in Outcomes /\ "VALIDATION_FAILED" \in Outcomes
  BY DEF TypeInv, TypeOK, Validation, Outcomes
<1>7. Verdict(raised) \in Outcomes /\ (Verdict(raised) = validation.outcome \/ Verdict(raised) = "VALIDATION_FAILED")
  BY <1>6 DEF Verdict
<1>8. Verdict(raised) = "RESOLVED" => finding'[Original].dated
  BY <1>5, <1>7 DEF Dated
<1>9. ASSUME validation.seen.status = "validating", finding[Original].status = "validating"
      PROVE  status = FindingStatus[Verdict(raised)]
  BY <1>2, <1>6, <1>9, OutcomesDiffer DEF StatusesOnFinish, Flushed, Verdict
<1>10. status \in {finding[Original].status, FindingStatus[Verdict(raised)]}
  BY <1>2, OutcomesDiffer DEF StatusesOnFinish, Flushed, Verdict
<1> QED
  BY <1>1, <1>5, <1>7, <1>8, <1>9, <1>10

LEMMA OutcomeStep ==
  TypeInv /\ LockInv /\ StatusKept /\ OutcomesStand /\ [Next]_vars => OutcomesStand'
<1> SUFFICES ASSUME TypeInv, LockInv, StatusKept, OutcomesStand, [Next]_vars,
                    request' \in Ended, "patch" \notin disturbed'
             PROVE  \E o \in Outcomes :
                      /\ request' = RequestStatus[o]
                      /\ finding'[Original].status = FindingStatus[o]
                      /\ o = "RESOLVED" => finding'[Original].dated
  BY DEF OutcomesStand
<1>0. Original \in Items /\ Validator \in Engines /\ finding[Original] \in Findings
  BY RemediationAssumption DEF Engines, TypeInv, TypeOK
<1>1. ASSUME request' = request, "patch" \in disturbed => "patch" \in disturbed',
             finding'[Original].status = finding[Original].status,
             finding'[Original].dated = finding[Original].dated
      PROVE  \E o \in Outcomes :
                      /\ request' = RequestStatus[o]
                      /\ finding'[Original].status = FindingStatus[o]
                      /\ o = "RESOLVED" => finding'[Original].dated
  BY <1>1 DEF OutcomesStand
<1>2. CASE Finish
  <2>1. "patch" \notin disturbed /\ validation.step = "compared"
    BY <1>2 DEF Finish
  <2>2. validation.seen.status = "validating" /\ finding[Original].status = "validating"
    BY <2>1 DEF StatusKept, Running
  <2> QED
    BY <1>2, <2>2, FinishDecides
<1>3. request = "OUTPUTS_CAPTURED" => request' \notin Ended
  BY StatusTables DEF Next, Validate, Advance, Begin, Announce, Rescan, RescanFails,
     StoreRescan, Load, Compare, Finish, LockInv, PhasesHold, Evaluate, Flush, CommitRun, FlushCollides,
     Deadlocks, Collect, Store, LoadForPatch, CommitPatch, Die, vars
<1>4. CASE Begin \/ Announce
  BY <1>3, <1>4 DEF Begin, Announce, LockInv, PhasesHold
<1>5. CASE Die
  <2>1. validation.step # "started" /\ UNCHANGED <<finding, request>>
    BY <1>3, <1>5 DEF Die, LockInv, PhasesHold
  <2> QED
    BY <1>1, <1>5, <2>1 DEF Die
<1>6. ASSUME NEW s \in Engines, CommitRun(s)
      PROVE  \E o \in Outcomes :
                      /\ request' = RequestStatus[o]
                      /\ finding'[Original].status = FindingStatus[o]
                      /\ o = "RESOLVED" => finding'[Original].dated
  BY <1>1, <1>6, RunKeepsOriginal DEF CommitRun, Disturb
<1>7. ASSUME NEW s \in Patches, CommitPatch(s)
      PROVE  FALSE
  <2>1. validation.step # "idle"
    BY <1>3, <1>7 DEF CommitPatch, LockInv, PhasesHold
  <2> QED
    BY <1>7, <2>1, DisturbKeeps DEF CommitPatch
<1>8. CASE UNCHANGED <<finding, request>> /\ disturbed \subseteq disturbed'
  BY <1>1, <1>8
<1> QED
  BY <1>0, <1>2, <1>4, <1>5, <1>6, <1>7, <1>8 DEF Next, Validate, Advance, Rescan, RescanFails,
     StoreRescan, Load, Compare, Evaluate, Flush, FlushCollides, Deadlocks, Collect, Store, Disturb,
     LoadForPatch, vars, Engines

LEMMA OutcomeInit == Init => OutcomesStand
BY StatusTables DEF Init, OutcomesStand

\* What a validation decided stays on the finding until a user changes it, however
\* many findings runs and scans are under way, and whatever fails.
THEOREM DecisionsStand == Spec => []OutcomesStand
BY TypeInit, TypeStep, LockInit, LockStep, StatusInit, StatusStep, OutcomeInit, OutcomeStep, PTL
   DEF Spec

-----------------------------------------------------------------------------
(* What a validation decides follows from what it collected *)

\* The answer about the original resource goes from the collection to the
\* inventory, to the engine and to its finding, unless a scan comes between; and
\* only findings runs make the finding look seen again.
EvidenceKept ==
  /\ validation.step = "collected" =>
       /\ scan[Validator].collected[Original] = validation.evidence
       /\ "scan" \notin disturbed => scan[Validator].rows[Original] = resource[Original]
  /\ /\ validation.step = "stored"
     /\ validation.evidence # "missing"
     /\ "scan" \notin disturbed
     => /\ resource[Original] = validation.evidence
        /\ engine[Validator].step # "idle" => engine[Validator].rows[Original] = validation.evidence
  /\ /\ engine[Validator].step = "evaluated"
     /\ engine[Validator].rows[Original] \in Severities
     /\ ~engine[Validator].errors
     => Original \in engine[Validator].hits
  /\ validation.step \in Running \cup {"started"} /\ "run" \notin disturbed => ~finding[Original].fresh

\* The outcome that the comparison came to says what was collected.
OutcomeJustified ==
  /\ validation.step = "compared"
  /\ validation.evidence # "missing"
  /\ "scan" \notin disturbed
  => /\ validation.outcome = "RESOLVED" /\ "patch" \notin disturbed => validation.evidence = "clean"
     /\ validation.outcome \in {"PARTIALLY_RESOLVED", "STILL_OPEN"} /\ "run" \notin disturbed =>
          /\ validation.evidence \in Severities
          /\ validation.outcome = "PARTIALLY_RESOLVED" <=>
               validation.before = "high" /\ validation.evidence = "low"

LEMMA EvidenceUntouched ==
  ASSUME EvidenceKept,
         resource'[Original] = resource[Original],
         finding'[Original] = finding[Original],
         scan'[Validator] = scan[Validator],
         \/ engine'[Validator].step = "idle"
         \/ /\ engine'[Validator].step = engine[Validator].step
            /\ engine'[Validator].rows = engine[Validator].rows
            /\ engine'[Validator].hits = engine[Validator].hits
            /\ engine'[Validator].errors = engine[Validator].errors,
         disturbed \subseteq disturbed',
         validation'.evidence = validation.evidence,
         \/ validation'.step = validation.step
         \/ validation.step \in Running /\ validation'.step \in Running \ {"collected", "stored"}
         \/ validation'.step = "lost"
  PROVE  EvidenceKept'
BY DEF EvidenceKept, Running

LEMMA EvidenceInit == Init => EvidenceKept
<1> SUFFICES ASSUME Init PROVE EvidenceKept
  OBVIOUS
<1>1. Validator \in Engines
  BY DEF Engines
<1> QED
  BY <1>1 DEF Init, EvidenceKept, Running, IdleEngine

LEMMA EvidenceStep == TypeInv /\ LockInv /\ StatusKept /\ EvidenceKept /\ [Next]_vars => EvidenceKept'
<1> SUFFICES ASSUME TypeInv, LockInv, StatusKept, EvidenceKept, [Next]_vars PROVE EvidenceKept'
  OBVIOUS
<1>0. /\ Original \in Items /\ Validator \in Engines /\ Validator \in Scanners
      /\ finding[Original] \in Findings
  BY RemediationAssumption DEF Engines, Scanners, TypeInv, TypeOK
<1>1. CASE Begin
  <2>1. finding'[Original].fresh = FALSE
    BY <1>0, <1>1 DEF Begin, Findings
  <2>2. validation'.step = "started"
    BY <1>1 DEF Begin, TypeInv, TypeOK, Validation
  <2>3. engine'[Validator].step = engine[Validator].step
    BY <1>0, <1>1 DEF Begin, TypeInv, TypeOK, Engine
  <2>4. engine[Validator].step = "idle"
    BY <1>1 DEF Begin, LockInv, PhasesHold
  <2> QED
    BY <2>1, <2>2, <2>3, <2>4 DEF EvidenceKept, Running
<1>2. CASE Announce
  <2>1. finding'[Original].fresh = finding[Original].fresh
    BY <1>0, <1>2 DEF Announce, TypeInv, TypeOK, Findings
  <2>2. validation.step = "started" /\ engine' = engine /\ disturbed' = disturbed
    BY <1>2 DEF Announce
  <2>3. validation'.step \in {"announced", "lost"}
    BY <1>2, ProceedTyped DEF Announce, Steps
  <2>4. engine[Validator].step = "idle"
    BY <2>2 DEF LockInv, PhasesHold
  <2> QED
    BY <2>1, <2>2, <2>3, <2>4 DEF EvidenceKept, Running
<1>3. CASE Rescan
  <2>1. PICK answers \in Collections :
          /\ Collected(Validator, answers)
          /\ validation' = [validation EXCEPT !.step = "collected", !.evidence = answers[Original]]
    BY <1>3 DEF Rescan
  <2>2. scan'[Validator].collected = answers /\ scan'[Validator].rows = resource
    BY <1>0, <2>1 DEF Collected, TypeInv, TypeOK
  <2>3. validation'.step = "collected" /\ validation'.evidence = answers[Original]
    BY <2>1 DEF TypeInv, TypeOK, Validation
  <2>4. validation.step = "announced" /\ UNCHANGED <<resource, finding, engine, disturbed>>
    BY <1>3 DEF Rescan
  <2> QED
    BY <2>2, <2>3, <2>4 DEF EvidenceKept, Running
<1>4. CASE RescanFails
  <2>1. validation'.step = "failed" /\ validation'.evidence = validation.evidence
    BY <1>4 DEF RescanFails, Proceed, TypeInv, TypeOK, Validation
  <2> QED
    BY <1>4, <2>1, EvidenceUntouched DEF RescanFails, Running, others
<1>5. CASE StoreRescan
  <2>1. validation.step = "collected" /\ UNCHANGED <<finding, disturbed>>
    BY <1>5 DEF StoreRescan
  <2>2. engine[Validator].step = "idle"
    BY <2>1 DEF LockInv, PhasesHold
  <2>3. CASE Collides(Validator)
    <3>1. validation'.step = "lost" /\ engine'[Validator].step = "idle"
      BY <1>0, <1>5, <2>3 DEF StoreRescan, Loses, TypeInv, TypeOK, Validation, IdleEngine
    <3> QED
      BY <2>1, <3>1 DEF EvidenceKept, Running
  <2>4. CASE ~Collides(Validator)
    <3>1. /\ validation'.step = "stored" /\ validation'.evidence = validation.evidence
          /\ engine' = engine /\ resource' = Upserted(Validator)
      BY <1>5, <2>4 DEF StoreRescan, Proceed, TypeInv, TypeOK, Validation
    <3>2. validation.evidence # "missing" /\ "scan" \notin disturbed
            => resource'[Original] = validation.evidence
      BY <1>0, <2>1, <3>1 DEF Upserted, Flushed, EvidenceKept
    <3> QED
      BY <2>1, <2>2, <3>1, <3>2 DEF EvidenceKept, Running
  <2> QED
    BY <2>3, <2>4
<1>6. ASSUME NEW s \in Engines, Load(s)
      PROVE  EvidenceKept'
  <2>1. UNCHANGED <<resource, finding, validation, scan, disturbed>>
    BY <1>6 DEF Load, others
  <2>2. CASE s = Validator
    <3>1. engine'[Validator].step = "loaded" /\ engine'[Validator].rows = resource
      BY <1>6, <2>2, LoadLeaves
    <3> QED
      BY <2>1, <3>1 DEF EvidenceKept
  <2>3. CASE s # Validator
    BY <1>0, <1>6, <2>1, <2>3, LoadLeaves, EvidenceUntouched
  <2> QED
    BY <2>2, <2>3
<1>7. CASE Compare
  <2>1. validation'.step = "compared" /\ validation'.evidence = validation.evidence
    BY <1>7 DEF Compare, TypeInv, TypeOK, Validation
  <2>2. validation.step \in Running
    BY <1>7 DEF Compare, Running
  <2> QED
    BY <1>7, <2>1, <2>2, EvidenceUntouched DEF Compare, Running, others
<1>8. CASE Finish
  <2>1. validation'.step = "ended"
    BY <1>8 DEF Finish, TypeInv, TypeOK, Validation
  <2>2. engine'[Validator].step = "idle"
    BY <1>0, <1>8 DEF Finish, TypeInv, TypeOK, IdleEngine
  <2> QED
    BY <2>1, <2>2 DEF EvidenceKept, Running
<1>9. ASSUME NEW s \in Engines, Evaluate(s)
      PROVE  EvidenceKept'
  <2>1. UNCHANGED <<resource, finding, validation, scan, disturbed>> /\ engine[s].step = "loaded"
    BY <1>9 DEF Evaluate, others
  <2>2. CASE s = Validator
    BY <1>0, <1>9, <2>1, <2>2, EvaluateSets DEF EvidenceKept
  <2>3. CASE s # Validator
    BY <1>0, <1>9, <2>1, <2>3, EvaluateSets, EvidenceUntouched
  <2> QED
    BY <2>2, <2>3
<1>10. ASSUME NEW s \in Engines, NEW i \in Items, Flush(s, i)
       PROVE  EvidenceKept'
  <2>1. /\ engine'[Validator].step = engine[Validator].step
        /\ engine'[Validator].rows = engine[Validator].rows
        /\ engine'[Validator].hits = engine[Validator].hits
        /\ engine'[Validator].errors = engine[Validator].errors
    BY <1>0, <1>10, FlushLeaves
  <2> QED
    BY <1>10, <2>1, EvidenceUntouched DEF Flush, others
<1>11. ASSUME NEW s \in Engines, CommitRun(s)
       PROVE  EvidenceKept'
  <2>1. UNCHANGED <<resource, validation, scan>> /\ engine'[Validator] = engine[Validator]
    BY <1>11, RunKeepsOriginal DEF CommitRun, others
  <2>2. CASE Original \in engine[s].hits
    <3>1. Disturb("run")
      BY <1>11, <2>2 DEF CommitRun
    <3>2. disturbed \subseteq disturbed'
      BY <3>1, DisturbKeeps
    <3>3. validation.step \in Running \cup {"started"} => "run" \in disturbed'
      BY <3>1, DisturbKeeps DEF Running
    <3> QED
      BY <2>1, <3>2, <3>3 DEF EvidenceKept
  <2>3. CASE Original \notin engine[s].hits
    BY <1>11, <2>1, <2>3, RunKeepsOriginal, EvidenceUntouched DEF CommitRun
  <2> QED
    BY <2>2, <2>3
<1>12. ASSUME NEW s \in Engines, FlushCollides(s) \/ Deadlocks(s)
       PROVE  EvidenceKept'
  <2>1. Abort(s) /\ UNCHANGED <<resource, finding, scan, disturbed>>
    BY <1>12 DEF FlushCollides, Deadlocks, others
  <2>2. \/ engine'[Validator] = engine[Validator] /\ validation' = validation
        \/ /\ engine'[Validator].step = "idle" /\ validation'.step = "lost"
           /\ validation'.evidence = validation.evidence
    BY <2>1, AbortLeaves DEF IdleEngine
  <2> QED
    BY <2>1, <2>2, EvidenceUntouched
<1>13. ASSUME NEW s \in Scans, Collect(s)
       PROVE  EvidenceKept'
  <2>1. scan'[Validator] = scan[Validator]
    BY <1>0, <1>13, RemediationAssumption DEF Collect, Collected, TypeInv, TypeOK
  <2> QED
    BY <1>13, <2>1, EvidenceUntouched DEF Collect
<1>14. ASSUME NEW s \in Scans, Store(s)
       PROVE  EvidenceKept'
  <2>1. scan'[Validator] = scan[Validator] /\ UNCHANGED <<finding, validation, engine>>
    BY <1>0, <1>14, RemediationAssumption DEF Store, Stored, TypeInv, TypeOK
  <2>2. disturbed \subseteq disturbed'
    BY <1>14 DEF Store, Disturb
  <2>3. resource'[Original] = resource[Original] \/ Disturb("scan")
    BY <1>0, <1>14 DEF Store, Upserted
  <2>4. CASE resource'[Original] = resource[Original]
    BY <2>1, <2>2, <2>4, EvidenceUntouched
  <2>5. CASE Disturb("scan")
    <3>1. validation.step # "idle" => "scan" \in disturbed'
      BY <2>5, DisturbKeeps
    <3> QED
      BY <2>1, <2>2, <3>1 DEF EvidenceKept
  <2> QED
    BY <2>3, <2>4, <2>5
<1>15. ASSUME NEW s \in Patches, LoadForPatch(s)
       PROVE  EvidenceKept'
  BY <1>15, EvidenceUntouched DEF LoadForPatch
<1>16. ASSUME NEW s \in Patches, CommitPatch(s)
       PROVE  EvidenceKept'
  <2>1. UNCHANGED <<resource, validation, engine, scan>> /\ disturbed \subseteq disturbed'
    BY <1>16, DisturbKeeps DEF CommitPatch
  <2>2. finding'[Original].fresh = finding[Original].fresh
    BY <1>0, <1>16 DEF CommitPatch, TypeInv, TypeOK, Findings
  <2> QED
    BY <2>1, <2>2 DEF EvidenceKept
<1>17. CASE Die
  <2>1. validation'.step \in {"idle", "ended", "lost"}
    BY <1>17 DEF Die, Proceed, TypeInv, TypeOK, Validation, Steps
  <2>2. engine'[Validator].step = "idle"
    BY <1>0, <1>17 DEF Die, IdleEngine
  <2> QED
    BY <2>1, <2>2 DEF EvidenceKept, Running
<1>18. CASE UNCHANGED vars
  BY <1>18, EvidenceUntouched DEF vars
<1> QED
  BY <1>0, <1>1, <1>2, <1>3, <1>4, <1>5, <1>6, <1>7, <1>8, <1>9, <1>10, <1>11, <1>12, <1>13,
     <1>14, <1>15, <1>16, <1>17, <1>18 DEF Next, Validate, Advance, Engines

\* Others count as disturbing from the beginning of the command, and what it sees
\* of the resource is collected once; without it the outcome is a failure.
SeenOnce ==
  /\ validation.step = "idle" => disturbed = {}
  /\ validation.step \in {"idle", "started", "announced"} => validation.evidence = "none"
  /\ validation.step \in {"collected", "stored"} => validation.evidence # "none"
  /\ validation.step = "compared" /\ validation.outcome # "VALIDATION_FAILED"
       => validation.evidence # "none"

LEMMA SeenInit == Init => SeenOnce
BY DEF Init, SeenOnce

LEMMA SeenStep == TypeInv /\ LockInv /\ SeenOnce /\ [Next]_vars => SeenOnce'
<1> SUFFICES ASSUME TypeInv, LockInv, SeenOnce, [Next]_vars PROVE SeenOnce'
  OBVIOUS
<1>1. CASE Begin
  BY <1>1 DEF Begin, SeenOnce, TypeInv, TypeOK, Validation
<1>2. CASE Announce \/ RescanFails
  BY <1>2 DEF Announce, RescanFails, Proceed, SeenOnce, TypeInv, TypeOK, Validation
<1>3. CASE Rescan
  <2>1. PICK answers \in Collections :
          validation' = [validation EXCEPT !.step = "collected", !.evidence = answers[Original]]
    BY <1>3 DEF Rescan
  <2>2. answers[Original] # "none"
    BY RemediationAssumption DEF Answers, Verdicts, Severities
  <2> QED
    BY <2>1, <2>2 DEF SeenOnce, TypeInv, TypeOK, Validation
<1>4. CASE StoreRescan
  BY <1>4 DEF StoreRescan, Loses, Proceed, SeenOnce, TypeInv, TypeOK, Validation
<1>5. CASE Compare
  <2>1. /\ validation'.step = "compared" /\ validation'.evidence = validation.evidence
        /\ validation.step # "stored" => validation'.outcome = "VALIDATION_FAILED"
    BY <1>5 DEF Compare, Outcome, TypeInv, TypeOK, Validation
  <2> QED
    BY <2>1 DEF SeenOnce
<1>6. CASE Finish
  BY <1>6 DEF Finish, SeenOnce, TypeInv, TypeOK, Validation
<1>7. CASE Die
  <2>1. /\ validation'.step = "idle" => validation.step \in {"idle", "started"}
        /\ validation'.step \in {"idle", "ended", "lost"}
        /\ validation'.evidence = validation.evidence
    BY <1>7 DEF Die, Proceed, TypeInv, TypeOK, Validation, Steps
  <2>2. validation.step \in {"idle", "started"} => disturbed' = {}
    BY <1>7 DEF Die, SeenOnce
  <2> QED
    BY <2>1, <2>2 DEF SeenOnce
<1>8. ASSUME NEW s \in Engines, FlushCollides(s) \/ Deadlocks(s)
      PROVE  SeenOnce'
  <2>1. Abort(s) /\ disturbed' = disturbed
    BY <1>8 DEF FlushCollides, Deadlocks
  <2> QED
    BY <2>1, AbortLeaves DEF SeenOnce
<1>9. CASE validation' = validation /\ (disturbed' = disturbed \/ \E kind \in {"run", "scan", "patch"} : Disturb(kind))
  BY <1>9 DEF SeenOnce, Disturb
<1>10. ASSUME NEW s \in Engines, Load(s) \/ Evaluate(s) \/ CommitRun(s) \/ \E i \in Items : Flush(s, i)
       PROVE  SeenOnce'
  BY <1>9, <1>10 DEF Load, Evaluate, CommitRun, Flush
<1>11. ASSUME NEW s \in Scans, Collect(s) \/ Store(s)
       PROVE  SeenOnce'
  BY <1>9, <1>11 DEF Collect, Store
<1>12. ASSUME NEW s \in Patches, LoadForPatch(s) \/ CommitPatch(s)
       PROVE  SeenOnce'
  BY <1>9, <1>12 DEF LoadForPatch, CommitPatch
<1>13. CASE UNCHANGED vars
  BY <1>9, <1>13 DEF vars
<1> QED
  BY <1>1, <1>2, <1>3, <1>4, <1>5, <1>6, <1>7, <1>8, <1>10, <1>11, <1>12, <1>13
     DEF Next, Validate, Advance, Engines

LEMMA CompareJustifies ==
  ASSUME TypeInv, LockInv, StatusKept, EvidenceKept, SeenOnce, Compare
  PROVE  OutcomeJustified'
<1>0. Original \in Items /\ Validator \in Engines /\ finding[Original] \in Findings
  BY RemediationAssumption DEF Engines, TypeInv, TypeOK
<1> DEFINE succeeded == validation.step = "stored" /\ ~engine[Validator].errors
<1>1. /\ validation'.outcome = Outcome(succeeded, After)
      /\ validation'.before = validation.before /\ validation'.evidence = validation.evidence
      /\ disturbed' = disturbed
  BY DEF Compare, TypeInv, TypeOK, Validation
<1>2. CASE ~succeeded
  <2>1. validation'.outcome = "VALIDATION_FAILED"
    BY <1>1, <1>2 DEF Outcome
  <2> QED
    BY <2>1 DEF OutcomeJustified
<1>3. CASE succeeded
  <2> SUFFICES ASSUME validation.evidence # "missing", "scan" \notin disturbed
               PROVE  OutcomeJustified'
    BY <1>1 DEF OutcomeJustified
  <2>1. engine[Validator].step = "evaluated" /\ validation.step = "stored"
    BY <1>3 DEF Compare, FlushDone
  <2>2. engine[Validator].rows[Original] = validation.evidence
    BY <2>1 DEF EvidenceKept
  <2>3. validation.evidence \in Severities <=> Original \in engine[Validator].hits
    BY <1>0, <1>3, <2>1, <2>2 DEF EvidenceKept, TypeInv, HitsAreFaults
  <2>4. validation.evidence \in Severities \/ validation.evidence = "clean"
    BY <2>1 DEF SeenOnce, TypeInv, TypeOK, Validation, Answers, Verdicts
  <2>5. CASE Original \in engine[Validator].hits
    <3>1. After.fresh /\ After.severity = validation.evidence
      BY <2>2, <2>5, AfterIs
    <3>2. "patch" \notin disturbed => After.status \in Active
      BY <2>5, AfterIs DEF StatusKept, Active
    <3>3. "patch" \notin disturbed => validation'.outcome # "RESOLVED"
      BY <1>1, <1>3, <3>1, <3>2 DEF Outcome
    <3>4. validation.before \in Severities /\ validation.evidence \in Severities
      BY <2>3, <2>5 DEF TypeInv, TypeOK, Validation
    <3>5. Rank[validation.evidence] < Rank[validation.before]
            <=> validation.before = "high" /\ validation.evidence = "low"
      BY <3>4 DEF Rank, Severities
    <3>6. validation'.outcome \in {"PARTIALLY_RESOLVED", "STILL_OPEN"} =>
            (validation'.outcome = "PARTIALLY_RESOLVED"
               <=> validation.before = "high" /\ validation.evidence = "low")
      BY <1>1, <1>3, <3>1, <3>5 DEF Outcome
    <3> QED
      BY <1>1, <3>3, <3>4, <3>6 DEF OutcomeJustified
  <2>6. CASE Original \notin engine[Validator].hits
    <3>1. validation.evidence = "clean"
      BY <2>3, <2>4, <2>6
    <3>2. "run" \notin disturbed => ~After.fresh
      BY <2>1, <2>6, AfterIs DEF EvidenceKept, Running
    <3>3. "run" \notin disturbed => validation'.outcome = "RESOLVED"
      BY <1>1, <1>3, <3>2 DEF Outcome
    <3> QED
      BY <1>1, <3>1, <3>3 DEF OutcomeJustified
  <2> QED
    BY <2>5, <2>6
<1> QED
  BY <1>2, <1>3

LEMMA JustifiedInit == Init => OutcomeJustified
BY DEF Init, OutcomeJustified

\* Only Compare sets an outcome; until the command ends nothing changes what it is about.
LEMMA JustifiedStep ==
  TypeInv /\ LockInv /\ StatusKept /\ EvidenceKept /\ SeenOnce /\ OutcomeJustified /\ [Next]_vars
    => OutcomeJustified'
<1> SUFFICES ASSUME TypeInv, LockInv, StatusKept, EvidenceKept, SeenOnce, OutcomeJustified, [Next]_vars,
                    validation'.step = "compared"
             PROVE  OutcomeJustified'
  BY DEF OutcomeJustified
<1>1. CASE Compare
  BY <1>1, CompareJustifies
<1>2. CASE validation' = validation /\ disturbed \subseteq disturbed'
  BY <1>2 DEF OutcomeJustified
<1>3. ~(Begin \/ Announce \/ Rescan \/ RescanFails \/ StoreRescan \/ Finish)
  BY DEF Begin, Announce, Rescan, RescanFails, StoreRescan, Finish, Proceed, Loses, TypeInv, TypeOK,
         Validation
<1>4. ~Die
  BY DEF Die, Proceed, TypeInv, TypeOK, Validation, Steps
<1>5. ASSUME NEW s \in Engines, FlushCollides(s) \/ Deadlocks(s)
      PROVE  validation' = validation /\ disturbed \subseteq disturbed'
  BY <1>5, AbortLeaves DEF FlushCollides, Deadlocks
<1>6. ASSUME NEW s \in Engines, Load(s) \/ Evaluate(s) \/ CommitRun(s) \/ \E i \in Items : Flush(s, i)
      PROVE  validation' = validation /\ disturbed \subseteq disturbed'
  BY <1>6 DEF Load, Evaluate, CommitRun, Flush, Disturb
<1>7. ASSUME NEW s \in Scans, Collect(s) \/ Store(s)
      PROVE  validation' = validation /\ disturbed \subseteq disturbed'
  BY <1>7 DEF Collect, Store, Disturb
<1>8. ASSUME NEW s \in Patches, LoadForPatch(s) \/ CommitPatch(s)
      PROVE  validation' = validation /\ disturbed \subseteq disturbed'
  BY <1>8 DEF LoadForPatch, CommitPatch, Disturb
<1> QED
  BY <1>1, <1>2, <1>3, <1>4, <1>5, <1>6, <1>7, <1>8 DEF Next, Validate, Advance, vars, Engines

DecisionsHold == ResolutionIsEarned /\ PersistenceIsSeen

LEMMA DecisionsInit == Init => DecisionsHold
BY StatusTables DEF Init, DecisionsHold, ResolutionIsEarned, PersistenceIsSeen, Ended, Outcomes, RequestStatus

LEMMA DecisionsStep ==
  TypeInv /\ LockInv /\ OutcomeJustified /\ DecisionsHold /\ [Next]_vars => DecisionsHold'
<1> SUFFICES ASSUME TypeInv, LockInv, OutcomeJustified, DecisionsHold, [Next]_vars,
                    request' \in Ended
             PROVE  DecisionsHold'
  BY StatusTables DEF DecisionsHold, ResolutionIsEarned, PersistenceIsSeen, Outcomes
<1>1. CASE Finish
  <2>1. PICK o \in Outcomes :
          request' = RequestStatus[o] /\ (o = validation.outcome \/ o = "VALIDATION_FAILED")
    BY <1>1, FinishDecides
  <2>2. /\ validation.step = "compared" /\ disturbed' = disturbed
        /\ validation'.evidence = validation.evidence /\ validation'.before = validation.before
    BY <1>1 DEF Finish, TypeInv, TypeOK, Validation
  <2>3. \A p \in Outcomes : request' = RequestStatus[p] => p = o
    BY <2>1, OutcomesDiffer
  <2>4. ResolutionIsEarned'
    BY <2>1, <2>2, <2>3 DEF ResolutionIsEarned, OutcomeJustified, Outcomes
  <2>5. PersistenceIsSeen'
    BY <2>1, <2>2, <2>3 DEF PersistenceIsSeen, OutcomeJustified, Outcomes
  <2> QED
    BY <2>4, <2>5 DEF DecisionsHold
<1>2. CASE /\ request' = request /\ disturbed \subseteq disturbed'
           /\ validation'.evidence = validation.evidence /\ validation'.before = validation.before
  <2>1. ResolutionIsEarned'
    BY <1>2 DEF DecisionsHold, ResolutionIsEarned
  <2>2. PersistenceIsSeen'
    BY <1>2 DEF DecisionsHold, PersistenceIsSeen
  <2> QED
    BY <2>1, <2>2 DEF DecisionsHold
<1>3. ~(Begin \/ Announce \/ Rescan)
  BY StatusTables DEF Begin, Announce, Rescan, LockInv, PhasesHold
<1>4. CASE Die
  <2>1. request' = request /\ validation.step # "started"
    BY <1>4, StatusTables DEF Die, LockInv, PhasesHold
  <2>2. validation'.evidence = validation.evidence /\ validation'.before = validation.before
    BY <1>4 DEF Die, Proceed, TypeInv, TypeOK, Validation
  <2> QED
    BY <1>2, <1>4, <2>1, <2>2 DEF Die
<1>5. CASE RescanFails \/ StoreRescan \/ Compare
  BY <1>2, <1>5 DEF RescanFails, StoreRescan, Compare, Proceed, Loses, TypeInv, TypeOK, Validation
<1>6. ASSUME NEW s \in Engines, FlushCollides(s) \/ Deadlocks(s)
      PROVE  DecisionsHold'
  BY <1>2, <1>6 DEF FlushCollides, Deadlocks, Abort, Loses, TypeInv, TypeOK, Validation
<1>7. ASSUME NEW s \in Engines, Load(s) \/ Evaluate(s) \/ CommitRun(s) \/ \E i \in Items : Flush(s, i)
      PROVE  DecisionsHold'
  BY <1>2, <1>7 DEF Load, Evaluate, CommitRun, Flush, Disturb
<1>8. ASSUME NEW s \in Scans, Collect(s) \/ Store(s)
      PROVE  DecisionsHold'
  BY <1>2, <1>8 DEF Collect, Store, Disturb
<1>9. ASSUME NEW s \in Patches, LoadForPatch(s) \/ CommitPatch(s)
      PROVE  DecisionsHold'
  BY <1>2, <1>9 DEF LoadForPatch, CommitPatch, Disturb
<1> QED
  BY <1>1, <1>2, <1>3, <1>4, <1>5, <1>6, <1>7, <1>8, <1>9 DEF Next, Validate, Advance, vars, Engines

\* Where the collection has an answer, a remediation is resolved only if it was
\* found clean, for any number of findings runs beside it.
THEOREM ResolutionEarned == Spec => []ResolutionIsEarned
<1>1. DecisionsHold => ResolutionIsEarned
  BY DEF DecisionsHold
<1> QED
  BY <1>1, TypeInit, TypeStep, LockInit, LockStep, StatusInit, StatusStep, EvidenceInit, EvidenceStep,
     SeenInit, SeenStep, JustifiedInit, JustifiedStep, DecisionsInit, DecisionsStep, PTL DEF Spec

\* Where the collection has an answer, a remediation is partial or not working only
\* if the fault was found, for any number of users beside it.
THEOREM PersistenceSeen == Spec => []PersistenceIsSeen
<1>1. DecisionsHold => PersistenceIsSeen
  BY DEF DecisionsHold
<1> QED
  BY <1>1, TypeInit, TypeStep, LockInit, LockStep, StatusInit, StatusStep, EvidenceInit, EvidenceStep,
     SeenInit, SeenStep, JustifiedInit, JustifiedStep, DecisionsInit, DecisionsStep, PTL DEF Spec

-----------------------------------------------------------------------------
(* Refinement: what the request and its finding go through *)

LEMMA CaseInit == Init => Remedy!Init
<1> SUFFICES ASSUME Init PROVE Remedy!Init
  OBVIOUS
<1>1. Original \in Items
  BY RemediationAssumption
<1>2. finding[Original] \in {NoFinding} \cup {[NoFinding EXCEPT !.status = "open", !.severity = "high"]}
  BY <1>1 DEF Init
<1>3. finding[Original].status # "none"
  BY DEF Init, Exists
<1>4. finding[Original].status = "open"
  <2>1. NoFinding \in Findings /\ NoFinding.status = "none"
    BY DEF NoFinding, Findings, Severities
  <2>2. [NoFinding EXCEPT !.status = "open", !.severity = "high"].status = "open"
    BY <2>1 DEF Findings
  <2> QED
    BY <1>2, <1>3, <2>1, <2>2
<1>5. validation.before = "low" /\ validation.evidence = "none"
  BY DEF Init
<1>6. request = "OUTPUTS_CAPTURED" /\ disturbed = {}
  BY DEF Init
<1> QED
  BY <1>4, <1>5, <1>6 DEF Remedy!Init, Severities

LEMMA BeginIsBegin ==
  ASSUME TypeInv, SeenOnce, Begin
  PROVE  Remedy!Begin
<1>1. Original \in Items /\ finding[Original] \in Findings
  BY RemediationAssumption DEF TypeInv, TypeOK
<1>2. finding'[Original].status = finding[Original].status
  BY <1>1 DEF Begin, Findings
<1>3. validation'.before \in Severities /\ validation'.evidence = validation.evidence
  BY <1>1 DEF Begin, TypeInv, TypeOK, Validation, Findings
<1>4. request = "OUTPUTS_CAPTURED" /\ request' = request /\ disturbed' = {}
  BY DEF Begin, SeenOnce
<1> QED
  BY <1>2, <1>3, <1>4 DEF Remedy!Begin

LEMMA AnnounceIsAnnounce ==
  ASSUME TypeInv, LockInv, StatusKept, Announce
  PROVE  Remedy!Announce
<1>1. Original \in Items /\ finding[Original] \in Findings
  BY RemediationAssumption DEF TypeInv, TypeOK
<1>2. finding'[Original].status = Flushed(finding[Original].status, validation.seen.status, "validating")
  BY <1>1 DEF Announce, TypeInv, TypeOK, Findings
<1>3. validation.step = "started" /\ request = "OUTPUTS_CAPTURED"
  BY DEF Announce, LockInv, PhasesHold
<1>4. "patch" \notin disturbed => finding'[Original].status = "validating"
  BY <1>2, <1>3 DEF StatusKept, Flushed
<1>5. finding'[Original].status \in {finding[Original].status, "validating"}
  BY <1>2 DEF Flushed
<1>6. validation'.before = validation.before /\ validation'.evidence = validation.evidence
  BY DEF Announce, Proceed, TypeInv, TypeOK, Validation
<1>7. request' = "POST_VALIDATION_RUNNING" /\ disturbed' = disturbed
  BY DEF Announce
<1> QED
  BY <1>3, <1>4, <1>5, <1>6, <1>7 DEF Remedy!Announce, Remedy!Becomes

LEMMA RescanIsLook ==
  ASSUME TypeInv, LockInv, SeenOnce, Rescan
  PROVE  Remedy!Look
<1>1. PICK answers \in Collections :
        validation' = [validation EXCEPT !.step = "collected", !.evidence = answers[Original]]
  BY DEF Rescan
<1>2. answers[Original] \in Answers
  BY RemediationAssumption
<1>3. validation'.evidence \in Answers /\ validation'.before = validation.before
  BY <1>1, <1>2 DEF TypeInv, TypeOK, Validation
<1>4. request = "POST_VALIDATION_RUNNING" /\ validation.evidence = "none"
  BY DEF Rescan, LockInv, PhasesHold, SeenOnce
<1>5. UNCHANGED <<request, finding, disturbed>>
  BY DEF Rescan
<1> QED
  BY <1>3, <1>4, <1>5 DEF Remedy!Look

\* The outcome is one that what was seen justifies, and the finding has its status.
LEMMA FinishIsDecide ==
  ASSUME TypeInv, LockInv, StatusKept, SeenOnce, OutcomeJustified, Finish
  PROVE  \E o \in Outcomes : Remedy!Decide(o)
<1>1. PICK o \in Outcomes :
        /\ request' = RequestStatus[o]
        /\ o = validation.outcome \/ o = "VALIDATION_FAILED"
        /\ finding'[Original].status \in {finding[Original].status, FindingStatus[o]}
        /\ (/\ validation.seen.status = "validating"
            /\ finding[Original].status = "validating")
             => finding'[Original].status = FindingStatus[o]
  BY FinishDecides
<1>2. validation.step = "compared" /\ request = "POST_VALIDATION_RUNNING" /\ disturbed' = disturbed
  BY DEF Finish, LockInv, PhasesHold
<1>3. "patch" \notin disturbed => finding'[Original].status = FindingStatus[o]
  BY <1>1, <1>2 DEF StatusKept, Running
<1>4. Remedy!Justified(o)
  <2>1. CASE o = "VALIDATION_FAILED" \/ validation.evidence = "missing"
    BY <2>1 DEF Remedy!Justified
  <2>2. CASE o # "VALIDATION_FAILED" /\ validation.evidence # "missing"
    <3>1. o = validation.outcome /\ validation.evidence # "none"
      BY <1>1, <1>2, <2>2 DEF SeenOnce
    <3>2. o \in {"RESOLVED", "PARTIALLY_RESOLVED", "STILL_OPEN"}
      BY <2>2 DEF Outcomes
    <3> QED
      BY <1>2, <2>2, <3>1, <3>2 DEF OutcomeJustified, Remedy!Justified
  <2> QED
    BY <2>1, <2>2
<1>5. validation'.before = validation.before /\ validation'.evidence = validation.evidence
  BY DEF Finish, TypeInv, TypeOK, Validation
<1>6. Remedy!Decide(o)
  BY <1>1, <1>2, <1>3, <1>4, <1>5 DEF Remedy!Decide, Remedy!Becomes
<1> QED
  BY <1>6

LEMMA PatchIsUser ==
  ASSUME TypeInv, LockInv, NEW s \in Patches, CommitPatch(s)
  PROVE  Remedy!User
<1>1. Original \in Items /\ finding[Original] \in Findings
  BY RemediationAssumption DEF TypeInv, TypeOK
<1>2. PICK status \in Choices :
        finding' = [finding EXCEPT
          ![Original].status = Flushed(@, patch[s].status, status),
          ![Original].dated = Dated(@, patch[s].dated, status = "resolved")]
  BY DEF CommitPatch
<1>3. finding'[Original].status = Flushed(finding[Original].status, patch[s].status, status)
  BY <1>1, <1>2 DEF TypeInv, TypeOK, Findings
<1>4. finding'[Original].status \in Choices \cup {finding[Original].status}
  BY <1>3 DEF Flushed
<1>5. UNCHANGED <<request, validation>> /\ Disturb("patch")
  BY DEF CommitPatch
<1>6. disturbed' \in {disturbed, disturbed \cup {"patch"}}
  BY <1>5 DEF Disturb
<1>7. request # "OUTPUTS_CAPTURED" => "patch" \in disturbed'
  BY <1>5 DEF Disturb, LockInv, PhasesHold
<1> QED
  BY <1>4, <1>5, <1>6, <1>7 DEF Remedy!User

\* What the case sees of a step that writes neither the request nor the finding's status.
Unseen ==
  /\ request' = request
  /\ finding'[Original].status = finding[Original].status
  /\ validation'.before = validation.before /\ validation'.evidence = validation.evidence

LEMMA UnseenStutters ==
  ASSUME Unseen, disturbed' = disturbed \/ Disturb("run") \/ Disturb("scan")
  PROVE  [Remedy!Next]_(Remedy!vars)
<1>1. CASE disturbed' = disturbed
  BY <1>1 DEF Unseen, Remedy!vars
<1>2. CASE disturbed' = disturbed \cup {"run"}
  BY <1>2 DEF Unseen, Remedy!Touch, Remedy!Next
<1>3. CASE disturbed' = disturbed \cup {"scan"}
  BY <1>3 DEF Unseen, Remedy!Touch, Remedy!Next
<1> QED
  BY <1>1, <1>2, <1>3 DEF Disturb

\* Each step of the code is one of the case's or is not seen in it.
LEMMA CaseStep ==
  ASSUME TypeInv, LockInv, StatusKept, SeenOnce, OutcomeJustified, [Next]_vars
  PROVE  [Remedy!Next]_(Remedy!vars)
<1>1. CASE Begin
  BY <1>1, BeginIsBegin DEF Remedy!Next
<1>2. CASE Announce
  BY <1>2, AnnounceIsAnnounce DEF Remedy!Next
<1>3. CASE Rescan
  BY <1>3, RescanIsLook DEF Remedy!Next
<1>4. CASE Finish
  BY <1>4, FinishIsDecide DEF Remedy!Next
<1>5. CASE \E s \in Patches : CommitPatch(s)
  BY <1>5, PatchIsUser DEF Remedy!Next
<1>6. CASE RescanFails \/ StoreRescan \/ Compare
  <2>1. Unseen /\ disturbed' = disturbed
    BY <1>6 DEF RescanFails, StoreRescan, Compare, Proceed, Loses, Unseen, TypeInv, TypeOK, Validation
  <2> QED
    BY <2>1, UnseenStutters
<1>7. CASE Die
  <2>1. Unseen
    BY <1>7 DEF Die, Proceed, Unseen, TypeInv, TypeOK, Validation
  <2>2. CASE validation.step = "started"
    <3>1. request = "OUTPUTS_CAPTURED" /\ disturbed' = {} /\ validation.before \in Severities
      BY <1>7, <2>2 DEF Die, LockInv, PhasesHold, TypeInv, TypeOK, Validation
    <3>2. Remedy!Begin
      BY <2>1, <3>1 DEF Unseen, Remedy!Begin
    <3> QED
      BY <3>2 DEF Remedy!Next
  <2>3. CASE validation.step # "started"
    BY <1>7, <2>1, <2>3, UnseenStutters DEF Die
  <2> QED
    BY <2>2, <2>3
<1>8. ASSUME NEW s \in Engines, FlushCollides(s) \/ Deadlocks(s)
      PROVE  [Remedy!Next]_(Remedy!vars)
  <2>1. Unseen /\ disturbed' = disturbed
    BY <1>8 DEF FlushCollides, Deadlocks, Abort, Loses, Unseen, TypeInv, TypeOK, Validation
  <2> QED
    BY <2>1, UnseenStutters
<1>9. ASSUME NEW s \in Engines, CommitRun(s)
      PROVE  [Remedy!Next]_(Remedy!vars)
  <2>1. Unseen
    BY <1>9, RunKeepsOriginal DEF CommitRun, Unseen
  <2> QED
    BY <1>9, <2>1, UnseenStutters DEF CommitRun
<1>10. ASSUME NEW s \in Engines, Load(s) \/ Evaluate(s) \/ \E i \in Items : Flush(s, i)
       PROVE  [Remedy!Next]_(Remedy!vars)
  BY <1>10, UnseenStutters DEF Load, Evaluate, Flush, Unseen
<1>11. ASSUME NEW s \in Scans, Collect(s) \/ Store(s)
       PROVE  [Remedy!Next]_(Remedy!vars)
  BY <1>11, UnseenStutters DEF Collect, Store, Unseen
<1>12. ASSUME NEW s \in Patches, LoadForPatch(s)
       PROVE  [Remedy!Next]_(Remedy!vars)
  BY <1>12, UnseenStutters DEF LoadForPatch, Unseen
<1>13. CASE UNCHANGED vars
  BY <1>13, UnseenStutters DEF vars, Unseen
<1> QED
  BY <1>1, <1>2, <1>3, <1>4, <1>5, <1>6, <1>7, <1>8, <1>9, <1>10, <1>11, <1>12, <1>13
     DEF Next, Validate, Advance, Engines

\* Whatever sessions, users, collections and faults there are, a remediation is
\* announced, looked at and decided once, and in this order, and decided from what
\* was seen; only users and the decision set the finding's status.
\* (post_validation_service.py:71)
THEOREM CaseImplemented == Spec => ImplementsRemediationCase
<1>1. TypeInv /\ LockInv /\ StatusKept /\ SeenOnce /\ OutcomeJustified /\ [Next]_vars
        => [Remedy!Next]_(Remedy!vars)
  BY CaseStep
<1> QED
  BY <1>1, CaseInit, TypeInit, TypeStep, LockInit, LockStep, StatusInit, StatusStep, EvidenceInit,
     EvidenceStep, SeenInit, SeenStep, JustifiedInit, JustifiedStep, PTL
     DEF Spec, ImplementsRemediationCase, Remedy!Spec
=============================================================================

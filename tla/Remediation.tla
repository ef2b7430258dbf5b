----------------------------- MODULE Remediation -----------------------------
(***************************************************************************)
(* After an apply, `nb validate request' collects the inventory again,     *)
(* runs the findings engine on it, and decides from the request's finding  *)
(* whether the remediation worked.  Meanwhile the API's threads collect    *)
(* the same account (scans), run the engine (runs) and set the status of   *)
(* the finding (patches).                                                  *)
(*                                                                         *)
(* All of them share rows of the database.  A session reads what is        *)
(* committed; keeps what it has read until its next commit; and updates    *)
(* only the columns whose value differs from the one it has read, in the   *)
(* row as it then is.  The rows a flush has written stay locked until the  *)
(* session commits or rolls back, and whoever writes one of them waits.    *)
(*                                                                         *)
(* One cloud account is modelled, with one rule, and one request.  What    *)
(* the cloud answers is arbitrary.                                         *)
(***************************************************************************)
EXTENDS Naturals

CONSTANTS Items,      \* the resources; a finding of the rule for each; in key order
          Original,   \* the item whose finding the request remedies
          Validator,  \* the shell's session
          Runs,       \* sessions of POST /findings/run
          Scans,      \* sessions of POST /inventory/.../scan
          Patches,    \* sessions of PATCH /findings/{id}/status on the original finding
          Choices,    \* the statuses that patches choose from
          Collections,  \* what a collection of the account can say of the items
          Faults      \* which of "collector", "rule", "raise", "death" can happen

Severities == {"low", "high"}

\* What the rule makes of a resource; "none" where the inventory has no row.
Verdicts == {"clean"} \cup Severities
Rows == {"none"} \cup Verdicts

\* What a collection says; "missing": deleted, or its service did not answer.
Answers == {"missing"} \cup Verdicts

\* The statuses that findings_diff_service calls active, and others.
Active == {"open", "acknowledged", "remediation_running", "validating", "still_open"}
Statuses == Active \cup {"resolved", "partially_resolved", "validation_failed",
                         "risk_accepted", "false_positive"}

ASSUME RemediationAssumption ==
  /\ Items \subseteq Nat
  /\ Original \in Items
  /\ Validator \notin Runs \cup Scans
  /\ Choices \subseteq Statuses
  /\ Collections \subseteq [Items -> Answers]
  /\ Faults \subseteq {"collector", "rule", "raise", "death"}

Engines == Runs \cup {Validator}

VARIABLES
  resource,    \* the inventory's row of each item, as committed
  finding,     \* the finding's row of each item, as committed
  request,     \* status of the request
  validation,  \* the command that validates the request
  engine,      \* the run of the findings engine in each session
  scan,        \* the inventory scan of each session, the validator's too
  patch,       \* the status change of each session
  disturbed    \* what others committed since the validation began; read by no code

vars == <<resource, finding, request, validation, engine, scan, patch, disturbed>>

others == <<scan, patch>>

Scanners == Scans \cup {Validator}

\* fresh: last_seen_at is not before the validation's start.  dated: resolved_at is set.
Findings == [status: {"none"} \cup Statuses, severity: Severities, fresh: BOOLEAN, dated: BOOLEAN]

NoFinding == [status |-> "none", severity |-> "low", fresh |-> FALSE, dated |-> FALSE]

Exists(i) == finding[i].status # "none"

\* rows: the resources as loaded.  hits: the items the rule has a finding for.
\* seen: their findings as loaded.  locks: the findings flushed.
Engine ==
  [step: {"idle", "loaded", "evaluated"}, rows: [Items -> Rows], hits: SUBSET Items,
   seen: [Items -> Findings], fresh: BOOLEAN, locks: SUBSET Items, errors: BOOLEAN]

IdleEngine ==
  [step |-> "idle", rows |-> [i \in Items |-> "none"], hits |-> {},
   seen |-> [i \in Items |-> NoFinding], fresh |-> FALSE, locks |-> {}, errors |-> FALSE]

Outcomes == {"RESOLVED", "PARTIALLY_RESOLVED", "STILL_OPEN", "VALIDATION_FAILED"}

RequestStatus == [o \in Outcomes |->
  CASE o = "RESOLVED"           -> "REMEDIATION_RESOLVED"
    [] o = "PARTIALLY_RESOLVED" -> "REMEDIATION_PARTIALLY_RESOLVED"
    [] o = "STILL_OPEN"         -> "REMEDIATION_STILL_OPEN"
    [] o = "VALIDATION_FAILED"  -> "REMEDIATION_VALIDATION_FAILED"]

\* Mutant of FindingStatus: the outcome itself is written.
FindingStatusVerbatim == [o \in Outcomes |-> o]

FindingStatus == [o \in Outcomes |->
  CASE o = "RESOLVED"           -> "resolved"
    [] o = "PARTIALLY_RESOLVED" -> "partially_resolved"
    [] o = "STILL_OPEN"         -> "still_open"
    [] o = "VALIDATION_FAILED"  -> "validation_failed"]

Ended == {RequestStatus[o] : o \in Outcomes}

\* "lost": the command ended without an outcome, and no command takes it up again.
Steps == {"idle", "started", "announced", "collected", "stored", "failed", "compared",
          "ended", "lost"}

\* before: severity at the start.  evidence: what was collected of the original
\* item, or "none"; read by no code.
Validation ==
  [step: Steps, before: Severities, seen: Findings, evidence: {"none"} \cup Answers,
   outcome: Outcomes]

\* rows: the inventory as the upserts loaded it.
Scan == [step: {"idle", "collected"}, collected: [Items -> Answers], rows: [Items -> Rows]]

IdleScan ==
  [step |-> "idle", collected |-> [i \in Items |-> "missing"], rows |-> [i \in Items |-> "none"]]

Patch == [step: {"idle", "loaded"}, status: {"none"} \cup Statuses, dated: BOOLEAN]

IdlePatch == [step |-> "idle", status |-> "none", dated |-> FALSE]

Init ==
  /\ resource \in [Items -> Rows]
  /\ \A i \in Items : resource[i] \in {"none"} \cup {c[i] : c \in Collections}
  /\ resource[Original] # "none"
  /\ finding \in [Items -> {NoFinding} \cup {[NoFinding EXCEPT !.status = "open", !.severity = "high"]}]
  /\ \A i \in Items : resource[i] = "none" => ~Exists(i)
  /\ Exists(Original)
  /\ request = "OUTPUTS_CAPTURED"
  /\ validation = [step |-> "idle", before |-> "low", seen |-> NoFinding,
                   evidence |-> "none", outcome |-> "VALIDATION_FAILED"]
  /\ engine = [s \in Engines |-> IdleEngine]
  /\ scan = [s \in Scanners |-> IdleScan]
  /\ patch = [s \in Patches |-> IdlePatch]
  /\ disturbed = {}

\* What a column becomes when a session that has read `seen' sets it to `new'.
Flushed(current, seen, new) == IF seen = new THEN current ELSE new

\* No other session has written the finding of i and not yet committed.
Free(s, i) == \A t \in Engines \ {s} : i \notin engine[t].locks

Disturb(kind) ==
  disturbed' = IF validation.step = "idle" THEN disturbed ELSE disturbed \cup {kind}

-----------------------------------------------------------------------------
(* The inventory: run_aws_inventory_scan, run_oci_inventory_scan *)

Upserted(s) ==
  [i \in Items |-> IF scan[s].collected[i] = "missing" THEN resource[i]
                   ELSE Flushed(resource[i], scan[s].rows[i], scan[s].collected[i])]

\* Another session has inserted a row that s is going to insert.
Collides(s) ==
  \E i \in Items :
    scan[s].collected[i] # "missing" /\ scan[s].rows[i] = "none" /\ resource[i] # "none"

Collected(s, answers) ==
  scan' = [scan EXCEPT ![s] = [step |-> "collected", collected |-> answers, rows |-> resource]]

Stored(s) ==
  /\ scan[s].step = "collected"
  /\ scan' = [scan EXCEPT ![s] = IdleScan]

\* The scan of an API thread.  One that fails changes none of these rows.
Collect(s) ==
  /\ scan[s].step = "idle"
  /\ \E answers \in Collections : Collected(s, answers)
  /\ UNCHANGED <<resource, finding, request, validation, engine, patch, disturbed>>

Store(s) ==
  /\ Stored(s)
  /\ IF Collides(s)
     THEN UNCHANGED <<resource, disturbed>>
     ELSE /\ resource' = Upserted(s)
          /\ IF scan[s].collected[Original] = "missing" THEN UNCHANGED disturbed ELSE Disturb("scan")
  /\ UNCHANGED <<finding, request, validation, engine, patch>>

-----------------------------------------------------------------------------
(* The findings engine, in an API thread or in the validation *)

\* The resources are loaded once; the rule is evaluated on what was loaded.
Load(s) ==
  /\ engine[s].step = "idle"
  /\ s = Validator => validation.step = "stored"
  /\ engine' = [engine EXCEPT ![s].step = "loaded", ![s].rows = resource]
  /\ UNCHANGED <<resource, finding, request, validation, others, disturbed>>

\* A rule that raises is counted and leaves the finding of its resource alone.
Erroneous == IF "rule" \in Faults THEN SUBSET Items ELSE {{}}

\* Each hit's finding is selected by its fingerprint and stamped with the time.
Evaluate(s) ==
  /\ engine[s].step = "loaded"
  /\ \E errors \in Erroneous :
       LET hits == {i \in Items \ errors : engine[s].rows[i] \in Severities}
       IN  engine' = [engine EXCEPT
             ![s].step = "evaluated",
             ![s].hits = hits,
             ![s].seen = [i \in Items |-> IF i \in hits THEN finding[i] ELSE NoFinding],
             ![s].fresh = validation.step # "idle",
             ![s].errors = errors # {}]
  /\ UNCHANGED <<resource, finding, request, validation, others, disturbed>>

\* A flush updates the known findings in key order, and then inserts the new
\* ones in the order of the resources, which is taken to be the same for all.
Waiting(s) == engine[s].hits \ engine[s].locks

New(s) == {i \in engine[s].hits : engine[s].seen[i].status = "none"}

NextToFlush(s, i) ==
  /\ engine[s].step = "evaluated"
  /\ i \in Waiting(s)
  /\ \A j \in Waiting(s) \ {i} :
       \/ (i \in New(s) <=> j \in New(s)) /\ i < j
       \/ i \notin New(s) /\ j \in New(s)

Flush(s, i) ==
  /\ NextToFlush(s, i)
  /\ Free(s, i)
  /\ i \in New(s) => ~Exists(i)
  /\ engine' = [engine EXCEPT ![s].locks = @ \cup {i}]
  /\ UNCHANGED <<resource, finding, request, validation, others, disturbed>>

FlushDone(s) == engine[s].step = "evaluated" /\ Waiting(s) = {}

\* Mutant of UpsertedFinding: the whole row is written as it was loaded.
RewrittenFinding(s, i) ==
  LET e == engine[s]
  IN  IF i \in New(s)
      THEN [status |-> "open", severity |-> e.rows[i], fresh |-> e.fresh, dated |-> FALSE]
      ELSE [e.seen[i] EXCEPT !.severity = e.rows[i], !.fresh = e.fresh]

\* The finding as the commit of s leaves it.  A status is set for a new one only.
UpsertedFinding(s, i) ==
  LET e == engine[s]
      severity == Flushed(finding[i].severity, e.seen[i].severity, e.rows[i])
  IN  IF i \in New(s)
      THEN [status |-> "open", severity |-> e.rows[i], fresh |-> e.fresh, dated |-> FALSE]
      ELSE [finding[i] EXCEPT !.severity = severity, !.fresh = e.fresh]

UpsertedFindings(s) ==
  [i \in Items |-> IF i \in engine[s].hits THEN UpsertedFinding(s, i) ELSE finding[i]]

CommitRun(s) ==
  /\ s \in Runs
  /\ FlushDone(s)
  /\ finding' = UpsertedFindings(s)
  /\ engine' = [engine EXCEPT ![s] = IdleEngine]
  /\ IF Original \in engine[s].hits THEN Disturb("run") ELSE UNCHANGED disturbed
  /\ UNCHANGED <<resource, request, validation, others>>

-----------------------------------------------------------------------------
(* PATCH /findings/{id}/status: update_finding_status *)

LoadForPatch(s) ==
  /\ patch[s].step = "idle"
  /\ patch' = [patch EXCEPT ![s] =
       [step |-> "loaded", status |-> finding[Original].status, dated |-> finding[Original].dated]]
  /\ UNCHANGED <<resource, finding, request, validation, engine, scan, disturbed>>

\* What a session that has read resolved_at makes of it: the time, or null.
Dated(current, seen, resolved) == resolved \/ (current /\ ~seen)

CommitPatch(s) ==
  /\ patch[s].step = "loaded"
  /\ \A t \in Engines : Original \notin engine[t].locks
  /\ \E status \in Choices :
       finding' = [finding EXCEPT
         ![Original].status = Flushed(@, patch[s].status, status),
         ![Original].dated = Dated(@, patch[s].dated, status = "resolved")]
  /\ patch' = [patch EXCEPT ![s] = IdlePatch]
  /\ Disturb("patch")
  /\ UNCHANGED <<resource, request, validation, engine, scan>>

-----------------------------------------------------------------------------
(* PostValidationService.validate_request *)

Proceed(step) == validation' = [validation EXCEPT !.step = step]

\* Mutant of Begin: a request that has an outcome is validated again.
BeginAgain ==
  /\ validation.step \in {"idle", "ended"}
  /\ request \in {"OUTPUTS_CAPTURED"} \cup Ended
  /\ validation' = [validation EXCEPT !.step = "started", !.before = finding[Original].severity,
                                      !.seen = finding[Original]]
  /\ finding' = [i \in Items |-> [finding[i] EXCEPT !.fresh = FALSE]]
  /\ engine' = [s \in Engines |-> [engine[s] EXCEPT !.fresh = FALSE]]
  /\ UNCHANGED <<resource, request, others, disturbed>>

\* From here on `fresh' is about this validation.
Begin ==
  /\ validation.step = "idle"
  /\ request = "OUTPUTS_CAPTURED"
  /\ validation' = [validation EXCEPT !.step = "started", !.before = finding[Original].severity,
                                      !.seen = finding[Original]]
  /\ finding' = [i \in Items |-> [finding[i] EXCEPT !.fresh = FALSE]]
  /\ engine' = [s \in Engines |-> [engine[s] EXCEPT !.fresh = FALSE]]
  /\ UNCHANGED <<resource, request, others, disturbed>>

\* The statuses are committed, with the scan row or, if writing
\* findings-before.json raises, with the audit row of the command.
Announce ==
  /\ validation.step = "started"
  /\ Free(Validator, Original)
  /\ request' = "POST_VALIDATION_RUNNING"
  /\ finding' = [finding EXCEPT ![Original].status = Flushed(@, validation.seen.status, "validating")]
  /\ \/ Proceed("announced")
     \/ "raise" \in Faults /\ Proceed("lost")
  /\ UNCHANGED <<resource, engine, others, disturbed>>

\* RescanService.rescan_account: the collector answers, or raises.
Rescan ==
  /\ validation.step = "announced"
  /\ \E answers \in Collections :
       /\ Collected(Validator, answers)
       /\ validation' = [validation EXCEPT !.step = "collected", !.evidence = answers[Original]]
  /\ UNCHANGED <<resource, finding, request, engine, patch, disturbed>>

\* Mutant of RescanFails: the command returns as soon as the collector has failed.
RescanFailsSilently ==
  /\ "collector" \in Faults
  /\ validation.step = "announced"
  /\ Proceed("ended")
  /\ UNCHANGED <<resource, finding, request, engine, others, disturbed>>

RescanFails ==
  /\ "collector" \in Faults
  /\ validation.step = "announced"
  /\ Proceed("failed")
  /\ UNCHANGED <<resource, finding, request, engine, others, disturbed>>

\* A flush that fails leaves the session unusable until it is rolled back, which
\* none of the handlers above it does: all of them raise again.
Loses ==
  /\ validation' = [validation EXCEPT !.step = "lost"]
  /\ engine' = [engine EXCEPT ![Validator] = IdleEngine]

StoreRescan ==
  /\ validation.step = "collected"
  /\ Stored(Validator)
  /\ IF Collides(Validator)
     THEN Loses /\ UNCHANGED resource
     ELSE Proceed("stored") /\ resource' = Upserted(Validator) /\ UNCHANGED engine
  /\ UNCHANGED <<finding, request, patch, disturbed>>

\* FindingsDiffService.build_diff
Rank == [s \in Severities |-> IF s = "low" THEN 0 ELSE 1]

\* Mutant of Outcome: a finding that was not seen again is resolved, whatever failed.
OutcomeIgnoringFailure(succeeded, row) ==
  IF ~(row.status \in Active /\ row.fresh) THEN "RESOLVED"
  ELSE IF ~succeeded THEN "VALIDATION_FAILED"
  ELSE IF Rank[row.severity] < Rank[validation.before] THEN "PARTIALLY_RESOLVED"
  ELSE "STILL_OPEN"

\* Mutant of Outcome: severities compared the wrong way round.
OutcomeReversed(succeeded, row) ==
  IF ~succeeded THEN "VALIDATION_FAILED"
  ELSE IF ~(row.status \in Active /\ row.fresh) THEN "RESOLVED"
  ELSE IF Rank[row.severity] > Rank[validation.before] THEN "PARTIALLY_RESOLVED"
  ELSE "STILL_OPEN"

Outcome(succeeded, row) ==
  IF ~succeeded THEN "VALIDATION_FAILED"
  ELSE IF ~(row.status \in Active /\ row.fresh) THEN "RESOLVED"
  ELSE IF Rank[row.severity] < Rank[validation.before] THEN "PARTIALLY_RESOLVED"
  ELSE "STILL_OPEN"

\* Mutant of After: the finding as it was loaded when the validation began.
AfterAsBefore == validation.seen

\* The finding as the session has it: with the engine's changes, or as committed.
After ==
  LET e == engine[Validator]
  IN  IF Original \in e.hits
      THEN [e.seen[Original] EXCEPT !.severity = e.rows[Original], !.fresh = TRUE]
      ELSE finding[Original]

Compare ==
  /\ \/ validation.step = "failed" /\ engine[Validator].step = "idle"
     \/ validation.step = "stored" /\ FlushDone(Validator)
  /\ LET succeeded == validation.step = "stored" /\ ~engine[Validator].errors
     IN  validation' = [validation EXCEPT !.step = "compared", !.seen = After,
                                          !.outcome = Outcome(succeeded, After)]
  /\ UNCHANGED <<resource, finding, request, engine, others, disturbed>>

\* The outcome is written; or the final report raises, which fails the validation
\* before or after the outcome has been flushed, and leaves resolved_at.
Verdict(raised) == IF raised THEN "VALIDATION_FAILED" ELSE validation.outcome

StatusesOnFinish(current, raised) ==
  LET o == validation.outcome
      written == Flushed(current, validation.seen.status, FindingStatus[o])
  IN  IF raised
      THEN {Flushed(current, validation.seen.status, "validation_failed"),
            Flushed(written, FindingStatus[o], "validation_failed")}
      ELSE {written}

Finish ==
  /\ validation.step = "compared"
  /\ Free(Validator, Original)
  /\ \E raised \in BOOLEAN :
       /\ raised => "raise" \in Faults
       /\ request' = RequestStatus[Verdict(raised)]
       /\ \E status \in StatusesOnFinish(finding[Original].status, raised) :
            finding' = [UpsertedFindings(Validator) EXCEPT
              ![Original].status = status,
              ![Original].dated = Dated(@, validation.seen.dated, validation.outcome = "RESOLVED")]
  /\ validation' = [validation EXCEPT !.step = "ended", !.seen = NoFinding]
  /\ engine' = [engine EXCEPT ![Validator] = IdleEngine]
  /\ UNCHANGED <<resource, others, disturbed>>

-----------------------------------------------------------------------------
(* Sessions in each other's way, and the end of the process *)

Abort(s) ==
  IF s = Validator
  THEN Loses
  ELSE /\ engine' = [engine EXCEPT ![s] = IdleEngine]
       /\ UNCHANGED validation

\* Another session has committed a finding that s is going to insert.
FlushCollides(s) ==
  /\ \E i \in New(s) : NextToFlush(s, i) /\ Free(s, i) /\ Exists(i)
  /\ Abort(s)
  /\ UNCHANGED <<resource, finding, request, others, disturbed>>

Wants(s, i) ==
  \/ NextToFlush(s, i)
  \/ s = Validator /\ validation.step = "compared" /\ i = Original /\ i \notin engine[s].locks

WaitsFor(s, t) == \E i \in engine[t].locks : s # t /\ Wants(s, i)

\* The database aborts a session of a circle of sessions that wait for each other.
InDeadlock(s) ==
  \E circle \in SUBSET Engines :
    /\ s \in circle
    /\ \A t \in circle : (\E u \in circle : WaitsFor(t, u)) /\ (\E u \in circle : WaitsFor(u, t))

Deadlocks(s) ==
  /\ InDeadlock(s)
  /\ Abort(s)
  /\ UNCHANGED <<resource, finding, request, others, disturbed>>

\* The server is killed, and all of its sessions roll back.
Die ==
  /\ "death" \in Faults
  /\ Proceed(CASE validation.step \in {"idle", "started"} -> "idle"
               [] validation.step \in {"ended", "lost"}   -> validation.step
               [] OTHER                                   -> "lost")
  /\ engine' = [s \in Engines |-> IdleEngine]
  /\ scan' = [s \in Scanners |-> IdleScan]
  /\ patch' = [s \in Patches |-> IdlePatch]
  /\ disturbed' = IF validation.step = "started" THEN {} ELSE disturbed
  /\ UNCHANGED <<resource, finding, request>>

-----------------------------------------------------------------------------

\* What an engine does once it has been started.
Advance(s) ==
  \/ Evaluate(s)
  \/ \E i \in Items : Flush(s, i)
  \/ CommitRun(s)
  \/ FlushCollides(s)
  \/ Deadlocks(s)

Validate ==
  \/ Announce
  \/ Rescan
  \/ RescanFails
  \/ StoreRescan
  \/ Load(Validator)
  \/ Compare
  \/ Finish

Next ==
  \/ Begin
  \/ Validate
  \/ \E s \in Runs : Load(s)
  \/ \E s \in Engines : Advance(s)
  \/ \E s \in Scans : Collect(s) \/ Store(s)
  \/ \E s \in Patches : LoadForPatch(s) \/ CommitPatch(s)
  \/ Die

\* A command and a run go on until they end; a lock is given to those who wait
\* for it in turn.
Fairness ==
  /\ SF_vars(Validate)
  /\ \A s \in Engines : SF_vars(Advance(s))

Spec == Init /\ [][Next]_vars

FairSpec == Spec /\ Fairness

-----------------------------------------------------------------------------
(* Properties *)

TypeOK ==
  /\ resource \in [Items -> Rows]
  /\ finding \in [Items -> Findings]
  /\ request \in {"OUTPUTS_CAPTURED", "POST_VALIDATION_RUNNING"} \cup Ended
  /\ validation \in Validation
  /\ engine \in [Engines -> Engine]
  /\ scan \in [Scanners -> Scan]
  /\ patch \in [Patches -> Patch]
  /\ disturbed \subseteq {"run", "scan", "patch"}

\* Except where the collection did not mention the resource, and where no scan and no
\* user comes between, a remediation is resolved only if the validation found the
\* resource clean; a collection that failed never resolves it.
\* (docs/findings-diff-model.md:11)
ResolutionIsEarned ==
  /\ request = RequestStatus["RESOLVED"]
  /\ validation.evidence # "missing"
  /\ disturbed \cap {"scan", "patch"} = {}
  => validation.evidence = "clean"

\* With the same exception, and where no scan and no other run comes between,
\* a remediation is partial or not working only if the validation found the
\* fault, less severe than before exactly where it is partial.
\* (docs/findings-diff-model.md:12)
PersistenceIsSeen ==
  /\ request \in {RequestStatus["PARTIALLY_RESOLVED"], RequestStatus["STILL_OPEN"]}
  /\ validation.evidence # "missing"
  /\ disturbed \cap {"scan", "run"} = {}
  => /\ validation.evidence \in Severities
     /\ request = RequestStatus["PARTIALLY_RESOLVED"] <=>
          validation.before = "high" /\ validation.evidence = "low"

\* What a validation decided stays on the finding, whatever findings runs were
\* under way when it did, until a user changes it.
\* (docs/provisioning-request-lifecycle.md:65)
OutcomesStand ==
  request \in Ended /\ "patch" \notin disturbed =>
    \E o \in Outcomes :
      /\ request = RequestStatus[o]
      /\ finding[Original].status = FindingStatus[o]
      /\ o = "RESOLVED" => finding[Original].dated

\* Findings runs and scans change the status of no known finding, whatever they
\* had read of it: only users and the validation do.  (docs/findings-diff-model.md:7)
StatusesAreDecided ==
  [][\A i \in Items :
       Exists(i) /\ finding'[i].status # finding[i].status
         => i = Original /\ (patch' # patch \/ request' # request)]_vars

\* The inventory, the engine, the sessions and their locks do to the request and
\* its finding what a validation would that decides once, from what it has seen.
\* (docs/post-remediation-validation.md:5)
Remedy == INSTANCE RemediationCase
  WITH status <- finding[Original].status, before <- validation.before,
       evidence <- validation.evidence, touched <- disturbed

ImplementsRemediationCase == Remedy!Spec

\* A validation that is announced comes to an outcome, or its command is lost.
\* (docs/post-remediation-validation.md)
ValidationEnds ==
  request = "POST_VALIDATION_RUNNING" ~> request \in Ended \/ validation.step = "lost"
=============================================================================

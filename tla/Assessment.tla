----------------------------- MODULE Assessment -----------------------------
(***************************************************************************)
(* From resources to scores.  Scans store what providers say of resources, *)
(* a findings run asks five rules about each, users and validations decide *)
(* on findings, and POST /scores/calculate turns the active findings of a  *)
(* scope into six scores with trends, which the summary of the dashboard   *)
(* reads.                                                                  *)
(*                                                                         *)
(* Calculations run in threads of the API: each loads the findings once,   *)
(* looks the previous score up as it makes each row, by the row's own      *)
(* time, and commits its six rows at once.  Findings runs are one step     *)
(* here; Remediation has what can come between theirs.                     *)
(***************************************************************************)
EXTENDS Normalization, Integers, FiniteSets, Functions

CONSTANTS
  Accounts,     \* the tenant's active cloud accounts
  ProviderOf,   \* the provider of each
  Resources,    \* resources of the inventory
  AccountOf,    \* the account of each
  Described,    \* what its provider may say of each
  Decisions,    \* the statuses that users and validations give
  TiesUp,       \* domain scores whose weighted mean lies between two scores and is rounded up
  Asked,        \* a bound: the scopes that scores are asked for
  MaxRuns,      \* a bound: how many calculations there are that run one after the other
  MaxOverlapping,  \* a bound: how many there are if any of them overlap
  MaxScans      \* a bound: how many scans and decisions there are

-----------------------------------------------------------------------------
ASSUME AssessmentAssumption ==
  /\ IsFiniteSet(Resources)
  /\ ProviderOf \in [Accounts -> Providers]
  /\ AccountOf \in [Resources -> Accounts]
  /\ Described \in [Resources -> SUBSET Descriptions]
  /\ \A r \in Resources : \A d \in Described[r] :
       d.provider = ProviderOf[AccountOf[r]] /\ d.kind \in Collected[d.provider]
  /\ {MaxRuns, MaxOverlapping, MaxScans} \subseteq Nat
  /\ MaxOverlapping <= MaxRuns

-----------------------------------------------------------------------------
(* The rules: the severity of what each finds, "none", or "error" *)

MissingTags(r) ==
  LET missing == r.untagged \cup (IF r.environment = "unknown" THEN {"environment"} ELSE {}) IN
  IF missing = {} THEN "none"
  ELSE IF r.environment = "prod" /\ missing \cap {"owner", "cost_center"} # {} THEN "high"
  ELSE "medium"

PublicExposure(r) ==
  IF r.exposure = {} THEN "none"
  ELSE IF r.kind \in {"database", "identity"} THEN "critical"
  ELSE IF r.kind = "load_balancer" THEN "medium"
  ELSE "high"

UnattachedVolume(r) == IF r.kind = "block_storage" /\ r.loose # {} THEN "low" ELSE "none"

IdleCompute(r) ==
  IF r.kind # "compute" \/ r.cpu \in {"none", "high"} THEN "none"
  ELSE IF r.cpu = "low" THEN "medium"
  ELSE "error"

\* A resource in production that says nothing is worse off than one whose
\* monitoring is known to be off.
ObservabilityGap(r) ==
  IF r.kind \notin {"compute", "database", "network", "load_balancer"} THEN "none"
  ELSE IF r.environment = "prod" /\ r.monitoring = "unsaid" THEN "high"
  ELSE IF r.monitoring = "off" THEN "medium"
  ELSE "none"

FindingTypes ==
  {"missing_tags", "public_exposure", "unattached_volume", "idle_compute", "observability_gap"}

Judged(r, type) ==
  CASE type = "missing_tags" -> MissingTags(r)
    [] type = "public_exposure" -> PublicExposure(r)
    [] type = "unattached_volume" -> UnattachedVolume(r)
    [] type = "idle_compute" -> IdleCompute(r)
    [] type = "observability_gap" -> ObservabilityGap(r)

-----------------------------------------------------------------------------
(* The scores *)

\* Deductions are counted in halves of a point.
SeverityDeduction == [critical |-> 50, high |-> 30, medium |-> 16, low |-> 6, informational |-> 2]

Domains == {"finops", "governance", "observability", "security_baseline", "resilience"}

\* The order in which the rows of a calculation are made.
ScoreTypes ==
  <<"finops", "governance", "observability", "security_baseline", "resilience", "overall">>

FindingTypesOf ==
  [finops |-> {"idle_compute", "unattached_volume"}, governance |-> {"missing_tags"},
   observability |-> {"observability_gap"}, security_baseline |-> {"public_exposure"},
   resilience |-> {"observability_gap"}]

\* In twentieths.
OverallWeights ==
  [finops |-> 4, governance |-> 4, observability |-> 4, security_baseline |-> 5, resilience |-> 3]

ActiveStatuses == {"open", "acknowledged"}

\* A finding as a calculation counts it.
Counted == [resource: Resources, type: FindingTypes, severity: DOMAIN SeverityDeduction]

\* A score given in halves: rounded to even, and within 0..100.
ClampScore(halves) ==
  LET half == halves \div 2 IN
  IF halves <= 0 THEN 0
  ELSE IF halves % 2 = 0 \/ half % 2 = 0 THEN half
  ELSE half + 1

\* Mutant of DomainScore: the mean deduction instead of their sum.
DomainScoreByMean(domain, counted) ==
  LET relevant == {f \in counted : f.type \in FindingTypesOf[domain]}
      total == SumFunction([f \in relevant |-> SeverityDeduction[f.severity]])
  IN ClampScore(200 - (IF relevant = {} THEN 0 ELSE total \div Cardinality(relevant)))

DomainScore(domain, counted) ==
  LET relevant == {f \in counted : f.type \in FindingTypesOf[domain]}
      total == SumFunction([f \in relevant |-> SeverityDeduction[f.severity]])
  IN ClampScore(200 - (IF domain = "resilience" THEN total \div 2 ELSE total))

\* The weighted mean.  Floating-point sums that should lie between two scores
\* fall on either side of it.
OverallScore(domains) ==
  LET total == SumFunction([d \in Domains |-> domains[d] * OverallWeights[d]])
      rest == total % 20
  IN total \div 20 + (IF rest > 10 \/ (rest = 10 /\ domains \in TiesUp) THEN 1 ELSE 0)

ScoreOf(type, counted) ==
  IF type \in Domains THEN DomainScore(type, counted)
  ELSE OverallScore([d \in Domains |-> DomainScore(d, counted)])

\* Mutant of TrendForScores: the previous score less the current one.
TrendForScoresReversed(current, previous) ==
  IF previous - current >= 3 THEN "improving"
  ELSE IF previous - current <= -3 THEN "degrading"
  ELSE "stable"

TrendForScores(current, previous) ==
  IF current - previous >= 3 THEN "improving"
  ELSE IF current - previous <= -3 THEN "degrading"
  ELSE "stable"

-----------------------------------------------------------------------------

VARIABLES
  resource,  \* the inventory
  finding,   \* the findings by resource and type
  runs,      \* the calculations in the order they were started
  rows,      \* the scores they have made, visible to others when they commit
  now,       \* the time of the next one
  scans      \* how many scans and decisions there were; a bound, read by no code

vars == <<resource, finding, runs, rows, now, scans>>

FindingStatuses ==
  {"open", "acknowledged", "remediation_planned", "pending_approval", "remediation_running",
   "validating", "resolved", "partially_resolved", "still_open", "validation_failed",
   "risk_accepted", "false_positive"}

ASSUME DecisionsAssumption == Decisions \subseteq FindingStatuses

Findings == [status: FindingStatuses \cup {"none"}, severity: DOMAIN SeverityDeduction]

NoFinding == [status |-> "none", severity |-> "informational"]

\* A calculation's scope: the whole tenant, a provider, or an account, which brings
\* its provider.
Scopes ==
  [account: {"all"}, provider: Providers \cup {"all"}]
    \cup {[account |-> a, provider |-> ProviderOf[a]] : a \in Accounts}

ASSUME AskedAssumption == Asked \subseteq Scopes

\* counted: the findings it has loaded.  made: how many rows it has.  alone: no
\* other calculation ran meanwhile; steady: what it loaded was up to date, and since then
\* resources have only become worse; before: the steady ones when it loaded.  No code reads these three.
Runs ==
  [phase: {"running", "committed", "failed"}, scope: Scopes, counted: SUBSET Counted,
   made: 0..Len(ScoreTypes), alone: BOOLEAN, steady: BOOLEAN, before: SUBSET (1..MaxRuns)]

ScoreRows ==
  [run: 1..MaxRuns, type: Domains \cup {"overall"}, value: 0..100,
   trend: {"improving", "stable", "degrading", "unknown"}, at: Nat]

RowsOf(i) == {row \in rows : row.run = i}

Committed == {row \in rows : runs[row.run].phase = "committed"}

ScopeOf(row) == runs[row.run].scope

Running == {i \in DOMAIN runs : runs[i].phase = "running"}

\* What scans may store of a resource.
RowsFor(r) == {Normalized(d) : d \in Described[r]}

Init ==
  /\ resource \in [Resources -> UNION {RowsFor(r) : r \in Resources}]
  /\ \A r \in Resources : resource[r] \in RowsFor(r)
  /\ finding = [r \in Resources |-> [type \in FindingTypes |-> NoFinding]]
  /\ runs = <<>>
  /\ rows = {}
  /\ now = 0
  /\ scans = 0

-----------------------------------------------------------------------------
(* Resources and findings *)

\* The row got no better in any respect that a rule looks at.
NoBetter(new, old) ==
  /\ new.kind = old.kind /\ new.environment = old.environment
  /\ old.untagged \subseteq new.untagged
  /\ old.exposure \subseteq new.exposure
  /\ old.loose \subseteq new.loose
  /\ new.cpu = old.cpu \/ new.cpu = "low"
  /\ new.monitoring = old.monitoring \/ old.monitoring = "on"

Unsteady == [i \in DOMAIN runs |-> [runs[i] EXCEPT !.steady = FALSE]]

\* A scan stores what the provider says now.
Scan(r) ==
  /\ scans < MaxScans
  /\ scans' = scans + 1
  /\ \E row \in RowsFor(r) \ {resource[r]} :
       /\ resource' = [resource EXCEPT ![r] = row]
       /\ runs' = IF NoBetter(row, resource[r]) THEN runs ELSE Unsteady
  /\ UNCHANGED <<finding, rows, now>>

\* A user or a validation gives a finding another status.
Decide(r, type) ==
  /\ scans < MaxScans
  /\ scans' = scans + 1
  /\ finding[r][type].status # "none"
  /\ \E status \in Decisions \ {finding[r][type].status} :
       finding' = [finding EXCEPT ![r][type].status = status]
  /\ runs' = Unsteady
  /\ UNCHANGED <<resource, rows, now>>

\* Mutant of Upserted: a rule that finds nothing is no reason to return.
UpsertedAnyway(f, severity) ==
  IF severity = "error" THEN f
  ELSE IF f.status = "none" THEN [status |-> "open", severity |-> severity]
  ELSE [f EXCEPT !.severity = severity]

\* A finding that is known keeps its status; one whose rule finds nothing, or
\* raises, is left as it is.
Upserted(f, severity) ==
  IF severity \in {"none", "error"} THEN f
  ELSE IF f.status = "none" THEN [status |-> "open", severity |-> severity]
  ELSE [f EXCEPT !.severity = severity]

\* POST /findings/run.
FindingsRun ==
  /\ finding' = [r \in Resources |-> [type \in FindingTypes |->
                   Upserted(finding[r][type], Judged(resource[r], type))]]
  /\ finding' # finding
  /\ UNCHANGED <<resource, runs, rows, now, scans>>

-----------------------------------------------------------------------------
(* Calculations *)

InScope(r, scope) ==
  /\ scope.account \in {"all", AccountOf[r]}
  /\ scope.provider \in {"all", ProviderOf[AccountOf[r]]}

LoadFindings(scope) ==
  {f \in Counted :
     /\ InScope(f.resource, scope)
     /\ finding[f.resource][f.type].status \in ActiveStatuses
     /\ finding[f.resource][f.type].severity = f.severity}

\* The rules find what is active still, and no less severe.
UpToDate(scope) ==
  \A r \in Resources, type \in FindingTypes :
    LET f == finding[r][type]  severity == Judged(resource[r], type) IN
    InScope(r, scope) /\ f.status \in ActiveStatuses =>
      severity \notin {"none", "error"} /\ SeverityDeduction[f.severity] <= SeverityDeduction[severity]

\* A thread takes a request on and loads the findings.
Start(scope) ==
  /\ Len(runs) < IF Running = {} /\ \A i \in DOMAIN runs : runs[i].alone THEN MaxRuns ELSE MaxOverlapping
  /\ runs' = Append([i \in DOMAIN runs |-> IF i \in Running THEN [runs[i] EXCEPT !.alone = FALSE] ELSE runs[i]],
                    [phase |-> "running", scope |-> scope, counted |-> LoadFindings(scope),
                     made |-> 0, alone |-> Running = {}, steady |-> UpToDate(scope),
                     before |-> {i \in DOMAIN runs : runs[i].steady}])
  /\ UNCHANGED <<resource, finding, rows, now, scans>>

\* Mutant of PreviousScores: of whatever scope.
PreviousScoresAnywhere(scope, type) ==
  LET earlier == {row \in Committed : row.type = type} IN
  {row \in earlier : \A other \in earlier : other.at <= row.at}

\* The newest committed score of the same scope and type, if there is one.
PreviousScores(scope, type) ==
  LET earlier == {row \in Committed : row.type = type /\ ScopeOf(row) = scope} IN
  {row \in earlier : \A other \in earlier : other.at <= row.at}

\* The next row of a calculation.
NewRow(i) ==
  LET type == ScoreTypes[runs[i].made + 1]
      value == ScoreOf(type, runs[i].counted)
      previous == PreviousScores(runs[i].scope, type)
  IN [run |-> i, type |-> type, value |-> value, at |-> now,
      trend |-> IF previous = {} THEN "unknown"
                ELSE TrendForScores(value, (CHOOSE row \in previous : TRUE).value)]

\* Mutant of PersistScore: each row is committed by itself.
PersistScoreAtOnce(i) ==
  /\ runs[i].made < Len(ScoreTypes)
  /\ rows' = rows \cup {NewRow(i)}
  /\ runs' = [runs EXCEPT ![i].phase = "committed", ![i].made = @ + 1]
  /\ now' = now + 1
  /\ UNCHANGED <<resource, finding, scans>>

PersistScore(i) ==
  /\ i \in Running
  /\ runs[i].made < Len(ScoreTypes)
  /\ rows' = rows \cup {NewRow(i)}
  /\ runs' = [runs EXCEPT ![i].made = @ + 1]
  /\ now' = now + 1
  /\ UNCHANGED <<resource, finding, scans>>

\* One commit for the six rows.
Commit(i) ==
  /\ i \in Running
  /\ runs[i].made = Len(ScoreTypes)
  /\ runs' = [runs EXCEPT ![i].phase = "committed"]
  /\ UNCHANGED <<resource, finding, rows, now, scans>>

\* An exception rolls the rows back.
Fail(i) ==
  /\ i \in Running
  /\ runs' = [runs EXCEPT ![i].phase = "failed", ![i].made = 0]
  /\ rows' = rows \ RowsOf(i)
  /\ UNCHANGED <<resource, finding, now, scans>>

Next ==
  \/ \E r \in Resources : Scan(r)
  \/ \E r \in Resources, type \in FindingTypes : Decide(r, type)
  \/ FindingsRun
  \/ \E scope \in Asked : Start(scope)
  \/ \E i \in DOMAIN runs : PersistScore(i) \/ Commit(i) \/ Fail(i)

Spec == Init /\ [][Next]_vars

-----------------------------------------------------------------------------
(* The summary *)

\* Its filter is by account, by provider, or none.
Filters == [account: Accounts \cup {"all"}, provider: Providers \cup {"all"}]

Passes(row, filter) ==
  /\ filter.account \in {"all", ScopeOf(row).account}
  /\ filter.provider \in {"all", ScopeOf(row).provider}

\* The newest row of each type and scope.
LatestScores(filter) ==
  LET passing == {row \in Committed : Passes(row, filter)} IN
  {row \in passing :
     \A other \in passing :
       other.type = row.type /\ ScopeOf(other) = ScopeOf(row) => other.at <= row.at}

\* Of each type, the scope that comes last in that list: the one whose score
\* is the oldest.
ScoreSummary(filter) ==
  LET latest == LatestScores(filter) IN
  {row \in latest : \A other \in latest : other.type = row.type => row.at <= other.at}

-----------------------------------------------------------------------------
(* Properties *)

TypeOK ==
  /\ resource \in [Resources -> ResourceRows]
  /\ finding \in [Resources -> [FindingTypes -> Findings]]
  /\ runs \in Seq(Runs)
  /\ rows \subseteq ScoreRows
  /\ now \in Nat
  /\ scans \in 0..MaxScans

Within(narrow, wide) ==
  wide.account \in {"all", narrow.account} /\ wide.provider \in {"all", narrow.provider}

\* Where resources have only become worse since a calculation whose findings were up to
\* date, and nobody decided anything, no score has risen, and no score of a scope is
\* better than that of a part of it: through the rules, the findings runs and the
\* formulas.  (scoring/formulas.py, findings/rules.py)
DecayShows ==
  \A new, old \in rows :
    /\ new.type = old.type
    /\ old.run \in runs[new.run].before
    /\ Within(ScopeOf(old), ScopeOf(new))
    => new.value <= old.value

\* A score is called improving only if something that an earlier score of its scope
\* counted is counted no longer, or for less, whatever calculations overlapped.
\* (docs/architecture/risk-scoring-engine.md:97)
ImprovementIsEarned ==
  \A new \in Committed : new.trend = "improving" =>
    \E old \in Committed :
      /\ old.type = new.type /\ ScopeOf(old) = ScopeOf(new) /\ old.at < new.at
      /\ \E f \in runs[old.run].counted :
           \A g \in runs[new.run].counted :
             g.resource = f.resource /\ g.type = f.type =>
               SeverityDeduction[g.severity] < SeverityDeduction[f.severity]

\* The trends of a calculation that overlapped none are those of the history that
\* /scores/history shows.  (scoring/engine.py:146)
TrendsFollowHistory ==
  \A new \in Committed : runs[new.run].alone =>
    LET earlier == {old \in Committed :
                      old.type = new.type /\ ScopeOf(old) = ScopeOf(new) /\ old.at < new.at}
        newest == {old \in earlier : \A other \in earlier : other.at <= old.at}
    IN IF earlier = {} THEN new.trend = "unknown"
       ELSE \A old \in newest : new.trend = TrendForScores(new.value, old.value)

\* A summary is of one calculation, unless one it shows has overlapped another:
\* never of half a calculation, nor of two that came one after the other.
\* (scoring/service.py:145)
SummaryIsWhole ==
  \A filter \in Filters :
    \A one, other \in ScoreSummary(filter) :
      one.run = other.run \/ ~runs[one.run].alone \/ ~runs[other.run].alone
=============================================================================

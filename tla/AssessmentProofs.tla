-------------------------- MODULE AssessmentProofs --------------------------
(***************************************************************************)
(* For all rows and all findings: the rules find a resource that got no    *)
(* better no less severe, and no score rises when more is found.  For all  *)
(* calculations: what those that ran alone leave in the history and in the *)
(* summary, and, with the two facts above, that decay shows in the scores  *)
(* and that an improvement was earned.                                     *)
(***************************************************************************)
EXTENDS Assessment, NormalizationProofs, Sums

\* What is deducted for what a rule says.
DeductionFor(severity) == IF severity \in {"none", "error"} THEN 0 ELSE SeverityDeduction[severity]

LEMMA Deductions ==
  /\ DeductionFor("none") = 0 /\ DeductionFor("error") = 0 /\ DeductionFor("low") = 6 /\ DeductionFor("medium") = 16
  /\ DeductionFor("high") = 30 /\ DeductionFor("critical") = 50
BY DEF DeductionFor, SeverityDeduction

LEMMA MissingTagsDecay ==
  ASSUME NEW new \in ResourceRows, NEW old \in ResourceRows, NoBetter(new, old)
  PROVE  DeductionFor(MissingTags(old)) <= DeductionFor(MissingTags(new))
<1> DEFINE missing(r) == r.untagged \cup (IF r.environment = "unknown" THEN {"environment"} ELSE {})
           grave(r) == r.environment = "prod" /\ missing(r) \cap {"owner", "cost_center"} # {}
<1>1. missing(old) \subseteq missing(new)
  BY DEF NoBetter
<1>2. grave(old) => grave(new)
  BY <1>1 DEF NoBetter
<1>3. grave(old) => missing(old) # {}
  OBVIOUS
<1>4. \A r : MissingTags(r) = IF missing(r) = {} THEN "none" ELSE IF grave(r) THEN "high" ELSE "medium"
  BY DEF MissingTags
<1> HIDE DEF missing, grave
<1>5. CASE missing(old) = {}
  <2>1. MissingTags(old) = "none"
    BY <1>4, <1>5
  <2>2. MissingTags(new) \in {"none", "high", "medium"}
    BY <1>4
  <2> QED BY <2>1, <2>2, Deductions
<1>6. CASE missing(old) # {} /\ grave(old)
  <2>1. MissingTags(old) = "high" /\ MissingTags(new) = "high"
    BY <1>1, <1>2, <1>4, <1>6
  <2> QED BY <2>1, Deductions
<1>7. CASE missing(old) # {} /\ ~grave(old)
  <2>1. MissingTags(old) = "medium" /\ MissingTags(new) \in {"high", "medium"}
    BY <1>1, <1>4, <1>7
  <2> QED BY <2>1, Deductions
<1> QED BY <1>5, <1>6, <1>7

LEMMA ExposureDecay ==
  ASSUME NEW new \in ResourceRows, NEW old \in ResourceRows, NoBetter(new, old)
  PROVE  DeductionFor(PublicExposure(old)) <= DeductionFor(PublicExposure(new))
<1>1. PublicExposure(old) \in {"none", PublicExposure(new)}
  BY DEF PublicExposure, NoBetter
<1>2. PublicExposure(new) \in {"none", "critical", "medium", "high"}
  BY DEF PublicExposure
<1> QED BY <1>1, <1>2, Deductions

LEMMA VolumeDecay ==
  ASSUME NEW new \in ResourceRows, NEW old \in ResourceRows, NoBetter(new, old)
  PROVE  DeductionFor(UnattachedVolume(old)) <= DeductionFor(UnattachedVolume(new))
<1>1. UnattachedVolume(old) \in {"none", UnattachedVolume(new)}
  BY DEF UnattachedVolume, NoBetter
<1>2. UnattachedVolume(new) \in {"none", "low"}
  BY DEF UnattachedVolume
<1> QED BY <1>1, <1>2, Deductions

LEMMA ComputeDecay ==
  ASSUME NEW new \in ResourceRows, NEW old \in ResourceRows, NoBetter(new, old),
         IdleCompute(new) # "error"
  PROVE  DeductionFor(IdleCompute(old)) <= DeductionFor(IdleCompute(new))
<1>1. IdleCompute(old) \in {"none", "error", IdleCompute(new)}
  BY DEF IdleCompute, NoBetter, ResourceRows
<1>2. IdleCompute(new) \in {"none", "medium"}
  BY DEF IdleCompute
<1> QED BY <1>1, <1>2, Deductions

LEMMA ObservabilityDecay ==
  ASSUME NEW new \in ResourceRows, NEW old \in ResourceRows, NoBetter(new, old)
  PROVE  DeductionFor(ObservabilityGap(old)) <= DeductionFor(ObservabilityGap(new))
<1>1. ObservabilityGap(old) \in {"none", ObservabilityGap(new)}
  BY DEF ObservabilityGap, NoBetter
<1>2. ObservabilityGap(new) \in {"none", "medium", "high"}
  BY DEF ObservabilityGap
<1> QED BY <1>1, <1>2, Deductions

\* A resource that got no better in any respect is found no less severe by any rule
\* that does not raise, whatever row it has.  (findings/rules.py)
THEOREM RulesSeeDecay ==
  ASSUME NEW new \in ResourceRows, NEW old \in ResourceRows, NoBetter(new, old),
         NEW type \in FindingTypes, Judged(new, type) # "error"
  PROVE  DeductionFor(Judged(old, type)) <= DeductionFor(Judged(new, type))
BY MissingTagsDecay, ExposureDecay, VolumeDecay, ComputeDecay, ObservabilityDecay
   DEF FindingTypes, Judged

\* Rounding and clamping keep the order of scores, and the range.  (scoring/formulas.py:10)
THEOREM ClampKeepsOrder ==
  ASSUME NEW more \in Int, NEW less \in Int, less <= more, more <= 200
  PROVE  /\ ClampScore(less) <= ClampScore(more)
         /\ ClampScore(more) \in 0..100
<1>1. \A h \in 1..200 : ClampScore(h) \in 0..100
  BY DEF ClampScore
<1>2. \A h, g \in 1..200 : g < h => ClampScore(g) <= ClampScore(h)
  <2>1. \A h \in 1..200 : /\ h \div 2 \in Nat
                          /\ 2 * (h \div 2) <= h /\ h <= 2 * (h \div 2) + 1
                          /\ h % 2 = 0 <=> h = 2 * (h \div 2)
    OBVIOUS
  <2>2. \A h \in 1..200 : /\ ClampScore(h) \in {h \div 2, (h \div 2) + 1}
                          /\ h % 2 = 0 => ClampScore(h) = h \div 2
    BY <2>1 DEF ClampScore
  <2> SUFFICES ASSUME NEW h \in 1..200, NEW g \in 1..200, g < h
               PROVE  ClampScore(g) <= ClampScore(h)
    OBVIOUS
  <2> DEFINE p == g \div 2
             q == h \div 2
  <2>3. /\ p \in Nat /\ 2 * p <= g /\ g <= 2 * p + 1 /\ (g % 2 = 0 <=> g = 2 * p)
        /\ ClampScore(g) \in {p, p + 1} /\ (g % 2 = 0 => ClampScore(g) = p)
    BY <2>1, <2>2
  <2>4. /\ q \in Nat /\ 2 * q <= h /\ h <= 2 * q + 1 /\ ClampScore(h) \in {q, q + 1}
    BY <2>1, <2>2
  <2> HIDE DEF p, q
  <2> QED
    BY <2>3, <2>4
<1>3. \A h \in Int : h <= 0 => ClampScore(h) = 0
  BY DEF ClampScore
<1>4. ClampScore(more) \in 0..100
  <2>1. CASE more <= 0
    BY <1>3, <2>1
  <2>2. CASE more \in 1..200
    BY <1>1, <2>2
  <2> QED
    BY <2>1, <2>2
<1>5. CASE less <= 0
  BY <1>3, <1>4, <1>5
<1>6. CASE less \in 1..200 /\ less < more
  <2>1. more \in 1..200
    BY <1>6
  <2> QED BY <1>2, <1>4, <1>6, <2>1
<1>7. CASE less = more
  BY <1>4, <1>7
<1>8. less <= 0 \/ (less \in 1..200 /\ less < more) \/ less = more
  OBVIOUS
<1> QED BY <1>4, <1>5, <1>6, <1>7, <1>8

-----------------------------------------------------------------------------
(* Calculations *)

SomeRuns ==
  [phase: {"running", "committed", "failed"}, scope: Scopes, counted: SUBSET Counted,
   made: 0..Len(ScoreTypes), alone: BOOLEAN, steady: BOOLEAN, before: SUBSET Nat]

RunsKnown == runs \in Seq(SomeRuns) /\ now \in Nat

\* A row is of a calculation that has made one of its type.
RowsKnown ==
  \A row \in rows :
    /\ row.run \in DOMAIN runs
    /\ row.at \in Nat /\ row.at < now
    /\ runs[row.run].phase # "failed"
    /\ \E k \in 1..runs[row.run].made : row.type = ScoreTypes[k]

RowsMade ==
  \A i \in DOMAIN runs :
    /\ runs[i].phase # "failed" =>
         \A k \in 1..runs[i].made : \E row \in rows : row.run = i /\ row.type = ScoreTypes[k]
    /\ runs[i].phase = "committed" => runs[i].made = Len(ScoreTypes)

RowsDiffer ==
  \A row, other \in rows :
    row.at = other.at \/ (row.run = other.run /\ row.type = other.type) => row = other

AloneIsOne ==
  \A i, j \in DOMAIN runs :
    runs[i].alone /\ runs[i].phase = "running" /\ runs[j].phase = "running" => i = j

\* While a calculation runs alone its rows are the last ones.
AloneIsLast ==
  \A row, other \in rows :
    runs[row.run].alone /\ runs[row.run].phase = "running" /\ other.run # row.run =>
      other.at < row.at

\* What was made before a row of a calculation that ran alone has been committed.
EarlierAreCommitted ==
  \A row, other \in rows :
    runs[row.run].alone /\ other.run # row.run /\ other.at < row.at =>
      runs[other.run].phase = "committed"

\* No other calculation has rows both before and after some of one that ran alone.
AloneIsSeparate ==
  \A a, b, c, d \in rows :
    runs[a.run].alone /\ b.run = a.run /\ c.run # a.run /\ d.run = c.run /\ c.at < a.at =>
      d.at < b.at

EarlierRows(new) ==
  {old \in rows : old.type = new.type /\ ScopeOf(old) = ScopeOf(new) /\ old.at < new.at}

TrendIsRight(new) ==
  /\ EarlierRows(new) = {} => new.trend = "unknown"
  /\ \A old \in EarlierRows(new) :
       (\A other \in EarlierRows(new) : other.at <= old.at) =>
         new.trend = TrendForScores(new.value, old.value)

AloneAreRight == \A new \in rows : runs[new.run].alone => TrendIsRight(new)

CalcInv ==
  /\ RunsKnown /\ RowsKnown /\ RowsMade /\ RowsDiffer
  /\ AloneIsOne /\ AloneIsLast /\ EarlierAreCommitted /\ AloneIsSeparate /\ AloneAreRight

LEMMA TypesAreDifferent ==
  /\ Len(ScoreTypes) = 6
  /\ \A k, l \in 1..6 : ScoreTypes[k] = ScoreTypes[l] => k = l
<1>1. Len(ScoreTypes) = 6
  BY DEF ScoreTypes
<1>2. ASSUME NEW k \in 1..6, NEW l \in 1..6, ScoreTypes[k] = ScoreTypes[l] PROVE k = l
  <2>1. k \in {1, 2, 3, 4, 5, 6} /\ l \in {1, 2, 3, 4, 5, 6}
    OBVIOUS
  <2>2. /\ ScoreTypes[1] = "finops" /\ ScoreTypes[2] = "governance" /\ ScoreTypes[3] = "observability"
        /\ ScoreTypes[4] = "security_baseline" /\ ScoreTypes[5] = "resilience" /\ ScoreTypes[6] = "overall"
    BY DEF ScoreTypes
  <2> QED BY <1>2, <2>1, <2>2
<1> QED BY <1>1, <1>2

\* What the actions that are about resources and findings leave alone.
Aside ==
  /\ rows' = rows /\ now' = now
  /\ DOMAIN runs' = DOMAIN runs
  /\ \A i \in DOMAIN runs :
       /\ runs'[i].phase = runs[i].phase /\ runs'[i].scope = runs[i].scope
       /\ runs'[i].made = runs[i].made /\ runs'[i].alone = runs[i].alone

LEMMA UnsteadyIsAside ==
  ASSUME RunsKnown
  PROVE  /\ Unsteady \in Seq(SomeRuns) /\ DOMAIN Unsteady = DOMAIN runs
         /\ \A i \in DOMAIN runs :
              /\ Unsteady[i].phase = runs[i].phase /\ Unsteady[i].scope = runs[i].scope
              /\ Unsteady[i].made = runs[i].made /\ Unsteady[i].alone = runs[i].alone
<1>1. DOMAIN runs = 1..Len(runs) /\ Len(runs) \in Nat
  BY DEF RunsKnown
<1>2. \A i \in DOMAIN runs : runs[i] \in SomeRuns
  BY DEF RunsKnown
<1>3. \A i \in DOMAIN runs : Unsteady[i] = [runs[i] EXCEPT !.steady = FALSE]
  BY DEF Unsteady
<1>4. \A i \in DOMAIN runs : Unsteady[i] \in SomeRuns
  <2>1. \A run \in SomeRuns : [run EXCEPT !.steady = FALSE] \in SomeRuns
    BY DEF SomeRuns
  <2> QED BY <1>2, <1>3, <2>1
<1>5. Unsteady \in [1..Len(runs) -> SomeRuns]
  BY <1>1, <1>4 DEF Unsteady
<1>6. Unsteady \in Seq(SomeRuns)
  BY <1>1, <1>5
<1> QED BY <1>1, <1>2, <1>3, <1>5, <1>6 DEF SomeRuns

LEMMA ResourcesAreAside ==
  ASSUME RunsKnown,
         \/ \E r \in Resources : Scan(r)
         \/ \E r \in Resources, type \in FindingTypes : Decide(r, type)
         \/ FindingsRun
         \/ UNCHANGED vars
  PROVE  RunsKnown' /\ Aside
<1>1. rows' = rows /\ now' = now /\ runs' \in {runs, Unsteady}
  BY DEF Scan, Decide, FindingsRun, vars
<1>2. CASE runs' = runs
  BY <1>1, <1>2 DEF RunsKnown, Aside
<1>3. CASE runs' = Unsteady
  BY <1>1, <1>3, UnsteadyIsAside DEF RunsKnown, Aside
<1> QED BY <1>1, <1>2, <1>3

LEMMA AsideKeeps ==
  ASSUME CalcInv, RunsKnown', Aside
  PROVE  CalcInv'
<1> USE DEF Aside
<1>1. RowsKnown'
  BY DEF CalcInv, RowsKnown
<1>2. RowsMade'
  BY DEF CalcInv, RowsMade
<1>3. RowsDiffer'
  BY DEF CalcInv, RowsDiffer
<1>4. AloneIsOne'
  BY DEF CalcInv, AloneIsOne
<1>5. AloneIsLast' /\ EarlierAreCommitted' /\ AloneIsSeparate'
  BY DEF CalcInv, RowsKnown, AloneIsLast, EarlierAreCommitted, AloneIsSeparate
<1>6. \A row \in rows : EarlierRows(row)' = EarlierRows(row)
  BY DEF CalcInv, RowsKnown, EarlierRows, ScopeOf
<1>7. AloneAreRight'
  BY <1>6 DEF CalcInv, RowsKnown, AloneAreRight, TrendIsRight
<1> QED BY <1>1, <1>2, <1>3, <1>4, <1>5, <1>7 DEF CalcInv

\* What a calculation that starts changes.
LEMMA StartEffect ==
  ASSUME RunsKnown, NEW scope \in Asked, Start(scope)
  PROVE  /\ RunsKnown' /\ rows' = rows /\ now' = now
         /\ DOMAIN runs = 1..Len(runs) /\ Len(runs) \in Nat /\ DOMAIN runs' = 1..(Len(runs) + 1)
         /\ \A i \in DOMAIN runs :
              /\ runs'[i].phase = runs[i].phase /\ runs'[i].scope = runs[i].scope
              /\ runs'[i].made = runs[i].made
              /\ runs'[i].alone => runs[i].alone /\ runs[i].phase # "running"
              /\ runs'[i].counted = runs[i].counted /\ runs'[i].steady = runs[i].steady
              /\ runs'[i].before = runs[i].before
         /\ runs'[Len(runs) + 1].phase = "running" /\ runs'[Len(runs) + 1].made = 0
         /\ runs'[Len(runs) + 1].alone = (Running = {}) /\ runs'[Len(runs) + 1].scope = scope
         /\ runs'[Len(runs) + 1].counted = LoadFindings(scope)
         /\ runs'[Len(runs) + 1].steady = UpToDate(scope)
         /\ runs'[Len(runs) + 1].before = {i \in DOMAIN runs : runs[i].steady}
<1> DEFINE others == [i \in DOMAIN runs |-> IF i \in Running THEN [runs[i] EXCEPT !.alone = FALSE] ELSE runs[i]]
           new == [phase |-> "running", scope |-> scope, counted |-> LoadFindings(scope),
                   made |-> 0, alone |-> Running = {}, steady |-> UpToDate(scope),
                   before |-> {i \in DOMAIN runs : runs[i].steady}]
<1>1. DOMAIN runs = 1..Len(runs) /\ Len(runs) \in Nat
  BY DEF RunsKnown
<1>2. \A i \in DOMAIN runs : runs[i] \in SomeRuns
  BY DEF RunsKnown
<1>3. \A i \in DOMAIN runs :
        others[i] = IF runs[i].phase = "running" THEN [runs[i] EXCEPT !.alone = FALSE] ELSE runs[i]
  BY DEF Running
<1>4. \A i \in DOMAIN runs : others[i] \in SomeRuns
  BY <1>2, <1>3 DEF SomeRuns
<1>5. others \in [1..Len(runs) -> SomeRuns]
  BY <1>1, <1>4
<1>6. others \in Seq(SomeRuns) /\ Len(others) = Len(runs)
  BY <1>1, <1>5
<1>7. new \in SomeRuns
  <2>1. scope \in Scopes
    BY AskedAssumption
  <2>2. LoadFindings(scope) \subseteq Counted
    BY DEF LoadFindings
  <2>3. {i \in DOMAIN runs : runs[i].steady} \in SUBSET Nat
    BY <1>1
  <2>4. UpToDate(scope) \in BOOLEAN
    BY DEF UpToDate
  <2>5. (Running = {}) \in BOOLEAN
    OBVIOUS
  <2> QED BY <2>1, <2>2, <2>3, <2>4, <2>5, TypesAreDifferent DEF SomeRuns
<1>8. runs' = Append(others, new) /\ rows' = rows /\ now' = now
  BY DEF Start
<1> HIDE DEF others, new
<1>9. /\ runs' \in Seq(SomeRuns) /\ DOMAIN runs' = 1..(Len(runs) + 1)
      /\ \A i \in DOMAIN runs : runs'[i] = others[i]
      /\ runs'[Len(runs) + 1] = new
  BY <1>1, <1>5, <1>6, <1>7, <1>8
<1>10. \A i \in DOMAIN runs :
         /\ others[i].phase = runs[i].phase /\ others[i].scope = runs[i].scope
         /\ others[i].made = runs[i].made
         /\ others[i].alone => runs[i].alone /\ runs[i].phase # "running"
         /\ others[i].counted = runs[i].counted /\ others[i].steady = runs[i].steady
         /\ others[i].before = runs[i].before
  BY <1>2, <1>3 DEF SomeRuns
<1>11. /\ new.phase = "running" /\ new.made = 0 /\ new.alone = (Running = {}) /\ new.scope = scope
       /\ new.counted = LoadFindings(scope) /\ new.steady = UpToDate(scope)
       /\ new.before = {i \in DOMAIN runs : runs[i].steady}
  BY DEF new
<1> QED BY <1>1, <1>8, <1>9, <1>10, <1>11 DEF RunsKnown

LEMMA StartKeeps ==
  ASSUME CalcInv, NEW scope \in Asked, Start(scope)
  PROVE  CalcInv'
<1> DEFINE n == Len(runs) + 1
<1>1. RunsKnown
  BY DEF CalcInv
<1>2. /\ RunsKnown' /\ rows' = rows /\ now' = now
      /\ DOMAIN runs = 1..Len(runs) /\ Len(runs) \in Nat /\ DOMAIN runs' = 1..n
      /\ \A i \in DOMAIN runs :
              /\ runs'[i].phase = runs[i].phase /\ runs'[i].scope = runs[i].scope
              /\ runs'[i].made = runs[i].made
              /\ runs'[i].alone => runs[i].alone /\ runs[i].phase # "running"
      /\ runs'[n].phase = "running" /\ runs'[n].made = 0 /\ runs'[n].alone = (Running = {})
  BY <1>1, StartEffect
<1>3. DOMAIN runs' = DOMAIN runs \cup {n} /\ n \notin DOMAIN runs
  BY <1>2
<1>4. \A row \in rows : row.run \in DOMAIN runs
  BY DEF CalcInv, RowsKnown
<1> HIDE DEF n
<1>5. RowsKnown'
  <2> SUFFICES ASSUME NEW row \in rows
               PROVE  /\ row.run \in DOMAIN runs'
                      /\ row.at \in Nat /\ row.at < now
                      /\ runs'[row.run].phase # "failed"
                      /\ \E k \in 1..runs'[row.run].made : row.type = ScoreTypes[k]
    BY <1>2 DEF RowsKnown
  <2>1. /\ row.run \in DOMAIN runs /\ row.at \in Nat /\ row.at < now
        /\ runs[row.run].phase # "failed"
        /\ \E k \in 1..runs[row.run].made : row.type = ScoreTypes[k]
    BY DEF CalcInv, RowsKnown
  <2>2. runs'[row.run].phase = runs[row.run].phase /\ runs'[row.run].made = runs[row.run].made
    BY <1>2, <2>1
  <2> QED
    BY <1>3, <2>1, <2>2
<1>6. RowsMade'
  <2> SUFFICES ASSUME NEW i \in DOMAIN runs'
               PROVE  /\ runs'[i].phase # "failed" =>
                           \A k \in 1..runs'[i].made : \E row \in rows : row.run = i /\ row.type = ScoreTypes[k]
                      /\ runs'[i].phase = "committed" => runs'[i].made = Len(ScoreTypes)
    BY <1>2 DEF RowsMade
  <2>1. CASE i \in DOMAIN runs
    BY <1>2, <2>1 DEF CalcInv, RowsMade
  <2>2. CASE i = n
    BY <1>2, <2>2
  <2> QED BY <1>3, <2>1, <2>2
<1>7. RowsDiffer'
  BY <1>2 DEF CalcInv, RowsDiffer
<1>8. AloneIsOne'
  <2>1. \A i \in DOMAIN runs : runs[i].phase = "running" => Running # {}
    BY DEF Running
  <2> QED BY <1>2, <1>3, <2>1 DEF AloneIsOne
<1>9. AloneIsLast'
  BY <1>2, <1>4 DEF AloneIsLast
<1>10. EarlierAreCommitted'
  BY <1>2, <1>4 DEF CalcInv, EarlierAreCommitted
<1>11. AloneIsSeparate'
  BY <1>2, <1>4 DEF CalcInv, AloneIsSeparate
<1>12. \A row \in rows : EarlierRows(row)' = EarlierRows(row)
  BY <1>2, <1>4 DEF EarlierRows, ScopeOf
<1>13. AloneAreRight'
  BY <1>2, <1>4, <1>12 DEF CalcInv, AloneAreRight, TrendIsRight
<1> QED BY <1>2, <1>5, <1>6, <1>7, <1>8, <1>9, <1>10, <1>11, <1>13 DEF CalcInv

-----------------------------------------------------------------------------

\* What the row that a calculation makes next changes.
LEMMA PersistEffect ==
  ASSUME CalcInv, NEW i \in DOMAIN runs, PersistScore(i)
  PROVE  /\ RunsKnown' /\ rows' = rows \cup {NewRow(i)} /\ now' = now + 1 /\ now \in Nat
         /\ DOMAIN runs' = DOMAIN runs
         /\ \A j \in DOMAIN runs :
              /\ runs'[j].phase = runs[j].phase /\ runs'[j].scope = runs[j].scope
              /\ runs'[j].alone = runs[j].alone
              /\ runs'[j].made = IF j = i THEN runs[j].made + 1 ELSE runs[j].made
         /\ runs[i].phase = "running" /\ runs[i].made \in 0..5
         /\ NewRow(i).run = i /\ NewRow(i).at = now /\ NewRow(i).type = ScoreTypes[runs[i].made + 1]
<1>1. DOMAIN runs = 1..Len(runs) /\ Len(runs) \in Nat /\ now \in Nat
  BY DEF CalcInv, RunsKnown
<1>2. \A j \in DOMAIN runs : runs[j] \in SomeRuns
  BY DEF CalcInv, RunsKnown
<1>3. runs[i].phase = "running" /\ runs[i].made \in 0..5
  <2>1. runs[i].made \in 0..6
    BY <1>2, TypesAreDifferent DEF SomeRuns
  <2> QED BY <2>1, TypesAreDifferent DEF PersistScore, Running
<1>4. runs' = [runs EXCEPT ![i] = [runs[i] EXCEPT !.made = @ + 1]]
  BY DEF PersistScore
<1>5. [runs[i] EXCEPT !.made = @ + 1] \in SomeRuns
  BY <1>2, <1>3, TypesAreDifferent DEF SomeRuns
<1>6. runs' \in Seq(SomeRuns)
  BY <1>4, <1>5 DEF CalcInv, RunsKnown
<1>7. rows' = rows \cup {NewRow(i)} /\ now' = now + 1
  BY DEF PersistScore
<1>8. \A j \in DOMAIN runs :
        /\ runs'[j].phase = runs[j].phase /\ runs'[j].scope = runs[j].scope
        /\ runs'[j].alone = runs[j].alone
        /\ runs'[j].made = IF j = i THEN runs[j].made + 1 ELSE runs[j].made
  BY <1>2, <1>4 DEF SomeRuns
<1>9. NewRow(i).run = i /\ NewRow(i).at = now /\ NewRow(i).type = ScoreTypes[runs[i].made + 1]
  BY DEF NewRow
<1> QED BY <1>1, <1>3, <1>4, <1>6, <1>7, <1>8, <1>9 DEF RunsKnown

LEMMA NextTypeIsNew ==
  ASSUME CalcInv, NEW i \in DOMAIN runs, runs[i].made \in 0..5
  PROVE  \A row \in rows : row.run = i => row.type # ScoreTypes[runs[i].made + 1]
<1>1. ASSUME NEW row \in rows, row.run = i, row.type = ScoreTypes[runs[i].made + 1] PROVE FALSE
  <2>1. PICK k \in 1..runs[i].made : row.type = ScoreTypes[k]
    BY <1>1 DEF CalcInv, RowsKnown
  <2>2. k \in 1..6 /\ runs[i].made + 1 \in 1..6 /\ k # runs[i].made + 1
    OBVIOUS
  <2>3. ScoreTypes[k] = ScoreTypes[runs[i].made + 1]
    BY <1>1, <2>1
  <2> QED BY <2>2, <2>3, TypesAreDifferent
<1> QED BY <1>1

\* The trend of the new row of a calculation that runs alone.
LEMMA NewTrendIsRight ==
  ASSUME CalcInv, NEW i \in DOMAIN runs, PersistScore(i), runs[i].alone,
         NEW new, new = NewRow(i)
  PROVE  TrendIsRight(new)'
<1> DEFINE previous == PreviousScores(runs[i].scope, new.type)
           earlier == {row \in Committed : row.type = new.type /\ ScopeOf(row) = runs[i].scope}
<1>1. /\ rows' = rows \cup {new} /\ DOMAIN runs' = DOMAIN runs /\ now \in Nat
      /\ \A j \in DOMAIN runs : runs'[j].phase = runs[j].phase /\ runs'[j].scope = runs[j].scope
      /\ runs[i].phase = "running" /\ runs[i].made \in 0..5
      /\ new.run = i /\ new.at = now /\ new.type = ScoreTypes[runs[i].made + 1]
  BY PersistEffect
<1>2. \A row \in rows : row.run \in DOMAIN runs /\ row.at \in Nat /\ row.at < now
  BY DEF CalcInv, RowsKnown
<1>3. \A row \in rows : row.run = i => row.type # new.type
  BY <1>1, NextTypeIsNew
<1>4. \A row \in rows : row.run # i => runs[row.run].phase = "committed"
  <2>1. ASSUME NEW row \in rows, row.run # i PROVE runs[row.run].phase = "committed"
    <3>1. runs[row.run].phase # "running"
      BY <1>1, <1>2, <2>1 DEF CalcInv, AloneIsOne
    <3>2. runs[row.run].phase # "failed"
      BY DEF CalcInv, RowsKnown
    <3>3. runs[row.run] \in SomeRuns
      BY <1>2 DEF CalcInv, RunsKnown
    <3> QED BY <3>1, <3>2, <3>3 DEF SomeRuns
  <2> QED BY <2>1
<1>5. EarlierRows(new)' = earlier
  <2>1. EarlierRows(new)' =
          {old \in rows \cup {new} :
             old.type = new.type /\ runs'[old.run].scope = runs'[new.run].scope /\ old.at < new.at}
    BY <1>1 DEF EarlierRows, ScopeOf
  <2>2. earlier =
          {old \in rows :
             runs[old.run].phase = "committed" /\ old.type = new.type /\ runs[old.run].scope = runs[i].scope}
    BY DEF Committed, ScopeOf
  <2>3. ASSUME NEW old \in EarlierRows(new)' PROVE old \in earlier
    <3>1. old \in rows /\ old.run # i
      BY <1>1, <1>3, <2>1, <2>3
    <3> QED BY <1>1, <1>2, <1>4, <2>1, <2>2, <2>3, <3>1
  <2>4. ASSUME NEW old \in earlier PROVE old \in EarlierRows(new)'
    BY <1>1, <1>2, <2>1, <2>2, <2>4
  <2> QED BY <2>3, <2>4
<1>6. previous = {row \in earlier : \A other \in earlier : other.at <= row.at}
  BY DEF PreviousScores
<1>7. new.trend = IF previous = {} THEN "unknown"
                  ELSE TrendForScores(new.value, (CHOOSE row \in previous : TRUE).value)
  BY <1>1 DEF NewRow
<1>8. earlier \subseteq rows
  BY DEF Committed
<1> HIDE DEF earlier, previous
<1>9. ASSUME NEW old \in earlier, \A other \in earlier : other.at <= old.at
      PROVE  new.trend = TrendForScores(new.value, old.value)
  <2>1. old \in previous
    BY <1>6, <1>9
  <2>2. \A row \in previous : row = old
    <3>1. ASSUME NEW row \in previous PROVE row = old
      <4>1. row \in rows /\ old \in rows /\ row.at <= old.at /\ old.at <= row.at
        BY <1>6, <1>8, <1>9, <3>1
      <4>2. row.at = old.at
        BY <1>2, <4>1
      <4> QED BY <4>1, <4>2 DEF CalcInv, RowsDiffer
    <3> QED BY <3>1
  <2>3. (CHOOSE row \in previous : TRUE) = old
    BY <2>1, <2>2
  <2> QED BY <1>7, <2>1, <2>3
<1>10. earlier = {} => new.trend = "unknown"
  BY <1>6, <1>7
<1>11. new' = new
  OBVIOUS
<1> QED BY <1>5, <1>9, <1>10 DEF TrendIsRight

LEMMA PersistKeeps ==
  ASSUME CalcInv, NEW i \in DOMAIN runs, PersistScore(i)
  PROVE  CalcInv'
<1> SUFFICES ASSUME NEW new, new = NewRow(i) PROVE CalcInv'
  OBVIOUS
<1>1. /\ RunsKnown' /\ rows' = rows \cup {new} /\ now' = now + 1 /\ now \in Nat
      /\ DOMAIN runs' = DOMAIN runs
      /\ \A j \in DOMAIN runs :
           /\ runs'[j].phase = runs[j].phase /\ runs'[j].scope = runs[j].scope
           /\ runs'[j].alone = runs[j].alone
           /\ runs'[j].made = IF j = i THEN runs[j].made + 1 ELSE runs[j].made
      /\ runs[i].phase = "running" /\ runs[i].made \in 0..5
      /\ new.run = i /\ new.at = now /\ new.type = ScoreTypes[runs[i].made + 1]
  BY PersistEffect
<1>2. \A row \in rows : row.run \in DOMAIN runs /\ row.at \in Nat /\ row.at < now
  BY DEF CalcInv, RowsKnown
<1>3. \A j \in DOMAIN runs : runs[j].made \in Nat
  <2>1. \A j \in DOMAIN runs : runs[j] \in SomeRuns
    BY DEF CalcInv, RunsKnown
  <2> QED BY <2>1, TypesAreDifferent DEF SomeRuns
<1>4. \A row \in rows : row.run = i => row.type # new.type
  BY <1>1, NextTypeIsNew
<1>5. RowsKnown'
  <2> SUFFICES ASSUME NEW row \in rows'
               PROVE  /\ row.run \in DOMAIN runs' /\ row.at \in Nat /\ row.at < now'
                      /\ runs'[row.run].phase # "failed"
                      /\ \E k \in 1..runs'[row.run].made : row.type = ScoreTypes[k]
    BY DEF RowsKnown
  <2>1. CASE row = new
    BY <1>1, <2>1
  <2>2. CASE row \in rows
    <3>1. PICK k \in 1..runs[row.run].made : row.type = ScoreTypes[k]
      BY <2>2 DEF CalcInv, RowsKnown
    <3>2. k \in 1..runs'[row.run].made
      BY <1>1, <1>2, <1>3, <2>2
    <3>3. row.run \in DOMAIN runs /\ runs[row.run].phase # "failed"
      BY <2>2 DEF CalcInv, RowsKnown
    <3> QED BY <1>1, <1>2, <2>2, <3>1, <3>2, <3>3
  <2> QED BY <1>1, <2>1, <2>2
<1>6. RowsMade'
  <2> SUFFICES ASSUME NEW j \in DOMAIN runs
               PROVE  /\ runs'[j].phase # "failed" =>
                           \A k \in 1..runs'[j].made : \E row \in rows' : row.run = j /\ row.type = ScoreTypes[k]
                      /\ runs'[j].phase = "committed" => runs'[j].made = Len(ScoreTypes)
    BY <1>1 DEF RowsMade
  <2>1. CASE j = i
    <3>1. ASSUME NEW k \in 1..runs'[j].made
          PROVE  \E row \in rows' : row.run = j /\ row.type = ScoreTypes[k]
      <4>1. CASE k = runs[i].made + 1
        BY <1>1, <2>1, <4>1
      <4>2. CASE k # runs[i].made + 1
        <5>1. k \in 1..runs[i].made
          BY <1>1, <2>1, <3>1, <4>2
        <5> QED BY <1>1, <2>1, <5>1 DEF CalcInv, RowsMade
      <4> QED BY <4>1, <4>2
    <3> QED BY <1>1, <2>1, <3>1
  <2>2. CASE j # i
    BY <1>1, <2>2 DEF CalcInv, RowsMade
  <2> QED BY <2>1, <2>2
<1>7. RowsDiffer'
  BY <1>1, <1>2, <1>4 DEF CalcInv, RowsDiffer
<1>8. AloneIsOne'
  BY <1>1 DEF CalcInv, AloneIsOne
<1>9. AloneIsLast'
  <2> SUFFICES ASSUME NEW row \in rows', NEW other \in rows',
                      runs[row.run].alone, runs[row.run].phase = "running", other.run # row.run
               PROVE  other.at < row.at
    BY <1>1, <1>2 DEF AloneIsLast
  <2>1. row.run = i
    BY <1>1, <1>2 DEF CalcInv, AloneIsOne
  <2> QED BY <1>1, <1>2, <2>1 DEF CalcInv, AloneIsLast
<1>10. EarlierAreCommitted'
  <2> SUFFICES ASSUME NEW row \in rows', NEW other \in rows',
                      runs[row.run].alone, other.run # row.run, other.at < row.at
               PROVE  runs[other.run].phase = "committed"
    BY <1>1, <1>2 DEF EarlierAreCommitted
  <2>1. CASE row = new
    <3>1. other \in rows /\ runs[other.run].phase # "running"
      BY <1>1, <1>2, <2>1 DEF CalcInv, AloneIsOne
    <3>2. runs[other.run] \in SomeRuns /\ runs[other.run].phase # "failed"
      BY <1>2, <3>1 DEF CalcInv, RunsKnown, RowsKnown
    <3> QED BY <3>1, <3>2 DEF SomeRuns
  <2>2. CASE row \in rows
    <3>1. other \in rows
      BY <1>1, <1>2, <2>2
    <3> QED BY <2>2, <3>1 DEF CalcInv, EarlierAreCommitted
  <2> QED BY <1>1, <2>1, <2>2
<1>11. AloneIsSeparate'
  <2> SUFFICES ASSUME NEW a \in rows', NEW b \in rows', NEW c \in rows', NEW d \in rows',
                      runs[a.run].alone, b.run = a.run, c.run # a.run, d.run = c.run, c.at < a.at
               PROVE  d.at < b.at
    BY <1>1, <1>2 DEF AloneIsSeparate
  <2>1. CASE a.run = i
    <3>1. c \in rows /\ d \in rows
      BY <1>1, <2>1
    <3>2. CASE b = new
      BY <1>1, <1>2, <3>1, <3>2
    <3>3. CASE b \in rows
      BY <1>1, <2>1, <3>1, <3>3 DEF CalcInv, AloneIsLast
    <3> QED BY <1>1, <3>2, <3>3
  <2>2. CASE a.run # i
    <3>1. a \in rows /\ b \in rows /\ c \in rows
      BY <1>1, <1>2, <2>2
    <3>2. CASE d \in rows
      BY <3>1, <3>2 DEF CalcInv, AloneIsSeparate
    <3>3. CASE d = new
      <4>1. runs[c.run].phase = "committed"
        BY <3>1 DEF CalcInv, EarlierAreCommitted
      <4> QED BY <1>1, <3>3, <4>1
    <3> QED BY <1>1, <3>2, <3>3
  <2> QED BY <2>1, <2>2
<1>12. AloneAreRight'
  <2> SUFFICES ASSUME NEW row \in rows', runs[row.run].alone PROVE TrendIsRight(row)'
    BY <1>1, <1>2 DEF AloneAreRight
  <2>1. CASE row = new
    BY <1>1, <2>1, NewTrendIsRight
  <2>2. CASE row \in rows
    <3>1. EarlierRows(row)' = EarlierRows(row)
      BY <1>1, <1>2, <2>2 DEF EarlierRows, ScopeOf
    <3>2. TrendIsRight(row)
      BY <2>2 DEF CalcInv, AloneAreRight
    <3> QED BY <3>1, <3>2 DEF TrendIsRight
  <2> QED BY <1>1, <2>1, <2>2
<1> QED BY <1>1, <1>5, <1>6, <1>7, <1>8, <1>9, <1>10, <1>11, <1>12 DEF CalcInv

LEMMA CommitKeeps ==
  ASSUME CalcInv, NEW i \in DOMAIN runs, Commit(i)
  PROVE  CalcInv'
<1>1. \A j \in DOMAIN runs : runs[j] \in SomeRuns
  BY DEF CalcInv, RunsKnown
<1>2. runs' = [runs EXCEPT ![i] = [runs[i] EXCEPT !.phase = "committed"]] /\ rows' = rows /\ now' = now
  BY DEF Commit
<1>3. runs[i].phase = "running" /\ runs[i].made = Len(ScoreTypes)
  BY DEF Commit, Running
<1>4. [runs[i] EXCEPT !.phase = "committed"] \in SomeRuns
  BY <1>1 DEF SomeRuns
<1>5. RunsKnown'
  BY <1>2, <1>4 DEF CalcInv, RunsKnown
<1>6. /\ DOMAIN runs' = DOMAIN runs
      /\ \A j \in DOMAIN runs :
           /\ runs'[j].scope = runs[j].scope /\ runs'[j].alone = runs[j].alone
           /\ runs'[j].made = runs[j].made
           /\ runs'[j].phase = IF j = i THEN "committed" ELSE runs[j].phase
  BY <1>1, <1>2 DEF SomeRuns
<1>7. \A row \in rows : row.run \in DOMAIN runs
  BY DEF CalcInv, RowsKnown
<1>8. RowsKnown' /\ RowsMade'
  BY <1>2, <1>3, <1>6 DEF CalcInv, RowsKnown, RowsMade
<1>9. RowsDiffer' /\ AloneIsOne'
  BY <1>2, <1>6 DEF CalcInv, RowsDiffer, AloneIsOne
<1>10. AloneIsLast' /\ EarlierAreCommitted' /\ AloneIsSeparate'
  BY <1>2, <1>6, <1>7 DEF CalcInv, AloneIsLast, EarlierAreCommitted, AloneIsSeparate
<1>11. \A row \in rows : EarlierRows(row)' = EarlierRows(row)
  BY <1>2, <1>6, <1>7 DEF EarlierRows, ScopeOf
<1>12. AloneAreRight'
  BY <1>2, <1>6, <1>7, <1>11 DEF CalcInv, AloneAreRight, TrendIsRight
<1> QED BY <1>5, <1>8, <1>9, <1>10, <1>12 DEF CalcInv

LEMMA FailKeeps ==
  ASSUME CalcInv, NEW i \in DOMAIN runs, Fail(i)
  PROVE  CalcInv'
<1>1. \A j \in DOMAIN runs : runs[j] \in SomeRuns
  BY DEF CalcInv, RunsKnown
<1>2. /\ runs' = [runs EXCEPT ![i] = [runs[i] EXCEPT !.phase = "failed", !.made = 0]]
      /\ rows' = {row \in rows : row.run # i} /\ now' = now /\ runs[i].phase = "running"
  BY DEF Fail, RowsOf, Running
<1>3. [runs[i] EXCEPT !.phase = "failed", !.made = 0] \in SomeRuns
  <2>1. 0 \in 0..Len(ScoreTypes)
    BY TypesAreDifferent
  <2>2. \A run \in SomeRuns : [run EXCEPT !.phase = "failed", !.made = 0] \in SomeRuns
    BY <2>1 DEF SomeRuns
  <2> QED BY <1>1, <2>2
<1>4. RunsKnown'
  BY <1>2, <1>3 DEF CalcInv, RunsKnown
<1>5. /\ DOMAIN runs' = DOMAIN runs /\ runs'[i].phase = "failed"
      /\ \A j \in DOMAIN runs :
           /\ runs'[j].scope = runs[j].scope /\ runs'[j].alone = runs[j].alone
           /\ j # i => runs'[j] = runs[j]
  BY <1>1, <1>2 DEF SomeRuns
<1>6. \A row \in rows' : row \in rows /\ row.run \in DOMAIN runs /\ row.run # i
  BY <1>2 DEF CalcInv, RowsKnown
<1>7. RowsKnown'
  BY <1>2, <1>5, <1>6 DEF CalcInv, RowsKnown
<1>8. RowsMade'
  <2> SUFFICES ASSUME NEW j \in DOMAIN runs
               PROVE  /\ runs'[j].phase # "failed" =>
                           \A k \in 1..runs'[j].made : \E row \in rows' : row.run = j /\ row.type = ScoreTypes[k]
                      /\ runs'[j].phase = "committed" => runs'[j].made = Len(ScoreTypes)
    BY <1>5 DEF RowsMade
  <2>1. CASE j = i
    BY <1>5, <2>1
  <2>2. CASE j # i
    BY <1>2, <1>5, <2>2 DEF CalcInv, RowsMade
  <2> QED BY <2>1, <2>2
<1>9. RowsDiffer' /\ AloneIsOne'
  BY <1>5, <1>6 DEF CalcInv, RowsDiffer, AloneIsOne
<1>10. AloneIsLast' /\ EarlierAreCommitted' /\ AloneIsSeparate'
  BY <1>5, <1>6 DEF CalcInv, AloneIsLast, EarlierAreCommitted, AloneIsSeparate
<1>11. AloneAreRight'
  <2> SUFFICES ASSUME NEW row \in rows', runs[row.run].alone PROVE TrendIsRight(row)'
    BY <1>5, <1>6 DEF AloneAreRight
  <2>1. \A old \in rows : old.at < row.at /\ old.run # row.run => old.run # i
    BY <1>2, <1>6 DEF CalcInv, EarlierAreCommitted
  <2>2. EarlierRows(row)' = EarlierRows(row)
    BY <1>2, <1>5, <1>6, <2>1 DEF EarlierRows, ScopeOf
  <2>3. TrendIsRight(row)
    BY <1>6 DEF CalcInv, AloneAreRight
  <2> QED BY <2>2, <2>3 DEF TrendIsRight
<1> QED BY <1>4, <1>7, <1>8, <1>9, <1>10, <1>11 DEF CalcInv

LEMMA CalcInvariant == Spec => []CalcInv
<1>1. Init => CalcInv
  <2> SUFFICES ASSUME Init PROVE CalcInv
    OBVIOUS
  <2>1. runs = <<>> /\ rows = {} /\ now = 0
    BY DEF Init
  <2>2. <<>> \in Seq(SomeRuns) /\ DOMAIN runs = {}
    BY <2>1
  <2> QED BY <2>1, <2>2 DEF CalcInv, RunsKnown, RowsKnown, RowsMade, RowsDiffer, AloneIsOne,
            AloneIsLast, EarlierAreCommitted, AloneIsSeparate, AloneAreRight
<1>2. CalcInv /\ [Next]_vars => CalcInv'
  <2> SUFFICES ASSUME CalcInv, [Next]_vars PROVE CalcInv'
    OBVIOUS
  <2>1. RunsKnown
    BY DEF CalcInv
  <2>2. CASE \/ \E r \in Resources : Scan(r)
             \/ \E r \in Resources, type \in FindingTypes : Decide(r, type)
             \/ FindingsRun
             \/ UNCHANGED vars
    BY <2>1, <2>2, ResourcesAreAside, AsideKeeps
  <2>3. CASE \E scope \in Asked : Start(scope)
    BY <2>3, StartKeeps
  <2>4. ASSUME NEW i \in DOMAIN runs, PersistScore(i) \/ Commit(i) \/ Fail(i) PROVE CalcInv'
    BY <2>4, PersistKeeps, CommitKeeps, FailKeeps
  <2> QED BY <2>2, <2>3, <2>4 DEF Next
<1> QED BY <1>1, <1>2, PTL DEF Spec

\* TrendsFollowHistory, for any resources, scopes and number of calculations: a calculation
\* that ran alone has the trends of its scope's history.  (scoring/engine.py:146)
THEOREM TrendsFollow == Spec => []TrendsFollowHistory
<1>1. CalcInv => TrendsFollowHistory
  <2> SUFFICES ASSUME CalcInv, NEW new \in Committed, runs[new.run].alone,
                      NEW earlier, earlier = {old \in Committed :
                          old.type = new.type /\ ScopeOf(old) = ScopeOf(new) /\ old.at < new.at},
                      NEW newest, newest = {old \in earlier : \A other \in earlier : other.at <= old.at}
               PROVE  IF earlier = {} THEN new.trend = "unknown"
                      ELSE \A old \in newest : new.trend = TrendForScores(new.value, old.value)
    BY DEF TrendsFollowHistory
  <2>1. new \in rows /\ TrendIsRight(new)
    BY DEF CalcInv, AloneAreRight, Committed
  <2>2. ASSUME NEW old \in EarlierRows(new) PROVE runs[old.run].phase = "committed"
    <3>1. old \in rows /\ old.at < new.at
      BY DEF EarlierRows
    <3>2. CASE old.run = new.run
      BY <3>2 DEF Committed
    <3>3. CASE old.run # new.run
      BY <2>1, <3>1, <3>3 DEF CalcInv, EarlierAreCommitted
    <3> QED BY <3>2, <3>3
  <2>3. earlier = EarlierRows(new)
    BY <2>2 DEF EarlierRows, Committed
  <2> QED BY <2>1, <2>3 DEF TrendIsRight
<1> QED BY <1>1, CalcInvariant, PTL

\* Two calculations that ran alone and are shown together are one: the earlier has a row
\* of the other's type too, and only one whose rows surround its own could hide it.
LEMMA ShownTogether ==
  ASSUME CalcInv, NEW filter \in Filters,
         NEW one \in ScoreSummary(filter), NEW other \in ScoreSummary(filter),
         runs[one.run].alone, runs[other.run].alone, one.at < other.at
  PROVE  one.run = other.run
<1> DEFINE latest == LatestScores(filter)
<1> SUFFICES ASSUME one.run # other.run PROVE FALSE
  OBVIOUS
<1>1. \A row \in latest : row \in rows /\ runs[row.run].phase = "committed" /\ Passes(row, filter)
  BY DEF LatestScores, Committed
<1>2. /\ one \in latest /\ other \in latest
      /\ \A row \in latest : row.type = other.type => other.at <= row.at
  BY DEF ScoreSummary
<1>3. \A row \in rows : row.run \in DOMAIN runs /\ row.at \in Nat
  BY DEF CalcInv, RowsKnown
\* The earlier calculation has a row of the later one's type.
<1>4. PICK twin \in rows : twin.run = one.run /\ twin.type = other.type
  <2>1. PICK k \in 1..runs[other.run].made : other.type = ScoreTypes[k]
    BY <1>1, <1>2 DEF CalcInv, RowsKnown
  <2>2. runs[one.run].made = 6 /\ runs[other.run].made = 6
    BY <1>1, <1>2, <1>3, TypesAreDifferent DEF CalcInv, RowsMade
  <2> QED BY <1>1, <1>2, <1>3, <2>1, <2>2 DEF CalcInv, RowsMade
<1>5. twin.at < other.at
  <2>1. \A a, b, c, d \in rows :
          runs[a.run].alone /\ b.run = a.run /\ c.run # a.run /\ d.run = c.run /\ c.at < a.at => d.at < b.at
    BY DEF CalcInv, AloneIsSeparate
  <2> QED BY <1>1, <1>2, <1>4, <2>1
<1>6. twin \in Committed /\ Passes(twin, filter) /\ ScopeOf(twin) = ScopeOf(one)
  BY <1>1, <1>2, <1>4 DEF Committed, Passes, ScopeOf
<1>7. twin \notin latest
  BY <1>2, <1>3, <1>1, <1>4, <1>5
\* So there is a newer one, of a calculation whose rows surround those of the earlier.
<1>8. PICK newer \in Committed :
        newer.type = twin.type /\ ScopeOf(newer) = ScopeOf(one) /\ twin.at < newer.at /\ Passes(newer, filter)
  BY <1>3, <1>6, <1>7 DEF LatestScores, Committed
<1>9. newer \in rows /\ runs[newer.run].phase = "committed" /\ newer.run # one.run
  <2>1. newer \in rows /\ runs[newer.run].phase = "committed"
    BY DEF Committed
  <2>2. newer # twin
    BY <1>3, <1>8, <2>1
  <2> QED BY <1>4, <1>8, <2>1, <2>2 DEF CalcInv, RowsDiffer
<1>10. PICK older \in rows : older.run = newer.run /\ older.type = one.type
  <2>1. PICK k \in 1..runs[one.run].made : one.type = ScoreTypes[k]
    BY <1>1, <1>2 DEF CalcInv, RowsKnown
  <2>2. runs[one.run].made = 6 /\ runs[newer.run].made = 6
    BY <1>1, <1>2, <1>3, <1>9, TypesAreDifferent DEF CalcInv, RowsMade
  <2> QED BY <1>3, <1>9, <2>1, <2>2 DEF CalcInv, RowsMade
<1>11. older.at < one.at
  <2>1. older \in Committed /\ Passes(older, filter) /\ ScopeOf(older) = ScopeOf(one)
    BY <1>8, <1>9, <1>10 DEF Committed, Passes, ScopeOf
  <2>2. older.at <= one.at
    BY <1>2, <1>6, <1>10, <2>1 DEF LatestScores
  <2>3. older.at # one.at
    BY <1>1, <1>2, <1>9, <1>10 DEF CalcInv, RowsDiffer
  <2> QED BY <1>1, <1>2, <1>3, <2>2, <2>3
<1>12. newer.at < twin.at
  <2>1. \A a, b, c, d \in rows :
          runs[a.run].alone /\ b.run = a.run /\ c.run # a.run /\ d.run = c.run /\ c.at < a.at => d.at < b.at
    BY DEF CalcInv, AloneIsSeparate
  <2> QED BY <1>1, <1>2, <1>4, <1>9, <1>10, <1>11, <2>1
<1> QED BY <1>3, <1>4, <1>8, <1>9, <1>12

\* SummaryIsWhole, for any scopes, filters and number of calculations.
\* (scoring/service.py:145)
THEOREM SummaryWhole == Spec => []SummaryIsWhole
<1>1. CalcInv => SummaryIsWhole
  <2> SUFFICES ASSUME CalcInv, NEW filter \in Filters,
                      NEW one \in ScoreSummary(filter), NEW other \in ScoreSummary(filter),
                      runs[one.run].alone, runs[other.run].alone
               PROVE  one.run = other.run
    BY DEF SummaryIsWhole
  <2>1. one \in rows /\ other \in rows
    BY DEF ScoreSummary, LatestScores, Committed
  <2>2. one.at \in Nat /\ other.at \in Nat
    BY <2>1 DEF CalcInv, RowsKnown
  <2>3. CASE one.at < other.at
    BY <2>3, ShownTogether
  <2>4. CASE other.at < one.at
    BY <2>4, ShownTogether
  <2>5. CASE one.at = other.at
    BY <2>1, <2>5 DEF CalcInv, RowsDiffer
  <2> QED BY <2>2, <2>3, <2>4, <2>5
<1> QED BY <1>1, CalcInvariant, PTL

-----------------------------------------------------------------------------
(* Scores, and the findings they are made of *)

LEMMA SeveritiesDeduct ==
  \A severity \in DOMAIN SeverityDeduction :
    /\ SeverityDeduction[severity] \in Nat /\ SeverityDeduction[severity] > 0
    /\ severity \notin {"none", "error"}
    /\ DeductionFor(severity) = SeverityDeduction[severity]
BY DEF SeverityDeduction, DeductionFor

LEMMA FiveAreFinite ==
  ASSUME NEW a, NEW b, NEW c, NEW d, NEW e
  PROVE  IsFiniteSet({a, b, c, d, e})
<1>1. IsFiniteSet({a})
  BY FS_Singleton
<1>2. IsFiniteSet({a} \cup {b})
  BY <1>1, FS_AddElement
<1>3. IsFiniteSet(({a} \cup {b}) \cup {c})
  BY <1>2, FS_AddElement
<1>4. IsFiniteSet((({a} \cup {b}) \cup {c}) \cup {d})
  BY <1>3, FS_AddElement
<1>5. IsFiniteSet(((({a} \cup {b}) \cup {c}) \cup {d}) \cup {e})
  BY <1>4, FS_AddElement
<1>6. {a, b, c, d, e} = ((({a} \cup {b}) \cup {c}) \cup {d}) \cup {e}
  OBVIOUS
<1> QED  BY <1>5, <1>6

\* There are finitely many findings to count.
LEMMA CountedIsFinite ==
  ASSUME NEW counted \in SUBSET Counted
  PROVE  IsFiniteSet(counted)
<1> DEFINE severities == DOMAIN SeverityDeduction
           F == [f \in Counted |-> <<f.resource, <<f.type, f.severity>>>>]
<1>1. IsFiniteSet(severities)
  <2>1. severities = {"critical", "high", "medium", "low", "informational"}
    BY DEF SeverityDeduction
  <2>2. IsFiniteSet({"critical", "high", "medium", "low", "informational"})
    BY FiveAreFinite
  <2> HIDE DEF severities
  <2> QED  BY <2>1, <2>2
<1>2. IsFiniteSet(FindingTypes)
  BY FiveAreFinite DEF FindingTypes
<1>3. IsFiniteSet(Resources \X (FindingTypes \X severities))
  BY <1>1, <1>2, FS_Product, AssessmentAssumption
<1>4. F \in Injection(Counted, Resources \X (FindingTypes \X severities))
  BY DEF Injection, IsInjective, Counted
<1> QED  BY <1>3, <1>4, FS_Injection, FS_Subset

\* A calculation counts a finding once.
OnePerRule(counted) ==
  \A f, g \in counted : f.resource = g.resource /\ f.type = g.type => f = g

\* All that one has counted the other has, for no less.
Matched(old, new) ==
  \A f \in old : \E g \in new :
    /\ g.resource = f.resource /\ g.type = f.type
    /\ SeverityDeduction[f.severity] <= SeverityDeduction[g.severity]

Relevant(domain, counted) == {f \in counted : f.type \in FindingTypesOf[domain]}

Deducted(domain, counted) ==
  SumFunction([f \in Relevant(domain, counted) |-> SeverityDeduction[f.severity]])

\* More is deducted for more findings.
LEMMA DeductedIsMonotone ==
  ASSUME NEW old \in SUBSET Counted, NEW new \in SUBSET Counted, OnePerRule(old), Matched(old, new),
         NEW domain
  PROVE  Deducted(domain, old) <= Deducted(domain, new)
<1> DEFINE S == Relevant(domain, old)
           T == Relevant(domain, new)
           v == [f \in S |-> SeverityDeduction[f.severity]]
           w == [f \in T |-> SeverityDeduction[f.severity]]
           For(f, g) == /\ g.resource = f.resource /\ g.type = f.type
                        /\ SeverityDeduction[f.severity] <= SeverityDeduction[g.severity]
           F == [f \in S |-> CHOOSE g \in T : For(f, g)]
<1>1. /\ S \in SUBSET Counted /\ T \in SUBSET Counted
      /\ IsFiniteSet(S) /\ IsFiniteSet(T)
  BY CountedIsFinite DEF Relevant
<1>2. /\ \A f \in S : v[f] = SeverityDeduction[f.severity] /\ v[f] \in Nat
      /\ \A f \in T : w[f] = SeverityDeduction[f.severity] /\ w[f] \in Nat
  BY <1>1, SeveritiesDeduct DEF Counted
<1>3. ASSUME NEW f \in S  PROVE F[f] \in T /\ For(f, F[f])
  <2>1. \E g \in T : For(f, g)
    BY DEF Relevant, Matched
  <2> HIDE DEF For, S, T
  <2> QED  BY <2>1
<1>4. \A f \in S : F[f] \in T /\ v[f] <= w[F[f]]
  BY <1>2, <1>3
<1>5. \A f, g \in S : F[f] = F[g] => f = g
  BY <1>3 DEF Relevant, OnePerRule
<1>6. Deducted(domain, old) = SumFunctionOnSet(v, S) /\ Deducted(domain, new) = SumFunctionOnSet(w, T)
  BY DEF Deducted, SumFunction
<1> HIDE DEF S, T, v, w, F
<1>7. SumFunctionOnSet(v, S) <= SumFunctionOnSet(w, T)
  BY <1>1, <1>2, <1>4, <1>5, SumIsMonotone
<1> QED  BY <1>6, <1>7

LEMMA DeductedIsNat ==
  ASSUME NEW counted \in SUBSET Counted, NEW domain
  PROVE  Deducted(domain, counted) \in Nat
<1> DEFINE S == Relevant(domain, counted)
           v == [f \in S |-> SeverityDeduction[f.severity]]
<1>1. S \in SUBSET Counted /\ IsFiniteSet(S)
  BY CountedIsFinite DEF Relevant
<1>2. \A f \in S : v[f] \in Nat
  BY <1>1, SeveritiesDeduct DEF Counted
<1>3. Deducted(domain, counted) = SumFunctionOnSet(v, S)
  BY DEF Deducted, SumFunction
<1> HIDE DEF S, v
<1> QED  BY <1>1, <1>2, <1>3, SumIsNat

LEMMA DomainScoreIsMonotone ==
  ASSUME NEW old \in SUBSET Counted, NEW new \in SUBSET Counted, OnePerRule(old), Matched(old, new),
         NEW domain
  PROVE  DomainScore(domain, new) <= DomainScore(domain, old)
<1> DEFINE Share(total) == IF domain = "resilience" THEN total \div 2 ELSE total
<1>1. /\ Deducted(domain, old) \in Nat /\ Deducted(domain, new) \in Nat
      /\ Deducted(domain, old) <= Deducted(domain, new)
  BY DeductedIsMonotone, DeductedIsNat
<1>2. \A counted : DomainScore(domain, counted) = ClampScore(200 - Share(Deducted(domain, counted)))
  BY DEF DomainScore, Deducted, Relevant
<1>3. /\ 200 - Share(Deducted(domain, new)) <= 200 - Share(Deducted(domain, old))
      /\ 200 - Share(Deducted(domain, old)) \in Int /\ 200 - Share(Deducted(domain, old)) <= 200
      /\ 200 - Share(Deducted(domain, new)) \in Int
  BY <1>1
<1> HIDE DEF Share
<1> QED  BY <1>2, <1>3, ClampKeepsOrder

LEMMA DomainScoreIsTyped ==
  ASSUME NEW counted \in SUBSET Counted, NEW domain
  PROVE  DomainScore(domain, counted) \in 0..100
<1> DEFINE Share(total) == IF domain = "resilience" THEN total \div 2 ELSE total
<1>1. Deducted(domain, counted) \in Nat
  BY DeductedIsNat
<1>2. DomainScore(domain, counted) = ClampScore(200 - Share(Deducted(domain, counted)))
  BY DEF DomainScore, Deducted, Relevant
<1>3. 200 - Share(Deducted(domain, counted)) \in Int /\ 200 - Share(Deducted(domain, counted)) <= 200
  BY <1>1
<1> HIDE DEF Share
<1> QED  BY <1>2, <1>3, ClampKeepsOrder

LEMMA SumOfDomains ==
  ASSUME NEW v, \A d \in Domains : v[d] \in Nat
  PROVE  SumFunctionOnSet(v, Domains) =
           v["finops"] + v["governance"] + v["observability"] + v["security_baseline"] + v["resilience"]
<1> DEFINE D1 == Domains \ {"finops"}
           D2 == D1 \ {"governance"}
           D3 == D2 \ {"observability"}
           D4 == D3 \ {"security_baseline"}
<1>1. Domains = {"finops", "governance", "observability", "security_baseline", "resilience"}
  BY DEF Domains
<1>2. IsFiniteSet(Domains)
  BY FiveAreFinite DEF Domains
<1>3. IsFiniteSet(D1) /\ IsFiniteSet(D2) /\ IsFiniteSet(D3) /\ IsFiniteSet(D4)
  BY <1>2, FS_Subset
<1>4. /\ "finops" \in Domains /\ "governance" \in D1 /\ "observability" \in D2
      /\ "security_baseline" \in D3 /\ "resilience" \in D4 /\ D4 \ {"resilience"} = {}
      /\ D1 \subseteq Domains /\ D2 \subseteq Domains /\ D3 \subseteq Domains /\ D4 \subseteq Domains
  BY <1>1
<1>5. SumFunctionOnSet(v, Domains) = v["finops"] + SumFunctionOnSet(v, D1)
  BY <1>2, <1>4, SumWithout
<1>6. SumFunctionOnSet(v, D1) = v["governance"] + SumFunctionOnSet(v, D2)
  <2> HIDE DEF D1
  <2> QED  BY <1>3, <1>4, SumWithout
<1>7. SumFunctionOnSet(v, D2) = v["observability"] + SumFunctionOnSet(v, D3)
  <2> HIDE DEF D2
  <2> QED  BY <1>3, <1>4, SumWithout
<1>8. SumFunctionOnSet(v, D3) = v["security_baseline"] + SumFunctionOnSet(v, D4)
  <2> HIDE DEF D3
  <2> QED  BY <1>3, <1>4, SumWithout
<1>9. SumFunctionOnSet(v, D4) = v["resilience"] + 0
  <2> HIDE DEF D4
  <2> QED  BY <1>3, <1>4, SumWithout, SumOfEmpty
<1>10. /\ v["finops"] \in Nat /\ v["governance"] \in Nat /\ v["observability"] \in Nat
       /\ v["security_baseline"] \in Nat /\ v["resilience"] \in Nat
  BY <1>1
<1> HIDE DEF D1, D2, D3, D4
<1> QED  BY <1>5, <1>6, <1>7, <1>8, <1>9, <1>10

LEMMA OverallUnfolds ==
  ASSUME NEW domains \in [Domains -> 0..100]
  PROVE  \E total \in Nat :
           /\ total = 4 * domains["finops"] + 4 * domains["governance"] + 4 * domains["observability"]
                      + 5 * domains["security_baseline"] + 3 * domains["resilience"]
           /\ OverallScore(domains) = total \div 20 +
                (IF total % 20 > 10 \/ (total % 20 = 10 /\ domains \in TiesUp) THEN 1 ELSE 0)
<1> DEFINE v == [d \in Domains |-> domains[d] * OverallWeights[d]]
<1>1. "finops" \in Domains /\ "governance" \in Domains /\ "observability" \in Domains
      /\ "security_baseline" \in Domains /\ "resilience" \in Domains
  BY DEF Domains
<1>2. /\ v["finops"] = domains["finops"] * 4 /\ v["governance"] = domains["governance"] * 4
      /\ v["observability"] = domains["observability"] * 4
      /\ v["security_baseline"] = domains["security_baseline"] * 5
      /\ v["resilience"] = domains["resilience"] * 3
  BY <1>1 DEF OverallWeights
<1>3. \A d \in Domains : domains[d] \in 0..100
  OBVIOUS
<1>4. \A d \in Domains : v[d] \in Nat
  <2> HIDE DEF v
  <2> QED  BY <1>2, <1>3 DEF Domains
<1>5. SumFunction(v) = SumFunctionOnSet(v, Domains)
  BY DEF SumFunction
<1>6. OverallScore(domains) = SumFunction(v) \div 20 +
        (IF SumFunction(v) % 20 > 10 \/ (SumFunction(v) % 20 = 10 /\ domains \in TiesUp) THEN 1 ELSE 0)
  BY DEF OverallScore
<1> HIDE DEF v
<1>7. SumFunction(v) = v["finops"] + v["governance"] + v["observability"] + v["security_baseline"] + v["resilience"]
  BY <1>4, <1>5, SumOfDomains
<1>8. SumFunction(v) \in Nat
  BY <1>1, <1>4, <1>7
<1> QED  BY <1>1, <1>2, <1>3, <1>6, <1>7, <1>8

\* The weighted mean of scores that are no higher is no higher, rounded as it may be.
LEMMA OverallIsMonotone ==
  ASSUME NEW low \in [Domains -> 0..100], NEW high \in [Domains -> 0..100],
         \A d \in Domains : low[d] <= high[d]
  PROVE  OverallScore(low) <= OverallScore(high) /\ OverallScore(high) \in 0..100
<1> DEFINE Rounded(total, up) == total \div 20 + (IF total % 20 > 10 \/ (total % 20 = 10 /\ up) THEN 1 ELSE 0)
<1>1. PICK t \in Nat :
        /\ t = 4 * low["finops"] + 4 * low["governance"] + 4 * low["observability"]
               + 5 * low["security_baseline"] + 3 * low["resilience"]
        /\ OverallScore(low) = Rounded(t, low \in TiesUp)
  BY OverallUnfolds
<1>2. PICK u \in Nat :
        /\ u = 4 * high["finops"] + 4 * high["governance"] + 4 * high["observability"]
               + 5 * high["security_baseline"] + 3 * high["resilience"]
        /\ OverallScore(high) = Rounded(u, high \in TiesUp)
  BY OverallUnfolds
<1>3. "finops" \in Domains /\ "governance" \in Domains /\ "observability" \in Domains
      /\ "security_baseline" \in Domains /\ "resilience" \in Domains
  BY DEF Domains
<1> HIDE DEF Rounded
<1> DEFINE a == low["finops"]             f == high["finops"]
           b == low["governance"]         g == high["governance"]
           c == low["observability"]      h == high["observability"]
           d == low["security_baseline"]  i == high["security_baseline"]
           e == low["resilience"]         j == high["resilience"]
<1>4. /\ a \in 0..100 /\ b \in 0..100 /\ c \in 0..100 /\ d \in 0..100 /\ e \in 0..100
      /\ f \in 0..100 /\ g \in 0..100 /\ h \in 0..100 /\ i \in 0..100 /\ j \in 0..100
      /\ a <= f /\ b <= g /\ c <= h /\ d <= i /\ e <= j
      /\ t = 4 * a + 4 * b + 4 * c + 5 * d + 3 * e
      /\ u = 4 * f + 4 * g + 4 * h + 5 * i + 3 * j
  BY <1>1, <1>2, <1>3
<1>5. t <= u /\ u <= 2000
  <2> HIDE DEF a, b, c, d, e, f, g, h, i, j
  <2> QED  BY <1>4
<1>6. ASSUME t = u  PROVE low = high
  <2>1. a = f /\ b = g /\ c = h /\ d = i /\ e = j
    <3> HIDE DEF a, b, c, d, e, f, g, h, i, j
    <3> QED  BY <1>4, <1>6
  <2>2. \A domain \in Domains : low[domain] = high[domain]
    BY <2>1 DEF Domains
  <2> QED  BY <2>2
<1>7. ASSUME t < u, NEW up \in BOOLEAN, NEW upper \in BOOLEAN  PROVE Rounded(t, up) <= Rounded(u, upper)
  <2> DEFINE q == t \div 20
             r == t % 20
             p == u \div 20
             s == u % 20
  <2>1. /\ q \in Nat /\ r \in 0..19 /\ t = 20 * q + r
        /\ p \in Nat /\ s \in 0..19 /\ u = 20 * p + s
    OBVIOUS
  <2>2. /\ Rounded(t, up) = q + (IF r > 10 \/ (r = 10 /\ up) THEN 1 ELSE 0)
        /\ Rounded(u, upper) = p + (IF s > 10 \/ (s = 10 /\ upper) THEN 1 ELSE 0)
    BY DEF Rounded
  <2> HIDE DEF q, r, p, s
  <2>3. q < p \/ (q = p /\ r < s)
    BY <1>7, <2>1
  <2> QED  BY <2>1, <2>2, <2>3
<1>8. ASSUME NEW upper \in BOOLEAN  PROVE Rounded(u, upper) \in 0..100
  <2> DEFINE p == u \div 20
             s == u % 20
  <2>1. p \in Nat /\ s \in 0..19 /\ u = 20 * p + s
    OBVIOUS
  <2>2. Rounded(u, upper) = p + (IF s > 10 \/ (s = 10 /\ upper) THEN 1 ELSE 0)
    BY DEF Rounded
  <2> HIDE DEF p, s
  <2> QED  BY <1>5, <2>1, <2>2
<1>9. (low \in TiesUp) \in BOOLEAN /\ (high \in TiesUp) \in BOOLEAN
  OBVIOUS
<1>10. OverallScore(high) \in 0..100
  BY <1>2, <1>8, <1>9
<1>11. CASE t = u
  BY <1>6, <1>10, <1>11
<1>12. CASE t < u
  BY <1>1, <1>2, <1>7, <1>9, <1>10, <1>12
<1> QED  BY <1>5, <1>10, <1>11, <1>12

LEMMA ScoreIsTyped ==
  ASSUME NEW counted \in SUBSET Counted, NEW type \in Domains \cup {"overall"}
  PROVE  ScoreOf(type, counted) \in 0..100
<1> DEFINE scores == [d \in Domains |-> DomainScore(d, counted)]
<1>1. scores \in [Domains -> 0..100]
  BY DomainScoreIsTyped
<1>2. \A d \in Domains : scores[d] <= scores[d]
  BY <1>1
<1>3. ScoreOf(type, counted) = IF type \in Domains THEN DomainScore(type, counted) ELSE OverallScore(scores)
  BY DEF ScoreOf
<1> HIDE DEF scores
<1>4. OverallScore(scores) \in 0..100
  BY <1>1, <1>2, OverallIsMonotone
<1> QED  BY <1>3, <1>4, DomainScoreIsTyped

\* No score of a scope is higher for more findings, whatever findings there are: neither
\* a domain's, rounded and clamped, nor the weighted mean, rounded as it may be.
\* (scoring/formulas.py)
THEOREM ScoreIsMonotone ==
  ASSUME NEW old \in SUBSET Counted, NEW new \in SUBSET Counted, OnePerRule(old), Matched(old, new),
         NEW type \in Domains \cup {"overall"}
  PROVE  ScoreOf(type, new) <= ScoreOf(type, old)
<1> DEFINE high == [d \in Domains |-> DomainScore(d, old)]
           low == [d \in Domains |-> DomainScore(d, new)]
<1>1. low \in [Domains -> 0..100] /\ high \in [Domains -> 0..100]
  BY DomainScoreIsTyped
<1>2. \A d \in Domains : low[d] <= high[d]
  BY DomainScoreIsMonotone
<1>3. /\ ScoreOf(type, new) = IF type \in Domains THEN DomainScore(type, new) ELSE OverallScore(low)
      /\ ScoreOf(type, old) = IF type \in Domains THEN DomainScore(type, old) ELSE OverallScore(high)
  BY DEF ScoreOf
<1> HIDE DEF low, high
<1>4. OverallScore(low) <= OverallScore(high)
  BY <1>1, <1>2, OverallIsMonotone
<1> QED  BY <1>3, <1>4, DomainScoreIsMonotone

-----------------------------------------------------------------------------
(* What calculations count, and the scores they make of it *)

\* No row has a utilisation that its rule cannot read: no collector collects one.
DataKnown ==
  /\ resource \in [Resources -> ResourceRows]
  /\ \A r \in Resources : resource[r].cpu = "none"
  /\ finding \in [Resources -> [FindingTypes -> Findings]]
  /\ scans \in 0..MaxScans

\* A calculation has counted a rule's finding on a resource once, and of its scope alone.
CountedInScope ==
  \A i \in DOMAIN runs :
    /\ OnePerRule(runs[i].counted)
    /\ \A f \in runs[i].counted : InScope(f.resource, runs[i].scope)

\* A finding that was counted is active still, for no less, and its rule finds it still.
Kept(f) ==
  LET cell == finding[f.resource][f.type] IN
  /\ cell.status \in ActiveStatuses
  /\ SeverityDeduction[f.severity] <= SeverityDeduction[cell.severity]
  /\ SeverityDeduction[f.severity] <= DeductionFor(Judged(resource[f.resource], f.type))

SteadyAreKept == \A i \in DOMAIN runs : runs[i].steady => \A f \in runs[i].counted : Kept(f)

\* What a calculation counted that was steady when another of a wider scope loaded, the
\* other has counted too.
BeforeAreMatched ==
  \A j \in DOMAIN runs : \A i \in runs[j].before :
    /\ i \in DOMAIN runs
    /\ Within(runs[i].scope, runs[j].scope) => Matched(runs[i].counted, runs[j].counted)

\* A row has the score of what its calculation counted.
RowsScored ==
  \A row \in rows : row \in ScoreRows /\ row.value = ScoreOf(row.type, runs[row.run].counted)

\* An improving row is at least three points above an earlier committed one of its scope.
RowsRose ==
  \A new \in rows : new.trend = "improving" =>
    \E old \in Committed :
      /\ old.type = new.type /\ ScopeOf(old) = ScopeOf(new) /\ old.at < new.at
      /\ old.value + 3 <= new.value

ScoreInv ==
  /\ DataKnown /\ Len(runs) <= MaxRuns
  /\ CountedInScope /\ SteadyAreKept /\ BeforeAreMatched /\ RowsScored /\ RowsRose

LEMMA RowsForAreReadable ==
  ASSUME NEW r \in Resources, NEW row \in RowsFor(r)
  PROVE  row \in ResourceRows /\ row.cpu = "none"
<1>1. PICK d \in Described[r] : row = Normalized(d)
  BY DEF RowsFor
<1>2. d \in Descriptions /\ d.kind \in Collected[d.provider]
  BY AssessmentAssumption
<1> QED  BY <1>1, <1>2, RowIsReadable

\* What a rule says of a row that can be read.
LEMMA JudgedIsReadable ==
  ASSUME NEW row \in ResourceRows, row.cpu = "none", NEW type \in FindingTypes
  PROVE  Judged(row, type) \in DOMAIN SeverityDeduction \cup {"none"}
<1>1. MissingTags(row) \in {"none", "high", "medium"}
  BY DEF MissingTags
<1>2. PublicExposure(row) \in {"none", "critical", "medium", "high"}
  BY DEF PublicExposure
<1>3. UnattachedVolume(row) \in {"none", "low"}
  BY DEF UnattachedVolume
<1>4. IdleCompute(row) = "none"
  BY DEF IdleCompute
<1>5. ObservabilityGap(row) \in {"none", "medium", "high"}
  BY DEF ObservabilityGap
<1>6. {"critical", "high", "medium", "low"} \subseteq DOMAIN SeverityDeduction
  BY DEF SeverityDeduction
<1> QED  BY <1>1, <1>2, <1>3, <1>4, <1>5, <1>6 DEF Judged, FindingTypes

LEMMA UpsertedIsTyped ==
  ASSUME NEW f \in Findings, NEW severity \in DOMAIN SeverityDeduction \cup {"none"}
  PROVE  /\ Upserted(f, severity) \in Findings
         /\ severity # "none" => Upserted(f, severity).severity = severity
         /\ severity = "none" => Upserted(f, severity) = f
         /\ f.status # "none" => Upserted(f, severity).status = f.status
<1>1. severity # "none" => severity # "error" /\ severity \in DOMAIN SeverityDeduction
  BY SeveritiesDeduct
<1>2. CASE severity = "none"
  <2>1. Upserted(f, severity) = f
    BY <1>2 DEF Upserted
  <2> QED  BY <1>2, <2>1
<1>3. CASE severity # "none" /\ f.status = "none"
  <2>1. Upserted(f, severity) = [status |-> "open", severity |-> severity]
    BY <1>1, <1>3 DEF Upserted
  <2> QED  BY <1>1, <1>3, <2>1 DEF Findings, FindingStatuses
<1>4. CASE severity # "none" /\ f.status # "none"
  <2>1. Upserted(f, severity) = [f EXCEPT !.severity = severity]
    BY <1>1, <1>4 DEF Upserted
  <2> QED  BY <1>1, <1>4, <2>1 DEF Findings
<1> QED  BY <1>2, <1>3, <1>4

-----------------------------------------------------------------------------

\* What every step but the start of a calculation leaves of those there are.
Continued ==
  /\ DOMAIN runs' = DOMAIN runs /\ Len(runs') = Len(runs)
  /\ \A i \in DOMAIN runs :
       /\ runs'[i].scope = runs[i].scope /\ runs'[i].counted = runs[i].counted
       /\ runs'[i].before = runs[i].before
       /\ runs'[i].steady => runs[i].steady
       /\ runs[i].phase = "committed" => runs'[i].phase = "committed"

LEMMA OthersContinue ==
  ASSUME CalcInv,
         \/ \E r \in Resources : Scan(r)
         \/ \E r \in Resources, type \in FindingTypes : Decide(r, type)
         \/ FindingsRun
         \/ \E i \in DOMAIN runs : PersistScore(i) \/ Commit(i) \/ Fail(i)
         \/ UNCHANGED vars
  PROVE  Continued
<1>1. /\ runs \in Seq(SomeRuns) /\ DOMAIN runs = 1..Len(runs) /\ Len(runs) \in Nat
      /\ \A i \in DOMAIN runs : runs[i] \in SomeRuns
  BY DEF CalcInv, RunsKnown
<1>2. \/ runs' = runs
      \/ runs' = Unsteady
      \/ \E i \in DOMAIN runs : runs[i].phase = "running" /\
           \E phase, made : runs' = [runs EXCEPT ![i].phase = phase, ![i].made = made]
  <2>1. ASSUME NEW i \in DOMAIN runs, PersistScore(i)
        PROVE  /\ runs[i].phase = "running"
               /\ runs' = [runs EXCEPT ![i].phase = runs[i].phase, ![i].made = runs[i].made + 1]
    BY <1>1, <2>1 DEF PersistScore, Running, SomeRuns
  <2>2. ASSUME NEW i \in DOMAIN runs, Commit(i)
        PROVE  /\ runs[i].phase = "running"
               /\ runs' = [runs EXCEPT ![i].phase = "committed", ![i].made = runs[i].made]
    BY <1>1, <2>2 DEF Commit, Running, SomeRuns
  <2>3. ASSUME NEW i \in DOMAIN runs, Fail(i)
        PROVE  /\ runs[i].phase = "running"
               /\ runs' = [runs EXCEPT ![i].phase = "failed", ![i].made = 0]
    BY <2>3 DEF Fail, Running
  <2>4. CASE \E r \in Resources : Scan(r)
    BY <2>4 DEF Scan
  <2>5. CASE \E r \in Resources, type \in FindingTypes : Decide(r, type)
    BY <2>5 DEF Decide
  <2>6. CASE FindingsRun \/ UNCHANGED vars
    BY <2>6 DEF FindingsRun, vars
  <2>7. CASE \E i \in DOMAIN runs : PersistScore(i) \/ Commit(i) \/ Fail(i)
    <3>1. PICK i \in DOMAIN runs : PersistScore(i) \/ Commit(i) \/ Fail(i)
      BY <2>7
    <3> DEFINE Changed(phase, made) == runs' = [runs EXCEPT ![i].phase = phase, ![i].made = made]
    <3>2. /\ runs[i].phase = "running"
          /\ \/ Changed(runs[i].phase, runs[i].made + 1)
             \/ Changed("committed", runs[i].made)
             \/ Changed("failed", 0)
      BY <2>1, <2>2, <2>3, <3>1
    <3> HIDE DEF Changed
    <3>3. \E phase, made : Changed(phase, made)
      BY <3>2
    <3> USE DEF Changed
    <3> QED  BY <3>2, <3>3
  <2> QED  BY <2>4, <2>5, <2>6, <2>7
<1>3. CASE runs' = runs
  BY <1>3 DEF Continued
<1>4. CASE runs' = Unsteady
  <2>1. \A i \in DOMAIN runs : Unsteady[i] = [runs[i] EXCEPT !.steady = FALSE]
    BY DEF Unsteady
  <2>2. DOMAIN Unsteady = DOMAIN runs /\ Unsteady \in Seq(SomeRuns)
    BY UnsteadyIsAside DEF CalcInv
  <2>3. Len(Unsteady) = Len(runs)
    BY <1>1, <2>2
  <2>4. \A i \in DOMAIN runs :
          /\ Unsteady[i].scope = runs[i].scope /\ Unsteady[i].counted = runs[i].counted
          /\ Unsteady[i].before = runs[i].before /\ ~Unsteady[i].steady
          /\ Unsteady[i].phase = runs[i].phase
    BY <1>1, <2>1 DEF SomeRuns
  <2> QED  BY <1>4, <2>2, <2>3, <2>4 DEF Continued
<1>5. ASSUME NEW i \in DOMAIN runs, runs[i].phase = "running", NEW phase, NEW made,
             runs' = [runs EXCEPT ![i].phase = phase, ![i].made = made]
      PROVE  Continued
  <2>1. DOMAIN runs' = DOMAIN runs /\ Len(runs') = Len(runs)
    BY <1>1, <1>5
  <2>2. \A j \in DOMAIN runs : j # i => runs'[j] = runs[j]
    BY <1>5
  <2>3. /\ runs'[i].scope = runs[i].scope /\ runs'[i].counted = runs[i].counted
        /\ runs'[i].before = runs[i].before /\ runs'[i].steady = runs[i].steady
    BY <1>1, <1>5 DEF SomeRuns
  <2> QED  BY <1>5, <2>1, <2>2, <2>3 DEF Continued
<1> QED  BY <1>2, <1>3, <1>4, <1>5

LEMMA CountedAreFindings ==
  ASSUME CalcInv, NEW i \in DOMAIN runs
  PROVE  runs[i].counted \in SUBSET Counted
<1>1. runs[i] \in SomeRuns
  BY DEF CalcInv, RunsKnown
<1> QED  BY <1>1 DEF SomeRuns

\* What calculations have counted stays as it was.
LEMMA CountedStay ==
  ASSUME ScoreInv, Continued
  PROVE  (Len(runs) <= MaxRuns)' /\ CountedInScope' /\ BeforeAreMatched'
BY DEF ScoreInv, Continued, CountedInScope, BeforeAreMatched

\* The findings, where they and their resources are the same, have been kept.
LEMMA SameStayKept ==
  ASSUME ScoreInv, Continued, resource' = resource, finding' = finding
  PROVE  SteadyAreKept'
<1>1. \A f : Kept(f)' = Kept(f)
  BY DEF Kept
<1> QED  BY <1>1 DEF ScoreInv, Continued, SteadyAreKept

LEMMA ScanKeepsScores ==
  ASSUME CalcInv, ScoreInv, NEW r \in Resources, Scan(r)
  PROVE  DataKnown' /\ SteadyAreKept'
<1>1. Continued
  BY OthersContinue
<1>2. PICK row \in RowsFor(r) :
        /\ resource' = [resource EXCEPT ![r] = row]
        /\ runs' = IF NoBetter(row, resource[r]) THEN runs ELSE Unsteady
  BY DEF Scan
<1>3. row \in ResourceRows /\ row.cpu = "none"
  BY RowsForAreReadable
<1>4. /\ DataKnown /\ SteadyAreKept /\ finding' = finding
      /\ scans < MaxScans /\ scans' = scans + 1
  BY DEF ScoreInv, Scan
<1>5. DataKnown'
  <2>1. scans' \in 0..MaxScans
    BY <1>4, AssessmentAssumption DEF DataKnown
  <2> QED  BY <1>2, <1>3, <1>4, <2>1 DEF DataKnown
<1>6. CASE NoBetter(row, resource[r])
  <2>1. \A s \in Resources, type \in FindingTypes :
          DeductionFor(Judged(resource[s], type)) <= DeductionFor(Judged(resource'[s], type))
    <3> SUFFICES ASSUME NEW s \in Resources, NEW type \in FindingTypes
                 PROVE  DeductionFor(Judged(resource[s], type)) <= DeductionFor(Judged(resource'[s], type))
      OBVIOUS
    <3>1. Judged(row, type) # "error"
      BY <1>3, JudgedIsReadable, SeveritiesDeduct
    <3>2. DeductionFor(Judged(resource[r], type)) <= DeductionFor(Judged(row, type))
      BY <1>3, <1>4, <1>6, <3>1, RulesSeeDecay DEF DataKnown
    <3>3. Judged(resource[s], type) \in DOMAIN SeverityDeduction \cup {"none"}
      BY <1>4, JudgedIsReadable DEF DataKnown
    <3>4. DeductionFor(Judged(resource[s], type)) \in Nat
      BY <3>3, SeveritiesDeduct, Deductions
    <3>5. resource'[s] = IF s = r THEN row ELSE resource[s]
      BY <1>2, <1>4 DEF DataKnown
    <3> QED  BY <3>2, <3>4, <3>5
  <2>2. SUFFICES ASSUME NEW i \in DOMAIN runs, runs[i].steady, NEW f \in runs[i].counted
                 PROVE  Kept(f)'
    BY <1>2, <1>5, <1>6 DEF SteadyAreKept
  <2>3. f \in Counted
    BY CountedAreFindings
  <2>4. f.resource \in Resources /\ f.type \in FindingTypes /\ f.severity \in DOMAIN SeverityDeduction
    BY <2>3 DEF Counted
  <2>5. Kept(f)
    BY <1>4, <2>2 DEF SteadyAreKept
  <2> DEFINE now1 == DeductionFor(Judged(resource[f.resource], f.type))
             then == DeductionFor(Judged(resource'[f.resource], f.type))
             own == SeverityDeduction[f.severity]
  <2>6. now1 <= then
    BY <2>1, <2>4
  <2>7. now1 \in Nat /\ then \in Nat /\ own \in Nat
    <3>1. \A s \in Resources, type \in FindingTypes :
            /\ Judged(resource[s], type) \in DOMAIN SeverityDeduction \cup {"none"}
            /\ Judged(resource'[s], type) \in DOMAIN SeverityDeduction \cup {"none"}
      BY <1>4, <1>5, JudgedIsReadable DEF DataKnown
    <3> QED  BY <2>4, <3>1, SeveritiesDeduct, Deductions
  <2>8. own <= now1
    BY <2>5 DEF Kept
  <2> HIDE DEF now1, then, own
  <2>9. own <= then
    BY <2>6, <2>7, <2>8
  <2> USE DEF then, own
  <2> QED  BY <1>4, <2>5, <2>9 DEF Kept
<1>7. CASE ~NoBetter(row, resource[r])
  <2>1. \A i \in DOMAIN runs' : ~runs'[i].steady
    <3>1. \A i \in DOMAIN runs : runs[i] \in SomeRuns
      BY DEF CalcInv, RunsKnown
    <3>2. runs' = Unsteady
      BY <1>2, <1>7
    <3> QED  BY <3>1, <3>2 DEF Unsteady, SomeRuns
  <2> QED  BY <1>5, <2>1 DEF SteadyAreKept
<1> QED  BY <1>6, <1>7

LEMMA DecideKeepsScores ==
  ASSUME CalcInv, ScoreInv, NEW r \in Resources, NEW type \in FindingTypes, Decide(r, type)
  PROVE  DataKnown' /\ SteadyAreKept'
<1>1. PICK status \in Decisions : finding' = [finding EXCEPT ![r][type].status = status]
  BY DEF Decide
<1>2. DataKnown /\ resource' = resource /\ runs' = Unsteady /\ scans < MaxScans /\ scans' = scans + 1
  BY DEF ScoreInv, Decide
<1>3. finding[r] \in [FindingTypes -> Findings] /\ finding[r][type] \in Findings
  BY <1>2 DEF DataKnown
<1>4. [finding[r][type] EXCEPT !.status = status] \in Findings
  BY <1>3, DecisionsAssumption DEF Findings
<1>5. [finding[r] EXCEPT ![type] = [finding[r][type] EXCEPT !.status = status]] \in [FindingTypes -> Findings]
  BY <1>3, <1>4
<1>6. finding' \in [Resources -> [FindingTypes -> Findings]]
  BY <1>1, <1>2, <1>5 DEF DataKnown
<1>7. scans' \in 0..MaxScans
  BY <1>2, AssessmentAssumption DEF DataKnown
<1>8. \A i \in DOMAIN runs' : ~runs'[i].steady
  <2>1. \A i \in DOMAIN runs : runs[i] \in SomeRuns
    BY DEF CalcInv, RunsKnown
  <2> QED  BY <1>2, <2>1 DEF Unsteady, SomeRuns
<1> QED  BY <1>2, <1>6, <1>7, <1>8 DEF DataKnown, SteadyAreKept

LEMMA FindingsRunKeepsScores ==
  ASSUME CalcInv, ScoreInv, FindingsRun
  PROVE  DataKnown' /\ SteadyAreKept'
<1> DEFINE said(r, type) == Judged(resource[r], type)
<1>1. /\ DataKnown /\ SteadyAreKept /\ resource' = resource /\ runs' = runs /\ scans' = scans
      /\ \A r \in Resources, type \in FindingTypes : finding'[r][type] = Upserted(finding[r][type], said(r, type))
      /\ finding' = [r \in Resources |-> [type \in FindingTypes |-> finding'[r][type]]]
  BY DEF ScoreInv, FindingsRun
<1>2. \A r \in Resources, type \in FindingTypes :
        /\ said(r, type) \in DOMAIN SeverityDeduction \cup {"none"}
        /\ finding[r][type] \in Findings
  BY <1>1, JudgedIsReadable DEF DataKnown
<1> HIDE DEF said
<1>3. \A r \in Resources, type \in FindingTypes : finding'[r][type] \in Findings
  BY <1>1, <1>2, UpsertedIsTyped
<1>4. DataKnown'
  BY <1>1, <1>3 DEF DataKnown
<1>5. SUFFICES ASSUME NEW i \in DOMAIN runs, runs[i].steady, NEW f \in runs[i].counted
               PROVE  Kept(f)'
  BY <1>1, <1>4 DEF SteadyAreKept
<1>6. f \in Counted
  BY CountedAreFindings
<1>7. f.resource \in Resources /\ f.type \in FindingTypes /\ f.severity \in DOMAIN SeverityDeduction
  BY <1>6 DEF Counted
<1> DEFINE cell == finding[f.resource][f.type]
           severity == said(f.resource, f.type)
<1>8. /\ cell.status \in ActiveStatuses
      /\ SeverityDeduction[f.severity] <= SeverityDeduction[cell.severity]
      /\ SeverityDeduction[f.severity] <= DeductionFor(severity)
  BY <1>1, <1>5 DEF SteadyAreKept, Kept, said
<1>9. severity # "none" /\ DeductionFor(severity) = SeverityDeduction[severity]
  <2>1. SeverityDeduction[f.severity] > 0 /\ SeverityDeduction[f.severity] \in Nat
    BY <1>7, SeveritiesDeduct
  <2>2. severity # "none"
    BY <1>8, <2>1, Deductions
  <2> QED  BY <1>2, <1>7, <2>2, SeveritiesDeduct
<1>10. cell.status # "none" /\ cell \in Findings
  BY <1>2, <1>7, <1>8 DEF ActiveStatuses
<1>11. /\ finding'[f.resource][f.type].status = cell.status
       /\ finding'[f.resource][f.type].severity = severity
  BY <1>1, <1>2, <1>7, <1>9, <1>10, UpsertedIsTyped
<1> QED  BY <1>1, <1>8, <1>9, <1>11 DEF Kept, said

\* A calculation that starts counts each finding that is active and of its scope.
LEMMA LoadedAreActive ==
  ASSUME NEW scope, NEW f \in LoadFindings(scope)
  PROVE  /\ f \in Counted /\ f.resource \in Resources /\ f.type \in FindingTypes
         /\ f.severity \in DOMAIN SeverityDeduction /\ InScope(f.resource, scope)
         /\ finding[f.resource][f.type].status \in ActiveStatuses
         /\ finding[f.resource][f.type].severity = f.severity
BY DEF LoadFindings, Counted

LEMMA LoadedOnce ==
  ASSUME NEW scope
  PROVE  OnePerRule(LoadFindings(scope))
<1> SUFFICES ASSUME NEW f \in LoadFindings(scope), NEW g \in LoadFindings(scope),
                    f.resource = g.resource, f.type = g.type
             PROVE  f = g
  BY DEF OnePerRule
<1>1. f \in Counted /\ g \in Counted /\ f.severity = g.severity
  BY LoadedAreActive
<1> QED  BY <1>1 DEF Counted

\* What was kept of a narrower scope is counted by a calculation that starts.
LEMMA KeptAreLoaded ==
  ASSUME CalcInv, ScoreInv, NEW i \in DOMAIN runs, runs[i].steady, NEW scope,
         Within(runs[i].scope, scope)
  PROVE  Matched(runs[i].counted, LoadFindings(scope))
<1> SUFFICES ASSUME NEW f \in runs[i].counted
             PROVE  \E g \in LoadFindings(scope) :
                      /\ g.resource = f.resource /\ g.type = f.type
                      /\ SeverityDeduction[f.severity] <= SeverityDeduction[g.severity]
  BY DEF Matched
<1> DEFINE cell == finding[f.resource][f.type]
           g == [resource |-> f.resource, type |-> f.type, severity |-> cell.severity]
<1>1. f \in Counted
  BY CountedAreFindings
<1>2. f.resource \in Resources /\ f.type \in FindingTypes
  BY <1>1 DEF Counted
<1>3. cell \in Findings
  BY <1>2 DEF ScoreInv, DataKnown
<1>4. cell.severity \in DOMAIN SeverityDeduction
  BY <1>3 DEF Findings
<1>5. cell.status \in ActiveStatuses /\ SeverityDeduction[f.severity] <= SeverityDeduction[cell.severity]
  BY DEF ScoreInv, SteadyAreKept, Kept
<1>6. InScope(f.resource, scope)
  <2>1. InScope(f.resource, runs[i].scope)
    BY DEF ScoreInv, CountedInScope
  <2> QED  BY <2>1 DEF InScope, Within
<1>7. g \in Counted
  BY <1>2, <1>4 DEF Counted
<1>8. g.resource = f.resource /\ g.type = f.type /\ g.severity = cell.severity
  OBVIOUS
<1> HIDE DEF g
<1>9. g \in LoadFindings(scope)
  BY <1>5, <1>6, <1>7, <1>8 DEF LoadFindings
<1> QED  BY <1>5, <1>8, <1>9

LEMMA StartKeepsScores ==
  ASSUME CalcInv, ScoreInv, NEW scope \in Asked, Start(scope)
  PROVE  /\ DataKnown' /\ (Len(runs) <= MaxRuns)'
         /\ CountedInScope' /\ SteadyAreKept' /\ BeforeAreMatched'
<1> DEFINE n == Len(runs) + 1
<1>1. /\ DOMAIN runs = 1..Len(runs) /\ Len(runs) \in Nat /\ DOMAIN runs' = 1..n
      /\ \A i \in DOMAIN runs :
           /\ runs'[i].scope = runs[i].scope /\ runs'[i].counted = runs[i].counted
           /\ runs'[i].steady = runs[i].steady /\ runs'[i].before = runs[i].before
      /\ runs'[n].scope = scope /\ runs'[n].counted = LoadFindings(scope)
      /\ runs'[n].steady = UpToDate(scope) /\ runs'[n].before = {i \in DOMAIN runs : runs[i].steady}
      /\ RunsKnown'
  BY StartEffect DEF CalcInv
<1>2. /\ resource' = resource /\ finding' = finding /\ scans' = scans /\ DataKnown
      /\ Len(runs) < IF Running = {} /\ \A i \in DOMAIN runs : runs[i].alone THEN MaxRuns ELSE MaxOverlapping
  BY DEF Start, ScoreInv
<1>3. DataKnown'
  BY <1>2 DEF DataKnown
<1>4. Len(runs') <= MaxRuns
  <2>1. Len(runs') = n
    BY <1>1 DEF RunsKnown
  <2> QED  BY <1>1, <1>2, <2>1, AssessmentAssumption
<1>5. DOMAIN runs' = DOMAIN runs \cup {n} /\ n \notin DOMAIN runs
  BY <1>1
<1> HIDE DEF n
<1>6. CountedInScope'
  <2> SUFFICES ASSUME NEW i \in DOMAIN runs'
               PROVE  /\ OnePerRule(runs'[i].counted)
                      /\ \A f \in runs'[i].counted : InScope(f.resource, runs'[i].scope)
    BY DEF CountedInScope
  <2>1. CASE i \in DOMAIN runs
    BY <1>1, <2>1 DEF ScoreInv, CountedInScope
  <2>2. CASE i = n
    BY <1>1, <2>2, LoadedOnce, LoadedAreActive
  <2> QED  BY <1>5, <2>1, <2>2
<1>7. \A f : Kept(f)' = Kept(f)
  BY <1>2 DEF Kept
<1>8. SteadyAreKept'
  <2> SUFFICES ASSUME NEW i \in DOMAIN runs', runs'[i].steady, NEW f \in runs'[i].counted
               PROVE  Kept(f)
    BY <1>7 DEF SteadyAreKept
  <2>1. CASE i \in DOMAIN runs
    BY <1>1, <2>1 DEF ScoreInv, SteadyAreKept
  <2>2. CASE i = n
    <3>1. f \in LoadFindings(scope) /\ UpToDate(scope)
      BY <1>1, <2>2
    <3>2. /\ f.resource \in Resources /\ f.type \in FindingTypes /\ InScope(f.resource, scope)
          /\ f.severity \in DOMAIN SeverityDeduction
          /\ finding[f.resource][f.type].status \in ActiveStatuses
          /\ finding[f.resource][f.type].severity = f.severity
      BY <3>1, LoadedAreActive
    <3> DEFINE severity == Judged(resource[f.resource], f.type)
    <3>3. severity \notin {"none", "error"} /\ SeverityDeduction[f.severity] <= SeverityDeduction[severity]
      BY <3>1, <3>2 DEF UpToDate
    <3>4. DeductionFor(severity) = SeverityDeduction[severity]
      BY <3>3 DEF DeductionFor
    <3>5. SeverityDeduction[f.severity] \in Nat
      BY <3>2, SeveritiesDeduct
    <3> HIDE DEF severity
    <3>6. /\ SeverityDeduction[f.severity] <= DeductionFor(severity)
          /\ SeverityDeduction[f.severity] <= SeverityDeduction[f.severity]
      BY <3>3, <3>4, <3>5
    <3> USE DEF severity
    <3> QED  BY <3>2, <3>6 DEF Kept
  <2> QED  BY <1>5, <2>1, <2>2
<1>9. BeforeAreMatched'
  <2> SUFFICES ASSUME NEW j \in DOMAIN runs', NEW i \in runs'[j].before
               PROVE  /\ i \in DOMAIN runs'
                      /\ Within(runs'[i].scope, runs'[j].scope) =>
                           Matched(runs'[i].counted, runs'[j].counted)
    BY DEF BeforeAreMatched
  <2>1. CASE j \in DOMAIN runs
    BY <1>1, <1>5, <2>1 DEF ScoreInv, BeforeAreMatched
  <2>2. CASE j = n
    <3>1. i \in DOMAIN runs /\ runs[i].steady
      BY <1>1, <2>2
    <3>2. Within(runs[i].scope, scope) => Matched(runs[i].counted, LoadFindings(scope))
      BY <3>1, KeptAreLoaded
    <3> QED  BY <1>1, <1>5, <2>2, <3>1, <3>2
  <2> QED  BY <1>5, <2>1, <2>2
<1> QED  BY <1>3, <1>4, <1>6, <1>8, <1>9

-----------------------------------------------------------------------------

\* The rows that stay are of the same calculations, which count the same.
LEMMA RowsStay ==
  ASSUME CalcInv, ScoreInv, rows' \subseteq rows,
         \A row \in rows : runs[row.run].phase = "committed" => row \in rows',
         \A i \in DOMAIN runs :
           /\ runs'[i].scope = runs[i].scope /\ runs'[i].counted = runs[i].counted
           /\ runs[i].phase = "committed" => runs'[i].phase = "committed"
  PROVE  RowsScored' /\ RowsRose'
<1>1. \A row \in rows : row.run \in DOMAIN runs
  BY DEF CalcInv, RowsKnown
<1>2. RowsScored'
  BY <1>1 DEF ScoreInv, RowsScored
<1>3. \A row \in Committed : row \in Committed' /\ ScopeOf(row)' = ScopeOf(row)
  BY <1>1 DEF Committed, ScopeOf
<1>4. \A row \in rows : ScopeOf(row)' = ScopeOf(row)
  BY <1>1 DEF ScopeOf
<1>5. RowsRose'
  <2> SUFFICES ASSUME NEW new \in rows', new.trend = "improving"
               PROVE  \E old \in Committed' :
                        /\ old.type = new.type /\ ScopeOf(old)' = ScopeOf(new)' /\ old.at < new.at
                        /\ old.value + 3 <= new.value
    BY DEF RowsRose
  <2>1. PICK old \in Committed :
          /\ old.type = new.type /\ ScopeOf(old) = ScopeOf(new) /\ old.at < new.at
          /\ old.value + 3 <= new.value
    BY DEF ScoreInv, RowsRose
  <2> QED  BY <1>3, <1>4, <2>1
<1> QED  BY <1>2, <1>5

\* The row that a calculation makes next.
LEMMA NewRowIsScored ==
  ASSUME CalcInv, ScoreInv, NEW i \in DOMAIN runs, PersistScore(i), NEW new, new = NewRow(i)
  PROVE  /\ new \in ScoreRows /\ new.value = ScoreOf(new.type, runs[i].counted)
         /\ new.trend = "improving" =>
              \E old \in Committed :
                /\ old.type = new.type /\ ScopeOf(old) = runs[i].scope /\ old.at < new.at
                /\ old.value + 3 <= new.value
<1> DEFINE type == ScoreTypes[runs[i].made + 1]
           value == ScoreOf(type, runs[i].counted)
           previous == PreviousScores(runs[i].scope, type)
           old == CHOOSE row \in previous : TRUE
           trend == IF previous = {} THEN "unknown" ELSE TrendForScores(value, old.value)
<1>1. runs[i].made \in 0..5 /\ now \in Nat
  BY PersistEffect
<1>2. type \in Domains \cup {"overall"}
  <2>1. runs[i].made + 1 \in {1, 2, 3, 4, 5, 6}
    BY <1>1
  <2> QED  BY <2>1 DEF ScoreTypes, Domains
<1>3. value \in 0..100
  <2> HIDE DEF type
  <2> QED  BY <1>2, ScoreIsTyped, CountedAreFindings
<1>4. new = [run |-> i, type |-> type, value |-> value, at |-> now, trend |-> trend]
  BY DEF NewRow
<1>5. i \in 1..MaxRuns
  <2>1. i \in 1..Len(runs) /\ Len(runs) \in Nat /\ Len(runs) <= MaxRuns
    BY DEF CalcInv, RunsKnown, ScoreInv
  <2> QED  BY <2>1, AssessmentAssumption
<1>6. \A row \in previous :
        /\ row \in Committed /\ row.type = type /\ ScopeOf(row) = runs[i].scope
        /\ row.at < now /\ row.value \in 0..100
  <2>1. \A row \in rows : row.at < now /\ row.value \in 0..100
    BY DEF CalcInv, RowsKnown, ScoreInv, RowsScored, ScoreRows
  <2> QED  BY <2>1 DEF PreviousScores, Committed
<1>7. previous # {} => old \in previous
  OBVIOUS
<1> HIDE DEF type, value, previous, old
<1>8. trend \in {"improving", "stable", "degrading", "unknown"}
  BY DEF TrendForScores
<1>9. trend = "improving" => previous # {} /\ value - old.value >= 3
  BY DEF TrendForScores
<1>10. new.type = type /\ new.value = value /\ new.at = now /\ new.trend = trend
  <2> HIDE DEF trend
  <2> QED  BY <1>4
<1>11. new \in ScoreRows
  <2> HIDE DEF trend
  <2> QED  BY <1>1, <1>2, <1>3, <1>4, <1>5, <1>8 DEF ScoreRows
<1> HIDE DEF trend
<1>12. ASSUME new.trend = "improving"
       PROVE  \E row \in Committed :
                /\ row.type = new.type /\ ScopeOf(row) = runs[i].scope /\ row.at < new.at
                /\ row.value + 3 <= new.value
  <2>1. old \in previous /\ value - old.value >= 3
    BY <1>7, <1>9, <1>10, <1>12
  <2>2. old.value + 3 <= value
    BY <1>3, <1>6, <2>1
  <2> QED  BY <1>6, <1>10, <2>1, <2>2
<1>13. new.value = ScoreOf(new.type, runs[i].counted)
  BY <1>10 DEF value
<1> QED  BY <1>11, <1>12, <1>13

LEMMA PersistKeepsRows ==
  ASSUME CalcInv, ScoreInv, NEW i \in DOMAIN runs, PersistScore(i)
  PROVE  RowsScored' /\ RowsRose'
<1> SUFFICES ASSUME NEW new, new = NewRow(i) PROVE RowsScored' /\ RowsRose'
  OBVIOUS
<1>1. /\ rows' = rows \cup {new} /\ new.run = i
      /\ \A j \in DOMAIN runs : runs'[j].phase = runs[j].phase /\ runs'[j].scope = runs[j].scope
  BY PersistEffect
<1>2. \A j \in DOMAIN runs : runs'[j].counted = runs[j].counted
  BY OthersContinue DEF Continued
<1>3. /\ new \in ScoreRows /\ new.value = ScoreOf(new.type, runs[i].counted)
      /\ new.trend = "improving" =>
           \E old \in Committed :
             /\ old.type = new.type /\ ScopeOf(old) = runs[i].scope /\ old.at < new.at
             /\ old.value + 3 <= new.value
  BY NewRowIsScored
<1>4. \A row \in rows : row.run \in DOMAIN runs
  BY DEF CalcInv, RowsKnown
<1>5. RowsScored'
  BY <1>1, <1>2, <1>3, <1>4 DEF ScoreInv, RowsScored
<1>6. \A row \in rows \cup {new} : ScopeOf(row)' = ScopeOf(row)
  BY <1>1, <1>4 DEF ScopeOf
<1>7. Committed \subseteq Committed' /\ Committed \subseteq rows
  BY <1>1, <1>4 DEF Committed
<1>8. ScopeOf(new) = runs[i].scope
  BY <1>1 DEF ScopeOf
<1>9. RowsRose'
  <2> SUFFICES ASSUME NEW row \in rows', row.trend = "improving"
               PROVE  \E old \in Committed' :
                        /\ old.type = row.type /\ ScopeOf(old)' = ScopeOf(row)' /\ old.at < row.at
                        /\ old.value + 3 <= row.value
    BY DEF RowsRose
  <2>1. PICK old \in Committed :
          /\ old.type = row.type /\ ScopeOf(old) = ScopeOf(row) /\ old.at < row.at
          /\ old.value + 3 <= row.value
    BY <1>1, <1>3, <1>8 DEF ScoreInv, RowsRose
  <2> QED  BY <1>1, <1>6, <1>7, <2>1
<1> QED  BY <1>5, <1>9

LEMMA OthersKeepRows ==
  ASSUME CalcInv, ScoreInv,
         \/ \E r \in Resources : Scan(r)
         \/ \E r \in Resources, type \in FindingTypes : Decide(r, type)
         \/ FindingsRun
         \/ \E i \in DOMAIN runs : Commit(i) \/ Fail(i)
         \/ UNCHANGED vars
  PROVE  RowsScored' /\ RowsRose'
<1>1. Continued
  BY OthersContinue
<1>2. CASE \E i \in DOMAIN runs : Fail(i)
  <2>1. PICK i \in DOMAIN runs : Fail(i)
    BY <1>2
  <2>2. rows' = {row \in rows : row.run # i} /\ runs[i].phase = "running"
    BY <2>1 DEF Fail, RowsOf, Running
  <2> QED  BY <1>1, <2>2, RowsStay DEF Continued
<1>3. CASE rows' = rows
  BY <1>1, <1>3, RowsStay DEF Continued
<1>4. (\E i \in DOMAIN runs : Fail(i)) \/ rows' = rows
  BY DEF Scan, Decide, FindingsRun, Commit, vars
<1> QED  BY <1>2, <1>3, <1>4

LEMMA InitScores ==
  ASSUME Init
  PROVE  ScoreInv
<1>1. /\ resource \in [Resources -> UNION {RowsFor(r) : r \in Resources}]
      /\ \A r \in Resources : resource[r] \in RowsFor(r)
      /\ finding = [r \in Resources |-> [type \in FindingTypes |-> NoFinding]]
      /\ runs = <<>> /\ rows = {} /\ scans = 0
  BY DEF Init
<1>2. \A r \in Resources : resource[r] \in ResourceRows /\ resource[r].cpu = "none"
  BY <1>1, RowsForAreReadable
<1>3. NoFinding \in Findings
  BY DEF NoFinding, Findings, SeverityDeduction
<1>4. DataKnown
  <2>1. resource \in [Resources -> ResourceRows]
    BY <1>1, <1>2
  <2>2. finding \in [Resources -> [FindingTypes -> Findings]]
    BY <1>1, <1>3
  <2> QED  BY <1>1, <1>2, <2>1, <2>2, AssessmentAssumption DEF DataKnown
<1>5. Len(runs) <= MaxRuns /\ DOMAIN runs = {}
  BY <1>1, AssessmentAssumption
<1> QED  BY <1>1, <1>4, <1>5
         DEF ScoreInv, CountedInScope, SteadyAreKept, BeforeAreMatched, RowsScored, RowsRose

LEMMA StepKeepsScores ==
  ASSUME CalcInv, ScoreInv, [Next]_vars
  PROVE  ScoreInv'
<1>1. ASSUME NEW scope \in Asked, Start(scope)  PROVE ScoreInv'
  <2>1. rows' = rows
    BY <1>1 DEF Start
  <2>2. \A i \in DOMAIN runs :
          runs'[i].scope = runs[i].scope /\ runs'[i].counted = runs[i].counted /\ runs'[i].phase = runs[i].phase
    BY <1>1, StartEffect DEF CalcInv
  <2>3. RowsScored' /\ RowsRose'
    BY <2>1, <2>2, RowsStay
  <2> QED  BY <1>1, <2>3, StartKeepsScores DEF ScoreInv
<1>2. ASSUME NEW r \in Resources, Scan(r)  PROVE ScoreInv'
  <2>1. Continued
    BY <1>2, OthersContinue
  <2> QED  BY <1>2, <2>1, ScanKeepsScores, CountedStay, OthersKeepRows DEF ScoreInv
<1>3. ASSUME NEW r \in Resources, NEW type \in FindingTypes, Decide(r, type)  PROVE ScoreInv'
  <2>1. Continued
    BY <1>3, OthersContinue
  <2> QED  BY <1>3, <2>1, DecideKeepsScores, CountedStay, OthersKeepRows DEF ScoreInv
<1>4. CASE FindingsRun
  <2>1. Continued
    BY <1>4, OthersContinue
  <2> QED  BY <1>4, <2>1, FindingsRunKeepsScores, CountedStay, OthersKeepRows DEF ScoreInv
<1>5. ASSUME Continued, resource' = resource, finding' = finding, scans' = scans, RowsScored', RowsRose'
      PROVE  ScoreInv'
  <2>1. DataKnown'
    BY <1>5 DEF ScoreInv, DataKnown
  <2> QED  BY <1>5, <2>1, SameStayKept, CountedStay DEF ScoreInv
<1>6. ASSUME NEW i \in DOMAIN runs, PersistScore(i)  PROVE ScoreInv'
  <2>1. Continued /\ RowsScored' /\ RowsRose'
    BY <1>6, OthersContinue, PersistKeepsRows
  <2> QED  BY <1>5, <1>6, <2>1 DEF PersistScore
<1>7. ASSUME NEW i \in DOMAIN runs, Commit(i)  PROVE ScoreInv'
  <2>1. Continued /\ RowsScored' /\ RowsRose'
    BY <1>7, OthersContinue, OthersKeepRows
  <2> QED  BY <1>5, <1>7, <2>1 DEF Commit
<1>8. ASSUME NEW i \in DOMAIN runs, Fail(i)  PROVE ScoreInv'
  <2>1. Continued /\ RowsScored' /\ RowsRose'
    BY <1>8, OthersContinue, OthersKeepRows
  <2> QED  BY <1>5, <1>8, <2>1 DEF Fail
<1>9. CASE UNCHANGED vars
  <2>1. Continued /\ RowsScored' /\ RowsRose'
    BY <1>9, OthersContinue, OthersKeepRows
  <2> QED  BY <1>5, <1>9, <2>1 DEF vars
<1> QED  BY <1>1, <1>2, <1>3, <1>4, <1>6, <1>7, <1>8, <1>9 DEF Next

\* Whatever is scanned, decided and calculated meanwhile, the findings that calculations
\* have counted relate to those there are, and to those that others have counted.
THEOREM ScoreInvariant == Spec => []ScoreInv
<1>1. CalcInv /\ ScoreInv /\ [Next]_vars => ScoreInv'
  BY StepKeepsScores
<1> QED  BY <1>1, InitScores, CalcInvariant, PTL DEF Spec

-----------------------------------------------------------------------------

\* TypeOK, for any resources, descriptions of them, scopes and bounds.
THEOREM TypeCorrect == Spec => []TypeOK
<1>1. ASSUME CalcInv, ScoreInv  PROVE TypeOK
  <2>1. /\ runs \in Seq(SomeRuns) /\ now \in Nat /\ DOMAIN runs = 1..Len(runs) /\ Len(runs) \in Nat
        /\ Len(runs) <= MaxRuns
    BY <1>1 DEF CalcInv, RunsKnown, ScoreInv
  <2>2. ASSUME NEW j \in DOMAIN runs  PROVE runs[j] \in Runs
    <3>1. runs[j] \in SomeRuns
      BY <2>1
    <3>2. runs[j].before \subseteq 1..MaxRuns
      BY <1>1, <2>1, AssessmentAssumption DEF ScoreInv, BeforeAreMatched
    <3> QED  BY <3>1, <3>2 DEF SomeRuns, Runs
  <2>3. runs \in [1..Len(runs) -> Runs]
    BY <2>1, <2>2
  <2>4. runs \in Seq(Runs)
    BY <2>1, <2>3
  <2> QED  BY <1>1, <2>1, <2>4 DEF TypeOK, ScoreInv, DataKnown, RowsScored
<1> QED  BY <1>1, CalcInvariant, ScoreInvariant, PTL

\* DecayShows, for any resources, descriptions of them, rounding of the mean, scopes and
\* number of calculations.  (scoring/formulas.py, findings/rules.py)
THEOREM DecayShown == Spec => []DecayShows
<1>1. ASSUME CalcInv, ScoreInv  PROVE DecayShows
  <2> SUFFICES ASSUME NEW new \in rows, NEW old \in rows, new.type = old.type,
                      old.run \in runs[new.run].before, Within(ScopeOf(old), ScopeOf(new))
               PROVE  new.value <= old.value
    BY DEF DecayShows
  <2>1. new.run \in DOMAIN runs /\ old.run \in DOMAIN runs
    BY <1>1 DEF CalcInv, RowsKnown
  <2>2. Matched(runs[old.run].counted, runs[new.run].counted)
    BY <1>1, <2>1 DEF ScoreInv, BeforeAreMatched, ScopeOf
  <2>3. OnePerRule(runs[old.run].counted)
    BY <1>1, <2>1 DEF ScoreInv, CountedInScope
  <2>4. /\ new.value = ScoreOf(new.type, runs[new.run].counted)
        /\ old.value = ScoreOf(new.type, runs[old.run].counted)
        /\ new.type \in Domains \cup {"overall"}
    BY <1>1 DEF ScoreInv, RowsScored, ScoreRows
  <2>5. runs[old.run].counted \in SUBSET Counted /\ runs[new.run].counted \in SUBSET Counted
    BY <1>1, <2>1, CountedAreFindings
  <2> QED  BY <2>2, <2>3, <2>4, <2>5, ScoreIsMonotone
<1> QED  BY <1>1, CalcInvariant, ScoreInvariant, PTL

\* ImprovementIsEarned, for any resources, scopes and number of calculations: had all that
\* the earlier one counted been counted again, for no less, the score would not have risen.
\* (scoring/engine.py:146)
THEOREM ImprovementEarned == Spec => []ImprovementIsEarned
<1>1. ASSUME CalcInv, ScoreInv  PROVE ImprovementIsEarned
  <2> SUFFICES ASSUME NEW new \in Committed, new.trend = "improving"
               PROVE  \E old \in Committed :
                        /\ old.type = new.type /\ ScopeOf(old) = ScopeOf(new) /\ old.at < new.at
                        /\ \E f \in runs[old.run].counted :
                             \A g \in runs[new.run].counted :
                               g.resource = f.resource /\ g.type = f.type =>
                                 SeverityDeduction[g.severity] < SeverityDeduction[f.severity]
    BY DEF ImprovementIsEarned
  <2>1. new \in rows
    BY DEF Committed
  <2>2. PICK old \in Committed :
          /\ old.type = new.type /\ ScopeOf(old) = ScopeOf(new) /\ old.at < new.at
          /\ old.value + 3 <= new.value
    BY <1>1, <2>1 DEF ScoreInv, RowsRose
  <2>3. old \in rows
    BY DEF Committed
  <2>4. new.run \in DOMAIN runs /\ old.run \in DOMAIN runs
    BY <1>1, <2>1, <2>3 DEF CalcInv, RowsKnown
  <2> DEFINE before == runs[old.run].counted
             after == runs[new.run].counted
  <2>5. before \in SUBSET Counted /\ after \in SUBSET Counted /\ OnePerRule(before)
    BY <1>1, <2>4, CountedAreFindings DEF ScoreInv, CountedInScope
  <2>6. /\ new.value = ScoreOf(new.type, after) /\ new.value \in 0..100
        /\ old.value = ScoreOf(new.type, before) /\ old.value \in 0..100
        /\ new.type \in Domains \cup {"overall"}
    BY <1>1, <2>1, <2>2, <2>3 DEF ScoreInv, RowsScored, ScoreRows
  <2> HIDE DEF before, after
  <2>7. ~Matched(before, after)
    <3>1. Matched(before, after) => new.value <= old.value
      BY <2>5, <2>6, ScoreIsMonotone
    <3> QED  BY <2>2, <2>6, <3>1
  <2>8. PICK f \in before : \A g \in after :
          ~(/\ g.resource = f.resource /\ g.type = f.type
            /\ SeverityDeduction[f.severity] <= SeverityDeduction[g.severity])
    BY <2>7 DEF Matched
  <2>9. \A g \in before \cup after : SeverityDeduction[g.severity] \in Nat
    BY <2>5, SeveritiesDeduct DEF Counted
  <2>10. \A g \in after : g.resource = f.resource /\ g.type = f.type =>
           SeverityDeduction[g.severity] < SeverityDeduction[f.severity]
    BY <2>8, <2>9
  <2> QED  BY <2>2, <2>10 DEF before, after
<1> QED  BY <1>1, CalcInvariant, ScoreInvariant, PTL
=============================================================================

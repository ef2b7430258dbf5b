---------------------------- MODULE MCAssessment ----------------------------
(* Instances of Assessment: a machine that decays and is repaired, a volume, a security group. *)
EXTENDS Assessment, TLC
CONSTANTS a1, a2, machine, store, group

Providing == a1 :> "aws" @@ a2 :> "oci"
Owning == machine :> a1 @@ store :> a2 @@ group :> a1

Tag(means, value) == [means |-> means, spelling |-> "long", value |-> value]

AllTags ==
  <<Tag("environment", "prod"), Tag("owner", "some"), Tag("cost_center", "some"), Tag("application", "some")>>

Machine(tags, public) ==
  [provider |-> "aws", kind |-> "instance", tags |-> tags, state |-> "running",
   public |-> public, attached |-> FALSE, anywhere |-> FALSE]

Volume(tags) ==
  [provider |-> "oci", kind |-> "volume", tags |-> tags, state |-> "available",
   public |-> FALSE, attached |-> TRUE, anywhere |-> FALSE]

Group(tags) ==
  [provider |-> "aws", kind |-> "network", tags |-> tags, state |-> "available",
   public |-> FALSE, attached |-> FALSE, anywhere |-> TRUE]

\* Whatever is described has a row that the rules can read.
SomeTags ==
  [means: {"environment", "owner"}, spelling: {"long", "short"}, value: {"", "prod", "some", "overlong"}]

SomeDescriptions ==
  [provider: Providers, kind: UNION {Collected[p] : p \in Providers},
   tags: {<<>>} \cup {<<t>> : t \in SomeTags} \cup {<<t, u>> : t, u \in SomeTags},
   state: {"available", "in-use"}, public: BOOLEAN, attached: BOOLEAN, anywhere: BOOLEAN]

ASSUME RowsAreReadable ==
  \A d \in SomeDescriptions : d.kind \in Collected[d.provider] => Normalized(d) \in ResourceRows

\* A machine that is in order and then neglected; a volume and a security group whose
\* descriptions do not change.
Describing ==
  machine :> {Machine(AllTags, FALSE), Machine(SubSeq(AllTags, 1, 2), TRUE)}
  @@ store :> {Volume(SubSeq(AllTags, 1, 3))}
  @@ group :> {Group(<<Tag("environment", "dev")>> \o SubSeq(AllTags, 2, 3))}

\* With all that can be found the weighted mean is 81.5, which is rounded to even; without
\* the machine's tags it is 84.5, and so is that.
Tying ==
  {[finops |-> 97, governance |-> 69, observability |-> 85, security_baseline |-> 70, resilience |-> 92]}

Asking == {[account |-> "all", provider |-> "all"], [account |-> a1, provider |-> "aws"]}

\* Rows are made of the findings that were loaded, so that what happens to resources
\* and findings between two rows could as well have happened before the first.
RowsAreUndisturbed ==
  rows = rows' /\ runs = [i \in DOMAIN runs |-> [runs'[i] EXCEPT !.steady = runs[i].steady]]
    => \A i \in Running : RowsOf(i) = {}

\* Times are compared between rows of one type only.
RankedRows ==
  {[row EXCEPT !.at = Cardinality({other \in rows : other.type = row.type /\ other.at < row.at})] :
     row \in rows}

RankedState == <<resource, finding, runs, RankedRows, scans>>
=============================================================================

------------------------- MODULE NormalizationProofs -------------------------
(***************************************************************************)
(* The row that a scan stores does not depend on the order in which a      *)
(* provider gives the tags, unless two of them mean the same; and whatever *)
(* a provider says, the rules can read it.                                 *)
(***************************************************************************)
EXTENDS Normalization, TLAPS

\* The search for a tag finds it where it is the only one of its meaning.
LEMMA ValueOfTheTag ==
  ASSUME NEW tags \in Seq(Tags), Unambiguous(tags), NEW i \in DOMAIN tags
  PROVE  TagValue(tags, tags[i].means) = tags[i].value
<1> DEFINE meant == {k \in DOMAIN tags : tags[k].means = tags[i].means}
           first == CHOOSE k \in meant : \A j \in meant : k <= j
           spelt == {k \in meant : tags[k].spelling = tags[first].spelling}
           last == CHOOSE k \in spelt : \A j \in spelt : j <= k
<1>1. meant = {i}
  BY DEF Unambiguous
<1>2. i \in Nat
  OBVIOUS
<1>3. first = i
  BY <1>1, <1>2
<1>4. spelt = {i}
  BY <1>1, <1>3
<1>5. last = i
  <2> HIDE DEF spelt
  <2>1. \A k \in spelt : (\A j \in spelt : j <= k) <=> k = i
    BY <1>2, <1>4
  <2> QED BY <1>4, <2>1
<1> HIDE DEF meant, first, spelt, last
<1>6. TagValue(tags, tags[i].means) = IF meant = {} THEN "" ELSE tags[last].value
  BY DEF TagValue, meant, first, spelt, last
<1> QED BY <1>1, <1>5, <1>6

\* And it finds nothing where there is none.
LEMMA NoValue ==
  ASSUME NEW tags, NEW meaning, \A i \in DOMAIN tags : tags[i].means # meaning
  PROVE  TagValue(tags, meaning) = ""
BY DEF TagValue

\* Two orders of the same tags give each meaning one value.
LEMMA ValuesAreOrderFree ==
  ASSUME NEW tags \in Seq(Tags), NEW others \in Seq(Tags), NEW meaning,
         Unambiguous(tags), Unambiguous(others), Reordered(tags, others)
  PROVE  TagValue(tags, meaning) = TagValue(others, meaning)
<1>1. CASE \E i \in DOMAIN tags : tags[i].means = meaning
  <2>1. PICK i \in DOMAIN tags : tags[i].means = meaning
    BY <1>1
  <2>2. PICK j \in DOMAIN others : others[j] = tags[i]
    <3>1. tags[i] \in {others[k] : k \in DOMAIN others}
      BY DEF Reordered
    <3> QED BY <3>1
  <2>3. TagValue(tags, meaning) = tags[i].value
    BY <2>1, ValueOfTheTag
  <2>4. TagValue(others, meaning) = others[j].value
    BY <2>1, <2>2, ValueOfTheTag
  <2> QED BY <2>2, <2>3, <2>4
<1>2. CASE \A i \in DOMAIN tags : tags[i].means # meaning
  <2>1. \A j \in DOMAIN others : others[j].means # meaning
    <3> SUFFICES ASSUME NEW j \in DOMAIN others PROVE others[j].means # meaning
      OBVIOUS
    <3>1. others[j] \in {tags[k] : k \in DOMAIN tags}
      BY DEF Reordered
    <3> QED BY <3>1, <1>2
  <2> QED BY <1>2, <2>1, NoValue
<1> QED BY <1>1, <1>2

\* A scan stores the same row in whatever order the provider gives the tags, if no two
\* of them have one meaning; with two (env and environment) the order decides, and the
\* severity of findings with it.  (normalization/service.py:196)
THEOREM RowIsOrderFree ==
  ASSUME NEW d \in Descriptions, NEW others \in Seq(Tags),
         Unambiguous(d.tags), Unambiguous(others), Reordered(d.tags, others)
  PROVE  Normalized([d EXCEPT !.tags = others]) = Normalized(d)
<1> DEFINE e == [d EXCEPT !.tags = others]
<1>1. d.tags \in Seq(Tags)
  BY DEF Descriptions
<1>2. /\ e.provider = d.provider /\ e.kind = d.kind /\ e.state = d.state
      /\ e.public = d.public /\ e.attached = d.attached /\ e.anywhere = d.anywhere
      /\ e.tags = others
  BY DEF Descriptions
<1>3. Exposure(e) = Exposure(d) /\ Looseness(e) = Looseness(d)
  BY <1>2 DEF Exposure, Looseness, KeepsText
<1> HIDE DEF e
<1>4. \A meaning : TagValue(TagsOf(e), meaning) = TagValue(TagsOf(d), meaning)
  BY <1>1, <1>2, ValuesAreOrderFree DEF TagsOf
<1>5. Malformed(TagsOf(e)) <=> Malformed(TagsOf(d))
  BY <1>4 DEF Malformed
<1>6. Normalized(e) = Normalized(d)
  <2>1. CASE Malformed(TagsOf(d))
    BY <1>5, <2>1 DEF Normalized
  <2>2. CASE ~Malformed(TagsOf(d))
    <3>1. {t \in {"owner", "cost_center", "application"} : TagValue(TagsOf(e), t) = ""}
            = {t \in {"owner", "cost_center", "application"} : TagValue(TagsOf(d), t) = ""}
      BY <1>4
    <3>2. TagValue(TagsOf(e), "environment") = TagValue(TagsOf(d), "environment")
      BY <1>4
    <3> QED BY <1>2, <1>3, <1>5, <2>2, <3>1, <3>2 DEF Normalized
  <2> QED BY <2>1, <2>2
<1> QED BY <1>6 DEF e

\* Whatever a provider says of what its collector asks for, the row that is stored is
\* one that the rules can read, and nothing in it says that a machine is idle.
\* (normalization/service.py:40)
THEOREM RowIsReadable ==
  ASSUME NEW d \in Descriptions, d.kind \in Collected[d.provider]
  PROVE  Normalized(d) \in ResourceRows /\ Normalized(d).cpu = "none"
<1>1. d.kind \in FromAWS \cup FromOCI
  BY DEF Descriptions, Collected, Providers
<1>2. CategoryOf(d.kind) \in Kinds
  BY <1>1 DEF CategoryOf, Kinds, FromAWS, FromOCI
<1>3. Exposure(d) \subseteq {"exposure_level", "public_ip", "anywhere", "not_private"}
  BY DEF Exposure
<1>4. Looseness(d) \subseteq {"lifecycle_status", "status", "attached_to", "attachments"}
  BY DEF Looseness
<1>5. \A value : normalize_environment(value) \in {"prod", "dev", "unknown"}
  BY DEF normalize_environment
<1>6. CASE Malformed(TagsOf(d))
  BY <1>6 DEF Normalized, Unnormalized, ResourceRows, Kinds
<1>7. CASE ~Malformed(TagsOf(d))
  <2> DEFINE environment == normalize_environment(TagValue(TagsOf(d), "environment"))
             untagged == {t \in {"owner", "cost_center", "application"} : TagValue(TagsOf(d), t) = ""}
  <2>1. Normalized(d) = [kind |-> CategoryOf(d.kind), environment |-> environment, untagged |-> untagged,
                         exposure |-> Exposure(d), loose |-> Looseness(d),
                         cpu |-> "none", monitoring |-> "unsaid"]
    BY <1>7 DEF Normalized
  <2>2. environment \in {"prod", "dev", "unknown"} /\ untagged \subseteq {"owner", "cost_center", "application"}
    BY <1>5
  <2> HIDE DEF environment, untagged
  <2>3. /\ untagged \in SUBSET {"owner", "cost_center", "application"}
        /\ Exposure(d) \in SUBSET {"exposure_level", "public_ip", "anywhere", "not_private"}
        /\ Looseness(d) \in SUBSET {"lifecycle_status", "status", "attached_to", "attachments"}
    BY <1>3, <1>4, <2>2
  <2>4. Normalized(d) \in ResourceRows
    BY <1>2, <2>1, <2>2, <2>3 DEF ResourceRows
  <2>5. Normalized(d).cpu = "none"
    BY <2>1
  <2> QED  BY <2>4, <2>5
<1> QED  BY <1>6, <1>7
=============================================================================

---------------------------- MODULE Normalization ----------------------------
(***************************************************************************)
(* What a scan makes of a resource: from what a provider says of it, over  *)
(* the collector's normalizer and the normalization service, to the row    *)
(* that is upserted, reduced to what the rules of Assessment read.         *)
(***************************************************************************)
EXTENDS Naturals, Sequences

-----------------------------------------------------------------------------
(* What a provider says *)

Providers == {"aws", "oci"}

\* What each collector asks for.
FromAWS == {"instance", "volume", "bucket", "db_instance", "identity", "network", "alarm"}

FromOCI == {"instance", "volume", "network", "load_balancer", "compartment", "identity", "alarm"}

Collected == [aws |-> FromAWS, oci |-> FromOCI]

\* What the keys of tags can mean.
Meanings == {"environment", "owner", "cost_center", "application", "service_name"}

\* Keys that are equal in lower case have one spelling.  "overlong" is a value of 256
\* characters, which a tag may have and a column may not.
Tags ==
  [means: Meanings, spelling: {"long", "short", "dashed"},
   value: {"", "prod", "dev", "some", "overlong"}]

\* tags: OCI's freeform tags come first, and its defined ones of the same key are left
\* out.  public: it has a public address.  attached: it lists an attachment.
\* anywhere: its description or query names 0.0.0.0/0.
Descriptions ==
  [provider: Providers, kind: UNION {Collected[p] : p \in Providers}, tags: Seq(Tags),
   state: {"running", "available", "in-use", "other"},
   public: BOOLEAN, attached: BOOLEAN, anywhere: BOOLEAN]

-----------------------------------------------------------------------------
(* The row *)

Kinds ==
  {"compute", "block_storage", "object_storage", "database", "identity", "network",
   "load_balancer", "monitoring", "unknown"}

\* exposure: what shows that it is public ("anywhere": 0.0.0.0/0).  loose: what shows
\* that it is not attached.  cpu: utilisation, "none" if not running or not known.
ResourceRows ==
  [kind: Kinds, environment: {"prod", "dev", "unknown"},
   untagged: SUBSET {"owner", "cost_center", "application"},
   exposure: SUBSET {"exposure_level", "public_ip", "anywhere", "not_private"},
   loose: SUBSET {"lifecycle_status", "status", "attached_to", "attachments"},
   cpu: {"none", "low", "high", "unreadable"}, monitoring: {"on", "off", "unsaid"}]

CategoryOf(kind) ==
  CASE kind = "instance" -> "compute"
    [] kind = "volume" -> "block_storage"
    [] kind = "bucket" -> "object_storage"
    [] kind = "db_instance" -> "database"
    [] kind \in {"identity", "compartment"} -> "identity"
    [] kind = "alarm" -> "monitoring"
    [] OTHER -> kind

\* The normalizers of the other kinds pass no tags on.
TagsOf(d) ==
  IF \/ d.kind \in {"instance", "volume", "network", "load_balancer", "compartment"}
     \/ d.provider = "oci" /\ d.kind = "alarm"
  THEN d.tags ELSE <<>>

\* The first key that has the meaning decides; of keys that are equal in lower case the
\* last one does.
TagValue(tags, meaning) ==
  LET meant == {i \in DOMAIN tags : tags[i].means = meaning}
      first == CHOOSE i \in meant : \A j \in meant : i <= j
      spelt == {i \in meant : tags[i].spelling = tags[first].spelling}
      last == CHOOSE i \in spelt : \A j \in spelt : j <= i
  IN IF meant = {} THEN "" ELSE tags[last].value

normalize_environment(value) == IF value \in {"prod", "dev"} THEN value ELSE "unknown"

\* A value too long for its column fails the whole record.
Malformed(tags) == \E meaning \in Meanings \ {"environment"} : TagValue(tags, meaning) = "overlong"

\* The row of a record that could not be normalized.
Unnormalized ==
  [kind |-> "unknown", environment |-> "unknown",
   untagged |-> {"owner", "cost_center", "application"}, exposure |-> {}, loose |-> {},
   cpu |-> "none", monitoring |-> "unsaid"]

\* The kinds whose normalizer keeps a text that people write.
KeepsText(d) ==
  \/ d.provider = "aws" /\ d.kind = "network"
  \/ d.provider = "oci" /\ d.kind \in {"compartment", "identity", "alarm"}

Exposure(d) ==
  (IF d.provider = "aws" /\ d.kind = "instance" /\ d.public
   THEN {"exposure_level", "public_ip"} ELSE {})
  \cup (IF KeepsText(d) /\ d.anywhere THEN {"anywhere"} ELSE {})

\* No collector says what a volume is attached to, and OCI's volumes are
\* AVAILABLE when they are.
Looseness(d) ==
  IF d.kind # "volume" THEN {}
  ELSE {"attached_to"}
         \cup (IF d.state = "available" THEN {"lifecycle_status", "status"} ELSE {})
         \cup (IF d.provider = "aws" /\ ~d.attached THEN {"attachments"} ELSE {})

\* The row a scan stores.  Utilisation and monitoring are never collected.
Normalized(d) ==
  LET tags == TagsOf(d) IN
  IF Malformed(tags) THEN Unnormalized
  ELSE [kind |-> CategoryOf(d.kind),
        environment |-> normalize_environment(TagValue(tags, "environment")),
        untagged |-> {t \in {"owner", "cost_center", "application"} : TagValue(tags, t) = ""},
        exposure |-> Exposure(d), loose |-> Looseness(d),
        cpu |-> "none", monitoring |-> "unsaid"]

-----------------------------------------------------------------------------
(* Providers give tags in any order *)

\* No two tags have one meaning.
Unambiguous(tags) == \A i, j \in DOMAIN tags : tags[i].means = tags[j].means => i = j

Reordered(tags, others) == {tags[i] : i \in DOMAIN tags} = {others[i] : i \in DOMAIN others}
=============================================================================

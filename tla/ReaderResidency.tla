-------------------------- MODULE ReaderResidency --------------------------
(***************************************************************************)
(* What a conforming reader says of the cache facts themselves: the        *)
(* verdict families audit, insertions, recompute, first_insertion,         *)
(* residual_zero, parent_conflicts, tag_slices and attribution.  As in     *)
(* ReaderContinuity the rules are modelled from the expected verdicts of   *)
(* tools/gen-reader-corpus.py and the reasons stated beside them.          *)
(*                                                                         *)
(* Every join here is on the engine clock and within one holder; the only  *)
(* crossing of clocks or hosts is widened by the skew allowance.           *)
(***************************************************************************)
EXTENDS ReaderContinuity

CONSTANT Allowance   \* the reader's skew allowance, in time units

ASSUME AllowanceAssumption == Allowance \in Nat

\* A record at its place in the stream: equal records at two places are two.
Places(S) == UNION {{<<s, k>> : k \in DOMAIN s.records} : s \in S}
At(p) == p[1].records[p[2]]
PlacesOf(S, kind) == {p \in Places(S) : At(p).kind = kind}
Stores(S) == PlacesOf(S, "store")

Content(x) == IF "content_id" \in DOMAIN x THEN x.content_id ELSE "none"
Identified(S) == {p \in Stores(S) : Content(At(p)) # "none"}

\* The holder an engine-space block id is scoped to, with the id.
Entry(x) == <<x.instance_id, x.dp_rank, x.group_idx, x.block_id>>

-----------------------------------------------------------------------------
\* audit: the evict re-derivation (spec 2.3).

\* A reset of the store's holder lies between it and the later instant: ids
\* are comparable only within one engine process.
ResetBetween(S, x, at) ==
  \E z \in OfKind(RecordsIn(S), "holder_reset") :
    /\ z.instance_id = x.instance_id /\ z.dp_rank = x.dp_rank
    /\ x.at_ms < z.boundary_ms /\ z.boundary_ms <= at

\* The strictly prior stores an evict may be graded against.
Priors(S, e) ==
  {p \in Stores(S) : /\ Entry(At(p)) = Entry(At(e))
                     /\ At(p).at_ms < At(e).at_ms
                     /\ ~ResetBetween(S, At(p), At(e).at_ms)}

Latest(P) == CHOOSE p \in P : \A q \in P : At(q).at_ms <= At(p).at_ms

Grade(S, e) ==
  LET prior == Latest(Priors(S, e))
      promised == Content(At(prior))
      claimed == Content(At(e))
  IN CASE Priors(S, e) = {} -> "unjoined"
       [] Priors(S, e) # {} /\ claimed = promised -> "agreed"
       [] Priors(S, e) # {} /\ claimed # promised /\ "none" \notin {claimed, promised}
            -> "mismatched"
       [] Priors(S, e) # {} /\ claimed = "none" /\ promised # "none"
            -> IF prior[1].incarnation = e[1].incarnation
               THEN "underresolved" ELSE "indeterminate"
       [] OTHER -> "indeterminate"

\* How many of an instance's evicts land in a class.
Audit(S, i, class) ==
  Cardinality({e \in PlacesOf(S, "evict") :
                 At(e).instance_id = i /\ Grade(S, e) = class})

-----------------------------------------------------------------------------
\* insertions, recompute, first_insertion (spec 5.9).

\* What a run says a store means.  Silence and a value this version does not
\* define both read as "unlabelled".
ReuseOf(S, r) ==
  LET said == {x.reuse_reporting : x \in
                 {y \in Envelopes(RecordsOf(S, r)) : "reuse_reporting" \in DOMAIN y}}
  IN IF said # {} /\ said \subseteq {"none", "labelled"} THEN said
     ELSE {"unlabelled"}

\* A window takes the weakest declaration it contains.
CountableInsertions(S) ==
  \A r \in Incarnations(S) : "unlabelled" \notin ReuseOf(S, r)

Fresh(S) == {p \in Stores(S) : "reused" \notin DOMAIN At(p)}

Earlier(S, p) == {q \in Places(S) : /\ At(q).kind \in {"store", "evict"}
                                    /\ Entry(At(q)) = Entry(At(p))
                                    /\ At(q).at_ms < At(p).at_ms}

\* A store that follows an observed close reopens a residency, so it cannot be
\* a reuse announcement, whatever the declaration.
Recomputed(S) ==
  {p \in Stores(S) :
     Earlier(S, p) # {} /\ At(Latest(Earlier(S, p))).kind = "evict"}

FirstInserted(S) == {p \in Fresh(S) : Earlier(S, p) = {}}

-----------------------------------------------------------------------------
\* residual_zero: the qualified zero (spec 5.7, 2.6, 3.4).

Holders(S) == {At(p).instance_id : p \in Stores(S)}
Canaries(S) == {x.canary : x \in {y \in Envelopes(RecordsIn(S)) : "canary" \in DOMAIN y}}

\* The evictions that close the residency a store opens.
Closings(S, p) == {At(e).at_ms : e \in {q \in PlacesOf(S, "evict") :
                                          /\ Entry(At(q)) = Entry(At(p))
                                          /\ At(q).at_ms > At(p).at_ms}}
ResidentAt(S, p, t) == At(p).at_ms <= t /\ \A c \in Closings(S, p) : t < c

\* Two residencies on two hosts coincide only beyond the allowance.
Coincide(S, p, q) ==
  /\ At(p).instance_id # At(q).instance_id
  /\ Content(At(p)) = Content(At(q))
  /\ At(q).at_ms >= At(p).at_ms
  /\ ResidentAt(S, p, At(q).at_ms + Allowance)
  /\ ResidentAt(S, q, At(q).at_ms + Allowance)

ResidualZero(S) ==
  IF \E p, q \in Identified(S) : Coincide(S, p, q) THEN "positive"
  ELSE IF Cardinality(Holders(S)) < 2 THEN "single_holder"
  ELSE IF Cardinality(Canaries(S)) > 1 THEN "split_key_space"
  ELSE IF Identified(S) = {} THEN "not_comparable"
  ELSE "measured"

-----------------------------------------------------------------------------
\* parent_conflicts (spec 3.1).

\* The identities of the blocks a record may mean by its parent.
ParentIdentities(S, x) ==
  {Content(At(p)) : p \in {q \in Identified(S) :
     /\ At(q).instance_id = x.instance_id /\ At(q).dp_rank = x.dp_rank
     /\ At(q).group_idx = x.group_idx /\ At(q).block_id = x.parent_id}}

ParentClaims(S, content) ==
  UNION {ParentIdentities(S, At(p)) :
           p \in {q \in Identified(S) : /\ Content(At(q)) = content
                                        /\ "parent_id" \in DOMAIN At(q)}}

ParentConflicts(S) ==
  {c \in {Content(At(p)) : p \in Identified(S)} :
     Cardinality(ParentClaims(S, c)) > 1}

-----------------------------------------------------------------------------
\* tag_slices (spec 2.8).

Statements(S) == PlacesOf(S, "tag_interval")

\* The latest statement of a declaration is its interval, never a merge.
Declared(S) ==
  {At(p) : p \in {d \in Statements(S) :
     \A q \in Statements(S) :
       At(q).declaration_id = At(d).declaration_id => At(q).at_ms <= At(d).at_ms}}

\* An open interval runs to the knowledge horizon.
Until(S, d) == IF "until_ms" \in DOMAIN d THEN d.until_ms
               ELSE Horizon(S)

Inside(S, d, t) == d.from_ms <= t - Allowance /\ t + Allowance <= Until(S, d)
Outside(S, d, t) ==
  \/ t + Allowance < d.from_ms
  \/ "until_ms" \in DOMAIN d /\ Until(S, d) < t - Allowance

Tagged(S, tag) == {d \in Declared(S) : d.tag = tag}

Slice(S, tag) ==
  {p \in Stores(S) : \E d \in Tagged(S, tag) :
     Content(At(p)) = d.identity /\ Inside(S, d, At(p).at_ms)}

Ambiguous(S, tag) ==
  {p \in Stores(S) \ Slice(S, tag) : \E d \in Tagged(S, tag) :
     Content(At(p)) = d.identity /\ ~Outside(S, d, At(p).at_ms)}

-----------------------------------------------------------------------------
\* attribution: what a header declares for every record of its segment
\* (spec 2.2, 2.7).

\* attributed() in gen-reader-corpus.py: the header keys it names; every other
\* key is provenance.  `records` is this model's own field.
Named == {"at_ms", "incarnation", "segment_seq", "records", "workload_class"}

Attribution(s) ==
  [ provenance |-> Restrict(s, DOMAIN s \ Named),
    workload_class |-> IF "workload_class" \in DOMAIN s
                       THEN s.workload_class ELSE "none" ]
=============================================================================

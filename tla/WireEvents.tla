------------------------------ MODULE WireEvents ------------------------------
(***************************************************************************)
(* From an engine's message to telemetry records: what a faithful decoder  *)
(* derives from a vLLM batch (tools/gen-vllm-wire-corpus.py, derive) and   *)
(* from an SGLang one (tools/gen-sglang-wire-corpus.py, derive), and the   *)
(* record a faithful transducer emits for each derived event               *)
(* (tools/gen-telemetry-corpus.py, record).                                *)
(*                                                                         *)
(* A map of the wire is a record that has only the fields the map carries  *)
(* with a value.  An optional value that must not be left out, such as the *)
(* extra keys that enter a content identity, is a sequence of none or one. *)
(***************************************************************************)
EXTENDS Maps, Integers, Sequences, SequencesExt, Functions

CONSTANT HashSpace   \* how many block hashes there are: 2^64

\* Enough to tell a few blocks apart.
ASSUME HashAssumption == HashSpace \in Nat \ 0 .. 3

Carries(e, f) == f \in DOMAIN e
Only(e, fields) == Restrict(e, fields \cap DOMAIN e)
Get(e, f, default) == IF f \in DOMAIN e THEN e[f] ELSE default
Absent == <<>>
Present(v) == <<v>>
Optional(f, o) == IF o = Absent THEN <<>> ELSE Maplet(f, o[1])

-----------------------------------------------------------------------------
\* Content identity: a hash taken to be injective in its three inputs.
CONTENT_ROOT == <<>>
content_chain(parent, tokens, extra_keys) == Append(parent, <<tokens, extra_keys>>)

\* A run spans exactly its hashes' tokens, unless the engine skipped a block.
Contiguous(ev) == Len(ev.token_ids) = Len(ev.block_hashes) * ev.block_size
Rooted(ev) == ~Carries(ev, "parent_block_hash")
Page(ev, i) == SubSeq(ev.token_ids, (i - 1) * ev.block_size + 1, i * ev.block_size)

\* Mutant: a run below a named parent is seeded from the root as well.
Chained_FromAnyParent(ev) == Contiguous(ev)

\* Whether the chain can be followed: from the fixed root, over honest links.
Chained(ev) == Contiguous(ev) /\ Rooted(ev)

\* The identity of each block of a run, given each block's extra keys.
Chain(ev, extra) ==
  LET id[i \in 0 .. Len(ev.block_hashes)] ==
        IF i = 0 THEN CONTENT_ROOT
        ELSE content_chain(id[i - 1], Page(ev, i), extra[i])
  IN id

\* What a block says of its parent: unknown, named, or a root by absence.
Link(ev, i) ==
  CASE ~Contiguous(ev) -> [parent_unknown |-> TRUE]
    [] Contiguous(ev) /\ i > 1 -> [parent_hash |-> ev.block_hashes[i - 1]]
    [] Contiguous(ev) /\ i = 1 /\ ~Rooted(ev) -> [parent_hash |-> ev.parent_block_hash]
    [] OTHER -> <<>>

\* One event per block of a stored run.
StoredRun(ev, extra, usable) ==
  [i \in DOMAIN ev.block_hashes |->
     [type |-> "Stored", block_hash |-> ev.block_hashes[i],
      block_size |-> ev.block_size]
     ++ Link(ev, i)
     ++ Optional("extra_keys", extra[i])
     ++ (IF usable /\ Chained(ev)
         THEN [content_id |-> Chain(ev, extra)[i]] ELSE <<>>)]

RemovedRun(ev) ==
  [i \in DOMAIN ev.block_hashes |->
     [type |-> "Removed", block_hash |-> ev.block_hashes[i]]]

\* The fields every event derived from one wire event shares.
Under(common, events) == [i \in DOMAIN events |-> common ++ events[i]]

\* A batch that declares no rank comes from a single-worker engine, rank zero.
RankOf(batch) == Get(batch, "dp_rank", 0)
at_ms(batch) == batch.ts * 1000

-----------------------------------------------------------------------------
\* vLLM.  The extra keys of a block are those at its place in the list, which
\* may be shorter than the run.
VllmExtra(ev) ==
  LET xk == Get(ev, "extra_keys", <<>>)
  IN [i \in DOMAIN ev.block_hashes |-> IF i \in DOMAIN xk THEN xk[i] ELSE Absent]

\* Mutant: a clear's rank defaults to zero, as a block event's does.
VllmCleared_ZeroRank(batch, ev) ==
  [type |-> "Cleared", at_ms |-> at_ms(batch), dp_rank |-> RankOf(batch)]
  ++ Only(ev, {"group_idx", "medium"})

\* A clear is scoped as it declares itself: what it leaves out is not zero.
VllmCleared(batch, ev) ==
  [type |-> "Cleared", at_ms |-> at_ms(batch)]
  ++ Only(batch, {"dp_rank"}) ++ Only(ev, {"group_idx", "medium"})

VllmEvents(batch, ev) ==
  LET common == [at_ms |-> at_ms(batch), dp_rank |-> RankOf(batch),
                 group_idx |-> Get(ev, "group_idx", 0)]
                ++ Only(ev, {"medium", "locality"})
  IN CASE ev.type = "BlockStored" ->
            Under(common ++ Only(ev, {"lora_id", "lora_name"}),
                  StoredRun(ev, VllmExtra(ev), TRUE))
       [] ev.type = "BlockRemoved" -> Under(common, RemovedRun(ev))
       [] ev.type = "AllBlocksCleared" -> <<VllmCleared(batch, ev)>>
       [] OTHER -> <<>>

-----------------------------------------------------------------------------
\* Mutant: the number is taken as it arrives.
unsigned_Signed(h) == h

\* SGLang.  A hash arrives as a signed number; a block's name is its bits.
unsigned(h) == h % HashSpace

\* Mutant: the parent's hash is left signed.
Unsigned_HashesOnly(ev) ==
  [f \in DOMAIN ev |->
     IF f = "block_hashes"
     THEN [i \in DOMAIN ev.block_hashes |-> unsigned(ev.block_hashes[i])] ELSE ev[f]]

\* The event with every hash it carries read unsigned.
Unsigned(ev) ==
  [f \in DOMAIN ev |->
     CASE f = "block_hashes" -> [i \in DOMAIN ev.block_hashes |->
                                   unsigned(ev.block_hashes[i])]
       [] f = "parent_block_hash" -> unsigned(ev.parent_block_hash)
       [] OTHER -> ev[f]]

\* An empty salt is no salt.
salt_of(ev) == IF Get(ev, "cache_salt", "") = "" THEN Absent
               ELSE Present(<<ev.cache_salt>>)

\* The salt enters the chain once, at the first block of a rooted run.
SglangExtra(ev) ==
  [i \in DOMAIN ev.block_hashes |->
     IF i = 1 /\ Rooted(ev) THEN salt_of(ev) ELSE Absent]

\* A bigram key exposes pairs, which are not token ids.  A negative number
\* stands for one here; ids of more than 32 bits are left out.
token_ids_usable(token_ids) == \A i \in DOMAIN token_ids : token_ids[i] >= 0

SglangEvents(batch, ev) ==
  LET common == [at_ms |-> at_ms(batch), dp_rank |-> RankOf(batch), group_idx |-> 0]
                ++ Only(ev, {"medium"})
      run == Unsigned(ev)
  IN CASE ev.type = "BlockStored" ->
            Under(common ++ Only(ev, {"lora_id"}),
                  StoredRun(run, SglangExtra(run), token_ids_usable(run.token_ids)))
       [] ev.type = "BlockRemoved" -> Under(common, RemovedRun(run))
       [] ev.type = "AllBlocksCleared" ->
            <<[type |-> "Cleared", at_ms |-> at_ms(batch)] ++ Only(batch, {"dp_rank"})>>
       [] OTHER -> <<>>

\* The events a decoder must produce for a batch; unknown kinds give none.
derive(engine, batch) ==
  FlattenSeq([i \in DOMAIN batch.events |->
                IF engine = "vllm" THEN VllmEvents(batch, batch.events[i])
                ELSE SglangEvents(batch, batch.events[i])])
=============================================================================

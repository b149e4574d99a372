----------------------------- MODULE Transduction -----------------------------
(***************************************************************************)
(* Two engines of the kinds the wire corpora cover, their messages, the    *)
(* producer that transduces them, and a reader of the records.             *)
(*                                                                         *)
(* The engines and their caches are not in this repository: an engine does *)
(* what the generators' comments say its events mean.  A block is known to *)
(* this model by its text, the tokens and extra keys from the root of its  *)
(* chain to itself; its engine knows it by a hash that one process makes   *)
(* injective and the next makes differently.  The producer is derive of    *)
(* the wire corpora followed by record of the telemetry corpus, with a     *)
(* reset where the publisher's sequence regresses.  Transport may lose a   *)
(* message.  The reader keeps what it was told is resident.                *)
(*                                                                         *)
(* RecordRoundTrip's program, which reads and writes documents of any kind *)
(* with the same record model, is part of the system but shares nothing    *)
(* with the engines: it runs where they have done nothing, and they where  *)
(* it has not.                                                             *)
(***************************************************************************)
EXTENDS Telemetry, RecordRoundTrip, FiniteSets

CONSTANTS
  MaxMessages,   \* bound: messages the engines publish
  MaxLost,       \* bound: messages lost on the way to the producer
  MaxBoots       \* bound: processes each engine runs as, one after another

\* A message's sequence number is an integer of the signed width, and so is its
\* clock, which a double holds.
ASSUME BoundAssumption ==
  /\ {MaxMessages, MaxLost, MaxBoots} \subseteq Nat
  /\ MaxMessages * 1000 + 60000 <= Mantissa

Engines == {"vllm", "sglang"}
BlockSize == 2

\* The texts an engine may cache, as a tree of blocks: two that begin a chain,
\* the second salted, and a block after either.  On vLLM the block after the
\* first has keys of its own (an image, say).  SGLang also has a bigram page.
A == <<<<1, 2>>, Absent>>
Salted == <<<<1, 2>>, Present(<<"salt">>)>>
B == <<<<1, 3>>, Absent>>
Keyed == <<<<1, 3>>, Present(<<"image">>)>>
Bigram == <<<<-1, -1>>, Absent>>

Texts(e) ==
  {<<A>>, <<Salted, B>>} \cup IF e = "vllm" THEN {<<A, Keyed>>} ELSE {<<Bigram>>}

\* Where a block is held: rank, group, tier.  Group one is a sliding window.
Places(e) ==
  IF e = "vllm" THEN {<<0, 0, "GPU">>, <<1, 0, "CPU">>, <<0, 1, "GPU">>}
  ELSE {<<0, 0, "GPU">>}

VARIABLES
  boot,     \* each engine's current process
  cache,    \* each engine's blocks: <<place, text>>
  next,     \* the sequence number of each publisher's next message
  seen,     \* the last number the producer saw of each publisher; -1: none
  held,     \* what the reader takes to be resident

  \* History: what really happened, for stating the properties.
  sent,     \* messages published
  missed,   \* numbers of the current process's messages that were lost
  heard,    \* the process the producer last heard of each engine
  batch,    \* the records of the last message, each with its block's text
  named     \* every <<content_id, text>> a record has stated

engine == <<boot, cache, next>>
history == <<sent, missed, heard, batch, named>>
vars == <<engine, seen, held, history>>
program == <<document, draft>>

-----------------------------------------------------------------------------
\* The engines.

\* A process's hash of a text: injective in it, and another process's differs.
Index(e, text) ==
  CASE text = <<A>> -> 0 [] text = <<Salted>> -> 1 [] text = <<Salted, B>> -> 2
    [] OTHER -> 3
Hash(e, text) == (Index(e, text) + (HashSpace - 2) + boot[e]) % HashSpace

\* SGLang publishes the bits as a signed number.
OnWire(e, text) ==
  IF e = "sglang" /\ Hash(e, text) >= HashSpace \div 2
  THEN Hash(e, text) - HashSpace
  ELSE Hash(e, text)

Parent(text) == Front(text)
HeldAt(e, place) == {b[2] : b \in {c \in cache[e] : c[1] = place}}

\* The blocks of a text below a prefix of it.
RunOf(prefix, text) == [i \in 1 .. Len(text) - Len(prefix) |-> SubSeq(text, 1, Len(prefix) + i)]

Tokens(run) == FlattenSeq([i \in DOMAIN run |-> Last(run[i])[1]])

\* What each engine says of the keys of a run: vLLM a list parallel to the
\* hashes (or none), SGLang the salt of the request.
KeysOf(e, blocks) ==
  LET keys == [i \in DOMAIN blocks |-> Last(blocks[i])[2]]
      salt == Head(blocks[1])[2]
  IN IF e = "vllm" THEN IF \A i \in DOMAIN keys : keys[i] = Absent
                        THEN <<>> ELSE [extra_keys |-> keys]
     ELSE [cache_salt |-> IF salt = Absent THEN "" ELSE salt[1][1]]

\* A stored run names the parent of its first position and all its tokens; of
\* the blocks, those the engine did not skip.
StoreEvent(e, place, prefix, run, blocks) ==
  [type |-> "BlockStored", block_size |-> BlockSize, token_ids |-> Tokens(run),
   block_hashes |-> [i \in DOMAIN blocks |-> OnWire(e, blocks[i])], medium |-> place[3]]
  ++ KeysOf(e, blocks)
  ++ (IF prefix = <<>> THEN <<>> ELSE [parent_block_hash |-> OnWire(e, prefix)])
  ++ (IF place[2] = 0 THEN <<>> ELSE [group_idx |-> place[2]])

RemoveEvent(e, place, blocks) ==
  [type |-> "BlockRemoved", block_hashes |-> [i \in DOMAIN blocks |-> OnWire(e, blocks[i])],
   medium |-> place[3]]
  ++ (IF place[2] = 0 THEN <<>> ELSE [group_idx |-> place[2]])

\* A batch declares its rank, which the single SGLang worker leaves out.
Batch(ev, declared) == [ts |-> sent + 1, events |-> <<ev>>] ++ declared
Ranked(e, rank) == IF e = "sglang" THEN <<>> ELSE [dp_rank |-> rank]

-----------------------------------------------------------------------------
\* The producer.

\* A sequence that does not advance is a new process, whose cache is empty: a
\* reset for the whole publisher comes before the message's own records.
Regressed(e) == next[e] <= seen[e]
Reset(message) ==
  [type |-> "HolderReset", at_ms |-> at_ms(message) + 60000, boundary_ms |-> at_ms(message)]

Transduced(e, message) ==
  LET events == (IF Regressed(e) THEN <<Reset(message)>> ELSE <<>>) \o derive(e, message)
  IN [i \in DOMAIN events |-> record(e, [seq |-> next[e]] ++ events[i])]

-----------------------------------------------------------------------------
\* The reader: residency, by holder, block id and tier, of typed records.
EntryOf(x) == <<x.instance_id, x.dp_rank, x.group_idx, x.block_id, x.tier>>

\* An absent dimension of a scope covers all of it.
InScope(x, entry) ==
  /\ entry[1] = x.instance_id
  /\ "dp_rank" \in DOMAIN x => entry[2] = x.dp_rank
  /\ "group_idx" \in DOMAIN x => entry[3] = x.group_idx
  /\ "tier" \in DOMAIN x => entry[5] = x.tier

Apply(entries, x) ==
  CASE x.kind = Str("store") -> entries \cup {EntryOf(x)}
    [] x.kind = Str("evict") -> entries \ {EntryOf(x)}
    [] OTHER -> {entry \in entries : ~InScope(x, entry)}

\* A record that validation refused says nothing.
Ingest(entries, typed) ==
  IF typed = NoRecord THEN entries ELSE Apply(entries, typed.fields)

-----------------------------------------------------------------------------
Init ==
  /\ boot = [e \in Engines |-> 0] /\ cache = [e \in Engines |-> {}]
  /\ next = [e \in Engines |-> 0] /\ seen = [e \in Engines |-> -1]
  /\ held = {}
  /\ sent = 0 /\ missed = [e \in Engines |-> {}] /\ heard = [e \in Engines |-> 0]
  /\ batch = <<>> /\ named = {}
  /\ Idle

\* The records of a message, each with the text of the block it is about.
Told(records, blocks) ==
  LET own == Len(records) - Len(blocks)
  IN [i \in DOMAIN records |->
        [record |-> records[i],
         text |-> IF i > own THEN blocks[i - own] ELSE <<>>]]

NamedIn(told) ==
  {<<Field(m.record, "content_id"), m.text>> :
     m \in {t \in Range(told) : Has(t.record, "content_id")}}

\* An engine publishes a message, about these blocks, and it arrives or not.
Arrives(e, message, blocks) ==
  /\ seen' = [seen EXCEPT ![e] = next[e]]
  /\ heard' = [heard EXCEPT ![e] = boot[e]]
  /\ batch' = Told(Transduced(e, message), blocks)
  /\ \E typed \in {[i \in DOMAIN batch' |-> decode(batch'[i].record)]} :
       held' = FoldLeft(Ingest, held, typed)
  /\ named' = named \cup NamedIn(batch')
  /\ UNCHANGED missed

IsLost(e) ==
  /\ Cardinality(missed["vllm"]) + Cardinality(missed["sglang"]) < MaxLost
  /\ missed' = [missed EXCEPT ![e] = @ \cup {next[e]}]
  /\ batch' = <<>>
  /\ UNCHANGED <<seen, held, heard, named>>

Publish(e, ev, declared, blocks) ==
  /\ sent < MaxMessages
  /\ sent' = sent + 1
  /\ next' = [next EXCEPT ![e] = @ + 1]
  /\ Arrives(e, Batch(ev, declared), blocks) \/ IsLost(e)
  /\ UNCHANGED boot

\* A run is cached below a resident prefix.  A sliding window skips blocks.
Kept(place, run) ==
  {run} \cup IF place[2] = 1 /\ Len(run) > 1 THEN {<<run[i]>> : i \in DOMAIN run} ELSE {}

Stored(e, place) ==
  \E text \in Texts(e), prefix \in {<<>>} \cup HeldAt(e, place) :
    /\ IsStrictPrefix(prefix, text)
    /\ LET run == RunOf(prefix, text) IN
         \E blocks \in Kept(place, run) :
           /\ cache' = [cache EXCEPT ![e] = @ \cup {<<place, b>> : b \in Range(blocks)}]
           /\ Publish(e, StoreEvent(e, place, prefix, run, blocks),
                      Ranked(e, place[1]), blocks)

Removed(e, place) ==
  \E gone \in SUBSET HeldAt(e, place) :
    /\ gone # {}
    /\ cache' = [cache EXCEPT ![e] = @ \ {<<place, b>> : b \in gone}]
    /\ LET blocks == SetToSeq(gone)
       IN Publish(e, RemoveEvent(e, place, blocks), Ranked(e, place[1]), blocks)

\* A clear empties what the scope it declares covers: SGLang's no more than a
\* rank, vLLM's a rank, a group and a tier, each or not.
Scopes(e) ==
  IF e = "vllm" THEN {<<>>, [group_idx |-> 0], [medium |-> "GPU"]} ELSE {<<>>}

Cleared(e) ==
  \E declared \in {<<>>, [dp_rank |-> 0]}, scope \in Scopes(e) :
    LET Covers(place) ==
          /\ Carries(declared, "dp_rank") => place[1] = declared.dp_rank
          /\ Carries(scope, "group_idx") => place[2] = scope.group_idx
          /\ Carries(scope, "medium") => place[3] = scope.medium
    IN /\ cache' = [cache EXCEPT ![e] = {b \in @ : ~Covers(b[1])}]
       /\ Publish(e, [type |-> "AllBlocksCleared"] ++ scope, declared, <<>>)

\* An event of a kind the decoder does not know: counted and skipped.
Unknown(e) ==
  /\ Publish(e, [type |-> "BlocksMoved"], <<>>, <<>>)
  /\ UNCHANGED cache

\* A new process: nothing is on the wire until it publishes.
Restart(e) ==
  /\ boot[e] + 1 < MaxBoots
  /\ boot' = [boot EXCEPT ![e] = @ + 1]
  /\ cache' = [cache EXCEPT ![e] = {}]
  /\ next' = [next EXCEPT ![e] = 0]
  /\ missed' = [missed EXCEPT ![e] = {}]
  /\ batch' = <<>>
  /\ UNCHANGED <<seen, held, sent, heard, named>>

EngineStep(e) ==
  \/ \E place \in Places(e) : Stored(e, place) \/ Removed(e, place)
  \/ Cleared(e) \/ Unknown(e) \/ Restart(e)

Quiet == sent = 0 /\ \A e \in Engines : boot[e] = 0

Next ==
  \/ \E e \in Engines : EngineStep(e) /\ Idle /\ UNCHANGED program
  \/ Quiet /\ Use /\ UNCHANGED vars

Spec == Init /\ [][Next]_<<vars, program>>

-----------------------------------------------------------------------------
EntryFor(e, b) ==
  <<Str(e), Integer(b[1][1]), Integer(b[1][2]), Str(Hash(e, b[2])), Str(b[1][3])>>

TypeOK ==
  /\ \A e \in Engines :
       /\ boot[e] \in 0 .. MaxBoots /\ heard[e] \in 0 .. boot[e]
       /\ cache[e] \subseteq Places(e) \X (Texts(e) \cup {<<Salted>>})
       /\ next[e] \in 0 .. sent /\ seen[e] \in -1 .. sent
       /\ missed[e] \subseteq 0 .. next[e] - 1
  /\ sent \in 0 .. MaxMessages
  /\ \A x \in held : \E e \in Engines : \E place \in Places(e), h \in 0 .. HashSpace - 1 :
       x = <<Str(e), Integer(place[1]), Integer(place[2]), Str(h), Str(place[3])>>

(***************************************************************************)
(* Of an engine whose current process was heard and lost no message, the   *)
(* reader holds exactly what the engine holds: no block of an earlier      *)
(* process under a hash that now means another, none left behind by a      *)
(* clear that declared less than a full scope, none under a signed name    *)
(* that its eviction does not use.                                         *)
(***************************************************************************)
ResidencyIsExact ==
  \A e \in Engines :
    missed[e] = {} /\ heard[e] = boot[e] =>
      {x \in held : x[1] = Str(e)} = {EntryFor(e, b) : b \in cache[e]}

(***************************************************************************)
(* A parent a record names is the block's parent, and a record that names  *)
(* none and does not say it is unknown is of a block that begins a chain:  *)
(* also where the engine skipped blocks of the run or signed the hash.     *)
(***************************************************************************)
ParentIsTrue(v, text) ==
  IF Has(v, "parent_id")
  THEN Len(text) > 1
       /\ Field(v, "parent_id") = Str(Hash(Body(Field(v, "instance_id")), Parent(text)))
  ELSE Has(v, "parent_unknown") \/ Len(text) = 1

ParentsAreTrue ==
  \A m \in Range(batch) :
    Field(m.record, "kind") = Str("store") => ParentIsTrue(m.record, m.text)

(***************************************************************************)
(* A content identity is the content's: two stores, of any engines and     *)
(* processes, state the same one exactly when their texts are the same,    *)
(* tokens and keys from the root on.                                       *)
(***************************************************************************)
IdentityIsContent ==
  \A x, y \in named : x[1] = y[1] <=> x[2] = y[2]

\* The forms a record may take on its way: with its integers written as floats
\* and a field of a later version, that relayed by a program that decoded it,
\* and a row of the columnar form.
AsFloat(x) ==
  IF Tag(x) = "integer" /\ IsDouble(Halves(x)) THEN Float(Halves(x)) ELSE x
Rewritten(v) ==
  Obj(Maplet("note", Str("later")) ++ [f \in DOMAIN Body(v) |-> AsFloat(Field(v, f))])
FormsOf(v) ==
  {Rewritten(v), to_value(decode(Rewritten(v))), FromRow(Row(v))}

(***************************************************************************)
(* Whatever the engines published, every record of it is one a producer    *)
(* may write and the twin generator can encode, and reads the same in      *)
(* every form it may take: no engine state leads to a record validation    *)
(* refuses, or a value its column cannot hold.                             *)
(***************************************************************************)
EveryFormIsTheRecord ==
  \A m \in Range(batch) :
    /\ Columnar(m.record)
    /\ LET there == decode(m.record)
       IN \A form \in FormsOf(m.record) :
            LET here == decode(form)
            IN here # NoRecord /\ here.fields = there.fields
=============================================================================

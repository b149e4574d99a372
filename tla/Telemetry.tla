------------------------------- MODULE Telemetry -------------------------------
(***************************************************************************)
(* The record a faithful transducer emits for one derived event:           *)
(* tools/gen-telemetry-corpus.py, record.  The result is a JSON object;    *)
(* an identity is a string on the wire, whatever number it is.             *)
(***************************************************************************)
EXTENDS WireEvents, WireModel

\* The field of an event, as a field of this name of the record, if it has it.
As(f, ev, name, Value(_)) == IF Carries(ev, f) THEN Maplet(name, Value(ev[f])) ELSE <<>>
Same(f, ev, Value(_)) == As(f, ev, f, Value)

Millis(n) == Float(2 * n)
Strings(list) == Arr([i \in DOMAIN list |-> Str(list[i])])

\* A clear or a reset claims the scope it declares and no more; a block event
\* always has both dimensions, zero when left out.
ScopeOf(ev) ==
  IF ev.type \in {"Cleared", "HolderReset"}
  THEN Same("dp_rank", ev, Integer) ++ Same("group_idx", ev, Integer)
  ELSE [dp_rank |-> Integer(Get(ev, "dp_rank", 0)), group_idx |-> Integer(Get(ev, "group_idx", 0))]

\* A block's unknown tier is null, where a clear's absent tier is its scope.
TierOf(ev) == IF Carries(ev, "medium") THEN Str(ev.medium) ELSE Null

\* Mutant: a parent of a broken run is named and said to be unknown.
ParentOf_Both(ev) ==
  (IF Get(ev, "parent_unknown", FALSE) THEN [parent_unknown |-> Bool(TRUE)] ELSE <<>>)
  ++ [parent_id |-> Str(Get(ev, "parent_hash", 0))]

\* Three states kept three: unknown, named, or a root by absence.
ParentOf(ev) ==
  IF Get(ev, "parent_unknown", FALSE) THEN [parent_unknown |-> Bool(TRUE)]
  ELSE As("parent_hash", ev, "parent_id", Str)

StoreFields(ev) ==
  [kind |-> Str("store"), block_id |-> Str(ev.block_hash),
   n_tokens |-> Integer(ev.block_size), tier |-> TierOf(ev)]
  ++ ParentOf(ev) ++ Same("extra_keys", ev, Strings) ++ Same("lora_id", ev, Integer)
  ++ Same("lora_name", ev, Str) ++ Same("locality", ev, Str)
  ++ Same("content_id", ev, Str)

EvictFields(ev) ==
  [kind |-> Str("evict"), block_id |-> Str(ev.block_hash), tier |-> TierOf(ev)]
  ++ Same("locality", ev, Str) ++ Same("content_id", ev, Str)

ResetFields(ev) == [kind |-> Str("holder_reset"), boundary_ms |-> Millis(ev.boundary_ms)]

ClearFields(ev) == [kind |-> Str("clear"), scope |-> Str("all")]
                   ++ As("medium", ev, "tier", Str)

record(source, ev) ==
  Obj([instance_id |-> Str(source), at_ms |-> Millis(ev.at_ms)]
      ++ ScopeOf(ev) ++ Same("seq", ev, Integer)
      ++ CASE ev.type = "Stored" -> StoreFields(ev)
           [] ev.type = "Removed" -> EvictFields(ev)
           [] ev.type = "HolderReset" -> ResetFields(ev)
           [] ev.type = "Cleared" -> ClearFields(ev))
=============================================================================

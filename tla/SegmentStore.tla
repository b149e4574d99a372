---------------------------- MODULE SegmentStore ----------------------------
(***************************************************************************)
(* What the delivery layer promises of the sealed segments of one node,    *)
(* with the directory, the conversion, the shipper and the crashes left    *)
(* out: each sealed segment reaches the reader, or the ring declares it    *)
(* dropped, oldest first.  "waived" names the segments for which the       *)
(* promise is lifted; Shipping says when that is.                          *)
(***************************************************************************)
CONSTANTS Segments,  \* the positions segments take
          Earlier,   \* pairs of them: the first is the older
          SameRun    \* pairs of them: both are of one run

VARIABLES sealed, shipped, arrived, dropped, waived

store == <<sealed, shipped, arrived, dropped, waived>>

Settled == shipped \cup dropped \cup waived

Init == sealed = {} /\ shipped = {} /\ arrived = {} /\ dropped = {} /\ waived = {}

\* In the order of age, and within a run without leaving one out.
Seal(s) ==
  /\ \A t \in sealed : <<t, s>> \in Earlier
  /\ \A t \in Segments : <<t, s>> \in Earlier \cap SameRun => t \in sealed
  /\ sealed' = sealed \cup {s}
  /\ UNCHANGED <<shipped, arrived, dropped, waived>>

\* The reader may learn of it at once.
Ship(s) ==
  /\ s \in sealed
  /\ shipped' = shipped \cup {s}
  /\ arrived' \in {arrived, arrived \cup {s}}
  /\ UNCHANGED <<sealed, dropped, waived>>

\* Or later, of any number of them together.
Arrive(S) ==
  /\ S \subseteq shipped
  /\ arrived' = arrived \cup S
  /\ UNCHANGED <<sealed, shipped, dropped, waived>>

\* Whatever is older has left the ring already, or leaves it now.
Drop(S) ==
  /\ \A s \in S, t \in sealed : <<t, s>> \in Earlier => t \in Settled \cup S
  /\ dropped' = dropped \cup S
  /\ UNCHANGED <<sealed, shipped, arrived, waived>>

Waive(s) ==
  /\ s \in sealed
  /\ waived' = waived \cup {s}
  /\ UNCHANGED <<sealed, shipped, arrived, dropped>>

Next ==
  \/ \E s \in Segments : Seal(s) \/ Ship(s) \/ Waive(s)
  \/ \E S \in SUBSET (sealed \ dropped) : Drop(S)
  \/ \E S \in SUBSET shipped : Arrive(S)

Safety == Init /\ [][Next]_store

Live == \A s \in Segments :
          (s \in sealed) ~> (s \in arrived \cup dropped \cup waived)

Spec == Safety /\ Live
=============================================================================

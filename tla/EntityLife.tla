----------------------------- MODULE EntityLife ----------------------------
(***************************************************************************)
(* What the ownership system of crates/gpui/src/app/entity_map.rs promises *)
(* the rest of the App about one entity: it is referenced from the moment  *)
(* its id is reserved, it becomes unreferenced once, for good, and then it *)
(* is collected once, together with everything else that is unreferenced   *)
(* by then.  AppEffects is written against this life; EntityMap implements *)
(* it with counters, locks and threads.                                    *)
(***************************************************************************)
CONSTANT Entities

VARIABLE life

Lives == {"vacant", "referenced", "unreferenced", "collected"}

Init == life = [e \in Entities |-> "vacant"]

Reserve(e) ==
  /\ life[e] = "vacant"
  /\ life' = [life EXCEPT ![e] = "referenced"]

LastDrop(e) ==
  /\ life[e] = "referenced"
  /\ life' = [life EXCEPT ![e] = "unreferenced"]

Collect(batch) ==
  /\ \A e \in batch : life[e] = "unreferenced"
  /\ life' = [e \in Entities |-> IF e \in batch THEN "collected" ELSE life[e]]

Next ==
  \/ \E e \in Entities : Reserve(e) \/ LastDrop(e)
  \/ \E batch \in SUBSET Entities : Collect(batch)

Spec == Init /\ [][Next]_life
=============================================================================

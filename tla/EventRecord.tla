----------------------------- MODULE EventRecord -----------------------------
(***************************************************************************)
(* What the event pipeline promises about the row of an event, whatever    *)
(* goes on inside: an event may be saved while it lasts or when it ends,   *)
(* and is closed once.  A closed event is never open again and no event    *)
(* that was saved disappears.                                              *)
(***************************************************************************)
CONSTANT Ids

VARIABLE stage        \* per event: "unsaved", "open" or "closed"

Init == stage = [o \in Ids |-> "unsaved"]

Save(o) ==
    /\ stage[o] = "unsaved"
    /\ \E s \in {"open", "closed"} : stage' = [stage EXCEPT ![o] = s]

Close(o) == stage[o] = "open" /\ stage' = [stage EXCEPT ![o] = "closed"]

\* The start-up statement after a crash closes every open event at once.
CloseAll ==
    stage' = [o \in Ids |-> IF stage[o] = "open" THEN "closed" ELSE stage[o]]

Next == CloseAll \/ \E o \in Ids : Save(o) \/ Close(o)

Spec == Init /\ [][Next]_stage

=============================================================================

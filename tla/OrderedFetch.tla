---------------------------- MODULE OrderedFetch ----------------------------
(***************************************************************************)
(* What the verifier wants of its network fetches: the items are got one   *)
(* after the other, each from the configured service or, once that has     *)
(* failed, from NVIDIA's; the first item neither has ends the sequence.    *)
(* There are no threads here, no queues and no late answers.               *)
(***************************************************************************)
EXTENDS Integers

VARIABLES
    last,       \* the number of the last item, which may be before the first
    fallback,   \* is there a second service to try?
    item,       \* the item to get
    state       \* "idle", asking a service, "have", or how it ended

vars == <<last, fallback, item, state>>

Kept == UNCHANGED <<last, fallback>>

Ask == item <= last /\ state = "idle" /\ state' = "primary" /\ item' = item

Give == state \in {"primary", "nvidia"} /\ state' = "have" /\ item' = item

FallBack ==
    /\ state = "primary" /\ fallback
    /\ state' = "nvidia" /\ item' = item

Fail ==
    /\ state = "nvidia" \/ (state = "primary" /\ ~fallback)
    /\ state' = "failed" /\ item' = item

(* The item is put to use, which goes well or puts an end to it all. *)
Use ==
    /\ state = "have"
    /\ \/ state' = "idle" /\ item' = item + 1
       \/ state' = "unusable" /\ item' = item

End == item > last /\ state = "idle" /\ state' = "complete" /\ item' = item

Init == last \in Int /\ fallback \in BOOLEAN /\ item \in Nat /\ state = "idle"

Next == (Ask \/ Give \/ FallBack \/ Fail \/ Use \/ End) /\ Kept

Spec == Init /\ [][Next]_vars
=============================================================================

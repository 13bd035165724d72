-------------------------- MODULE SerialAttestation --------------------------
(***************************************************************************)
(* What the attestation service promises its clients, without its mutex,   *)
(* processes or timeouts: a client that asks for an attestation has the    *)
(* verifier run for it, alone, and only then hears of the result.          *)
(***************************************************************************)
CONSTANT Clients

VARIABLE state      \* per client: where its request is

States == {"idle", "asked", "running", "finished"}

Init == state = [c \in Clients |-> "idle"]

Ask(c) == state[c] = "idle" /\ state' = [state EXCEPT ![c] = "asked"]

(* The verifier is started for c while it runs for no one else. *)
Begin(c) ==
    /\ state[c] = "asked"
    /\ \A d \in Clients : state[d] # "running"
    /\ state' = [state EXCEPT ![c] = "running"]

End(c) == state[c] = "running" /\ state' = [state EXCEPT ![c] = "finished"]

Answer(c) == state[c] = "finished" /\ state' = [state EXCEPT ![c] = "idle"]

(* The request is turned down, or the verifier cannot be started. *)
Refuse(c) == state[c] = "asked" /\ state' = [state EXCEPT ![c] = "idle"]

(* The service goes down and the requests of S end with it. *)
Abort(S) == state' = [c \in Clients |-> IF c \in S THEN "idle" ELSE state[c]]

Next ==
    \/ \E c \in Clients : Ask(c) \/ Begin(c) \/ End(c) \/ Answer(c) \/ Refuse(c)
    \/ \E S \in SUBSET Clients : Abort(S)

Spec == Init /\ [][Next]_state

(* Never two verifiers at once. *)
Alone ==
    \A c, d \in Clients : state[c] = "running" /\ state[d] = "running" => c = d
=============================================================================

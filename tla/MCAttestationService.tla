------------------------ MODULE MCAttestationService ------------------------
(* Bounded instances of AttestationService. *)
EXTENDS AttestationService

CONSTANTS c1, c2

(* One client on the network and one on the socket. *)
MCVia == [c \in Clients |-> IF c = c2 THEN "socket" ELSE "http"]

Get == [method |-> "GET", body |-> "readable", nonce |-> "valid"]

(* A request of each kind the handler tells apart. *)
AllRequests ==
    {Get,
     [Get EXCEPT !.nonce = "absent"],
     [Get EXCEPT !.method = "other"],
     [Get EXCEPT !.method = "POST", !.body = "broken"],
     [Get EXCEPT !.method = "POST", !.body = "not_json"],
     [Get EXCEPT !.method = "POST", !.nonce = "invalid"]}

Pass == [exit |-> 0, banner |-> TRUE, token |-> "pass", noise |-> FALSE]

(* The ways a run of GpuAttestation ends: a passing run, a failing one and *)
(* a crash without a token; a passing run may leave text on stderr.        *)
MCOutcomes ==
    {Pass,
     [Pass EXCEPT !.noise = TRUE],
     [exit |-> 1, banner |-> FALSE, token |-> "fail", noise |-> FALSE],
     [exit |-> 1, banner |-> FALSE, token |-> "nil", noise |-> TRUE]}
=============================================================================

------------------------- MODULE MCRevocationCheck -------------------------
(* Bounded instance of RevocationCheck. *)
EXTENDS RevocationCheck

(* Two questions in every mode: the GPU's chain has an unasked leaf. *)
MCChainLength == [m \in Modes |-> IF m = "GPU_ATTESTATION" THEN 4 ELSE 3]

MCRevocationExt == [m \in Modes |-> IF m = "VBIOS_RIM_CERT" THEN 3 ELSE 1]

Good == [kind |-> "response", successful |-> TRUE, nonce |-> "own",
         dated |-> TRUE, thisUpdate |-> 0, nextUpdate |-> 0,
         signer |-> "trusted", status |-> "good", reason |-> "none",
         revokedAt |-> 0]

(* Revoked as long ago as one mode's grace period, but not another's. *)
Revoked == [Good EXCEPT !.status = "revoked", !.reason = "other",
                        !.revokedAt = -2]

(* A good response at its boundaries, and one deviation from it at a time. *)
MCResponses ==
    {Good,
     [Good EXCEPT !.nonce = "absent"],
     [Good EXCEPT !.nextUpdate = -2],
     [Good EXCEPT !.nextUpdate = -3],
     [Good EXCEPT !.signer = "rejected"],
     Revoked,
     [Revoked EXCEPT !.reason = "none"],
     [Revoked EXCEPT !.reason = "certificate_hold", !.revokedAt = -4]}
=============================================================================

--------------------------- MODULE RevocationCheck ---------------------------
(***************************************************************************)
(* ocsp_certificate_chain_validation: the revocation status of every       *)
(* certificate of a chain but its root is asked of the configured OCSP     *)
(* service, and of NVIDIA's when that gives no answer.  Each question is a *)
(* timed call, whose worker may answer long after it was given up.         *)
(* Times are hours from now, which is 0.                                   *)
(***************************************************************************)
EXTENDS TimedCalls

CONSTANTS
    ChainLength,    \* per mode: certificates in the chain, root included
    Responses,      \* the responses to consider, a subset of ResponseRecord
    NonceEnabled,   \* OCSP_NONCE_ENABLED
    AllowHold,      \* allow_hold_cert
    ValidityExt,    \* OCSP_VALIDITY_EXTENSION_HRS
    RevocationExt   \* per mode: OCSP_CERT_REVOCATION_..._EXTENSION_HRS

VARIABLES
    mode,       \* the parameter of the same name
    pc,         \* where the function is
    i,          \* the certificate asked about
    accepted,   \* per certificate: the call whose response was accepted
    warnings,   \* certificates accepted with a warning
    result      \* what the function returned or raised

mainVars == <<mode, pc, i, accepted, warnings, result>>
vars == <<https, calls, mode, pc, i, accepted, warnings, result>>

Modes == {"GPU_ATTESTATION", "DRIVER_RIM_CERT", "VBIOS_RIM_CERT"}

(* signer: the certificate the response carries and its signature.  dated: *)
(* nextUpdate is present.                                                  *)
ResponseRecord ==
    [kind : {"response"}, successful : BOOLEAN,
     nonce : {"own", "other", "absent"},
     dated : BOOLEAN, thisUpdate : Int, nextUpdate : Int,
     signer : {"trusted", "rejected", "absent"},
     status : {"good", "unknown", "revoked"},
     reason : {"none", "certificate_hold", "other"}, revokedAt : Int]

ASSUME ChainAssumption == ChainLength \in [Modes -> Nat \ {0}]
ASSUME ResponsesAssumption == Responses \subseteq ResponseRecord
ASSUME SettingsAssumption ==
    /\ NonceEnabled \in BOOLEAN /\ AllowHold \in BOOLEAN
    /\ ValidityExt \in Nat /\ RevocationExt \in [Modes -> Nat]

(* The leaf of the GPU's own chain is not known to any OCSP service. *)
StartIndex == IF mode = "GPU_ATTESTATION" THEN 1 ELSE 0
EndIndex   == ChainLength[mode] - 1
Checked    == StartIndex .. EndIndex - 1

Init ==
    /\ InitCalls
    /\ mode \in Modes
    /\ pc = "loop"
    /\ i = StartIndex
    /\ accepted = [c \in {} |-> 0]
    /\ warnings = {}
    /\ result = "none"

Return(value) == result' = value /\ pc' = "done"

(* Mutant of AskConfigured: the root is asked about as well. *)
AskConfiguredPastEnd ==
    /\ pc = "loop"
    /\ IF i <= EndIndex
         THEN Call(i, "primary") /\ pc' = "wait" /\ result' = result
         ELSE Return("valid") /\ UNCHANGED timedVars
    /\ UNCHANGED <<mode, i, accepted, warnings>>

(* Mutant of AskConfigured: a service that cannot answer is not asked. *)
AskConfiguredIfHttps ==
    /\ pc = "loop"
    /\ IF i < EndIndex
         THEN /\ Call(i, IF "primary" \in https THEN "primary" ELSE "nvidia")
              /\ pc' = "wait" /\ result' = result
         ELSE Return("valid") /\ UNCHANGED timedVars
    /\ UNCHANGED <<mode, i, accepted, warnings>>

(* The head of the loop: the next certificate, or the end of the chain. *)
AskConfigured ==
    /\ pc = "loop"
    /\ IF i < EndIndex
         THEN Call(i, "primary") /\ pc' = "wait" /\ result' = result
         ELSE Return("valid") /\ UNCHANGED timedVars
    /\ UNCHANGED <<mode, i, accepted, warnings>>

Answered ==
    /\ pc = "wait" /\ TakeAnswer
    /\ pc' = "verify"
    /\ UNCHANGED <<mode, i, accepted, warnings, result>>

(* Mutant of NotAnswered: a certificate nobody answers for is skipped. *)
NotAnsweredSkipping ==
    /\ pc = "wait" /\ CallFails
    /\ IF Last.url = "primary"
         THEN pc' = "fallback" /\ i' = i
         ELSE pc' = "loop" /\ i' = i + 1
    /\ UNCHANGED <<mode, accepted, warnings, result>>

(* No response: on to NVIDIA's service, or an OCSPFetchError. *)
NotAnswered ==
    /\ pc = "wait" /\ CallFails
    /\ IF Last.url = "primary"
         THEN pc' = "fallback" /\ result' = result
         ELSE Return("OCSPFetchError")
    /\ UNCHANGED <<mode, i, accepted, warnings>>

AskNvidia ==
    /\ pc = "fallback"
    /\ Call(i, "nvidia")
    /\ pc' = "wait"
    /\ UNCHANGED <<mode, i, accepted, warnings, result>>

(* Mutant of HasNonce: the nonce of the fallback is not looked at. *)
HasConfiguredNonce(call) == NonceEnabled

(* The fallback request always carries a nonce. *)
HasNonce(call) == call.url = "nvidia" \/ NonceEnabled

InTime(r, ext) == r.thisUpdate <= 0 /\ 0 <= r.nextUpdate + ext

(* A revoked certificate still passes when it is on hold and that is       *)
(* allowed, or for a grace period after its revocation.                    *)
Graced(r) ==
    \/ r.reason = "certificate_hold" /\ AllowHold
    \/ 0 <= r.revokedAt + RevocationExt[mode]

(* The checks of a response in the code's order, each with what a failing  *)
(* one makes of the chain: a verdict, or an exception where the code reads *)
(* an optional field that is absent.                                       *)
Obstacles(r, call) ==
    <<[met |-> ~r.successful,                         ends |-> "invalid"],
      [met |-> HasNonce(call) /\ r.nonce # "own",     ends |-> "invalid"],
      [met |-> ~r.dated,                              ends |-> "exception"],
      [met |-> ~InTime(r, ValidityExt),               ends |-> "invalid"],
      [met |-> r.signer = "absent",                   ends |-> "exception"],
      [met |-> r.signer = "rejected",                 ends |-> "invalid"],
      [met |-> r.status = "unknown",                  ends |-> "invalid"],
      [met |-> r.status = "revoked" /\ r.reason = "none",
                                                      ends |-> "exception"],
      [met |-> r.status = "revoked" /\ ~Graced(r),    ends |-> "invalid"]>>

(* The obstacles met that no other one met comes before: one or none. *)
First(obstacles) ==
    {o \in DOMAIN obstacles :
        obstacles[o].met /\ \A p \in 1 .. o - 1 : ~obstacles[p].met}

Warned(r) == ~InTime(r, 0) \/ r.status = "revoked"

Verify ==
    /\ pc = "verify"
    /\ LET r == Last.queue
           obstacles == Obstacles(r, Last)
       IN  \/ /\ First(obstacles) = {}
              /\ accepted' = [c \in DOMAIN accepted \cup {i} |->
                                 IF c = i THEN Len(calls) ELSE accepted[c]]
              /\ warnings' = IF Warned(r) THEN warnings \cup {i} ELSE warnings
              /\ i' = i + 1
              /\ pc' = "loop" /\ result' = result
           \/ /\ \E o \in First(obstacles) : Return(obstacles[o].ends)
              /\ UNCHANGED <<accepted, warnings, i>>
    /\ UNCHANGED <<timedVars, mode>>

(* The worker of call k, abandoned or not. *)
Worker(k) ==
    /\ k \in DOMAIN calls /\ Fetch(k, Responses)
    /\ UNCHANGED mainVars

Main == AskConfigured \/ Answered \/ NotAnswered \/ AskNvidia \/ Verify

MaxCalls == 2 * ChainLength[mode]

Next == Main \/ \E k \in 1 .. MaxCalls : Worker(k)

(* urlopen has no timeout of its own and may block for ever: no fairness   *)
(* for the workers.  The main thread has its timeouts.                     *)
Spec == Init /\ [][Next]_vars /\ WF_vars(Main)
-----------------------------------------------------------------------------
(* Every variable keeps the kind of value the code gives it. *)
TypeOK ==
    /\ https \subseteq Services
    /\ calls \in Seq(CallRecord(Nat, ResponseRecord))
    /\ mode \in Modes
    /\ pc \in {"loop", "wait", "verify", "fallback", "done"}
    /\ i \in Nat
    /\ DOMAIN accepted \subseteq Checked
    /\ \A c \in DOMAIN accepted : accepted[c] \in DOMAIN calls
    /\ warnings \subseteq Checked
    /\ result \in {"none", "valid", "invalid", "exception", "OCSPFetchError"}

(* What makes a response good enough, whatever the order of the checks. *)
GoodEnough(r, call) ==
    /\ r.successful /\ r.signer = "trusted"
    /\ call.url = "nvidia" \/ NonceEnabled => r.nonce = "own"
    /\ r.thisUpdate <= 0 /\ -ValidityExt <= r.nextUpdate
    /\ \/ r.status = "good"
       \/ r.status = "revoked" /\ r.revokedAt >= -RevocationExt[mode]
       \/ r.status = "revoked" /\ AllowHold /\ r.reason = "certificate_hold"

(* A chain passes only when each of its certificates has a response that   *)
(* was given to a question about that very certificate and taken in time,  *)
(* and is good enough; one that needs an extension or a grace period       *)
(* leaves a warning.  Answers that come late, or for another call, count   *)
(* nothing (cc_admin_utils.py:237-430).                                    *)
ValidMeansChecked ==
    result = "valid" =>
        \A c \in Checked :
            /\ c \in DOMAIN accepted
            /\ LET call == calls[accepted[c]]
                   r == call.queue
               IN  /\ call.item = c
                   /\ call.caller = "answered"
                   /\ GoodEnough(r, call)
                   /\ r.nextUpdate < 0 \/ r.status = "revoked" => c \in warnings

(* NVIDIA's service is asked about a certificate only after the configured *)
(* one has failed to answer about the same certificate; and a certificate  *)
(* is asked about only after those before it have passed.                  *)
AskedInOrder ==
    \A k \in DOMAIN calls :
        LET call == calls[k]
        IN  /\ StartIndex .. call.item - 1 \subseteq DOMAIN accepted
            /\ call.url = "nvidia" =>
                 /\ k > 1
                 /\ calls[k - 1].item = call.item
                 /\ calls[k - 1].url = "primary"
                 /\ calls[k - 1].caller \in {"failed", "timedOut"}

(* The chain check comes to an end even when no server ever answers. *)
CheckEnds == <>(result # "none")

(* What OrderedFetch sees of the main thread. *)
FetchState ==
    CASE pc = "wait"     -> Last.url
      [] pc = "fallback" -> "nvidia"
      [] pc = "verify"   -> "have"
      [] pc = "loop"     -> "idle"
      [] pc = "done"     -> (CASE result = "OCSPFetchError" -> "failed"
                               [] result = "valid" -> "complete"
                               [] OTHER -> "unusable")

Fetching ==
    INSTANCE OrderedFetch
        WITH last <- EndIndex - 1, fallback <- TRUE, item <- i,
             state <- FetchState

(* The timed calls implement the plain sequence of fetches: no step of an  *)
(* abandoned worker is visible to the chain check, and an OCSPFetchError   *)
(* means that both services have failed for the same certificate.          *)
ImplementsFetch == Fetching!Spec
-----------------------------------------------------------------------------
(* The inductive invariant behind the theorems of RevocationCheckProofs. *)

(* The main thread goes on with the last call it made, which is about the  *)
(* certificate at hand; NVIDIA's service has its turn after the other one. *)
CurrentCall ==
    pc \in {"wait", "verify", "fallback"} =>
        /\ i \in Checked /\ calls # <<>> /\ Last.item = i
        /\ pc = "wait" => Last.caller = "waiting"
        /\ pc = "verify" => /\ Last.caller = "answered"
                            /\ Last.queue \in ResponseRecord
        /\ pc = "fallback" => Last.url = "primary" /\ Unanswered(Last)

(* The certificates before the one at hand have passed, and no others. *)
Progress ==
    /\ DOMAIN accepted = StartIndex .. i - 1
    /\ (result = "none") = (pc # "done")
    /\ pc = "loop" => i >= StartIndex
    /\ result = "valid" => i >= EndIndex

(* What the acceptance of certificate c rests on. *)
Accepted(c) ==
    LET call == calls[accepted[c]]
        r == call.queue
    IN  /\ call.item = c /\ call.caller = "answered" /\ r \in ResponseRecord
        /\ GoodEnough(r, call)
        /\ r.nextUpdate < 0 \/ r.status = "revoked" => c \in warnings

AcceptedInv == \A c \in DOMAIN accepted : Accepted(c)

IInv ==
    /\ TypeOK /\ OneAnswer /\ CurrentCall /\ Progress /\ AcceptedInv
    /\ AskedInOrder /\ ValidMeansChecked
=============================================================================

--------------------------- MODULE CertificateChain ---------------------------
(***************************************************************************)
(* The certificate chains the verifier judges: the GPU's and those of the  *)
(* two RIM files.  The last certificate a chain comes with is replaced by  *)
(* the root in the verifier's own certs directory; verify_certificate_chain*)
(* then lets a store of trusted certificates grow from that root towards   *)
(* the leaf.  The same function judges the signer of every OCSP response,  *)
(* put in front of what is left of the chain; the rest of a response is    *)
(* RevocationCheck's.                                                      *)
(*                                                                         *)
(* X.509 is left to a relation: <<a, b>> in Signs says that OpenSSL takes  *)
(* a for the issuer of b (names, key, signature, dates, CA flag).          *)
(***************************************************************************)
EXTENDS Integers, Sequences

CONSTANTS
    Certs,              \* the certificates
    Garbled,            \* a block that is no certificate
    Signs,              \* who signed whom, pairs of Certs
    DeviceRoot,         \* verifier_device_root.pem
    RimRoot,            \* verifier_RIM_root.pem
    Firmware,           \* the firmware IDs
    NoFwid,             \* no firmware ID
    Fwid,               \* per certificate: the one in its FWID extension
    MaxChainLength,     \* MAX_CERT_CHAIN_LENGTH
    Sources             \* the chains presented, sequences of blocks

VARIABLES
    mode,       \* the verification mode
    source,     \* the blocks found in the NVML data, or in the RIM's KeyInfo
    reportFwid, \* the firmware ID in the attestation report, if one is at hand
    pc,         \* where the thread is
    chain,      \* the chain to judge, the local root at its end
    checked,    \* verify_certificate_chain: its argument cert_chain
    store,      \*                           the trusted certificates
    index,      \*                           the next certificate to verify
    signers,    \* the OCSP signers judged, the first certificate's first
    result      \* "TRUE", "FALSE" or the exception raised

input == <<mode, source, reportFwid>>
vars  == <<mode, source, reportFwid, pc, chain, checked, store, index, signers,
           result>>

Modes  == {"GPU_ATTESTATION", "DRIVER_RIM_CERT", "VBIOS_RIM_CERT"}
Blocks == Certs \cup {Garbled}

ASSUME CertsAssumption ==
    /\ Garbled \notin Certs
    /\ Signs \subseteq Certs \X Certs
    /\ DeviceRoot \in Certs /\ RimRoot \in Certs
ASSUME FwidAssumption == Fwid \in [Certs -> Firmware \cup {NoFwid}]
ASSUME SourcesAssumption == Sources \subseteq Seq(Blocks)
ASSUME LengthAssumption == MaxChainLength \in Nat \ {0}

LocalRoot == IF mode = "GPU_ATTESTATION" THEN DeviceRoot ELSE RimRoot

Init ==
    /\ mode \in Modes /\ source \in Sources
    /\ reportFwid \in Firmware \cup {NoFwid}
    /\ mode # "GPU_ATTESTATION" => reportFwid = NoFwid
    /\ pc = "extract"
    /\ chain = <<>> /\ checked = <<>>
    /\ store = {} /\ index = 0
    /\ signers = <<>>
    /\ result = "none"

Return(value) == result' = value /\ pc' = "done"
-----------------------------------------------------------------------------
(* The chain. *)

(* Mutant of Rooted: the root the chain came with stays. *)
RootedByItself(blocks) ==
    IF blocks = <<>> THEN <<LocalRoot>> ELSE blocks

(* The last certificate makes room for the local root. *)
Rooted(blocks) ==
    IF blocks = <<>> THEN <<LocalRoot>>
                     ELSE [blocks EXCEPT ![Len(blocks)] = LocalRoot]

(* Every PEM block of the GPU's chain is loaded, those of a RIM up to the  *)
(* last but one; a RIM has one at least.                                   *)
Unreadable ==
    IF mode = "GPU_ATTESTATION"
      THEN \E k \in DOMAIN source : source[k] = Garbled
      ELSE source = <<>> \/ \E k \in 1 .. Len(source) - 1 : source[k] = Garbled

Extract ==
    /\ pc = "extract"
    /\ IF Unreadable
         THEN /\ Return(IF mode = "GPU_ATTESTATION" THEN "CertExtractionError"
                                                    ELSE "InvalidCertificateError")
              /\ chain' = chain
         ELSE chain' = Rooted(source) /\ pc' = "fwid" /\ result' = result
    /\ UNCHANGED <<input, checked, store, index, signers>>

(* The GPU's leaf carries the firmware ID of the report, if it has one. *)
CheckFwid ==
    /\ pc = "fwid"
    /\ IF mode = "GPU_ATTESTATION" /\ reportFwid \notin {NoFwid, Fwid[chain[1]]}
         THEN Return("FALSE")
         ELSE pc' = "count" /\ result' = result
    /\ UNCHANGED <<input, chain, checked, store, index, signers>>
-----------------------------------------------------------------------------
(* verify_certificate_chain. *)

(* The call for list, whose last certificate is trusted.  No list is empty:*)
(* a local root has been appended to each.                                 *)
VerifyCertificateChain(list) ==
    /\ checked' = list
    /\ store' = {list[Len(list)]}
    /\ index' = Len(list) - 1
    /\ pc' = "verify"

Count ==
    /\ pc = "count"
    /\ IF mode = "GPU_ATTESTATION" /\ Len(chain) # MaxChainLength
         THEN /\ Return("IncorrectNumberOfCertificatesError")
              /\ UNCHANGED <<checked, store, index>>
         ELSE VerifyCertificateChain(chain) /\ result' = result
    /\ UNCHANGED <<input, chain, signers>>

(* Mutant of Trusted: the store has the certificate before it is verified. *)
TrustedWithItself(cert) == \E s \in store \cup {cert} : <<s, cert>> \in Signs

(* X509StoreContext.verify_certificate().  One step is enough: whatever is *)
(* in the store leads to the root already.                                 *)
Trusted(cert) == \E s \in store : <<s, cert>> \in Signs

(* Mutant of VerifyNext: the certificate is verified, the store stays. *)
VerifyNextByRoot ==
    /\ pc = "verify" /\ index > 0
    /\ IF Trusted(checked[index])
         THEN index' = index - 1 /\ store' = store /\ UNCHANGED <<pc, result>>
         ELSE Return("FALSE") /\ UNCHANGED <<store, index>>
    /\ UNCHANGED <<input, chain, checked, signers>>

(* Mutant of VerifyNext: the loop does not move on. *)
VerifySame ==
    /\ pc = "verify" /\ index > 0
    /\ IF Trusted(checked[index])
         THEN store' = store \cup {checked[index]} /\ UNCHANGED <<index, pc, result>>
         ELSE Return("FALSE") /\ UNCHANGED <<store, index>>
    /\ UNCHANGED <<input, chain, checked, signers>>

VerifyNext ==
    /\ pc = "verify" /\ index > 0
    /\ IF Trusted(checked[index])
         THEN /\ store' = store \cup {checked[index]}
              /\ index' = index - 1
              /\ UNCHANGED <<pc, result>>
         ELSE Return("FALSE") /\ UNCHANGED <<store, index>>
    /\ UNCHANGED <<input, chain, checked, signers>>

Verified ==
    /\ pc = "verify" /\ index = 0
    /\ pc' = "revocation"
    /\ UNCHANGED <<input, chain, checked, store, index, signers, result>>
-----------------------------------------------------------------------------
(* ocsp_certificate_chain_validation, as far as it judges certificates. *)

(* The GPU's own leaf is not asked about. *)
StartIndex == IF mode = "GPU_ATTESTATION" THEN 2 ELSE 1
Asked      == StartIndex + Len(signers)

(* What a signer is verified with: the certificate asked about and those   *)
(* behind it.                                                              *)
SignerChain(cert, i) == <<cert>> \o SubSeq(chain, i, Len(chain))

JudgeSigner ==
    /\ pc = "revocation" /\ Asked < Len(chain)
    /\ \E cert \in Certs :
          /\ VerifyCertificateChain(SignerChain(cert, Asked))
          /\ signers' = Append(signers, cert)
    /\ UNCHANGED <<input, chain, result>>

(* A question without a usable response, or the response of the signer     *)
(* just verified: its signature or the status it gives.                    *)
RejectOtherwise ==
    /\ pc = "revocation"
    /\ \/ Asked < Len(chain) /\ \E value \in {"FALSE", "OCSPFetchError"} : Return(value)
       \/ signers # <<>> /\ Return("FALSE")
    /\ UNCHANGED <<input, chain, checked, store, index, signers>>

Conclude ==
    /\ pc = "revocation" /\ Asked >= Len(chain)
    /\ Return("TRUE")
    /\ UNCHANGED <<input, chain, checked, store, index, signers>>

Terminated == pc = "done" /\ UNCHANGED vars

Next ==
    \/ Extract \/ CheckFwid \/ Count \/ VerifyNext \/ Verified
    \/ JudgeSigner \/ RejectOtherwise \/ Conclude \/ Terminated

Spec == Init /\ [][Next]_vars /\ WF_vars(Next)
-----------------------------------------------------------------------------
(* Properties. *)

(* The types of the state; in particular the list being verified ends in   *)
(* a root of the verifier's own, and index stays inside it.                *)
TypeOK ==
    /\ mode \in Modes /\ source \in Sources
    /\ reportFwid \in Firmware \cup {NoFwid}
    /\ pc \in {"extract", "fwid", "count", "verify", "revocation", "done"}
    /\ chain \in Seq(Certs) /\ checked \in Seq(Certs)
    /\ store \subseteq Certs
    /\ index \in Nat
    /\ signers \in Seq(Certs)
    /\ result \in {"none", "TRUE", "FALSE", "CertExtractionError",
                  "InvalidCertificateError", "OCSPFetchError",
                  "IncorrectNumberOfCertificatesError"}
    /\ pc = "verify" => index < Len(checked) /\ checked[Len(checked)] = LocalRoot

(* list[k] was signed by a certificate behind it. *)
SignedBehind(list, k) ==
    \E j \in k + 1 .. Len(list) : <<list[j], list[k]>> \in Signs

(* A chain that is accepted hangs together down to a root of the verifier's*)
(* own, whatever root it came with: every certificate was signed by one    *)
(* behind it, the firmware ID agrees, and every OCSP signer was signed by  *)
(* the certificate asked about or one behind it (cc_admin_utils.py:98-170).*)
AcceptedIsAnchored ==
    result = "TRUE" =>
        /\ chain[Len(chain)] = LocalRoot
        /\ \A k \in 1 .. Len(chain) - 1 : SignedBehind(chain, k)
        /\ \A k \in StartIndex .. Len(chain) - 1 :
              \E j \in k .. Len(chain) :
                 <<chain[j], signers[k - StartIndex + 1]>> \in Signs
        /\ mode = "GPU_ATTESTATION" =>
              /\ Len(chain) = MaxChainLength
              /\ reportFwid \in {NoFwid, Fwid[chain[1]]}

(* A chain as it is meant to be: of the right length, each certificate     *)
(* signed by the next, the last but one by the local root.                 *)
WellMade ==
    /\ source # <<>>
    /\ \A k \in 1 .. Len(source) - 1 :
          /\ source[k] # Garbled
          /\ <<IF k = Len(source) - 1 THEN LocalRoot ELSE source[k + 1],
               source[k]>> \in Signs
    /\ mode = "GPU_ATTESTATION" =>
          /\ Len(source) = MaxChainLength
          /\ source[Len(source)] # Garbled
          /\ reportFwid \in {NoFwid, Fwid[Rooted(source)[1]]}

(* No step before the revocation check turns down a chain as it is meant   *)
(* to be: each certificate finds its issuer in the store                   *)
(* (cc_admin_utils.py:154-169).                                            *)
WellMadePasses ==
    [][WellMade /\ pc # "revocation" /\ signers = <<>> => pc' # "done"]_vars

(* The loop over the certificates, and that over the OCSP signers, ends    *)
(* (cc_admin_utils.py:155, :247).                                          *)
VerificationEnds == <>(pc = "done")
-----------------------------------------------------------------------------
(* The inductive invariant. *)

Accepted == result = "TRUE"

(* Extract turns away what cannot be read. *)
ChainInv ==
    pc \in {"fwid", "count", "verify", "revocation"} \/ Accepted =>
        ~Unreadable /\ chain = Rooted(source)

FwidInv ==
    pc \in {"count", "verify", "revocation"} \/ Accepted =>
        (mode = "GPU_ATTESTATION" => reportFwid \in {NoFwid, Fwid[chain[1]]})

LengthInv ==
    pc \in {"verify", "revocation"} \/ Accepted =>
        (mode = "GPU_ATTESTATION" => Len(chain) = MaxChainLength)

(* The store is the part of the list behind index, and hangs together.     *)
StoreInv ==
    pc = "verify" =>
        /\ store = {checked[k] : k \in index + 1 .. Len(checked)}
        /\ \A k \in index + 1 .. Len(checked) - 1 : SignedBehind(checked, k)

(* The list is the chain first, and then that of the signer judged last.   *)
CheckedInv ==
    pc = "verify" =>
        checked = IF signers = <<>> THEN chain
                  ELSE SignerChain(signers[Len(signers)], Asked - 1)

(* The chain hangs together as soon as the signers are judged.             *)
AnchoredInv ==
    pc = "revocation" \/ Accepted \/ (pc = "verify" /\ signers # <<>>) =>
        \A k \in 1 .. Len(chain) - 1 : SignedBehind(chain, k)

(* Every signer but the one being judged hangs on to the chain.            *)
SignersInv ==
    /\ signers # <<>> =>
         pc \in {"verify", "revocation", "done"} /\ Asked <= Len(chain)
    /\ pc \in {"verify", "revocation"} \/ Accepted =>
         \A n \in 1 .. Len(signers) :
            \/ pc = "verify" /\ n = Len(signers)
            \/ \E j \in StartIndex + n - 1 .. Len(chain) :
                  <<chain[j], signers[n]>> \in Signs

DoneInv ==
    /\ pc = "done" <=> result # "none"
    /\ Accepted => Asked >= Len(chain)

IInv ==
    /\ TypeOK /\ ChainInv /\ FwidInv /\ LengthInv
    /\ StoreInv /\ CheckedInv /\ AnchoredInv /\ SignersInv /\ DoneInv
=============================================================================

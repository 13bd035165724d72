--------------------------- MODULE GpuAttestation ---------------------------
(***************************************************************************)
(* One run of the local GPU verifier, `python3 -m verifier.cc_admin`:      *)
(* main() picks a nonce, collects the evidence of every GPU, attests the   *)
(* GPUs one after the other, sets the GPU ready state when the overall     *)
(* status is TRUE, prints the entity attestation token and exits 0 or 1.   *)
(*                                                                         *)
(* What a GPU's evidence is worth is fixed for a run: defect[g] names the  *)
(* first check GPU g would fail, "none" when it would pass them all.  The  *)
(* verifier never reads `defect' as a whole; each step only asks whether   *)
(* its own check fails, which is what the cryptography, the RIM service    *)
(* and the OCSP service tell the code.                                     *)
(***************************************************************************)
EXTENDS Integers, Sequences

CONSTANTS
    N,          \* number of GPUs the driver reports
    Options     \* the command lines to consider, a subset of OptionRecord

VARIABLES
    opts,       \* the parsed command line
    defect,     \* per GPU: the first check its evidence fails, or "none"
    pc,         \* where the main thread is
    nonce,      \* which nonce the run uses
    collected,  \* len(evidence_list); evidence k belongs to GPU k
    i,          \* the loop variable of attest(), -1 while unbound
    settings,   \* the local `settings' of attest(): whose it is, what is marked
    rims,       \* the locals `driver_rim' and `vbios_rim' of attest()
    overall,    \* overall_status
    claims,     \* gpu_claims_list
    ready,      \* the GPU ready state kept by the driver
    pending,    \* a set-ready call that timed out and still runs in its thread
    token,      \* the overall result in the printed token, "none" before
    exit        \* exit code of the process, Running before

vars == <<opts, defect, pc, nonce, collected, i, settings, rims, overall,
          claims, ready, pending, token, exit>>

-----------------------------------------------------------------------------
(* The names under which a RIM's checks are marked in the settings object. *)
DriverRim == [loaded   |-> "driverRimFetched",
              parsed   |-> "driverRimMeasurements",
              schema   |-> "driverRimSchema",
              version  |-> "driverRimVersion",
              cert     |-> "driverRimCert",
              verified |-> "driverRimSignature"]

VbiosRim == [loaded   |-> "vbiosRimFetched",
             parsed   |-> "vbiosRimMeasurements",
             schema   |-> "vbiosRimSchema",
             version  |-> "vbiosRimVersion",
             cert     |-> "vbiosRimCert",
             verified |-> "vbiosRimSignature"]

(* The eighteen flags BaseSettings.check_status requires. *)
StatusChecks ==
    {"arch", "certChain", "parsed", "nonce", "driverVersion", "vbiosVersion",
     "signature", "driverRimFetched", "driverRimSchema", "driverRimCert",
     "driverRimSignature", "driverRimMeasurements", "vbiosRimFetched",
     "vbiosRimSchema", "vbiosRimSignature", "vbiosRimMeasurements",
     "noIndexConflict", "measurements"}

(* A RIM whose version differs from the installed one is only warned about. *)
AdvisoryChecks == {"driverRimVersion", "vbiosRimVersion"}

Marks == StatusChecks \cup AdvisoryChecks \cup {"vbiosRimCert"}

(* The certificate flag of a RIM is marked together with its signature, so *)
(* no evidence fails that check alone; "evidence" is a GPU whose NVML      *)
(* calls fail while its evidence is collected.                             *)
Defects == {"none", "evidence"} \cup AdvisoryChecks
             \cup (StatusChecks \ {"driverRimCert"})

Verified(g) == defect[g] \in {"none"} \cup AdvisoryChecks

OptionRecord == [userMode : BOOLEAN, testNoGpu : BOOLEAN,
                 driverRim : BOOLEAN, vbiosRim : BOOLEAN,
                 nonce : {"absent", "valid", "invalid"}, rimRoot : BOOLEAN,
                 configOk : BOOLEAN]

LocalDriverRim == opts.driverRim \/ opts.testNoGpu
LocalVbiosRim  == opts.vbiosRim \/ opts.testNoGpu

ASSUME NAssumption == N \in Nat \ {0}
ASSUME OptionsAssumption == Options \subseteq OptionRecord

Unbound    == -1
Running    == -1
NoSettings == [gpu |-> Unbound, marks |-> {}]
NoRims     == [driver_rim |-> "unbound", vbios_rim |-> "unbound"]

Gpus == 0 .. N - 1

(* NvmlHandlerTest.get_number_of_gpus is a constant 1. *)
GpuCount == IF opts.testNoGpu THEN 1 ELSE N

(* The settings object with the checks of S marked. *)
Marked(S) == [gpu |-> settings.gpu, marks |-> settings.marks \cup S]

(* The claims of the current GPU, read from whatever `settings' now holds. *)
CurrentClaims == [idx |-> i, from |-> settings.gpu, marks |-> settings.marks]
-----------------------------------------------------------------------------
Init ==
    /\ opts \in Options
    /\ defect \in [Gpus -> Defects]
    /\ pc = "nonce"
    /\ nonce = "none"
    /\ collected = 0
    /\ i = Unbound
    /\ settings = NoSettings
    /\ rims = NoRims
    /\ overall = FALSE
    /\ claims = <<>>
    /\ ready \in BOOLEAN
    /\ pending = FALSE
    /\ token = "none"
    /\ exit = Running

(* An unusable user nonce is logged and silently replaced by a random one. *)
GetUserNonce ==
    /\ pc = "nonce"
    /\ nonce' = IF opts.testNoGpu THEN "test"
                ELSE IF opts.nonce = "valid" THEN "user" ELSE "random"
    /\ pc' = "init_nvml"
    /\ UNCHANGED <<opts, defect, collected, i, settings, rims, overall, claims,
                   ready, pending, token, exit>>

(* NVML initialisation, the confidential compute mode and the GPU count.   *)
(* When any of them fails, even through sys.exit(), the return in the      *)
(* finally clause of collect_gpu_evidence hands over an empty list.        *)
InitNvml ==
    /\ pc = "init_nvml"
    /\ pc' \in IF opts.testNoGpu THEN {"collect"} ELSE {"collect", "configure"}
    /\ UNCHANGED <<opts, defect, nonce, collected, i, settings, rims, overall,
                   claims, ready, pending, token, exit>>

(* One NvmlHandler is constructed per GPU; the first that fails ends the   *)
(* collection and the handlers made so far are returned.                   *)
CollectGpuEvidence ==
    /\ pc = "collect"
    /\ IF collected < GpuCount /\ defect[collected] # "evidence"
         THEN /\ collected' = collected + 1
              /\ pc' = pc
         ELSE /\ pc' = "configure"
              /\ collected' = collected
    /\ UNCHANGED <<opts, defect, nonce, i, settings, rims, overall, claims,
                   ready, pending, token, exit>>

(* The head of attest() raises before the loop has bound gpu_info_obj: for *)
(* an unsupported claims version or an empty service URL (configOk), and   *)
(* for any --rim_root_cert, since no class has the method                  *)
(* set_rim_root_certificate that line 415 calls.                           *)
Configure ==
    /\ pc = "configure"
    /\ pc' = IF opts.configOk /\ ~opts.rimRoot THEN "loop" ELSE "except"
    /\ UNCHANGED <<opts, defect, nonce, collected, i, settings, rims, overall,
                   claims, ready, pending, token, exit>>

(* Mutant of NextGpu: one round of the loop too many. *)
NextGpuPastEnd ==
    /\ pc = "loop"
    /\ IF i + 1 <= collected
         THEN i' = i + 1 /\ pc' = "settings"
         ELSE i' = i /\ pc' = "finally"
    /\ UNCHANGED <<opts, defect, nonce, collected, settings, rims, overall,
                   claims, ready, pending, token, exit>>

NextGpu ==
    /\ pc = "loop"
    /\ IF i + 1 < collected
         THEN i' = i + 1 /\ pc' = "settings"
         ELSE i' = i /\ pc' = "finally"
    /\ UNCHANGED <<opts, defect, nonce, collected, settings, rims, overall,
                   claims, ready, pending, token, exit>>

(* Mutant of SelectSettings: one settings object for all GPUs. *)
SelectSharedSettings ==
    /\ pc = "settings"
    /\ IF defect[i] = "arch"
         THEN pc' = "except" /\ settings' = settings
         ELSE /\ pc' = "report"
              /\ settings' = [gpu |-> i, marks |-> settings.marks \cup {"arch"}]
    /\ UNCHANGED <<opts, defect, nonce, collected, i, rims, overall, claims,
                   ready, pending, token, exit>>

(* Only a HOPPER GPU gets settings of its own; for any other architecture  *)
(* the exception leaves `settings' as the previous GPU left it.            *)
SelectSettings ==
    /\ pc = "settings"
    /\ IF defect[i] = "arch"
         THEN pc' = "except" /\ settings' = settings
         ELSE /\ pc' = "report"
              /\ settings' = [gpu |-> i, marks |-> {"arch"}]
    /\ UNCHANGED <<opts, defect, nonce, collected, i, rims, overall, claims,
                   ready, pending, token, exit>>
-----------------------------------------------------------------------------
(* The steps of one GPU's attestation. *)

ParseReport ==
    /\ pc = "report"
    /\ IF defect[i] = "parsed"
         THEN pc' = "except" /\ settings' = settings
         ELSE pc' = "chain" /\ settings' = Marked({"parsed"})
    /\ UNCHANGED <<opts, defect, nonce, collected, i, rims, overall, claims,
                   ready, pending, token, exit>>

(* The FWID and signature checks of the device chain, then its revocation. *)
ValidateCertChain ==
    /\ pc = "chain"
    /\ IF defect[i] = "certChain"
         THEN pc' = "except" /\ settings' = settings
         ELSE pc' = "authenticate" /\ settings' = Marked({"certChain"})
    /\ UNCHANGED <<opts, defect, nonce, collected, i, rims, overall, claims,
                   ready, pending, token, exit>>

ReportChecks == <<"nonce", "driverVersion", "vbiosVersion", "signature">>

(* Each check of the report is marked before the next one is made. *)
VerifyAttestationReport ==
    LET passed == {ReportChecks[k] : k \in
                     {k \in 1 .. 4 : \A j \in 1 .. k : ReportChecks[j] # defect[i]}}
    IN  /\ pc = "authenticate"
        /\ settings' = Marked(passed)
        /\ pc' = IF "signature" \in passed THEN "driverRim" ELSE "except"
        /\ UNCHANGED <<opts, defect, nonce, collected, i, rims, overall, claims,
                       ready, pending, token, exit>>

(* RIM.__init__ marks the RIM as fetched and then parses its measurements. *)
LoadedMarks(rim) ==
    IF defect[i] = rim.loaded THEN {}
    ELSE {rim.loaded} \cup (IF defect[i] = rim.parsed THEN {} ELSE {rim.parsed})

LoadFails(rim) == defect[i] \in {rim.loaded, rim.parsed}

(* A RIM file that cannot be read raises; one that cannot be fetched ends  *)
(* in sys.exit(), which skips the except clause.                           *)
LoadDriverRim ==
    /\ pc = "driverRim"
    /\ settings' = Marked(LoadedMarks(DriverRim))
    /\ IF LoadFails(DriverRim)
         THEN /\ pc' = IF LocalDriverRim THEN "except" ELSE "finally"
              /\ rims' = rims
         ELSE /\ pc' = "driverVerify"
              /\ rims' = [driver_rim |-> "driver", vbios_rim |-> rims.vbios_rim]
    /\ UNCHANGED <<opts, defect, nonce, collected, i, overall, claims, ready,
                   pending, token, exit>>

(* A VBIOS RIM read from a file is assigned to `driver_rim'.  On the way   *)
(* to the RIM service the file id is computed outside the inner try, so a  *)
(* failure there raises instead of exiting.                                *)
LoadVbiosRim ==
    /\ pc = "vbiosRim"
    /\ settings' = Marked(LoadedMarks(VbiosRim))
    /\ IF LoadFails(VbiosRim)
         THEN /\ \/ pc' = "except"
                    /\ (LocalVbiosRim \/ defect[i] = VbiosRim.loaded)
                 \/ pc' = "finally" /\ ~LocalVbiosRim
              /\ rims' = rims
         ELSE /\ pc' = "vbiosVerify"
              /\ rims' = IF LocalVbiosRim
                           THEN [driver_rim |-> "vbios", vbios_rim |-> rims.vbios_rim]
                           ELSE [driver_rim |-> rims.driver_rim, vbios_rim |-> "vbios"]
    /\ UNCHANGED <<opts, defect, nonce, collected, i, overall, claims, ready,
                   pending, token, exit>>

(* Mutant of VerifiedMarks: the certificate flag is forgotten. *)
VerifiedMarksWithoutCert(rim) ==
    {rim.schema, rim.version, rim.verified} \ {defect[i]}

(* RIM.verify: schema, version (a mismatch is only logged), certificate    *)
(* chain, revocation and signature; every other failure raises.            *)
VerifiedMarks(rim) ==
    IF defect[i] = rim.schema THEN {}
    ELSE {rim.schema}
           \cup (IF defect[i] = rim.version THEN {} ELSE {rim.version})
           \cup (IF defect[i] = rim.verified THEN {} ELSE {rim.cert, rim.verified})

VerifyFails(rim) == defect[i] \in {rim.schema, rim.verified}

VerifyDriverRim ==
    /\ pc = "driverVerify"
    /\ settings' = Marked(VerifiedMarks(DriverRim))
    /\ pc' = IF VerifyFails(DriverRim) THEN "except" ELSE "vbiosRim"
    /\ UNCHANGED <<opts, defect, nonce, collected, i, rims, overall, claims,
                   ready, pending, token, exit>>

(* With `vbios_rim' unbound the call itself raises UnboundLocalError. *)
VerifyVbiosRim ==
    /\ pc = "vbiosVerify"
    /\ IF rims.vbios_rim = "unbound"
         THEN pc' = "except" /\ settings' = settings
         ELSE /\ settings' = Marked(VerifiedMarks(VbiosRim))
              /\ pc' = IF VerifyFails(VbiosRim) THEN "except" ELSE "compare"
    /\ UNCHANGED <<opts, defect, nonce, collected, i, rims, overall, claims,
                   ready, pending, token, exit>>

(* Verifier(...) raises when both RIMs claim an index; verify() leaves the *)
(* measurements unmarked on a mismatch and raises on an index the report   *)
(* does not have.                                                          *)
CompareMeasurements ==
    /\ pc = "compare"
    /\ \/ /\ defect[i] = "noIndexConflict"
          /\ pc' = "except" /\ settings' = settings
       \/ /\ defect[i] = "measurements"
          /\ pc' \in {"record", "except"} /\ settings' = Marked({"noIndexConflict"})
       \/ /\ defect[i] \notin {"noIndexConflict", "measurements"}
          /\ pc' = "record" /\ settings' = Marked({"noIndexConflict", "measurements"})
    /\ UNCHANGED <<opts, defect, nonce, collected, i, rims, overall, claims,
                   ready, pending, token, exit>>

CheckStatus == StatusChecks \subseteq settings.marks

(* Mutant of RecordStatus: the last GPU decides alone. *)
RecordLastStatus ==
    /\ pc = "record"
    /\ overall' = CheckStatus
    /\ claims' = Append(claims, CurrentClaims)
    /\ pc' = "loop"
    /\ UNCHANGED <<opts, defect, nonce, collected, i, settings, rims, ready,
                   pending, token, exit>>

RecordStatus ==
    /\ pc = "record"
    /\ overall' = IF i = 0 THEN CheckStatus ELSE overall /\ CheckStatus
    /\ claims' = Append(claims, CurrentClaims)
    /\ pc' = "loop"
    /\ UNCHANGED <<opts, defect, nonce, collected, i, settings, rims, ready,
                   pending, token, exit>>
-----------------------------------------------------------------------------
(* Mutant of HandleException: the GPU that failed is attested again. *)
HandleExceptionRetrying ==
    /\ pc = "except"
    /\ pc' = IF i = Unbound THEN "finally" ELSE "settings"
    /\ UNCHANGED <<opts, defect, nonce, collected, i, settings, rims, overall,
                   claims, ready, pending, token, exit>>

(* The except clause reports the current GPU from the current `settings',  *)
(* and itself raises when either is unbound.  It leaves overall_status.    *)
HandleException ==
    /\ pc = "except"
    /\ claims' = IF i = Unbound \/ settings.gpu = Unbound
                   THEN claims ELSE Append(claims, CurrentClaims)
    /\ pc' = "finally"
    /\ UNCHANGED <<opts, defect, nonce, collected, i, settings, rims, overall,
                   ready, pending, token, exit>>

(* Mutant of MaySetReady: the user mode is forgotten. *)
MaySetReadyInUserMode == overall /\ ~opts.testNoGpu

MaySetReady == overall /\ ~opts.userMode /\ ~opts.testNoGpu

(* An exception of the finally clause is not caught by anyone. *)
Crash == pc' = "done" /\ exit' = 1

(* Mutant of CheckReadyState: the state is read and never set. *)
CheckReadyStateOnly ==
    /\ pc = "finally"
    /\ pc' = "token"
    /\ UNCHANGED <<opts, defect, nonce, collected, i, settings, rims, overall,
                   claims, ready, pending, token, exit>>

(* get_gpu_ready_state() answers, or times out. *)
CheckReadyState ==
    /\ pc = "finally"
    /\ \/ /\ pc' = IF MaySetReady /\ ~ready THEN "setReady" ELSE "token"
          /\ exit' = exit
       \/ MaySetReady /\ Crash
    /\ UNCHANGED <<opts, defect, nonce, collected, i, settings, rims, overall,
                   claims, ready, pending, token>>

(* set_gpu_ready_state(True) returns, or times out with its thread alive. *)
SetReadyState ==
    /\ pc = "setReady"
    /\ \/ ready' = TRUE /\ pending' = pending /\ pc' = "token" /\ exit' = exit
       \/ ready' = ready /\ pending' = TRUE /\ Crash
    /\ UNCHANGED <<opts, defect, nonce, collected, i, settings, rims, overall,
                   claims, token>>

(* The abandoned thread finishes its driver call later, or fails. *)
LateSetReady ==
    /\ pending
    /\ pending' = FALSE
    /\ ready' \in {TRUE, ready}
    /\ UNCHANGED <<opts, defect, pc, nonce, collected, i, settings, rims,
                   overall, claims, token, exit>>

(* create_detached_eat_claims, the return of attest() and the end of main. *)
CreateToken ==
    /\ pc = "token"
    /\ token' = IF overall THEN "pass" ELSE "fail"
    /\ exit' = IF overall THEN 0 ELSE 1
    /\ pc' = "done"
    /\ UNCHANGED <<opts, defect, nonce, collected, i, settings, rims, overall,
                   claims, ready, pending>>

Collection == GetUserNonce \/ InitNvml \/ CollectGpuEvidence \/ Configure

AttestGpu ==
    \/ SelectSettings \/ ParseReport \/ ValidateCertChain
    \/ VerifyAttestationReport \/ LoadDriverRim \/ VerifyDriverRim
    \/ LoadVbiosRim \/ VerifyVbiosRim \/ CompareMeasurements \/ RecordStatus

Conclusion ==
    HandleException \/ CheckReadyState \/ SetReadyState \/ CreateToken

MainThread == Collection \/ NextGpu \/ AttestGpu \/ Conclusion

Next == MainThread \/ LateSetReady

(* Every driver and network call of the main thread but the IMDS query is  *)
(* made under a timeout, so the thread keeps moving.                       *)
Spec == Init /\ [][Next]_vars /\ WF_vars(MainThread)
-----------------------------------------------------------------------------
TryPoints == {"settings", "report", "chain", "authenticate", "driverRim",
              "driverVerify", "vbiosRim", "vbiosVerify", "compare", "record"}

ProgramPoints == TryPoints \cup
    {"nonce", "init_nvml", "collect", "configure", "loop", "except", "finally",
     "setReady", "token", "done"}

(* Every variable keeps the kind of value the code gives it. *)
TypeOK ==
    /\ opts \in OptionRecord
    /\ defect \in [Gpus -> Defects]
    /\ pc \in ProgramPoints
    /\ nonce \in {"none", "test", "user", "random"}
    /\ collected \in 0 .. N
    /\ i \in Gpus \cup {Unbound}
    /\ settings \in [gpu : Gpus \cup {Unbound}, marks : SUBSET Marks]
    /\ rims \in [driver_rim : {"unbound", "driver", "vbios"},
                 vbios_rim : {"unbound", "vbios"}]
    /\ overall \in BOOLEAN
    /\ claims \in Seq([idx : Gpus, from : Gpus, marks : SUBSET Marks])
    /\ ready \in BOOLEAN
    /\ pending \in BOOLEAN
    /\ token \in {"none", "pass", "fail"}
    /\ exit \in {Running, 0, 1}

(* A TRUE overall_status means that every GPU whose status was folded in   *)
(* (cc_admin.py:647-650) has sound evidence.  The one GPU it does not      *)
(* speak for is a later one whose attestation raised: the except clause    *)
(* appends its claims and leaves overall_status alone.  GPU 0 is never     *)
(* that GPU.                                                               *)
OverallSound ==
    overall => /\ claims # <<>>
               /\ \A k \in 1 .. Len(claims) :
                      \/ Verified(claims[k].idx)
                      \/ k > 1 /\ k = Len(claims) /\ pc \notin TryPoints \cup {"loop"}

(* The claims are those of GPU 0, 1, 2, ... in that order and none reports *)
(* a check as passed that fails for the GPU whose settings it was read     *)
(* from.  That is the GPU itself, but for the last claim when its          *)
(* architecture is unknown: then the previous GPU's results are reported.  *)
ClaimsFaithful ==
    \A k \in 1 .. Len(claims) :
        /\ claims[k].idx = k - 1
        /\ claims[k].idx < collected
        /\ defect[claims[k].from] \notin claims[k].marks
        /\ \/ claims[k].from = k - 1
           \/ /\ k > 1 /\ k = Len(claims) /\ claims[k].from = k - 2
              /\ defect[k - 1] = "arch"

(* The ready state is only ever switched on, outside user and test mode,   *)
(* by a run whose overall status is TRUE, with GPU 0 verified and no VBIOS *)
(* RIM file on the command line: also when the switch comes late, from a   *)
(* thread the main thread has given up on (cc_admin.py:663-671).           *)
ReadyOnlyIfAttested ==
    [][ready' # ready => /\ ready' /\ overall /\ Verified(0)
                         /\ ~opts.userMode /\ ~LocalVbiosRim]_vars

(* Exit code 0, on which the callers of the verifier rely, comes with a    *)
(* passing token and, outside user and test mode, with ready GPUs.         *)
ExitZeroMeansReady ==
    exit = 0 => /\ token = "pass" /\ overall /\ ~pending
                /\ (opts.userMode \/ opts.testNoGpu \/ ready)

(* A failing token has a cause: a claims version or URL the verifier must  *)
(* refuse, a GPU whose evidence could not be collected or that fails a     *)
(* check, or one of two documented options that the code cannot serve:     *)
(* --rim_root_cert (cc_admin.py:415) and --vbios_rim (cc_admin.py:581).    *)
(* Without these two a sound system is never turned away                   *)
(* (cc_admin.py:641-650, config.py:468).                                   *)
FailureHasCause ==
    token = "fail" => \/ ~opts.configOk
                      \/ opts.rimRoot
                      \/ LocalVbiosRim
                      \/ collected < GpuCount
                      \/ \E g \in 0 .. GpuCount - 1 : ~Verified(g)

(* Every run of the verifier comes to an end with an exit code. *)
RunEnds == <>(exit # Running)
-----------------------------------------------------------------------------
(* README.md:33 of the verifier: it sets the GPU ready state "based on the *)
(* Attestation results"; a run that sets it would then have verified every *)
(* GPU it has evidence of.  The code violates it with two GPUs or more.    *)
EveryGpuVerified ==
    [][ready' # ready => \A g \in 0 .. collected - 1 : Verified(g)]_vars

(* README.md:114 of the verifier offers --vbios_rim, "The path to the      *)
(* VBIOS RIM": sound GPUs attested with such a file would pass.  The code  *)
(* violates it, since the file is assigned to driver_rim.                  *)
LocalVbiosRimWorks ==
    (/\ token = "fail" /\ opts.configOk /\ ~opts.rimRoot
     /\ collected = GpuCount
     /\ \A g \in 0 .. GpuCount - 1 : defect[g] = "none") => ~opts.vbiosRim
-----------------------------------------------------------------------------
(* The inductive invariant behind the theorems of GpuAttestationProofs, one *)
(* part per fact.                                                           *)

(* Where the loop is: one claim per GPU done, settings of the current GPU. *)
BeforeLoop == {"nonce", "init_nvml", "collect", "configure"}

LocationInv ==
    /\ pc \in BeforeLoop =>
          i = Unbound /\ settings.gpu = Unbound /\ claims = <<>> /\ ~overall
    /\ pc = "loop" =>
          i < collected /\ Len(claims) = i + 1 /\ settings.gpu = i
    /\ pc \in TryPoints =>
          /\ i \in Gpus /\ i < collected /\ Len(claims) = i
          /\ settings.gpu = IF pc = "settings" THEN i - 1 ELSE i
    /\ pc = "except" =>
          \/ i = Unbound /\ settings.gpu = Unbound /\ claims = <<>>
          \/ /\ i \in Gpus /\ i < collected /\ Len(claims) = i
             /\ \/ settings.gpu = i
                \/ settings.gpu = i - 1 /\ defect[i] = "arch"

(* Only GPUs that gave evidence are attested. *)
EvidenceInv ==
    /\ collected <= GpuCount
    /\ \A g \in 0 .. collected - 1 : defect[g] # "evidence"

(* The settings object holds no mark that its own GPU does not deserve. *)
MarksInv ==
    /\ settings.gpu = Unbound => settings.marks = {}
    /\ settings.gpu # Unbound => defect[settings.gpu] \notin settings.marks

(* While the loop runs every claim is the GPU's own. *)
ClaimsInv ==
    pc \in TryPoints \cup {"loop", "except"} =>
        \A k \in 1 .. Len(claims) : claims[k].from = k - 1

OverallInv ==
    overall =>
        /\ claims # <<>>
        /\ ~LocalVbiosRim
        /\ pc \in TryPoints \cup {"loop", "except"} =>
              \A k \in 1 .. Len(claims) : Verified(claims[k].idx)

(* Nothing is compared against a VBIOS RIM that was read from a file. *)
RimsInv ==
    /\ LocalVbiosRim => rims.vbios_rim = "unbound"
    /\ pc \in {"compare", "record"} => ~LocalVbiosRim

ExitInv ==
    /\ pc # "done" => exit = Running /\ token = "none" /\ ~pending
    /\ pc = "done" => exit # Running
    /\ pending => MaySetReady /\ exit = 1
    /\ pc = "setReady" => MaySetReady
    /\ pc = "token" => (MaySetReady => ready)

IInv ==
    /\ TypeOK /\ LocationInv /\ EvidenceInv /\ MarksInv /\ ClaimsInv
    /\ ClaimsFaithful /\ OverallInv /\ OverallSound /\ RimsInv /\ ExitInv
    /\ ExitZeroMeansReady
-----------------------------------------------------------------------------
(* The inductive invariant behind FailureHasCause, relative to IInv: what a *)
(* run on a sound system has achieved by the time it reaches each point.    *)

(* The command line is one the code can serve, and every GPU would pass    *)
(* its checks.                                                             *)
SoundSystem ==
    /\ opts.configOk /\ ~opts.rimRoot /\ ~LocalVbiosRim
    /\ \A g \in 0 .. GpuCount - 1 : Verified(g)

(* The marks the settings hold at each point of the attestation of a GPU. *)
Achieved ==
    /\ pc \in TryPoints \ {"settings"} => "arch" \in settings.marks
    /\ pc \in TryPoints \ {"settings", "report"} => "parsed" \in settings.marks
    /\ pc \in TryPoints \ {"settings", "report", "chain"} =>
          "certChain" \in settings.marks
    /\ pc \in {"driverRim", "driverVerify", "vbiosRim", "vbiosVerify", "compare", "record"} =>
          {"nonce", "driverVersion", "vbiosVersion", "signature"} \subseteq settings.marks
    /\ pc \in {"driverVerify", "vbiosRim", "vbiosVerify", "compare", "record"} =>
          {"driverRimFetched", "driverRimMeasurements"} \subseteq settings.marks
    /\ pc \in {"vbiosRim", "vbiosVerify", "compare", "record"} =>
          {"driverRimSchema", "driverRimCert", "driverRimSignature"} \subseteq settings.marks
    /\ pc \in {"vbiosVerify", "compare", "record"} =>
          {"vbiosRimFetched", "vbiosRimMeasurements"} \subseteq settings.marks
    /\ pc \in {"compare", "record"} =>
          {"vbiosRimSchema", "vbiosRimSignature"} \subseteq settings.marks
    /\ pc = "record" => {"noIndexConflict", "measurements"} \subseteq settings.marks

(* Nothing raises, every GPU counted so far has passed, and the loop is     *)
(* only left without a claim when the evidence is incomplete.               *)
SoundInv ==
    /\ SoundSystem =>
          /\ pc # "except"
          /\ Achieved
          /\ pc = "vbiosVerify" => rims.vbios_rim = "vbios"
          /\ claims # <<>> => overall
          /\ pc \in {"finally", "setReady", "token", "done"} =>
                claims # <<>> \/ collected < GpuCount
    /\ token = "fail" => pc = "done" /\ ~overall
    /\ token = "pass" => pc = "done" /\ overall
=============================================================================

------------------------ MODULE GpuAttestationProofs ------------------------
(***************************************************************************)
(* What GpuAttestation guarantees for every number of GPUs and every set   *)
(* of command lines.                                                       *)
(***************************************************************************)
EXTENDS GpuAttestation, TLAPS

(* What a step may mark: known checks, and none the current GPU fails. *)
Deserved(g) == {m \in Marks : m # defect[g]}

(* What a passed check marks, or the loading of a RIM, is deserved. *)
LEMMA StepMarks ==
    /\ defect[i] # "arch" => {"arch"} \in SUBSET Deserved(i)
    /\ defect[i] # "parsed" => {"parsed"} \in SUBSET Deserved(i)
    /\ defect[i] # "certChain" => {"certChain"} \in SUBSET Deserved(i)
    /\ LoadedMarks(DriverRim) \in SUBSET Deserved(i)
    /\ LoadedMarks(VbiosRim) \in SUBSET Deserved(i)
    /\ defect[i] # "noIndexConflict" =>
           {"noIndexConflict"} \in SUBSET Deserved(i)
    /\ defect[i] \notin {"noIndexConflict", "measurements"} =>
           {"noIndexConflict", "measurements"} \in SUBSET Deserved(i)
BY DEF Deserved, Marks, StatusChecks, AdvisoryChecks, LoadedMarks,
       DriverRim, VbiosRim

(* What verifying a RIM marks is deserved. *)
LEMMA VerifyMarks ==
    ASSUME defect[i] \in Defects
    PROVE  /\ VerifiedMarks(DriverRim) \in SUBSET Deserved(i)
           /\ VerifiedMarks(VbiosRim) \in SUBSET Deserved(i)
BY DEF Deserved, Marks, StatusChecks, AdvisoryChecks, Defects, VerifiedMarks,
       DriverRim, VbiosRim

(* A GPU with every status check marked, none undeserved, is verified. *)
LEMMA StatusVerified ==
    ASSUME NEW g \in Gpus, defect[g] \in Defects, defect[g] # "evidence",
           NEW S, StatusChecks \subseteq S, defect[g] \notin S
    PROVE  Verified(g)
BY DEF Verified, Defects, StatusChecks

(* The checks of the report that pass before the first one that fails. *)
LEMMA ReportMarks ==
    ASSUME NEW passed,
           passed = {ReportChecks[k] : k \in
                       {k \in 1 .. 4 : \A j \in 1 .. k : ReportChecks[j] # defect[i]}}
    PROVE  passed \in SUBSET Deserved(i)
<1>1. \A k \in 1 .. 4 : ReportChecks[k] \in Marks
  BY DEF ReportChecks, Marks, StatusChecks
<1>2. ASSUME NEW k \in 1 .. 4, \A j \in 1 .. k : ReportChecks[j] # defect[i]
      PROVE  ReportChecks[k] \in Deserved(i)
  <2>1. ReportChecks[k] # defect[i]
    BY <1>2
  <2>2. QED
    BY <1>1, <2>1 DEF Deserved
<1>3. QED
  BY <1>2

-----------------------------------------------------------------------------
(* The initial states satisfy the invariant. *)
LEMMA InitIInv == Init => IInv
<1>. SUFFICES ASSUME Init PROVE IInv
  OBVIOUS
<1>. USE NAssumption, OptionsAssumption
<1>1. TypeOK
  <2>1. claims \in Seq([idx : Gpus, from : Gpus, marks : SUBSET Marks])
    BY DEF Init
  <2>2. /\ settings \in [gpu : Gpus \cup {Unbound}, marks : SUBSET Marks]
        /\ rims \in [driver_rim : {"unbound", "driver", "vbios"},
                     vbios_rim : {"unbound", "vbios"}]
    BY DEF Init, NoSettings, NoRims
  <2>3. overall \in BOOLEAN /\ ready \in BOOLEAN /\ pending \in BOOLEAN
    BY DEF Init
  <2>4. opts \in OptionRecord /\ defect \in [Gpus -> Defects]
    BY DEF Init
  <2>5. QED
    BY <2>1, <2>2, <2>3, <2>4
       DEF Init, TypeOK, Gpus, Unbound, Running, ProgramPoints
<1>2. LocationInv /\ EvidenceInv
  BY DEF Init, LocationInv, EvidenceInv, NoSettings, Unbound, GpuCount, TryPoints
<1>3. MarksInv /\ ClaimsInv /\ ClaimsFaithful /\ OverallInv /\ OverallSound
  BY DEF Init, MarksInv, ClaimsInv, ClaimsFaithful, OverallInv, OverallSound,
         NoSettings, Unbound, TryPoints
<1>4. RimsInv /\ ExitInv /\ ExitZeroMeansReady
  BY DEF Init, RimsInv, ExitInv, ExitZeroMeansReady, NoRims, Running
<1>5. QED
  BY <1>1, <1>2, <1>3, <1>4 DEF IInv

(* Marking keeps the type of the settings object. *)
LEMMA MarkedType ==
    ASSUME TypeOK, NEW S \in SUBSET Deserved(i)
    PROVE  Marked(S) \in [gpu : Gpus \cup {Unbound}, marks : SUBSET Marks]
<1>1. settings.gpu \in Gpus \cup {Unbound} /\ settings.marks \in SUBSET Marks
  BY DEF TypeOK
<1>2. settings.marks \cup S \in SUBSET Marks
  BY <1>1 DEF Deserved
<1>3. QED
  BY <1>1, <1>2 DEF Marked

(* So does appending the claims of a GPU whose settings are bound. *)
LEMMA ClaimsType ==
    ASSUME TypeOK, i # Unbound, settings.gpu # Unbound
    PROVE  Append(claims, CurrentClaims)
             \in Seq([idx : Gpus, from : Gpus, marks : SUBSET Marks])
<1> DEFINE T == [idx : Gpus, from : Gpus, marks : SUBSET Marks]
<1>1. CurrentClaims \in T
  BY DEF TypeOK, CurrentClaims
<1>2. claims \in Seq(T)
  BY DEF TypeOK
<1>. HIDE DEF T
<1>3. Append(claims, CurrentClaims) \in Seq(T)
  BY <1>1, <1>2
<1>4. QED
  BY <1>3 DEF T

(* Every step keeps the types: one case per action. *)
LEMMA TypeStep ==
    ASSUME IInv, Next
    PROVE  TypeOK'
<1>. USE NAssumption, OptionsAssumption
<1>. USE DEF TypeOK, IInv, Unbound, Running, ProgramPoints, TryPoints, Gpus
<1>1. CASE GetUserNonce
  BY <1>1 DEF GetUserNonce
<1>2. CASE InitNvml
  BY <1>2 DEF InitNvml
<1>3. CASE CollectGpuEvidence
  BY <1>3 DEF CollectGpuEvidence, GpuCount, EvidenceInv
<1>4. CASE Configure
  BY <1>4 DEF Configure
<1>5. CASE NextGpu
  BY <1>5 DEF NextGpu
<1>6. CASE SelectSettings
  BY <1>6, StepMarks DEF SelectSettings, Deserved, Marked
<1>7. CASE ParseReport
  BY <1>7, StepMarks DEF ParseReport, Deserved, Marked
<1>8. CASE ValidateCertChain
  BY <1>8, StepMarks DEF ValidateCertChain, Deserved, Marked
<1>9. CASE VerifyAttestationReport
  <2>1. PICK passed \in SUBSET Deserved(i) : settings' = Marked(passed)
    <3>. HIDE DEF TypeOK, IInv
    <3>1. QED
      BY <1>9, ReportMarks DEF VerifyAttestationReport
  <2>2. settings' \in [gpu : Gpus \cup {Unbound}, marks : SUBSET Marks]
    <3>. HIDE DEF TypeOK
    <3>1. TypeOK
      BY DEF IInv
    <3>2. QED
      BY <2>1, <3>1, MarkedType
  <2>3. /\ pc' \in {"driverRim", "except"}
        /\ UNCHANGED <<opts, defect, nonce, collected, i, rims, overall, claims, ready,
                       pending, token, exit>>
    BY ONLY <1>9 DEF VerifyAttestationReport
  <2>4. QED
    BY <2>2, <2>3
<1>10. CASE LoadDriverRim
  BY <1>10, StepMarks DEF LoadDriverRim, Deserved, Marked
<1>11. CASE VerifyDriverRim
  <2>1. defect[i] \in Defects
    BY <1>11 DEF VerifyDriverRim, LocationInv
  <2>2. settings' \in [gpu : Gpus \cup {Unbound}, marks : SUBSET Marks]
    BY <1>11, <2>1, VerifyMarks, MarkedType DEF VerifyDriverRim
  <2>3. QED
    BY <1>11, <2>2 DEF VerifyDriverRim
<1>12. CASE LoadVbiosRim
  BY <1>12, StepMarks DEF LoadVbiosRim, Deserved, Marked
<1>13. CASE VerifyVbiosRim
  <2>1. defect[i] \in Defects
    BY <1>13 DEF VerifyVbiosRim, LocationInv
  <2>2. settings' \in [gpu : Gpus \cup {Unbound}, marks : SUBSET Marks]
    BY <1>13, <2>1, VerifyMarks, MarkedType DEF VerifyVbiosRim
  <2>3. QED
    BY <1>13, <2>2 DEF VerifyVbiosRim
<1>14. CASE CompareMeasurements
  BY <1>14, StepMarks DEF CompareMeasurements, Deserved, Marked
<1>15. CASE RecordStatus
  <2>1. i # Unbound /\ settings.gpu # Unbound
    BY <1>15 DEF RecordStatus, LocationInv
  <2>2. claims' \in Seq([idx : Gpus, from : Gpus, marks : SUBSET Marks])
    BY <1>15, <2>1, ClaimsType DEF RecordStatus
  <2>3. overall' \in BOOLEAN
    BY <1>15 DEF RecordStatus, CheckStatus
  <2>4. QED
    BY <1>15, <2>2, <2>3 DEF RecordStatus
<1>16. CASE HandleException
  <2>1. claims' \in Seq([idx : Gpus, from : Gpus, marks : SUBSET Marks])
    BY <1>16, ClaimsType DEF HandleException
  <2>2. QED
    BY <1>16, <2>1 DEF HandleException
<1>17. CASE CheckReadyState
  BY <1>17 DEF CheckReadyState, Crash
<1>18. CASE SetReadyState
  <2>1. ready' \in BOOLEAN /\ pending' \in BOOLEAN
    BY <1>18, Zenon DEF SetReadyState
  <2>2. QED
    BY <1>18, <2>1 DEF SetReadyState, Crash
<1>19. CASE LateSetReady
  <2>1. ready' \in BOOLEAN /\ pending' \in BOOLEAN
    BY <1>19, Zenon DEF LateSetReady
  <2>2. QED
    BY <1>19, <2>1 DEF LateSetReady
<1>20. CASE CreateToken
  BY <1>20 DEF CreateToken
<1>21. QED
  BY <1>1, <1>2, <1>3, <1>4, <1>5, <1>6, <1>7, <1>8, <1>9, <1>10, <1>11, <1>12, <1>13, <1>14, <1>15, <1>16, <1>17, <1>18, <1>19, <1>20
     DEF Next, MainThread, Collection, AttestGpu, Conclusion

(* Every step keeps the loop, the claims and the settings together. *)
LEMMA LocationStep ==
    ASSUME IInv, Next
    PROVE  LocationInv'
<1>. USE NAssumption, OptionsAssumption
<1>. USE DEF LocationInv, TypeOK, IInv, Unbound, TryPoints, BeforeLoop, Gpus
<1>1. CASE GetUserNonce
  BY <1>1 DEF GetUserNonce
<1>2. CASE InitNvml
  BY <1>2 DEF InitNvml
<1>3. CASE CollectGpuEvidence
  BY <1>3 DEF CollectGpuEvidence
<1>4. CASE Configure
  BY <1>4 DEF Configure
<1>5. CASE NextGpu
  BY <1>5 DEF NextGpu
<1>6. CASE SelectSettings
  BY <1>6 DEF SelectSettings, Marked
<1>7. CASE ParseReport
  BY <1>7 DEF ParseReport, Marked
<1>8. CASE ValidateCertChain
  BY <1>8 DEF ValidateCertChain, Marked
<1>9. CASE VerifyAttestationReport
  BY <1>9 DEF VerifyAttestationReport, Marked
<1>10. CASE LoadDriverRim
  BY <1>10 DEF LoadDriverRim, Marked
<1>11. CASE VerifyDriverRim
  BY <1>11 DEF VerifyDriverRim, Marked
<1>12. CASE LoadVbiosRim
  BY <1>12 DEF LoadVbiosRim, Marked
<1>13. CASE VerifyVbiosRim
  BY <1>13 DEF VerifyVbiosRim, Marked
<1>14. CASE CompareMeasurements
  BY <1>14 DEF CompareMeasurements, Marked
<1>15. CASE RecordStatus
  BY <1>15 DEF RecordStatus, CurrentClaims
<1>16. CASE HandleException
  BY <1>16 DEF HandleException, CurrentClaims
<1>17. CASE CheckReadyState
  BY <1>17 DEF CheckReadyState, Crash
<1>18. CASE SetReadyState
  BY <1>18 DEF SetReadyState, Crash
<1>19. CASE LateSetReady
  BY <1>19 DEF LateSetReady
<1>20. CASE CreateToken
  BY <1>20 DEF CreateToken
<1>21. QED
  BY <1>1, <1>2, <1>3, <1>4, <1>5, <1>6, <1>7, <1>8, <1>9, <1>10, <1>11, <1>12, <1>13, <1>14, <1>15, <1>16, <1>17, <1>18, <1>19, <1>20
     DEF Next, MainThread, Collection, AttestGpu, Conclusion

(* Every step leaves the settings with deserved marks only. *)
LEMMA MarksStep ==
    ASSUME IInv, Next
    PROVE  MarksInv'
<1>. USE NAssumption, OptionsAssumption
<1>. USE DEF MarksInv, LocationInv, TypeOK, IInv, Unbound, TryPoints, Gpus
<1>1. CASE GetUserNonce
  BY <1>1 DEF GetUserNonce
<1>2. CASE InitNvml
  BY <1>2 DEF InitNvml
<1>3. CASE CollectGpuEvidence
  BY <1>3 DEF CollectGpuEvidence
<1>4. CASE Configure
  BY <1>4 DEF Configure
<1>5. CASE NextGpu
  BY <1>5 DEF NextGpu
<1>6. CASE SelectSettings
  BY <1>6, StepMarks DEF SelectSettings, Deserved, Marked
<1>7. CASE ParseReport
  BY <1>7, StepMarks DEF ParseReport, Deserved, Marked
<1>8. CASE ValidateCertChain
  BY <1>8, StepMarks DEF ValidateCertChain, Deserved, Marked
<1>9. CASE VerifyAttestationReport
  BY <1>9, ReportMarks DEF VerifyAttestationReport, Deserved, Marked
<1>10. CASE LoadDriverRim
  BY <1>10, StepMarks DEF LoadDriverRim, Deserved, Marked
<1>11. CASE VerifyDriverRim
  BY <1>11, VerifyMarks DEF VerifyDriverRim, Deserved, Marked
<1>12. CASE LoadVbiosRim
  BY <1>12, StepMarks DEF LoadVbiosRim, Deserved, Marked
<1>13. CASE VerifyVbiosRim
  BY <1>13, VerifyMarks DEF VerifyVbiosRim, Deserved, Marked
<1>14. CASE CompareMeasurements
  BY <1>14, StepMarks DEF CompareMeasurements, Deserved, Marked
<1>15. CASE RecordStatus
  BY <1>15 DEF RecordStatus
<1>16. CASE HandleException
  BY <1>16 DEF HandleException
<1>17. CASE CheckReadyState
  BY <1>17 DEF CheckReadyState
<1>18. CASE SetReadyState
  BY <1>18 DEF SetReadyState
<1>19. CASE LateSetReady
  BY <1>19 DEF LateSetReady
<1>20. CASE CreateToken
  BY <1>20 DEF CreateToken
<1>21. QED
  BY <1>1, <1>2, <1>3, <1>4, <1>5, <1>6, <1>7, <1>8, <1>9, <1>10, <1>11, <1>12, <1>13, <1>14, <1>15, <1>16, <1>17, <1>18, <1>19, <1>20
     DEF Next, MainThread, Collection, AttestGpu, Conclusion

(* The constants of a run, as the code treats them. *)
LEMMA RunConstants ==
    ASSUME Next
    PROVE  opts' = opts /\ defect' = defect
BY DEF Next, MainThread, Collection, AttestGpu, Conclusion, GetUserNonce,
       InitNvml, CollectGpuEvidence, Configure, NextGpu, SelectSettings,
       ParseReport, ValidateCertChain, VerifyAttestationReport, LoadDriverRim,
       VerifyDriverRim, LoadVbiosRim, VerifyVbiosRim, CompareMeasurements,
       RecordStatus, HandleException, CheckReadyState, SetReadyState,
       LateSetReady, CreateToken

(* Only collect_gpu_evidence counts GPUs, and stops at one without evidence. *)
LEMMA EvidenceStep ==
    ASSUME IInv, Next
    PROVE  EvidenceInv'
<1>1. CASE CollectGpuEvidence
  <2>1. GpuCount \in Int /\ GpuCount' = GpuCount /\ collected \in Int
    BY RunConstants, NAssumption DEF GpuCount, IInv, TypeOK
  <2>2. /\ collected <= GpuCount
        /\ \A g \in 0 .. collected - 1 : defect[g] # "evidence"
    BY DEF IInv, EvidenceInv
  <2>3. \/ /\ collected' = collected + 1 /\ collected < GpuCount
           /\ defect[collected] # "evidence"
        \/ collected' = collected
    BY <1>1 DEF CollectGpuEvidence
  <2>4. \A g \in 0 .. collected' - 1 : defect[g] # "evidence"
    BY <2>1, <2>2, <2>3
  <2>5. QED
    BY <2>1, <2>2, <2>3, <2>4, RunConstants DEF EvidenceInv
<1>2. CASE ~CollectGpuEvidence
  <2>1. collected' = collected
    BY <1>2 DEF Next, MainThread, Collection, AttestGpu, Conclusion,
         GetUserNonce, InitNvml, Configure, NextGpu, SelectSettings,
         ParseReport, ValidateCertChain, VerifyAttestationReport,
         LoadDriverRim, VerifyDriverRim, LoadVbiosRim, VerifyVbiosRim,
         CompareMeasurements, RecordStatus, HandleException, CheckReadyState,
         SetReadyState, LateSetReady, CreateToken
  <2>2. QED
    BY <2>1, RunConstants DEF EvidenceInv, GpuCount, IInv
<1>3. QED
  BY <1>1, <1>2

-----------------------------------------------------------------------------
(* Only two steps append to the claims, and each of them appends one. *)
LEMMA ClaimsUnchanged ==
    ASSUME Next, ~RecordStatus, ~HandleException
    PROVE  claims' = claims
BY DEF Next, MainThread, Collection, AttestGpu, Conclusion, GetUserNonce,
       InitNvml, CollectGpuEvidence, Configure, NextGpu, SelectSettings,
       ParseReport, ValidateCertChain, VerifyAttestationReport, LoadDriverRim,
       VerifyDriverRim, LoadVbiosRim, VerifyVbiosRim, CompareMeasurements,
       CheckReadyState, SetReadyState, LateSetReady, CreateToken

(* The appended claims, entry by entry. *)
LEMMA ClaimsAppended ==
    ASSUME TypeOK, claims' = Append(claims, CurrentClaims)
    PROVE  /\ Len(claims) \in Nat
           /\ Len(claims') = Len(claims) + 1
           /\ \A k \in 1 .. Len(claims) : claims'[k] = claims[k]
           /\ claims'[Len(claims')].idx = i
           /\ claims'[Len(claims')].from = settings.gpu
           /\ claims'[Len(claims')].marks = settings.marks
<1>1. claims \in Seq([idx : Gpus, from : Gpus, marks : SUBSET Marks])
  BY DEF TypeOK
<1>2. /\ Len(claims) \in Nat
      /\ Len(claims') = Len(claims) + 1
      /\ \A k \in 1 .. Len(claims) : claims'[k] = claims[k]
      /\ claims'[Len(claims')] = CurrentClaims
  BY <1>1
<1>3. QED
  BY <1>2 DEF CurrentClaims

(* Once the main thread has left the try block it does not return to it. *)
InTry == TryPoints \cup {"loop", "except"}

(* The one step that enters is Configure, and there are no claims then. *)
LEMMA TryEntered ==
    ASSUME IInv, Next, pc \notin InTry, pc' \in InTry
    PROVE  claims = <<>> /\ claims' = claims /\ overall' = overall
<1>1. pc = "configure"
  <2>1. ~AttestGpu /\ ~NextGpu /\ ~HandleException
    BY DEF InTry, TryPoints, AttestGpu, NextGpu, SelectSettings, ParseReport,
         ValidateCertChain, VerifyAttestationReport, LoadDriverRim,
         VerifyDriverRim, LoadVbiosRim, VerifyVbiosRim, CompareMeasurements,
         RecordStatus, HandleException
  <2>2. ~LateSetReady
    BY DEF LateSetReady
  <2>3. ~GetUserNonce /\ ~InitNvml /\ ~CollectGpuEvidence
    BY DEF GetUserNonce, InitNvml, CollectGpuEvidence, InTry, TryPoints
  <2>4. ~CheckReadyState /\ ~SetReadyState /\ ~CreateToken
    BY DEF CheckReadyState, SetReadyState, CreateToken, Crash, InTry, TryPoints
  <2>5. QED
    BY <2>1, <2>2, <2>3, <2>4
       DEF Next, MainThread, Collection, Conclusion, Configure
<1>2. Configure \/ LateSetReady
  BY <1>1 DEF Next, MainThread, Collection, AttestGpu, Conclusion,
       GetUserNonce, InitNvml, CollectGpuEvidence, NextGpu, SelectSettings,
       ParseReport, ValidateCertChain, VerifyAttestationReport, LoadDriverRim,
       VerifyDriverRim, LoadVbiosRim, VerifyVbiosRim, CompareMeasurements,
       RecordStatus, HandleException, CheckReadyState, SetReadyState,
       CreateToken
<1>3. QED
  BY <1>1, <1>2
     DEF IInv, LocationInv, BeforeLoop, Configure, LateSetReady

(* While the loop runs, each GPU has claims of its own appended. *)
LEMMA ClaimsStep ==
    ASSUME IInv, Next
    PROVE  ClaimsInv'
<1>. USE DEF IInv
<1>1. CASE RecordStatus
  <2>1. /\ claims' = Append(claims, CurrentClaims)
        /\ i \in Gpus /\ Len(claims) = i /\ settings.gpu = i
    BY <1>1 DEF RecordStatus, LocationInv, TryPoints
  <2>2. \A k \in 1 .. Len(claims) : claims[k].from = k - 1
    BY <1>1 DEF RecordStatus, ClaimsInv, TryPoints
  <2>3. QED
    BY <2>1, <2>2, ClaimsAppended DEF ClaimsInv, Gpus
<1>2. CASE HandleException
  BY <1>2 DEF HandleException, ClaimsInv, TryPoints
<1>3. CASE ~RecordStatus /\ ~HandleException
  <2>1. claims' = claims
    BY <1>3, ClaimsUnchanged
  <2>2. CASE pc \in InTry
    BY <2>1, <2>2 DEF ClaimsInv, InTry
  <2>3. CASE pc \notin InTry /\ pc' \in InTry
    BY <2>3, TryEntered DEF ClaimsInv
  <2>4. CASE pc' \notin InTry
    BY <2>4 DEF ClaimsInv, InTry
  <2>5. QED
    BY <2>2, <2>3, <2>4
<1>4. QED
  BY <1>1, <1>2, <1>3

(* Appending the claims of the current GPU keeps them faithful. *)
LEMMA FaithfulAppended ==
    ASSUME IInv, Next,
           claims' = Append(claims, CurrentClaims),
           i \in Gpus, i < collected, Len(claims) = i, collected <= collected',
           settings.gpu = i \/ (settings.gpu = i - 1 /\ defect[i] = "arch"),
           settings.gpu # Unbound,
           defect[settings.gpu] \notin settings.marks,
           \A k \in 1 .. Len(claims) : claims[k].from = k - 1
    PROVE  ClaimsFaithful'
<1>. SUFFICES ASSUME NEW k \in 1 .. Len(claims')
              PROVE  /\ claims'[k].idx = k - 1
                     /\ claims'[k].idx < collected'
                     /\ defect[claims'[k].from] \notin claims'[k].marks
                     /\ \/ claims'[k].from = k - 1
                        \/ /\ k > 1 /\ k = Len(claims')
                           /\ claims'[k].from = k - 2
                           /\ defect[k - 1] = "arch"
  BY RunConstants DEF ClaimsFaithful
<1>1. /\ i \in Int /\ i >= 0 /\ collected \in Int /\ collected' \in Int
      /\ settings.gpu # Unbound => settings.gpu >= 0
  BY NAssumption, TypeStep DEF IInv, TypeOK, Gpus, Unbound
<1>2. CASE k = Len(claims')
  <2>1. /\ k = i + 1 /\ claims'[k].idx = i /\ claims'[k].from = settings.gpu
        /\ claims'[k].marks = settings.marks
    BY <1>2, ClaimsAppended DEF IInv
  <2>2. QED
    BY <1>1, <1>2, <2>1
<1>3. CASE k # Len(claims')
  <2>1. k \in 1 .. Len(claims) /\ claims'[k] = claims[k]
    BY <1>3, ClaimsAppended DEF IInv
  <2>2. /\ claims[k].idx = k - 1 /\ claims[k].idx < collected
        /\ defect[claims[k].from] \notin claims[k].marks
    BY <2>1 DEF IInv, ClaimsFaithful
  <2>3. claims[k].from = k - 1
    BY <2>1
  <2>4. QED
    BY <1>1, <2>1, <2>2, <2>3
<1>4. QED
  BY <1>2, <1>3

(* A claim stays faithful when it is kept. *)
LEMMA KeptClaims ==
    ASSUME IInv, claims' = claims, defect' = defect, collected <= collected',
           collected \in Int, collected' \in Int
    PROVE  ClaimsFaithful'
<1>. SUFFICES ASSUME NEW k \in 1 .. Len(claims)
              PROVE  claims[k].idx < collected'
  BY DEF IInv, ClaimsFaithful
<1>1. claims[k].idx = k - 1 /\ claims[k].idx < collected /\ k \in Int
  BY DEF IInv, ClaimsFaithful
<1>2. QED
  BY <1>1

(* Claims stay faithful, also when the except clause appends the last one. *)
LEMMA ClaimsFaithfulStep ==
    ASSUME IInv, Next
    PROVE  ClaimsFaithful'
<1>1. collected <= collected' /\ collected \in Int /\ collected' \in Int
  <2>1. collected' = collected \/ collected' = collected + 1
    BY DEF Next, MainThread, Collection, AttestGpu, Conclusion,
         GetUserNonce, InitNvml, CollectGpuEvidence, Configure, NextGpu,
         SelectSettings, ParseReport, ValidateCertChain,
         VerifyAttestationReport, LoadDriverRim, VerifyDriverRim,
         LoadVbiosRim, VerifyVbiosRim, CompareMeasurements, RecordStatus,
         HandleException, CheckReadyState, SetReadyState, LateSetReady,
         CreateToken
  <2>2. collected \in Int
    BY NAssumption DEF IInv, TypeOK
  <2>3. QED
    BY <2>1, <2>2
<1>2. CASE RecordStatus
  <2>1. /\ claims' = Append(claims, CurrentClaims)
        /\ i \in Gpus /\ Len(claims) = i /\ settings.gpu = i /\ i < collected
    BY <1>2 DEF RecordStatus, LocationInv, TryPoints, IInv
  <2>2. \A k \in 1 .. Len(claims) : claims[k].from = k - 1
    BY <1>2 DEF RecordStatus, ClaimsInv, TryPoints, IInv
  <2>3. defect[i] \notin settings.marks
    BY <2>1 DEF MarksInv, Gpus, Unbound, IInv
  <2>4. QED
    BY <1>1, <2>1, <2>2, <2>3, NAssumption, FaithfulAppended DEF Gpus, Unbound
<1>3. CASE HandleException /\ claims' # claims
  <2>1. /\ claims' = Append(claims, CurrentClaims)
        /\ settings.gpu # Unbound /\ i # Unbound
    BY <1>3 DEF HandleException
  <2>2. /\ i \in Gpus /\ i < collected /\ Len(claims) = i
        /\ \/ settings.gpu = i
           \/ settings.gpu = i - 1 /\ defect[i] = "arch"
    BY <1>3, <2>1 DEF HandleException, LocationInv, IInv
  <2>3. \A k \in 1 .. Len(claims) : claims[k].from = k - 1
    BY <1>3 DEF HandleException, ClaimsInv, IInv
  <2>4. defect[settings.gpu] \notin settings.marks
    BY <2>1 DEF MarksInv, IInv
  <2>5. QED
    BY <1>1, <2>1, <2>2, <2>3, <2>4, FaithfulAppended
<1>4. CASE claims' = claims
  BY <1>1, <1>4, RunConstants, KeptClaims
<1>5. QED
  BY <1>2, <1>3, <1>4, ClaimsUnchanged

-----------------------------------------------------------------------------
(* Only the end of a GPU's attestation assigns overall_status. *)
LEMMA OverallUnchanged ==
    ASSUME Next, ~RecordStatus
    PROVE  overall' = overall
BY DEF Next, MainThread, Collection, AttestGpu, Conclusion, GetUserNonce,
       InitNvml, CollectGpuEvidence, Configure, NextGpu, SelectSettings,
       ParseReport, ValidateCertChain, VerifyAttestationReport, LoadDriverRim,
       VerifyDriverRim, LoadVbiosRim, VerifyVbiosRim, CompareMeasurements,
       HandleException, CheckReadyState, SetReadyState, LateSetReady,
       CreateToken

(* A TRUE overall_status vouches for all claims while the loop runs. *)
LEMMA OverallStep ==
    ASSUME IInv, Next
    PROVE  OverallInv'
<1>1. LocalVbiosRim' = LocalVbiosRim
  BY RunConstants DEF LocalVbiosRim
<1>2. CASE RecordStatus
  <2>. SUFFICES ASSUME overall'
                PROVE  /\ claims' # <<>> /\ ~LocalVbiosRim
                       /\ \A k \in 1 .. Len(claims') : Verified(claims'[k].idx)
    BY <1>1, RunConstants DEF OverallInv, Verified
  <2>1. /\ claims' = Append(claims, CurrentClaims) /\ CheckStatus
        /\ i = 0 \/ overall
    BY <1>2 DEF RecordStatus
  <2>2. /\ i \in Gpus /\ i < collected /\ Len(claims) = i /\ settings.gpu = i
    BY <1>2 DEF IInv, LocationInv, RecordStatus, TryPoints
  <2>3. /\ Len(claims') = i + 1 /\ claims'[i + 1].idx = i
        /\ \A k \in 1 .. i : claims'[k] = claims[k]
    BY <2>1, <2>2, ClaimsAppended DEF IInv
  <2>4. Verified(i)
    <3>1. defect[i] \in Defects
      BY <2>2 DEF IInv, TypeOK
    <3>2. defect[i] # "evidence"
      BY <2>2, NAssumption DEF IInv, EvidenceInv, TypeOK, Gpus
    <3>3. defect[i] \notin settings.marks
      BY <2>2, NAssumption DEF IInv, MarksInv, Gpus, Unbound
    <3>4. QED
      BY <2>1, <2>2, <3>1, <3>2, <3>3, StatusVerified DEF CheckStatus
  <2>5. \A k \in 1 .. i : Verified(claims[k].idx)
    BY <1>2, <2>1, <2>2 DEF IInv, OverallInv, RecordStatus, TryPoints
  <2>6. ~LocalVbiosRim
    BY <1>2 DEF IInv, RimsInv, RecordStatus
  <2>7. claims' # <<>>
    BY <2>2, <2>3, NAssumption DEF Gpus
  <2>8. \A k \in 1 .. Len(claims') : Verified(claims'[k].idx)
    BY <2>2, <2>3, <2>4, <2>5, NAssumption DEF Gpus
  <2>9. QED
    BY <2>6, <2>7, <2>8
<1>3. CASE HandleException
  <2>1. claims # <<>> => claims' # <<>>
    BY <1>3, ClaimsAppended DEF HandleException, IInv, TypeOK
  <2>2. pc' \notin InTry /\ overall' = overall
    BY <1>3 DEF HandleException, InTry, TryPoints
  <2>3. QED
    BY <1>1, <2>1, <2>2 DEF IInv, OverallInv, InTry
<1>4. CASE ~RecordStatus /\ ~HandleException
  <2>1. claims' = claims /\ overall' = overall
    BY <1>4, ClaimsUnchanged, OverallUnchanged
  <2>2. CASE pc \in InTry \/ pc' \notin InTry
    BY <1>1, <2>1, <2>2, RunConstants DEF IInv, OverallInv, InTry, Verified
  <2>3. CASE pc \notin InTry /\ pc' \in InTry
    BY <2>1, <2>3, TryEntered DEF IInv, OverallInv
  <2>4. QED
    BY <2>2, <2>3
<1>5. QED
  BY <1>2, <1>3, <1>4

(* After the loop one later GPU that raised may be the exception. *)
LEMMA OverallSoundStep ==
    ASSUME IInv, Next
    PROVE  OverallSound'
<1>1. CASE pc' \in InTry
  BY <1>1, OverallStep DEF OverallInv, OverallSound, InTry
<1>2. CASE pc' \notin InTry /\ HandleException /\ claims' # claims
  <2>. SUFFICES ASSUME overall', NEW k \in 1 .. Len(claims')
                PROVE  Verified(claims'[k].idx) \/ (k > 1 /\ k = Len(claims'))
    BY <1>2, OverallStep, RunConstants
       DEF OverallSound, OverallInv, InTry, Verified
  <2>1. claims' = Append(claims, CurrentClaims) /\ overall
    BY <1>2 DEF HandleException
  <2>2. /\ Len(claims) \in Nat /\ Len(claims') = Len(claims) + 1
        /\ \A m \in 1 .. Len(claims) : claims'[m] = claims[m]
    BY <2>1, ClaimsAppended DEF IInv
  <2>3. claims # <<>> /\ \A m \in 1 .. Len(claims) : Verified(claims[m].idx)
    BY <1>2, <2>1 DEF IInv, OverallInv, HandleException
  <2>4. Len(claims) > 0
    BY <2>2, <2>3 DEF IInv, TypeOK
  <2>5. QED
    BY <2>2, <2>3, <2>4
<1>3. CASE pc' \notin InTry /\ claims' = claims
  <2>1. overall' = overall
    <3>1. ~RecordStatus
      BY <1>3 DEF RecordStatus, InTry
    <3>2. QED
      BY <3>1, OverallUnchanged
  <2>2. QED
    BY <1>3, <2>1, RunConstants DEF IInv, OverallSound, Verified, InTry
<1>4. RecordStatus => pc' \in InTry
  BY DEF RecordStatus, InTry
<1>5. QED
  BY <1>1, <1>2, <1>3, <1>4, ClaimsUnchanged

(* With a VBIOS RIM file the local vbios_rim is never bound. *)
LEMMA RimsStep ==
    ASSUME IInv, Next
    PROVE  RimsInv'
<1>1. LocalVbiosRim' = LocalVbiosRim
  BY RunConstants DEF LocalVbiosRim
<1>2. LocalVbiosRim => rims'.vbios_rim = "unbound"
  <2>1. rims' = rims \/ LoadDriverRim \/ LoadVbiosRim
    BY DEF Next, MainThread, Collection, AttestGpu, Conclusion, GetUserNonce,
         InitNvml, CollectGpuEvidence, Configure, NextGpu, SelectSettings,
         ParseReport, ValidateCertChain, VerifyAttestationReport, LoadDriverRim,
         VerifyDriverRim, LoadVbiosRim, VerifyVbiosRim, CompareMeasurements,
         RecordStatus, HandleException, CheckReadyState, SetReadyState, LateSetReady,
         CreateToken
  <2>2. CASE LoadDriverRim
    BY <2>2 DEF LoadDriverRim, IInv, RimsInv
  <2>3. CASE LoadVbiosRim
    BY <2>3 DEF LoadVbiosRim, IInv, RimsInv
  <2>4. QED
    BY <2>1, <2>2, <2>3 DEF IInv, RimsInv
<1>3. pc' \in {"compare", "record"} => ~LocalVbiosRim
  <2>1. pc' \in {"compare", "record"} =>
            pc' = pc \/ VerifyVbiosRim \/ CompareMeasurements
    BY DEF Crash, Next, MainThread, Collection, AttestGpu, Conclusion, GetUserNonce,
         InitNvml, CollectGpuEvidence, Configure, NextGpu, SelectSettings,
         ParseReport, ValidateCertChain, VerifyAttestationReport, LoadDriverRim,
         VerifyDriverRim, LoadVbiosRim, VerifyVbiosRim, CompareMeasurements,
         RecordStatus, HandleException, CheckReadyState, SetReadyState, LateSetReady,
         CreateToken
  <2>2. QED
    BY <2>1 DEF IInv, RimsInv, VerifyVbiosRim, CompareMeasurements
<1>4. QED
  BY <1>1, <1>2, <1>3 DEF RimsInv

(* How a run ends: the steps of the finally clause. *)
LEMMA ExitStep ==
    ASSUME IInv, Next
    PROVE  ExitInv' /\ ExitZeroMeansReady'
<1>. USE DEF IInv, ExitInv, ExitZeroMeansReady, MaySetReady, Running
<1>0. opts' = opts
  BY RunConstants
<1>1. CASE Collection
  BY <1>1 DEF Collection, GetUserNonce, InitNvml, CollectGpuEvidence, Configure
<1>2. CASE NextGpu
  BY <1>2 DEF NextGpu
<1>3. CASE AttestGpu
  <2>1. /\ pc # "done" /\ pc' \notin {"done", "setReady", "token"}
        /\ exit' = exit /\ token' = token /\ pending' = pending
    BY <1>3 DEF AttestGpu, SelectSettings, ParseReport, ValidateCertChain,
         VerifyAttestationReport, LoadDriverRim, VerifyDriverRim, LoadVbiosRim,
         VerifyVbiosRim, CompareMeasurements, RecordStatus
  <2>2. QED
    BY <2>1
<1>4. CASE HandleException
  BY <1>4 DEF HandleException
<1>5. CASE CheckReadyState
  BY <1>5 DEF CheckReadyState, Crash
<1>6. CASE SetReadyState
  BY <1>6 DEF SetReadyState, Crash
<1>7. CASE CreateToken
  BY <1>7 DEF CreateToken
<1>8. CASE LateSetReady
  BY <1>8 DEF LateSetReady
<1>9. QED
  BY <1>1, <1>2, <1>3, <1>4, <1>5, <1>6, <1>7, <1>8
     DEF Next, MainThread, Conclusion

-----------------------------------------------------------------------------
(* The parts of the inductive invariant hold in every reachable state. *)
THEOREM Inductive == Spec => []IInv
<1>1. Init => IInv
  BY InitIInv
<1>2. IInv /\ [Next]_vars => IInv'
  <2>. SUFFICES ASSUME IInv, [Next]_vars PROVE IInv'
    OBVIOUS
  <2>1. CASE Next
    BY <2>1, TypeStep, LocationStep, EvidenceStep, MarksStep, ClaimsStep,
       ClaimsFaithfulStep, OverallStep, OverallSoundStep, RimsStep, ExitStep
       DEF IInv
  <2>2. CASE UNCHANGED vars
    BY <2>2 DEF vars, IInv, TypeOK, LocationInv, EvidenceInv, MarksInv,
         ClaimsInv, ClaimsFaithful, OverallInv, OverallSound, RimsInv, ExitInv,
         ExitZeroMeansReady, Verified, LocalVbiosRim, GpuCount, MaySetReady
  <2>3. QED
    BY <2>1, <2>2
<1>3. QED
  BY <1>1, <1>2, PTL DEF Spec

(* Every variable keeps its type, for any number of GPUs. *)
THEOREM TypeCorrect == Spec => []TypeOK
BY Inductive, PTL DEF IInv

(* overall_status speaks for every GPU but a later one that raised. *)
THEOREM OverallSoundness == Spec => []OverallSound
BY Inductive, PTL DEF IInv

(* The claims tell the truth about the GPU whose settings they were read   *)
(* from, and that is the GPU they are filed under unless the last GPU is   *)
(* of an unknown architecture.                                             *)
THEOREM ClaimsAreFaithful == Spec => []ClaimsFaithful
BY Inductive, PTL DEF IInv

(* Exit code 0 comes with a passing token and with ready GPUs. *)
THEOREM ExitZero == Spec => []ExitZeroMeansReady
BY Inductive, PTL DEF IInv

(* GPU 0 is verified whenever overall_status is TRUE. *)
LEMMA FirstVerified ==
    ASSUME IInv, overall
    PROVE  Verified(0) /\ ~LocalVbiosRim
<1>1. claims # <<>> /\ claims \in Seq([idx : Gpus, from : Gpus, marks : SUBSET Marks])
  BY DEF IInv, TypeOK, OverallInv
<1>2. 1 \in 1 .. Len(claims)
  BY <1>1
<1>3. Verified(claims[1].idx)
  BY <1>2 DEF IInv, OverallSound
<1>4. claims[1].idx = 0
  BY <1>2 DEF IInv, ClaimsFaithful
<1>5. QED
  BY <1>3, <1>4 DEF IInv, OverallInv

(* The ready state is switched on only by a run that verified GPU 0, in    *)
(* the main thread or late in an abandoned one, and never switched off.    *)
THEOREM ReadyOnly == Spec => ReadyOnlyIfAttested
<1>1. IInv /\ [Next]_vars =>
        [ready' # ready => /\ ready' /\ overall /\ Verified(0)
                           /\ ~opts.userMode /\ ~LocalVbiosRim]_vars
  <2>. SUFFICES ASSUME IInv, Next, ready' # ready
                PROVE  /\ ready' /\ overall /\ Verified(0)
                       /\ ~opts.userMode /\ ~LocalVbiosRim
    BY DEF vars
  <2>1. SetReadyState \/ LateSetReady
    BY DEF Next, MainThread, Collection, AttestGpu, Conclusion, GetUserNonce,
         InitNvml, CollectGpuEvidence, Configure, NextGpu, SelectSettings,
         ParseReport, ValidateCertChain, VerifyAttestationReport, LoadDriverRim,
         VerifyDriverRim, LoadVbiosRim, VerifyVbiosRim, CompareMeasurements,
         RecordStatus, HandleException, CheckReadyState, 
         CreateToken
  <2>2. ready' = TRUE
    BY <2>1 DEF SetReadyState, LateSetReady, IInv, TypeOK
  <2>3. MaySetReady
    BY <2>1 DEF SetReadyState, LateSetReady, IInv, ExitInv
  <2>4. QED
    BY <2>2, <2>3, FirstVerified DEF MaySetReady
<1>2. QED
  BY <1>1, Inductive, PTL DEF Spec, ReadyOnlyIfAttested

(* What the verifier's README promises does hold on a machine with a single *)
(* GPU: exit code 0 means that its GPU is verified, and the ready state is  *)
(* only set when it is.                                                     *)
THEOREM SingleGpu ==
    N = 1 => (Spec => /\ [](exit = 0 => \A g \in 0 .. GpuCount - 1 : Verified(g))
                      /\ EveryGpuVerified)
<1>. DEFINE All == \A g \in 0 .. GpuCount - 1 : Verified(g)
            Own == \A g \in 0 .. collected - 1 : Verified(g)
            FirstIfSet == ready' # ready => /\ ready' /\ overall /\ Verified(0)
                                            /\ ~opts.userMode /\ ~LocalVbiosRim
<1>. SUFFICES ASSUME N = 1
              PROVE  Spec => [](exit = 0 => All) /\ EveryGpuVerified
  OBVIOUS
<1>1. IInv => (exit = 0 => All)
  <2>. SUFFICES ASSUME IInv, exit = 0, NEW g \in 0 .. GpuCount - 1
                PROVE  Verified(g)
    OBVIOUS
  <2>1. g = 0
    BY DEF GpuCount
  <2>2. overall
    BY DEF IInv, ExitZeroMeansReady
  <2>3. QED
    BY <2>1, <2>2, FirstVerified
<1>2. IInv /\ [FirstIfSet]_vars => [ready' # ready => Own]_vars
  <2>. SUFFICES ASSUME IInv, FirstIfSet, ready' # ready,
                       NEW g \in 0 .. collected - 1
                PROVE  Verified(g)
    OBVIOUS
  <2>1. g = 0
    BY DEF IInv, TypeOK
  <2>2. QED
    BY <2>1
<1>. HIDE DEF All, Own, FirstIfSet
<1>3. EveryGpuVerified <=> [][ready' # ready => Own]_vars
  BY DEF EveryGpuVerified, Own
<1>4. ReadyOnlyIfAttested <=> [][FirstIfSet]_vars
  BY DEF ReadyOnlyIfAttested, FirstIfSet
<1>5. QED
  BY <1>1, <1>2, <1>3, <1>4, Inductive, ReadyOnly, PTL
-----------------------------------------------------------------------------
(* On a sound system the GPU being attested passes all its checks. *)
LEMMA SoundGpu ==
    ASSUME IInv, SoundSystem, pc \in TryPoints
    PROVE  Verified(i)
<1>1. i \in Gpus /\ i < collected /\ collected <= GpuCount
  BY DEF IInv, LocationInv, EvidenceInv
<1>2. i \in 0 .. GpuCount - 1
  BY <1>1, NAssumption DEF GpuCount, Gpus, IInv, TypeOK
<1>3. QED
  BY <1>2 DEF SoundSystem

(* What the checks of a GPU without a defect mark. *)
LEMMA SoundMarks ==
    ASSUME Verified(i)
    PROVE  /\ ~LoadFails(DriverRim) /\ ~LoadFails(VbiosRim)
           /\ ~VerifyFails(DriverRim) /\ ~VerifyFails(VbiosRim)
           /\ LoadedMarks(DriverRim) = {"driverRimFetched", "driverRimMeasurements"}
           /\ LoadedMarks(VbiosRim) = {"vbiosRimFetched", "vbiosRimMeasurements"}
           /\ {"driverRimSchema", "driverRimCert", "driverRimSignature"}
                \subseteq VerifiedMarks(DriverRim)
           /\ {"vbiosRimSchema", "vbiosRimSignature"} \subseteq VerifiedMarks(VbiosRim)
BY DEF Verified, AdvisoryChecks, LoadFails, VerifyFails, LoadedMarks, VerifiedMarks,
       DriverRim, VbiosRim

(* All four checks of its report pass. *)
LEMMA SoundReport ==
    ASSUME Verified(i), VerifyAttestationReport
    PROVE  /\ {"nonce", "driverVersion", "vbiosVersion", "signature"} \subseteq settings'.marks
           /\ settings.marks \subseteq settings'.marks
           /\ pc' = "driverRim"
<1> DEFINE passed == {ReportChecks[k] : k \in
                        {k \in 1 .. 4 : \A j \in 1 .. k : ReportChecks[j] # defect[i]}}
<1>1. \A j \in 1 .. 4 : ReportChecks[j] # defect[i]
  BY DEF Verified, AdvisoryChecks, ReportChecks
<1>2. \A k \in 1 .. 4 : ReportChecks[k] \in passed
  BY <1>1
<1>3. /\ ReportChecks[1] = "nonce" /\ ReportChecks[2] = "driverVersion"
      /\ ReportChecks[3] = "vbiosVersion" /\ ReportChecks[4] = "signature"
  BY DEF ReportChecks
<1>4. {"nonce", "driverVersion", "vbiosVersion", "signature"} \subseteq passed
  BY <1>2, <1>3
<1>5. /\ settings' = Marked(passed)
      /\ pc' = IF "signature" \in passed THEN "driverRim" ELSE "except"
  BY DEF VerifyAttestationReport
<1>. HIDE DEF passed
<1>6. QED
  BY <1>4, <1>5 DEF Marked

(* The marks of a sound GPU build up step by step, and no step raises. *)
LEMMA AchievedStep ==
    ASSUME IInv, SoundInv, SoundSystem, AttestGpu
    PROVE  /\ Achieved' /\ pc' \notin {"except", "finally", "setReady", "token", "done"}
           /\ pc' = "vbiosVerify" => rims'.vbios_rim = "vbios"
<1>1. pc \in TryPoints
  BY DEF AttestGpu, SelectSettings, ParseReport, ValidateCertChain,
       VerifyAttestationReport, LoadDriverRim, VerifyDriverRim, LoadVbiosRim,
       VerifyVbiosRim, CompareMeasurements, RecordStatus, TryPoints
<1>2. Verified(i)
  BY <1>1, SoundGpu
<1>3. defect[i] \in {"none"} \cup AdvisoryChecks
  BY <1>2 DEF Verified
<1>4. ~LocalVbiosRim
  BY DEF SoundSystem
<1>5. Achieved /\ (pc = "vbiosVerify" => rims.vbios_rim = "vbios")
  BY DEF SoundInv
<1>. USE DEF Achieved, TryPoints, AdvisoryChecks
<1>6. CASE SelectSettings
  BY <1>3, <1>6 DEF SelectSettings
<1>7. CASE ParseReport
  BY <1>3, <1>5, <1>7 DEF ParseReport, Marked
<1>8. CASE ValidateCertChain
  BY <1>3, <1>5, <1>8 DEF ValidateCertChain, Marked
<1>9. CASE VerifyAttestationReport
  <2>1. pc = "authenticate"
    BY <1>9 DEF VerifyAttestationReport
  <2>2. QED
    BY <1>2, <1>5, <1>9, <2>1, SoundReport
<1>10. CASE LoadDriverRim
  BY <1>2, <1>5, <1>10, SoundMarks DEF LoadDriverRim, Marked
<1>11. CASE VerifyDriverRim
  BY <1>2, <1>5, <1>11, SoundMarks DEF VerifyDriverRim, Marked
<1>12. CASE LoadVbiosRim
  BY <1>2, <1>4, <1>5, <1>12, SoundMarks DEF LoadVbiosRim, Marked
<1>13. CASE VerifyVbiosRim
  BY <1>2, <1>5, <1>13, SoundMarks DEF VerifyVbiosRim, Marked
<1>14. CASE CompareMeasurements
  BY <1>3, <1>5, <1>14 DEF CompareMeasurements, Marked
<1>15. CASE RecordStatus
  BY <1>15 DEF RecordStatus
<1>16. QED
  BY <1>6, <1>7, <1>8, <1>9, <1>10, <1>11, <1>12, <1>13, <1>14, <1>15 DEF AttestGpu

(* A sound GPU that is recorded has all its status checks marked. *)
LEMMA SoundRecord ==
    ASSUME SoundInv, SoundSystem, RecordStatus
    PROVE  CheckStatus
BY DEF SoundInv, Achieved, RecordStatus, CheckStatus, StatusChecks, TryPoints

(* On a sound system overall_status is TRUE from the first claim on. *)
LEMMA OverallKept ==
    ASSUME IInv, SoundInv, SoundSystem, Next
    PROVE  claims' # <<>> => overall'
<1>1. pc # "except" /\ (claims # <<>> => overall)
  BY DEF SoundInv
<1>2. ~HandleException
  BY <1>1 DEF HandleException
<1>3. CASE RecordStatus
  <2>1. /\ overall' = IF i = 0 THEN CheckStatus ELSE overall /\ CheckStatus
        /\ i \in Gpus /\ Len(claims) = i
    BY <1>3 DEF RecordStatus, IInv, LocationInv, TryPoints
  <2>2. i # 0 => claims # <<>>
    BY <2>1
  <2>3. CheckStatus
    BY <1>3, SoundRecord
  <2>4. QED
    BY <1>1, <2>1, <2>2, <2>3
<1>4. CASE ~RecordStatus
  BY <1>1, <1>2, <1>4, ClaimsUnchanged, OverallUnchanged
<1>5. QED
  BY <1>3, <1>4

(* Leaving the loop, every GPU with evidence has a claim. *)
LEMMA LoopLeft ==
    ASSUME IInv, NextGpu, pc' = "finally"
    PROVE  claims # <<>> \/ collected < GpuCount
<1>1. /\ ~(i + 1 < collected) /\ Len(claims) = i + 1
      /\ i \in Gpus \cup {Unbound} /\ collected \in 0 .. N
  BY DEF NextGpu, IInv, LocationInv, TypeOK
<1>2. GpuCount \in Nat \ {0}
  BY NAssumption DEF GpuCount
<1>3. CASE claims = <<>>
  BY <1>1, <1>2, <1>3, NAssumption DEF Gpus, Unbound
<1>4. QED
  BY <1>3

(* Every step keeps what a sound system is promised: one case per action. *)
LEMMA SoundStep ==
    ASSUME IInv, SoundInv, Next
    PROVE  SoundInv'
<1> DEFINE Ends == {"finally", "setReady", "token", "done"}
<1>1. SoundSystem' = SoundSystem /\ GpuCount' = GpuCount
  BY RunConstants DEF SoundSystem, GpuCount, LocalVbiosRim, Verified
<1>2. /\ token' = "fail" => pc' = "done" /\ ~overall'
      /\ token' = "pass" => pc' = "done" /\ overall'
  <2>1. CASE CreateToken
    BY <2>1 DEF CreateToken
  <2>2. CASE LateSetReady
    BY <2>2 DEF LateSetReady, SoundInv
  <2>3. CASE MainThread /\ ~CreateToken
    <3>1. token' = token /\ pc # "done"
      BY <2>3 DEF MainThread, Collection, AttestGpu, Conclusion, GetUserNonce,
           InitNvml, CollectGpuEvidence, Configure, NextGpu, SelectSettings,
           ParseReport, ValidateCertChain, VerifyAttestationReport,
           LoadDriverRim, VerifyDriverRim, LoadVbiosRim, VerifyVbiosRim,
           CompareMeasurements, RecordStatus, HandleException, CheckReadyState,
           SetReadyState
    <3>2. token' = "none"
      BY <3>1 DEF SoundInv, IInv, TypeOK
    <3>3. QED
      BY <3>2
  <2>4. QED
    BY <2>1, <2>2, <2>3 DEF Next
<1>3. ASSUME SoundSystem
      PROVE  /\ pc' # "except" /\ Achieved'
             /\ pc' = "vbiosVerify" => rims'.vbios_rim = "vbios"
             /\ pc' \in Ends => claims' # <<>> \/ collected' < GpuCount
  <2>1. /\ pc # "except" /\ Achieved /\ opts.configOk /\ ~opts.rimRoot
        /\ pc \in Ends => claims # <<>> \/ collected < GpuCount
    BY <1>3 DEF SoundInv, SoundSystem
  <2>2. CASE Collection
    BY <2>1, <2>2 DEF Collection, GetUserNonce, InitNvml, CollectGpuEvidence,
         Configure, Achieved, TryPoints
  <2>3. CASE NextGpu
    BY <2>3, LoopLeft DEF NextGpu, Achieved, TryPoints
  <2>4. CASE AttestGpu
    BY <1>3, <2>4, AchievedStep
  <2>5. CASE Conclusion
    BY <2>1, <2>5 DEF Conclusion, HandleException, CheckReadyState,
         SetReadyState, CreateToken, Crash, Achieved, TryPoints
  <2>6. CASE LateSetReady
    BY <1>3, <2>1, <2>6 DEF LateSetReady, Achieved, SoundInv
  <2>7. QED
    BY <2>2, <2>3, <2>4, <2>5, <2>6 DEF Next, MainThread
<1>4. SoundSystem => (claims' # <<>> => overall')
  BY OverallKept
<1>5. QED
  BY <1>1, <1>2, <1>3, <1>4 DEF SoundInv

(* The invariant holds in every reachable state. *)
LEMMA SoundInvariant == Spec => []SoundInv
<1>1. Init => SoundInv
  BY DEF Init, SoundInv, Achieved, TryPoints
<1>2. IInv /\ SoundInv /\ [Next]_vars => SoundInv'
  <2>1. ASSUME IInv, SoundInv, Next PROVE SoundInv'
    BY <2>1, SoundStep
  <2>2. ASSUME SoundInv, UNCHANGED vars PROVE SoundInv'
    BY <2>2 DEF vars, SoundInv, SoundSystem, Achieved, GpuCount, LocalVbiosRim, Verified
  <2>3. QED
    BY <2>1, <2>2
<1>3. QED
  BY <1>1, <1>2, Inductive, PTL DEF Spec

(* A failing token has a cause, for any number of GPUs: a claims version or *)
(* URL to be refused, evidence that is missing or fails a check, or one of  *)
(* the two documented options that the code cannot serve, --rim_root_cert   *)
(* and --vbios_rim.  The two theorems below say what these lead to.         *)
THEOREM FailureCause == Spec => []FailureHasCause
<1>1. SoundInv => FailureHasCause
  BY DEF SoundInv, SoundSystem, FailureHasCause
<1>2. QED
  BY <1>1, SoundInvariant, PTL

(* What run local_vbios_rim finds is no accident of its two GPUs: a VBIOS  *)
(* RIM file on the command line never gets a passing token, and never      *)
(* exit code 0.                                                            *)
THEOREM VbiosFileNeverPasses ==
    Spec => [](LocalVbiosRim => token # "pass" /\ exit # 0)
<1>1. IInv /\ SoundInv => (LocalVbiosRim => token # "pass" /\ exit # 0)
  BY DEF SoundInv, IInv, OverallInv, ExitZeroMeansReady
<1>2. QED
  BY <1>1, Inductive, SoundInvariant, PTL

(* --rim_root_cert is documented, but the method it calls does not exist    *)
(* (cc_admin.py:415): no run with it attests any GPU, however sound, sets   *)
(* the ready state, or ends with a passing token or exit code 0.            *)
THEOREM RimRootNeverPasses ==
    Spec => /\ [](opts.rimRoot => claims = <<>> /\ token # "pass" /\ exit # 0)
            /\ [][opts.rimRoot => ready' = ready]_vars
<1>. DEFINE Outside == BeforeLoop \cup {"except", "finally", "token", "done"}
            Unattested == opts.rimRoot =>
                pc \in Outside /\ i = Unbound /\ claims = <<>> /\ ~overall /\ ~pending
<1>1. Init => Unattested
  BY DEF Init, BeforeLoop
<1>2. ASSUME Unattested, Next, opts.rimRoot
      PROVE  /\ opts'.rimRoot /\ ready' = ready
             /\ pc' \in Outside /\ i' = Unbound /\ claims' = <<>>
             /\ ~overall' /\ ~pending'
  <2>. USE <1>2 DEF BeforeLoop
  <2>1. CASE Collection
    BY <2>1 DEF Collection, GetUserNonce, InitNvml, CollectGpuEvidence, Configure
  <2>2. CASE Conclusion
    BY <2>2 DEF Conclusion, HandleException, CheckReadyState, SetReadyState,
         CreateToken, Crash, MaySetReady
  <2>3. ~NextGpu /\ ~AttestGpu /\ ~LateSetReady
    BY DEF NextGpu, AttestGpu, SelectSettings, ParseReport, ValidateCertChain,
         VerifyAttestationReport, LoadDriverRim, VerifyDriverRim, LoadVbiosRim,
         VerifyVbiosRim, CompareMeasurements, RecordStatus, LateSetReady
  <2>4. QED
    BY <2>1, <2>2, <2>3 DEF Next, MainThread
<1>3. Unattested /\ [Next]_vars => Unattested'
  <2>1. ASSUME Next PROVE opts' = opts
    BY <2>1, RunConstants
  <2>2. QED
    BY <1>2, <2>1 DEF vars
<1>4. Unattested /\ [Next]_vars => [opts.rimRoot => ready' = ready]_vars
  BY <1>2
<1>5. IInv /\ SoundInv /\ Unattested =>
        (opts.rimRoot => claims = <<>> /\ token # "pass" /\ exit # 0)
  BY DEF IInv, ExitZeroMeansReady, SoundInv
<1>. HIDE DEF Unattested
<1>6. QED
  BY <1>1, <1>3, <1>4, <1>5, Inductive, SoundInvariant, PTL DEF Spec
=============================================================================

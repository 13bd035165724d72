-------------------------- MODULE AttestationReport --------------------------
(***************************************************************************)
(* How the verifier reads the attestation report of a GPU: the SPDM        *)
(* GET_MEASUREMENTS request and response NVML returns as one byte string,  *)
(* parsed field by field before anything is authenticated, and then held   *)
(* against the nonce, the two versions and the GPU's signature.            *)
(*                                                                         *)
(* Bytes are counted, not spelled: a byte string is a value and the number *)
(* of its bytes that are there, and a report says how its bytes read block *)
(* after block and field after field, together with every length it        *)
(* claims.  No claimed length need agree with another.  Python's slices    *)
(* are silently short where the bytes run out.                             *)
(***************************************************************************)
EXTENDS Integers, Sequences, FiniteSets

CONSTANTS
    Values,         \* what bytes can read
    Reports,        \* the reports to consider, each a ReportRecord
    Nonce,          \* the nonce this run asked for
    DriverVersion,  \* what NVML says of the driver, as bytes
    VbiosVersion    \* and of the VBIOS

VARIABLES
    report,     \* what NVML returned
    pc,         \* where the verifier is
    at,         \* byte_index of the loop it is in
    k,          \* blocks, fields or RIM entries that loop has read
    blocks,     \* MeasurementBlocks: from index to value
    opaque      \* OpaqueDataField: from type to value

reportVars == <<report, blocks, opaque>>

-----------------------------------------------------------------------------
Bytes == [value : Values \cup {""}, length : Nat]

NoBytes == [value |-> "", length |-> 0]

Lesser(m, n) == IF m < n THEN m ELSE n

(* The first n bytes of what reads v. *)
Slice(v, n) == IF n <= 0 THEN NoBytes ELSE [value |-> v, length |-> n]

(* d[x] = v *)
Put(d, x, v) == [y \in DOMAIN d \cup {x} |-> IF y = x THEN v ELSE d[y]]

(* A block: index, specification, MeasurementSize, and in the measurement  *)
(* its value with the size it claims for it.  A field of the opaque data:  *)
(* type, DataSize, data.                                                   *)
BlockRecord == [index : Nat, spec : Nat, size : Nat,
                valueSize : Nat, value : Values]

OpaqueTypes == {"DRIVER_VERSION", "VBIOS_VERSION", "NVDEC0_STATUS", "MSRSCNT",
                "SWITCH_PDI", "FWID"}

FieldRecord == [type : OpaqueTypes \cup {"unknown"}, size : Nat, data : Values]

(* All that is used of the request. *)
RequestRecord == [nonce : Values]

(* The request, the length of the response that follows its 37 bytes, the  *)
(* fields of the response, and whether the GPU has made the last           *)
(* SignatureSize bytes as the signature of all bytes before them.          *)
ReportRecord == [request : RequestRecord, length : Nat, blocks : Nat, recordLength : Nat,
                 record : Seq(BlockRecord), opaqueLength : Nat,
                 opaque : Seq(FieldRecord), genuine : BOOLEAN]

ASSUME ReportsAssumption == Reports \subseteq ReportRecord

(* Sizes of the fields, in bytes. *)
ResponseHeader    == 8      \* up to MeasurementRecordLength
BlockHeader       == 4
MeasurementHeader == 3
FieldHeader       == 4
NonceSize         == 32
OpaqueLengthSize  == 2
SignatureSize     == 96

RecordStart == ResponseHeader
OpaqueStart == RecordStart + report.recordLength + NonceSize + OpaqueLengthSize
SignatureStart == OpaqueStart + report.opaqueLength

(* len() of the slices handed to MeasurementRecord and OpaqueData. *)
RecordSize == Lesser(report.recordLength, report.length - RecordStart)
OpaqueSize == Lesser(report.opaqueLength, report.length - OpaqueStart)

-----------------------------------------------------------------------------
InitReport ==
    /\ report \in Reports
    /\ pc = "request" /\ at = 0 /\ k = 0
    /\ blocks = [x \in {} |-> NoBytes] /\ opaque = [x \in {} |-> NoBytes]

Fail ==
    /\ pc' = "failed"
    /\ UNCHANGED <<at, k, reportVars>>

(* Mutant of Advance: byte_index is left where it was. *)
AdvanceNowhere(size) == UNCHANGED <<at, k>>

Advance(size) == at' = at + size /\ k' = k + 1

(* extract_response_message: a response follows. *)
HasResponse == report.length > 0

ParseRequest ==
    /\ pc = "request"
    /\ IF HasResponse
         THEN pc' = "header" /\ UNCHANGED <<at, k, reportVars>>
         ELSE Fail

(* The response up to the measurement record.  A response without a whole  *)
(* header has no record to read, and one without blocks is refused.        *)
ParseHeader ==
    /\ pc = "header"
    /\ IF report.length < ResponseHeader \/ report.blocks = 0
         THEN Fail
         ELSE pc' = "record" /\ UNCHANGED <<at, k, reportVars>>

(* What is there of the measurement of block b, at the current byte.       *)
MeasurementBytes(b) == Lesser(b.size, RecordSize - at - BlockHeader)

(* DmtfMeasurement.parse: the value is as long as it claims to be, or as   *)
(* the bytes allow.                                                        *)
ValueOf(b) ==
    Slice(b.value, Lesser(b.valueSize, MeasurementBytes(b) - MeasurementHeader))

(* One block.  It must follow the DMTF specification, and have bytes for   *)
(* the type and size of its value.  A later block takes the place of an    *)
(* earlier one with the same index.                                        *)
ParseBlock ==
    /\ pc = "record" /\ k < report.blocks
    /\ IF k + 1 \notin DOMAIN report.record
         THEN Fail
         ELSE LET b == report.record[k + 1]
              IN  IF b.spec # 1 \/ MeasurementBytes(b) < MeasurementHeader - 1
                    THEN Fail
                    ELSE /\ blocks' = Put(blocks, b.index, ValueOf(b))
                         /\ Advance(BlockHeader + b.size)
                         /\ UNCHANGED <<report, pc, opaque>>

(* Mutant of RecordIsComplete: the byte count alone is trusted. *)
RecordIsFilled == at = RecordSize /\ report.length > OpaqueStart - OpaqueLengthSize

(* The blocks must fill the record, and MeasurementBlocks[i] must not be a *)
(* KeyError; `count' is not looked at.  The nonce of the response is not   *)
(* either, but its OpaqueLength must not be empty.                         *)
RecordIsComplete ==
    /\ at = RecordSize
    /\ \A x \in 1 .. report.blocks : x \in DOMAIN blocks
    /\ report.length > OpaqueStart - OpaqueLengthSize

EndRecord ==
    /\ pc = "record" /\ k = report.blocks
    /\ IF RecordIsComplete
         THEN /\ pc' = "opaque" /\ at' = 0 /\ k' = 0
              /\ UNCHANGED reportVars
         ELSE Fail

(* Counts are four bytes each, PDIs eight. *)
Unit(type) == CASE type = "MSRSCNT" -> 4 [] type = "SWITCH_PDI" -> 8 [] OTHER -> 1

DataOf(f) == Slice(f.data, Lesser(f.size, OpaqueSize - at - FieldHeader))

(* Mutant of FieldFails: a type that is not known is kept under its number. *)
FieldFailsBySize(f) ==
    OpaqueSize - at < FieldHeader - 1 \/ DataOf(f).length % Unit(f.type) # 0

(* The type is not known, its size is not there, or the data is no whole   *)
(* number of elements.                                                     *)
FieldFails(f) ==
    \/ f.type = "unknown"
    \/ OpaqueSize - at < FieldHeader - 1
    \/ DataOf(f).length % Unit(f.type) # 0

(* One field; its data may be cut short by the end of the opaque data, and *)
(* takes the place of an earlier field's of its type.                      *)
ParseField ==
    /\ pc = "opaque" /\ at < OpaqueSize
    /\ IF k + 1 \notin DOMAIN report.opaque \/ FieldFails(report.opaque[k + 1])
         THEN Fail
         ELSE LET f == report.opaque[k + 1]
              IN  /\ opaque' = Put(opaque, f.type, DataOf(f))
                  /\ Advance(FieldHeader + f.size)
                  /\ UNCHANGED <<report, pc, blocks>>

(* The signature is whatever follows; nothing asks for the end.            *)
EndReport ==
    /\ pc = "opaque" /\ at >= OpaqueSize
    /\ pc' = "parsed"
    /\ UNCHANGED <<at, k, reportVars>>

-----------------------------------------------------------------------------
GetData(type) == IF type \in DOMAIN opaque THEN opaque[type] ELSE NoBytes

(* One trailing NUL of the driver's version is dropped; without a version  *)
(* there is no last character to look at, which raises.  Of the VBIOS's    *)
(* version format_vbios_version keeps five bytes in its order: they are    *)
(* what its value stands for here.                                         *)
SameVersions ==
    LET driver == GetData("DRIVER_VERSION")
    IN  /\ driver.length > 0 /\ driver.value = DriverVersion.value
        /\ driver.length - DriverVersion.length \in {0, 1}
        /\ GetData("VBIOS_VERSION") = VbiosVersion

(* The signature the parser found verifies over all but the last 96 bytes  *)
(* of the report: so it must be these bytes, and the GPU's.                *)
Signed == report.genuine /\ SignatureStart + SignatureSize = report.length

(* The nonce of the request, the versions and the signature. *)
VerifyReport ==
    /\ pc = "parsed"
    /\ IF report.request.nonce = Nonce /\ SameVersions /\ Signed
         THEN pc' = "driver" /\ at' = 0 /\ k' = 0 /\ UNCHANGED reportVars
         ELSE Fail

ReadReport ==
    \/ ParseRequest \/ ParseHeader \/ ParseBlock \/ EndRecord
    \/ ParseField \/ EndReport \/ VerifyReport
=============================================================================

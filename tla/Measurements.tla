---------------------------- MODULE Measurements ----------------------------
(***************************************************************************)
(* The comparison of a GPU's runtime measurements with the golden ones:    *)
(* the report is read (AttestationReport), the entries of the driver's and *)
(* the VBIOS's RIM are listed, their active ones are merged by index, and  *)
(* the measurement at each such index is held against the alternatives.    *)
(*                                                                         *)
(* Indices start from 1 in the report and from 0 in the RIMs.              *)
(***************************************************************************)
EXTENDS AttestationReport

CONSTANTS
    Rims,           \* the RIM pairs to consider, [driver, vbios]
    NvdecIndex      \* the index verify() may leave out, 35

VARIABLES
    rims,           \* the two RIM files
    tables,         \* measurements_obj of each: from index to entry
    golden,         \* golden_measurements
    todo,           \* the indices verify() has not compared yet
    mismatched,     \* list_of_mismatched_indexes
    verdict         \* what verify() returns, FALSE before

goldenVars == <<rims, tables, golden, todo, mismatched, verdict>>
vars == <<report, pc, at, k, blocks, opaque,
          rims, tables, golden, todo, mismatched, verdict>>

(* A Resource of a RIM: the hashes it holds and how many it says there are.*)
Entry == [index : Nat, hashes : Seq(Bytes), alternatives : Nat, size : Nat,
          active : BOOLEAN]

RimNames == {"driver", "vbios"}

ASSUME RimsAssumption == Rims \subseteq [RimNames -> Seq(Entry)]

NoEntries == [x \in {} |-> 0]

Init ==
    /\ InitReport
    /\ rims \in Rims
    /\ tables = [r \in RimNames |-> NoEntries] /\ golden = NoEntries
    /\ todo = {} /\ mismatched = {} /\ verdict = FALSE

Report == ReadReport /\ UNCHANGED goldenVars

Raise == Fail /\ UNCHANGED goldenVars

-----------------------------------------------------------------------------
(* One entry of a RIM: a hash that is missing is a KeyError, and an index  *)
(* may not come twice, active or not.                                      *)
ParseEntry ==
    /\ pc \in RimNames /\ k < Len(rims[pc])
    /\ LET e == rims[pc][k + 1]
       IN  IF e.alternatives > Len(e.hashes) \/ e.index \in DOMAIN tables[pc]
             THEN Raise
             ELSE /\ tables' = [tables EXCEPT ![pc] = Put(@, e.index, e)]
                  /\ k' = k + 1
                  /\ UNCHANGED <<pc, at, reportVars, rims, golden, todo,
                                 mismatched, verdict>>

EndRim ==
    /\ pc \in RimNames /\ k = Len(rims[pc])
    /\ IF DOMAIN tables[pc] = {}
         THEN Raise
         ELSE /\ pc' = IF pc = "driver" THEN "vbios" ELSE "merge"
              /\ k' = 0
              /\ UNCHANGED <<at, reportVars, goldenVars>>

Active(table) == {x \in DOMAIN table : table[x].active}

(* Mutant of Conflict: the VBIOS's entry takes the place of the driver's. *)
ConflictOnNothing(driver, vbios) == FALSE

(* An index may be active in one RIM only. *)
Conflict(driver, vbios) == Active(driver) \cap Active(vbios) # {}

Merge ==
    LET driver == tables["driver"]
        vbios  == tables["vbios"]
    IN  /\ pc = "merge"
        /\ IF Conflict(driver, vbios)
             THEN Raise
             ELSE /\ golden' = [x \in Active(driver) \cup Active(vbios) |->
                                   IF x \in Active(vbios) THEN vbios[x]
                                                          ELSE driver[x]]
                  /\ pc' = "count"
                  /\ UNCHANGED <<at, k, reportVars, rims, tables, todo,
                                 mismatched, verdict>>

-----------------------------------------------------------------------------
(* runtime_measurements, from 0: the blocks in the order of their indices. *)
RuntimeIndices == 0 .. Cardinality(DOMAIN blocks) - 1
Runtime(x) == blocks[x + 1]

(* is_msr_35_valid is never cleared: the status of the opaque data is      *)
(* bytes, BaseSettings.NVDEC_STATUS.DISABLED is the member of an Enum, and *)
(* these are never equal.                                                  *)
NvdecDisabled == FALSE

(* Mutant of MoreGolden: as many are too many. *)
MoreGoldenOrEqual == Cardinality(DOMAIN golden) >= Cardinality(DOMAIN blocks)

MoreGolden == Cardinality(DOMAIN golden) > Cardinality(DOMAIN blocks)

(* Without more golden than runtime measurements every index is compared.  *)
CountMeasurements ==
    /\ pc = "count"
    /\ IF MoreGolden
         THEN pc' = "done" /\ todo' = todo
         ELSE pc' = "compare" /\ todo' = DOMAIN golden
    /\ UNCHANGED <<at, k, reportVars, rims, tables, golden, mismatched, verdict>>

(* Mutant of Matches: the size an entry declares is not looked at. *)
MatchesByHash(e, value) == \E j \in 1 .. e.alternatives : e.hashes[j] = value

(* One of the alternatives, of the declared size. *)
Matches(e, value) ==
    \E j \in 1 .. e.alternatives : e.hashes[j] = value /\ e.size = value.length

(* Where the report has no measurement the first alternative raises an     *)
(* IndexError.                                                             *)
OutOfReport(x) == x \notin RuntimeIndices /\ golden[x].alternatives > 0

(* One index. *)
CompareIndex(x) ==
    /\ pc = "compare" /\ x \in todo
    /\ LET skipped == x = NvdecIndex /\ NvdecDisabled
       IN  IF ~skipped /\ OutOfReport(x)
             THEN Raise
             ELSE /\ todo' = todo \ {x}
                  /\ mismatched' =
                        IF skipped \/ Matches(golden[x], Runtime(x))
                          THEN mismatched ELSE mismatched \cup {x}
                  /\ UNCHANGED <<pc, at, k, reportVars, rims, tables, golden,
                                 verdict>>

(* TRUE marks the measurements as matching. *)
Decide ==
    /\ pc = "compare" /\ todo = {}
    /\ pc' = "done" /\ verdict' = (mismatched = {})
    /\ UNCHANGED <<at, k, reportVars, rims, tables, golden, todo, mismatched>>

Next ==
    \/ Report \/ ParseEntry \/ EndRim \/ Merge \/ CountMeasurements
    \/ \E x \in todo : CompareIndex(x)
    \/ Decide

(* One thread and no call that waits. *)
Spec == Init /\ [][Next]_vars /\ WF_vars(Next)
-----------------------------------------------------------------------------
(* Every variable keeps the kind of value the code gives it. *)
TypeOK ==
    /\ report \in Reports /\ rims \in Rims
    /\ pc \in RimNames \cup {"request", "header", "record", "opaque", "parsed",
                             "merge", "count", "compare", "done", "failed"}
    /\ at \in Nat /\ k \in Nat
    /\ DOMAIN blocks \subseteq Nat /\ \A x \in DOMAIN blocks : blocks[x] \in Bytes
    /\ DOMAIN opaque \subseteq OpaqueTypes
    /\ \A t \in DOMAIN opaque : opaque[t] \in Bytes
    /\ tables = [r \in RimNames |-> tables[r]]
    /\ \A r \in RimNames : /\ DOMAIN tables[r] \subseteq Nat
                           /\ \A x \in DOMAIN tables[r] : tables[r][x] \in Entry
    /\ DOMAIN golden \subseteq Nat /\ \A x \in DOMAIN golden : golden[x] \in Entry
    /\ todo \subseteq DOMAIN golden /\ mismatched \subseteq DOMAIN golden
    /\ verdict \in BOOLEAN

(* How block b reads by its own lengths, wherever the record ends. *)
Reading(b) ==
    Slice(b.value, Lesser(b.valueSize, b.size - MeasurementHeader))

(* Past the record, MeasurementBlocks holds the value of every block as    *)
(* its own sizes have it, and no block has taken the place of another: the *)
(* indices are those from 1 on without a gap or a double, though all the   *)
(* code counts is bytes (spdm_msrt_resp_msg.py:198-227).                   *)
RecordExact ==
    pc \notin {"request", "header", "record", "failed"} =>
        /\ DOMAIN blocks = 1 .. report.blocks
        /\ \A m \in 1 .. report.blocks :
               LET b == report.record[m]
               IN  b.index \in DOMAIN blocks /\ blocks[b.index] = Reading(b)

(* Every active entry of either RIM finds a block of its own index, with a *)
(* value and size it allows. *)
EveryEntryMatches ==
    \A r \in RimNames : \A n \in DOMAIN rims[r] :
        rims[r][n].active =>
            \E m \in 1 .. report.blocks, j \in 1 .. rims[r][n].alternatives :
                /\ report.record[m].index = rims[r][n].index + 1
                /\ rims[r][n].hashes[j] = Reading(report.record[m])
                /\ rims[r][n].size = Reading(report.record[m]).length

(* A TRUE verdict means that for this nonce and these versions the GPU has *)
(* signed a report, of exactly the bytes parsed, in which every active     *)
(* entry matches, the one the verifier might skip and those that follow    *)
(* another of the same index included (verifier.py:47-158,                 *)
(* cc_admin_utils.py:666-754).                                             *)
VerdictMeansMatch ==
    verdict =>
        /\ report.genuine /\ report.request.nonce = Nonce /\ SameVersions
        /\ SignatureStart + SignatureSize = report.length
        /\ EveryEntryMatches

(* No index is active twice when a verdict is TRUE, in one RIM or in both, *)
(* so that no entry stood in for another (verifier.py:131,                 *)
(* rim/__init__.py:340).                                                   *)
OneEntryPerIndex ==
    verdict =>
        \A r, s \in RimNames : \A m \in DOMAIN rims[r], n \in DOMAIN rims[s] :
            /\ rims[r][m].active /\ rims[s][n].active
            /\ rims[r][m].index = rims[s][n].index
            => r = s /\ m = n

(* What a report and RIMs must be like, said of the inputs alone. *)
SizesUpTo(header, seq) ==
    LET upTo[n \in 0 .. Len(seq)] ==
            IF n = 0 THEN 0 ELSE upTo[n - 1] + header + seq[n].size
    IN  upTo

SizeOf(header, seq) == SizesUpTo(header, seq)[Len(seq)]

ReportInOrder ==
    /\ report.blocks = Len(report.record) /\ report.blocks > 0
    /\ report.recordLength = SizeOf(BlockHeader, report.record)
    /\ report.opaqueLength = SizeOf(FieldHeader, report.opaque)
    /\ report.length = SignatureStart + SignatureSize
    /\ report.genuine /\ report.request.nonce = Nonce
    /\ {report.record[m].index : m \in 1 .. report.blocks} = 1 .. report.blocks
    /\ \A m \in 1 .. report.blocks :
           LET b == report.record[m]
           IN  b.spec = 1 /\ b.size = b.valueSize + MeasurementHeader
    /\ \A m \in DOMAIN report.opaque :
           LET f == report.opaque[m]
           IN  f.type # "unknown" /\ f.size % Unit(f.type) = 0
    /\ \A m, n \in DOMAIN report.opaque :
           report.opaque[m].type = report.opaque[n].type => m = n
    /\ \E m \in DOMAIN report.opaque :
           /\ report.opaque[m].type = "DRIVER_VERSION"
           /\ report.opaque[m].data = DriverVersion.value
           /\ report.opaque[m].size > 0
           /\ report.opaque[m].size - DriverVersion.length \in {0, 1}
    /\ \E m \in DOMAIN report.opaque :
           /\ report.opaque[m].type = "VBIOS_VERSION"
           /\ Slice(report.opaque[m].data, report.opaque[m].size) = VbiosVersion

RimsInOrder ==
    \A r \in RimNames :
        /\ rims[r] # <<>>
        /\ \A n \in DOMAIN rims[r] : rims[r][n].alternatives <= Len(rims[r][n].hashes)
        /\ \A m, n \in DOMAIN rims[r] : rims[r][m].index = rims[r][n].index => m = n
        /\ \A m \in DOMAIN rims["driver"], n \in DOMAIN rims["vbios"] :
               /\ rims["driver"][m].active /\ rims["vbios"][n].active
               => rims["driver"][m].index # rims["vbios"][n].index

(* A report and RIMs that are in order and agree get a TRUE verdict: no    *)
(* order of blocks, fields or entries, no inactive entry and no further    *)
(* alternative makes the verifier raise or refuse.                         *)
MatchMeansVerdict ==
    pc \in {"done", "failed"} /\ ReportInOrder /\ RimsInOrder /\ EveryEntryMatches
        => verdict

(* The verifier ends, whatever the lengths in the report claim. *)
RunEnds == <>(pc \in {"done", "failed"})
-----------------------------------------------------------------------------
(* The inductive invariant.  Once a block reaches past the record nothing  *)
(* is said of the values any more, for the record is going to be refused.  *)
PastRecord == pc \notin {"request", "header", "record", "failed"}
Verified   == PastRecord /\ pc \notin {"opaque", "parsed"}
Merged     == pc \in {"count", "compare", "done"}

BlocksAreOf(n) ==
    /\ n <= Len(report.record)
    /\ DOMAIN blocks = {report.record[m].index : m \in 1 .. n}
    /\ IsFiniteSet(DOMAIN blocks) /\ Cardinality(DOMAIN blocks) <= n

ValuesAreOf(n) ==
    \A x \in DOMAIN blocks : \E m \in 1 .. n :
        report.record[m].index = x /\ blocks[x] = Reading(report.record[m])

RecordInv ==
    /\ pc \in {"request", "header"} => at = 0 /\ k = 0 /\ DOMAIN blocks = {}
    /\ pc = "record" => /\ k <= report.blocks /\ BlocksAreOf(k)
                        /\ at <= RecordSize => ValuesAreOf(k)
    /\ PastRecord => /\ BlocksAreOf(report.blocks) /\ ValuesAreOf(report.blocks)
                     /\ DOMAIN blocks = 1 .. report.blocks

VerifiedInv ==
    Verified => /\ report.genuine /\ report.request.nonce = Nonce /\ SameVersions
                /\ SignatureStart + SignatureSize = report.length

Listed(r, n) ==
    /\ n <= Len(rims[r])
    /\ DOMAIN tables[r] = {rims[r][m].index : m \in 1 .. n}
    /\ \A m \in 1 .. n : tables[r][rims[r][m].index] = rims[r][m]
    /\ \A l, m \in 1 .. n : rims[r][l].index = rims[r][m].index => l = m

TablesInv ==
    /\ pc \in {"request", "header", "record", "opaque", "parsed"} =>
           \A r \in RimNames : DOMAIN tables[r] = {}
    /\ pc = "driver" => Listed("driver", k) /\ DOMAIN tables["vbios"] = {}
    /\ pc = "vbios" => Listed("driver", Len(rims["driver"])) /\ Listed("vbios", k)
    /\ pc = "merge" \/ Merged => \A r \in RimNames : Listed(r, Len(rims[r]))

GoldenInv ==
    /\ Merged \/ pc = "failed" \/ DOMAIN golden = {}
    /\ Merged => /\ ~Conflict(tables["driver"], tables["vbios"])
                 /\ \A r \in RimNames : \A x \in Active(tables[r]) :
                        x \in DOMAIN golden /\ golden[x] = tables[r][x]

Agreed(x) == x + 1 \in DOMAIN blocks /\ Matches(golden[x], Runtime(x))

ComparedInv ==
    /\ verdict => pc = "done" /\ \A x \in DOMAIN golden : Agreed(x)
    /\ pc = "compare" /\ mismatched = {} => \A x \in DOMAIN golden \ todo : Agreed(x)

IInv == TypeOK /\ RecordInv /\ VerifiedInv /\ TablesInv /\ GoldenInv /\ ComparedInv
-----------------------------------------------------------------------------
(* The inductive invariant behind MatchMeansVerdict, relative to IInv: what *)
(* is known besides of a report and RIMs that are in order and agree.       *)
InputsAgree == ReportInOrder /\ RimsInOrder /\ EveryEntryMatches

FieldsAreOf(n) ==
    /\ n <= Len(report.opaque)
    /\ DOMAIN opaque = {report.opaque[m].type : m \in 1 .. n}
    /\ \A m \in 1 .. n : LET f == report.opaque[m]
                         IN  opaque[f.type] = Slice(f.data, f.size)

(* Nothing is refused: the byte index is the size of what has been read,    *)
(* the golden measurements are active entries, and none mismatches.         *)
CompleteInv ==
    /\ pc # "failed"
    /\ pc \in {"request", "header", "record"} => FieldsAreOf(0)
    /\ pc = "record" => at = SizesUpTo(BlockHeader, report.record)[k]
    /\ pc = "opaque" => FieldsAreOf(k) /\ at = SizesUpTo(FieldHeader, report.opaque)[k]
    /\ pc = "parsed" => FieldsAreOf(Len(report.opaque))
    /\ Merged => \A x \in DOMAIN golden : \E r \in RimNames : x \in Active(tables[r])
    /\ mismatched = {}
    /\ pc = "done" => verdict

AgreeInv == InputsAgree => CompleteInv
=============================================================================

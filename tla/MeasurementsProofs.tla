------------------------- MODULE MeasurementsProofs -------------------------
(***************************************************************************)
(* What Measurements guarantees for every set of reports, whatever lengths *)
(* and indices they claim, and for every pair of RIMs.                     *)
(***************************************************************************)
EXTENDS Measurements, FiniteSetTheorems, WellFoundedInduction, TLAPS

USE DEF RimNames

-----------------------------------------------------------------------------
(* Reading bytes. *)
LEMMA SliceType ==
    ASSUME NEW v \in Values, NEW n \in Int
    PROVE  Slice(v, n) \in Bytes
<1>1. NoBytes \in Bytes
  BY DEF NoBytes, Bytes
<1>2. ASSUME n \in Nat PROVE [value |-> v, length |-> n] \in Bytes
  BY <1>2 DEF Bytes
<1>3. CASE n <= 0
  BY <1>1, <1>3 DEF Slice
<1>4. CASE ~(n <= 0)
  <2>1. n \in Nat
    BY <1>4
  <2>2. QED
    BY <1>2, <1>4, <2>1 DEF Slice
<1>5. QED
  BY <1>3, <1>4

LEMMA LesserType ==
    ASSUME NEW m \in Int, NEW n \in Int
    PROVE  Lesser(m, n) \in Int /\ Lesser(m, n) <= m /\ Lesser(m, n) <= n
BY DEF Lesser

(* A report's lengths are numbers. *)
LEMMA ReportTypes ==
    ASSUME TypeOK
    PROVE  /\ report \in ReportRecord
           /\ RecordSize \in Int /\ OpaqueSize \in Int
           /\ OpaqueStart \in Nat /\ SignatureStart \in Nat
<1>1. report \in ReportRecord
  BY ReportsAssumption DEF TypeOK
<1>2. OpaqueStart \in Nat /\ SignatureStart \in Nat
  BY <1>1 DEF ReportRecord, OpaqueStart, SignatureStart, RecordStart,
              ResponseHeader, NonceSize, OpaqueLengthSize
<1>3. RecordSize \in Int /\ OpaqueSize \in Int
  BY <1>1, <1>2 DEF ReportRecord, RecordSize, OpaqueSize, Lesser, RecordStart,
                    ResponseHeader
<1>4. QED
  BY <1>1, <1>2, <1>3

(* A block the record still holds in full reads as its own sizes have it.  *)
LEMMA WholeBlock ==
    ASSUME TypeOK, NEW b \in BlockRecord,
           at + BlockHeader + b.size <= RecordSize
    PROVE  ValueOf(b) = Reading(b)
<1>1. at \in Nat /\ b.size \in Nat /\ RecordSize \in Int
  BY ReportTypes DEF TypeOK, BlockRecord
<1>2. BlockHeader = 4
  BY DEF BlockHeader
<1>3. b.size = RecordSize - at - BlockHeader \/ b.size < RecordSize - at - BlockHeader
  BY <1>1, <1>2
<1>4. MeasurementBytes(b) = b.size
  BY <1>3 DEF MeasurementBytes, Lesser
<1>5. QED
  BY <1>4 DEF ValueOf, Reading

LEMMA ValueType ==
    ASSUME TypeOK, NEW b \in BlockRecord
    PROVE  ValueOf(b) \in Bytes
<1>1. /\ at \in Nat /\ b.size \in Nat /\ b.valueSize \in Nat
      /\ b.value \in Values /\ RecordSize \in Int
  BY ReportTypes DEF TypeOK, BlockRecord
<1>2. RecordSize - at - BlockHeader \in Int
  BY <1>1 DEF BlockHeader
<1>3. MeasurementBytes(b) \in Int
  BY <1>1, <1>2 DEF MeasurementBytes, Lesser
<1>4. MeasurementBytes(b) - MeasurementHeader \in Int
  BY <1>3 DEF MeasurementHeader
<1>5. Lesser(b.valueSize, MeasurementBytes(b) - MeasurementHeader) \in Int
  BY <1>1, <1>4 DEF Lesser
<1>6. QED
  BY <1>1, <1>5, SliceType DEF ValueOf

(* Numbers from 1 to n that take every value from 1 to n take none twice.  *)
LEMMA NoDouble ==
    ASSUME NEW n \in Nat, NEW f \in [1 .. n -> 1 .. n],
           \A y \in 1 .. n : \E x \in 1 .. n : f[x] = y
    PROVE  \A l, m \in 1 .. n : f[l] = f[m] => l = m
<1>1. f \in Surjection(1 .. n, 1 .. n)
  BY DEF Surjection
<1>2. IsFiniteSet(1 .. n)
  BY FS_Interval
<1>3. f \in Injection(1 .. n, 1 .. n)
  BY <1>1, <1>2, FS_SurjSameCardinalityImpliesInj, Zenon
<1>4. QED
  BY <1>3 DEF Injection, IsInjective

LEMMA IntervalSize ==
    ASSUME NEW n \in Nat
    PROVE  IsFiniteSet(1 .. n) /\ Cardinality(1 .. n) = n
<1>1. 1 \in Int /\ n \in Int
  OBVIOUS
<1>2. /\ IsFiniteSet(1 .. n)
      /\ Cardinality(1 .. n) = IF 1 > n THEN 0 ELSE n - 1 + 1
  BY ONLY <1>1, FS_Interval
<1>3. QED
  BY <1>2

-----------------------------------------------------------------------------
(* The initial states satisfy the invariant. *)
LEMMA InitIInv == Init => IInv
<1>. SUFFICES ASSUME Init PROVE IInv
  OBVIOUS
<1>. USE DEF Init, InitReport, NoEntries
<1>1. TypeOK
  BY DEF TypeOK
<1>2. RecordInv
  BY DEF RecordInv, PastRecord
<1>3. VerifiedInv /\ TablesInv /\ GoldenInv /\ ComparedInv
  BY DEF VerifiedInv, Verified, PastRecord, TablesInv, GoldenInv, Merged, ComparedInv
<1>4. QED
  BY <1>1, <1>2, <1>3 DEF IInv

(* Whatever raises ends the comparison and leaves its verdict FALSE. *)
LEMMA RaiseKeeps ==
    ASSUME IInv, pc # "done", Raise
    PROVE  IInv'
<1>. USE DEF IInv, Raise, Fail, reportVars, goldenVars
<1>1. TypeOK'
  BY DEF TypeOK
<1>2. RecordInv' /\ VerifiedInv' /\ TablesInv' /\ GoldenInv'
  BY DEF RecordInv, VerifiedInv, Verified, PastRecord, TablesInv, GoldenInv, Merged
<1>3. ComparedInv'
  BY DEF ComparedInv
<1>4. QED
  BY <1>1, <1>2, <1>3

(* Until the RIMs are read, reading the report disturbs nothing of them.   *)
LEMMA RimsUntouched ==
    ASSUME IInv, pc \in {"request", "header", "record", "opaque"}, UNCHANGED goldenVars,
           pc' \in {"header", "record", "opaque", "parsed"}
    PROVE  VerifiedInv' /\ TablesInv' /\ GoldenInv' /\ ComparedInv'
BY DEF IInv, goldenVars, VerifiedInv, Verified, PastRecord, TablesInv, GoldenInv,
       Merged, ComparedInv

(* Past the record, what is known of it stays. *)
LEMMA RecordUntouched ==
    ASSUME IInv, PastRecord, PastRecord', UNCHANGED <<report, blocks>>
    PROVE  RecordInv'
<1>1. /\ BlocksAreOf(report.blocks) /\ ValuesAreOf(report.blocks)
      /\ DOMAIN blocks = 1 .. report.blocks
  BY DEF IInv, RecordInv
<1>2. BlocksAreOf(report.blocks)'
  BY <1>1 DEF BlocksAreOf
<1>3. ValuesAreOf(report.blocks)'
  BY <1>1 DEF ValuesAreOf, Reading
<1>4. QED
  BY <1>1, <1>2, <1>3 DEF RecordInv, PastRecord

LEMMA RequestStep ==
    ASSUME IInv, ParseRequest, UNCHANGED goldenVars
    PROVE  IInv'
<1>1. CASE Fail
  BY <1>1, RaiseKeeps DEF Raise, ParseRequest
<1>2. CASE pc' = "header" /\ UNCHANGED <<at, k, reportVars>>
  <2>. USE <1>2 DEF IInv, ParseRequest, reportVars, goldenVars
  <2>1. TypeOK'
    BY DEF TypeOK
  <2>2. RecordInv'
    BY DEF RecordInv, PastRecord
  <2>3. QED
    BY <2>1, <2>2, RimsUntouched
<1>3. QED
  BY <1>1, <1>2 DEF ParseRequest

LEMMA HeaderStep ==
    ASSUME IInv, ParseHeader, UNCHANGED goldenVars
    PROVE  IInv'
<1>1. CASE Fail
  BY <1>1, RaiseKeeps DEF Raise, ParseHeader
<1>2. CASE pc' = "record" /\ UNCHANGED <<at, k, reportVars>>
  <2>. USE <1>2 DEF IInv, ParseHeader, reportVars, goldenVars
  <2>1. TypeOK'
    BY DEF TypeOK
  <2>2. BlocksAreOf(0) /\ ValuesAreOf(0)
    <3>1. report.record \in Seq(BlockRecord)
      BY ReportTypes DEF ReportRecord
    <3>2. DOMAIN blocks = {}
      BY DEF RecordInv
    <3>3. IsFiniteSet(DOMAIN blocks) /\ Cardinality(DOMAIN blocks) = 0
      BY <3>2, FS_EmptySet
    <3>4. 1 .. 0 = {} /\ 0 <= Len(report.record)
      BY <3>1
    <3>5. QED
      BY <3>2, <3>3, <3>4 DEF BlocksAreOf, ValuesAreOf
  <2>3. k = 0 /\ report.blocks \in Nat
    BY ReportTypes DEF RecordInv, ReportRecord
  <2>4. RecordInv'
    BY <2>2, <2>3 DEF RecordInv, PastRecord, BlocksAreOf, ValuesAreOf, RecordSize,
                      RecordStart, Reading
  <2>5. QED
    BY <2>1, <2>4, RimsUntouched
<1>3. QED
  BY <1>1, <1>2 DEF ParseHeader

-----------------------------------------------------------------------------
LEMMA BlockStep ==
    ASSUME IInv, ParseBlock, UNCHANGED goldenVars
    PROVE  IInv'
<1>. DEFINE b == report.record[k + 1]
<1>1. CASE Fail
  BY <1>1, RaiseKeeps DEF Raise, ParseBlock
<1>2. CASE /\ k + 1 \in DOMAIN report.record
           /\ blocks' = Put(blocks, b.index, ValueOf(b))
           /\ Advance(BlockHeader + b.size)
           /\ UNCHANGED <<report, pc, opaque>>
  <2>1. /\ report \in ReportRecord /\ report.record \in Seq(BlockRecord)
        /\ report.blocks \in Nat
    BY ReportTypes DEF IInv, ReportRecord
  <2>2. at \in Nat /\ k \in Nat /\ RecordSize \in Int
    BY ReportTypes DEF IInv, TypeOK
  <2>3. k + 1 \in 1 .. Len(report.record) /\ b \in BlockRecord
    BY <1>2, <2>1, <2>2
  <2>4. b.index \in Nat /\ b.size \in Nat
    BY <2>3 DEF BlockRecord
  <2>5. pc = "record" /\ k < report.blocks
    BY DEF ParseBlock
  <2>6. BlocksAreOf(k) /\ (at <= RecordSize => ValuesAreOf(k))
    BY <2>5 DEF IInv, RecordInv
  <2>7. at' = at + BlockHeader + b.size /\ k' = k + 1
    BY <1>2, <2>2, <2>4 DEF Advance, BlockHeader
  <2>8. /\ DOMAIN blocks' = DOMAIN blocks \cup {b.index}
        /\ blocks'[b.index] = ValueOf(b)
        /\ \A y \in DOMAIN blocks : y # b.index => blocks'[y] = blocks[y]
    <3>. HIDE DEF b
    <3>1. blocks' = Put(blocks, b.index, ValueOf(b))
      BY <1>2 DEF b
    <3>2. QED
      BY <3>1 DEF Put
  <2>9. TypeOK'
    <3>1. at' \in Nat /\ k' \in Nat
      BY <2>2, <2>4, <2>7 DEF BlockHeader
    <3>2. DOMAIN blocks' \subseteq Nat /\ \A x \in DOMAIN blocks' : blocks'[x] \in Bytes
      BY <2>3, <2>4, <2>8, ValueType DEF IInv, TypeOK
    <3>3. QED
      BY <1>2, <3>1, <3>2 DEF IInv, TypeOK, goldenVars
  <2>10. BlocksAreOf(k)'
    <3>1. DOMAIN blocks' = {report.record[m].index : m \in 1 .. k + 1}
      <4>1. DOMAIN blocks = {report.record[m].index : m \in 1 .. k}
        BY <2>6 DEF BlocksAreOf
      <4>2. 1 .. k + 1 = 1 .. k \cup {k + 1}
        BY <2>2
      <4>3. QED
        BY <2>8, <4>1, <4>2
    <3>2. /\ IsFiniteSet(DOMAIN blocks')
          /\ Cardinality(DOMAIN blocks') <= k + 1
      <4>1. IsFiniteSet(DOMAIN blocks) /\ Cardinality(DOMAIN blocks) <= k
        BY <2>6 DEF BlocksAreOf
      <4>2. Cardinality(DOMAIN blocks) \in Nat
        BY <4>1, FS_CardinalityType
      <4>3. /\ IsFiniteSet(DOMAIN blocks \cup {b.index})
            /\ \/ Cardinality(DOMAIN blocks \cup {b.index}) = Cardinality(DOMAIN blocks)
               \/ Cardinality(DOMAIN blocks \cup {b.index}) = Cardinality(DOMAIN blocks) + 1
        BY <4>1, FS_AddElement
      <4>4. QED
        BY <2>2, <2>8, <4>1, <4>2, <4>3
    <3>3. QED
      BY <1>2, <2>3, <2>7, <3>1, <3>2 DEF BlocksAreOf
  <2>11. ASSUME at' <= RecordSize
         PROVE  ValuesAreOf(k)'
    <3>1. at <= RecordSize /\ at + BlockHeader + b.size <= RecordSize
      BY <2>2, <2>4, <2>7, <2>11 DEF BlockHeader
    <3>2. blocks'[b.index] = Reading(b)
      BY <2>3, <2>8, <3>1, WholeBlock DEF IInv
    <3>3. ValuesAreOf(k)
      BY <2>6, <3>1
    <3>4. ASSUME NEW x \in DOMAIN blocks'
          PROVE  \E m \in 1 .. k + 1 :
                     report.record[m].index = x /\ blocks'[x] = Reading(report.record[m])
      <4>1. CASE x = b.index
        BY <2>2, <3>2, <4>1
      <4>2. CASE x # b.index
        <5>1. x \in DOMAIN blocks /\ blocks'[x] = blocks[x]
          BY <2>8, <3>4, <4>2
        <5>2. PICK m \in 1 .. k :
                  report.record[m].index = x /\ blocks[x] = Reading(report.record[m])
          BY <3>3, <5>1 DEF ValuesAreOf
        <5>3. m \in 1 .. k + 1
          BY <2>2
        <5>4. QED
          BY <5>1, <5>2, <5>3
      <4>3. QED
        BY <4>1, <4>2
    <3>5. QED
      BY <1>2, <2>7, <3>4 DEF ValuesAreOf, Reading
  <2>12. RecordSize' = RecordSize /\ pc' = "record" /\ k' <= report'.blocks
    BY <1>2, <2>1, <2>2, <2>5, <2>7 DEF RecordSize, RecordStart
  <2>13. RecordInv'
    BY <2>10, <2>11, <2>12 DEF RecordInv, PastRecord
  <2>14. QED
    BY <1>2, <2>5, <2>9, <2>13, RimsUntouched DEF IInv
<1>3. QED
  BY <1>1, <1>2 DEF ParseBlock

(* Blocks of which there are no more than there are indices to find are    *)
(* found under these indices and no others.                                *)
LEMMA EndRecordStep ==
    ASSUME IInv, EndRecord, UNCHANGED goldenVars
    PROVE  IInv'
<1>1. CASE Fail
  BY <1>1, RaiseKeeps DEF Raise, EndRecord
<1>2. CASE RecordIsComplete /\ pc' = "opaque" /\ at' = 0 /\ k' = 0 /\ UNCHANGED reportVars
  <2>1. pc = "record" /\ k = report.blocks /\ k \in Nat
    BY DEF EndRecord, IInv, TypeOK
  <2>2. at = RecordSize /\ RecordSize \in Int
    BY <1>2, ReportTypes DEF RecordIsComplete, IInv
  <2>3. BlocksAreOf(k) /\ ValuesAreOf(k)
    BY <2>1, <2>2 DEF IInv, RecordInv
  <2>4. DOMAIN blocks = 1 .. k
    <3>1. 1 .. k \subseteq DOMAIN blocks
      BY <1>2, <2>1 DEF RecordIsComplete
    <3>2. IsFiniteSet(DOMAIN blocks) /\ Cardinality(DOMAIN blocks) <= k
      BY <2>3 DEF BlocksAreOf
    <3>3. IsFiniteSet(1 .. k) /\ Cardinality(1 .. k) = k
      BY <2>1, IntervalSize
    <3>4. /\ Cardinality(1 .. k) <= Cardinality(DOMAIN blocks)
          /\ Cardinality(DOMAIN blocks) = Cardinality(1 .. k) => DOMAIN blocks = 1 .. k
      BY <3>1, <3>2, FS_Subset
    <3>5. Cardinality(DOMAIN blocks) \in Nat
      BY <3>2, FS_CardinalityType
    <3>6. QED
      BY <2>1, <3>2, <3>3, <3>4, <3>5
  <2>5. TypeOK'
    BY <1>2 DEF IInv, TypeOK, reportVars, goldenVars
  <2>6. RecordInv'
    BY <1>2, <2>1, <2>3, <2>4 DEF RecordInv, PastRecord, BlocksAreOf, ValuesAreOf,
                                  Reading, reportVars
  <2>7. QED
    BY <1>2, <2>1, <2>5, <2>6, RimsUntouched DEF IInv
<1>3. QED
  BY <1>1, <1>2 DEF EndRecord

LEMMA FieldStep ==
    ASSUME IInv, ParseField, UNCHANGED goldenVars
    PROVE  IInv'
<1>. DEFINE f == report.opaque[k + 1]
<1>1. CASE Fail
  BY <1>1, RaiseKeeps DEF Raise, ParseField
<1>2. CASE /\ k + 1 \in DOMAIN report.opaque
           /\ ~FieldFails(f)
           /\ opaque' = Put(opaque, f.type, DataOf(f))
           /\ Advance(FieldHeader + f.size)
           /\ UNCHANGED <<report, pc, blocks>>
  <2>1. report \in ReportRecord /\ report.opaque \in Seq(FieldRecord)
    BY ReportTypes DEF IInv, ReportRecord
  <2>2. at \in Nat /\ k \in Nat /\ OpaqueSize \in Int /\ pc = "opaque"
    BY ReportTypes DEF IInv, TypeOK, ParseField
  <2>3. f \in FieldRecord
    BY <1>2, <2>1, <2>2
  <2>4. f.size \in Nat /\ f.data \in Values /\ f.type \in OpaqueTypes
    BY <1>2, <2>3 DEF FieldRecord, FieldFails
  <2>5. DataOf(f) \in Bytes
    <3>1. OpaqueSize - at - FieldHeader \in Int
      BY <2>2 DEF FieldHeader
    <3>2. Lesser(f.size, OpaqueSize - at - FieldHeader) \in Int
      BY <2>4, <3>1 DEF Lesser
    <3>3. QED
      BY <2>4, <3>2, SliceType DEF DataOf
  <2>6. DOMAIN opaque' \subseteq OpaqueTypes /\ \A t \in DOMAIN opaque' : opaque'[t] \in Bytes
    <3>. HIDE DEF f
    <3>1. opaque' = Put(opaque, f.type, DataOf(f))
      BY <1>2 DEF f
    <3>2. QED
      BY <2>4, <2>5, <3>1 DEF Put, IInv, TypeOK
  <2>7. at' \in Nat /\ k' \in Nat
    BY <1>2, <2>2, <2>4 DEF Advance, FieldHeader
  <2>8. TypeOK'
    BY <1>2, <2>6, <2>7 DEF IInv, TypeOK, goldenVars
  <2>9. RecordInv'
    BY <1>2, <2>2, RecordUntouched DEF PastRecord
  <2>10. QED
    BY <1>2, <2>2, <2>8, <2>9, RimsUntouched DEF IInv
<1>3. QED
  BY <1>1, <1>2 DEF ParseField

LEMMA EndReportStep ==
    ASSUME IInv, EndReport, UNCHANGED goldenVars
    PROVE  IInv'
<1>. USE DEF EndReport, reportVars
<1>1. TypeOK'
  <2>. USE DEF IInv, TypeOK, goldenVars
  <2>1. (report \in Reports /\ rims \in Rims)'
    OBVIOUS
  <2>2. pc' = "parsed" /\ (at \in Nat /\ k \in Nat)'
    OBVIOUS
  <2>3. QED
    BY <2>1, <2>2
<1>2. RecordInv'
  BY RecordUntouched DEF PastRecord
<1>3. QED
  BY <1>1, <1>2, RimsUntouched DEF IInv

(* Only what is verified gets to the RIMs. *)
LEMMA VerifyStep ==
    ASSUME IInv, VerifyReport, UNCHANGED goldenVars
    PROVE  IInv'
<1>1. CASE Fail
  BY <1>1, RaiseKeeps DEF Raise, VerifyReport
<1>2. CASE /\ report.request.nonce = Nonce /\ SameVersions /\ Signed
           /\ pc' = "driver" /\ at' = 0 /\ k' = 0 /\ UNCHANGED reportVars
  <2>. USE <1>2 DEF VerifyReport, reportVars, goldenVars, IInv
  <2>1. TypeOK'
    BY DEF TypeOK
  <2>2. RecordInv'
    BY RecordUntouched DEF PastRecord
  <2>3. VerifiedInv'
    BY DEF VerifiedInv, Signed, SameVersions, GetData, SignatureStart, OpaqueStart,
           RecordStart
  <2>4. TablesInv'
    <3>1. rims["driver"] \in Seq(Entry)
      BY RimsAssumption DEF TypeOK
    <3>2. Len(rims["driver"]) \in Nat /\ 1 .. 0 = {}
      BY <3>1
    <3>3. DOMAIN tables["driver"] = {} /\ DOMAIN tables["vbios"] = {}
      BY DEF TablesInv
    <3>4. QED
      BY <3>2, <3>3 DEF TablesInv, Listed, Merged
  <2>5. GoldenInv' /\ ComparedInv'
    BY DEF GoldenInv, Merged, ComparedInv
  <2>6. QED
    BY <2>1, <2>2, <2>3, <2>4, <2>5
<1>3. QED
  BY <1>1, <1>2 DEF VerifyReport

-----------------------------------------------------------------------------
(* Once the report is verified what is known of it stays. *)
LEMMA ReportUntouched ==
    ASSUME IInv, Verified, Verified', UNCHANGED <<report, blocks, opaque>>
    PROVE  RecordInv' /\ VerifiedInv'
<1>1. RecordInv'
  BY RecordUntouched DEF Verified
<1>2. VerifiedInv'
  BY DEF IInv, VerifiedInv, Verified, SameVersions, GetData, SignatureStart,
         OpaqueStart, RecordStart
<1>3. QED
  BY <1>1, <1>2

LEMMA RimTypes ==
    ASSUME TypeOK, NEW r \in RimNames
    PROVE  rims[r] \in Seq(Entry) /\ Len(rims[r]) \in Nat
<1>1. rims \in [RimNames -> Seq(Entry)]
  BY RimsAssumption DEF TypeOK
<1>2. QED
  BY <1>1

(* Before the merge nothing is golden, compared or decided. *)
LEMMA NothingCompared ==
    ASSUME IInv, pc \in RimNames,
           pc' \in RimNames \cup {"merge"}, UNCHANGED <<golden, todo, mismatched, verdict>>
    PROVE  GoldenInv' /\ ComparedInv'
BY DEF IInv, GoldenInv, Merged, ComparedInv

LEMMA EntryStep ==
    ASSUME IInv, ParseEntry
    PROVE  IInv'
<1>. DEFINE e == rims[pc][k + 1]
<1>1. CASE Raise
  BY <1>1, RaiseKeeps DEF ParseEntry
<1>2. CASE /\ e.index \notin DOMAIN tables[pc]
           /\ tables' = [tables EXCEPT ![pc] = Put(@, e.index, e)]
           /\ k' = k + 1
           /\ UNCHANGED <<pc, at, reportVars, rims, golden, todo, mismatched, verdict>>
  <2>1. pc \in RimNames /\ k < Len(rims[pc]) /\ k \in Nat
    BY DEF ParseEntry, IInv, TypeOK
  <2>2. rims[pc] \in Seq(Entry) /\ Len(rims[pc]) \in Nat
    BY <2>1, RimTypes DEF IInv
  <2>3. e \in Entry /\ e.index \in Nat /\ k + 1 <= Len(rims[pc])
    <3>1. k + 1 \in 1 .. Len(rims[pc])
      BY <2>1, <2>2
    <3>2. e \in Entry
      BY <2>2, <3>1
    <3>3. QED
      BY <3>1, <3>2 DEF Entry
  <2>4. Listed(pc, k) /\ tables = [r \in RimNames |-> tables[r]]
    BY <2>1 DEF IInv, TablesInv, TypeOK
  <2>5. /\ tables'[pc] = Put(tables[pc], e.index, e)
        /\ \A r \in RimNames : r # pc => tables'[r] = tables[r]
    BY <1>2, <2>1, <2>4
  <2>6. /\ DOMAIN tables'[pc] = DOMAIN tables[pc] \cup {e.index}
        /\ tables'[pc][e.index] = e
        /\ \A x \in DOMAIN tables[pc] : x # e.index => tables'[pc][x] = tables[pc][x]
    <3>. HIDE DEF e
    <3>1. QED
      BY <2>5 DEF Put
  <2>7. TypeOK'
    <3>1. \A x \in DOMAIN tables'[pc] : x \in Nat /\ tables'[pc][x] \in Entry
      BY <2>1, <2>3, <2>6 DEF IInv, TypeOK
    <3>2. \A r \in RimNames : /\ DOMAIN tables'[r] \subseteq Nat
                              /\ \A x \in DOMAIN tables'[r] : tables'[r][x] \in Entry
      BY <2>5, <3>1 DEF IInv, TypeOK
    <3>3. k' \in Nat
      BY <1>2, <2>1
    <3>4. QED
      BY <1>2, <3>2, <3>3 DEF IInv, TypeOK, reportVars
  <2>8. Listed(pc, k)'
    <3>1. 1 .. k + 1 = 1 .. k \cup {k + 1}
      BY <2>1
    <3>2. /\ DOMAIN tables[pc] = {rims[pc][m].index : m \in 1 .. k}
          /\ \A m \in 1 .. k : tables[pc][rims[pc][m].index] = rims[pc][m]
          /\ \A l, m \in 1 .. k : rims[pc][l].index = rims[pc][m].index => l = m
      BY <2>4 DEF Listed
    <3>3. \A m \in 1 .. k : rims[pc][m].index \in DOMAIN tables[pc]
      BY <3>2
    <3>4. DOMAIN tables'[pc] = {rims[pc][m].index : m \in 1 .. k + 1}
      BY <2>6, <3>1, <3>2
    <3>5. \A m \in 1 .. k + 1 : tables'[pc][rims[pc][m].index] = rims[pc][m]
      BY <1>2, <2>6, <3>1, <3>2, <3>3
    <3>6. \A l, m \in 1 .. k + 1 : rims[pc][l].index = rims[pc][m].index => l = m
      BY <1>2, <3>1, <3>2, <3>3
    <3>7. UNCHANGED <<pc, rims>> /\ k' = k + 1
      BY <1>2
    <3>8. QED
      BY <2>3, <3>4, <3>5, <3>6, <3>7 DEF Listed
  <2>9. TablesInv'
    <3>1. CASE pc = "driver"
      BY <1>2, <2>5, <2>8, <3>1 DEF IInv, TablesInv, Merged
    <3>2. CASE pc = "vbios"
      <4>1. Listed("driver", Len(rims["driver"]))'
        BY <1>2, <2>5, <3>2 DEF IInv, TablesInv, Listed
      <4>2. QED
        BY <1>2, <2>8, <3>2, <4>1 DEF TablesInv, Merged
    <3>3. QED
      BY <2>1, <3>1, <3>2
  <2>10. RecordInv' /\ VerifiedInv'
    BY <1>2, <2>1, ReportUntouched DEF Verified, PastRecord, reportVars
  <2>11. QED
    BY <1>2, <2>1, <2>7, <2>9, <2>10, NothingCompared DEF IInv
<1>3. QED
  BY <1>1, <1>2 DEF ParseEntry

LEMMA EndRimStep ==
    ASSUME IInv, EndRim
    PROVE  IInv'
<1>1. CASE Raise
  BY <1>1, RaiseKeeps DEF EndRim
<1>2. CASE /\ pc' = IF pc = "driver" THEN "vbios" ELSE "merge"
           /\ k' = 0
           /\ UNCHANGED <<at, reportVars, goldenVars>>
  <2>1. pc \in RimNames /\ k = Len(rims[pc])
    BY DEF EndRim
  <2>2. TypeOK'
    BY <1>2, <2>1 DEF IInv, TypeOK, reportVars, goldenVars
  <2>3. TablesInv'
    <3>1. CASE pc = "driver"
      <4>1. rims["vbios"] \in Seq(Entry) /\ Len(rims["vbios"]) \in Nat /\ 1 .. 0 = {}
        BY RimTypes DEF IInv
      <4>2. Listed("driver", Len(rims["driver"])) /\ DOMAIN tables["vbios"] = {}
        BY <2>1, <3>1 DEF IInv, TablesInv
      <4>3. Listed("vbios", 0)
        BY <4>1, <4>2 DEF Listed
      <4>4. QED
        BY <1>2, <3>1, <4>2, <4>3 DEF TablesInv, Listed, Merged, goldenVars
    <3>2. CASE pc = "vbios"
      <4>1. \A r \in RimNames : Listed(r, Len(rims[r]))
        BY <2>1, <3>2 DEF IInv, TablesInv
      <4>2. pc' = "merge" /\ UNCHANGED <<rims, tables>>
        BY <1>2, <3>2 DEF goldenVars
      <4>3. \A r \in RimNames : Listed(r, Len(rims[r]))'
        BY <4>1, <4>2 DEF Listed
      <4>4. QED
        BY <4>2, <4>3 DEF TablesInv
    <3>3. QED
      BY <2>1, <3>1, <3>2
  <2>4. RecordInv' /\ VerifiedInv'
    BY <1>2, <2>1, ReportUntouched DEF Verified, PastRecord, reportVars
  <2>5. GoldenInv' /\ ComparedInv'
    BY <1>2, <2>1, NothingCompared DEF goldenVars
  <2>6. QED
    BY <2>2, <2>3, <2>4, <2>5 DEF IInv
<1>3. QED
  BY <1>1, <1>2 DEF EndRim

-----------------------------------------------------------------------------
(* Once the RIMs are listed they stay so. *)
LEMMA TablesUntouched ==
    ASSUME IInv, pc = "merge" \/ Merged, Merged', UNCHANGED <<rims, tables>>
    PROVE  TablesInv'
<1>1. \A r \in RimNames : Listed(r, Len(rims[r]))
  BY DEF IInv, TablesInv
<1>2. \A r \in RimNames : Listed(r, Len(rims[r]))'
  BY <1>1 DEF Listed
<1>3. QED
  BY <1>2 DEF TablesInv, Merged

LEMMA MergeStep ==
    ASSUME IInv, Merge
    PROVE  IInv'
<1>1. CASE Raise
  BY <1>1, RaiseKeeps DEF Merge
<1>2. CASE /\ ~Conflict(tables["driver"], tables["vbios"])
           /\ golden' = [x \in Active(tables["driver"]) \cup Active(tables["vbios"]) |->
                            IF x \in Active(tables["vbios"]) THEN tables["vbios"][x]
                                                             ELSE tables["driver"][x]]
           /\ pc' = "count"
           /\ UNCHANGED <<at, k, reportVars, rims, tables, todo, mismatched, verdict>>
  <2>1. /\ pc = "merge" /\ ~verdict
        /\ Verified /\ Verified'
    BY <1>2 DEF Merge, IInv, ComparedInv, Verified, PastRecord
  <2>2. todo = {} /\ mismatched = {}
    BY <2>1 DEF IInv, GoldenInv, TypeOK, Merged
  <2>3. /\ DOMAIN golden' = Active(tables["driver"]) \cup Active(tables["vbios"])
        /\ \A r \in RimNames : \A x \in Active(tables[r]) : golden'[x] = tables[r][x]
    BY <1>2 DEF Conflict
  <2>4. TypeOK'
    <3>1. \A r \in RimNames : \A x \in Active(tables[r]) : x \in Nat /\ tables[r][x] \in Entry
      BY DEF IInv, TypeOK, Active
    <3>2. \A x \in DOMAIN golden' : x \in Nat /\ golden'[x] \in Entry
      BY <2>3, <3>1
    <3>3. QED
      BY <1>2, <2>2, <3>2 DEF IInv, TypeOK, reportVars
  <2>5. RecordInv' /\ VerifiedInv'
    BY <1>2, <2>1, ReportUntouched DEF reportVars
  <2>6. TablesInv'
    BY <1>2, <2>1, TablesUntouched DEF Merged
  <2>7. GoldenInv'
    BY <1>2, <2>3 DEF GoldenInv, Merged, Active, Conflict
  <2>8. ComparedInv'
    BY <1>2, <2>1 DEF ComparedInv
  <2>9. QED
    BY <2>4, <2>5, <2>6, <2>7, <2>8 DEF IInv
<1>3. QED
  BY <1>1, <1>2 DEF Merge

(* Once the golden measurements are merged they stay so. *)
LEMMA GoldenUntouched ==
    ASSUME IInv, Merged, Merged', UNCHANGED <<tables, golden>>
    PROVE  GoldenInv'
BY DEF IInv, GoldenInv, Conflict, Active

LEMMA CountStep ==
    ASSUME IInv, CountMeasurements
    PROVE  IInv'
<1>1. /\ pc = "count" /\ pc' \in {"done", "compare"}
      /\ todo' \in {todo, DOMAIN golden}
      /\ pc' = "compare" => todo' = DOMAIN golden
      /\ UNCHANGED <<at, k, report, blocks, opaque, rims, tables, golden, mismatched, verdict>>
  BY DEF CountMeasurements, reportVars
<1>2. TypeOK'
  <2>1. (report \in Reports /\ rims \in Rims)'
    BY <1>1 DEF IInv, TypeOK
  <2>2. todo' \subseteq DOMAIN golden'
    BY <1>1 DEF IInv, TypeOK
  <2>3. QED
    BY <1>1, <2>1, <2>2 DEF IInv, TypeOK
<1>3. Merged /\ Merged' /\ Verified /\ Verified'
  BY <1>1 DEF Merged, Verified, PastRecord
<1>4. ComparedInv'
  <2>1. ~verdict'
    BY <1>1 DEF IInv, ComparedInv
  <2>2. pc' = "compare" => DOMAIN golden' \ todo' = {}
    BY <1>1
  <2>3. QED
    BY <2>1, <2>2 DEF ComparedInv
<1>5. QED
  BY <1>1, <1>2, <1>3, <1>4, ReportUntouched, TablesUntouched, GoldenUntouched DEF IInv

(* An entry that matches has a block to match. *)
LEMMA CompareStep ==
    ASSUME IInv, NEW x \in todo, CompareIndex(x)
    PROVE  IInv'
<1>1. CASE Raise
  BY <1>1, RaiseKeeps DEF CompareIndex
<1>2. CASE /\ ~OutOfReport(x)
           /\ todo' = todo \ {x}
           /\ mismatched' = IF Matches(golden[x], Runtime(x))
                              THEN mismatched ELSE mismatched \cup {x}
           /\ UNCHANGED <<pc, at, k, reportVars, rims, tables, golden, verdict>>
  <2>1. pc = "compare" /\ x \in DOMAIN golden /\ x \in Nat /\ golden[x] \in Entry
    BY DEF CompareIndex, IInv, TypeOK
  <2>2. Merged /\ Merged' /\ Verified /\ Verified'
    BY <1>2, <2>1 DEF Merged, Verified, PastRecord
  <2>3. TypeOK'
    BY <1>2, <2>1 DEF IInv, TypeOK, reportVars
  <2>4. Matches(golden[x], Runtime(x)) => Agreed(x)
    <3>1. SUFFICES ASSUME Matches(golden[x], Runtime(x)) PROVE x + 1 \in DOMAIN blocks
      BY DEF Agreed
    <3>2. golden[x].alternatives > 0
      <4>1. golden[x].alternatives \in Nat
        BY <2>1 DEF Entry
      <4>2. QED
        BY <3>1, <4>1 DEF Matches
    <3>3. x \in RuntimeIndices
      BY <1>2, <3>2 DEF OutOfReport
    <3>4. report.blocks \in Nat /\ DOMAIN blocks = 1 .. report.blocks
      BY <2>2, ReportTypes DEF IInv, RecordInv, Verified, ReportRecord
    <3>5. Cardinality(DOMAIN blocks) = report.blocks
      BY <3>4, IntervalSize
    <3>6. QED
      BY <2>1, <3>3, <3>4, <3>5 DEF RuntimeIndices
  <2>5. ComparedInv'
    <3>1. ~verdict
      BY <2>1 DEF IInv, ComparedInv
    <3>2. ASSUME mismatched' = {}, NEW y \in DOMAIN golden \ todo'
          PROVE  Agreed(y)
      <4>1. mismatched = {} /\ Matches(golden[x], Runtime(x))
        BY <1>2, <3>2
      <4>2. CASE y = x
        BY <2>4, <4>1, <4>2
      <4>3. CASE y # x
        BY <1>2, <2>1, <3>2, <4>1, <4>3 DEF IInv, ComparedInv
      <4>4. QED
        BY <4>2, <4>3
    <3>3. QED
      BY <1>2, <3>1, <3>2 DEF ComparedInv, Agreed, Runtime, reportVars
  <2>6. RecordInv' /\ VerifiedInv'
    BY <1>2, <2>2, ReportUntouched DEF reportVars
  <2>7. TablesInv' /\ GoldenInv'
    BY <1>2, <2>2, TablesUntouched, GoldenUntouched
  <2>8. QED
    BY <2>3, <2>5, <2>6, <2>7 DEF IInv
<1>3. QED
  BY <1>1, <1>2 DEF CompareIndex, NvdecDisabled

LEMMA DecideStep ==
    ASSUME IInv, Decide
    PROVE  IInv'
<1>1. /\ pc = "compare" /\ todo = {} /\ pc' = "done" /\ verdict' = (mismatched = {})
      /\ UNCHANGED <<at, k, report, blocks, opaque, rims, tables, golden, todo, mismatched>>
  BY DEF Decide, reportVars
<1>2. TypeOK'
  BY <1>1 DEF IInv, TypeOK
<1>3. Merged /\ Merged' /\ Verified /\ Verified'
  BY <1>1 DEF Merged, Verified, PastRecord
<1>4. ComparedInv'
  BY <1>1 DEF IInv, ComparedInv, Agreed, Runtime
<1>5. QED
  BY <1>1, <1>2, <1>3, <1>4, ReportUntouched, TablesUntouched, GoldenUntouched DEF IInv

-----------------------------------------------------------------------------
LEMMA NextIInv == IInv /\ [Next]_vars => IInv'
<1>1. SUFFICES ASSUME IInv, [Next]_vars PROVE IInv'
  OBVIOUS
<1>2. CASE Report
  <2>1. UNCHANGED goldenVars
    BY <1>2 DEF Report
  <2>2. QED
    BY <1>1, <1>2, <2>1, RequestStep, HeaderStep, BlockStep, EndRecordStep, FieldStep,
       EndReportStep, VerifyStep DEF Report, ReadReport
<1>3. CASE ParseEntry
  BY <1>1, <1>3, EntryStep
<1>4. CASE EndRim
  BY <1>1, <1>4, EndRimStep
<1>5. CASE Merge
  BY <1>1, <1>5, MergeStep
<1>6. CASE CountMeasurements
  BY <1>1, <1>6, CountStep
<1>7. CASE \E x \in todo : CompareIndex(x)
  BY <1>1, <1>7, CompareStep
<1>8. CASE Decide
  BY <1>1, <1>8, DecideStep
<1>9. CASE UNCHANGED vars
  <2>. USE <1>1, <1>9 DEF vars, IInv
  <2>1. TypeOK'
    BY DEF TypeOK
  <2>2. RecordInv'
    BY DEF RecordInv, PastRecord, BlocksAreOf, ValuesAreOf, Reading, RecordSize, RecordStart
  <2>3. VerifiedInv'
    BY DEF VerifiedInv, Verified, PastRecord, SameVersions, GetData, SignatureStart,
           OpaqueStart, RecordStart
  <2>4. TablesInv' /\ GoldenInv'
    <3>1. TablesInv'
      BY DEF TablesInv, Listed, Merged
    <3>2. GoldenInv'
      BY DEF GoldenInv, Merged, Conflict, Active
    <3>3. QED
      BY <3>1, <3>2
  <2>5. ComparedInv'
    BY DEF ComparedInv, Agreed, Runtime
  <2>6. QED
    BY <2>1, <2>2, <2>3, <2>4, <2>5
<1>10. QED
  BY <1>1, <1>2, <1>3, <1>4, <1>5, <1>6, <1>7, <1>8, <1>9 DEF Next

LEMMA SpecIInv == Spec => []IInv
BY InitIInv, NextIInv, PTL DEF Spec

-----------------------------------------------------------------------------
(* Each variable keeps the kind of value the code gives it, whatever the   *)
(* report claims. *)
THEOREM TypeCorrect == Spec => []TypeOK
<1>1. IInv => TypeOK
  BY DEF IInv
<1>2. QED
  BY <1>1, SpecIInv, PTL

(* No block of an accepted record has taken the place of another. *)
LEMMA BlockFound ==
    ASSUME IInv, PastRecord, NEW m \in 1 .. report.blocks
    PROVE  /\ report.record[m].index \in DOMAIN blocks
           /\ blocks[report.record[m].index] = Reading(report.record[m])
<1>. DEFINE N == report.blocks
            index == [l \in 1 .. N |-> report.record[l].index]
<1>1. /\ DOMAIN blocks = {report.record[l].index : l \in 1 .. N}
      /\ DOMAIN blocks = 1 .. N /\ ValuesAreOf(N)
  BY DEF IInv, RecordInv, BlocksAreOf
<1>2. N \in Nat
  BY ReportTypes DEF IInv, ReportRecord
<1>3. index \in [1 .. N -> 1 .. N]
  BY <1>1
<1>4. \A y \in 1 .. N : \E l \in 1 .. N : index[l] = y
  BY <1>1
<1>5. \A i, l \in 1 .. N : index[i] = index[l] => i = l
  <2>. HIDE DEF index
  <2>1. QED
    BY <1>2, <1>3, <1>4, NoDouble
<1>6. report.record[m].index \in DOMAIN blocks
  BY <1>1
<1>7. PICK l \in 1 .. N : /\ report.record[l].index = report.record[m].index
                          /\ blocks[report.record[m].index] = Reading(report.record[l])
  BY <1>1, <1>6 DEF ValuesAreOf
<1>8. l = m
  BY <1>5, <1>7
<1>9. QED
  BY <1>6, <1>7, <1>8

(* For every report: once the record is accepted, MeasurementBlocks has    *)
(* each block under its own index with the value its own sizes give it.    *)
THEOREM RecordIsExact == Spec => []RecordExact
<1>1. IInv => RecordExact
  BY BlockFound DEF RecordExact, PastRecord, IInv, RecordInv
<1>2. QED
  BY <1>1, SpecIInv, PTL

(* For every report and all RIMs: TRUE is the verdict on a report the GPU  *)
(* signed for this nonce, in which every active entry of both RIMs matches.*)
THEOREM VerdictSound == Spec => []VerdictMeansMatch
<1>1. ASSUME IInv, verdict
      PROVE  EveryEntryMatches
  <2>1. pc = "done" /\ \A x \in DOMAIN golden : Agreed(x)
    BY <1>1 DEF IInv, ComparedInv
  <2>2. SUFFICES ASSUME NEW r \in RimNames, NEW n \in DOMAIN rims[r], rims[r][n].active
                 PROVE  \E m \in 1 .. report.blocks, j \in 1 .. rims[r][n].alternatives :
                            /\ report.record[m].index = rims[r][n].index + 1
                            /\ rims[r][n].hashes[j] = Reading(report.record[m])
                            /\ rims[r][n].size = Reading(report.record[m]).length
    BY DEF EveryEntryMatches
  <2>. DEFINE e == rims[r][n]
  <2>3. n \in 1 .. Len(rims[r])
    BY <1>1, RimTypes DEF IInv
  <2>4. e.index \in DOMAIN tables[r] /\ tables[r][e.index] = e
    BY <1>1, <2>1, <2>3 DEF IInv, TablesInv, Merged, Listed
  <2>5. e.index \in DOMAIN golden /\ golden[e.index] = e
    BY <1>1, <2>1, <2>2, <2>4 DEF IInv, GoldenInv, Merged, Active
  <2>6. e.index + 1 \in DOMAIN blocks /\ Matches(e, blocks[e.index + 1])
    BY <2>1, <2>5 DEF Agreed, Runtime
  <2>7. PICK m \in 1 .. report.blocks :
            /\ report.record[m].index = e.index + 1
            /\ blocks[e.index + 1] = Reading(report.record[m])
    BY <1>1, <2>1, <2>6 DEF IInv, RecordInv, PastRecord, ValuesAreOf
  <2>8. Matches(e, Reading(report.record[m]))
    BY <2>6, <2>7
  <2>9. QED
    BY <2>7, <2>8 DEF Matches
<1>2. ASSUME IInv, verdict
      PROVE  /\ report.genuine /\ report.request.nonce = Nonce /\ SameVersions
             /\ SignatureStart + SignatureSize = report.length
  BY <1>2 DEF IInv, ComparedInv, VerifiedInv, Verified, PastRecord
<1>3. IInv => VerdictMeansMatch
  BY <1>1, <1>2 DEF VerdictMeansMatch
<1>4. QED
  BY <1>3, SpecIInv, PTL

(* For all RIMs: an index that is active twice keeps the verdict FALSE.    *)
THEOREM OneEntry == Spec => []OneEntryPerIndex
<1>1. ASSUME IInv, verdict, NEW r \in RimNames, NEW s \in RimNames,
             NEW m \in DOMAIN rims[r], NEW n \in DOMAIN rims[s],
             rims[r][m].active, rims[s][n].active, rims[r][m].index = rims[s][n].index
      PROVE  r = s /\ m = n
  <2>1. pc = "done"
    BY <1>1 DEF IInv, ComparedInv
  <2>2. m \in 1 .. Len(rims[r]) /\ n \in 1 .. Len(rims[s])
    BY <1>1, RimTypes DEF IInv
  <2>3. Listed(r, Len(rims[r])) /\ Listed(s, Len(rims[s]))
    BY <1>1, <2>1 DEF IInv, TablesInv, Merged
  <2>4. rims[r][m].index \in Active(tables[r]) /\ rims[r][m].index \in Active(tables[s])
    BY <1>1, <2>2, <2>3 DEF Listed, Active
  <2>5. r = s
    BY <1>1, <2>1, <2>4 DEF IInv, GoldenInv, Merged, Conflict
  <2>6. QED
    BY <1>1, <2>2, <2>3, <2>5 DEF Listed
<1>2. IInv => OneEntryPerIndex
  BY <1>1 DEF OneEntryPerIndex
<1>3. QED
  BY <1>2, SpecIInv, PTL
-----------------------------------------------------------------------------
(* The sizes a sequence of blocks or fields adds up to.  Each fact is shown *)
(* by the least number for which it would fail.                             *)
LEMMA LeastElement ==
    ASSUME NEW S \in SUBSET Nat, S # {}
    PROVE  \E x \in S : \A y \in S : x <= y
<1> DEFINE Less == {ss \in Nat \X Nat : ss[1] < ss[2]}
<1>1. IsWellFoundedOn(Less, Nat)
  <2>1. OpToRel(<, Nat) = Less
    BY Zenon DEF OpToRel
  <2>2. QED
    BY <2>1, NatLessThanWellFounded, Zenon
<1>2. PICK x \in S : \A y \in S : ~(<<y, x>> \in Less)
  <2>. HIDE DEF Less
  <2>. QED
    BY <1>1, WFMin
<1>3. ASSUME NEW y \in S PROVE x <= y
  <2>1. x \in Nat /\ y \in Nat /\ <<y, x>> \in Nat \X Nat
    OBVIOUS
  <2>2. ~(y < x)
    BY <1>2, <2>1
  <2>3. QED
    BY <2>1, <2>2
<1>4. QED
  BY <1>3

(* What the definition of SizesUpTo may stand for, on the first n elements. *)
Sums(header, seq, n) ==
    {f \in [0 .. n -> Int] :
        f = [m \in 0 .. n |-> IF m = 0 THEN 0 ELSE f[m - 1] + header + seq[m].size]}

Sized(header, seq) ==
    header \in Nat /\ Len(seq) \in Nat /\ \A m \in 1 .. Len(seq) : seq[m].size \in Nat

LEMMA SumsExist ==
    ASSUME NEW header, NEW seq, Sized(header, seq)
    PROVE  Sums(header, seq, Len(seq)) # {}
<1> DEFINE L == Len(seq)
           S == {n \in 0 .. L : Sums(header, seq, n) = {}}
<1>1. header \in Nat /\ L \in Nat /\ \A m \in 1 .. L : seq[m].size \in Nat
  BY DEF Sized
<1>2. SUFFICES ASSUME S # {} PROVE FALSE
  BY <1>1
<1>3. PICK n \in S : \A m \in S : n <= m
  <2>1. S \in SUBSET Nat
    BY <1>1
  <2>. HIDE DEF S
  <2>2. QED
    BY <1>2, <2>1, LeastElement
<1>4. n \in 0 .. L /\ Sums(header, seq, n) = {}
  OBVIOUS
<1>5. n # 0
  <2>1. [m \in 0 .. 0 |-> 0] \in Sums(header, seq, 0)
    BY DEF Sums
  <2>2. QED
    BY <1>4, <2>1
<1>6. n - 1 \in 0 .. L /\ n \in 1 .. L /\ n - 1 \notin S
  <2>1. n \in Int /\ 0 < n /\ n <= L
    BY <1>1, <1>4, <1>5
  <2>2. n - 1 \in 0 .. L /\ n \in 1 .. L /\ ~(n <= n - 1)
    BY <1>1, <2>1
  <2>. HIDE DEF S
  <2>3. QED
    BY <1>3, <2>2
<1>7. PICK f \in Sums(header, seq, n - 1) : TRUE
  BY <1>6
<1>8. /\ f \in [0 .. n - 1 -> Int]
      /\ f = [m \in 0 .. n - 1 |-> IF m = 0 THEN 0 ELSE f[m - 1] + header + seq[m].size]
  BY <1>7 DEF Sums
<1> DEFINE g == [m \in 0 .. n |->
                    IF m = n THEN f[n - 1] + header + seq[n].size ELSE f[m]]
<1>9. g \in [0 .. n -> Int]
  BY <1>1, <1>6, <1>8
<1>10. ASSUME NEW m \in 0 .. n
       PROVE  g[m] = IF m = 0 THEN 0 ELSE g[m - 1] + header + seq[m].size
  <2>1. CASE m = n
    BY <1>5, <1>6, <2>1
  <2>2. CASE m # n
    <3>1. m \in 0 .. n - 1 /\ m - 1 # n /\ (m # 0 => m - 1 \in 0 .. n)
      BY <1>6, <2>2
    <3>2. f[m] = IF m = 0 THEN 0 ELSE f[m - 1] + header + seq[m].size
      BY <1>8, <3>1
    <3>3. QED
      BY <2>2, <3>1, <3>2
  <2>3. QED
    BY <2>1, <2>2
<1>11. g \in Sums(header, seq, n)
  BY <1>9, <1>10 DEF Sums
<1>12. QED
  BY <1>4, <1>11

(* The definition is the recursion it looks like, and has numbers for values. *)
LEMMA SizesUnfold ==
    ASSUME NEW header, NEW seq, Sized(header, seq)
    PROVE  /\ SizesUpTo(header, seq)[0] = 0
           /\ \A m \in 0 .. Len(seq) : SizesUpTo(header, seq)[m] \in Int
           /\ \A m \in 0 .. Len(seq) - 1 :
                  SizesUpTo(header, seq)[m + 1] =
                      SizesUpTo(header, seq)[m] + header + seq[m + 1].size
<1> DEFINE L == Len(seq)
           f == SizesUpTo(header, seq)
           S == {n \in 0 .. L : f[n] \notin Int}
<1>1. header \in Nat /\ L \in Nat /\ \A m \in 1 .. L : seq[m].size \in Nat
  BY DEF Sized
<1>2. f = [m \in 0 .. L |-> IF m = 0 THEN 0 ELSE f[m - 1] + header + seq[m].size]
  <2>1. PICK h \in Sums(header, seq, L) : TRUE
    BY SumsExist
  <2>2. h = [m \in 0 .. L |-> IF m = 0 THEN 0 ELSE h[m - 1] + header + seq[m].size]
    BY <2>1 DEF Sums
  <2>3. QED
    BY <2>2, Zenon DEF SizesUpTo
<1>. HIDE DEF f
<1>3. f[0] = 0
  BY <1>1, <1>2
<1>4. ASSUME NEW m \in 0 .. L - 1
      PROVE  f[m + 1] = f[m] + header + seq[m + 1].size
  <2>1. m + 1 \in 0 .. L /\ m + 1 # 0 /\ (m + 1) - 1 = m
    BY <1>1
  <2>2. f[m + 1] = f[(m + 1) - 1] + header + seq[m + 1].size
    BY <1>2, <2>1
  <2>3. QED
    BY <2>1, <2>2
<1>5. S = {}
  <2>1. SUFFICES ASSUME S # {} PROVE FALSE
    OBVIOUS
  <2>2. PICK n \in S : \A m \in S : n <= m
    <3>1. S \in SUBSET Nat
      BY <1>1
    <3>. HIDE DEF S
    <3>2. QED
      BY <2>1, <3>1, LeastElement
  <2>3. n \in 0 .. L /\ f[n] \notin Int /\ n # 0
    BY <1>3, <2>2
  <2>4. n - 1 \in 0 .. L - 1 /\ n \in 1 .. L /\ (n - 1) + 1 = n
    BY <1>1, <2>3
  <2>5. f[n - 1] \in Int
    BY <1>1, <2>2, <2>4
  <2>6. f[n] = f[n - 1] + header + seq[n].size
    BY <1>4, <2>4
  <2>7. QED
    BY <1>1, <2>3, <2>4, <2>5, <2>6
<1>6. QED
  BY <1>3, <1>4, <1>5 DEF f

(* Each further element adds at least its header. *)
LEMMA SizesGrow ==
    ASSUME NEW header, NEW seq, Sized(header, seq), NEW m \in 0 .. Len(seq) - 1
    PROVE  SizesUpTo(header, seq)[m] + header + seq[m + 1].size <= SizeOf(header, seq)
<1> DEFINE L == Len(seq)
           f == SizesUpTo(header, seq)
           S == {n \in 0 .. L : n > m /\ f[n] < f[m + 1]}
<1>1. header \in Nat /\ L \in Nat /\ \A n \in 1 .. L : seq[n].size \in Nat
  BY DEF Sized
<1>2. /\ \A n \in 0 .. L : f[n] \in Int
      /\ \A n \in 0 .. L - 1 : f[n + 1] = f[n] + header + seq[n + 1].size
  BY SizesUnfold
<1>. HIDE DEF f
<1>3. S = {}
  <2>1. SUFFICES ASSUME S # {} PROVE FALSE
    OBVIOUS
  <2>2. PICK n \in S : \A l \in S : n <= l
    <3>1. S \in SUBSET Nat
      BY <1>1
    <3>. HIDE DEF S
    <3>2. QED
      BY <2>1, <3>1, LeastElement
  <2>3. n \in 0 .. L /\ n > m /\ f[n] < f[m + 1]
    OBVIOUS
  <2>4. m + 1 \in 0 .. L /\ f[m + 1] \in Int /\ f[n] \in Int /\ n # m + 1
    BY <1>1, <1>2, <2>3
  <2>5. n - 1 \in 0 .. L - 1 /\ n - 1 > m /\ n - 1 \in 0 .. L /\ n \in 1 .. L
    BY <1>1, <2>3, <2>4
  <2>6. f[n - 1] >= f[m + 1] /\ f[n - 1] \in Int
    BY <1>2, <2>2, <2>4, <2>5
  <2>7. f[(n - 1) + 1] = f[n - 1] + header + seq[(n - 1) + 1].size
    BY <1>2, <2>5
  <2>8. (n - 1) + 1 = n /\ seq[n].size \in Nat
    BY <1>1, <2>5
  <2>9. f[n] >= f[m + 1]
    BY <1>1, <2>4, <2>6, <2>7, <2>8
  <2>10. QED
    BY <2>3, <2>4, <2>9
<1>4. L \in 0 .. L /\ L > m /\ m + 1 \in 0 .. L
  BY <1>1
<1>5. f[m + 1] <= f[L]
  BY <1>2, <1>3, <1>4
<1>6. QED
  BY <1>2, <1>5 DEF SizeOf, f
-----------------------------------------------------------------------------
(* A report in order: its lengths are what its parts add up to. *)
LEMMA OrderedLengths ==
    ASSUME TypeOK, ReportInOrder
    PROVE  /\ Sized(BlockHeader, report.record) /\ Sized(FieldHeader, report.opaque)
           /\ report.blocks = Len(report.record) /\ report.blocks \in Nat \ {0}
           /\ RecordSize = SizeOf(BlockHeader, report.record)
           /\ OpaqueSize = SizeOf(FieldHeader, report.opaque)
           /\ report.length > OpaqueStart - OpaqueLengthSize
           /\ report.length >= ResponseHeader /\ report.length > 0
<1>1. report.record \in Seq(BlockRecord) /\ report.opaque \in Seq(FieldRecord)
  BY ReportTypes DEF ReportRecord
<1>2. Sized(BlockHeader, report.record) /\ Sized(FieldHeader, report.opaque)
  <2>1. \A m \in 1 .. Len(report.record) : report.record[m] \in BlockRecord
    BY <1>1
  <2>2. \A m \in 1 .. Len(report.opaque) : report.opaque[m] \in FieldRecord
    BY <1>1
  <2>3. /\ \A m \in 1 .. Len(report.record) : report.record[m].size \in Nat
        /\ \A m \in 1 .. Len(report.opaque) : report.opaque[m].size \in Nat
    BY <2>1, <2>2 DEF BlockRecord, FieldRecord
  <2>4. Len(report.record) \in Nat /\ Len(report.opaque) \in Nat
    BY <1>1
  <2>5. QED
    BY <2>3, <2>4 DEF Sized, BlockHeader, FieldHeader
<1>3. /\ report.blocks = Len(report.record) /\ report.blocks \in Nat \ {0}
      /\ report.recordLength = SizeOf(BlockHeader, report.record)
      /\ report.opaqueLength = SizeOf(FieldHeader, report.opaque)
      /\ report.length = SignatureStart + SignatureSize
  BY ReportTypes DEF ReportInOrder, ReportRecord
<1> DEFINE length == report.length
           recordLength == report.recordLength
           opaqueLength == report.opaqueLength
<1>4. length \in Nat /\ recordLength \in Nat /\ opaqueLength \in Nat
  BY ReportTypes DEF ReportRecord
<1>5. /\ OpaqueStart = 8 + recordLength + 32 + 2
      /\ length = OpaqueStart + opaqueLength + 96
  BY <1>3 DEF SignatureStart, OpaqueStart, RecordStart, ResponseHeader, NonceSize,
              OpaqueLengthSize, SignatureSize
<1>6. /\ RecordSize = Lesser(recordLength, length - 8)
      /\ OpaqueSize = Lesser(opaqueLength, length - OpaqueStart)
  BY DEF RecordSize, OpaqueSize, RecordStart, ResponseHeader
<1>. HIDE DEF length, recordLength, opaqueLength
<1>7. RecordSize = recordLength /\ OpaqueSize = opaqueLength
  BY <1>4, <1>5, <1>6 DEF Lesser
<1>8. length > OpaqueStart - OpaqueLengthSize /\ length >= ResponseHeader /\ length > 0
  BY <1>4, <1>5 DEF OpaqueLengthSize, ResponseHeader
<1>9. QED
  BY <1>2, <1>3, <1>7, <1>8 DEF length, recordLength, opaqueLength

(* Nothing but the step that reads it changes what is claimed. *)
LEMMA FieldsKept ==
    ASSUME NEW n, FieldsAreOf(n), UNCHANGED <<report, opaque>>, n' = n
    PROVE  FieldsAreOf(n)'
BY DEF FieldsAreOf

LEMMA RequestAgrees ==
    ASSUME IInv, InputsAgree, CompleteInv, ParseRequest, UNCHANGED goldenVars
    PROVE  CompleteInv'
<1>1. report.length > 0 /\ pc = "request"
  BY OrderedLengths DEF IInv, InputsAgree, ParseRequest
<1>2. pc' = "header" /\ UNCHANGED <<at, k, report, blocks, opaque>>
  BY <1>1 DEF ParseRequest, HasResponse, reportVars
<1>3. FieldsAreOf(0)' /\ mismatched' = {}
  BY <1>1, <1>2 DEF CompleteInv, FieldsAreOf, goldenVars
<1>4. QED
  BY <1>2, <1>3 DEF CompleteInv, Merged

LEMMA HeaderAgrees ==
    ASSUME IInv, InputsAgree, CompleteInv, ParseHeader, UNCHANGED goldenVars
    PROVE  CompleteInv'
<1>1. /\ report.length >= ResponseHeader /\ report.blocks # 0 /\ pc = "header"
      /\ report.length \in Nat
  BY OrderedLengths, ReportTypes DEF IInv, InputsAgree, ParseHeader, ReportRecord
<1>2. pc' = "record" /\ UNCHANGED <<at, k, report, blocks, opaque>>
  BY <1>1 DEF ParseHeader, ResponseHeader, reportVars
<1>3. FieldsAreOf(0)' /\ mismatched' = {}
  BY <1>1, <1>2 DEF CompleteInv, FieldsAreOf, goldenVars
<1>4. at' = SizesUpTo(BlockHeader, report'.record)[k']
  <2>1. at = 0 /\ k = 0
    BY <1>1 DEF IInv, RecordInv
  <2>2. SizesUpTo(BlockHeader, report.record)[0] = 0
    BY OrderedLengths, SizesUnfold DEF IInv, InputsAgree
  <2>3. at = SizesUpTo(BlockHeader, report.record)[k]
    BY <2>1, <2>2
  <2>4. QED
    BY <1>2, <2>3
<1>5. QED
  BY <1>2, <1>3, <1>4 DEF CompleteInv, Merged

(* The record holds every block in full. *)
LEMMA BlockAgrees ==
    ASSUME IInv, InputsAgree, CompleteInv, ParseBlock, UNCHANGED goldenVars
    PROVE  CompleteInv'
<1> DEFINE b == report.record[k + 1]
           f == SizesUpTo(BlockHeader, report.record)
<1>1. /\ pc = "record" /\ k < report.blocks /\ k \in Nat /\ at \in Nat
      /\ at = f[k] /\ FieldsAreOf(0)
  BY DEF ParseBlock, IInv, TypeOK, CompleteInv
<1>2. /\ report.blocks = Len(report.record) /\ report.blocks \in Nat
      /\ Sized(BlockHeader, report.record) /\ RecordSize = SizeOf(BlockHeader, report.record)
      /\ report.record \in Seq(BlockRecord)
  BY OrderedLengths, ReportTypes DEF IInv, InputsAgree, ReportRecord
<1>3. k + 1 \in 1 .. report.blocks /\ k + 1 \in DOMAIN report.record
      /\ k \in 0 .. Len(report.record) - 1
  BY <1>1, <1>2
<1>4. b.spec = 1 /\ b.size = b.valueSize + 3 /\ b.size \in Nat /\ b.valueSize \in Nat
  <2>1. b \in BlockRecord
    BY <1>2, <1>3
  <2>2. b.spec = 1 /\ b.size = b.valueSize + MeasurementHeader
    BY <1>3 DEF InputsAgree, ReportInOrder
  <2>3. QED
    BY <2>1, <2>2 DEF BlockRecord, MeasurementHeader
<1>. HIDE DEF f
<1>5. f[k] + BlockHeader + b.size = f[k + 1]
  BY <1>2, <1>3, SizesUnfold DEF f
<1>6. f[k] + BlockHeader + b.size <= RecordSize
  BY <1>2, <1>3, SizesGrow DEF f
<1>7. MeasurementBytes(b) >= 2
  <2>. HIDE DEF b
  <2>1. RecordSize \in Int
    BY ReportTypes DEF IInv
  <2>2. b.size <= RecordSize - at - BlockHeader /\ b.size >= 3
    BY <1>1, <1>4, <1>6, <2>1 DEF BlockHeader
  <2>3. QED
    BY <1>1, <1>4, <2>1, <2>2 DEF MeasurementBytes, Lesser, BlockHeader
<1>8. ~(b.spec # 1 \/ MeasurementBytes(b) < MeasurementHeader - 1)
  <2>1. MeasurementBytes(b) \in Int
    BY <1>1, <1>4, ReportTypes DEF IInv, MeasurementBytes, Lesser, BlockHeader
  <2>2. QED
    BY <1>4, <1>7, <2>1 DEF MeasurementHeader
<1>9. /\ pc' = "record" /\ at' = at + BlockHeader + b.size /\ k' = k + 1
      /\ UNCHANGED <<report, opaque>>
  <2>1. Advance(BlockHeader + b.size) /\ UNCHANGED <<report, pc, opaque>>
    BY <1>3, <1>8 DEF ParseBlock
  <2>2. at' = at + (BlockHeader + b.size) /\ k' = k + 1
    BY <2>1 DEF Advance
  <2>3. QED
    BY <1>1, <1>4, <2>1, <2>2 DEF BlockHeader
<1>10. at' = SizesUpTo(BlockHeader, report'.record)[k']
  <2>1. at' = f[k + 1]
    BY <1>1, <1>5, <1>9
  <2>2. QED
    BY <1>9, <2>1 DEF f
<1>11. FieldsAreOf(0)' /\ mismatched' = {}
  BY <1>1, <1>9 DEF CompleteInv, FieldsAreOf, goldenVars
<1>12. QED
  BY <1>9, <1>10, <1>11 DEF CompleteInv, Merged

LEMMA EndRecordAgrees ==
    ASSUME IInv, InputsAgree, CompleteInv, EndRecord, UNCHANGED goldenVars
    PROVE  CompleteInv'
<1>1. pc = "record" /\ k = report.blocks /\ FieldsAreOf(0) /\ BlocksAreOf(k)
  BY DEF EndRecord, CompleteInv, IInv, RecordInv
<1>2. at = RecordSize
  <2>1. at = SizesUpTo(BlockHeader, report.record)[report.blocks]
    BY <1>1 DEF CompleteInv
  <2>2. QED
    BY <2>1, OrderedLengths DEF SizeOf, IInv, InputsAgree
<1>3. \A x \in 1 .. report.blocks : x \in DOMAIN blocks
  BY <1>1 DEF BlocksAreOf, InputsAgree, ReportInOrder
<1>4. RecordIsComplete
  BY <1>2, <1>3, OrderedLengths DEF RecordIsComplete, IInv, InputsAgree
<1>5. pc' = "opaque" /\ at' = 0 /\ k' = 0 /\ UNCHANGED <<report, blocks, opaque>>
  BY <1>4 DEF EndRecord, reportVars
<1>6. at' = SizesUpTo(FieldHeader, report'.opaque)[k']
  <2>1. SizesUpTo(FieldHeader, report.opaque)[0] = 0
    BY OrderedLengths, SizesUnfold DEF IInv, InputsAgree
  <2>2. QED
    BY <1>5, <2>1
<1>7. FieldsAreOf(k)'
  BY <1>1, <1>5 DEF FieldsAreOf
<1>8. mismatched' = {}
  BY DEF CompleteInv, goldenVars
<1>9. QED
  BY <1>5, <1>6, <1>7, <1>8 DEF CompleteInv, Merged

LEMMA SliceLength ==
    ASSUME NEW v, NEW n \in Nat
    PROVE  Slice(v, n).length = n
<1>1. CASE n = 0
  BY <1>1 DEF Slice, NoBytes
<1>2. CASE n # 0
  <2>1. ~(n <= 0)
    BY <1>2
  <2>2. Slice(v, n) = [value |-> v, length |-> n]
    BY <2>1 DEF Slice
  <2>3. QED
    BY <2>2
<1>3. QED
  BY <1>1, <1>2

(* The opaque data hold every field in full, each of a type of its own. *)
LEMMA FieldAgrees ==
    ASSUME IInv, InputsAgree, CompleteInv, ParseField, UNCHANGED goldenVars
    PROVE  CompleteInv'
<1> DEFINE d == report.opaque[k + 1]
           f == SizesUpTo(FieldHeader, report.opaque)
           L == Len(report.opaque)
<1>1. /\ pc = "opaque" /\ at < OpaqueSize /\ k \in Nat /\ at \in Nat
      /\ at = f[k] /\ FieldsAreOf(k)
  BY DEF ParseField, IInv, TypeOK, CompleteInv
<1>2. /\ Sized(FieldHeader, report.opaque) /\ OpaqueSize = SizeOf(FieldHeader, report.opaque)
      /\ report.opaque \in Seq(FieldRecord) /\ L \in Nat /\ OpaqueSize \in Int
  BY OrderedLengths, ReportTypes DEF IInv, InputsAgree, ReportRecord
<1>3. k < L
  <2>1. k <= L
    BY <1>1 DEF FieldsAreOf
  <2>2. k # L
    BY <1>1, <1>2 DEF SizeOf
  <2>3. QED
    BY <1>1, <1>2, <2>1, <2>2
<1>4. k + 1 \in DOMAIN report.opaque /\ k \in 0 .. L - 1 /\ k + 1 \in 1 .. L
  BY <1>1, <1>2, <1>3
<1>5. d \in FieldRecord /\ d.type # "unknown" /\ d.size % Unit(d.type) = 0
  BY <1>2, <1>4 DEF InputsAgree, ReportInOrder
<1>6. d.size \in Nat /\ d.type \in OpaqueTypes
  BY <1>5 DEF FieldRecord
<1>. HIDE DEF f
<1>7. f[k] + FieldHeader + d.size = f[k + 1]
  BY <1>2, <1>4, SizesUnfold DEF f
<1>8. f[k] + FieldHeader + d.size <= OpaqueSize
  BY <1>2, <1>4, SizesGrow DEF f
<1>. HIDE DEF d
<1>9. OpaqueSize - at >= 4 + d.size
  BY <1>1, <1>2, <1>6, <1>8 DEF FieldHeader
<1>10. DataOf(d) = Slice(d.data, d.size)
  <2>1. Lesser(d.size, OpaqueSize - at - FieldHeader) = d.size
    BY <1>1, <1>2, <1>6, <1>9 DEF Lesser, FieldHeader
  <2>2. QED
    BY <2>1 DEF DataOf
<1>11. DataOf(d).length % Unit(d.type) = 0
  <2>1. DataOf(d).length = d.size
    BY <1>6, <1>10, SliceLength
  <2>2. QED
    BY <1>5, <2>1
<1>12. ~FieldFails(d)
  BY <1>1, <1>2, <1>5, <1>6, <1>9, <1>11 DEF FieldFails, FieldHeader
<1>13. /\ pc' = "opaque" /\ opaque' = Put(opaque, d.type, DataOf(d))
       /\ Advance(FieldHeader + d.size) /\ UNCHANGED <<report, blocks>>
  BY <1>1, <1>4, <1>12 DEF ParseField, d
<1>14. at' = at + FieldHeader + d.size /\ k' = k + 1
  BY <1>1, <1>6, <1>13 DEF Advance, FieldHeader
<1>15. at' = SizesUpTo(FieldHeader, report'.opaque)[k']
  <2>1. at' = f[k + 1]
    BY <1>1, <1>7, <1>14
  <2>2. QED
    BY <1>13, <1>14, <2>1 DEF f
<1>16. FieldsAreOf(k)'
  <2>1. /\ DOMAIN opaque = {report.opaque[m].type : m \in 1 .. k}
        /\ \A m \in 1 .. k : opaque[report.opaque[m].type]
                               = Slice(report.opaque[m].data, report.opaque[m].size)
    BY <1>1 DEF FieldsAreOf
  <2>2. /\ DOMAIN opaque' = DOMAIN opaque \cup {d.type}
        /\ opaque'[d.type] = DataOf(d)
        /\ \A t \in DOMAIN opaque : t # d.type => opaque'[t] = opaque[t]
    BY <1>13 DEF Put
  <2>3. 1 .. k + 1 = 1 .. k \cup {k + 1}
    BY <1>1
  <2>4. \A m \in 1 .. k : report.opaque[m].type # d.type
    <3>1. SUFFICES ASSUME NEW m \in 1 .. k, report.opaque[m].type = d.type PROVE FALSE
      OBVIOUS
    <3>2. m \in DOMAIN report.opaque /\ m # k + 1
      BY <1>1, <1>2, <1>3
    <3>3. QED
      BY <1>4, <3>1, <3>2 DEF InputsAgree, ReportInOrder, d
  <2>5. DOMAIN opaque' = {report.opaque[m].type : m \in 1 .. k + 1}
    BY <2>1, <2>2, <2>3 DEF d
  <2>6. \A m \in 1 .. k + 1 : opaque'[report.opaque[m].type]
                                = Slice(report.opaque[m].data, report.opaque[m].size)
    <3>1. ASSUME NEW m \in 1 .. k
          PROVE  opaque'[report.opaque[m].type]
                   = Slice(report.opaque[m].data, report.opaque[m].size)
      BY <2>1, <2>2, <2>4
    <3>2. opaque'[report.opaque[k + 1].type]
            = Slice(report.opaque[k + 1].data, report.opaque[k + 1].size)
      BY <1>10, <2>2 DEF d
    <3>3. QED
      BY <2>3, <3>1, <3>2
  <2>7. k + 1 <= Len(report.opaque)
    BY <1>1, <1>2, <1>3
  <2>8. QED
    BY <1>13, <1>14, <2>5, <2>6, <2>7 DEF FieldsAreOf
<1>17. mismatched' = {}
  BY DEF CompleteInv, goldenVars
<1>18. QED
  BY <1>13, <1>15, <1>16, <1>17 DEF CompleteInv, Merged

(* The opaque data are read to their end. *)
LEMMA EndReportAgrees ==
    ASSUME IInv, InputsAgree, CompleteInv, EndReport, UNCHANGED goldenVars
    PROVE  CompleteInv'
<1> DEFINE f == SizesUpTo(FieldHeader, report.opaque)
           L == Len(report.opaque)
<1>1. /\ pc = "opaque" /\ at >= OpaqueSize /\ k \in Nat /\ at \in Nat
      /\ at = f[k] /\ FieldsAreOf(k) /\ k <= L
  BY DEF EndReport, IInv, TypeOK, CompleteInv, FieldsAreOf
<1>2. /\ Sized(FieldHeader, report.opaque) /\ OpaqueSize = SizeOf(FieldHeader, report.opaque)
      /\ L \in Nat /\ OpaqueSize \in Int
  BY OrderedLengths, ReportTypes DEF IInv, InputsAgree, Sized
<1>. HIDE DEF f
<1>3. k = L
  <2>1. SUFFICES ASSUME k < L PROVE FALSE
    BY <1>1, <1>2
  <2>2. k \in 0 .. L - 1 /\ k + 1 \in 1 .. L
    BY <1>1, <1>2, <2>1
  <2>3. f[k] + FieldHeader + report.opaque[k + 1].size <= OpaqueSize
    BY <1>2, <2>2, SizesGrow DEF f
  <2>4. report.opaque[k + 1].size \in Nat
    BY <1>2, <2>2 DEF Sized
  <2>5. f[k] \in Int /\ f[k] >= OpaqueSize
    BY <1>1
  <2>. HIDE DEF L
  <2>6. QED
    BY ONLY <1>2, <2>3, <2>4, <2>5 DEF FieldHeader
<1>4. pc' = "parsed" /\ UNCHANGED <<at, k, report, blocks, opaque>>
  BY DEF EndReport, reportVars
<1>5. FieldsAreOf(Len(report.opaque))'
  BY <1>1, <1>3, <1>4 DEF FieldsAreOf
<1>6. mismatched' = {}
  BY DEF CompleteInv, goldenVars
<1>7. QED
  BY <1>4, <1>5, <1>6 DEF CompleteInv, Merged

(* Both versions are found and are the ones NVML gave. *)
LEMMA VersionsAgree ==
    ASSUME IInv, InputsAgree, FieldsAreOf(Len(report.opaque))
    PROVE  SameVersions
<1> DEFINE Same(m) == opaque[report.opaque[m].type]
                        = Slice(report.opaque[m].data, report.opaque[m].size)
<1>1. report.opaque \in Seq(FieldRecord)
  BY ReportTypes DEF IInv, ReportRecord
<1>2. \A m \in DOMAIN report.opaque : report.opaque[m].type \in DOMAIN opaque /\ Same(m)
  BY <1>1 DEF FieldsAreOf
<1>3. PICK m \in DOMAIN report.opaque :
          /\ report.opaque[m].type = "DRIVER_VERSION"
          /\ report.opaque[m].data = DriverVersion.value
          /\ report.opaque[m].size > 0
          /\ report.opaque[m].size - DriverVersion.length \in {0, 1}
  BY DEF InputsAgree, ReportInOrder
<1>4. PICK n \in DOMAIN report.opaque :
          /\ report.opaque[n].type = "VBIOS_VERSION"
          /\ Slice(report.opaque[n].data, report.opaque[n].size) = VbiosVersion
  BY DEF InputsAgree, ReportInOrder
<1>5. GetData("DRIVER_VERSION") = [value |-> DriverVersion.value,
                                   length |-> report.opaque[m].size]
  <2>1. report.opaque[m].size \in Nat
    <3>1. report.opaque[m] \in FieldRecord
      BY <1>1
    <3>2. QED
      BY <3>1 DEF FieldRecord
  <2>2. Slice(report.opaque[m].data, report.opaque[m].size)
          = [value |-> DriverVersion.value, length |-> report.opaque[m].size]
    BY <1>3, <2>1 DEF Slice
  <2>3. QED
    BY <1>2, <1>3, <2>2 DEF GetData
<1>6. GetData("VBIOS_VERSION") = VbiosVersion
  BY <1>2, <1>4 DEF GetData
<1>7. QED
  BY <1>3, <1>5, <1>6 DEF SameVersions

LEMMA VerifyAgrees ==
    ASSUME IInv, InputsAgree, CompleteInv, VerifyReport, UNCHANGED goldenVars
    PROVE  CompleteInv'
<1>1. report.request.nonce = Nonce /\ Signed
  BY DEF InputsAgree, ReportInOrder, Signed
<1>2. SameVersions
  BY VersionsAgree DEF VerifyReport, CompleteInv
<1>3. pc' = "driver" /\ mismatched' = {}
  BY <1>1, <1>2 DEF VerifyReport, CompleteInv, goldenVars
<1>4. QED
  BY <1>3 DEF CompleteInv, Merged

-----------------------------------------------------------------------------
(* RIMs in order are listed to their ends. *)
LEMMA EntryAgrees ==
    ASSUME IInv, InputsAgree, CompleteInv, ParseEntry
    PROVE  CompleteInv'
<1> DEFINE e == rims[pc][k + 1]
<1>1. pc \in RimNames /\ k < Len(rims[pc]) /\ k \in Nat
  BY DEF ParseEntry, IInv, TypeOK
<1>2. k + 1 \in DOMAIN rims[pc] /\ k + 1 \in 1 .. Len(rims[pc])
  BY <1>1, RimTypes DEF IInv
<1>3. e.alternatives <= Len(e.hashes) /\ e \in Entry
  BY <1>1, <1>2, RimTypes DEF InputsAgree, RimsInOrder, IInv
<1>4. e.index \notin DOMAIN tables[pc]
  <2>1. Listed(pc, k)
    BY <1>1 DEF IInv, TablesInv
  <2>2. SUFFICES ASSUME NEW m \in 1 .. k, rims[pc][m].index = e.index PROVE FALSE
    BY <2>1 DEF Listed
  <2>3. m \in DOMAIN rims[pc] /\ m # k + 1
    BY <1>1, RimTypes DEF IInv
  <2>4. QED
    BY <1>1, <1>2, <2>2, <2>3 DEF InputsAgree, RimsInOrder
<1>5. ~(e.alternatives > Len(e.hashes))
  <2>1. e.alternatives \in Int /\ Len(e.hashes) \in Int
    BY <1>3 DEF Entry
  <2>. HIDE DEF e
  <2>2. QED
    BY <1>3, <2>1
<1>6. pc' = pc /\ UNCHANGED <<golden, mismatched>>
  BY <1>4, <1>5 DEF ParseEntry
<1>7. QED
  BY <1>1, <1>6 DEF CompleteInv, Merged

LEMMA EndRimAgrees ==
    ASSUME IInv, InputsAgree, CompleteInv, EndRim
    PROVE  CompleteInv'
<1>1. pc \in RimNames /\ k = Len(rims[pc]) /\ Listed(pc, k)
  BY DEF EndRim, IInv, TablesInv
<1>2. 1 \in 1 .. k
  <2>1. rims[pc] # <<>>
    BY <1>1 DEF InputsAgree, RimsInOrder
  <2>2. QED
    BY <1>1, <2>1, RimTypes DEF IInv
<1>3. DOMAIN tables[pc] # {}
  <2>1. DOMAIN tables[pc] = {rims[pc][m].index : m \in 1 .. k}
    BY <1>1 DEF Listed
  <2>2. rims[pc][1].index \in DOMAIN tables[pc]
    BY <1>2, <2>1
  <2>3. QED
    BY <2>2
<1>4. pc' \in {"vbios", "merge"} /\ UNCHANGED <<golden, mismatched>>
  BY <1>1, <1>3 DEF EndRim, goldenVars
<1>5. QED
  BY <1>4 DEF CompleteInv, Merged

(* An active index is that of an active entry. *)
LEMMA ActiveEntry ==
    ASSUME IInv, NEW r \in RimNames, Listed(r, Len(rims[r])), NEW x \in Active(tables[r])
    PROVE  \E n \in DOMAIN rims[r] :
               rims[r][n].index = x /\ rims[r][n].active /\ tables[r][x] = rims[r][n]
<1>1. x \in DOMAIN tables[r] /\ tables[r][x].active
  BY DEF Active
<1>2. PICK n \in 1 .. Len(rims[r]) : rims[r][n].index = x
  BY <1>1 DEF Listed
<1>3. n \in DOMAIN rims[r]
  BY <1>2, RimTypes DEF IInv
<1>4. tables[r][x] = rims[r][n]
  BY <1>2 DEF Listed
<1>5. QED
  BY <1>1, <1>2, <1>3, <1>4

LEMMA MergeAgrees ==
    ASSUME IInv, InputsAgree, CompleteInv, Merge
    PROVE  CompleteInv'
<1>1. pc = "merge" /\ \A r \in RimNames : Listed(r, Len(rims[r]))
  BY DEF Merge, IInv, TablesInv
<1>2. ~Conflict(tables["driver"], tables["vbios"])
  <2>1. SUFFICES ASSUME NEW x \in Active(tables["driver"]), x \in Active(tables["vbios"])
                 PROVE  FALSE
    BY DEF Conflict
  <2>2. PICK m \in DOMAIN rims["driver"] :
            rims["driver"][m].index = x /\ rims["driver"][m].active
    BY <1>1, ActiveEntry
  <2>3. PICK n \in DOMAIN rims["vbios"] :
            rims["vbios"][n].index = x /\ rims["vbios"][n].active
    BY <1>1, <2>1, ActiveEntry
  <2>4. QED
    BY <2>2, <2>3 DEF InputsAgree, RimsInOrder
<1>3. /\ pc' = "count" /\ UNCHANGED <<tables, mismatched>>
      /\ DOMAIN golden' = Active(tables["driver"]) \cup Active(tables["vbios"])
  BY <1>2 DEF Merge
<1>4. \A x \in DOMAIN golden' : \E r \in RimNames : x \in Active(tables'[r])
  BY <1>3
<1>5. mismatched' = {}
  BY <1>3 DEF CompleteInv
<1>6. QED
  BY <1>3, <1>4, <1>5 DEF CompleteInv

(* Each golden measurement agrees with the block of its index. *)
LEMMA GoldenAgrees ==
    ASSUME IInv, InputsAgree, CompleteInv, Merged, NEW x \in DOMAIN golden
    PROVE  Agreed(x)
<1>1. PICK r \in RimNames : x \in Active(tables[r])
  BY DEF CompleteInv
<1>2. PICK n \in DOMAIN rims[r] :
          rims[r][n].index = x /\ rims[r][n].active /\ tables[r][x] = rims[r][n]
  BY <1>1, ActiveEntry DEF IInv, TablesInv
<1>3. golden[x] = rims[r][n]
  BY <1>1, <1>2 DEF IInv, GoldenInv
<1>4. PICK m \in 1 .. report.blocks, j \in 1 .. rims[r][n].alternatives :
          /\ report.record[m].index = rims[r][n].index + 1
          /\ rims[r][n].hashes[j] = Reading(report.record[m])
          /\ rims[r][n].size = Reading(report.record[m]).length
  BY <1>2 DEF InputsAgree, EveryEntryMatches
<1>5. x + 1 \in DOMAIN blocks /\ blocks[x + 1] = Reading(report.record[m])
  BY <1>2, <1>4, BlockFound DEF Merged, PastRecord
<1>6. Matches(golden[x], Runtime(x))
  BY <1>3, <1>4, <1>5 DEF Matches, Runtime
<1>7. QED
  BY <1>5, <1>6 DEF Agreed

(* There is a block for each golden measurement, so there are enough. *)
LEMMA CountAgrees ==
    ASSUME IInv, InputsAgree, CompleteInv, CountMeasurements
    PROVE  CompleteInv'
<1>1. pc = "count" /\ Merged
  BY DEF CountMeasurements, Merged
<1>2. report.blocks \in Nat /\ DOMAIN blocks = 1 .. report.blocks
  BY <1>1, ReportTypes DEF IInv, RecordInv, PastRecord, ReportRecord
<1>3. DOMAIN golden \subseteq 0 .. report.blocks - 1
  <2>1. SUFFICES ASSUME NEW x \in DOMAIN golden PROVE x \in 0 .. report.blocks - 1
    OBVIOUS
  <2>2. x \in Nat /\ x + 1 \in 1 .. report.blocks
    BY <1>1, <1>2, GoldenAgrees DEF Agreed, IInv, TypeOK
  <2>3. QED
    BY <1>2, <2>2
<1>4. Cardinality(DOMAIN golden) \in Nat /\ Cardinality(DOMAIN golden) <= report.blocks
  <2> DEFINE n == report.blocks
             T == 0 .. n - 1
  <2>1. n \in Nat /\ 0 \in Int /\ n - 1 \in Int
    BY <1>2
  <2>. HIDE DEF n
  <2>2. IsFiniteSet(T) /\ Cardinality(T) = n
    <3>1. /\ IsFiniteSet(T)
          /\ Cardinality(T) = IF 0 > n - 1 THEN 0 ELSE (n - 1) - 0 + 1
      BY ONLY <2>1, FS_Interval
    <3>2. QED
      BY <2>1, <3>1
  <2>3. DOMAIN golden \subseteq T
    BY <1>3 DEF n
  <2>. HIDE DEF T
  <2>4. IsFiniteSet(DOMAIN golden) /\ Cardinality(DOMAIN golden) <= Cardinality(T)
    BY <2>2, <2>3, FS_Subset
  <2>5. QED
    BY <2>2, <2>4, FS_CardinalityType DEF n
<1>5. ~MoreGolden
  BY <1>2, <1>4, IntervalSize DEF MoreGolden
<1>6. pc' = "compare" /\ UNCHANGED <<tables, golden, mismatched>>
  BY <1>5 DEF CountMeasurements
<1>7. QED
  BY <1>1, <1>6 DEF CompleteInv, Merged

LEMMA CompareAgrees ==
    ASSUME IInv, InputsAgree, CompleteInv, NEW x \in todo, CompareIndex(x)
    PROVE  CompleteInv'
<1>1. pc = "compare" /\ Merged /\ x \in DOMAIN golden /\ x \in Nat
  BY DEF CompareIndex, Merged, IInv, TypeOK
<1>2. x + 1 \in DOMAIN blocks /\ Matches(golden[x], Runtime(x))
  BY <1>1, GoldenAgrees DEF Agreed
<1>3. x \in RuntimeIndices
  <2>1. report.blocks \in Nat /\ DOMAIN blocks = 1 .. report.blocks
    BY <1>1, ReportTypes DEF IInv, RecordInv, PastRecord, ReportRecord
  <2>2. Cardinality(DOMAIN blocks) = report.blocks
    BY <2>1, IntervalSize
  <2>3. QED
    BY <1>1, <1>2, <2>1, <2>2 DEF RuntimeIndices
<1>4. mismatched' = mismatched /\ UNCHANGED <<pc, tables, golden, verdict>>
  BY <1>2, <1>3 DEF CompareIndex, OutOfReport
<1>5. QED
  BY <1>1, <1>4 DEF CompleteInv, Merged

LEMMA DecideAgrees ==
    ASSUME IInv, InputsAgree, CompleteInv, Decide
    PROVE  CompleteInv'
BY DEF CompleteInv, Decide, Merged

-----------------------------------------------------------------------------
(* What a report and RIMs are is the same all along. *)
LEMMA InputsKept ==
    ASSUME [Next]_vars
    PROVE  UNCHANGED <<report, rims>>
BY DEF Next, Report, ReadReport, ParseRequest, ParseHeader, ParseBlock, EndRecord,
       ParseField, EndReport, VerifyReport, ParseEntry, EndRim, Merge,
       CountMeasurements, CompareIndex, Decide, Raise, Fail, goldenVars, reportVars, vars

LEMMA NextAgrees == IInv /\ AgreeInv /\ [Next]_vars => AgreeInv'
<1>1. SUFFICES ASSUME IInv, CompleteInv, InputsAgree, [Next]_vars PROVE CompleteInv'
  <2>. SUFFICES ASSUME [Next]_vars, InputsAgree' PROVE InputsAgree
    BY <1>1 DEF AgreeInv
  <2>1. report' = report /\ rims' = rims
    BY InputsKept
  <2>2. ReportInOrder
    BY <2>1 DEF InputsAgree, ReportInOrder, SignatureStart, OpaqueStart, RecordStart
  <2>3. RimsInOrder
    BY <2>1 DEF InputsAgree, RimsInOrder
  <2>4. EveryEntryMatches
    BY <2>1 DEF InputsAgree, EveryEntryMatches, Reading
  <2>5. QED
    BY <2>2, <2>3, <2>4 DEF InputsAgree
<1>2. CASE Report
  BY <1>1, <1>2, RequestAgrees, HeaderAgrees, BlockAgrees, EndRecordAgrees, FieldAgrees,
     EndReportAgrees, VerifyAgrees DEF Report, ReadReport
<1>3. CASE ParseEntry \/ EndRim \/ Merge \/ CountMeasurements \/ Decide
  BY <1>1, <1>3, EntryAgrees, EndRimAgrees, MergeAgrees, CountAgrees, DecideAgrees
<1>4. CASE \E x \in todo : CompareIndex(x)
  BY <1>1, <1>4, CompareAgrees
<1>5. CASE UNCHANGED vars
  BY <1>1, <1>5 DEF vars, CompleteInv, FieldsAreOf, Merged, Active
<1>6. QED
  BY <1>1, <1>2, <1>3, <1>4, <1>5 DEF Next

LEMMA InitAgrees == Init => AgreeInv
<1>1. SUFFICES ASSUME Init, ReportInOrder PROVE CompleteInv
  BY DEF AgreeInv, InputsAgree
<1>2. report \in ReportRecord
  BY <1>1, ReportsAssumption DEF Init, InitReport
<1>3. Len(report.opaque) \in Nat
  BY <1>2 DEF ReportRecord
<1>4. FieldsAreOf(0)
  BY <1>1, <1>3 DEF Init, InitReport, FieldsAreOf
<1>5. QED
  BY <1>1, <1>4 DEF Init, InitReport, CompleteInv, Merged, NoEntries

(* For every report and all RIMs that are in order and agree, whatever the *)
(* order and number of blocks, fields and entries: the verdict is TRUE.    *)
THEOREM MatchAccepted == Spec => []MatchMeansVerdict
<1>1. AgreeInv => MatchMeansVerdict
  BY DEF AgreeInv, CompleteInv, InputsAgree, MatchMeansVerdict
<1>2. QED
  BY <1>1, InitAgrees, NextAgrees, SpecIInv, PTL DEF Spec
=============================================================================

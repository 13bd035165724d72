--------------------------- MODULE MCMeasurements ---------------------------
(***************************************************************************)
(* Measurements of a GPU with two blocks.  The reports are one that is in  *)
(* order and others that differ from it in a length, an index, a block, a  *)
(* field or a value; the RIMs have up to two entries each, of which at     *)
(* most two are not plain.                                                 *)
(***************************************************************************)
EXTENDS Measurements

c_DriverVersion == [value |-> "550", length |-> 6]
c_VbiosVersion  == [value |-> "96", length |-> 8]
c_Nonce         == "n"
c_Values        == STRING

-----------------------------------------------------------------------------
Block(index, value) ==
    [index |-> index, spec |-> 1, size |-> 51, valueSize |-> 48, value |-> value]

Field(type, size, data) == [type |-> type, size |-> size, data |-> data]

Plain ==
    LET record == <<Block(1, "a"), Block(2, "b")>>
        fields == <<Field("VBIOS_VERSION", 8, "96"), Field("DRIVER_VERSION", 7, "550"),
                    Field("NVDEC0_STATUS", 1, "disabled")>>
    IN  [request |-> [nonce |-> "n"], length |-> 276, blocks |-> 2, recordLength |-> 110,
         record |-> record, opaqueLength |-> 28, opaque |-> fields,
         genuine |-> TRUE]

(* More or fewer bytes than there should be, at one of the four lengths. *)
OfLength ==
    {[Plain EXCEPT !.length = @ + d] : d \in {-276, -270, -140, -97, -96, -1, 1}}
      \cup {[Plain EXCEPT !.recordLength = @ + d] : d \in {-55, -50, -48, -1, 1, 200}}
      \cup {[Plain EXCEPT !.opaqueLength = @ + d] : d \in {-17, -5, -2, -1, 1, 96}}
      \cup {[Plain EXCEPT !.opaqueLength = @ - 1, !.length = @ - 1],
            [Plain EXCEPT !.opaqueLength = @ - 2, !.length = @ - 2],
            [Plain EXCEPT !.opaqueLength = 11, !.length = 259]}

(* Blocks too many, too few, doubled, out of order, or wrong in themselves.*)
OfBlocks ==
    {[Plain EXCEPT !.blocks = n] : n \in {0, 1, 3}}
      \cup {[Plain EXCEPT !.record[m].index = n] : m \in {1, 2}, n \in 0 .. 3}
      \cup {[Plain EXCEPT !.record = <<Block(2, "b"), Block(1, "a")>>],
            [Plain EXCEPT !.record = <<Block(2, "b"), Block(2, "a")>>],
            [Plain EXCEPT !.record[2].spec = 0],
            [Plain EXCEPT !.record[2].valueSize = 49],
            [Plain EXCEPT !.record[2].valueSize = 32],
            [Plain EXCEPT !.record[1].size = 106],
            [Plain EXCEPT !.record[2].size = 2, !.recordLength = 61, !.length = 227],
            [Plain EXCEPT !.record[2].size = 1, !.recordLength = 60, !.length = 226]}

OfFields ==
    {[Plain EXCEPT !.opaque[3] = Field(t, 1, "x")] :
         t \in {"unknown", "MSRSCNT", "SWITCH_PDI", "FWID", "DRIVER_VERSION"}}
      \cup {[Plain EXCEPT !.opaque[2] = Field("DRIVER_VERSION", n, "550"),
                          !.opaqueLength = @ + n - 7, !.length = @ + n - 7] :
               n \in {0, 5, 6, 8}}
      \cup {[Plain EXCEPT !.opaque[1].type = "FWID"],
            [Plain EXCEPT !.opaque[1].data = "97"],
            [Plain EXCEPT !.opaque[2].data = "535"],
            [Plain EXCEPT !.opaque[3] = Field("MSRSCNT", 4, "x"),
                          !.opaqueLength = 31, !.length = 279]}

OfValues ==
    {[Plain EXCEPT !.genuine = FALSE], [Plain EXCEPT !.request.nonce = "other"],
     [Plain EXCEPT !.record[2].value = "a"], [Plain EXCEPT !.record[1].value = "c"]}

c_Reports == {Plain} \cup OfLength \cup OfBlocks \cup OfFields \cup OfValues

-----------------------------------------------------------------------------
Hash(v) == [value |-> v, length |-> 48]

Golden(index, hashes, active) ==
    [index |-> index, hashes |-> hashes, alternatives |-> Len(hashes),
     size |-> 48, active |-> active]

a == <<Hash("a")>>
b == <<Hash("b")>>

Inactive == Golden(0, a, FALSE)

(* The VBIOS's entries, for a driver's RIM with index 0. *)
OfVbios ==
    {<<Golden(1, b, TRUE)>>, <<Golden(1, <<Hash("c"), Hash("b")>>, TRUE)>>,
     <<Golden(1, a, TRUE)>>, <<Golden(1, <<>>, TRUE)>>, <<Golden(1, b, FALSE)>>,
     <<Golden(2, b, TRUE)>>, <<Golden(2, <<>>, TRUE)>>, <<Inactive>>, <<>>,
     <<Golden(0, <<Hash("c")>>, TRUE)>>, <<Golden(0, a, TRUE)>>,
     <<[Golden(1, b, TRUE) EXCEPT !.size = 47]>>,
     <<[Golden(1, b, TRUE) EXCEPT !.alternatives = 2]>>,
     <<[Golden(1, <<Hash("c"), Hash("b")>>, TRUE) EXCEPT !.alternatives = 1]>>,
     <<Golden(1, <<[value |-> "b", length |-> 32]>>, TRUE)>>,
     <<[Golden(1, <<[value |-> "b", length |-> 32]>>, TRUE) EXCEPT !.size = 32]>>,
     <<Inactive, Golden(1, b, TRUE)>>, <<Inactive, Golden(0, b, TRUE)>>,
     <<Golden(1, <<Hash("c")>>, TRUE), Golden(1, b, TRUE)>>,
     <<Golden(1, b, TRUE), Golden(2, a, TRUE)>>}

OfDriver ==
    {<<Golden(0, a, TRUE)>>, <<Inactive>>,
     <<Golden(0, <<Hash("c")>>, TRUE), Golden(0, a, FALSE)>>}

c_Rims ==
    {[driver |-> d, vbios |-> v] : d \in OfDriver, v \in OfVbios}
=============================================================================

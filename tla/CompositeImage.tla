---------------------------- MODULE CompositeImage ----------------------------
(***************************************************************************)
(* parseCompositeImage() of updateRetimerFwOverI2C.c: from the bytes of the *)
(* mapped image file to the array of update operations.                     *)
(*                                                                          *)
(* The file is not a constant: what the parser finds in a field is chosen   *)
(* when it reads the field, so every file is considered.  Offsets are       *)
(* size_t and wrap at SizeMod.  (That the file's bytes stay what they were  *)
(* while main() works on the mapping is an assumption of the model.)        *)
(***************************************************************************)
EXTENDS Naturals, Sequences

CONSTANTS
    Retimers,       \* the retimers of this platform: the bits of RETIMERALL
    Bits,           \* the bits of a 32-bit applyBitmap
    SizeMod,        \* 2^w for a size_t of w bits
    HeaderSize,     \* sizeof(CompositeImageHeader) (40)
    ComponentSize,  \* sizeof(ComponentHeader) (64)
    MaxComps        \* RETIMER_MAX_NUM (8)

(* Where the header table of an image of n components ends.                 *)
TableEnd(n) == HeaderSize + n * ComponentSize

ASSUME CompositeImageAssumption ==
    /\ Retimers \in SUBSET Bits
    /\ SizeMod \in Nat \ {0}
    /\ HeaderSize \in Nat
    /\ ComponentSize \in Nat
    /\ MaxComps \in Nat
    /\ \A n \in 0..MaxComps : TableEnd(n) < SizeMod

VARIABLES
    pc,        \* "header", "component", "image" or "done"
    size,      \* fw_size
    count,     \* componentCount of the header
    next,      \* nextImageOffset
    covered,   \* coveredRetimerBitmap
    ops,       \* update_ops, as far as it is filled in
    verified,  \* the images whose CRC has been compared with the data
    ret        \* the return code

vars == <<pc, size, count, next, covered, ops, verified, ret>>

SizeT == 0..(SizeMod - 1)

(* a + b of two size_t *)
Add(a, b) == IF a + b < SizeMod THEN a + b ELSE a + b - SizeMod

Operation == [start : SizeT, len : SizeT, apply : SUBSET Bits]

(* What the checks of the CompositeImageHeader look at.                     *)
Header == [crcOk : BOOLEAN, versionOk : BOOLEAN, platformOk : BOOLEAN,
           count : 0..(MaxComps + 1), lengthOk : BOOLEAN]

(* Mutant: the header table may be longer than the file.                    *)
HeaderFaultShort(h) ==
    IF ~h.crcOk THEN "WRONG_CRC32"
    ELSE IF ~h.versionOk THEN "UNSUPPORTED_VERSION"
    ELSE IF ~h.platformOk THEN "UNSUPPORTED_PLATFORM_TYPE"
    ELSE IF h.count > MaxComps THEN "TOO_MANY_COMPS"
    ELSE IF ~h.lengthOk THEN "TRUNCATED"
    ELSE "OK"

(* The first fault of a header, in the order of the checks.                 *)
HeaderFault(h) ==
    IF ~h.crcOk THEN "WRONG_CRC32"
    ELSE IF ~h.versionOk THEN "UNSUPPORTED_VERSION"
    ELSE IF ~h.platformOk THEN "UNSUPPORTED_PLATFORM_TYPE"
    ELSE IF h.count > MaxComps THEN "TOO_MANY_COMPS"
    ELSE IF ~h.lengthOk THEN "TRUNCATED"
    ELSE IF size < TableEnd(h.count) THEN "TOO_SHORT_FOR_HEADERS"
    ELSE "OK"

(* main() does not get here with an empty file: it cannot be mapped.        *)
Init ==
    /\ pc = "header"
    /\ size \in SizeT \ {0}
    /\ count = 0
    /\ next = 0
    /\ covered = {}
    /\ ops = <<>>
    /\ verified = 0
    /\ ret = "OK"

(* goto exit with an error: the operations are freed.                       *)
Reject(code) ==
    /\ ret' = code
    /\ ops' = <<>>
    /\ pc' = "done"

-------------------------------------------------------------------------------

OutOfMemory ==
    /\ pc = "header"
    /\ Reject("MALLOC_FAILURE")
    /\ UNCHANGED <<size, count, next, covered, verified>>

(* Too short for a header, or another UUID: the file is one image for every *)
(* retimer, its CRC computed from the data.                                 *)
BareImage ==
    /\ pc = "header"
    /\ ops' = <<[start |-> 0, len |-> size, apply |-> Retimers]>>
    /\ count' = 1
    /\ verified' = 1
    /\ pc' = "done"
    /\ UNCHANGED <<size, next, covered, ret>>

RejectHeader ==
    /\ pc = "header"
    /\ size >= HeaderSize
    /\ \E h \in Header : HeaderFault(h) # "OK" /\ Reject(HeaderFault(h))
    /\ UNCHANGED <<size, count, next, covered, verified>>

(* componentCount is 0: success, and nothing to do.                         *)
EmptyImage ==
    /\ pc = "header"
    /\ size >= HeaderSize
    /\ \E h \in Header : HeaderFault(h) = "OK" /\ h.count = 0
    /\ next' = TableEnd(0)
    /\ pc' = "done"
    /\ UNCHANGED <<size, count, covered, ops, verified, ret>>

AcceptHeader ==
    /\ pc = "header"
    /\ size >= HeaderSize
    /\ \E h \in Header :
          /\ HeaderFault(h) = "OK"
          /\ h.count > 0
          /\ count' = h.count
          /\ next' = TableEnd(h.count)
    /\ pc' = "component"
    /\ UNCHANGED <<size, covered, ops, verified, ret>>

-------------------------------------------------------------------------------
(* One turn of the loop over the ComponentHeaders.                          *)

(* Mutant: the test for an overflow of the sum is missing.                  *)
OutOfBoundsNoWrap(len) ==
    \/ next > size
    \/ Add(next, len) > size

OutOfBounds(len) ==
    \/ next > size
    \/ Add(next, len) > size
    \/ Add(next, len) < next

(* Wrong magic or wrong CRC of the header itself.                           *)
CorruptComponent ==
    /\ pc = "component"
    /\ Len(ops) < count
    /\ \E code \in {"HEADER_CORRUPT", "WRONG_CRC32"} : Reject(code)
    /\ UNCHANGED <<size, count, next, covered, verified>>

RejectComponent ==
    /\ pc = "component"
    /\ Len(ops) < count
    /\ \E len \in SizeT, bitmap \in SUBSET Bits :
          \/ OutOfBounds(len) /\ Reject("DATA_OUT_OF_BOUNDS")
          \/ /\ ~OutOfBounds(len)
             /\ covered \cap bitmap # {}
             /\ Reject("RT_TARGETED_MULTIPLE_TIMES")
    /\ UNCHANGED <<size, count, next, covered, verified>>

(* Mutant: only the previous component's bitmap is remembered.              *)
AcceptComponentForgets ==
    /\ pc = "component"
    /\ Len(ops) < count
    /\ \E len \in SizeT, bitmap \in SUBSET Bits :
          /\ ~OutOfBounds(len)
          /\ covered \cap bitmap = {}
          /\ ops' = Append(ops, [start |-> next, len |-> len,
                                 apply |-> bitmap])
          /\ next' = Add(next, len)
          /\ covered' = bitmap
    /\ UNCHANGED <<pc, size, count, verified, ret>>

(* Mutant: the next image begins at its own length.                         *)
AcceptComponentNoAdvance ==
    /\ pc = "component"
    /\ Len(ops) < count
    /\ \E len \in SizeT, bitmap \in SUBSET Bits :
          /\ ~OutOfBounds(len)
          /\ covered \cap bitmap = {}
          /\ ops' = Append(ops, [start |-> next, len |-> len,
                                 apply |-> bitmap])
          /\ next' = Add(TableEnd(count), len)
          /\ covered' = covered \cup bitmap
    /\ UNCHANGED <<pc, size, count, verified, ret>>

(* Mutant: the loop goes round once more than there are components.         *)
AcceptComponentOneMore ==
    /\ pc = "component"
    /\ Len(ops) <= count
    /\ \E len \in SizeT, bitmap \in SUBSET Bits :
          /\ ~OutOfBounds(len)
          /\ covered \cap bitmap = {}
          /\ ops' = Append(ops, [start |-> next, len |-> len,
                                 apply |-> bitmap])
          /\ next' = Add(next, len)
          /\ covered' = covered \cup bitmap
    /\ UNCHANGED <<pc, size, count, verified, ret>>

AcceptComponent ==
    /\ pc = "component"
    /\ Len(ops) < count
    /\ \E len \in SizeT, bitmap \in SUBSET Bits :
          /\ ~OutOfBounds(len)
          /\ covered \cap bitmap = {}
          /\ ops' = Append(ops, [start |-> next, len |-> len,
                                 apply |-> bitmap])
          /\ next' = Add(next, len)
          /\ covered' = covered \cup bitmap
    /\ UNCHANGED <<pc, size, count, verified, ret>>

(* coveredRetimerBitmap > RETIMERALL: a retimer the platform does not have. *)
RejectCoverage ==
    /\ pc = "component"
    /\ Len(ops) = count
    /\ ~(covered \subseteq Retimers)
    /\ Reject("TARGETED_INDEX_OUT_OF_RANGE")
    /\ UNCHANGED <<size, count, next, covered, verified>>

AcceptCoverage ==
    /\ pc = "component"
    /\ Len(ops) = count
    /\ covered \subseteq Retimers
    /\ pc' = "image"
    /\ UNCHANGED <<size, count, next, covered, ops, verified, ret>>

-------------------------------------------------------------------------------
(* The loop over the image data.                                            *)

CorruptImage ==
    /\ pc = "image"
    /\ verified < count
    /\ Reject("WRONG_CRC32")
    /\ UNCHANGED <<size, count, next, covered, verified>>

VerifyImage ==
    /\ pc = "image"
    /\ verified < count
    /\ verified' = verified + 1
    /\ UNCHANGED <<pc, size, count, next, covered, ops, ret>>

Accept ==
    /\ pc = "image"
    /\ verified = count
    /\ pc' = "done"
    /\ UNCHANGED <<size, count, next, covered, ops, verified, ret>>

Returned == pc = "done" /\ UNCHANGED vars

ParseHeader ==
    OutOfMemory \/ BareImage \/ RejectHeader \/ EmptyImage \/ AcceptHeader
ParseComponents ==
    \/ CorruptComponent \/ RejectComponent \/ AcceptComponent
    \/ RejectCoverage \/ AcceptCoverage
ParseImages == CorruptImage \/ VerifyImage \/ Accept

Next == ParseHeader \/ ParseComponents \/ ParseImages \/ Returned

Spec == Init /\ [][Next]_vars

-------------------------------------------------------------------------------
(* Properties.                                                              *)

Codes == {"OK", "MALLOC_FAILURE", "WRONG_CRC32", "UNSUPPORTED_VERSION",
          "UNSUPPORTED_PLATFORM_TYPE", "TOO_MANY_COMPS", "TRUNCATED",
          "TOO_SHORT_FOR_HEADERS", "HEADER_CORRUPT", "DATA_OUT_OF_BOUNDS",
          "RT_TARGETED_MULTIPLE_TIMES", "TARGETED_INDEX_OUT_OF_RANGE"}

(* Types; the array of operations is never written past the components it   *)
(* was allocated for.                                                       *)
TypeOK ==
    /\ pc \in {"header", "component", "image", "done"}
    /\ size \in SizeT
    /\ count \in 0..(MaxComps + 1)
    /\ next \in SizeT
    /\ covered \in SUBSET Bits
    /\ ops \in Seq(Operation) /\ Len(ops) <= count
    /\ verified \in 0..count
    /\ ret \in Codes

(* The file is read through the mapping inside the file only: the header    *)
(* table that the loop reads ends in it, and so does each image of an       *)
(* operation, counted in true integers and not in wrapping ones.            *)
ReadsInFile ==
    /\ pc \in {"component", "image"} => TableEnd(count) <= size
    /\ \A i \in 1..Len(ops) : ops[i].start + ops[i].len <= size

(* No byte of the header table and no byte of an image is part of another   *)
(* component's image.                                                       *)
ImagesApart ==
    /\ pc \in {"component", "image"} =>
          \A i \in 1..Len(ops) : TableEnd(count) <= ops[i].start
    /\ \A i, j \in 1..Len(ops) :
          i < j => ops[i].start + ops[i].len <= ops[j].start

(* What main() relies on: the operations of an accepted image have all had  *)
(* their data checked, are for retimers of the platform, and no retimer is  *)
(* in two of them; a rejected image leaves no operation.                    *)
AcceptedOps ==
    pc = "done" =>
        IF ret = "OK"
        THEN /\ verified = Len(ops)
             /\ \A i \in 1..Len(ops) : ops[i].apply \subseteq Retimers
             /\ \A i, j \in 1..Len(ops) :
                   i # j => ops[i].apply \cap ops[j].apply = {}
        ELSE ops = <<>>

===============================================================================

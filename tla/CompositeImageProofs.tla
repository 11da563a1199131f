------------------------- MODULE CompositeImageProofs -------------------------
(***************************************************************************)
(* The properties of CompositeImage, for every width of size_t, every size  *)
(* of the two headers and every number of components and retimers.          *)
(***************************************************************************)
EXTENDS CompositeImage, SequenceTheorems, TLAPS

(* ReadsInFile and ImagesApart say where the operations lie; they are       *)
(* inductive only with what the loop knows of the offset it has reached.    *)
OffsetInv ==
    pc \in {"component", "image"} =>
        /\ count \in 1..MaxComps
        /\ TableEnd(count) <= next
        /\ next <= size
        /\ \A i \in 1..Len(ops) : ops[i].start + ops[i].len <= next

(* What the loop knows of the bitmaps it has seen.                          *)
CoverInv ==
    /\ pc \in {"component", "image"} =>
          \A i \in 1..Len(ops) : ops[i].apply \subseteq covered
    /\ \A i, j \in 1..Len(ops) : i # j => ops[i].apply \cap ops[j].apply = {}
    /\ pc = "header" => ops = <<>> /\ covered = {} /\ verified = 0
    /\ pc = "component" => verified = 0
    /\ pc = "image" => covered \subseteq Retimers /\ Len(ops) = count
    /\ pc # "done" => ret = "OK"

ParseInv ==
    /\ TypeOK
    /\ OffsetInv
    /\ ReadsInFile
    /\ ImagesApart
    /\ CoverInv
    /\ AcceptedOps

(* The offsets of the header table are values of size_t.                    *)
LEMMA TableEndType ==
    \A n \in 0..MaxComps : TableEnd(n) \in SizeT
<1>1. TAKE n \in 0..MaxComps
<1>2. n * ComponentSize \in Nat
  BY CompositeImageAssumption
<1>3. TableEnd(n) \in Nat /\ TableEnd(n) < SizeMod
  BY <1>2, CompositeImageAssumption DEF TableEnd
<1> QED
  BY <1>3, CompositeImageAssumption DEF SizeT

(* A sum that does not wrap is the sum of the integers.                     *)
LEMMA AddInBounds ==
    ASSUME NEW a \in SizeT, NEW b \in SizeT, Add(a, b) >= a
    PROVE  Add(a, b) = a + b /\ Add(a, b) \in SizeT
BY CompositeImageAssumption DEF Add, SizeT

(* What the bounds check lets through lies inside the file.                 *)
LEMMA InBounds ==
    ASSUME TypeOK, NEW len \in SizeT, ~OutOfBounds(len)
    PROVE  /\ Add(next, len) = next + len
           /\ Add(next, len) \in SizeT
           /\ next + len <= size
<1>1. next \in SizeT /\ size \in SizeT /\ Add(next, len) \in Nat
  BY CompositeImageAssumption DEF TypeOK, Add, SizeT
<1>2. Add(next, len) >= next /\ Add(next, len) <= size
  BY <1>1 DEF OutOfBounds, SizeT
<1> QED
  BY <1>1, <1>2, AddInBounds

(* A rejection leaves nothing to say but that nothing is left.              *)
LEMMA RejectInv ==
    ASSUME ParseInv, NEW code \in Codes \ {"OK"}, Reject(code),
           UNCHANGED <<size, count, next, covered, verified>>
    PROVE  ParseInv'
<1>1. Len(<<>>) = 0 /\ <<>> \in Seq(Operation)
  OBVIOUS
<1>2. count \in Nat
  BY CompositeImageAssumption DEF ParseInv, TypeOK
<1>3. TypeOK'
  BY <1>1, <1>2 DEF ParseInv, TypeOK, Reject
<1> QED
  BY <1>1, <1>3 DEF ParseInv, OffsetInv, ReadsInFile, ImagesApart, CoverInv,
                    AcceptedOps, Reject

(* One more component: it begins where the last one ended, ends inside the  *)
(* file, and has no retimer in common with those before it.                 *)
LEMMA AcceptComponentInv ==
    ASSUME ParseInv, AcceptComponent
    PROVE  ParseInv'
<1>1. PICK len \in SizeT, bitmap \in SUBSET Bits :
          /\ ~OutOfBounds(len)
          /\ covered \cap bitmap = {}
          /\ ops' = Append(ops, [start |-> next, len |-> len,
                                 apply |-> bitmap])
          /\ next' = Add(next, len)
          /\ covered' = covered \cup bitmap
  BY DEF AcceptComponent
<1> DEFINE op == [start |-> next, len |-> len, apply |-> bitmap]
<1>2. /\ pc = "component" /\ pc' = "component" /\ Len(ops) < count
      /\ size' = size /\ count' = count /\ verified' = verified /\ ret' = ret
  BY DEF AcceptComponent
<1>3. /\ next' = next + len /\ next' \in SizeT /\ next' <= size
      /\ next \in Nat /\ len \in Nat /\ size \in Nat /\ next \in SizeT
  BY <1>1, InBounds DEF ParseInv, TypeOK, SizeT
<1>4. op \in Operation
  BY <1>3 DEF Operation
<1>5. /\ ops \in Seq(Operation) /\ Len(ops) \in Nat
      /\ ops' \in Seq(Operation)
      /\ Len(ops') = Len(ops) + 1
      /\ \A i \in 1..Len(ops) : ops'[i] = ops[i]
      /\ ops'[Len(ops) + 1] = op
  <2>1. ops \in Seq(Operation)
    BY DEF ParseInv, TypeOK
  <2> QED
    BY <1>1, <1>4, <2>1, AppendProperties
<1>6. \A i \in 1..Len(ops') :
          \/ i \in 1..Len(ops) /\ ops'[i] = ops[i]
          \/ i = Len(ops) + 1 /\ ops'[i] = op
  BY <1>5
<1>7. \A i \in 1..Len(ops) :
          /\ ops[i].start \in Nat /\ ops[i].len \in Nat
          /\ ops[i].apply \in SUBSET Bits
  <2>1. \A i \in 1..Len(ops) : ops[i] \in Operation
    BY <1>5, ElementOfSeq
  <2> QED
    BY <2>1 DEF Operation, SizeT
<1>8. TypeOK'
  <2>1. Len(ops') <= count'
    BY <1>2, <1>5, CompositeImageAssumption DEF ParseInv, TypeOK
  <2>2. covered' \in SUBSET Bits
    BY <1>1 DEF ParseInv, TypeOK
  <2> QED
    BY <1>2, <1>3, <1>5, <2>1, <2>2 DEF ParseInv, TypeOK
<1>9. OffsetInv /\ ReadsInFile /\ ImagesApart /\ CoverInv
  BY DEF ParseInv
<1>10. TableEnd(count) \in Nat /\ TableEnd(count) <= next
  <2>1. count \in 0..MaxComps
    BY <1>2, <1>9, CompositeImageAssumption DEF OffsetInv
  <2> QED
    BY <1>2, <1>9, <2>1, TableEndType DEF OffsetInv, SizeT
<1>11. TableEnd(count)' = TableEnd(count)
  BY <1>2 DEF TableEnd
<1>12. \A i \in 1..Len(ops) : ops[i].start + ops[i].len <= next
  BY <1>2, <1>9 DEF OffsetInv
<1>13. OffsetInv'
  <2>1. \A i \in 1..Len(ops') : ops'[i].start + ops'[i].len <= next'
    <3>1. TAKE i \in 1..Len(ops')
    <3>2. CASE i \in 1..Len(ops) /\ ops'[i] = ops[i]
      <4>1. ops[i].start + ops[i].len <= next
        BY <1>12, <3>2
      <4> QED
        BY <1>3, <1>7, <3>2, <4>1
    <3>3. CASE ops'[i] = op
      BY <1>3, <3>3
    <3> QED
      BY <1>6, <3>2, <3>3
  <2> QED
    BY <1>2, <1>3, <1>9, <1>10, <1>11, <2>1 DEF OffsetInv
<1>14. ReadsInFile'
  <2>1. \A i \in 1..Len(ops') : ops'[i].start + ops'[i].len <= size'
    <3>1. TAKE i \in 1..Len(ops')
    <3>2. CASE i \in 1..Len(ops) /\ ops'[i] = ops[i]
      BY <1>2, <1>9, <3>2 DEF ReadsInFile
    <3>3. CASE ops'[i] = op
      BY <1>2, <1>3, <3>3
    <3> QED
      BY <1>6, <3>2, <3>3
  <2> QED
    BY <1>2, <1>9, <1>11, <2>1 DEF ReadsInFile
<1>15. ImagesApart'
  <2>1. \A i \in 1..Len(ops') : TableEnd(count) <= ops'[i].start
    <3>1. TAKE i \in 1..Len(ops')
    <3>2. CASE i \in 1..Len(ops) /\ ops'[i] = ops[i]
      BY <1>2, <1>9, <3>2 DEF ImagesApart
    <3>3. CASE ops'[i] = op
      BY <1>10, <3>3
    <3> QED
      BY <1>6, <3>2, <3>3
  <2>2. \A i, j \in 1..Len(ops') :
            i < j => ops'[i].start + ops'[i].len <= ops'[j].start
    <3>1. TAKE i, j \in 1..Len(ops')
    <3>2. HAVE i < j
    <3>3. i \in 1..Len(ops) /\ ops'[i] = ops[i]
      BY <1>5, <3>2
    <3>4. CASE j \in 1..Len(ops) /\ ops'[j] = ops[j]
      BY <1>9, <3>2, <3>3, <3>4 DEF ImagesApart
    <3>5. CASE ops'[j] = op
      BY <1>12, <3>3, <3>5
    <3> QED
      BY <1>6, <3>4, <3>5
  <2> QED
    BY <1>11, <2>1, <2>2 DEF ImagesApart
<1>16. CoverInv'
  <2>1. \A i \in 1..Len(ops') : ops'[i].apply \subseteq covered'
    <3>1. TAKE i \in 1..Len(ops')
    <3>2. CASE i \in 1..Len(ops) /\ ops'[i] = ops[i]
      BY <1>1, <1>2, <1>9, <3>2 DEF CoverInv
    <3>3. CASE ops'[i] = op
      BY <1>1, <3>3
    <3> QED
      BY <1>6, <3>2, <3>3
  <2>2. \A i \in 1..Len(ops) : ops[i].apply \cap bitmap = {}
    BY <1>1, <1>2, <1>9 DEF CoverInv
  <2>3. \A i, j \in 1..Len(ops') :
            i # j => ops'[i].apply \cap ops'[j].apply = {}
    <3>1. TAKE i, j \in 1..Len(ops')
    <3>2. HAVE i # j
    <3>3. CASE /\ i \in 1..Len(ops) /\ ops'[i] = ops[i]
               /\ j \in 1..Len(ops) /\ ops'[j] = ops[j]
      BY <1>9, <3>2, <3>3 DEF CoverInv
    <3>4. CASE i \in 1..Len(ops) /\ ops'[i] = ops[i] /\ ops'[j] = op
      BY <2>2, <3>4
    <3>5. CASE j \in 1..Len(ops) /\ ops'[j] = ops[j] /\ ops'[i] = op
      BY <2>2, <3>5
    <3> QED
      BY <1>6, <3>2, <3>3, <3>4, <3>5
  <2> QED
    BY <1>2, <1>9, <2>1, <2>3 DEF CoverInv
<1> QED
  BY <1>2, <1>8, <1>13, <1>14, <1>15, <1>16 DEF ParseInv, AcceptedOps

(* Every step of the parser keeps the invariant.                            *)
LEMMA StepInv ==
    ASSUME ParseInv, [Next]_vars
    PROVE  ParseInv'
<1> USE DEF ParseInv
<1>1. CASE OutOfMemory
  BY <1>1, RejectInv DEF OutOfMemory, Codes
<1>2. CASE BareImage
  <2> DEFINE op == [start |-> 0, len |-> size, apply |-> Retimers]
  <2>1. op \in Operation
    BY CompositeImageAssumption DEF TypeOK, Operation, SizeT
  <2>2. ops' = <<op>> /\ Len(ops') = 1 /\ ops'[1] = op /\ ops' \in Seq(Operation)
    BY <1>2, <2>1 DEF BareImage
  <2>3. 1..Len(ops') = {1}
    BY <2>2
  <2>4. TypeOK'
    BY <1>2, <2>2, CompositeImageAssumption DEF TypeOK, BareImage
  <2>5. size \in Nat /\ size' = size /\ pc' = "done" /\ ret' = ret
        /\ pc = "header" /\ verified' = 1
    BY <1>2, CompositeImageAssumption DEF BareImage, TypeOK, SizeT
  <2>6. OffsetInv' /\ ImagesApart'
    BY <2>3, <2>5 DEF OffsetInv, ImagesApart
  <2>7. ReadsInFile'
    BY <2>2, <2>3, <2>5 DEF ReadsInFile
  <2>8. CoverInv' /\ AcceptedOps'
    BY <2>2, <2>3, <2>5 DEF CoverInv, AcceptedOps
  <2> QED
    BY <2>4, <2>6, <2>7, <2>8
<1>3. CASE RejectHeader
  <2>1. PICK h \in Header : HeaderFault(h) # "OK" /\ Reject(HeaderFault(h))
    BY <1>3 DEF RejectHeader
  <2>2. HeaderFault(h) \in Codes \ {"OK"}
    BY <2>1 DEF HeaderFault, Codes
  <2> QED
    BY <1>3, <2>1, <2>2, RejectInv DEF RejectHeader
<1>4. CASE EmptyImage
  <2>1. TableEnd(0) \in SizeT
    BY TableEndType, CompositeImageAssumption
  <2>2. ops = <<>> /\ Len(ops) = 0 /\ verified = 0 /\ ret = "OK"
    BY <1>4 DEF EmptyImage, CoverInv
  <2> QED
    BY <1>4, <2>1, <2>2 DEF EmptyImage, TypeOK, OffsetInv, ReadsInFile,
                            ImagesApart, CoverInv, AcceptedOps
<1>5. CASE AcceptHeader
  <2>1. PICK h \in Header :
            /\ HeaderFault(h) = "OK" /\ h.count > 0
            /\ count' = h.count /\ next' = TableEnd(h.count)
    BY <1>5 DEF AcceptHeader
  <2>2. h.count \in 0..(MaxComps + 1)
    BY <2>1 DEF Header
  <2>3. ~(h.count > MaxComps) /\ ~(size < TableEnd(h.count))
    BY <2>1 DEF HeaderFault
  <2>4. count' \in 1..MaxComps
    BY <2>1, <2>2, <2>3, CompositeImageAssumption
  <2>5. count' \in 0..MaxComps
    BY <2>4, CompositeImageAssumption
  <2>6. next' \in SizeT /\ next' = TableEnd(count')
    BY <2>1, <2>5, TableEndType
  <2>7. next' <= size /\ size' = size
    BY <1>5, <2>1, <2>3, <2>6, CompositeImageAssumption
       DEF AcceptHeader, TypeOK, SizeT
  <2>8. /\ ops = <<>> /\ Len(ops) = 0 /\ verified = 0 /\ covered = {}
        /\ ops' = ops /\ verified' = verified /\ covered' = covered
        /\ pc' = "component" /\ ret' = ret /\ pc = "header"
    BY <1>5 DEF AcceptHeader, CoverInv
  <2>9. TableEnd(count)' = TableEnd(count')
    BY DEF TableEnd
  <2>10. TypeOK'
    BY <2>4, <2>6, <2>7, <2>8, CompositeImageAssumption DEF TypeOK
  <2>11. OffsetInv' /\ ReadsInFile'
    BY <2>4, <2>6, <2>7, <2>8, <2>9, CompositeImageAssumption
       DEF OffsetInv, ReadsInFile, SizeT
  <2> QED
    BY <2>8, <2>10, <2>11 DEF ImagesApart, CoverInv, AcceptedOps
<1>6. CASE CorruptComponent
  BY <1>6, RejectInv DEF CorruptComponent, Codes
<1>7. CASE RejectComponent
  <2>1. \E code \in Codes \ {"OK"} : Reject(code)
    BY <1>7 DEF RejectComponent, Codes
  <2> QED
    BY <1>7, <2>1, RejectInv DEF RejectComponent
<1>8. CASE AcceptComponent
  BY <1>8, AcceptComponentInv
<1>9. CASE RejectCoverage
  BY <1>9, RejectInv DEF RejectCoverage, Codes
<1>10. CASE AcceptCoverage
  <2>1. TableEnd(count)' = TableEnd(count)
    BY <1>10 DEF AcceptCoverage, TableEnd
  <2> QED
    BY <1>10, <2>1 DEF AcceptCoverage, TypeOK, OffsetInv, ReadsInFile,
                       ImagesApart, CoverInv, AcceptedOps
<1>11. CASE CorruptImage
  BY <1>11, RejectInv DEF CorruptImage, Codes
<1>12. CASE VerifyImage
  <2>1. TableEnd(count)' = TableEnd(count)
    BY <1>12 DEF VerifyImage, TableEnd
  <2>2. verified' \in 0..count
    BY <1>12, CompositeImageAssumption DEF VerifyImage, TypeOK
  <2> QED
    BY <1>12, <2>1, <2>2 DEF VerifyImage, TypeOK, OffsetInv, ReadsInFile,
                             ImagesApart, CoverInv, AcceptedOps
<1>13. CASE Accept
  <2>1. \A i \in 1..Len(ops) : ops[i].apply \subseteq Retimers
    BY <1>13 DEF Accept, CoverInv
  <2>2. verified = Len(ops)
    BY <1>13 DEF Accept, CoverInv
  <2> QED
    BY <1>13, <2>1, <2>2 DEF Accept, TypeOK, OffsetInv, ReadsInFile,
                             ImagesApart, CoverInv, AcceptedOps
<1>14. CASE Returned \/ UNCHANGED vars
  <2>1. UNCHANGED vars
    BY <1>14 DEF Returned
  <2>2. TableEnd(count)' = TableEnd(count)
    BY <2>1 DEF vars, TableEnd
  <2> QED
    BY <2>1, <2>2 DEF vars, TypeOK, OffsetInv, ReadsInFile, ImagesApart,
                      CoverInv, AcceptedOps
<1> QED
  BY <1>1, <1>2, <1>3, <1>4, <1>5, <1>6, <1>7, <1>8, <1>9, <1>10, <1>11,
     <1>12, <1>13, <1>14
     DEF Next, ParseHeader, ParseComponents, ParseImages

(* The invariant of the parser holds of every file.                         *)
THEOREM ParseInvariance == Spec => []ParseInv
<1>1. Init => ParseInv
  <2> SUFFICES ASSUME Init PROVE ParseInv
    OBVIOUS
  <2>1. Len(ops) = 0 /\ ops \in Seq(Operation)
    BY DEF Init
  <2> QED
    BY <2>1, CompositeImageAssumption
       DEF Init, ParseInv, TypeOK, OffsetInv, ReadsInFile, ImagesApart,
           CoverInv, AcceptedOps, SizeT, Codes
<1>2. ParseInv /\ [Next]_vars => ParseInv'
  BY StepInv
<1> QED
  BY <1>1, <1>2, PTL DEF Spec

(* The parser never writes an operation past the array it allocated.        *)
THEOREM ParseTypes == Spec => []TypeOK
<1>1. ParseInv => TypeOK
  BY DEF ParseInv
<1> QED
  BY <1>1, ParseInvariance, PTL

(* parseCompositeImage() reads inside the file, whatever lengths the        *)
(* headers claim and however wide size_t is.                                *)
THEOREM ReadsBounded == Spec => []ReadsInFile
<1>1. ParseInv => ReadsInFile
  BY DEF ParseInv
<1> QED
  BY <1>1, ParseInvariance, PTL

(* The images of a composite file lie apart, behind the header table.       *)
THEOREM ImagesDisjoint == Spec => []ImagesApart
<1>1. ParseInv => ImagesApart
  BY DEF ParseInv
<1> QED
  BY <1>1, ParseInvariance, PTL

(* What main() is given: checked images, retimers of the platform, each in  *)
(* one operation at the most.                                               *)
THEOREM OpsAccepted == Spec => []AcceptedOps
<1>1. ParseInv => AcceptedOps
  BY DEF ParseInv
<1> QED
  BY <1>1, ParseInvariance, PTL

===============================================================================

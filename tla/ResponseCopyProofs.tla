------------------------- MODULE ResponseCopyProofs -------------------------
(***************************************************************************)
(* The bounded copy is exact for every limit, body and buffer size.        *)
(***************************************************************************)
EXTENDS ResponseCopy, TLAPS

(* While the copy runs, all that was read was delivered, and `remaining' is  *)
(* what the limit leaves; each way to end keeps what it was decided on.      *)
CopyInv ==
    /\ CopyTypeOK
    /\ consumed <= length
    /\ remaining = limit - delivered
    /\ limit > 0 => delivered <= limit
    /\ limit <= 0 => delivered = 0
    /\ result = "copying" => consumed = delivered
    /\ result = "ok" => delivered = length /\ ending = "eof"
    /\ result = "limit" /\ limit > 0 => length > limit /\ delivered = limit

(* The bounds as numbers. *)
LEMMA CopyTypes ==
    /\ \A l \in Limits : l \in Int
    /\ \A l \in Lengths : l \in Nat
    /\ BufferSize \in Nat /\ BufferSize > 0
  BY CopyBounds

(* Nothing is copied at first. *)
LEMMA InitCorrect == CopyInit => CopyInv
  BY CopyTypes DEF CopyInit, CopyInv, CopyTypeOK, Results

(* Every read, write and failure keeps the count. *)
LEMMA StepCorrect == CopyInv /\ [CopyNext]_copyVars => CopyInv'
  <1> SUFFICES ASSUME CopyInv, [CopyNext]_copyVars PROVE CopyInv'
    OBVIOUS
  <1>t. /\ limit \in Int /\ length \in Nat /\ consumed \in Nat /\ delivered \in Nat
        /\ remaining \in Int /\ limit \in Limits /\ length \in Lengths
    BY CopyTypes DEF CopyInv, CopyTypeOK
  <1>1. CASE Refuse
    BY <1>1, <1>t DEF Refuse, CopyInv, CopyTypeOK, Results
  <1>2. CASE Probe
    <2>1. PICK r \in Reads(1) : consumed' = consumed + r.n
                             /\ result' = IF r.n > 0 THEN "limit" ELSE AfterRead(r.err)
      BY <1>2 DEF Probe
    <2>2. /\ r.n \in 0 .. 1 /\ r.err \in {"none", "eof", "broken"}
          /\ consumed + r.n <= length
          /\ r.err # "none" => consumed + r.n = length /\ r.err = ending
      BY DEF Reads
    <2>3. /\ result = "copying" /\ limit > 0 /\ remaining = 0
          /\ UNCHANGED <<limit, length, ending, delivered, remaining>>
      BY <1>2 DEF Probe
    <2>4. CASE r.n > 0
      BY <2>1, <2>2, <2>3, <2>4, <1>t DEF CopyInv, CopyTypeOK, Results
    <2>5. CASE r.n = 0
      BY <2>1, <2>2, <2>3, <2>5, <1>t DEF CopyInv, CopyTypeOK, Results, AfterRead
    <2> QED BY <2>2, <2>4, <2>5
  <1>3. CASE Copy
    <2>0. /\ result = "copying" /\ limit > 0 /\ remaining # 0
          /\ UNCHANGED <<limit, length, ending>>
      BY <1>3 DEF Copy
    <2>s. ReadSize \in Nat /\ ReadSize <= remaining
      BY <2>0, <1>t, CopyTypes DEF ReadSize, CopyInv
    <2>1. PICK r \in Reads(ReadSize), failed \in BOOLEAN :
            \E written \in 0 .. r.n :
              /\ r.n = 0 => ~failed
              /\ consumed' = consumed + r.n
              /\ delivered' = delivered + written
              /\ remaining' = remaining - written
              /\ result' = IF failed \/ written # r.n THEN "write" ELSE AfterRead(r.err)
      BY <1>3 DEF Copy
    <2>2. /\ r.n \in 0 .. ReadSize /\ r.err \in {"none", "eof", "broken"}
          /\ consumed + r.n <= length
          /\ r.err # "none" => consumed + r.n = length /\ r.err = ending
      BY DEF Reads
    <2>3. PICK written \in 0 .. r.n :
              /\ consumed' = consumed + r.n
              /\ delivered' = delivered + written
              /\ remaining' = remaining - written
              /\ result' = IF failed \/ written # r.n THEN "write" ELSE AfterRead(r.err)
      BY <2>1
    <2>4. /\ consumed' \in Nat /\ delivered' \in Nat /\ remaining' \in Int
          /\ consumed' <= length /\ remaining' = limit - delivered' /\ delivered' <= limit
      BY <2>2, <2>3, <2>s, <1>t DEF CopyInv
    <2>5. CASE failed \/ written # r.n
      BY <2>0, <2>3, <2>4, <2>5, <1>t DEF CopyInv, CopyTypeOK, Results
    <2>6. CASE ~failed /\ written = r.n
      BY <2>0, <2>2, <2>3, <2>4, <2>6, <1>t DEF CopyInv, CopyTypeOK, Results, AfterRead
    <2> QED BY <2>5, <2>6
  <1>4. CASE UNCHANGED copyVars
    BY <1>4 DEF copyVars, CopyInv, CopyTypeOK
  <1> QED BY <1>1, <1>2, <1>3, <1>4 DEF CopyNext

(* The count of what was delivered is an inductive invariant. *)
LEMMA CopyCorrect == CopySpec => []CopyInv
  BY InitCorrect, StepCorrect, PTL DEF CopySpec

(* No copy exceeds its limit (router.go:472-479). *)
THEOREM Bounded == CopySpec => []WithinLimit
  <1>1. CopyInv => WithinLimit
    BY CopyTypes DEF CopyInv, CopyTypeOK, WithinLimit
  <1> QED BY <1>1, CopyCorrect, PTL

(* The trailer tells a complete body from a cut one, exactly at the limit    *)
(* too (router.go:440-448, 458-471, 480-495).                                *)
THEOREM HonestTrailer == CopySpec => []TrailerTells
  <1>1. CopyInv => TrailerTells
    BY DEF CopyInv, CopyTypeOK, Results, TrailerTells, Trailer
  <1> QED BY <1>1, CopyCorrect, PTL
=============================================================================

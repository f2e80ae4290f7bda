---------------------------- MODULE ResponseCopy ----------------------------
(***************************************************************************)
(* copyBoundedAndFlush (internal/router/router.go): the body of the        *)
(* upstream response is handed to the client up to a limit, and the        *)
(* trailer X-Provider-Runpod-Error tells how the copy ended.  Bytes are    *)
(* counted; their values are not kept.                                     *)
(***************************************************************************)
EXTENDS Integers

CONSTANTS
    Limits,     \* responseLimit, 32 MiB in production
    Lengths,    \* how many bytes the upstream sends
    BufferSize  \* 32 KiB

ASSUME CopyBounds ==
    /\ Limits \subseteq Int
    /\ Lengths \subseteq Nat
    /\ BufferSize \in Nat \ {0}

VARIABLES
    limit,      \* the limit of this copy
    length,     \* the length of the body
    ending,     \* how the body ends: "eof", or "broken" by an error
    consumed,   \* bytes read from the upstream
    delivered,  \* bytes written to the client
    remaining,  \* what is left of the limit
    result      \* "copying", or why the copy ended

copyVars == <<limit, length, ending, consumed, delivered, remaining, result>>

Results == {"copying", "ok", "limit", "read", "write"}

CopyTypeOK ==
    /\ limit \in Limits
    /\ length \in Lengths
    /\ ending \in {"eof", "broken"}
    /\ consumed \in Nat
    /\ delivered \in Nat
    /\ remaining \in Int
    /\ result \in Results

CopyInit ==
    /\ limit \in Limits
    /\ length \in Lengths
    /\ ending \in {"eof", "broken"}
    /\ consumed = 0
    /\ delivered = 0
    /\ remaining = limit
    /\ result = "copying"

(* External: what Read may return for a buffer of size b.  The end of the    *)
(* body may come with its last bytes or on its own, and a read may be empty. *)
Reads(b) ==
    {r \in [n : 0 .. b, err : {"none", "eof", "broken"}] :
        /\ consumed + r.n <= length
        /\ r.err # "none" => consumed + r.n = length /\ r.err = ending}

(* The copy goes on, or ends as the error of a Read says. *)
AfterRead(err) ==
    IF err = "none" THEN "copying" ELSE IF err = "eof" THEN "ok" ELSE "read"

Refuse ==
    /\ result = "copying" /\ limit <= 0
    /\ result' = "limit"
    /\ UNCHANGED <<limit, length, ending, consumed, delivered, remaining>>

(* Mutant: a full budget is taken for an exceeded one. *)
Probe_Hasty ==
    /\ result = "copying" /\ limit > 0 /\ remaining = 0
    /\ result' = "limit"
    /\ UNCHANGED <<limit, length, ending, consumed, delivered, remaining>>

(* The limit is used up: one byte more tells whether the body is too long. *)
Probe ==
    /\ result = "copying" /\ limit > 0 /\ remaining = 0
    /\ \E r \in Reads(1) :
          /\ consumed' = consumed + r.n
          /\ result' = IF r.n > 0 THEN "limit" ELSE AfterRead(r.err)
    /\ UNCHANGED <<limit, length, ending, delivered, remaining>>

(* Mutant: the buffer is not cut to what remains. *)
ReadSize_Whole == BufferSize

ReadSize == IF remaining < BufferSize THEN remaining ELSE BufferSize

Copy ==
    /\ result = "copying" /\ limit > 0 /\ remaining # 0
    /\ \E r \in Reads(ReadSize), failed \in BOOLEAN :
       \E written \in 0 .. r.n :
          /\ r.n = 0 => ~failed
          /\ consumed' = consumed + r.n
          /\ delivered' = delivered + written
          /\ remaining' = remaining - written
          /\ result' = IF failed \/ written # r.n THEN "write" ELSE AfterRead(r.err)
    /\ UNCHANGED <<limit, length, ending>>

CopyNext == Refuse \/ Probe \/ Copy

CopySpec == CopyInit /\ [][CopyNext]_copyVars

(* The trailer of an ended copy (router.go:440-448). *)
Trailer ==
    IF result = "ok" THEN "none"
    ELSE IF result = "limit" THEN "response-limit-exceeded" ELSE "upstream-read-failed"
-----------------------------------------------------------------------------
(* The client never gets more than the limit, however the reads and writes   *)
(* are cut (router.go:472-479).                                              *)
WithinLimit == limit >= 0 => delivered <= limit

(* The trailer tells the truth: without one the client has the whole body,   *)
(* and the limit is reported only for a body that is longer, of which the    *)
(* client has exactly the limit (router.go:458-471, 480-495).                *)
TrailerTells ==
    result # "copying" =>
       /\ Trailer = "none" => delivered = length /\ ending = "eof"
       /\ Trailer = "response-limit-exceeded" /\ limit > 0 =>
             length > limit /\ delivered = limit
=============================================================================

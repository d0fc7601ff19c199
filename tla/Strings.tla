------------------------------- MODULE Strings ------------------------------
(***************************************************************************)
(* The string functions the kernel uses.  A character is a string: the     *)
(* character itself or, for control bytes, its ASCII name.  A string that  *)
(* is only read is the sequence of its characters, with or without what    *)
(* follows its NUL; a string that is changed in place is an array b, a     *)
(* function on 0 .. n - 1, and a pointer into it an index.                 *)
(***************************************************************************)
EXTENDS Integers, Sequences, FiniteSets, FiniteSetsExt

NUL == "NUL"

\* The null pointer, and one into memory that no longer is the caller's.
NULL == -1
DANGLING == -2

\* The character at position k of a string, whose NUL may be left unwritten.
At(s, k) == IF k <= Len(s) THEN s[k] ELSE NUL

strlen(s) == Min({k \in 1 .. Len(s) + 1 : At(s, k) = NUL}) - 1

CString(s) == SubSeq(s, 1, strlen(s))

\* The loop of strcmp and strncmp goes on over equal characters; it ends at
\* position n at the latest.  Callers only ask whether the result is 0.
Compare(s1, s2, n) ==
  LET same(k) == At(s1, k) = At(s2, k)
      end == CHOOSE k \in 1 .. n :
               /\ k = n \/ ~same(k) \/ At(s1, k) = NUL
               /\ \A j \in 1 .. k - 1 : same(j) /\ At(s1, j) # NUL
  IN  IF same(end) THEN 0 ELSE 1

strcmp(s1, s2) == Compare(s1, s2, Len(s1) + 1)

strncmp(s1, s2, n) == IF n = 0 THEN 0 ELSE Compare(s1, s2, n)

\* strchr(s, c) is not NULL, for a c other than NUL.
strchr(s, c) == \E k \in 1 .. strlen(s) : s[k] = c

-----------------------------------------------------------------------------
\* The string an array holds at index p.
StringAt(b, p) ==
  CString([k \in 1 .. Cardinality({q \in DOMAIN b : q >= p}) |-> b[p + k - 1]])

Found(b, last, token) == [buffer |-> b, last |-> last, token |-> token]

\* The token starts at token and ends before end; it is terminated in place.
CutToken(b, token, end) ==
  IF b[end] # NUL
  THEN Found([b EXCEPT ![end] = NUL], end + 1, token)
  ELSE Found(b, NULL, token)

TokenFrom(b, token, delimiters) ==
  IF b[token] = NUL THEN Found(b, NULL, NULL)
  ELSE CutToken(b, token, Min({p \in DOMAIN b :
         p >= token /\ (b[p] = NUL \/ strchr(delimiters, b[p]))}))

\* Leading delimiters are skipped.
ScanFrom(b, start, delimiters) ==
  IF start \notin DOMAIN b THEN Found(b, NULL, NULL)
  ELSE TokenFrom(b, Min({p \in DOMAIN b :
         p >= start /\ (b[p] = NUL \/ ~strchr(delimiters, b[p]))}), delimiters)

\* A scan that an earlier string left unfinished is finished first.
StrtokResumes(b, str, last, delimiters) ==
  ScanFrom(b, IF last = NULL THEN str ELSE last, delimiters)

\* strtok with its static variable last; str is NULL to go on with last.
strtok(b, str, last, delimiters) ==
  ScanFrom(b, IF str # NULL THEN str ELSE last, delimiters)
=============================================================================

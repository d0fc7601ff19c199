------------------------------- MODULE Hextee -------------------------------
(***************************************************************************)
(* mon_hextee, which shows the code of every key until q is pressed, over  *)
(* a receive buffer long enough to overrun the array kgetch reads a key's  *)
(* bytes into.  Console shows that the ring buffer is such a queue.  What  *)
(* bytes written behind the array destroy is not modelled: KeyFitsArray    *)
(* asks whether there are any.                                             *)
(***************************************************************************)
EXTENDS Keys

CONSTANTS
  Bytes,                     \* bytes the terminal may send
  RECEIVED_MAX,              \* bytes the ring buffer holds
  MAX_SPECIAL_KEY_SEQ_LEN    \* the length of kgetch's array

\* Every sequence of the table fits such an array, with its NUL.  The codes
\* start at 0x1000, so none of them is a byte.
ASSUME KeyTableAssumption ==
  /\ MAX_SPECIAL_KEY_SEQ_LEN \in Nat
  /\ \A k \in SpecialKeys : Len(k.sequence) < MAX_SPECIAL_KEY_SEQ_LEN
  /\ Bytes \intersect KeyCodes = {}

VARIABLE received   \* the bytes waiting

HexInit == received = <<>>

Receive ==
  /\ Len(received) < RECEIVED_MAX
  /\ \E c \in Bytes : received' = Append(received, c)

\* One turn of the loop.  q ends it; what came behind q is for the next reader,
\* which is not modelled.
mon_hextee ==
  received' = IF KeyRead(received) = "q" THEN <<>>
              ELSE SubSeq(received, Consumed(received) + 1, Len(received))

HexNext == Receive \/ mon_hextee

HexSpec == HexInit /\ [][HexNext]_received

-----------------------------------------------------------------------------
\* kgetch (console.c:70) declares "char sequence[MAX_SPECIAL_KEY_SEQ_LEN]" for
\* the bytes of one key: whatever bytes are waiting, each one it reads as part of
\* a key is stored inside that array.
KeyFitsArray == Consumed(received) <= MAX_SPECIAL_KEY_SEQ_LEN

StartsWith(q, s) == Len(s) <= Len(q) /\ SubSeq(q, 1, Len(s)) = s

\* kgetch (console.c:75): when the waiting bytes start with those of a special
\* key, the call returns that key's code and takes exactly its bytes, whatever
\* follows them; and it returns a key's code only then.  So a sequence that is
\* broken, or of which a getch call in between took a part, or that has a NUL in
\* it, is never taken for a key, by this call or by a later one.
KeysDecoded ==
  /\ \A k \in SpecialKeys :
       StartsWith(received, k.sequence) =>
         KeyRead(received) = k.code /\ Consumed(received) = Len(k.sequence)
  /\ KeyRead(received) \in KeyCodes =>
       \E k \in SpecialKeys :
         k.code = KeyRead(received) /\ StartsWith(received, k.sequence)
=============================================================================

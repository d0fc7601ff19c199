-------------------------------- MODULE Keys --------------------------------
(***************************************************************************)
(* The key tables of the console: how the byte sequence a terminal sends   *)
(* for a key becomes one key code (kgetch), and how a key code becomes the *)
(* bytes sent to the terminal (kputch).  The code 0, which kgetch returns  *)
(* when there is no key, is the byte NUL.                                  *)
(***************************************************************************)
EXTENDS Strings

Key(code, sequence) == [code |-> code, sequence |-> sequence]

SPECIAL_KEY_SEQUENCES ==
  << Key("KEY_ARROW_UP",    <<"ESC", "[", "A">>),
     Key("KEY_ARROW_DOWN",  <<"ESC", "[", "B">>),
     Key("KEY_ARROW_RIGHT", <<"ESC", "[", "C">>),
     Key("KEY_ARROW_LEFT",  <<"ESC", "[", "D">>),
     Key("KEY_BACKSPACE",   <<"DEL">>),
     Key("KEY_BACKSPACE",   <<"BS">>) >>

SpecialKeys == Range(SPECIAL_KEY_SEQUENCES)

KeyCodes == {k.code : k \in SpecialKeys}

\* The array the bytes are read into is zero-initialised, so the string in it
\* ends behind the last byte read, or at a NUL among them.
is_special_key_sequence_prefix(s) ==
  \E k \in SpecialKeys : strncmp(s, k.sequence, strlen(s)) = 0

get_special_key_code(s) ==
  LET matches == {k \in SpecialKeys : strcmp(s, k.sequence) = 0}
  IN  IF matches = {} THEN NUL ELSE (CHOOSE k \in matches : TRUE).code

\* kgetch's loop goes on while the bytes read so far may still become a key.
\* CodeOnlyAtEnd drops the second test of the loop's condition.
CodeOnlyAtEnd(s) == is_special_key_sequence_prefix(s)

KeepReading(s) ==
  is_special_key_sequence_prefix(s) /\ get_special_key_code(s) = NUL

\* The number of bytes kgetch takes when the receive buffer holds q: the
\* first point where the loop stops, or all of q.
Consumed(q) ==
  CHOOSE n \in 0 .. Len(q) :
    /\ n = Len(q) \/ ~KeepReading(SubSeq(q, 1, n))
    /\ \A m \in 0 .. n - 1 : KeepReading(SubSeq(q, 1, m))

\* The key code kgetch returns when the receive buffer holds q.
KeyRead(q) ==
  LET sequence == SubSeq(q, 1, Consumed(q))
      code     == get_special_key_code(sequence)
  IN  IF code = NUL /\ sequence # <<>> THEN sequence[Len(sequence)] ELSE code

\* The table entry a key code is written with is the first of its entries,
\* so a backspace is sent as DEL.
get_special_key_sequence(c) ==
  LET i == CHOOSE i \in DOMAIN SPECIAL_KEY_SEQUENCES :
             /\ SPECIAL_KEY_SEQUENCES[i].code = c
             /\ \A j \in 1 .. i - 1 : SPECIAL_KEY_SEQUENCES[j].code # c
  IN  SPECIAL_KEY_SEQUENCES[i].sequence

\* The bytes kputch transmits for c; a line feed is preceded by a return.
kputch(c) ==
  IF \E k \in SpecialKeys : k.code = c THEN get_special_key_sequence(c)
  ELSE IF c = "LF" THEN <<"CR", "LF">>
  ELSE IF c = NUL THEN <<>>
  ELSE <<c>>
=============================================================================

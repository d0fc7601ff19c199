----------------------------- MODULE ShortNames -----------------------------
(***************************************************************************)
(* File names: what a user types or reads, "sh.txt", and the padded, upper *)
(* case form in a directory entry, "SH      TXT".  Both are sequences of   *)
(* characters; the lengths 8 and 3 are constants.                          *)
(***************************************************************************)
EXTENDS Naturals, Sequences, SequencesExt

CONSTANTS BASE, EXTENSION   \* the characters before and behind the dot

BLANK == " "
DOT == "."

\* The letters the models use, with their upper case, and the characters that
\* no name may have.
Upper == [a |-> "A", b |-> "B"]
Forbidden == {BLANK, "?"}

UpperCase(ch) == IF ch \in DOMAIN Upper THEN Upper[ch] ELSE ch

KEY == BASE + EXTENSION

REFUSED == << "refused" >>

Scan(key, pos, limit) == [key |-> key, pos |-> pos, limit |-> limit]

\* One turn of short_name's loop, at character i of the name.
NextCharacter(name, i, scan) ==
  CASE scan.key = REFUSED -> scan
    [] name[i] = DOT ->
         IF scan.pos = 0 \/ scan.limit = KEY \/ i = Len(name)
         THEN Scan(REFUSED, 0, 0) ELSE Scan(scan.key, BASE, KEY)
    [] OTHER ->
         IF scan.pos = scan.limit \/ name[i] \in Forbidden
         THEN Scan(REFUSED, 0, 0)
         ELSE Scan([scan.key EXCEPT ![scan.pos + 1] = UpperCase(name[i])],
                   scan.pos + 1, scan.limit)

\* The key of a name, REFUSED for a name that has none.
short_name(name) ==
  IF name = <<>> THEN REFUSED
  ELSE FoldLeft(LAMBDA scan, i : NextCharacter(name, i, scan),
                Scan([k \in 1 .. KEY |-> BLANK], 0, BASE),
                [k \in DOMAIN name |-> k]).key

UpToBlank(part) ==
  SubSeq(part, 1, SelectInSeq(part \o << BLANK >>, LAMBDA ch : ch = BLANK) - 1)

\* The name fat_next gives for an entry with this key.
ShownName(key) ==
  UpToBlank(SubSeq(key, 1, BASE)) \o
    IF key[BASE + 1] # BLANK
    THEN << DOT >> \o UpToBlank(SubSeq(key, BASE + 1, KEY)) ELSE <<>>
=============================================================================

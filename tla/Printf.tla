------------------------------- MODULE Printf -------------------------------
(***************************************************************************)
(* vprintf_base, the formatter behind printf, kprintf and sprintf: the     *)
(* directives of the format in order, each number divided down to digits.  *)
(* A directive carries its argument; number's recursion, which prints the  *)
(* higher digits first, is the sequence of digits it still has to print.   *)
(***************************************************************************)
EXTENDS Divmod, Sequences, SequencesExt

CONSTANTS
  Formats,     \* the calls: sequences of directives
  Divisions    \* operands the file system divides: pairs <<n, d>>

VARIABLES
  call,        \* the format of the call in progress, <<>> for none
  format,      \* what is left of it
  base,        \* the base of the number being printed, 0 for none
  digits,      \* its digits found so far
  out          \* the characters emitted

printVars == <<call, format, base, digits, out>>

DIGITS == <<"0", "1", "2", "3", "4", "5", "6", "7",
            "8", "9", "a", "b", "c", "d", "e", "f">>

Directive(kind, arg) == [kind |-> kind, arg |-> arg]

PrintInit ==
  DivInit /\ call = <<>> /\ format = <<>> /\ base = 0 /\ digits = <<>> /\ out = <<>>

\* The file system's own divisions, which nothing is printed from.
Divide ==
  /\ PrintInit /\ \E p \in Divisions : DivCall(p[1], p[2])
  /\ UNCHANGED printVars

Call ==
  /\ PrintInit
  /\ call' \in Formats /\ format' = call'
  /\ UNCHANGED <<base, digits, out, divVars>>

Return ==
  /\ ~PrintInit /\ format = <<>> /\ base = 0
  /\ call' = <<>> /\ out' = <<>>
  /\ Forget
  /\ UNCHANGED <<format, base, digits>>

\* The argument of %d as the number printed after its sign: 0u - value for a
\* negative one, so that the most negative int has its own magnitude.
Magnitude(value) == IF value < 0 THEN Word(0 - Word(value)) ELSE Word(value)

number(value, b) == DivCall(value, b) /\ base' = b

Emit(characters) ==
  out' = out \o characters /\ UNCHANGED <<base, divVars>>

directive(kind, arg) ==
  CASE kind \in {"char", "c"} -> Emit(<<arg>>)
    [] kind = "s" -> Emit(arg)
    [] kind = "%" -> Emit(<<"%">>)
    [] kind = "d" -> /\ out' = out \o (IF arg < 0 THEN <<"-">> ELSE <<>>)
                     /\ number(Magnitude(arg), 10)
    [] kind = "u" -> number(arg, 10) /\ UNCHANGED out
    [] kind = "x" -> number(arg, 16) /\ out' = out \o <<"0", "x">>
    [] OTHER -> Emit(<<>>)

vprintf_base ==
  /\ format # <<>> /\ base = 0
  /\ directive(Head(format).kind, Head(format).arg)
  /\ format' = Tail(format)
  /\ UNCHANGED <<call, digits>>

\* The digits as they are found, lowest first.
LowestFirst(digit) == Append(digits, digit)

WithHigherFirst(digit) == <<digit>> \o digits

\* A division of number returned: its remainder is the next digit, and the
\* rest is divided on until it is 0; then the digits are printed.
NextDigit ==
  /\ base # 0 /\ ~Dividing
  /\ LET found == WithHigherFirst(DIGITS[remainder + 1])
     IN  IF quotient # 0
         THEN number(quotient, base) /\ digits' = found /\ UNCHANGED out
         ELSE /\ out' = out \o found
              /\ base' = 0 /\ digits' = <<>>
              /\ UNCHANGED divVars
  /\ UNCHANGED <<call, format>>

PrintNext ==
  \/ Divide \/ Call \/ vprintf_base \/ NextDigit \/ Return
  \/ DivTurn /\ UNCHANGED printVars

-----------------------------------------------------------------------------
\* The numeral of n: position by position, without leading zeros.
Numeral(n, b) ==
  LET k == CHOOSE k \in 1 .. BITS :
             b ^ k > n /\ (k = 1 \/ b ^ (k - 1) <= n)
  IN  [j \in 1 .. k |-> DIGITS[((n \div b ^ (k - j)) % b) + 1]]

Meaning(kind, arg) ==
  CASE kind \in {"char", "c"} -> <<arg>>
    [] kind = "s" -> arg
    [] kind = "%" -> <<"%">>
    [] kind = "d" -> IF arg < 0 THEN <<"-">> \o Numeral(0 - arg, 10)
                     ELSE Numeral(arg, 10)
    [] kind = "u" -> Numeral(arg, 10)
    [] kind = "x" -> <<"0", "x">> \o Numeral(arg, 16)
    [] OTHER -> <<>>

\* vprintf_base (vsprintf.c:25): when a call ends, the characters emitted are
\* those of its directives in order, and every number reads as its value: all
\* digits, highest first, no leading zeros, with the sign of the most negative
\* int and the full range of %u and %x.
PrintsArguments ==
  call # <<>> /\ format = <<>> /\ base = 0 =>
    out = FlattenSeq([k \in DOMAIN call |-> Meaning(call[k].kind, call[k].arg)])
=============================================================================

----------------------------- MODULE MCLibrary ------------------------------
(***************************************************************************)
(* The sequential parts of the kernel and its library, side by side: the   *)
(* monitor's command line, the key decoding, the formatter, the program    *)
(* loader and the page allocator.  They share no state, so one of them     *)
(* runs at a time, and the others wait as they were at the start.          *)
(***************************************************************************)
EXTENDS Monitor, Hextee, Printf, Elf, Allocator

allVars == <<vars, monVars, received, divVars, printVars, elfVars, allocVars>>

LibraryInit == MonInit /\ HexInit /\ PrintInit /\ ElfInit /\ AllocInit

LibraryNext ==
  \/ /\ HexInit /\ PrintInit /\ ElfInit /\ AllocInit
     /\ MonNext /\ UNCHANGED <<received, divVars, printVars, elfVars, allocVars>>
  \/ /\ MonInit /\ PrintInit /\ ElfInit /\ AllocInit
     /\ HexNext /\ UNCHANGED <<vars, monVars, divVars, printVars, elfVars, allocVars>>
  \/ /\ MonInit /\ HexInit /\ ElfInit /\ AllocInit
     /\ PrintNext /\ UNCHANGED <<vars, monVars, received, elfVars, allocVars>>
  \/ /\ MonInit /\ HexInit /\ PrintInit /\ AllocInit
     /\ ElfNext /\ UNCHANGED <<vars, monVars, received, divVars, printVars, allocVars>>
  \/ /\ MonInit /\ HexInit /\ PrintInit /\ ElfInit
     /\ AllocNext /\ UNCHANGED <<vars, monVars, received, divVars, printVars, elfVars>>

LibrarySpec == LibraryInit /\ [][LibraryNext]_allVars

\* Commands of which one is the beginning of the other.
MCCommands == << [name |-> <<"a">>, handler |-> "help"],
                 [name |-> <<"a", "b">>, handler |-> "backtrace"] >>

\* Every value once for every conversion, and formats of several directives:
\* text around a number, arguments in order, an unknown directive, a % at the
\* end of the format.
MCFormats ==
  {<<Directive("d", v)>> : v \in -(2 ^ (BITS - 1)) .. 2 ^ (BITS - 1) - 1}
    \union {<<Directive(k, v)>> : k \in {"u", "x"}, v \in 0 .. 2 ^ BITS - 1}
    \union {<<Directive("char", "v"), Directive("d", -10), Directive("%", 0),
              Directive("x", 26), Directive("s", <<"a", "b">>), Directive("c", "c"),
              Directive("q", 0), Directive("u", 0), Directive("end", 0)>>}

MCDivisions == (0 .. 2 ^ BITS - 1) \X {1, 3, 10, 63, 64, 65, 127}

\* Program headers on both sides of every bound: pages of 4 bytes, images of 8,
\* files of 6, words of 4 bits.
Header(type, vaddr, memsz, filesz, off) ==
  [type |-> type, vaddr |-> vaddr, memsz |-> memsz, filesz |-> filesz,
   off |-> off, exec |-> vaddr # 2]

Load == {Header(1, vaddr, memsz, filesz, off) :
           vaddr \in {0, 2, 4, 7, 9, 15}, memsz \in {0, 1, 5, 8, 15},
           filesz \in {0, 1, 5, 15}, off \in {0, 2, 7, 15}}

Code == Header(1, 0, 5, 3, 1)

MCFiles ==
  {[valid |-> TRUE, entry |-> entry, ph |-> ph, size |-> 6] :
     entry \in {0, 2, 4},
     ph \in {<<h>> : h \in Load} \union {<<Code, h>> : h \in Load}
              \union {<<h, Code>> : h \in {Header(type, 0, 0, 0, 0) : type \in 0 .. 3}}
              \union {<<>>, <<Code, Code, Code>>}}
    \union {[valid |-> FALSE, entry |-> 0, ph |-> <<Code>>, size |-> 6]}
=============================================================================

------------------------------- MODULE Monitor ------------------------------
(***************************************************************************)
(* The kernel monitor: it reads a line into command_string (Gets), splits  *)
(* it in place with strtok, and runs the handler of the first word.  The   *)
(* buffer, argv and strtok's position are kept from one command to the     *)
(* next.                                                                   *)
(***************************************************************************)
EXTENDS Gets, SequencesExt

CONSTANTS
  ARG_COUNT_MAX,
  Commands     \* the command table: a sequence of [name, handler]

VARIABLES
  step,        \* "gets", "tokenize", "collect", "run"
  token,       \* the token strtok returned last
  last,        \* strtok's static position
  argv, handler

monVars == <<step, token, last, argv, handler>>

MonInit ==
  /\ Init
  /\ step = "gets" /\ token = NULL /\ last = NULL
  /\ argv = <<>> /\ handler = "none"

Strtok(found) ==
  buffer' = found.buffer /\ last' = found.last /\ token' = found.token

ReadKey == gets_base /\ UNCHANGED monVars

FirstToken ==
  /\ ~reading /\ step = "gets"
  /\ Strtok(strtok(buffer, 0, last, << BLANK >>))
  /\ argv' = <<>> /\ step' = "collect"
  /\ UNCHANGED <<buffer_index, reading, typed, cells, cursor, handler>>

AnotherToken == token # NULL /\ Len(argv) < ARG_COUNT_MAX

tokenize_command ==
  /\ step = "collect" /\ AnotherToken
  /\ argv' = Append(argv, token)
  /\ Strtok(strtok(buffer, NULL, last, << BLANK >>))
  /\ UNCHANGED <<buffer_index, reading, typed, cells, cursor, step, handler>>

get_command_handler(name) ==
  LET matches == {k \in DOMAIN Commands : strcmp(Commands[k].name, name) = 0}
  IN  IF matches = {} THEN "none" ELSE Commands[Min(matches)].handler

Lookup ==
  /\ step = "collect" /\ ~AnotherToken
  /\ step' = "run"
  /\ handler' = IF argv = <<>> THEN "none"
                ELSE get_command_handler(StringAt(buffer, argv[1]))
  /\ UNCHANGED <<vars, token, last, argv>>

\* The handler returns and the loop prompts again.  backtrace splits symbol
\* names of its own with strtok, whose position is then left in its frame.
RunHandler ==
  /\ step = "run"
  /\ CallAgain
  /\ step' = "gets" /\ handler' = "none"
  /\ last' \in IF handler = "backtrace" THEN {NULL, DANGLING} ELSE {last}
  /\ UNCHANGED <<token, argv>>

MonNext == ReadKey \/ FirstToken \/ tokenize_command \/ Lookup \/ RunHandler

-----------------------------------------------------------------------------
\* The blank-separated words of a line.
WordStarts(line) ==
  {k \in DOMAIN line : line[k] # BLANK /\ (k = 1 \/ line[k - 1] = BLANK)}

WordAt(line, k) ==
  SelectInSeq(SubSeq(line, k, Len(line)) \o << BLANK >>, LAMBDA c : c = BLANK)

Words(line) ==
  LET starts == SetToSortSeq(WordStarts(line), <)
  IN  [n \in DOMAIN starts |->
         SubSeq(line, starts[n], starts[n] + WordAt(line, starts[n]) - 2)]

\* monitor (monitor.c:27): a handler runs with the first ARG_COUNT_MAX words of
\* the line as it was typed and edited, and it is the one whose name is the
\* first word, not a longer or shorter one; whatever the buffer, argv and
\* strtok's static position still hold of earlier commands.
RunsCommandTyped ==
  step = "run" =>
    LET words == Words(typed)
        args  == SubSeq(words, 1, Min({ARG_COUNT_MAX, Len(words)}))
    IN  /\ [k \in DOMAIN argv |-> StringAt(buffer, argv[k])] = args
        /\ \A k \in DOMAIN Commands :
             handler = Commands[k].handler <=>
               args # <<>> /\ Commands[k].name = args[1]
=============================================================================

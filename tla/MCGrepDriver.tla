---------------------------- MODULE MCGrepDriver ----------------------------
(* Small commands for the driver: up to two files from two names.          *)
EXTENDS GrepDriver

CONSTANTS a, b

\* Every command line whose positional arguments are one of the sequences.
CommandsFrom(argLists, options, threads) ==
  [inputFiles: argLists, patternOption: options, countOnly: BOOLEAN, withFilename: BOOLEAN,
   threads: threads]

\* A pattern followed by no file, one file or two different files.
PatternFirst ==
  CommandsFrom({<<a>>, <<a, a>>, <<a, b>>, <<a, a, b>>, <<a, b, a>>}, {FALSE}, {1, 2})

\* With -e or -f and no threads, two files whose lines are printed.
PatternByOption ==
  {c \in CommandsFrom({<<a, b>>, <<b, a>>}, {TRUE}, {1}) : ~c.countOnly}

PromisedCommands == PatternFirst \union PatternByOption

\* README-icgrep.txt: "icgrep -f regexpf f"; and the same with two files and threads.
FromRegexFile ==
  CommandsFrom({<<a>>}, {TRUE}, {1}) \union CommandsFrom({<<a, b>>}, {TRUE}, {2})
=============================================================================

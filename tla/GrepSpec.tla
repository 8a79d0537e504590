------------------------------ MODULE GrepSpec ------------------------------
(***************************************************************************)
(* What the icgrep command promises, whatever threads it uses: the lines   *)
(* (with -c, the number of lines) of each file named on the command line   *)
(* that match, file by file, in the order of the command line.  The        *)
(* command either prints all of that at its end or is aborted, and then    *)
(* prints nothing.                                                         *)
(*                                                                         *)
(* The operators here read only the command and the files; GrepDriver      *)
(* implements this specification with a pool of threads.                   *)
(***************************************************************************)
EXTENDS Integers, Sequences, SequencesExt

VARIABLES
  command,   \* the parsed command line, see CommandRecord in GrepDriver
  disk,      \* what each file name stands for
  output,    \* what was written to std::cout, a sequence of tokens
  status     \* "running", "done" or "aborted"

specVars == <<command, disk, output, status>>

\* Positional arguments are numbered from 0, as in the code.
NumArgs == Len(command.inputFiles)
Arg(i) == command.inputFiles[i + 1]

\* The first positional argument is the pattern unless -e or -f gave one.
FirstFile == IF command.patternOption THEN 0 ELSE 1

\* File names are shown on request (-H) or when there are several files.
NamesShown == command.withFilename \/ NumArgs - FirstFile > 1

\* Lines of a file the pattern matches; only a regular file has any.
MatchingLines(name) ==
  IF disk[name].kind = "regular" THEN disk[name].lines ELSE 0

\* The tokens that std::cout receives.
NameToken(name) == IF NamesShown THEN << <<"name", name>> >> ELSE << >>
LineToken(name, k) == << <<"line", name, k>> >>
CountToken(k) == << <<"count", k>> >>

\* What is printed of one file.
FileReport(name) ==
  IF command.countOnly
  THEN NameToken(name) \o CountToken(MatchingLines(name))
  ELSE FlattenSeq([k \in 1..MatchingLines(name) |-> NameToken(name) \o LineToken(name, k)])

\* What is printed of all of them.
Report ==
  FlattenSeq([k \in 1..(NumArgs - FirstFile) |-> FileReport(Arg(FirstFile + k - 1))])

-----------------------------------------------------------------------------
SpecInit == output = << >> /\ status = "running"

Finish ==
  /\ status = "running"
  /\ status' = "done"
  /\ output' = Report
  /\ UNCHANGED <<command, disk>>

Abort ==
  /\ status = "running"
  /\ status' = "aborted"
  /\ UNCHANGED <<command, disk, output>>

SpecNext == Finish \/ Abort

\* The command ends, one way or the other.
Spec == SpecInit /\ [][SpecNext]_specVars /\ WF_specVars(SpecNext)
=============================================================================

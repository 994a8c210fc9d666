---------------------------- MODULE IncludeStack ----------------------------
(***************************************************************************)
(* Reading a reminder script: files.c, with the main loop of DoReminders.  *)
(*                                                                         *)
(* A script INCLUDEs files, directories of files and the output of         *)
(* commands.  Files are read from disk or, in several passes, from a cache *)
(* that the first pass fills.  While one file is read the ones that        *)
(* include it are closed; they are opened again when its end is reached.   *)
(* A pass executes the lines that no IF or RETURN makes it ignore.         *)
(*                                                                         *)
(* PopFile, OpenFile and IncludeFile call each other, so the static        *)
(* variables of files.c and ifelse.c are one record, rd, and the functions *)
(* take and return it.  Running out of memory is not modelled.             *)
(***************************************************************************)
EXTENDS IfStack

CONSTANTS
    Files,          \* the names of the files
    Dirs,           \* [directory names -> sequences of Files]: its *.rem files
    Cmds,           \* the commands an INCLUDECMD runs
    Bang,           \* the commands written with a !, which disables RUN
    InitialFile,    \* the script: a file or a directory
    Texts,          \* the contents the files and commands may have:
                    \*   functions from Files \cup Cmds to sequences of lines
    Trusted,        \* the files and directories the user or a trusted user owns
    INCLUDE_NEST,   \* the depth of the include stack (9)
    MaxCachedLines, \* $MaxCachedLines
    Passes,         \* Iterations: how often the script is read
    MayVanish       \* the files that may be removed while they are in use

ASSUME IncludeAssumption ==
    /\ INCLUDE_NEST \in Nat \ {0} /\ MaxCachedLines \in Nat /\ Passes \in Nat \ {0}
    /\ Bang \subseteq Cmds /\ MayVanish \subseteq Files
    /\ InitialFile \in Files \cup DOMAIN Dirs
    /\ \A d \in DOMAIN Dirs : Dirs[d] \in Seq(Files)

(* INCLUDE names a file, INCLUDECMD a command.  In the cache a command is  *)
(* known by its text and a |, which we take not to be the name of a file.  *)
ASSUME TextAssumption ==
    /\ Files \cap Cmds = {}
    /\ \A t \in Texts : \A f \in Files \cup Cmds :
          /\ t[f] \in Seq(Range(t[f]))
          /\ \A i \in DOMAIN t[f] : /\ t[f][i].op = "include"    => t[f][i].arg \notin Cmds
                                    /\ t[f][i].op = "includecmd" => t[f][i].arg \in Cmds

VARIABLES
    text,       \* what the files hold
    present,    \* the files that exist and may be read
    rd,         \* the state of files.c and ifelse.c, see NotReading
    runScript,  \* RunDisabled & RUN_SCRIPT
    pc,         \* "start" or "read" a pass; "done" or "failed"
    pass,       \* passes begun
    out,        \* history: the lines executed in this pass, and whether RUN was enabled
    firstOut    \* history: out of the first pass

vars == <<text, present, rd, runScript, pc, pass, out, firstOut>>

(* The fields of rd: FileName, where its lines come from (CLine, fp or     *)
(* neither), how many were read, IStack, CachedFiles with their ownedByMe, *)
(* CachedDirectoryChains, ShouldCache, RunDisabled & RUN_NOTOWNER and the  *)
(* fields of IfStack.                                                      *)
NotReading == [file |-> InitialFile, src |-> "none", pos |-> 0, stack |-> << >>,
               cache |-> << >>, listing |-> << >>, should |-> Passes > 1, notOwner |-> FALSE,
               ifs |-> << >>, base |-> 0, ret |-> FALSE]

-----------------------------------------------------------------------------
(* Where lines are taken from a cached file: a cache without lines is no   *)
(* CLine.                                                                  *)
FromCache(r, f) ==
    [r EXCEPT !.file = f, !.pos = 0, !.src = IF text[f] = << >> THEN "none" ELSE "cache",
              !.notOwner = ~r.cache[f]]

(* The map with this entry. *)
Put(map, key, value) == [k \in DOMAIN map \cup {key} |-> IF k = key THEN value ELSE map[k]]

CacheFile(r, f, owned) == [r EXCEPT !.cache = Put(@, f, owned)]

CanOpen(r, f) == f \in DOMAIN r.cache \/ f \in present

(* Faulty: a file of somebody else leaves RUN as it was. *)
OpenFileKeepsRun(r, f) ==
    IF f \in DOMAIN r.cache THEN FromCache(r, f)
    ELSE [r EXCEPT !.file = f, !.pos = 0, !.src = "disk"]

(* OpenFile, for a file that can be opened: from the cache, through the    *)
(* cache or, when it is too long for the cache, from disk.  CheckSafety    *)
(* disables RUN for a file of somebody else.                               *)
OpenFile(r, f) ==
    LET owned == f \in Trusted
    IN  IF f \in DOMAIN r.cache THEN FromCache(r, f)
        ELSE IF r.should /\ Len(text[f]) <= MaxCachedLines
        THEN FromCache(CacheFile(r, f, owned), f)
        ELSE [r EXCEPT !.file = f, !.pos = 0, !.src = "disk",
                       !.should = FALSE, !.notOwner = ~owned]

(* The first file of a directory's chain that can be opened; 0 is none. *)
FirstInChain(r, chain) ==
    LET able == {k \in DOMAIN chain : CanOpen(r, chain[k])}
    IN  IF able = {} THEN 0 ELSE Min(able)

After(chain, k) == SubSeq(chain, k + 1, Len(chain))

TopLevel(r) == Len(r.stack) <= 1

Outcome(r, what) == [rd |-> r, what |-> what]

(* Back to the including file i: read on from the cache or, if it was read *)
(* from disk, open it again.                                               *)
ReturnTo(r, i) ==
    LET back == [r EXCEPT !.stack = Front(@), !.file = i.file, !.pos = i.pos,
                          !.base = i.base, !.src = i.src, !.notOwner = ~i.owned]
    IN  CASE i.src # "disk" -> Outcome(back, "ok")
          [] i.src = "disk" /\ i.file \in present ->
               Outcome([back EXCEPT !.notOwner = i.file \notin Trusted], "ok")
          [] OTHER -> Outcome([back EXCEPT !.src = "none"], "cantopen")

(* PopFile: the end of a file.  Go on with the next file of the directory, *)
(* or with the including file.                                             *)
PopFile(r0) ==
    LET r == [pop_excess_ifs(r0) EXCEPT !.src = "none"]
        i == Last(r.stack)
        k == FirstInChain(r, i.chain)
        emptied == [r EXCEPT !.stack[Len(r.stack)].chain = << >>]
    IN  IF r.stack = << >> THEN Outcome(r, "eof")
        ELSE IF k # 0
        THEN Outcome(OpenFile([r EXCEPT !.stack[Len(r.stack)].chain = After(@, k)], i.chain[k]), "ok")
        ELSE IF TopLevel(r) THEN Outcome([r EXCEPT !.stack = << >>], "eof")
        ELSE ReturnTo(emptied, i)

(* glob: the files of a directory that exist, in their order. *)
Existing(files) ==
    LET found[n \in 0 .. Len(files)] ==
            IF n = 0 THEN << >>
            ELSE IF files[n] \in present THEN Append(found[n - 1], files[n]) ELSE found[n - 1]
    IN  found[Len(files)]

(* Faulty: a directory is listed again in each pass. *)
GlobAgain(r, d) == Existing(Dirs[d])

(* SetupGlobChain: the files a directory holds now or, when a pass is      *)
(* cached, held the first time.                                            *)
Glob(r, d) == IF d \in DOMAIN r.listing THEN r.listing[d] ELSE Existing(Dirs[d])

SetupGlobChain(r, d) ==
    IF r.should THEN [r EXCEPT !.listing = Put(@, d, Glob(r, d))] ELSE r

(* The start of IncludeFile and IncludeCmd: remember where we are.  saved  *)
(* is history: the IF stack at this point.                                 *)
Enter(r, owned, chain) ==
    [r EXCEPT !.stack = Append(@, [file |-> r.file, pos |-> r.pos, src |-> r.src, base |-> r.base,
                                   owned |-> owned, chain |-> chain, saved |-> r.ifs]),
              !.base = Len(r.ifs), !.src = "none"]

Failed(r) == Outcome(PopFile(r).rd, "error")

IncludeFile(r, f) ==
    IF Len(r.stack) >= INCLUDE_NEST THEN Outcome(r, "error")
    ELSE IF f \in DOMAIN Dirs
    THEN LET chain  == Glob(r, f)
             k      == FirstInChain(r, chain)
             listed == [SetupGlobChain(r, f) EXCEPT !.notOwner = f \notin Trusted]
             enter  == Enter(listed, ~r.notOwner, IF k = 0 THEN << >> ELSE After(chain, k))
         IN  IF k = 0 THEN Failed(enter) ELSE Outcome(OpenFile(enter, chain[k]), "ok")
    ELSE LET enter == Enter(r, ~r.notOwner, << >>)
         IN  IF CanOpen(r, f) THEN Outcome(OpenFile(enter, f), "ok") ELSE Failed(enter)

(* INCLUDECMD: what the command prints is read into the cache, whatever    *)
(* ShouldCache says; too much output turns it off.                         *)
IncludeCmd(r, c) ==
    LET inside == Enter(r, TRUE, << >>)
        told   == [inside EXCEPT !.notOwner = @ \/ c \in Bang]
    IN  IF Len(r.stack) >= INCLUDE_NEST THEN Outcome(r, "error")
        ELSE IF c \in DOMAIN r.cache THEN Outcome(FromCache(inside, c), "ok")
        ELSE IF Len(text[c]) <= MaxCachedLines
        THEN Outcome(FromCache(CacheFile(told, c, ~told.notOwner), c), "ok")
        ELSE Failed([told EXCEPT !.should = FALSE])

RunDisabled == rd.notOwner \/ runScript

-----------------------------------------------------------------------------
Init == /\ text \in Texts
        /\ present = Files
        /\ rd = NotReading
        /\ runScript = FALSE
        /\ pc = "start"
        /\ pass = 0
        /\ out = << >> /\ firstOut = << >>

(* PerIterationInit and the start of DoReminders. *)
StartPass ==
    /\ pc = "start"
    /\ LET o == IncludeFile(rd, InitialFile)
       IN  rd' = o.rd /\ pc' = IF o.what = "ok" THEN "read" ELSE "failed"
    /\ pass' = pass + 1
    /\ out' = << >>
    /\ UNCHANGED <<text, present, runScript, firstOut>>

(* ReadLine finds the end of a file.  At the end of the script the pass is *)
(* over.                                                                   *)
EndOfFile ==
    /\ pc = "read" /\ rd.src = "none"
    /\ LET o == PopFile(rd)
       IN  /\ rd' = o.rd
           /\ pc' = CASE o.what = "ok"       -> "read"
                      [] o.what = "cantopen" -> "failed"
                      [] o.what = "eof"      -> IF pass < Passes THEN "start" ELSE "done"
           /\ firstOut' = IF o.what = "eof" /\ pass = 1 THEN out ELSE firstOut
    /\ UNCHANGED <<text, present, runScript, pass, out>>

(* The lines of rd.file that were read once the next one is: the end of a  *)
(* cached file, and of a file on disk whose last line is not ended by a    *)
(* newline, is noticed at once.                                            *)
Line == text[rd.file][rd.pos + 1]
Advanced ==
    LET last == rd.pos + 1 = Len(text[rd.file])
    IN  {[rd EXCEPT !.pos = @ + 1, !.src = s] :
           s \in IF last THEN (IF rd.src = "cache" THEN {"none"} ELSE {"none", "disk"})
                 ELSE {rd.src}}

(* Faulty: reading goes on at the end of a file. *)
ReadPastEndAgain ==
    /\ pc = "read" /\ rd.src = "disk" /\ rd.pos = Len(text[rd.file])
    /\ rd' = [rd EXCEPT !.pos = @]
    /\ UNCHANGED <<text, present, runScript, pc, pass, out, firstOut>>

(* The end of a file on disk, found by reading an empty line. *)
ReadPastEnd ==
    /\ pc = "read" /\ rd.src = "disk" /\ rd.pos = Len(text[rd.file])
    /\ rd' = [rd EXCEPT !.src = "none"]
    /\ UNCHANGED <<text, present, runScript, pc, pass, out, firstOut>>

(* A line is read; r is the state of files.c after that. *)
Reads(op, r) ==
    /\ pc = "read" /\ rd.src # "none" /\ rd.pos < Len(text[rd.file])
    /\ Line.op = op /\ r \in Advanced

Executes(op, r) == Reads(op, r) /\ ~should_ignore_line(rd)

Block ==
    /\ \E r \in Advanced :
         \/ Reads("if", r)     /\ rd' = DoIf(r, Line.arg)
         \/ Reads("iftrig", r) /\ rd' = DoIfTrig(r, Line.arg)
         \/ Reads("else", r)   /\ rd' = encounter_else(r)
         \/ Reads("endif", r)  /\ rd' = encounter_endif(r)
    /\ UNCHANGED <<text, present, runScript, pc, pass, out, firstOut>>

Ignore ==
    /\ \E r \in Advanced : \E op \in {"rem", "return", "run", "include", "includecmd", "exit"} :
         Reads(op, r) /\ should_ignore_line(rd) /\ rd' = r
    /\ UNCHANGED <<text, present, runScript, pc, pass, out, firstOut>>

Include ==
    /\ \E r \in Advanced :
         \/ Executes("include", r) /\ rd' = IncludeFile(r, Line.arg).rd
         \/ /\ Executes("includecmd", r)
            /\ rd' = IF RunDisabled THEN r ELSE IncludeCmd(r, Line.arg).rd
    /\ UNCHANGED <<text, present, runScript, pc, pass, out, firstOut>>

Return ==
    /\ \E r \in Advanced : Executes("return", r) /\ rd' = DoReturn(r)
    /\ UNCHANGED <<text, present, runScript, pc, pass, out, firstOut>>

(* RUN OFF works anywhere, RUN ON in the top-level script only. *)
Run ==
    /\ \E r \in Advanced : Executes("run", r) /\ rd' = r
    /\ runScript' = CASE Line.arg = "off"                 -> TRUE
                      [] Line.arg = "on" /\ TopLevel(rd)  -> FALSE
                      [] OTHER                            -> runScript
    /\ UNCHANGED <<text, present, pc, pass, out, firstOut>>

(* Any other command, such as REM. *)
Rem ==
    /\ \E r \in Advanced : Executes("rem", r) /\ rd' = r
    /\ out' = Append(out, [file |-> rd.file, line |-> rd.pos + 1, run |-> ~RunDisabled])
    /\ UNCHANGED <<text, present, runScript, pc, pass, firstOut>>

Exit ==
    /\ \E r \in Advanced : Executes("exit", r) /\ rd' = r
    /\ pc' = "done"
    /\ UNCHANGED <<text, present, runScript, pass, out, firstOut>>

Vanish ==
    /\ pc \in {"start", "read"}
    /\ \E f \in MayVanish \cap present : present' = present \ {f}
    /\ UNCHANGED <<text, rd, runScript, pc, pass, out, firstOut>>

Stopped == pc \in {"done", "failed"} /\ UNCHANGED vars

Step == \/ StartPass \/ EndOfFile \/ ReadPastEnd \/ Block \/ Ignore
        \/ Include \/ Return \/ Run \/ Rem \/ Exit

Next == Step \/ Vanish \/ Stopped

Spec == Init /\ [][Next]_vars

FairSpec == Spec /\ WF_vars(Step)

-----------------------------------------------------------------------------
(* What reading a script promises. *)

Frames == DOMAIN rd.stack

(* should_ignore_line looks at the blocks of the file being read only.     *)
(* That is enough: a file is included from a line that is executed, and    *)
(* stays included, so every block it was included from is being executed.  *)
IncludedWhereExecuted == \A i \in 1 .. rd.base : Executing(rd.ifs[i])

(* Whatever an included file does with IF, ELSE, ENDIF and RETURN, however *)
(* it ends, the blocks of the files that include it are as they were, and  *)
(* a pass leaves no block, RETURN or includer for the next one; both       *)
(* stacks keep within their depth (push_if, pop_excess_ifs, IncludeFile).  *)
EnclosingBlocksUntouched ==
    /\ \A k \in Frames :
          LET above == IF k < Len(rd.stack) THEN rd.stack[k + 1].base ELSE rd.base
          IN  /\ above = Len(rd.stack[k].saved)
              /\ above <= Len(rd.ifs) /\ SubSeq(rd.ifs, 1, above) = rd.stack[k].saved
    /\ pc = "start" => Frames = {} /\ rd.ifs = << >> /\ rd.base = 0 /\ ~rd.ret
    /\ Len(rd.stack) <= INCLUDE_NEST /\ Len(rd.ifs) <= IF_NEST

(* RUN is enabled in the lines of a file, at the start of the file and     *)
(* after every INCLUDE in it, as the owner of that file demands: "If it    *)
(* reads a file you don't own, it will disable RUN" (remind.1).            *)
RunFollowsOwner ==
    pc = "read" /\ rd.src # "none" =>
        rd.notOwner = (IF rd.file \in Cmds THEN rd.file \in Bang ELSE rd.file \notin Trusted)

(* The lines of a history. *)
Where(h) == [i \in DOMAIN h |-> <<h[i].file, h[i].line>>]

(* A cached pass executes the lines that the first pass executed, even     *)
(* when the files are gone.                                                *)
PassesAgree == pc = "done" /\ pass = Passes /\ pass > 1 /\ rd.should => Where(out) = Where(firstOut)

(* Every script ends, even one that includes itself. *)
Terminates == <>(pc \in {"done", "failed"})
=============================================================================

----------------------------- MODULE UserFuncs ------------------------------
(***************************************************************************)
(* userfns.c: FSET, FUNSET, FRENAME, PUSH-FUNCS and POP-FUNCS.  FSET,      *)
(* FUNSET and FRENAME fold names to lower case; FindUserFunc and           *)
(* PUSH-FUNCS take them as they are.                                       *)
(***************************************************************************)
EXTENDS HashTable

CONSTANTS FuncNames,  \* function names as a script spells them
          FuncLower,  \* the lower-case form of a function name
          Builtins,   \* names of built-in functions
          FsetLines,  \* the FSET commands: file, line, name, arguments and body
          MAX_FUNC_ARGS

VARIABLES FuncHash, UserFuncStack

FindUserFunc(t, name) == hash_table_find(t, name)

FUnset(t, name) ==
    LET f == FindUserFunc(t, name) IN IF f = NULL THEN t ELSE hash_table_delete(t, f)

\* Lines of different files are taken for the same line.
FaultySameLine(f, cmd) == f # NULL /\ f.data.line = cmd.line

\* The function exists and this very line defined it; the command line has no lines.
SameLine(f, cmd) ==
    f # NULL /\ f.data.file = cmd.file /\ f.data.file # "[cmdline]" /\ f.data.line = cmd.line

InitUserFunctions == FuncHash = hash_table_init /\ UserFuncStack = << >>

\* Local variables are distinct without regard to case, and there are not too many.
ArgsOK(args) ==
    /\ Len(args) < MAX_FUNC_ARGS
    /\ \A i, j \in DOMAIN args : i # j => FuncLower[args[i]] # FuncLower[args[j]]

\* The command is complete: arguments, and a body that parses up to the end of the line.
Parses(cmd) == ArgsOK(cmd.args) /\ cmd.body # "bad"

NewFunc(cmd, constant) ==
    [file |-> cmd.file, line |-> cmd.line, body |-> cmd.body, been_pushed |-> FALSE,
     is_constant |-> constant]

(* FSET.  The new definition replaces the one with the same name once the  *)
(* whole command is parsed; on a line that is being skipped only constness *)
(* is recorded.                                                            *)
DoFset(cmd, ignoring, constant) ==
    LET name == FuncLower[cmd.name]
        existing == FindUserFunc(FuncHash, name)
    IN  /\ FuncHash' =
             CASE ignoring -> IF constant \/ existing = NULL THEN FuncHash
                              ELSE Update(FuncHash, existing, [existing.data EXCEPT !.is_constant = FALSE])
               [] ~ ignoring /\ (SameLine(existing, cmd) \/ name \in Builtins \/ ~ Parses(cmd)) -> FuncHash
               [] OTHER -> hash_table_insert(FUnset(FuncHash, name), name, NewFunc(cmd, constant))
        /\ UNCHANGED UserFuncStack

DoFunset(name) == FuncHash' = FUnset(FuncHash, FuncLower[name]) /\ UNCHANGED UserFuncStack

\* The function keeps its place in the table.
FaultyRename(t, oldname, newname) ==
    LET f == FindUserFunc(t, oldname)  u == FUnset(t, newname)
    IN  IF oldname = newname THEN t
        ELSE IF f = NULL THEN u
        ELSE [u EXCEPT !.buckets[BucketOf(u, f.hashval)] =
                [i \in DOMAIN @ |-> IF @[i] = f THEN [f EXCEPT !.key = newname] ELSE @[i]]]

RenameUserFunc(t, oldname, newname) ==
    LET f == FindUserFunc(t, oldname)  u == FUnset(t, newname)
    IN  IF oldname = newname THEN t
        ELSE IF f = NULL THEN u
        ELSE hash_table_insert(hash_table_delete(u, f), newname, f.data)

DoFrename(old, new) ==
    /\ FuncHash' = IF {FuncLower[old], FuncLower[new]} \cap Builtins # {} THEN FuncHash
                   ELSE RenameUserFunc(FuncHash, FuncLower[old], FuncLower[new])
    /\ UNCHANGED UserFuncStack

(* PUSH-FUNCS clones each function as it was, NULL for one there is not,   *)
(* and marks the original so that redefining it is not warned about.       *)
clone_userfunc(t, name) ==
    LET src == FindUserFunc(t, name)
    IN  [name |-> name, data |-> IF src = NULL THEN NULL ELSE src.data]

MarkPushed(t, name) ==
    LET src == FindUserFunc(t, name)
    IN  IF src = NULL THEN t ELSE Update(t, src, [src.data EXCEPT !.been_pushed = TRUE])

\* Each function is cloned and marked before the next; built-ins are passed over.
ClonesAndMarks(t, names) ==
    LET after[i \in 0 .. Len(names)] ==
            IF i = 0 THEN [table |-> t, clones |-> << >>]
            ELSE LET was == after[i - 1]
                 IN  IF names[i] \in Builtins THEN was
                     ELSE [table  |-> MarkPushed(was.table, names[i]),
                           clones |-> Append(was.clones, clone_userfunc(was.table, names[i]))]
    IN  after[Len(names)]

PushUserFuncs(names) ==
    LET all == ClonesAndMarks(FuncHash, names)
    IN  /\ FuncHash' = all.table
        /\ UserFuncStack' = IF all.clones = << >> THEN UserFuncStack ELSE <<all.clones>> \o UserFuncStack

\* What a POP-FUNCS puts in the place of the functions there are, in the order of the PUSH-FUNCS.
RestoreFunc(t, clone) ==
    LET u == FUnset(t, clone.name)
    IN  IF clone.data = NULL THEN u ELSE hash_table_insert(u, clone.name, clone.data)

RestoreFuncs(t, clones) ==
    LET after[i \in 0 .. Len(clones)] == IF i = 0 THEN t ELSE RestoreFunc(after[i - 1], clones[i])
    IN  after[Len(clones)]

PopUserFuncs ==
    /\ UserFuncStack # << >>
    /\ FuncHash' = RestoreFuncs(FuncHash, Head(UserFuncStack))
    /\ UserFuncStack' = Tail(UserFuncStack)
=============================================================================
